---------------------------- MODULE MCStores ----------------------------
(* What survives a restart, an interruption and a lost event: the ladder
   behind a queue of one event, and the components that keep files other
   processes read. One component moves in each behaviour. *)
EXTENDS Integers, FiniteSets, Sequences, TLC

CONSTANTS
    NoLeg,
    Fetchers, CardEdits, CardMishaps    \* ContactBook: the daemon, and `check` where it fetches too

VARIABLES
    part,           \* which component this behaviour is of
    r1, r2, r3, r4, r5, r6, r7, r8, r9, r10, r11, r12, r13, r14, r15, r16, r17, r18,
    r19, r20, r21, r22, r23, r24   \* where its variables are

cells == <<r1, r2, r3, r4, r5, r6, r7, r8, r9, r10, r11, r12, r13, r14, r15, r16, r17, r18, r19, r20,
          r21, r22, r23, r24>>

FaultsLadder == <<{"kitchen", "den"}, {"kitchen"}>>

Faults == INSTANCE RingLadder WITH
    Handset <- {"kitchen", "den"}, Ladder <- FaultsLadder, Mailbox <- TRUE, QueueCap <- 1,
    ReplyLoss <- FALSE, WireLoss <- TRUE, NoLeg <- NoLeg,
    pc <- r1, stage <- r2, todo <- r3, pending <- r4, legs <- r5, dialled <- r6,
    winner <- r7, cancelled <- r8, release <- r9, queue <- r10, bridgeID <- r11,
    outcome <- r12, answeredBy <- r13, posted <- r14, handedOff <- r15, routes <- r16,
    registered <- r17, router <- r18, orphans <- r19, wire <- r20, legState <- r21,
    caller <- r22, bridge <- r23, endedBy <- r24

Policy == INSTANCE PolicyStore WITH
    MaxEdits <- 2, MaxCrashes <- 2,
    policy <- r1, trunks <- r2, copies <- r3, link <- r4, release <- r5, daemon <- r6,
    running <- r7, fallback <- r8, rotation <- r9, raced <- r10, edits <- r11,
    crashes <- r12

Lobby == INSTANCE LobbyPass WITH
    MaxDepth <- 1, MaxEdits <- 2, MaxStops <- 2,
    books <- r1, selected <- r2, copy <- r3, daemon <- r4, stamp <- r5, read <- r6,
    set <- r7, accepted <- r8, raced <- r9, edits <- r10, stops <- r11

Pack == INSTANCE PackStore WITH
    Archives <- 1..2, Clips <- 2, MaxTakes <- 4, MaxMishaps <- 3,
    versions <- r1, registry <- r2, progress <- r3, cache <- r4, job <- r5, env <- r6,
    service <- r7, told <- r8, takes <- r9, mishaps <- r10

Author == INSTANCE PackAuthor WITH
    Clips <- {"a", "b"}, Wordings <- 1..2, MaxEdits <- 3, MaxMishaps <- 1,
    text <- r1, recording <- r2, declared <- r3, built <- r4, sidecar <- r5, build <- r6,
    archive <- r7, heard <- r8, cut <- r9, edits <- r10, mishaps <- r11

ShelfBooks ==
    { [id |-> "a", rev |-> 1, preview |-> FALSE],
      [id |-> "a", rev |-> 2, preview |-> TRUE],
      [id |-> "b", rev |-> 1, preview |-> FALSE] }

ShelfSources == {{[id |-> "b", rev |-> 1, preview |-> FALSE]}}

ShelfArchives ==
    { [op |-> "audiobook", book |-> [id |-> "a", rev |-> 1, preview |-> FALSE], flaw |-> "none"],
      [op |-> "preview", book |-> [id |-> "a", rev |-> 2, preview |-> TRUE], flaw |-> "none"],
      [op |-> "recorded", book |-> [id |-> "b", rev |-> 1, preview |-> FALSE], flaw |-> "decode"] }

Shelf == INSTANCE BookLibrary WITH
    Publishers <- {"p", "q"}, Callers <- {"c"}, Books <- ShelfBooks, Sources <- ShelfSources,
    Archives <- ShelfArchives, MaxOps <- 3,
    kind <- r1, dirs <- r2, unsynced <- r3, catalog <- r4, menus <- r5, pending <- r6,
    prompts <- r7, library <- r8, pubs <- r9, callers <- r10, ops <- r11, powerLost <- r12

PodcastListings ==
    { <<[guid |-> "x", version |-> 1]>>,
      <<[guid |-> "y", version |-> 1], [guid |-> "x", version |-> 2]>> }

Podcast == INSTANCE PodcastWorker WITH
    Handsets <- {"h"}, Feeds <- {"f", "g"}, Pilot <- "g", Listings <- PodcastListings,
    Keep <- 1, Attempts <- 1, Retry <- 1, Poll <- 2, MaxTime <- 1, MaxEdits <- 1,
    subs <- r1, offered <- r2, state <- r3, catalog <- r4, broken <- r5, run <- r6,
    status <- r7, edit <- r8, now <- r9, edits <- r10

\* The owned titles, each a source of its own; one sandbox source of several.
MediaSources == << <<<<"a">>, <<"b">>>>, <<<<"b", "a", "c">>>> >>

Media(n) == INSTANCE MediaDelivery WITH
    Sources <- MediaSources[n], Bad <- {"a"}, Passes <- {"p", "q"}, MaxSeq <- 4,
    MaxFaults <- 2,
    server <- r1, outbox <- r2, library <- r3, archives <- r4, lock <- r5, pass <- r6,
    stuck <- r7, faults <- r8

Carries(includes, contacts, pass) == [includes |-> includes, contacts |-> contacts, pass |-> pass, there |-> TRUE]
HouseOf(contacts, lists) == [house |-> contacts, lists |-> lists]

\* Two phones that move while a book changes; an inventory and a book that
\* change, and change back, while they are read; a phone's own numbers.
DirectoriesFiles ==
    LET x(n) == Carries(IF n = 1 THEN <<"y", "house">> ELSE <<"y">>, IF n = 1 THEN {"c1", "c2"} ELSE {"c1"}, FALSE)
        y == Carries(<<>>, {"c2", "c3"}, FALSE)
        two == HouseOf({"h"}, [p |-> <<"house", "x">>, q |-> <<"y">>])
        one == HouseOf({"h"}, [p |-> <<"house", "x", "y">>])
        alone == HouseOf({"h"}, [p |-> <<"house", "x">>])
        fewer == HouseOf({"h", "g"}, [p |-> <<"y">>])
    IN << << [handsets |-> two, x |-> x(1), y |-> y], [handsets |-> two, x |-> x(2), y |-> y] >>,
          << [handsets |-> one, x |-> x(1), y |-> y], [handsets |-> fewer, x |-> x(2), y |-> y],
             [handsets |-> one, x |-> x(1), y |-> y] >>,
          << [handsets |-> alone, x |-> Carries(<<"house">>, {"c1"}, FALSE)],
             [handsets |-> alone, x |-> Carries(<<>>, {"c1"}, TRUE)] >> >>

DirectoriesRecordings ==
    { [id |-> "r1", phone |-> "p", number |-> "n", dials |-> TRUE],
      [id |-> "r2", phone |-> "p", number |-> "none", dials |-> FALSE] }

Directories(n) == INSTANCE PhoneBook WITH
    Phones <- IF n = 1 THEN {"p", "q"} ELSE {"p"}, Deliveries <- DirectoriesFiles[n],
    MaxDepth <- 2, Slots <- 1,
    Recordings <- IF n = 3 THEN DirectoriesRecordings ELSE {},
    Addrs <- IF n = 1 THEN {"i", "j", "k"} ELSE {"i", "j"},
    FirstAddr <- IF n = 1 THEN [p |-> "i", q |-> "j"] ELSE [p |-> "i"],
    MaxMoves <- <<2, 0, 1>>[n], MaxMishaps <- <<1, 0, 1>>[n],
    files <- r1, delivered <- r2, spool <- r3, own <- r4, filer <- r5, reader <- r6,
    cache <- r7, push <- r8, flight <- r9, addr <- r10, holds <- r11, moves <- r12,
    mishaps <- r13

Feed(url, kind, token) == [id |-> "u", url |-> url, kind |-> kind, token |-> token]
Export(kind) == [id |-> "p", url |-> "none", kind |-> kind, token |-> FALSE]
Named(sources) == [there |-> sources # <<>>, refresh |-> 1, sources |-> sources]

\* The second moves the feed to another address; the fourth names it twice.
CardsConfs ==
    { Named(<<Feed("here", "admit", TRUE), Export("block")>>), Named(<<Feed("there", "admit", FALSE)>>),
      Named(<<Export("admit")>>), Named(<<Feed("here", "block", FALSE), Feed("here", "admit", FALSE)>>), Named(<<>>) }

CardsVersions == <<
    <<[t |-> "begin"], [t |-> "n", v |-> "ann"], [t |-> "tel", v |-> 1, types |-> {"cell"}], [t |-> "end"],
      [t |-> "begin"], [t |-> "tel", v |-> 2, types |-> {"work"}], [t |-> "fn", v |-> "bo"], [t |-> "end"]>>,
    <<[t |-> "begin"], [t |-> "fn", v |-> "cy"], [t |-> "begin"], [t |-> "tel", v |-> 1, types |-> {}], [t |-> "end"], [t |-> "junk"],
      [t |-> "org"], [t |-> "tel", v |-> 3, types |-> {"cell"}], [t |-> "end"]>> >>

Cards == INSTANCE ContactBook WITH
    Confs <- CardsConfs, Versions <- CardsVersions, Feeds <- {"u"}, Paths <- {"p"},
    Urls <- {"here", "there"}, Dated <- {"there"},
    TollFree <- {3}, Listed <- {2}, Fetchers <- Fetchers, MaxEdits <- CardEdits, MaxMishaps <- CardMishaps,
    conf <- r1, server <- r2, file <- r3, data <- r4, meta <- r5, tmp <- r6, fetch <- r7,
    book <- r8, said <- r9, edits <- r10, mishaps <- r11, torn <- r12

-----------------------------------------------------------------------------
SuiteInit ==
    \/ part = "faults" /\ Faults!Init
    \/ part = "policy" /\ Policy!Init /\ r13 = 0 /\ r14 = 0 /\ r15 = 0 /\ r16 = 0 /\
             r17 = 0 /\ r18 = 0 /\ r19 = 0 /\ r20 = 0 /\ r21 = 0 /\ r22 = 0 /\
             r23 = 0 /\ r24 = 0
    \/ part = "pass" /\ Lobby!Init /\ r12 = 0 /\ r13 = 0 /\ r14 = 0 /\ r15 = 0 /\ r16
             = 0 /\ r17 = 0 /\ r18 = 0 /\ r19 = 0 /\ r20 = 0 /\ r21 = 0 /\ r22
             = 0 /\ r23 = 0 /\ r24 = 0
    \/ part = "pack" /\ Pack!Init /\ r11 = 0 /\ r12 = 0 /\ r13 = 0 /\ r14 = 0 /\ r15
             = 0 /\ r16 = 0 /\ r17 = 0 /\ r18 = 0 /\ r19 = 0 /\ r20 = 0 /\ r21
             = 0 /\ r22 = 0 /\ r23 = 0 /\ r24 = 0
    \/ part = "author" /\ Author!Init /\ r12 = 0 /\ r13 = 0 /\ r14 = 0 /\ r15 = 0 /\
             r16 = 0 /\ r17 = 0 /\ r18 = 0 /\ r19 = 0 /\ r20 = 0 /\ r21 = 0 /\
             r22 = 0 /\ r23 = 0 /\ r24 = 0
    \/ part = "lib" /\ Shelf!Init /\ r13 = 0 /\ r14 = 0 /\ r15 = 0 /\ r16 = 0 /\ r17
             = 0 /\ r18 = 0 /\ r19 = 0 /\ r20 = 0 /\ r21 = 0 /\ r22 = 0 /\ r23
             = 0 /\ r24 = 0
    \/ part = "podcast" /\ Podcast!Init /\ r11 = 0 /\ r12 = 0 /\ r13 = 0 /\ r14 = 0
             /\ r15 = 0 /\ r16 = 0 /\ r17 = 0 /\ r18 = 0 /\ r19 = 0 /\ r20 = 0
             /\ r21 = 0 /\ r22 = 0 /\ r23 = 0 /\ r24 = 0
    \/ part = "media" /\ (\E n \in 1..2 : r9 = n /\ Media(n)!Init) /\ r10 = 0 /\ r11 = 0 /\ r12 = 0 /\ r13
             = 0 /\ r14 = 0 /\ r15 = 0 /\ r16 = 0 /\ r17 = 0 /\ r18 = 0 /\ r19
             = 0 /\ r20 = 0 /\ r21 = 0 /\ r22 = 0 /\ r23 = 0 /\ r24 = 0
    \/ part = "books" /\ (\E n \in 1..3 : r14 = n /\ Directories(n)!Init) /\ r15 = 0 /\ r16 = 0 /\ r17 = 0
             /\ r18 = 0 /\ r19 = 0 /\ r20 = 0 /\ r21 = 0 /\ r22 = 0 /\ r23 = 0
             /\ r24 = 0
    \/ part = "contacts" /\ Cards!Init /\ r13 = 0 /\ r14 = 0 /\ r15 = 0 /\
             r16 = 0 /\ r17 = 0 /\ r18 = 0 /\ r19 = 0 /\ r20 = 0 /\ r21 = 0 /\
             r22 = 0 /\ r23 = 0 /\ r24 = 0

FaultsSteps == part = "faults" /\ Faults!Next /\ UNCHANGED <<part>>
PolicySteps == part = "policy" /\ Policy!Next /\ UNCHANGED <<part, r13, r14, r15, r16, r17, r18, r19, r20, r21, r22, r23,
        r24>>
PassSteps == part = "pass" /\ Lobby!Next /\ UNCHANGED <<part, r12, r13, r14, r15, r16, r17, r18, r19, r20, r21, r22,
        r23, r24>>
PackSteps == part = "pack" /\ Pack!Next /\ UNCHANGED <<part, r11, r12, r13, r14, r15, r16, r17, r18, r19, r20, r21,
        r22, r23, r24>>
AuthorSteps == part = "author" /\ Author!Next /\ UNCHANGED <<part, r12, r13, r14, r15, r16, r17, r18, r19, r20, r21, r22,
        r23, r24>>
LibSteps == part = "lib" /\ Shelf!Next /\ UNCHANGED <<part, r13, r14, r15, r16, r17, r18, r19, r20, r21, r22, r23,
        r24>>
PodcastSteps == part = "podcast" /\ Podcast!Next /\ UNCHANGED <<part, r11, r12, r13, r14, r15, r16, r17, r18, r19, r20, r21,
        r22, r23, r24>>
MediaSteps == part = "media" /\ (\E n \in 1..2 : r9 = n /\ Media(n)!Next) /\ UNCHANGED <<part, r9, r10, r11, r12, r13, r14, r15, r16, r17, r18, r19,
        r20, r21, r22, r23, r24>>
BooksSteps == part = "books" /\ (\E n \in 1..3 : r14 = n /\ Directories(n)!Next) /\ UNCHANGED <<part, r14, r15, r16, r17, r18, r19, r20, r21, r22, r23, r24>>
ContactsSteps == part = "contacts" /\ Cards!Next /\ UNCHANGED <<part, r13, r14, r15, r16, r17, r18, r19, r20, r21, r22,
        r23, r24>>

SuiteNext == FaultsSteps \/ PolicySteps \/ PassSteps \/ PackSteps \/ AuthorSteps \/ LibSteps \/
    PodcastSteps \/ MediaSteps \/ BooksSteps \/ ContactsSteps
suiteVars == <<part, cells>>

SuiteSpec ==
    /\ SuiteInit /\ [][SuiteNext]_suiteVars

\* The address books alone.
ContactsSpec == SuiteInit /\ part = "contacts" /\ [][ContactsSteps]_suiteVars
-----------------------------------------------------------------------------
\* Events lost in transit or in a full queue hold a caller longer, but never
\* bridge a leg that did not answer nor forget one unhung.
LostEventsHold ==
    /\ [](part = "faults" => Faults!UnansweredNeverBridged)
    /\ [][part = "faults" => Faults!LegsAreHungUp]_cells

\* The copies the house falls back on are whole, and of what was accepted: the
\* policy, with trunks that may be newer than those it was accepted with, and
\* who rings straight through.
LastGoodHolds ==
    /\ (part = "policy" => Policy!TypeOK /\ Policy!LastGoodIsGood)
    /\ (part = "pass" => Lobby!TypeOK /\ Lobby!AdmitsTheAccepted)

\* No call plays half a voice, nor words other than the script's unless a build
\* was killed over them; what is reported switched plays; and a hand edit is undone
\* only by a command that read the file before it.
PackHolds ==
    /\ [](part = "pack" => Pack!TypeOK /\ Pack!NamedIsWhole /\ Pack!NothingInTheWay)
    /\ [](part = "author" => Author!TypeOK /\ Author!HeardAsWritten)
    /\ [][part = "pack" => Pack!SaysWhatItDid /\ Pack!EditsStay]_cells
    /\ [][part = "author" => Author!WrittenIsAccepted]_cells

\* What a caller listens to stays on the disk while they listen, the catalog
\* names nothing that is not there, and an import takes no title away.
LibraryHolds ==
    /\ [](part = "lib" => Shelf!ShelfIsWhole)
    /\ [][part = "lib" => Shelf!BooksStay]_cells

\* A refresh, failed or not, leaves every feed as many episodes as were ready
\* to play.
EpisodesStay ==
    [][part = "podcast" => Podcast!EpisodesStay]_cells

\* A delivery is reported installed when it is, its story is told once and in
\* order, no source holds up another, and no two passes work on one archive.
DeliveryHolds ==
    /\ [](part = "media" => \E n \in 1..2 : r9 = n
             /\ Media(n)!TypeOK
             /\ Media(n)!InstalledIsTrue
             /\ Media(n)!NeverStuck
             /\ Media(n)!Independent
             /\ Media(n)!OneArchive)
    /\ [][part = "media" => \E n \in 1..2 : r9 = n /\ Media(n)!OneStory /\ Media(n)!NotRepeated]_cells

\* A phone's directory is of one version of each file, and of one moment unless
\* a file was put back; what counts as delivered is what the phone holds, and a
\* name it was given stays.
BooksHold ==
    /\ [](part = "books" => \E n \in 1..3 : r14 = n
             /\ Directories(n)!TypeOK
             /\ Directories(n)!ServedIsWhole
             /\ Directories(n)!DoneIsHeld
             /\ Directories(n)!NumbersAreFiled)
    /\ [][part = "books" => \E n \in 1..3 : r14 = n /\ Directories(n)!NamesStay]_cells

\* A fetched address book in use is whole, its tag is its own and it is what its
\* address serves but where a fetch was cut or the address moved; merging and
\* cutting lend a card nothing.
ContactsHold ==
    /\ [](part = "contacts" =>
             /\ Cards!TypeOK
             /\ Cards!HalfIsNeverSeen
             /\ Cards!TagIsOfCopy
             /\ Cards!MergeIsCautious
             /\ Cards!CutLendsNothing)
    /\ [][part = "contacts" => Cards!SourcesStay /\ Cards!CurrentIsServed]_cells

\* No half-written address book is looked up in, whoever else fetches it.
HalfIsNeverSeen == part = "contacts" => Cards!HalfIsNeverSeen
=============================================================================
