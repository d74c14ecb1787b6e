---------------------------- MODULE MCCalls ----------------------------
(* Calls of the house: an inbound call up its ladder (two phones, two rungs
   and a mailbox), and the components that place, hold, drop or announce
   calls. One component moves in each behaviour. *)
EXTENDS MCRingLadder, Integers, FiniteSets, Sequences, TLC

VARIABLES
    part,           \* which component this behaviour is of
    r1, r2, r3, r4, r5, r6, r7, r8, r9, r10, r11, r12, r13, r14, r15, r16   \* where its variables are

cells == <<r1, r2, r3, r4, r5, r6, r7, r8, r9, r10, r11, r12, r13, r14, r15, r16>>

BedWindows ==
    { [start |-> 0, end |-> 2, days |-> {0, 1}],
      [start |-> 2, end |-> 1, days |-> {0, 2}],
      [start |-> 2, end |-> 0, days |-> {1}],
      [start |-> 1, end |-> 1, days |-> {0}] }

Bed == INSTANCE Bedtime WITH
    Slots <- 3, Week <- 3, Windows <- BedWindows, MaxTime <- 9, MaxCalls <- 2,
    MaxEvents <- 1,
    time <- r1, curfew <- r2, rendered <- r3, dnd <- r4, calls <- r5, ringing <- r6,
    keeper <- r7, looked <- r8, fell <- r9, placed <- r10, events <- r11

WayAccount ==
    << [number |-> "4", active |-> TRUE, id |-> "c2", name |-> "b"],
       [number |-> "2", active |-> TRUE, id |-> "c1", name |-> "a"],
       [number |-> "3", active |-> TRUE, id |-> "", name |-> "a"],
       [number |-> "5", active |-> FALSE, id |-> "", name |-> ""] >>

WayConnections ==
    << [id |-> "c2", name |-> "b", user |-> "other"],
       [id |-> "c1", name |-> "a", user |-> "conn"] >>

Way == INSTANCE WayOut WITH
    Handsets <- {"k", "b"}, DefaultTrunk <- "v", Account <- WayAccount,
    Connections <- WayConnections, PageSize <- 2, MaxEdits <- 1,
    file <- r1, phones <- r2, endpoints <- r3, plant <- r4, render <- r5, console <- r6,
    audit <- r7, edits <- r8

PhonesHandsets ==
    [ a |-> [mac |-> TRUE, model |-> "m", secrets |-> TRUE],
      b |-> [mac |-> TRUE, model |-> "m", secrets |-> TRUE],
      c |-> [mac |-> FALSE, model |-> "m", secrets |-> FALSE] ]

Phones == INSTANCE PhoneWindow WITH
    Handsets <- PhonesHandsets, Templated <- {"m"}, Addrs <- {"i"}, QueueLimit <- 1,
    MaxFetches <- 2, MaxTroubles <- 1,
    win <- r1, exit <- r2, seen <- r3, contact <- r4, queue <- r5, crt <- r6, key <- r7,
    served <- r8, phone <- r9, life <- r10, fetches <- r11, troubles <- r12

CreditGroups == [k |-> <<"k">>, all |-> <<"k", "conf", "b">>]

Credit == INSTANCE CreditAlarm WITH
    Trunks <- {"v", "t"}, Unwatched <- {"f"}, RingIds <- <<"k", "all">>,
    Groups <- CreditGroups, Pseudo <- {"conf"}, PerDay <- 3, Jitter <- 1, Repeat <- 3,
    Threshold <- 2, MaxTime <- 3, MaxMishaps <- 1,
    clock <- r1, credit <- r2, ranToday <- r3, pc <- r4, results <- r5, began <- r6,
    rang <- r7, due <- r8, next <- r9, channel <- r10, clip <- r11, seenUp <- r12,
    heard <- r13, blind <- r14, told <- r15, mishaps <- r16

Listen == INSTANCE ListenIn WITH
    Titles <- 1, PageSize <- 1, Chapters <- 2, ChapterLen <- 3, Window <- 3, PromptLen <- 1,
    WaitLen <- 2, Total <- 6, Warning <- 3, EndLead <- 1,
    mode <- r1, at <- r2, answered <- r3, key <- r4, now <- r5, warned <- r6, page <- r7,
    armed <- r8, failures <- r9, kind <- r10, book <- r11, pos <- r12, saved <- r13,
    paused <- r14

GamePacks ==
    { [questions |-> {[tier |-> 1, pins |-> (1 :> 1)]}, tiers |-> 1, perTier |-> 1, lines |->
       {"room"}],
      [questions |-> {}, tiers |-> 1, perTier |-> 1, lines |-> {"room"}],
      [questions |-> {[tier |-> 1, pins |-> (1 :> 1 @@ 2 :> 1)]}, tiers |-> 1, perTier |-> 1,
       lines |-> {"room"}] }

GameHandsetOf == [h1 |-> "k", x |-> "other", o1 |-> "o"]

Game == INSTANCE PhoneGame WITH
    Packs <- GamePacks, Options <- {1, 2, 3}, Callers <- {"h1", "x"}, Legs <- {"o1"},
    HandsetOf <- GameHandsetOf, Handsets <- {"k", "o"}, Prompts <- {"room"}, MaxMembers <- 2,
    MaxQueue <- 2, MaxWire <- 1, LeaveTo <- {"gone"}, MaxMishaps <- 1,
    pack <- r1, previous <- r2, chan <- r3, wire <- r4, dismissing <- r5, closed <- r6,
    seats <- r7, room <- r8, queue <- r9, bridge <- r10, muted <- r11,
    lost <- r12, heard <- r13, mishaps <- r14

-----------------------------------------------------------------------------
SuiteInit ==
    /\ Init
    /\ \/ part = "ring" /\ r1 = 0 /\ r2 = 0 /\ r3 = 0 /\ r4 = 0 /\ r5 = 0 /\ r6 = 0 /\
             r7 = 0 /\ r8 = 0 /\ r9 = 0 /\ r10 = 0 /\ r11 = 0 /\ r12 = 0 /\
             r13 = 0 /\ r14 = 0 /\ r15 = 0 /\ r16 = 0
       \/ part = "bed" /\ Bed!Init /\ r12 = 0 /\ r13 = 0 /\ r14 = 0 /\ r15 = 0 /\ r16 =
             0
       \/ part = "way" /\ Way!Init /\ r9 = 0 /\ r10 = 0 /\ r11 = 0 /\ r12 = 0 /\ r13 = 0
             /\ r14 = 0 /\ r15 = 0 /\ r16 = 0
       \/ part = "window" /\ Phones!Init /\ r13 = 0 /\ r14 = 0 /\ r15 = 0 /\ r16 = 0
       \/ part = "credit" /\ Credit!Init
       \/ part = "listen" /\ Listen!Init /\ r15 = 0 /\ r16 = 0
       \/ part = "game" /\ Game!Init /\ r15 = 0 /\ r16 = 0

RingSteps == part = "ring" /\ Next /\ UNCHANGED <<part, cells>>
BedSteps == part = "bed" /\ Bed!Next /\ UNCHANGED <<part, vars, r12, r13, r14, r15, r16>>
WaySteps == part = "way" /\ Way!Next /\ UNCHANGED <<part, vars, r9, r10, r11, r12, r13, r14, r15, r16>>
WindowSteps == part = "window" /\ Phones!Next /\ UNCHANGED <<part, vars, r13, r14, r15, r16>>
CreditSteps == part = "credit" /\ Credit!Next /\ UNCHANGED <<part, vars>>
ListenSteps == part = "listen" /\ Listen!Next /\ UNCHANGED <<part, vars, r15, r16>>
GameSteps == part = "game" /\ Game!Next /\ UNCHANGED <<part, vars, r15, r16>>

SuiteNext == RingSteps \/ BedSteps \/ WaySteps \/ WindowSteps \/ CreditSteps \/ ListenSteps \/
    GameSteps
suiteVars == <<part, vars, cells>>

SuiteSpec ==
    /\ SuiteInit /\ [][SuiteNext]_suiteVars
-----------------------------------------------------------------------------
\* A phone that sleeps is left alone whichever way a call comes, each call
\* that was up is dropped at the hour, and the rendered dialplan agrees with
\* the daemon on the hour, unless a window has no length.
BedtimeHolds ==
    /\ [](part = "bed" => Bed!TypeOK /\ Bed!DialplanAgrees /\ Bed!DroppedAtTheHour)
    /\ [][part = "bed" => Bed!SleepersAreLeftAlone]_cells

\* An emergency call finds a way out over whatever is up, no call shows a
\* number its trunk does not own, and what the audit of the numbers says is
\* true.
WayOutHolds ==
    part = "way" =>
        /\ Way!TypeOK
        /\ Way!EmergencyConnects
        /\ Way!CallsAreHonest
        /\ Way!AuditIsTrue

\* The window in which phones fetch their files never reports a phone that did
\* not fetch, and never presents a certificate with another key.
WindowHolds ==
    part = "window" => Phones!TypeOK /\ Phones!ExitIsTrue /\ Phones!PairIsServed

\* A low account is rung about and remembered only when a phone was told, and
\* the phones ring in order up to the first that hears it.
CreditHolds ==
    part = "credit" => Credit!TypeOK /\ Credit!HouseIsTold /\ Credit!OneHears

\* Nobody is played past the limit of their call, and a bookmark is where they
\* stopped.
ListeningHolds ==
    /\ [](part = "listen" => Listen!ListenerIsKept)
    /\ [][part = "listen" => Listen!PlaceIsKept]_cells

\* No invited handset is left ringing or alone in the room, but for one whose
\* invitation lost its reply; whoever only hears the game is silent, and each
\* answer has its own button.
GameHolds ==
    part = "game" =>
        /\ Game!TypeOK
        /\ Game!NobodyIsLeft
        /\ Game!SidelineIsSilent
        /\ Game!OnlyHandsets
        /\ Game!AnswersAreTheirs
=============================================================================
