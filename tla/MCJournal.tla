---------------------------- MODULE MCJournal ----------------------------
(* What the house keeps and what it tells the cloud: the event journal under
   full queues, breakdowns and crashes; and the components that write to it,
   read from it, or speak with the account service and the edge. One
   component moves in each behaviour. *)
EXTENDS EventJournal, Integers

\* The constants of the components the theorems are about; the others are
\* given below.
CONSTANTS
    Callers, MaxBoxes, MaxTokens, MaxLost,                  \* AccountStore
    MaxQueued, MaxLosses, MaxLogins,                        \* SyncBell
    Backups, MaxUploadMishaps,                              \* BackupUpload
    JournalCalls, Target, MaxEvents, Chunk, Limit, ScanLimit, MaxRows, MaxTroubles   \* JournalReaders

\* Tokens and bundles are numbered from 1, a page and a scan have room and the
\* doorbell an endpoint; the bounds are numbers.
ASSUME SuiteAssumption ==
    /\ MaxTokens \in Nat \ {0} /\ MaxLost \in Nat
    /\ Backups \subseteq Nat \ {0} /\ MaxUploadMishaps \in Nat
    /\ MaxEvents \in Nat /\ Chunk \in Nat /\ Limit \in Nat \ {0} /\ ScanLimit \in Nat \ {0}
    /\ Target # {}

VARIABLES
    part,           \* which component this behaviour is of
    r1, r2, r3, r4, r5, r6, r7, r8, r9, r10, r11, r12, r13, r14, r15, r16   \* where its variables are

cells == <<r1, r2, r3, r4, r5, r6, r7, r8, r9, r10, r11, r12, r13, r14, r15, r16>>

\* Readers, Bell, Account and Uploads come with the modules of their proofs, whose
\* theorems JournalProofs carries over to this suite.

CelContext == [c \in {"in", "out"} |-> IF c = "in" THEN "from-trunk" ELSE "internal"]

Cel == INSTANCE CelIngest WITH
    Chan <- {"in", "out"}, Context <- CelContext, Batch <- 2, Keep <- 2, StateCap <- 1,
    MaxRows <- 3, MaxMishaps <- 2,
    source <- r1, rows <- r2, next <- r3, take <- r4, stage <- r5, written <- r6,
    mishaps <- r7, progress <- r8, channels <- r9, journal <- r10, batch <- r11

Readers == INSTANCE JournalReadersProofs WITH
    Call <- JournalCalls, MaxMishaps <- MaxTroubles,
    rows <- r1, high <- r2, floor <- r3, connected <- r4, target <- r5, delivered <- r6,
    ringing <- r7, answered <- r8, heard <- r9, cursor <- r10, got <- r11, expired <- r12,
    troubles <- r13

\* A book delivered and named, and withdrawn again: in the order that keeps every
\* named book held, and in the other, which nothing forbids.
SyncVerbs ==
    [ deliver |-> <<[does |-> "put", to |-> 1, before |-> 0], [does |-> "select"]>>,
      withdraw |-> <<[does |-> "unselect"], [does |-> "remove", before |-> 1]>>,
      nameAndDeliver |-> <<[does |-> "select"], [does |-> "put", to |-> 1, before |-> 0]>>,
      removeAndForget |-> <<[does |-> "remove", before |-> 1], [does |-> "unselect"]>> ]

\* Bound: a history has the two commands of one order.
Orders == {{"deliver", "withdraw"}, {"nameAndDeliver", "removeAndForget"}}

Sync == INSTANCE SyncMachine WITH
    Items <- DOMAIN SyncVerbs, Verbs <- SyncVerbs, Kept <- 1, MaxEdits <- 1, MaxMishaps <- 1,
    files <- r1, running <- r2, echo <- r3, revisions <- r4, ledger <- r5, pass <- r6,
    published <- r7, service <- r8, edits <- r9, mishaps <- r10, raced <- r11

Bell == INSTANCE SyncBellProofs WITH
    pending <- r1, queuedSoFar <- r2, losses <- r3, credential <- r4, good <- r5,
    socket <- r6, signal <- r7, pong <- r8, bell <- r9, up <- r10, rings <- r11,
    changed <- r12, loop <- r13, receipt <- r14, kicks <- r15, follow <- r16

Account == INSTANCE AccountStoreProofs WITH
    v <- r1, caller <- r2, command <- r3, box <- r4, current <- r5, successor <- r6,
    minted <- r7, ceremony <- r8, lost <- r9

Uploads == INSTANCE BackupUploadProofs WITH
    MaxMishaps <- MaxUploadMishaps,
    v <- r1, file <- r2, run <- r3, made <- r4, reserved <- r5, box <- r6,
    reported <- r7, mishaps <- r8

BackupEnabled == {{"s3"}, {"file", "cloud"}}

Backup == INSTANCE BackupRun WITH
    HouseFiles <- {"env"}, OtherFiles <- {"tokens"}, Credentials <- {"tokens"},
    Enabled <- BackupEnabled, Daily <- 1, Weekly <- 1, MaxTime <- 2, MaxEdits <- 2,
    MaxMishaps <- 1,
    now <- r1, disk <- r2, kept <- r3, ident <- r4, enabled <- r5, enrolled <- r6,
    store <- r7, last <- r8, run <- r9, mishaps <- r10

RecoveryBoxes == {"source", "replacement"}

Recovery == INSTANCE RecoverySheet WITH
    Boxes <- RecoveryBoxes, Files <- {"a", "b"}, MaxGens <- 2, MaxMishaps <- 2,
    grant <- r1, op <- r2, sheets <- r3, cipher <- r4, staging <- r5, root <- r6,
    receipt <- r7, cmd <- r8, gens <- r9, bundles <- r10, held <- r11, mishaps <- r12

InboxMsg ==
    [ c1 |-> [kind |-> "card", to |-> {}, good |-> TRUE],
      c2 |-> [kind |-> "card", to |-> {}, good |-> TRUE],
      add |-> [kind |-> "addto", to |-> {"a", "house"}, good |-> TRUE],
      bad |-> [kind |-> "addto", to |-> {}, good |-> TRUE],
      both |-> [kind |-> "cardto", to |-> {"a"}, good |-> TRUE],
      junk |-> [kind |-> "cardto", to |-> {"a"}, good |-> FALSE],
      cancel |-> [kind |-> "cancel", to |-> {}, good |-> TRUE],
      act |-> [kind |-> "act", to |-> {}, good |-> TRUE],
      up |-> [kind |-> "upload", to |-> {"a", "house"}, good |-> TRUE] ]

\* Bound: the mixes of texts that come through one mishap, and those of them
\* that come through two.
InboxMixes ==
    { {"act"},
      {"c1", "c2"},
      {"c1", "add"},
      {"c1", "cancel"},
      {"c1", "junk"},
      {"c1", "both"},
      {"c1", "bad"},
      {"both", "up"} }
TwiceMixes == { {"act"}, {"c1", "cancel"} }

Inbox == INSTANCE InboxReader WITH
    Msg <- InboxMsg, PullLimit <- 3, SeenKeep <- 4, Quiet <- 1, Choice <- 1, Total <- 2,
    SaveAttempts <- 2, MaxTime <- 3, MaxMishaps <- 2, Mixes <- InboxMixes,
    now <- r1, mishaps <- r2, may <- r3, edge <- r4, come <- r5, seen <- r6, shelf <- r7,
    disk <- r8, book <- r9, acts <- r10, declined <- r11, offered <- r12, attempts <- r13,
    loop <- r14, job <- r15

\* An hour that comes twice and one that is left out.  Bound: through the whole of
\* it one call and one reminder, up to its first time two of each.
Reminder == INSTANCE Reminders WITH
    Jobs <- {"a", "b"}, Menus <- {"m", "n"}, MaxPending <- 1, Tries <- 2,
    Wall <- <<"w0", "w1", "w1">>, Keyed <- {"w1", "w2"}, MaxMishaps <- 1,
    now <- r1, meta <- r2, audio <- r3, queue <- r4, due <- r5, asked <- r6, tries <- r7,
    attempt <- r8, menu <- r9, lock <- r10, heard <- r11, mishaps <- r12

MailConf ==
    << [box |-> "kids", emails |-> {}, refused |-> 1],
       [box |-> "kids", emails |-> {"kid"}, refused |-> 1] >>

Mail == INSTANCE VoicemailMail WITH
    Msgs <- {"m1", "m2"}, Backlog <- {"m1"}, Boxes <- {"family", "kids"},
    Left <- [m1 |-> 0, m2 |-> 1], Conf <- MailConf, MailTo <- {"house"},
    Runs <- {"r", "s"}, Window <- 0, Days <- 0, MaxTime <- 1, MaxMishaps <- 1,
    now <- r1, inbox <- r2, put <- r3, news <- r4, rung <- r5, list <- r6, lock <- r7,
    run <- r8, mailed <- r9, letters <- r10, links <- r11, printed <- r12, mishaps <- r13

-----------------------------------------------------------------------------
SuiteInit ==
    /\ Init
    /\ \/ part = "journal" /\ r1 = 0 /\ r2 = 0 /\ r3 = 0 /\ r4 = 0 /\ r5 = 0 /\ r6 = 0
             /\ r7 = 0 /\ r8 = 0 /\ r9 = 0 /\ r10 = 0 /\ r11 = 0 /\ r12 = 0 /\
             r13 = 0 /\ r14 = 0 /\ r15 = 0 /\ r16 = 0
       \/ part = "cel" /\ Cel!Init /\ r12 = 0 /\ r13 = 0 /\ r14 = 0 /\ r15 = 0 /\ r16 =
             0
       \/ part = "readers" /\ Readers!Init /\ r14 = 0 /\ r15 = 0 /\ r16 = 0
       \/ part = "sync" /\ Sync!Init /\ r12 = 0 /\ r13 = 0 /\ r14 = 0 /\ r15 = 0 /\ r16
             = 0
       \/ part = "bell" /\ Bell!Init
       \/ part = "account" /\ Account!Init /\ r10 = 0 /\ r11 = 0 /\ r12 = 0 /\ r13 = 0
             /\ r14 = 0 /\ r15 = 0 /\ r16 = 0
       \/ part = "upload" /\ Uploads!Init /\ r9 = 0 /\ r10 = 0 /\ r11 = 0 /\ r12 = 0 /\
             r13 = 0 /\ r14 = 0 /\ r15 = 0 /\ r16 = 0
       \/ part = "backup" /\ Backup!Init /\ r11 = 0 /\ r12 = 0 /\ r13 = 0 /\ r14 = 0 /\
             r15 = 0 /\ r16 = 0
       \/ part = "recovery" /\ Recovery!Init /\ r13 = 0 /\ r14 = 0 /\ r15 = 0 /\ r16 = 0
       \/ part = "inbox" /\ Inbox!Init /\ r16 = 0
       \/ part = "reminder" /\ Reminder!Init /\ r13 = 0 /\ r14 = 0 /\ r15 = 0 /\ r16 = 0
       \/ part = "mail" /\ Mail!Init /\ r14 = 0 /\ r15 = 0 /\ r16 = 0

JournalSteps == part = "journal" /\ Next /\ UNCHANGED <<part, cells>>
CelSteps == part = "cel" /\ Cel!Next /\ UNCHANGED <<part, vars, r12, r13, r14, r15, r16>>
ReadersSteps == part = "readers" /\ Readers!Next /\ UNCHANGED <<part, vars, r14, r15, r16>>
SyncSteps ==
    /\ part = "sync" /\ Sync!Next
    /\ \E order \in Orders : \A i \in DOMAIN SyncVerbs \ order : r8'.item[i].state = "unborn"
    /\ UNCHANGED <<part, vars, r12, r13, r14, r15, r16>>
BellSteps == part = "bell" /\ Bell!Next /\ UNCHANGED <<part, vars>>
AccountSteps == part = "account" /\ Account!Next /\ UNCHANGED <<part, vars, r10, r11, r12, r13, r14, r15, r16>>
UploadSteps == part = "upload" /\ Uploads!Next /\ UNCHANGED <<part, vars, r9, r10, r11, r12, r13, r14, r15, r16>>
BackupSteps == part = "backup" /\ Backup!Next /\ UNCHANGED <<part, vars, r11, r12, r13, r14, r15, r16>>
RecoverySteps == part = "recovery" /\ Recovery!Next /\ UNCHANGED <<part, vars, r13, r14, r15, r16>>
InboxSteps ==
    /\ part = "inbox" /\ Inbox!Next
    /\ r2' <= 1 \/ \E mix \in TwiceMixes : DOMAIN r5' \subseteq mix
    /\ UNCHANGED <<part, vars, r16>>
ReminderSteps ==
    /\ part = "reminder" /\ Reminder!Next
    /\ r1' <= 2 \/ (r9'["n"] = Reminder!Idle /\ r2'["b"] = "none" /\ r4'["b"] = "none")
    /\ UNCHANGED <<part, vars, r13, r14, r15, r16>>
MailSteps == part = "mail" /\ Mail!Next /\ UNCHANGED <<part, vars, r14, r15, r16>>

SuiteNext == JournalSteps \/ CelSteps \/ ReadersSteps \/ SyncSteps \/ BellSteps \/ AccountSteps \/
    UploadSteps \/ BackupSteps \/ RecoverySteps \/ InboxSteps \/ ReminderSteps \/
    MailSteps
suiteVars == <<part, vars, cells>>

SuiteSpec ==
    /\ SuiteInit /\ [][SuiteNext]_suiteVars
-----------------------------------------------------------------------------
\* Every number of Asterisk's log is told once or counted in a gap, no call is
\* summed up without its beginning, and no reused number is passed over.
CelHolds ==
    /\ [](part = "cel" => Cel!EveryRowAccounted /\ Cel!NothingIsInvented)
    /\ [][part = "cel" => Cel!NoReusedNumberPassed]_cells

\* Nobody is acknowledged what they were not told, a page skips no row of a
\* call, and a call has one summary.
ReadersHold ==
    part = "readers" =>
        /\ Readers!TypeOK
        /\ Readers!AcknowledgedWasHeard
        /\ Readers!NothingSkipped
        /\ Readers!OneSummaryPerCall

\* A command of the cloud is applied once, over what its author saw, and answered
\* only after its snapshot; one whose books come first never leaves a handset
\* naming a missing book.
SyncHolds ==
    /\ [](part = "sync" => Sync!TypeOK /\ Sync!AnswersStand)
    /\ [][part = "sync" =>
            /\ Sync!NamedBooksAreHeld
            /\ Sync!LocalWorkIsKept
            /\ Sync!SnapshotBeforeReceipt
            /\ Sync!AppliedAtMostOnce]_cells

\* No command waits at the slow pace because of when it was queued, and no
\* receipt is left without somebody who looks.
BellHolds ==
    part = "bell" => Bell!TypeOK /\ Bell!NobodyWaitsSlowly /\ Bell!SomebodyLooks

\* While the service holds the enrolment live, no late answer has signed the box
\* out and its next token is taken; and the service revokes it only for a request
\* that a rotation overtook.
AccountHolds ==
    /\ [](part = "account" =>
             /\ Account!TypeOK
             /\ Account!LiveStaysSignedIn
             /\ Account!NextTokenIsTaken)
    /\ [][part = "account" => Account!OnlyTheOvertakenRevoke]_cells

\* A bundle that is owed can still be read, and one that is reported is
\* stored.
UploadHolds ==
    part = "upload" =>
        /\ Uploads!TypeOK
        /\ Uploads!PendingIsReadable
        /\ Uploads!ReportedIsStored

\* A run that says verified left a bundle that opens, prunes only what a newer
\* one of the house replaces, and a restore loses no version of a house file.
BackupHolds ==
    [][part = "backup" => Backup!LastIsTrue /\ Backup!PruneIsOld /\ Backup!NothingIsLost]_cells

\* Whatever is lost on the way, the phrase of the current generation is in the
\* owner's hands, a restored root is whole or not there, and an operation is
\* forgotten only when it is settled.
RecoveryHolds ==
    /\ [](part = "recovery" =>
             /\ Recovery!TypeOK
             /\ Recovery!NobodyIsLockedOut
             /\ Recovery!RootIsWhole)
    /\ [][part = "recovery" => Recovery!OpIsSettled]_cells

\* A text whose mark is not lost acts once, a card the edge was told is handled is
\* in a book or on the shelf's disk or was given up, nothing is saved where nobody
\* asked, and what the sender was told is not saved stays out.
InboxHolds ==
    /\ [](part = "inbox" =>
             /\ Inbox!TypeOK
             /\ Inbox!ActsOnce
             /\ Inbox!CardsAreAccounted
             /\ Inbox!NothingUnasked)
    /\ [][part = "inbox" => Inbox!DeclinedStaysOut]_cells

\* A committed reminder rings once, with its recording and at its time, and
\* never after it was cancelled.
RemindersHold ==
    /\ [](part = "reminder" =>
             /\ Reminder!TypeOK
             /\ Reminder!PlaysOnce
             /\ Reminder!NotTooMany
             /\ Reminder!DueIsAsked)
    /\ [][part = "reminder" => Reminder!SavedIsKept /\ Reminder!CancelledIsSilent]_cells

\* A message is mailed once, to its box's own addresses as far as they could
\* be read, and its link plays for its days and only to the family's networks.
VoicemailHolds ==
    part = "mail" =>
        /\ Mail!MailedOnce
        /\ Mail!NewsIsMailed
        /\ Mail!OwnAddress
        /\ Mail!LinksLast
=============================================================================
