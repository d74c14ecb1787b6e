---------------------------- MODULE MCLive ----------------------------
(* What must happen in the end, on instances small enough for every cycle to
   be examined. One component moves in each behaviour, under its own fairness
   and nobody else's. *)
EXTENDS Integers, FiniteSets, Sequences, TLC

CONSTANTS NoLeg, NoChoice

VARIABLES
    part,           \* which component this behaviour is of
    ringPc, ringStage, ringTodo, ringPending, ringLegs, ringDialled, ringWinner,
    ringCancelled, ringRelease, ringQueue, ringBridgeID, ringOutcome, ringAnsweredBy,
    ringPosted, ringHandedOff, ringRoutes, ringRegistered, ringRouter, ringOrphans,
    ringWire, ringLegState, ringCaller, ringBridge, ringEndedBy,
    menuEndsCall, menuEndsPinFails, menuEndsSumFails, menuEndsNow,
    journalClean, journalRecorded, journalDeclared, journalPc, journalQueue,
    journalHolding, journalSeen, journalPending, journalDegraded, journalClosed,
    journalDraining, journalCancelled, journalBroken, journalBreaks, journalLives,
    journalPosted, journalLost, journalExcess, journalForgotten, journalOwed,
    journalLate,
    readersRows, readersHigh, readersFloor, readersConnected, readersTarget,
    readersDelivered, readersRinging, readersAnswered, readersHeard, readersCursor,
    readersGot, readersExpired, readersTroubles,
    syncFiles, syncRunning, syncEcho, syncRevisions, syncLedger, syncPass,
    syncPublished, syncService, syncEdits, syncMishaps, syncRaced,
    bellPending, bellQueuedSoFar, bellLosses, bellCredential, bellGood, bellSocket,
    bellSignal, bellPong, bellBell, bellUp, bellRings, bellChanged, bellLoop,
    bellReceipt, bellKicks, bellFollow,
    uploadV, uploadFile, uploadRun, uploadMade, uploadReserved, uploadBox,
    uploadReported, uploadMishaps,
    policyPolicy, policyTrunks, policyCopies, policyLink, policyRelease, policyDaemon,
    policyRunning, policyFallback, policyRotation, policyRaced, policyEdits,
    policyCrashes, policyMost,
    passBooks, passSelected, passCopy, passDaemon, passStamp, passRead, passSet,
    passAccepted, passRaced, passEdits, passStops,
    packVersions, packRegistry, packProgress, packCache, packJob, packEnv, packService,
    packTold, packTakes, packMishaps

ringVars == <<ringPc, ringStage, ringTodo, ringPending, ringLegs, ringDialled, ringWinner, ringCancelled,
        ringRelease, ringQueue, ringBridgeID, ringOutcome, ringAnsweredBy, ringPosted,
        ringHandedOff, ringRoutes, ringRegistered, ringRouter, ringOrphans, ringWire,
        ringLegState, ringCaller, ringBridge, ringEndedBy>>
menuEndsVars == <<menuEndsCall, menuEndsPinFails, menuEndsSumFails, menuEndsNow>>
journalVars == <<journalClean, journalRecorded, journalDeclared, journalPc, journalQueue, journalHolding,
        journalSeen, journalPending, journalDegraded, journalClosed, journalDraining,
        journalCancelled, journalBroken, journalBreaks, journalLives, journalPosted,
        journalLost, journalExcess, journalForgotten, journalOwed, journalLate>>
readersVars == <<readersRows, readersHigh, readersFloor, readersConnected, readersTarget, readersDelivered,
        readersRinging, readersAnswered, readersHeard, readersCursor, readersGot,
        readersExpired, readersTroubles>>
syncVars == <<syncFiles, syncRunning, syncEcho, syncRevisions, syncLedger, syncPass, syncPublished,
        syncService, syncEdits, syncMishaps, syncRaced>>
bellVars == <<bellPending, bellQueuedSoFar, bellLosses, bellCredential, bellGood, bellSocket, bellSignal,
        bellPong, bellBell, bellUp, bellRings, bellChanged, bellLoop, bellReceipt,
        bellKicks, bellFollow>>
uploadVars == <<uploadV, uploadFile, uploadRun, uploadMade, uploadReserved, uploadBox,
        uploadReported, uploadMishaps>>
policyVars == <<policyPolicy, policyTrunks, policyCopies, policyLink, policyRelease, policyDaemon,
        policyRunning, policyFallback, policyRotation, policyRaced, policyEdits,
        policyCrashes, policyMost>>
passVars == <<passBooks, passSelected, passCopy, passDaemon, passStamp, passRead, passSet, passAccepted,
        passRaced, passEdits, passStops>>
packVars == <<packVersions, packRegistry, packProgress, packCache, packJob, packEnv, packService,
        packTold, packTakes, packMishaps>>
cells == <<ringVars, menuEndsVars, journalVars, readersVars, syncVars, bellVars, uploadVars,
          policyVars, passVars, packVars>>

Rings == INSTANCE RingLadder WITH
    Handset <- {"kitchen", "den"}, Ladder <- <<{"kitchen"}, {"den"}>>, Mailbox <- FALSE,
    QueueCap <- 64, ReplyLoss <- FALSE, WireLoss <- FALSE, NoLeg <- NoLeg,
    pc <- ringPc, stage <- ringStage, todo <- ringTodo, pending <- ringPending,
    legs <- ringLegs, dialled <- ringDialled, winner <- ringWinner,
    cancelled <- ringCancelled, release <- ringRelease, queue <- ringQueue,
    bridgeID <- ringBridgeID, outcome <- ringOutcome, answeredBy <- ringAnsweredBy,
    posted <- ringPosted, handedOff <- ringHandedOff, routes <- ringRoutes,
    registered <- ringRegistered, router <- ringRouter, orphans <- ringOrphans,
    wire <- ringWire, legState <- ringLegState, caller <- ringCaller, bridge <- ringBridge,
    endedBy <- ringEndedBy

MenusTier == [n \in {"n"} |-> "stranger"]

MenusChoices == "front" :> ("1" :> [kind |-> "extension", target |-> NoChoice, challenge |-> FALSE, goodbye |-> FALSE] @@
             "2" :> [kind |-> "menu", target |-> "more", challenge |-> FALSE, goodbye |-> FALSE]) @@
    "more" :> ("1" :> [kind |-> "recording", target |-> NoChoice, challenge |-> FALSE, goodbye |-> FALSE] @@
               "2" :> [kind |-> "shelf", target |-> NoChoice, challenge |-> FALSE, goodbye |-> FALSE])

Menus == INSTANCE LobbyDoor WITH
    NoChoice <- NoChoice, Call <- {"c"}, Number <- {"n"}, Tier <- MenusTier,
    PinLengths <- {1}, MaxPinAttempts <- 1, MaxFailures <- 2, Window <- 1, Horizon <- 1,
    HasMenu <- TRUE, FrontMenu <- "front", Digit <- {"1", "2"}, Choices <- MenusChoices,
    Repeat <- 1, MenuMaxPlays <- 3, AnswerDigits <- 2, OnNoInput <- "voicemail",
    ChallengeNoInput <- FALSE,
    call <- menuEndsCall, pinFails <- menuEndsPinFails, sumFails <- menuEndsSumFails,
    now <- menuEndsNow

Writer == INSTANCE EventJournal WITH
    QueueCap <- 1, MaxPosts <- 3, MaxBreaks <- 1, MaxTries <- 1, MaxLives <- 2,
    clean <- journalClean, recorded <- journalRecorded, declared <- journalDeclared,
    pc <- journalPc, queue <- journalQueue, holding <- journalHolding, seen <- journalSeen,
    pending <- journalPending, degraded <- journalDegraded, closed <- journalClosed,
    draining <- journalDraining, cancelled <- journalCancelled, broken <- journalBroken,
    breaks <- journalBreaks, lives <- journalLives, posted <- journalPosted,
    lost <- journalLost, excess <- journalExcess, forgotten <- journalForgotten,
    owed <- journalOwed, late <- journalLate

Readers == INSTANCE JournalReaders WITH
    Call <- {"c"}, Target <- {"a", "b"}, MaxEvents <- 2, Chunk <- 1, Limit <- 1, ScanLimit <- 1,
    MaxRows <- 2, MaxMishaps <- 1,
    rows <- readersRows, high <- readersHigh, floor <- readersFloor,
    connected <- readersConnected, target <- readersTarget, delivered <- readersDelivered,
    ringing <- readersRinging, answered <- readersAnswered, heard <- readersHeard,
    cursor <- readersCursor, got <- readersGot, expired <- readersExpired,
    troubles <- readersTroubles

SyncVerbs ==
    [ give |-> <<[does |-> "put", to |-> 1, before |-> 0], [does |-> "select"]>>,
      drop |-> <<[does |-> "unselect"], [does |-> "remove", before |-> 1]>>,
      update |-> <<[does |-> "put", to |-> 2, before |-> 1]>> ]

Sync == INSTANCE SyncMachine WITH
    Items <- {"give"}, Verbs <- SyncVerbs, Kept <- 1, MaxEdits <- 1, MaxMishaps <- 1,
    files <- syncFiles, running <- syncRunning, echo <- syncEcho, revisions <- syncRevisions,
    ledger <- syncLedger, pass <- syncPass, published <- syncPublished,
    service <- syncService, edits <- syncEdits, mishaps <- syncMishaps, raced <- syncRaced

Bell == INSTANCE SyncBell WITH
    MaxQueued <- 0, MaxLosses <- 1, MaxLogins <- 1,
    pending <- bellPending, queuedSoFar <- bellQueuedSoFar, losses <- bellLosses,
    credential <- bellCredential, good <- bellGood, socket <- bellSocket,
    signal <- bellSignal, pong <- bellPong, bell <- bellBell, up <- bellUp,
    rings <- bellRings, changed <- bellChanged, loop <- bellLoop, receipt <- bellReceipt,
    kicks <- bellKicks, follow <- bellFollow

Uploads == INSTANCE BackupUpload WITH
    Backups <- 1..2, MaxMishaps <- 2,
    v <- uploadV, file <- uploadFile, run <- uploadRun, made <- uploadMade,
    reserved <- uploadReserved, box <- uploadBox,
    reported <- uploadReported, mishaps <- uploadMishaps

\* An edit undone as the daemon reads it takes three; a start on the copy, a stop.
Policy(most) == INSTANCE PolicyStore WITH
    MaxEdits <- most, MaxCrashes <- 3 - most,
    policy <- policyPolicy, trunks <- policyTrunks, copies <- policyCopies,
    link <- policyLink, release <- policyRelease, daemon <- policyDaemon,
    running <- policyRunning, fallback <- policyFallback, rotation <- policyRotation,
    raced <- policyRaced, edits <- policyEdits, crashes <- policyCrashes

Lobby == INSTANCE LobbyPass WITH
    MaxDepth <- 1, MaxEdits <- 2, MaxStops <- 1,
    books <- passBooks, selected <- passSelected, copy <- passCopy, daemon <- passDaemon,
    stamp <- passStamp, read <- passRead, set <- passSet, accepted <- passAccepted,
    raced <- passRaced, edits <- passEdits, stops <- passStops

Pack == INSTANCE PackStore WITH
    Archives <- 1..2, Clips <- 1, MaxTakes <- 4, MaxMishaps <- 2,
    versions <- packVersions, registry <- packRegistry, progress <- packProgress,
    cache <- packCache, job <- packJob, env <- packEnv, service <- packService,
    told <- packTold, takes <- packTakes, mishaps <- packMishaps

-----------------------------------------------------------------------------
SuiteInit ==
    /\ part \in {"ring", "menuEnds", "journal", "readers", "sync", "bell", "upload", "policy", "pass", "pack"}
    /\ Rings!Init /\ Menus!Init /\ Writer!Init /\ Readers!Init /\ Sync!Init /\ Bell!Init /\
       Uploads!Init /\ policyMost \in 2..3 /\ Policy(2)!Init /\ Lobby!Init /\ Pack!Init
    /\ part # "policy" => policyMost = 2

RingSteps == part = "ring" /\ Rings!Next /\ UNCHANGED <<part, menuEndsVars, journalVars, readersVars, syncVars,
        bellVars, uploadVars, policyVars, passVars, packVars>>
MenuEndsSteps == part = "menuEnds" /\ Menus!Next /\ UNCHANGED <<part, ringVars, journalVars, readersVars, syncVars,
        bellVars, uploadVars, policyVars, passVars, packVars>>
JournalSteps == part = "journal" /\ Writer!Next /\ UNCHANGED <<part, ringVars, menuEndsVars, readersVars, syncVars,
        bellVars, uploadVars, policyVars, passVars, packVars>>
ReadersSteps == part = "readers" /\ Readers!Next /\ UNCHANGED <<part, ringVars, menuEndsVars, journalVars, syncVars,
        bellVars, uploadVars, policyVars, passVars, packVars>>
SyncSteps == part = "sync" /\ Sync!Next /\ UNCHANGED <<part, ringVars, menuEndsVars, journalVars, readersVars,
        bellVars, uploadVars, policyVars, passVars, packVars>>
BellSteps == part = "bell" /\ Bell!Next /\ UNCHANGED <<part, ringVars, menuEndsVars, journalVars, readersVars,
        syncVars, uploadVars, policyVars, passVars, packVars>>
UploadSteps == part = "upload" /\ Uploads!Next /\ UNCHANGED <<part, ringVars, menuEndsVars, journalVars, readersVars,
        syncVars, bellVars, policyVars, passVars, packVars>>
PolicySteps == part = "policy" /\ (\E most \in 2..3 : policyMost = most /\ Policy(most)!Next) /\ UNCHANGED <<part, policyMost, ringVars, menuEndsVars, journalVars, readersVars,
        syncVars, bellVars, uploadVars, passVars, packVars>>
PassSteps == part = "pass" /\ Lobby!Next /\ UNCHANGED <<part, ringVars, menuEndsVars, journalVars, readersVars,
        syncVars, bellVars, uploadVars, policyVars, packVars>>
PackSteps == part = "pack" /\ Pack!Next /\ UNCHANGED <<part, ringVars, menuEndsVars, journalVars, readersVars,
        syncVars, bellVars, uploadVars, policyVars, passVars>>

SuiteNext == RingSteps \/ MenuEndsSteps \/ JournalSteps \/ ReadersSteps \/ SyncSteps \/ BellSteps \/
    UploadSteps \/ PolicySteps \/ PassSteps \/ PackSteps
suiteVars == <<part, cells>>

SuiteSpec ==
    /\ SuiteInit /\ [][SuiteNext]_suiteVars
    /\ WF_ringVars(part = "ring" /\ Rings!Session)
    /\ WF_ringVars(part = "ring" /\ Rings!Route)
    /\ WF_ringVars(part = "ring" /\ (\E l \in Rings!Leg : Rings!HangupOrphan(l)))
    /\ WF_menuEndsVars(part = "menuEnds" /\ Menus!Session("c"))
    /\ WF_menuEndsVars(part = "menuEnds" /\ Menus!Silence("c"))
    /\ WF_menuEndsVars(part = "menuEnds" /\ Menus!Deadline("c"))
    /\ WF_journalVars(part = "journal" /\ Writer!Open)
    /\ WF_journalVars(part = "journal" /\ Writer!Run)
    /\ WF_journalVars(part = "journal" /\ Writer!Exit)
    /\ WF_readersVars(part = "readers" /\ Readers!Ring)
    /\ WF_readersVars(part = "readers" /\ Readers!Deliver)
    /\ WF_readersVars(part = "readers" /\ Readers!Acknowledge)
    /\ WF_syncVars(part = "sync" /\ Sync!Machine)
    /\ WF_bellVars(part = "bell" /\ Bell!Bell)
    /\ WF_bellVars(part = "bell" /\ Bell!Loop)
    /\ WF_bellVars(part = "bell" /\ Bell!Follow)
    /\ WF_uploadVars(part = "upload" /\ Uploads!Steps)
    /\ WF_uploadVars(part = "upload" /\ Uploads!LateIsGivenUp)
    /\ WF_policyVars(part = "policy" /\ (\E most \in 2..3 : policyMost = most /\
          (Policy(most)!Start \/ Policy(most)!Reload \/ Policy(most)!KeepLastGood)) /\ UNCHANGED policyMost)
    /\ WF_passVars(part = "pass" /\ Lobby!Daemon)
    /\ SF_packVars(part = "pack" /\ Pack!Install)
    /\ WF_packVars(part = "pack" /\ Pack!Use)
-----------------------------------------------------------------------------
\* A call ends when its caller leaves or nobody answers, whatever every wait
\* of it is waiting for, and a caller who presses no keys is let out of every
\* menu.
CallsEnd ==
    /\ (part = "ring" => Rings!CallerLeavingEndsSession)
    /\ (part = "ring" => Rings!RingingEnds)
    /\ (part = "menuEnds" => Menus!MenuEnds)

\* A loss the writer knows of is told in the journal, and every row of the
\* journal is announced, if the disk and the network come back.
RowsAreTold ==
    /\ (part = "journal" => Writer!LossIsDeclared)
    /\ (part = "readers" => Readers!EveryRowIsAnnounced)

\* What the cloud asks is answered and what the box made is stored: no
\* command, bell or bundle is stuck behind a failure that is over.
CloudAnswers ==
    /\ (part = "sync" => Sync!QueuedIsAnswered)
    /\ (part = "bell" => Bell!BellComesBack)
    /\ (part = "upload" => Uploads!MadeIsStored)

\* The daemon comes to run what is written well on the disk: the policy, the
\* passes and the voices, whatever was there before.
DaemonCatchesUp ==
    /\ (part = "policy" => Policy(2)!RunsTheDisk)
    /\ (part = "pass" => Lobby!AdmitsFromTheDisk)
    /\ (part = "pack" => Pack!InstallsAgain)
=============================================================================
