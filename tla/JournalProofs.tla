----------------------------- MODULE JournalProofs -----------------------------
(***************************************************************************)
(* What the house keeps and tells, for every value of the constants.       *)
(* First the journal's writer: its safety properties for every queue and   *)
(* every history.  CleanMeansComplete is not inductive: a mark set at      *)
(* "mark" is true because the queue was seen empty after the posts had     *)
(* been shut out, and stays true because only refused posts can follow.    *)
(* Inv says so.  Then the suite MCJournal, to which the theorems of its    *)
(* components are carried over.                                            *)
(***************************************************************************)
EXTENDS MCJournal, TLAPS

\* Nothing is in a process's memory before it has opened the journal.
Empty == pc \in {"down", "open", "doubt"} => queue = 0 /\ ~holding /\ pending = 0

\* Only the writer's way through write has an observation in hand.
HandOK ==
    /\ holding => pc \in {"flush", "gap", "append"}
    /\ pc = "append" => holding
    /\ pc = "flush" /\ ~holding => pending > 0
    /\ pc = "gap" => seen <= pending

\* Once the drain is past the queue, it stays empty.
DrainOK ==
    /\ draining => closed
    /\ pc \in {"select", "prune"} => ~draining
    /\ pc \in {"down", "open", "doubt"} => ~closed
    /\ pc \in {"drain", "last", "mark", "exited"} => closed
    /\ pc \in {"flush", "gap", "append"} /\ draining /\ ~holding => queue = 0
    /\ pc \in {"last", "mark"} => queue = 0

\* The writer's last look left nothing but what came after it.
LastLookOK ==
    /\ pc \notin {"mark", "exited"} => late = 0
    /\ late <= pending
    /\ pc = "mark" => pending = late
    /\ pc = "exited" /\ clean => queue = 0 /\ pending = late

\* The flag is down while there is something it could be wrong about.
FlagOK ==
    /\ clean => pc \in {"down", "open", "exited"}
    /\ Running => owed = 0

Inv ==
    /\ TypeOK
    /\ LossesCounted
    /\ CleanMeansComplete
    /\ Empty
    /\ HandOK
    /\ DrainOK
    /\ LastLookOK
    /\ FlagOK

LEMMA InitInv == Init => Inv
  <1> SUFFICES ASSUME Init PROVE Inv OBVIOUS
  <1> USE JournalAssumption DEF Init
  <1>1. TypeOK
    <2>1. queue \in 0..QueueCap OBVIOUS
    <2>2. QED BY <2>1 DEF TypeOK
  <1>2. LossesCounted /\ CleanMeansComplete BY DEF LossesCounted, CleanMeansComplete
  <1>3. Empty /\ HandOK /\ DrainOK BY DEF Empty, HandOK, DrainOK
  <1>4. LastLookOK /\ FlagOK BY DEF LastLookOK, FlagOK, Running
  <1>5. QED BY <1>1, <1>2, <1>3, <1>4 DEF Inv

LEMMA StutterInv == Inv /\ UNCHANGED vars => Inv'
  BY DEF Inv, TypeOK, LossesCounted, CleanMeansComplete, Empty, HandOK, DrainOK, LastLookOK,
     FlagOK, Running, vars, disk, writer, process, storage, fate

\* Each group of actions keeps the invariant.
LEMMA OpeningInv == ASSUME Inv, Start \/ Open PROVE Inv'
  <1> USE JournalAssumption DEF Inv, TypeOK, LossesCounted, CleanMeansComplete, Empty, HandOK,
      DrainOK, LastLookOK, FlagOK, Running, vars, disk, writer, process, storage, fate
  <1>1. CASE Start BY <1>1 DEF Start
  <1>2. CASE OpenStore BY <1>2 DEF OpenStore, Ready
  <1>3. CASE AppendDoubt BY <1>3 DEF AppendDoubt, Ready
  <1>4. CASE StartRefused BY <1>4 DEF StartRefused
  <1>5. QED BY <1>1, <1>2, <1>3, <1>4 DEF Open

LEMMA PostingInv == ASSUME Inv, Post PROVE Inv'
  <1> USE JournalAssumption DEF Inv, TypeOK, LossesCounted, CleanMeansComplete, Empty, HandOK,
      DrainOK, LastLookOK, FlagOK, Running, disk, writer, storage, Post
  <1>1. CASE PostQueued BY <1>1 DEF PostQueued
  <1>2. CASE PostDropped BY <1>2 DEF PostDropped, Lose
  <1>3. CASE PostLate BY <1>3 DEF PostLate, Lose
  <1>4. QED BY <1>1, <1>2, <1>3

LEMMA WritingInv == ASSUME Inv, Write PROVE Inv'
  <1> USE JournalAssumption DEF Inv, TypeOK, LossesCounted, CleanMeansComplete, Empty, HandOK,
      DrainOK, LastLookOK, FlagOK, Running, disk, process, storage, fate
  <1>1. CASE LoadPending BY <1>1 DEF LoadPending
  <1>2. CASE AppendGap
    <2> USE <1>2 DEF AppendGap, Resume
    <2>1. (holding \in BOOLEAN)' /\ (degraded \in BOOLEAN)' OBVIOUS
    <2>2. CASE holding BY <2>1, <2>2
    <2>3. CASE ~holding /\ draining BY <2>1, <2>3
    <2>4. CASE ~holding /\ ~draining BY <2>1, <2>4
    <2>5. QED BY <2>2, <2>3, <2>4
  <1>3. CASE GapFailed
    <2> USE <1>3 DEF GapFailed, Resume, Held
    <2>1. (holding \in BOOLEAN)' /\ (degraded \in BOOLEAN)' OBVIOUS
    <2>2. CASE holding /\ draining BY <2>1, <2>2
    <2>3. CASE holding /\ ~draining BY <2>1, <2>3
    <2>4. CASE ~holding /\ draining BY <2>1, <2>4
    <2>5. CASE ~holding /\ ~draining BY <2>1, <2>5
    <2>6. QED BY <2>2, <2>3, <2>4, <2>5
  <1>4. CASE Append
    <2> USE <1>4 DEF Append, Resume
    <2>1. (holding \in BOOLEAN)' /\ (degraded \in BOOLEAN)' OBVIOUS
    <2>2. CASE draining BY <2>1, <2>2
    <2>3. CASE ~draining BY <2>1, <2>3
    <2>4. QED BY <2>2, <2>3
  <1>5. CASE AppendFailed
    <2> USE <1>5 DEF AppendFailed, Resume, Lose
    <2>1. (holding \in BOOLEAN)' /\ (degraded \in BOOLEAN)' OBVIOUS
    <2>2. CASE draining BY <2>1, <2>2
    <2>3. CASE ~draining BY <2>1, <2>3
    <2>4. QED BY <2>2, <2>3
  <1>6. QED BY <1>1, <1>2, <1>3, <1>4, <1>5 DEF Write

LEMMA RunningInv == ASSUME Inv, Run PROVE Inv'
  <1> USE JournalAssumption DEF Inv, TypeOK, LossesCounted, CleanMeansComplete, Empty, HandOK,
      DrainOK, LastLookOK, FlagOK, Running, disk, process, storage, fate
  <1>1. CASE Take BY <1>1 DEF Take
  <1>2. CASE Tick BY <1>2 DEF Tick
  <1>3. CASE Write BY <1>3, WritingInv
  <1>4. CASE Prune BY <1>4 DEF Prune
  <1>5. CASE Stop BY <1>5 DEF Stop
  <1>6. CASE Drained BY <1>6 DEF Drained
  <1>7. CASE LastLook BY <1>7 DEF LastLook
  <1>8. CASE MarkClean BY <1>8 DEF MarkClean
  <1>9. QED BY <1>1, <1>2, <1>3, <1>4, <1>5, <1>6, <1>7, <1>8 DEF Run

\* A process that ends with the flag up had only latecomers left.
LEMMA EndingInv == ASSUME Inv, pc # "down", ProcessEnds PROVE Inv'
  <1> USE JournalAssumption DEF Inv, TypeOK, LossesCounted, CleanMeansComplete, Empty, HandOK,
      DrainOK, LastLookOK, FlagOK, Running, disk, storage, ProcessEnds, Held
  <1>1. Held \in 0..1 OBVIOUS
  <1>2. clean => queue + Held + pending = late
    <2>1. CASE pc = "open" BY <2>1
    <2>2. CASE pc = "exited" BY <2>2
    <2>3. QED BY <2>1, <2>2
  <1>3. /\ lost' = lost + queue + Held
        /\ forgotten' = forgotten + (queue + Held + pending)
        /\ owed' = owed + (queue + Held + pending) - late
    OBVIOUS
  <1> HIDE DEF Held
  <1>4. (lost \in Nat)' /\ (forgotten \in Nat)' /\ (owed \in Nat)' BY <1>1, <1>3
  <1>5. (holding \in BOOLEAN)' /\ (clean \in BOOLEAN)' OBVIOUS
  <1>6. TypeOK'
    <2>1. (queue \in 0..QueueCap)' /\ (seen \in Nat)' /\ (pending \in Nat)' /\ (late \in Nat)'
      OBVIOUS
    <2>2. /\ (degraded \in BOOLEAN)' /\ (closed \in BOOLEAN)' /\ (draining \in BOOLEAN)'
          /\ (cancelled \in BOOLEAN)' /\ (broken \in BOOLEAN)'
      OBVIOUS
    <2>3. (recorded \in Nat /\ declared \in Nat /\ breaks \in Nat /\ lives \in Nat)'
          /\ (posted \in Nat /\ excess \in Nat)'
      OBVIOUS
    <2>4. pc' = "down" OBVIOUS
    <2> HIDE DEF ProcessEnds, Inv
    <2>5. QED BY <1>4, <1>5, <2>1, <2>2, <2>3, <2>4
  <1>7. LossesCounted' BY <1>1, <1>3
  <1>8. CleanMeansComplete' BY <1>1, <1>2, <1>3
  <1>9. (Empty /\ HandOK /\ DrainOK /\ LastLookOK /\ FlagOK)' OBVIOUS
  <1>10. QED BY <1>6, <1>7, <1>8, <1>9

LEMMA OutsideInv == ASSUME Inv, Close \/ Deadline \/ Break \/ Repair PROVE Inv'
  <1> USE JournalAssumption DEF Inv, TypeOK, LossesCounted, CleanMeansComplete, Empty, HandOK,
      DrainOK, LastLookOK, FlagOK, Running, disk, writer, process, storage, fate
  <1>1. CASE Close BY <1>1 DEF Close
  <1>2. CASE Deadline BY <1>2 DEF Deadline
  <1>3. CASE Break BY <1>3 DEF Break
  <1>4. CASE Repair BY <1>4 DEF Repair
  <1>5. QED BY <1>1, <1>2, <1>3, <1>4

LEMMA NextInv == Inv /\ [Next]_vars => Inv'
  <1> SUFFICES ASSUME Inv, [Next]_vars PROVE Inv' OBVIOUS
  <1>1. CASE Start \/ Open BY <1>1, OpeningInv
  <1>2. CASE Post BY <1>2, PostingInv
  <1>3. CASE Run BY <1>3, RunningInv
  <1>4. CASE Close \/ Deadline \/ Break \/ Repair BY <1>4, OutsideInv
  <1>5. CASE Exit BY <1>5, EndingInv DEF Exit
  <1>6. CASE Crash BY <1>6, EndingInv DEF Crash
  <1>7. CASE UNCHANGED vars BY <1>7, StutterInv
  <1>8. QED BY <1>1, <1>2, <1>3, <1>4, <1>5, <1>6, <1>7 DEF Next

LEMMA Invariance == Spec => []Inv
  BY InitInv, NextInv, PTL DEF Spec

\* Every variable keeps its type: the queue never grows past its room, and no
\* counter goes below zero, the pending one included.
THEOREM TypeCorrect == Spec => []TypeOK
  <1>1. Inv => TypeOK BY DEF Inv
  <1>2. QED BY <1>1, Invariance, PTL

\* A journal marked clean owes nothing, whatever crashed, failed or was late.
THEOREM CleanIsComplete == Spec => []CleanMeansComplete
  <1>1. Inv => CleanMeansComplete BY DEF Inv
  <1>2. QED BY <1>1, Invariance, PTL

\* No loss leaves the books.
THEOREM NoLossUncounted == Spec => []LossesCounted
  <1>1. Inv => LossesCounted BY DEF Inv
  <1>2. QED BY <1>1, Invariance, PTL

\* The only action that records an observation is Append, of a running writer.
LEMMA OnlyAppendRecords == ASSUME Inv, [Next]_vars, recorded' > recorded PROVE Append
  <1> USE DEF Inv, TypeOK, disk, writer, process, storage, fate
  <1>1. CASE Start BY <1>1 DEF Start
  <1>2. CASE Open BY <1>2 DEF Open, OpenStore, AppendDoubt, StartRefused
  <1>3. CASE Post BY <1>3 DEF Post
  <1>4. CASE Write BY <1>4 DEF Write, LoadPending, AppendGap, GapFailed, AppendFailed
  <1>5. CASE Run /\ ~Write
    BY <1>5 DEF Run, Take, Tick, Prune, Stop, Drained, LastLook, MarkClean
  <1>6. CASE Close \/ Deadline \/ Break \/ Repair BY <1>6 DEF Close, Deadline, Break, Repair
  <1>7. CASE Exit \/ Crash BY <1>7 DEF Exit, Crash, ProcessEnds
  <1>8. CASE UNCHANGED vars BY <1>8 DEF vars
  <1>9. QED BY <1>1, <1>2, <1>3, <1>4, <1>5, <1>6, <1>7, <1>8 DEF Next

\* The doubt about the last life is on disk before anything of this one.
THEOREM DoubtComesFirst == Spec => DoubtFirst
  <1>1. ASSUME Inv, [Next]_vars PROVE [recorded' > recorded => owed = 0]_vars
    <2>1. ASSUME recorded' > recorded PROVE owed = 0
      <3>1. Append BY <1>1, <2>1, OnlyAppendRecords
      <3>2. QED BY <1>1, <3>1 DEF Inv, FlagOK, Running, Append
    <2>2. QED BY <2>1
  <1>2. QED BY <1>1, Invariance, PTL DEF Spec, DoubtFirst

\* What the journal says of itself is true: the three theorems above, together.
THEOREM JournalTellsTheTruth == Spec => JournalIsHonest
  <1>1. QED
    BY CleanIsComplete, NoLossUncounted, DoubtComesFirst, PTL DEF JournalIsHonest
-----------------------------------------------------------------------------
(* The suite: one component moves in each behaviour of MCJournal, so that  *)
(* what is proved of a component holds of the suite.                       *)

\* A behaviour begins in one component's initial state.
LEMMA OnePartBegins ==
    ASSUME SuiteInit
    PROVE  /\ Init
           /\ part = "account" => Account!Init
           /\ part = "bell" => Bell!Init
           /\ part = "upload" => Uploads!Init
           /\ part = "readers" => Readers!Init
  BY DEF SuiteInit

\* And goes on in it: the others, the journal's writer included, stand still.
LEMMA OnePartMoves ==
    ASSUME [SuiteNext]_suiteVars
    PROVE  /\ [Next]_vars /\ part' = part
           /\ part = "account" => Account!Next \/ UNCHANGED cells
           /\ part = "bell" => Bell!Next \/ UNCHANGED cells
           /\ part = "upload" => Uploads!Next \/ UNCHANGED cells
           /\ part = "readers" => Readers!Next \/ UNCHANGED cells
  <1>1. CASE UNCHANGED suiteVars BY <1>1 DEF suiteVars
  <1>2. CASE JournalSteps BY <1>2 DEF JournalSteps
  <1>3. CASE CelSteps BY <1>3 DEF CelSteps
  <1>4. CASE ReadersSteps BY <1>4 DEF ReadersSteps
  <1>5. CASE SyncSteps BY <1>5 DEF SyncSteps
  <1>6. CASE BellSteps BY <1>6 DEF BellSteps
  <1>7. CASE AccountSteps BY <1>7 DEF AccountSteps
  <1>8. CASE UploadSteps BY <1>8 DEF UploadSteps
  <1>9. CASE BackupSteps BY <1>9 DEF BackupSteps
  <1>10. CASE RecoverySteps BY <1>10 DEF RecoverySteps
  <1>11. CASE InboxSteps BY <1>11 DEF InboxSteps
  <1>12. CASE ReminderSteps BY <1>12 DEF ReminderSteps
  <1>13. CASE MailSteps BY <1>13 DEF MailSteps
  <1> QED BY <1>1, <1>2, <1>3, <1>4, <1>5, <1>6, <1>7, <1>8, <1>9, <1>10, <1>11, <1>12, <1>13
             DEF SuiteNext

\* In the suite too the journal says the truth of itself: a clean one owes
\* nothing, no loss goes uncounted, and doubt comes before the first row.
THEOREM TheJournalStaysHonest == SuiteSpec => JournalIsHonest
  <1>1. SuiteInit => Init BY OnePartBegins
  <1>2. [SuiteNext]_suiteVars => [Next]_vars BY OnePartMoves
  <1>3. SuiteSpec => Spec BY <1>1, <1>2, PTL DEF SuiteSpec, Spec
  <1> QED BY <1>3, JournalTellsTheTruth

AccountSound == part = "account" => Account!Sound

\* In the suite, for every number of callers, enrolments and tokens: while the
\* service holds the enrolment live, no late answer has signed the box out of it,
\* and the token the box would use next is one the service takes; what revokes it
\* is a request that a rotation overtook.
THEOREM ALiveBoxIsSignedIn == SuiteSpec => AccountHolds
  <1>0. MaxLost \in Nat /\ MaxTokens \in Nat \ {0} BY SuiteAssumption
  <1>1. SuiteInit => AccountSound BY <1>0, OnePartBegins, Account!SoundInit DEF AccountSound
  <1>2. AccountSound /\ [SuiteNext]_suiteVars => AccountSound'
    <2> SUFFICES ASSUME AccountSound, [SuiteNext]_suiteVars, part = "account" PROVE Account!Sound'
      BY OnePartMoves DEF AccountSound
    <2>1. [Account!Next]_(Account!vars)
      BY OnePartMoves DEF cells, Account!vars, Account!server
    <2> QED BY <1>0, <2>1, Account!SoundNext DEF AccountSound
  <1>3. AccountSound => (part = "account" =>
            Account!TypeOK /\ Account!LiveStaysSignedIn /\ Account!NextTokenIsTaken)
    BY Account!SoundSuffices DEF AccountSound
  <1>4. AccountSound /\ [SuiteNext]_suiteVars => [part = "account" => Account!OnlyTheOvertakenRevoke]_cells
    <2> SUFFICES ASSUME AccountSound, [SuiteNext]_suiteVars, part = "account"
                 PROVE  Account!OnlyTheOvertakenRevoke
      OBVIOUS
    <2>1. [Account!Next]_(Account!vars)
      BY OnePartMoves DEF cells, Account!vars, Account!server
    <2> QED BY <2>1, Account!RevokingStep DEF AccountSound, Account!Sound
  <1> QED BY <1>1, <1>2, <1>3, <1>4, PTL DEF SuiteSpec, AccountHolds

BellSound == part = "bell" => Bell!Inv

\* In the suite, for every number of commands and losses: no command waits at
\* the slow pace because of when it was queued, and no receipt is left without
\* somebody who looks.
THEOREM TheLoopIsWoken == SuiteSpec => []BellHolds
  <1>1. SuiteInit => BellSound BY OnePartBegins, Bell!InitInv DEF BellSound
  <1>2. BellSound /\ [SuiteNext]_suiteVars => BellSound'
    <2> SUFFICES ASSUME BellSound, [SuiteNext]_suiteVars, part = "bell" PROVE Bell!Inv'
      BY OnePartMoves DEF BellSound
    <2>1. [Bell!Next]_(Bell!vars)
      BY OnePartMoves DEF cells, Bell!vars, Bell!service, Bell!wire, Bell!wake, Bell!following
    <2> QED BY <2>1, Bell!NextInv DEF BellSound
  <1>3. BellSound => BellHolds BY Bell!InvSuffices DEF BellSound, BellHolds
  <1> QED BY <1>1, <1>2, <1>3, PTL DEF SuiteSpec

UploadsSound == part = "upload" => Uploads!Inv

\* In the suite, for every number of bundles and mishaps: a bundle that is owed
\* can still be read, and one that is reported is stored.
THEOREM UploadsAreKept == SuiteSpec => []UploadHolds
  <1>0. Uploads!Numbered BY SuiteAssumption DEF Uploads!Numbered
  <1>1. SuiteInit => UploadsSound BY <1>0, OnePartBegins, Uploads!InitInv DEF UploadsSound
  <1>2. UploadsSound /\ [SuiteNext]_suiteVars => UploadsSound'
    <2> SUFFICES ASSUME UploadsSound, [SuiteNext]_suiteVars, part = "upload" PROVE Uploads!Inv'
      BY OnePartMoves DEF UploadsSound
    <2>1. [Uploads!Next]_(Uploads!vars)
      BY OnePartMoves DEF cells, Uploads!vars
    <2> QED BY <1>0, <2>1, Uploads!NextInv DEF UploadsSound
  <1>3. UploadsSound => UploadHolds BY Uploads!InvSuffices DEF UploadsSound, UploadHolds
  <1> QED BY <1>1, <1>2, <1>3, PTL DEF SuiteSpec

ReadersSound == part = "readers" => Readers!Inv

\* In the suite, for every size of the journal and of a page: nobody is
\* acknowledged what they were not told, a page skips no row of a call, and a
\* call has one summary.
THEOREM ReadersAreServed == SuiteSpec => []ReadersHold
  <1>0. Readers!Sizes BY SuiteAssumption DEF Readers!Sizes
  <1>1. SuiteInit => ReadersSound BY <1>0, OnePartBegins, Readers!InitInv DEF ReadersSound
  <1>2. ReadersSound /\ [SuiteNext]_suiteVars => ReadersSound'
    <2> SUFFICES ASSUME ReadersSound, [SuiteNext]_suiteVars, part = "readers" PROVE Readers!Inv'
      BY OnePartMoves DEF ReadersSound
    <2>1. [Readers!Next]_(Readers!vars)
      BY OnePartMoves DEF cells, Readers!vars, Readers!journal, Readers!bell, Readers!consumer
    <2> QED BY <1>0, <2>1, Readers!NextInv DEF ReadersSound
  <1>3. ReadersSound => ReadersHold BY Readers!InvSuffices DEF ReadersSound, ReadersHold
  <1> QED BY <1>1, <1>2, <1>3, PTL DEF SuiteSpec
===============================================================================
