----------------------------- MODULE EventJournal -----------------------------
(***************************************************************************)
(* The event journal's writer (internal/events/writer.go): producers post  *)
(* observations into a bounded queue and never wait; one goroutine commits *)
(* them to SQLite.  What cannot be committed is counted and later declared *)
(* by a gap row; what a dead process took with it is owned up to by the    *)
(* row the next process writes when it finds the journal not marked clean. *)
(*                                                                         *)
(* An observation is only counted: nothing here looks inside one.  The     *)
(* daemon starts the writer with StartChecked, so there is no producer     *)
(* before the journal is open and the store, once open, stays open.        *)
(***************************************************************************)
EXTENDS Naturals

CONSTANTS
    QueueCap,    \* room in the queue (256 in the source)
    MaxPosts,    \* bound: observations posted, over all lives
    MaxBreaks,   \* bound: times the storage stops working
    MaxTries,    \* bound: ticks that flush in vain
    MaxLives     \* bound: times the daemon is started

ASSUME JournalAssumption ==
    /\ QueueCap \in Nat \ {0}
    /\ MaxPosts \in Nat
    /\ MaxBreaks \in Nat
    /\ MaxTries \in Nat
    /\ MaxLives \in Nat

VARIABLES
    clean,       \* metadata.clean: the last writer left nothing behind
    recorded,    \* rows of posted observations
    declared,    \* observations the "observations-lost" gap rows own up to
    pc,          \* where the writer is; "down" is no process
    queue,       \* observations waiting in the channel
    holding,     \* the writer has taken one and not yet disposed of it
    seen,        \* n, the pending count the flush read
    pending,     \* lost observations no row declares yet
    degraded,    \* the journal is not being written
    closed,      \* Close was called: posts are refused
    draining,    \* the writer has seen the stop and empties the queue
    cancelled,   \* Close's deadline passed: no statement will succeed
    broken,      \* the storage refuses writes
    breaks, lives,
    \* What became of the observations, for the properties:
    posted,      \* all of them
    lost,        \* those no row records and none will
    excess,      \* failed flushes counted as if each had lost one
    forgotten,   \* losses that died undeclared with their process
    owed,        \* of those, the ones no "unclean-restart" row covers yet
    late         \* posts since the writer's last look, which it cannot count

disk == <<clean, recorded, declared>>
writer == <<pc, holding, seen, draining>>
process == <<queue, pending, degraded, closed, cancelled>>
storage == <<broken, breaks>>
fate == <<posted, lost, excess, forgotten, owed, late>>
vars == <<disk, writer, process, storage, lives, fate>>

Running == pc \in {"select", "flush", "gap", "append", "prune", "drain", "last", "mark", "exited"}
Held == IF holding THEN 1 ELSE 0
Works == ~broken /\ ~cancelled

Init ==
    /\ clean = TRUE /\ recorded = 0 /\ declared = 0
    /\ pc = "down" /\ queue = 0 /\ holding = FALSE /\ seen = 0 /\ pending = 0
    /\ degraded = TRUE /\ closed = FALSE /\ draining = FALSE /\ cancelled = FALSE
    /\ broken = FALSE /\ breaks = 0 /\ lives = 0
    /\ posted = 0 /\ lost = 0 /\ excess = 0 /\ forgotten = 0 /\ owed = 0 /\ late = 0
-----------------------------------------------------------------------------
(* Starting: the flag is read, then cleared, and the doubt written down.   *)

Start ==
    /\ pc = "down" /\ lives < MaxLives
    /\ lives' = lives + 1
    /\ pc' = "open"
    /\ UNCHANGED <<disk, holding, seen, draining, process, storage, fate>>

Ready ==
    /\ pc' = "select"
    /\ degraded' = FALSE

OpenStore ==
    /\ pc = "open" /\ Works
    /\ clean' = FALSE
    /\ IF clean THEN Ready ELSE pc' = "doubt" /\ UNCHANGED degraded
    /\ UNCHANGED <<recorded, declared, holding, seen, draining, queue, pending, closed,
                   cancelled, storage, lives, fate>>

AppendDoubt ==
    /\ pc = "doubt" /\ Works
    /\ Ready
    /\ owed' = 0
    /\ UNCHANGED <<disk, holding, seen, draining, queue, pending, closed, cancelled, storage,
                   lives, posted, lost, excess, forgotten, late>>

\* StartChecked gives up and the daemon does not start.
StartRefused ==
    /\ pc \in {"open", "doubt"} /\ broken
    /\ pc' = "down"
    /\ UNCHANGED <<disk, holding, seen, draining, process, storage, lives, fate>>
-----------------------------------------------------------------------------
(* Producers.                                                              *)

Lose(n) ==
    /\ pending' = pending + n
    /\ lost' = lost + n

\* Mutant of PostQueued: The queue's limit is not looked at.
PostUnbounded ==
    /\ ~closed
    /\ queue' = queue + 1
    /\ UNCHANGED <<pending, degraded, lost, late>>

PostQueued ==
    /\ ~closed /\ queue < QueueCap
    /\ queue' = queue + 1
    /\ UNCHANGED <<pending, degraded, lost, late>>

PostDropped ==
    /\ ~closed /\ queue = QueueCap
    /\ Lose(1)
    /\ UNCHANGED <<queue, degraded, late>>

PostLate ==
    /\ closed
    /\ Lose(1)
    /\ degraded' = TRUE
    /\ late' = IF pc \in {"mark", "exited"} THEN late + 1 ELSE late
    /\ UNCHANGED queue

Post ==
    /\ Running /\ posted < MaxPosts
    /\ posted' = posted + 1
    /\ PostQueued \/ PostDropped \/ PostLate
    /\ UNCHANGED <<disk, writer, closed, cancelled, storage, lives, excess, forgotten, owed>>
-----------------------------------------------------------------------------
(* The writer: a gap row first, then the observation.                      *)

Take ==
    /\ pc \in {"select", "drain"} /\ queue > 0
    /\ queue' = queue - 1
    /\ holding' = TRUE
    /\ pc' = "flush"
    /\ UNCHANGED <<disk, seen, draining, pending, degraded, closed, cancelled, storage, lives, fate>>

\* Mutant of Tick: The tick only prunes.
TickPrunes ==
    /\ pc = "select"
    /\ Works \/ excess < MaxTries
    /\ pc' = "prune"
    /\ UNCHANGED <<disk, holding, seen, draining, process, storage, lives, fate>>

\* Every second, and a loss is declared without waiting for an observation.
Tick ==
    /\ pc = "select"
    /\ Works \/ excess < MaxTries
    /\ pc' = IF pending > 0 THEN "flush" ELSE "prune"
    /\ UNCHANGED <<disk, holding, seen, draining, process, storage, lives, fate>>

\* Where write returns to: the select, the rest of the tick, or the way out.
Resume ==
    /\ holding' = FALSE
    /\ pc' = IF draining THEN (IF holding THEN "drain" ELSE "last")
                         ELSE (IF holding THEN "select" ELSE "prune")

LoadPending ==
    /\ pc = "flush"
    /\ seen' = pending
    /\ pc' = IF pending > 0 THEN "gap" ELSE "append"
    /\ UNCHANGED <<disk, holding, draining, process, storage, lives, fate>>

AppendGap ==
    /\ pc = "gap" /\ Works
    /\ declared' = declared + seen
    /\ pending' = pending - seen
    /\ IF holding
       THEN pc' = "append" /\ UNCHANGED <<holding, degraded>>
       ELSE Resume /\ degraded' = FALSE
    /\ UNCHANGED <<clean, recorded, seen, draining, queue, closed, cancelled, storage, lives, fate>>

\* The observation in hand is not tried, and is lost.  A flush that had none in
\* hand counts one all the same.
GapFailed ==
    /\ pc = "gap" /\ ~Works
    /\ pending' = pending + 1
    /\ lost' = lost + Held
    /\ excess' = excess + (1 - Held)
    /\ degraded' = TRUE
    /\ Resume
    /\ UNCHANGED <<disk, seen, draining, queue, closed, cancelled, storage, lives, posted,
                   forgotten, owed, late>>

Append ==
    /\ pc = "append" /\ Works
    /\ recorded' = recorded + 1
    /\ degraded' = FALSE
    /\ Resume
    /\ UNCHANGED <<clean, declared, seen, draining, queue, pending, closed, cancelled, storage,
                   lives, fate>>

AppendFailed ==
    /\ pc = "append" /\ ~Works
    /\ Lose(1)
    /\ degraded' = TRUE
    /\ Resume
    /\ UNCHANGED <<disk, seen, draining, queue, closed, cancelled, storage, lives, posted,
                   excess, forgotten, owed, late>>

Prune ==
    /\ pc = "prune"
    /\ degraded' = (degraded \/ ~Works)
    /\ pc' = "select"
    /\ UNCHANGED <<disk, holding, seen, draining, queue, pending, closed, cancelled, storage,
                   lives, fate>>
-----------------------------------------------------------------------------
(* Stopping.                                                               *)

Close ==
    /\ Running /\ ~closed
    /\ closed' = TRUE
    /\ UNCHANGED <<disk, writer, queue, pending, degraded, cancelled, storage, lives, fate>>

\* Three seconds after Close.
Deadline ==
    /\ closed /\ ~cancelled /\ pc # "exited"
    /\ cancelled' = TRUE
    /\ UNCHANGED <<disk, writer, queue, pending, degraded, closed, storage, lives, fate>>

Stop ==
    /\ pc = "select" /\ closed
    /\ \/ pc' = "drain" /\ draining' = TRUE
       \/ cancelled /\ pc' = "exited" /\ UNCHANGED draining
    /\ UNCHANGED <<disk, holding, seen, process, storage, lives, fate>>

Drained ==
    /\ pc = "drain" /\ queue = 0
    /\ pc' = IF pending > 0 THEN "flush" ELSE "last"
    /\ UNCHANGED <<disk, holding, seen, draining, process, storage, lives, fate>>

\* Mutant of LastLook: The clean mark is set however the drain went.
LastLookAway ==
    /\ pc = "last"
    /\ pc' = "mark"
    /\ UNCHANGED <<disk, holding, seen, draining, process, storage, lives, fate>>

LastLook ==
    /\ pc = "last"
    /\ pc' = IF ~degraded /\ pending = 0 THEN "mark" ELSE "exited"
    /\ UNCHANGED <<disk, holding, seen, draining, process, storage, lives, fate>>

MarkClean ==
    /\ pc = "mark"
    /\ clean' = (clean \/ Works)
    /\ pc' = "exited"
    /\ UNCHANGED <<recorded, declared, holding, seen, draining, process, storage, lives, fate>>

\* What the process still had in memory is gone with it.
ProcessEnds ==
    LET undeclared == queue + Held + pending IN
    /\ pc' = "down" /\ queue' = 0 /\ holding' = FALSE /\ seen' = 0 /\ pending' = 0
    /\ degraded' = TRUE /\ closed' = FALSE /\ draining' = FALSE /\ cancelled' = FALSE
    /\ lost' = lost + queue + Held
    /\ forgotten' = forgotten + undeclared
    /\ owed' = owed + undeclared - late
    /\ late' = 0
    /\ UNCHANGED <<disk, storage, lives, posted, excess>>

Exit == pc = "exited" /\ ProcessEnds

\* A crash, a kill or a power cut, at any moment.
Crash == pc # "down" /\ ProcessEnds

Break ==
    /\ ~broken /\ breaks < MaxBreaks
    /\ broken' = TRUE /\ breaks' = breaks + 1
    /\ UNCHANGED <<disk, writer, process, lives, fate>>

Repair ==
    /\ broken
    /\ broken' = FALSE
    /\ UNCHANGED <<disk, writer, process, breaks, lives, fate>>
-----------------------------------------------------------------------------
Open == OpenStore \/ AppendDoubt \/ StartRefused

Write == LoadPending \/ AppendGap \/ GapFailed \/ Append \/ AppendFailed

Run == Take \/ Tick \/ Write \/ Prune \/ Stop \/ Drained \/ LastLook \/ MarkClean

Next ==
    \/ Start \/ Open \/ Post \/ Run
    \/ Close \/ Deadline \/ Exit \/ Crash
    \/ Break \/ Repair

Spec == Init /\ [][Next]_vars

\* The goroutine runs while it can, and a process told to stop exits.
FairSpec == Spec /\ WF_vars(Open) /\ WF_vars(Run) /\ WF_vars(Exit)
-----------------------------------------------------------------------------
(* Properties.                                                             *)

TypeOK ==
    /\ clean \in BOOLEAN /\ recorded \in Nat /\ declared \in Nat
    /\ pc \in {"down", "open", "doubt", "select", "flush", "gap", "append", "prune", "drain",
               "last", "mark", "exited"}
    /\ queue \in 0..QueueCap /\ holding \in BOOLEAN /\ seen \in Nat /\ pending \in Nat
    /\ degraded \in BOOLEAN /\ closed \in BOOLEAN /\ draining \in BOOLEAN
    /\ cancelled \in BOOLEAN
    /\ broken \in BOOLEAN /\ breaks \in Nat /\ lives \in Nat
    /\ posted \in Nat /\ lost \in Nat /\ excess \in Nat /\ forgotten \in Nat
    /\ owed \in Nat /\ late \in Nat

\* A journal marked clean owes nothing: every observation lost in this life or
\* an earlier one is in a gap row's count or behind an "unclean-restart" row,
\* but for those posted after the writer had taken its last look.
CleanMeansComplete == clean => owed = 0

\* The books balance: the losses, and the failed flushes taken for losses, are
\* in a gap row, in the counter, or went down with a process.  A post between
\* the flush's read of the counter and its subtraction is not swallowed.
LossesCounted == lost + excess = declared + pending + forgotten

\* No observation of this life is recorded before the doubt about the last one.
DoubtFirst == [][recorded' > recorded => owed = 0]_vars

\* What the journal says of itself is true: it is clean only when complete, its
\* gap rows count what was lost, and doubt is written down before anything new.
JournalIsHonest == [](CleanMeansComplete /\ LossesCounted) /\ DoubtFirst

\* If the storage comes back for good, a loss is declared (or the process ends)
\* even if nothing is ever posted again.
LossIsDeclared == (<>[]~broken) => [](pending > 0 => <>(pending = 0 \/ pc = "down"))

\* A gap row gives the known lost count: never more than was lost.
KnownLossesOnly == declared <= lost
=============================================================================
