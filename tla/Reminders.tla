------------------------------ MODULE Reminders ------------------------------
(***************************************************************************)
(* Reminders set from a handset (internal/reminder, cmd/doorman/           *)
(* reminders.go).  A menu of one call lists, cancels and schedules; every  *)
(* job is a record, a recording and a call file in Asterisk's spool, which *)
(* Asterisk dials and tries again by itself, and whose answer starts a     *)
(* process that claims the job.  A lock serialises the short changes, and  *)
(* a housekeeping process removes what is over.                            *)
(***************************************************************************)
EXTENDS Naturals, FiniteSets

CONSTANTS
    Jobs,           \* ids
    Menus,          \* calls of the handset into the menu
    MaxPending,     \* reminders a handset may have
    Tries,          \* how often Asterisk dials
    Wall,           \* moment -> what the clock on the wall says; in autumn it says a
                    \* thing twice, in spring it leaves one out
    Keyed,          \* the times a caller may key
    MaxMishaps      \* bound: processes that die, writes that fail

VARIABLES
    now,            \* the moment
    meta,           \* job -> its record: "none", "pending", "cancelled", "answered"
    audio,          \* job -> its recording
    queue,          \* job -> its call file: "none", "out", "done"
    due, asked,     \* job -> its moment; [wall, at]: the time that was keyed ("delay" for
                    \* none) and when
    tries, attempt, \* external: job -> Asterisk's attempts; "no", "ring", "answered" (the
                    \* process that claims is under way), "play"
    menu,           \* menu -> where it is: [at, todo, job, due, asked]
    lock,           \* who holds the lock
    heard,          \* job -> how often it was played
    mishaps

vars == <<now, meta, audio, queue, due, asked, tries, attempt, menu, lock, heard, mishaps>>
store == <<meta, audio, queue, due, asked>>
asterisk == <<tries, attempt, heard>>

Mishap == mishaps < MaxMishaps /\ mishaps' = mishaps + 1
Free == lock = "none"
ByDelay == [wall |-> "delay", at |-> 0]
Idle == [at |-> "idle", todo |-> {}, job |-> "none", due |-> 0, asked |-> ByDelay]

Init ==
    /\ now \in DOMAIN Wall /\ \A t \in DOMAIN Wall : now <= t
    /\ meta = [j \in Jobs |-> "none"] /\ audio = [j \in Jobs |-> FALSE] /\ queue = [j \in Jobs |-> "none"]
    /\ due = [j \in Jobs |-> 0] /\ asked = [j \in Jobs |-> ByDelay] /\ tries = [j \in Jobs |-> 0]
    /\ attempt = [j \in Jobs |-> "no"] /\ menu = [m \in Menus |-> Idle] /\ lock = "none"
    /\ heard = [j \in Jobs |-> 0] /\ mishaps = 0
-----------------------------------------------------------------------------
(* Times.                                                                  *)

\* At: the first moment to come at which the wall says it.  A time the wall has
\* already said for the last time is refused as past, one it never says as no time.
At(w) ==
    LET ts == {t \in DOMAIN Wall : Wall[t] = w /\ t > now} IN
    IF ts = {} THEN {} ELSE {CHOOSE t \in ts : \A u \in ts : t <= u}

\* Delay is counted from the moment of the commitment.
Delay == {now + 1}

\* pending: a record whose call file is still there.
Pending == {j \in Jobs : meta[j] = "pending" /\ queue[j] = "out"}
-----------------------------------------------------------------------------
(* The menu.                                                               *)

Put(m, r) == menu' = [menu EXCEPT ![m] = r]
In(m, label) == menu[m].at = label
Quiet == UNCHANGED <<now, store, asterisk, mishaps>>

Call(m) ==
    /\ In(m, "idle") /\ Free /\ Put(m, [Idle EXCEPT !.at = IF Pending = {} THEN "new" ELSE "list", !.todo = Pending])
    /\ UNCHANGED lock /\ Quiet

\* Each job of the list that was read may be cancelled.
Announce(m) ==
    /\ In(m, "list") /\ UNCHANGED lock /\ Quiet
    /\ \/ \E j \in menu[m].todo : Put(m, [menu[m] EXCEPT !.todo = @ \ {j}, !.at = "cancel", !.job = j])
       \/ Put(m, [Idle EXCEPT !.at = "new"])

\* Cancel: the record first, so that an answer finds it; then the call file.
Tombstone(m) ==
    /\ In(m, "cancel") /\ Free
    /\ IF meta[menu[m].job] = "pending"
          THEN /\ meta' = [meta EXCEPT ![menu[m].job] = "cancelled"] /\ lock' = m
               /\ Put(m, [menu[m] EXCEPT !.at = "remove"])
          ELSE Put(m, [menu[m] EXCEPT !.at = "list", !.job = "none"]) /\ UNCHANGED <<meta, lock>>
    /\ UNCHANGED <<now, audio, queue, due, asked, asterisk, mishaps>>
Remove(m) ==
    /\ In(m, "remove") /\ lock' = "none" /\ Put(m, [menu[m] EXCEPT !.at = "list", !.job = "none"])
    /\ LET j == menu[m].job IN
       /\ queue' = [queue EXCEPT ![j] = IF @ = "out" THEN "none" ELSE @] /\ audio' = [audio EXCEPT ![j] = FALSE]
    /\ UNCHANGED <<now, meta, due, asked, asterisk, mishaps>>

\* when: a time that was keyed, or a delay; what is past is asked again.
When(m) ==
    /\ In(m, "new") /\ Free /\ UNCHANGED lock /\ Quiet
    /\ IF Cardinality(Pending) >= MaxPending THEN Put(m, Idle)
       ELSE \/ \E w \in Keyed : \E t \in At(w) : Put(m, [menu[m] EXCEPT !.at = "message", !.due = t,
                                                            !.asked = [wall |-> w, at |-> now]])
            \/ Put(m, [menu[m] EXCEPT !.at = "message", !.due = 0, !.asked = ByDelay])

\* NewJob, with an id nothing had before; each is recorded here.
Fresh == {j \in Jobs : due[j] = 0 /\ meta[j] = "none" /\ ~audio[j] /\ \A n \in Menus : menu[n].job # j}
Record(m) ==
    /\ In(m, "message") /\ Fresh # {} /\ LET j == CHOOSE j \in Fresh : TRUE IN
        audio' = [audio EXCEPT ![j] = TRUE] /\ Put(m, [menu[m] EXCEPT !.at = "commit", !.job = j])
    /\ UNCHANGED <<now, meta, queue, due, asked, asterisk, lock, mishaps>>

\* The line is gone, or the caller starts again: the draft is removed.
HangUp(m) ==
    /\ \/ menu[m].at \in {"list", "new", "message", "commit"} /\ Put(m, Idle)
       \/ menu[m].at \in {"message", "commit"} /\ Put(m, [Idle EXCEPT !.at = "new"])
    /\ audio' = IF In(m, "commit") THEN [audio EXCEPT ![menu[m].job] = FALSE] ELSE audio
    /\ UNCHANGED <<now, meta, queue, due, asked, asterisk, lock, mishaps>>

\* Commit under the lock: not past, not full; the record, then the call file.
Moment(m) == IF menu[m].asked = ByDelay THEN Delay ELSE {menu[m].due}
Commit(m) ==
    /\ In(m, "commit") /\ Free /\ LET j == menu[m].job IN \E t \in Moment(m) :
        IF t > now /\ Cardinality(Pending) < MaxPending
        THEN /\ meta' = [meta EXCEPT ![j] = "pending"] /\ due' = [due EXCEPT ![j] = t]
             /\ asked' = [asked EXCEPT ![j] = menu[m].asked] /\ lock' = m
             /\ Put(m, [menu[m] EXCEPT !.at = "publish"]) /\ UNCHANGED audio
        ELSE Put(m, IF t > now THEN Idle ELSE [Idle EXCEPT !.at = "new"]) /\ audio' = [audio EXCEPT ![j] = FALSE] /\ UNCHANGED <<meta, due, asked, lock>>
    /\ UNCHANGED <<now, queue, asterisk, mishaps>>

\* The call file is renamed into place, or what was written is taken back.
Publish(m) ==
    /\ In(m, "publish") /\ queue' = [queue EXCEPT ![menu[m].job] = "out"]
    /\ Put(m, [menu[m] EXCEPT !.at = "sync"]) /\ UNCHANGED <<now, meta, audio, due, asked, asterisk, lock, mishaps>>
Synced(m) ==
    /\ In(m, "sync") /\ lock' = "none" /\ Put(m, Idle)
    /\ UNCHANGED <<now, store, asterisk, mishaps>>
TakeBack(m) ==
    /\ menu[m].at \in {"publish", "sync"} /\ Mishap /\ lock' = "none" /\ Put(m, Idle)
    /\ LET j == menu[m].job IN
       /\ meta' = [meta EXCEPT ![j] = "none"] /\ queue' = [queue EXCEPT ![j] = IF @ = "out" THEN "none" ELSE @]
       /\ audio' = [audio EXCEPT ![j] = FALSE]
    /\ UNCHANGED <<now, due, asked, asterisk>>

\* The process dies, wherever it is; the kernel gives up its lock.
Dies(m) ==
    /\ ~In(m, "idle") /\ Mishap /\ Put(m, Idle) /\ lock' = IF lock = m THEN "none" ELSE lock
    /\ UNCHANGED <<now, store, asterisk>>
-----------------------------------------------------------------------------
(* external: Asterisk and its spool.                                       *)

Ring(j) ==
    /\ queue[j] = "out" /\ due[j] <= now /\ attempt[j] = "no" /\ tries[j] < Tries
    /\ attempt' = [attempt EXCEPT ![j] = "ring"] /\ tries' = [tries EXCEPT ![j] = @ + 1]
    /\ UNCHANGED <<now, store, menu, lock, heard, mishaps>>

Archived(j) == queue' = [queue EXCEPT ![j] = IF @ = "out" THEN "done" ELSE @]

NoAnswer(j) ==
    /\ attempt[j] = "ring" /\ attempt' = [attempt EXCEPT ![j] = "no"]
    /\ IF tries[j] = Tries THEN Archived(j) ELSE UNCHANGED queue
    /\ UNCHANGED <<now, meta, audio, due, asked, tries, menu, lock, heard, mishaps>>

\* The handset answers: Asterisk starts the process that claims, and counts the
\* call as a success whatever becomes of it.
Pickup(j) ==
    /\ attempt[j] = "ring" /\ attempt' = [attempt EXCEPT ![j] = "answered"]
    /\ UNCHANGED <<now, store, tries, menu, lock, heard, mishaps>>

\* Mutant of Claim: a job is claimed whatever its record says.
ClaimAny(j) ==
    /\ attempt[j] = "answered" /\ Free
    /\ meta' = [meta EXCEPT ![j] = "answered"] /\ heard' = [heard EXCEPT ![j] = @ + 1]
    /\ attempt' = [attempt EXCEPT ![j] = "play"]
    /\ UNCHANGED <<now, audio, queue, due, asked, tries, menu, lock, mishaps>>

\* Claim: the answer consumes the job before anything is played.
Claim(j) ==
    /\ attempt[j] = "answered" /\ Free
    /\ IF meta[j] = "pending"
          THEN /\ meta' = [meta EXCEPT ![j] = "answered"] /\ heard' = [heard EXCEPT ![j] = @ + 1]
               /\ attempt' = [attempt EXCEPT ![j] = "play"] /\ UNCHANGED queue
          ELSE attempt' = [attempt EXCEPT ![j] = "no"] /\ Archived(j) /\ UNCHANGED <<meta, heard>>
    /\ UNCHANGED <<now, audio, due, asked, tries, menu, lock, mishaps>>

\* It was played, or hung up on; either way its recording goes.
Deliver(j) ==
    /\ attempt[j] = "play" /\ attempt' = [attempt EXCEPT ![j] = "no"]
    /\ audio' = [audio EXCEPT ![j] = FALSE] /\ Archived(j)
    /\ UNCHANGED <<now, meta, due, asked, tries, menu, lock, heard, mishaps>>

\* The process dies before it claims, cannot write the record, wrote it and could
\* not sync it, or dies while it plays and leaves the recording to Prune.
Unclaimed(j) ==
    /\ attempt[j] \in {"answered", "play"} /\ Mishap /\ Archived(j)
    /\ attempt' = [attempt EXCEPT ![j] = "no"]
    /\ \/ UNCHANGED meta
       \/ attempt[j] = "answered" /\ Free /\ meta[j] = "pending" /\ meta' = [meta EXCEPT ![j] = "answered"]
    /\ UNCHANGED <<now, audio, due, asked, tries, menu, lock, heard>>

\* external: Asterisk starts again; what it was dialling stays in the spool.
Restart ==
    /\ Mishap /\ attempt' = [j \in Jobs |-> "no"]
    /\ tries' = [j \in Jobs |-> IF attempt[j] # "no" THEN tries[j] - 1 ELSE tries[j]]
    /\ UNCHANGED <<now, store, menu, lock, heard>>

\* Prune: what is archived, or a day old and not in the spool.
Old(j) == \A m \in Menus : menu[m].job # j
Prune(j) ==
    /\ Free /\ queue[j] # "out" /\ (meta[j] # "none" \/ audio[j] \/ queue[j] = "done")
    /\ queue[j] = "done" \/ Old(j)
    /\ meta' = [meta EXCEPT ![j] = "none"] /\ audio' = [audio EXCEPT ![j] = FALSE]
    /\ queue' = [queue EXCEPT ![j] = "none"]
    /\ UNCHANGED <<now, due, asked, asterisk, menu, lock, mishaps>>

Tick == now + 1 \in DOMAIN Wall /\ now' = now + 1
        /\ UNCHANGED <<store, asterisk, menu, lock, mishaps>>

Next ==
    \/ \E m \in Menus :
        \/ Call(m) \/ Announce(m) \/ Tombstone(m) \/ Remove(m) \/ When(m) \/ Record(m) \/ HangUp(m)
        \/ Commit(m) \/ Publish(m) \/ Synced(m) \/ TakeBack(m) \/ Dies(m)
    \/ \E j \in Jobs : Ring(j) \/ NoAnswer(j) \/ Pickup(j) \/ Claim(j) \/ Deliver(j) \/ Unclaimed(j) \/ Prune(j)
    \/ Restart \/ Tick

Spec == Init /\ [][Next]_vars

TypeOK ==
    /\ \A j \in Jobs : meta[j] \in {"none", "pending", "cancelled", "answered"} /\ queue[j] \in {"none", "out", "done"}
    /\ lock \in Menus \cup {"none"}
-----------------------------------------------------------------------------
\* A reminder plays once at most, and its recording is there while it does.
PlaysOnce == \A j \in Jobs : heard[j] <= 1 /\ (attempt[j] = "play" => meta[j] = "answered" /\ audio[j])

Committing(j) == \E m \in Menus : menu[m].at = "sync" /\ menu[m].job = j

\* What was committed stays in the spool with its record until it was picked up
\* or cancelled, or nobody picked up any of the tries.  (Picked up is not heard: a
\* process that dies before its claim leaves no second call.)
SavedIsKept ==
    \A j \in Jobs : queue[j] = "out" =>
        \/ queue'[j] = "out" /\ (meta[j] = "pending" => meta'[j] # "none")
        \/ Committing(j) \/ meta[j] = "cancelled" \/ attempt[j] \in {"answered", "play"}
        \/ heard[j] > 0 \/ tries[j] = Tries

\* No handset has more reminders than it may, whoever schedules at once.
NotTooMany == Cardinality(Pending) <= MaxPending

\* A reminder is due when the wall says what was keyed, and of the moments that
\* were still to come when it was keyed none earlier said so, in a repeated hour
\* and out of it; a time the wall leaves out is no reminder's; it rings then and
\* not before.
DueIsAsked ==
    \A j \in Jobs : meta[j] = "pending" =>
        /\ asked[j] # ByDelay =>
               /\ Wall[due[j]] = asked[j].wall
               /\ \A t \in asked[j].at + 1 .. due[j] - 1 : Wall[t] # asked[j].wall
        /\ attempt[j] # "no" => due[j] <= now

\* What is cancelled is not played.
CancelledIsSilent == \A j \in Jobs : meta[j] = "cancelled" => heard'[j] = heard[j]
=============================================================================
