------------------------------ MODULE SyncBell ------------------------------
(***************************************************************************)
(* When a sync pass runs (internal/bell/bell.go; sync.go, sync_follow.go   *)
(* and sync_pace.go of cmd/doorman).  A loop makes pass after pass; while  *)
(* the bell, a quiet socket on which the service says only "sync now", is  *)
(* up it waits minutes between passes instead of five seconds.  Three      *)
(* goroutines meet in one-slot channels: the bell's rings, the change of   *)
(* the bell's health, and the kick after each pass to the probe that looks *)
(* for a saved receipt the daemon has loaded since.                        *)
(***************************************************************************)
EXTENDS Naturals

CONSTANTS
    MaxQueued,      \* bound: commands queued on the service
    MaxLosses,      \* bound: sockets, signals, passes and dials that fail
    MaxLogins       \* bound: credentials stored after the first

VARIABLES
    pending,        \* external: a command no pass has fetched yet
    queuedSoFar,
    losses,
    credential,     \* the stored credential's tag
    good,           \* external: the credential the service lets in; 0: removed
    socket,         \* external: "none", "open", "dead" (half open, unnoticed)
    signal, pong,   \* frames on their way to the box
    bell,           \* Run: where it is, the tag it dialled with, healthy
    up, rings, changed,   \* syncWake
    loop,           \* syncLoop: where it is, its timer and the pass's error
    receipt,        \* the receipt followed: none, saved, loaded or applied
    kicks, follow   \* applyFollow: where it is and what it rang for

service == <<pending, queuedSoFar, credential, good>>
wire == <<socket, signal, pong>>
wake == <<up, rings, changed>>
following == <<receipt, kicks, follow>>
vars == <<service, losses, wire, bell, wake, loop, following>>

Init ==
    /\ pending = FALSE /\ queuedSoFar = 0 /\ losses = 0
    /\ credential = 1 /\ good = 1
    /\ socket = "none" /\ signal = FALSE /\ pong = FALSE
    /\ bell = [at |-> "credential", tag |-> 0, healthy |-> FALSE]
    /\ up = FALSE /\ rings = FALSE /\ changed = FALSE
    /\ loop = [at |-> "pass", timer |-> "fast", failed |-> FALSE]
    /\ receipt = "none" /\ kicks = FALSE
    /\ follow = [at |-> "asleep", rung |-> FALSE]
-----------------------------------------------------------------------------
(* External: the service, the network, a person who signs in.              *)

Loss == losses < MaxLosses /\ losses' = losses + 1

\* A command is queued, and the box's socket is told.
Queue ==
    /\ queuedSoFar < MaxQueued /\ queuedSoFar' = queuedSoFar + 1
    /\ pending' = TRUE
    /\ signal' = (signal \/ socket = "open")
    /\ UNCHANGED <<losses, credential, good, socket, pong, bell, wake, loop, following>>

Login ==
    /\ credential <= MaxLogins /\ credential' = credential + 1
    /\ good' = IF good = 0 THEN 0 ELSE credential + 1
    /\ UNCHANGED <<pending, queuedSoFar, losses, wire, bell, wake, loop, following>>

\* The service stops letting the credential in, or the owner removes the box.
Revoke ==
    /\ good = credential
    /\ good' \in {0, credential + 1}
    /\ Loss
    /\ UNCHANGED <<pending, queuedSoFar, credential, wire, bell, wake, loop, following>>

SocketDies ==
    /\ socket = "open" /\ Loss
    /\ socket' = "dead" /\ signal' = FALSE /\ pong' = FALSE
    /\ UNCHANGED <<service, bell, wake, loop, following>>

DaemonLoads ==
    /\ receipt = "saved" /\ receipt' = "loaded"
    /\ UNCHANGED <<service, losses, wire, bell, wake, loop, kicks, follow>>
-----------------------------------------------------------------------------
(* The bell.                                                               *)

Ring == rings' = TRUE

Credential ==
    /\ bell.at = "credential"
    /\ IF good = 0 THEN Ring /\ bell' = [bell EXCEPT !.at = "gone"]
       ELSE bell' = [bell EXCEPT !.at = "dial", !.tag = credential] /\ UNCHANGED rings
    /\ UNCHANGED <<service, losses, wire, up, changed, loop, following>>

\* Dialled, refused, removed, or failed and backing off.
Dial ==
    /\ bell.at = "dial"
    /\ \/ /\ good = credential
          /\ socket' = "open" /\ signal' = FALSE /\ pong' = TRUE
          /\ bell' = [bell EXCEPT !.at = "session"]
          /\ UNCHANGED <<rings, losses>>
       \/ /\ good \notin {0, credential}
          /\ bell' = [bell EXCEPT !.at = "refused"]
          /\ UNCHANGED <<wire, rings, losses>>
       \/ /\ good = 0
          /\ Ring /\ bell' = [bell EXCEPT !.at = "gone"]
          /\ UNCHANGED <<wire, losses>>
       \/ /\ Loss
          /\ bell' = [bell EXCEPT !.at = "credential"]
          /\ UNCHANGED <<wire, rings>>
    /\ UNCHANGED <<service, up, changed, loop, following>>

\* Mutant of AwaitNewCredential: It compares with the credential of the refusal
\* as read again after it.
AwaitForever ==
    /\ bell.at = "refused"
    /\ good = 0 /\ Ring /\ bell' = [bell EXCEPT !.at = "gone"]
    /\ UNCHANGED <<service, losses, wire, up, changed, loop, following>>

\* A refused credential is not offered again; the store is looked at until it
\* holds another one.
AwaitNewCredential ==
    /\ bell.at = "refused"
    /\ \/ /\ good # 0 /\ credential # bell.tag
          /\ bell' = [bell EXCEPT !.at = "credential"]
          /\ UNCHANGED rings
       \/ /\ good = 0
          /\ Ring /\ bell' = [bell EXCEPT !.at = "gone"]
    /\ UNCHANGED <<service, losses, wire, up, changed, loop, following>>

\* The first answer makes the socket healthy: the loop is told, and what was
\* queued while the bell was down rang nobody, so it rings now.
Pong ==
    /\ bell.at = "session" /\ pong /\ pong' = FALSE
    /\ IF bell.healthy THEN UNCHANGED <<bell, up>>
       ELSE up' = TRUE /\ bell' = [bell EXCEPT !.healthy = TRUE, !.at = "tell and ring"]
    /\ UNCHANGED <<service, losses, socket, signal, rings, changed, loop, following>>

\* setBell stores the state and then leaves a token that never blocks.
Tell ==
    /\ bell.at \in {"tell", "tell and ring", "tell down"}
    /\ changed' = TRUE
    /\ bell' = [bell EXCEPT !.at = CASE @ = "tell and ring" -> "ring"
                                     [] @ = "tell" -> "session"
                                     [] OTHER -> "credential"]
    /\ UNCHANGED <<service, losses, wire, up, rings, loop, following>>

RingAfterPong ==
    /\ bell.at = "ring"
    /\ Ring /\ bell' = [bell EXCEPT !.at = "session"]
    /\ UNCHANGED <<service, losses, wire, up, changed, loop, following>>

Frame ==
    /\ bell.at = "session" /\ signal
    /\ signal' = FALSE /\ Ring
    /\ UNCHANGED <<service, losses, socket, pong, bell, up, changed, loop, following>>

\* A failed read, or no answer to a heartbeat.
SessionEnds ==
    /\ bell.at = "session" /\ socket = "dead"
    /\ socket' = "none"
    /\ bell' = [bell EXCEPT !.healthy = FALSE, !.at = IF @ = "session" /\ bell.healthy THEN "tell down" ELSE "credential"]
    /\ up' = (up /\ ~bell.healthy)
    /\ UNCHANGED <<service, losses, signal, pong, rings, changed, loop, following>>

Bell == Credential \/ Dial \/ AwaitNewCredential \/ Pong \/ Tell \/ RingAfterPong \/ Frame \/ SessionEnds
-----------------------------------------------------------------------------
(* The loop.                                                               *)

Interval == IF up THEN "slow" ELSE "fast"

\* A pass fetches what is queued; it may fail before that or after.
Fetch ==
    /\ loop.at = "pass"
    /\ \/ /\ good # 0
          /\ pending' = FALSE
          /\ receipt' = IF pending THEN "saved" ELSE IF receipt = "loaded" THEN "applied" ELSE receipt
          /\ loop' = [loop EXCEPT !.at = "fetched", !.failed = FALSE]
          /\ UNCHANGED losses
       \/ /\ good # 0 /\ Loss
          /\ loop' = [loop EXCEPT !.at = "fetched", !.failed = TRUE]
          /\ UNCHANGED <<pending, receipt>>
       \/ /\ good = 0
          /\ loop' = [loop EXCEPT !.at = "stopped"]
          /\ UNCHANGED <<pending, receipt, losses>>
    /\ UNCHANGED <<queuedSoFar, credential, good, wire, bell, wake, kicks, follow>>

\* Every pass kicks the probe, whatever came of it.
Kick ==
    /\ loop.at = "fetched"
    /\ kicks' = TRUE
    /\ loop' = [loop EXCEPT !.at = "arm"]
    /\ UNCHANGED <<service, losses, wire, bell, wake, receipt, follow>>

\* pace.next: a failure backs off whatever the bell says.
Arm ==
    /\ loop.at = "arm"
    /\ loop' = [loop EXCEPT !.at = "wait", !.timer = IF loop.failed THEN "backoff" ELSE Interval]
    /\ UNCHANGED <<service, losses, wire, bell, wake, following>>

TimerFires ==
    /\ loop.at = "wait"
    /\ loop' = [loop EXCEPT !.at = "pass"]
    /\ UNCHANGED <<service, losses, wire, bell, wake, following>>

Rung ==
    /\ loop.at = "wait" /\ rings
    /\ rings' = FALSE
    /\ loop' = [loop EXCEPT !.at = "pass"]
    /\ UNCHANGED <<service, losses, wire, bell, up, changed, following>>

Changed ==
    /\ loop.at = "wait" /\ changed
    /\ changed' = FALSE
    /\ loop' = IF loop.failed THEN loop ELSE [loop EXCEPT !.timer = Interval]
    /\ UNCHANGED <<service, losses, wire, bell, up, rings, following>>

Loop == Fetch \/ Kick \/ Arm \/ TimerFires \/ Rung \/ Changed
-----------------------------------------------------------------------------
(* The probe for receipts the daemon has loaded.                           *)

Waiting == receipt \in {"saved", "loaded"}

\* Mutant of Probe: With a receipt waiting it sleeps as with none.
ProbeOnce ==
    /\ follow.at = "probe"
    /\ follow' = [at |-> "asleep", rung |-> receipt = "loaded"]
    /\ rings' = (rings \/ (receipt = "loaded" /\ ~follow.rung))
    /\ UNCHANGED <<service, losses, wire, bell, up, changed, loop, receipt, kicks>>

\* One look: nothing waiting, it sleeps until the next pass; else it looks
\* again after a while, and rings once for a receipt that is ready.
Probe ==
    /\ follow.at = "probe"
    /\ follow' = [at |-> IF Waiting THEN "timed" ELSE "asleep", rung |-> receipt = "loaded"]
    /\ rings' = (rings \/ (receipt = "loaded" /\ ~follow.rung))
    /\ UNCHANGED <<service, losses, wire, bell, up, changed, loop, receipt, kicks>>

Kicked ==
    /\ follow.at \in {"asleep", "timed"} /\ kicks
    /\ kicks' = FALSE /\ follow' = [follow EXCEPT !.at = "probe"]
    /\ UNCHANGED <<service, losses, wire, bell, wake, loop, receipt>>

LookAgain ==
    /\ follow.at = "timed" /\ follow' = [follow EXCEPT !.at = "probe"]
    /\ UNCHANGED <<service, losses, wire, bell, wake, loop, receipt, kicks>>

Follow == Probe \/ Kicked \/ LookAgain

Next == Queue \/ Login \/ Revoke \/ SocketDies \/ DaemonLoads \/ Bell \/ Loop \/ Follow

Spec == Init /\ [][Next]_vars /\ WF_vars(Bell) /\ WF_vars(Loop) /\ WF_vars(Follow)
-----------------------------------------------------------------------------
(* Properties.                                                             *)

TypeOK ==
    /\ {pending, signal, pong, up, rings, changed, kicks} \subseteq BOOLEAN
    /\ socket \in {"none", "open", "dead"} /\ good \in 0..credential + 1
    /\ receipt \in {"none", "saved", "loaded", "applied"}
    /\ follow.at \in {"asleep", "timed", "probe"}

\* A command never waits for the slow poll alone: while the loop sleeps on the
\* bell's interval something is on its way to wake it, or the socket is dead
\* and nobody knows yet.
NobodyWaitsSlowly ==
    (pending /\ loop.at = "wait" /\ loop.timer = "slow") =>
        \/ rings \/ changed \/ signal \/ socket = "dead"
        \/ bell.at \in {"tell and ring", "ring", "tell down"}

\* While a receipt waits for the daemon the probe does not sleep, unless the
\* pass that saved it has yet to kick it.
SomebodyLooks ==
    Waiting /\ loop.at # "stopped" => follow.at # "asleep" \/ kicks \/ loop.at = "fetched"

\* The bell comes back: after a lost socket, a failed dial or a new credential.
BellComesBack ==
    good = credential ~> (bell.healthy \/ good # credential)
=============================================================================
