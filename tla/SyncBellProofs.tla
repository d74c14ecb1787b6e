--------------------------- MODULE SyncBellProofs ---------------------------
(***************************************************************************)
(* What wakes the sync loop, for any number of commands, losses and        *)
(* sign-ins.  NobodyWaitsSlowly is not inductive: that nothing need be on  *)
(* its way when the timer is armed follows from how the bell, its socket   *)
(* and the health it last told stand to each other.  Inv says how.         *)
(***************************************************************************)
EXTENDS SyncBell, TLAPS

BellPlace == {"credential", "dial", "refused", "gone", "session", "tell and ring", "ring", "tell down"}
Connected == {"session", "tell and ring", "ring"}

Flags ==
    /\ pending \in BOOLEAN /\ signal \in BOOLEAN /\ pong \in BOOLEAN
    /\ up \in BOOLEAN /\ rings \in BOOLEAN /\ changed \in BOOLEAN /\ kicks \in BOOLEAN

Places ==
    /\ credential \in Nat /\ good \in Nat /\ good <= credential + 1
    /\ socket \in {"none", "open", "dead"}
    /\ receipt \in {"none", "saved", "loaded", "applied"}

Records ==
    /\ bell \in [at : BellPlace, tag : Nat, healthy : BOOLEAN]
    /\ loop \in [at : {"pass", "fetched", "arm", "wait", "stopped"},
                 timer : {"fast", "slow", "backoff"}, failed : BOOLEAN]
    /\ follow \in [at : {"asleep", "timed", "probe"}, rung : BOOLEAN]

\* A socket is there while the bell is in a session, a signal only on one that
\* is open, and a healthy bell is in a session.
SocketOK ==
    /\ bell.at \in Connected <=> socket # "none"
    /\ signal => socket = "open"
    /\ bell.healthy => bell.at \in Connected
    /\ bell.at = "tell and ring" => bell.healthy

\* What the loop was told of the bell is what the bell is, or it will be told;
\* a pass that failed leaves no slow timer.
HealthOK ==
    /\ up = bell.healthy
    /\ loop.at = "wait" /\ loop.failed => loop.timer = "backoff"
    /\ loop.at = "wait" /\ loop.timer = "slow" => up \/ changed \/ bell.at = "tell down"

\* Since the last pass fetched everything, a command that waits under a healthy
\* bell has rung, or rings when the frame or the first pong is handled, unless
\* the socket is dead.
QueuedOK ==
    (pending /\ up /\ ~loop.failed /\ loop.at \in {"fetched", "arm", "wait"}) =>
        rings \/ signal \/ socket = "dead" \/ bell.at \in {"tell and ring", "ring"}

Inv == Flags /\ Places /\ Records /\ SocketOK /\ HealthOK /\ QueuedOK /\ SomebodyLooks

-----------------------------------------------------------------------------
LEMMA InitInv == Init => Inv
  <1> SUFFICES ASSUME Init PROVE Inv OBVIOUS
  <1> USE DEF Init
  <1>1. Flags BY DEF Flags
  <1>5. Places BY DEF Places
  <1>4. Records BY DEF Records, BellPlace
  <1>2. SocketOK /\ HealthOK BY DEF SocketOK, Connected, HealthOK
  <1>3. QueuedOK /\ SomebodyLooks BY DEF QueuedOK, SomebodyLooks, Waiting
  <1> QED BY <1>1, <1>2, <1>3, <1>4, <1>5 DEF Inv

LEMMA StutterInv == ASSUME Inv, UNCHANGED vars PROVE Inv'
  <1> USE DEF Inv, vars, service, wire, wake, following
  <1>1. Flags' BY DEF Flags
  <1>2. Places' BY DEF Places
  <1>3. Records' BY DEF Records
  <1>4. SocketOK' BY DEF SocketOK
  <1>5. HealthOK' BY DEF HealthOK
  <1>6. QueuedOK' BY DEF QueuedOK
  <1>7. SomebodyLooks' BY DEF SomebodyLooks, Waiting
  <1> QED BY <1>1, <1>2, <1>3, <1>4, <1>5, <1>6, <1>7

\* The credential the service takes is at most one ahead of the one stored.
LEMMA CredentialPlaces == ASSUME Places, Login \/ Revoke PROVE Places'
  <1>1. credential \in Nat /\ good \in Nat /\ good <= credential + 1 BY DEF Places
  <1>2. socket' = socket /\ receipt' = receipt BY DEF Login, Revoke, wire, following
  <1>3. credential' \in Nat /\ good' \in Nat /\ good' <= credential' + 1
    <2>1. CASE Login
      <3>1. credential' = credential + 1 /\ good' = IF good = 0 THEN 0 ELSE credential + 1
        BY <2>1 DEF Login
      <3> QED BY <1>1, <3>1
    <2>2. CASE Revoke
      <3>1. credential' = credential /\ (good' = 0 \/ good' = credential + 1) BY <2>2 DEF Revoke
      <3> QED BY <1>1, <3>1
    <2> QED BY <2>1, <2>2
  <1> QED BY <1>2, <1>3 DEF Places

\* What the service, the network and the people do.
LEMMA OutsideInv == ASSUME Inv, Queue \/ Login \/ Revoke \/ SocketDies \/ DaemonLoads PROVE Inv'
  <1> USE DEF Inv, Flags, Places, Records, BellPlace, SocketOK, Connected, HealthOK, QueuedOK,
              SomebodyLooks, Waiting, Loss, Ring, Interval, service, wire, wake, following
  <1>1. CASE Queue
    <2> USE <1>1 DEF Queue
    <2>1. Flags' OBVIOUS
    <2>2. Places' OBVIOUS
    <2>3. Records' OBVIOUS
    <2>4. SocketOK' OBVIOUS
    <2>5. HealthOK' OBVIOUS
    <2>6. QueuedOK' OBVIOUS
    <2>7. SomebodyLooks' OBVIOUS
    <2> QED BY <2>1, <2>2, <2>3, <2>4, <2>5, <2>6, <2>7 DEF Inv
  <1>2. CASE Login
    <2> USE <1>2 DEF Login
    <2>1. Flags' OBVIOUS
    <2>2. Places' BY CredentialPlaces
    <2>3. Records' OBVIOUS
    <2>4. SocketOK' OBVIOUS
    <2>5. HealthOK' OBVIOUS
    <2>6. QueuedOK' OBVIOUS
    <2>7. SomebodyLooks' OBVIOUS
    <2> QED BY <2>1, <2>2, <2>3, <2>4, <2>5, <2>6, <2>7 DEF Inv
  <1>3. CASE Revoke
    <2> USE <1>3 DEF Revoke
    <2>1. Flags' OBVIOUS
    <2>2. Places' BY CredentialPlaces
    <2>3. Records' OBVIOUS
    <2>4. SocketOK' OBVIOUS
    <2>5. HealthOK' OBVIOUS
    <2>6. QueuedOK' OBVIOUS
    <2>7. SomebodyLooks' OBVIOUS
    <2> QED BY <2>1, <2>2, <2>3, <2>4, <2>5, <2>6, <2>7 DEF Inv
  <1>4. CASE SocketDies
    <2> USE <1>4 DEF SocketDies
    <2>1. Flags' OBVIOUS
    <2>2. Places' OBVIOUS
    <2>3. Records' OBVIOUS
    <2>4. SocketOK' OBVIOUS
    <2>5. HealthOK' OBVIOUS
    <2>6. QueuedOK' OBVIOUS
    <2>7. SomebodyLooks' OBVIOUS
    <2> QED BY <2>1, <2>2, <2>3, <2>4, <2>5, <2>6, <2>7 DEF Inv
  <1>5. CASE DaemonLoads
    <2> USE <1>5 DEF DaemonLoads
    <2>1. Flags' OBVIOUS
    <2>2. Places' OBVIOUS
    <2>3. Records'
      <3>1. Records /\ UNCHANGED <<bell, loop, follow>> OBVIOUS
      <3> QED BY ONLY <3>1 DEF Records
    <2>4. SocketOK' OBVIOUS
    <2>5. HealthOK' OBVIOUS
    <2>6. QueuedOK' OBVIOUS
    <2>7. SomebodyLooks' OBVIOUS
    <2> QED BY <2>1, <2>2, <2>3, <2>4, <2>5, <2>6, <2>7 DEF Inv
  <1> QED BY <1>1, <1>2, <1>3, <1>4, <1>5

\* The bell.
LEMMA BellInv == ASSUME Inv, Bell PROVE Inv'
  <1> USE DEF Inv, Flags, Places, Records, BellPlace, SocketOK, Connected, HealthOK, QueuedOK,
              SomebodyLooks, Waiting, Loss, Ring, Interval, service, wire, wake, following
  <1>1. CASE Credential
    <2> USE <1>1 DEF Credential
    <2>1. Flags' OBVIOUS
    <2>2. Places' OBVIOUS
    <2>3. Records' OBVIOUS
    <2>4. SocketOK' OBVIOUS
    <2>5. HealthOK' OBVIOUS
    <2>6. QueuedOK' OBVIOUS
    <2>7. SomebodyLooks' OBVIOUS
    <2> QED BY <2>1, <2>2, <2>3, <2>4, <2>5, <2>6, <2>7 DEF Inv
  <1>2. CASE Dial
    <2> USE <1>2 DEF Dial
    <2>1. Flags' OBVIOUS
    <2>2. Places' OBVIOUS
    <2>3. Records'
      <3>1. Records /\ UNCHANGED <<loop, follow>> OBVIOUS
      <3>2. \E p \in BellPlace : bell' = [bell EXCEPT !.at = p] OBVIOUS
      <3> HIDE <1>2 DEF Dial, BellPlace
      <3> QED BY ONLY <3>1, <3>2 DEF Records
    <2>4. SocketOK'
      <3>1. CASE socket' = "open" /\ bell' = [bell EXCEPT !.at = "session"] /\ signal' = FALSE BY <3>1
      <3>2. CASE UNCHANGED wire /\ \E p \in {"refused", "gone", "credential"} : bell' = [bell EXCEPT !.at = p]
        BY <3>2
      <3> QED BY <3>1, <3>2
    <2>5. HealthOK' OBVIOUS
    <2>6. QueuedOK' OBVIOUS
    <2>7. SomebodyLooks' OBVIOUS
    <2> QED BY <2>1, <2>2, <2>3, <2>4, <2>5, <2>6, <2>7 DEF Inv
  <1>3. CASE AwaitNewCredential
    <2> USE <1>3 DEF AwaitNewCredential
    <2>1. Flags' OBVIOUS
    <2>2. Places' OBVIOUS
    <2>3. Records' OBVIOUS
    <2>4. SocketOK' OBVIOUS
    <2>5. HealthOK' OBVIOUS
    <2>6. QueuedOK' OBVIOUS
    <2>7. SomebodyLooks' OBVIOUS
    <2> QED BY <2>1, <2>2, <2>3, <2>4, <2>5, <2>6, <2>7 DEF Inv
  <1>4. CASE Pong
    <2> USE <1>4 DEF Pong
    <2>1. Flags' OBVIOUS
    <2>2. Places' OBVIOUS
    <2>3. Records' OBVIOUS
    <2>4. SocketOK' OBVIOUS
    <2>5. HealthOK' OBVIOUS
    <2>6. QueuedOK' OBVIOUS
    <2>7. SomebodyLooks' OBVIOUS
    <2> QED BY <2>1, <2>2, <2>3, <2>4, <2>5, <2>6, <2>7 DEF Inv
  <1>5. CASE Tell
    <2> USE <1>5 DEF Tell
    <2>1. Flags' OBVIOUS
    <2>2. Places' OBVIOUS
    <2>3. Records' OBVIOUS
    <2>4. SocketOK' OBVIOUS
    <2>5. HealthOK' OBVIOUS
    <2>6. QueuedOK' OBVIOUS
    <2>7. SomebodyLooks' OBVIOUS
    <2> QED BY <2>1, <2>2, <2>3, <2>4, <2>5, <2>6, <2>7 DEF Inv
  <1>6. CASE RingAfterPong
    <2> USE <1>6 DEF RingAfterPong
    <2>1. Flags' OBVIOUS
    <2>2. Places' OBVIOUS
    <2>3. Records' OBVIOUS
    <2>4. SocketOK' OBVIOUS
    <2>5. HealthOK' OBVIOUS
    <2>6. QueuedOK' OBVIOUS
    <2>7. SomebodyLooks' OBVIOUS
    <2> QED BY <2>1, <2>2, <2>3, <2>4, <2>5, <2>6, <2>7 DEF Inv
  <1>7. CASE Frame
    <2> USE <1>7 DEF Frame
    <2>1. Flags' OBVIOUS
    <2>2. Places' OBVIOUS
    <2>3. Records' OBVIOUS
    <2>4. SocketOK' OBVIOUS
    <2>5. HealthOK' OBVIOUS
    <2>6. QueuedOK' OBVIOUS
    <2>7. SomebodyLooks' OBVIOUS
    <2> QED BY <2>1, <2>2, <2>3, <2>4, <2>5, <2>6, <2>7 DEF Inv
  <1>8. CASE SessionEnds
    <2> USE <1>8 DEF SessionEnds
    <2>1. Flags' OBVIOUS
    <2>2. Places' OBVIOUS
    <2>3. Records' OBVIOUS
    <2>4. SocketOK' OBVIOUS
    <2>5. HealthOK' OBVIOUS
    <2>6. QueuedOK' OBVIOUS
    <2>7. SomebodyLooks' OBVIOUS
    <2> QED BY <2>1, <2>2, <2>3, <2>4, <2>5, <2>6, <2>7 DEF Inv
  <1> QED BY <1>1, <1>2, <1>3, <1>4, <1>5, <1>6, <1>7, <1>8 DEF Bell

\* The loop.
LEMMA LoopInv == ASSUME Inv, Loop PROVE Inv'
  <1> USE DEF Inv, Flags, Places, Records, BellPlace, SocketOK, Connected, HealthOK, QueuedOK,
              SomebodyLooks, Waiting, Loss, Ring, Interval, service, wire, wake, following
  <1>1. CASE Fetch
    <2> USE <1>1 DEF Fetch
    <2>1. Flags' OBVIOUS
    <2>2. Places' OBVIOUS
    <2>3. Records' OBVIOUS
    <2>4. SocketOK' OBVIOUS
    <2>5. HealthOK' OBVIOUS
    <2>6. QueuedOK' OBVIOUS
    <2>7. SomebodyLooks' OBVIOUS
    <2> QED BY <2>1, <2>2, <2>3, <2>4, <2>5, <2>6, <2>7 DEF Inv
  <1>2. CASE Kick
    <2> USE <1>2 DEF Kick
    <2>1. Flags' OBVIOUS
    <2>2. Places' OBVIOUS
    <2>3. Records' OBVIOUS
    <2>4. SocketOK' OBVIOUS
    <2>5. HealthOK' OBVIOUS
    <2>6. QueuedOK' OBVIOUS
    <2>7. SomebodyLooks' OBVIOUS
    <2> QED BY <2>1, <2>2, <2>3, <2>4, <2>5, <2>6, <2>7 DEF Inv
  <1>3. CASE Arm
    <2> USE <1>3 DEF Arm
    <2>1. Flags' OBVIOUS
    <2>2. Places' OBVIOUS
    <2>3. Records' OBVIOUS
    <2>4. SocketOK' OBVIOUS
    <2>5. HealthOK' OBVIOUS
    <2>6. QueuedOK' OBVIOUS
    <2>7. SomebodyLooks' OBVIOUS
    <2> QED BY <2>1, <2>2, <2>3, <2>4, <2>5, <2>6, <2>7 DEF Inv
  <1>4. CASE TimerFires
    <2> USE <1>4 DEF TimerFires
    <2>1. Flags' OBVIOUS
    <2>2. Places' OBVIOUS
    <2>3. Records' OBVIOUS
    <2>4. SocketOK' OBVIOUS
    <2>5. HealthOK' OBVIOUS
    <2>6. QueuedOK' OBVIOUS
    <2>7. SomebodyLooks' OBVIOUS
    <2> QED BY <2>1, <2>2, <2>3, <2>4, <2>5, <2>6, <2>7 DEF Inv
  <1>5. CASE Rung
    <2> USE <1>5 DEF Rung
    <2>1. Flags' OBVIOUS
    <2>2. Places' OBVIOUS
    <2>3. Records' OBVIOUS
    <2>4. SocketOK' OBVIOUS
    <2>5. HealthOK' OBVIOUS
    <2>6. QueuedOK' OBVIOUS
    <2>7. SomebodyLooks' OBVIOUS
    <2> QED BY <2>1, <2>2, <2>3, <2>4, <2>5, <2>6, <2>7 DEF Inv
  <1>6. CASE Changed
    <2> USE <1>6 DEF Changed
    <2>1. Flags' OBVIOUS
    <2>2. Places' OBVIOUS
    <2>3. Records' OBVIOUS
    <2>4. SocketOK' OBVIOUS
    <2>5. HealthOK' OBVIOUS
    <2>6. QueuedOK' OBVIOUS
    <2>7. SomebodyLooks' OBVIOUS
    <2> QED BY <2>1, <2>2, <2>3, <2>4, <2>5, <2>6, <2>7 DEF Inv
  <1> QED BY <1>1, <1>2, <1>3, <1>4, <1>5, <1>6 DEF Loop

\* The probe.
LEMMA FollowInv == ASSUME Inv, Follow PROVE Inv'
  <1> USE DEF Inv, Flags, Places, Records, BellPlace, SocketOK, Connected, HealthOK, QueuedOK,
              SomebodyLooks, Waiting, Loss, Ring, Interval, service, wire, wake, following
  <1>1. CASE Probe
    <2> USE <1>1 DEF Probe
    <2>1. Flags' OBVIOUS
    <2>2. Places' OBVIOUS
    <2>3. Records' OBVIOUS
    <2>4. SocketOK' OBVIOUS
    <2>5. HealthOK' OBVIOUS
    <2>6. QueuedOK' OBVIOUS
    <2>7. SomebodyLooks' OBVIOUS
    <2> QED BY <2>1, <2>2, <2>3, <2>4, <2>5, <2>6, <2>7 DEF Inv
  <1>2. CASE Kicked
    <2> USE <1>2 DEF Kicked
    <2>1. Flags' OBVIOUS
    <2>2. Places' OBVIOUS
    <2>3. Records' OBVIOUS
    <2>4. SocketOK' OBVIOUS
    <2>5. HealthOK' OBVIOUS
    <2>6. QueuedOK' OBVIOUS
    <2>7. SomebodyLooks' OBVIOUS
    <2> QED BY <2>1, <2>2, <2>3, <2>4, <2>5, <2>6, <2>7 DEF Inv
  <1>3. CASE LookAgain
    <2> USE <1>3 DEF LookAgain
    <2>1. Flags' OBVIOUS
    <2>2. Places' OBVIOUS
    <2>3. Records' OBVIOUS
    <2>4. SocketOK' OBVIOUS
    <2>5. HealthOK' OBVIOUS
    <2>6. QueuedOK' OBVIOUS
    <2>7. SomebodyLooks' OBVIOUS
    <2> QED BY <2>1, <2>2, <2>3, <2>4, <2>5, <2>6, <2>7 DEF Inv
  <1> QED BY <1>1, <1>2, <1>3 DEF Follow

LEMMA NextInv == Inv /\ [Next]_vars => Inv'
  BY StutterInv, OutsideInv, BellInv, LoopInv, FollowInv DEF Next

LEMMA InvSuffices == Inv => TypeOK /\ NobodyWaitsSlowly /\ SomebodyLooks
  <1>1. Inv => TypeOK BY DEF Inv, Flags, Places, Records, TypeOK
  <1>2. Inv => NobodyWaitsSlowly BY DEF Inv, Flags, Places, Records, HealthOK, QueuedOK, NobodyWaitsSlowly
  <1> QED BY <1>1, <1>2 DEF Inv
-----------------------------------------------------------------------------
\* The bell, its socket, and what the loop was told of them never disagree in
\* a way nobody is about to mend (syncWake.setBell, Run of bell.go).
THEOREM BellInvariant == Spec => []Inv
  <1> QED BY InitInv, NextInv, PTL DEF Spec

\* Every variable keeps its type.
THEOREM TypeCorrect == Spec => []TypeOK
  <1> QED BY BellInvariant, InvSuffices, PTL

\* A command never waits for the slow poll alone (pace.next, syncLoop).
THEOREM NobodyIsForgotten == Spec => []NobodyWaitsSlowly
  <1> QED BY BellInvariant, InvSuffices, PTL

\* While a receipt waits for the daemon somebody looks (applyFollow).
THEOREM ReceiptsAreFollowed == Spec => []SomebodyLooks
  <1> QED BY BellInvariant, InvSuffices, PTL
=============================================================================
