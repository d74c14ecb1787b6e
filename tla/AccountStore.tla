---------------------------- MODULE AccountStore ----------------------------
(***************************************************************************)
(* The box's credentials for the hosted account (internal/account:         *)
(* client.go, sync.go, bell.go, store.go).  A lock across processes spans  *)
(* the commands, which log in and rotate; a sync request and the bell's    *)
(* dial take it only to read the credential and to settle what they        *)
(* learned, so the store may have moved on while they were on the network. *)
(*                                                                         *)
(* A rotation gives a successor, stored beside the current token; the      *)
(* first use of the successor commits it on the service, after which the   *)
(* predecessor passes for a stolen one and revokes the box.                *)
(***************************************************************************)
EXTENDS Naturals, FiniteSets

CONSTANTS
    Callers,        \* {"sync", "bell"}: the two that do not hold the lock
    MaxBoxes,       \* bound: enrolments
    MaxTokens,      \* bound: tokens minted
    MaxLost         \* bound: replies lost and crashes

VARIABLES
    v,              \* tokens.bin: box, removed, needsLogin, tokens, device
    caller,         \* what each caller has on the network
    command,        \* the command that holds the lock, and its copy of v
    box,            \* external: the state of each enrolment
    current, successor, minted,
    ceremony,       \* external: the device code: none, open, approved, spent
    lost

server == <<box, current, successor, minted, ceremony>>
vars == <<v, caller, command, server, lost>>

Free == [at |-> "free"]
Idle == [at |-> "idle"]
NoToken == [current |-> 0, pending |-> 0]

Init ==
    /\ v = [box |-> 1, removed |-> FALSE, needsLogin |-> FALSE,
            token |-> [current |-> 1, pending |-> 0], device |-> FALSE]
    /\ caller = [c \in Callers |-> Idle]
    /\ command = Free
    /\ box = [b \in {1} |-> "live"] /\ current = 1 /\ successor = 0 /\ minted = 1
    /\ ceremony = "none" /\ lost = 0
-----------------------------------------------------------------------------
(* External: the account service.                                          *)

Enrolled == Cardinality(DOMAIN box)      \* the newest enrolment

\* What a token of enrolment b is answered, and what its use changes.
Reply(b, token) ==
    IF box[b] = "removed" THEN "removed"
    ELSE IF box[b] = "live" /\ b = Enrolled /\ token \in {current, successor} THEN "ok"
    ELSE "unauthorized"

Use(b, token) ==
    /\ IF b = Enrolled /\ box[b] = "live" /\ token = successor
       THEN current' = successor /\ successor' = 0
       ELSE UNCHANGED <<current, successor>>
    /\ box' = IF b = Enrolled /\ box[b] = "live" /\ token \notin {current, successor}
              THEN [box EXCEPT ![b] = "revoked"] ELSE box

OwnerRemoves ==
    /\ box[Enrolled] = "live"
    /\ box' = [box EXCEPT ![Enrolled] = "removed"]
    /\ UNCHANGED <<v, caller, command, current, successor, minted, ceremony, lost>>

OwnerApproves ==
    /\ ceremony = "open" /\ Enrolled < MaxBoxes
    /\ ceremony' = "approved"
    /\ UNCHANGED <<v, caller, command, box, current, successor, minted, lost>>
-----------------------------------------------------------------------------
(* Sync and the bell.                                                      *)

Locked == command.at # "free"
Chosen(t) == IF t.pending # 0 THEN t.pending ELSE t.current

\* The credential is read under the lock, and the lock released.
SyncCredential(c) ==
    /\ caller[c].at = "idle" /\ ~Locked
    /\ ~v.removed /\ ~v.needsLogin /\ v.token.current # 0
    /\ caller' = [caller EXCEPT ![c] = [at |-> "sent", box |-> v.box, used |-> v.token,
                                        token |-> Chosen(v.token), reply |-> "none"]]
    /\ UNCHANGED <<v, command, server, lost>>

Served(c) ==
    /\ caller[c].at = "sent"
    /\ caller' = [caller EXCEPT ![c].at = "replied", ![c].reply = Reply(caller[c].box, caller[c].token)]
    /\ Use(caller[c].box, caller[c].token)
    /\ UNCHANGED <<v, command, minted, ceremony, lost>>

Removed(w) == [w EXCEPT !.removed = TRUE, !.needsLogin = TRUE, !.token = NoToken]

\* The removal is recorded unless the store belongs to another enrolment.
SettleRemoved(c) == v' = IF v.box = caller[c].box /\ ~v.removed THEN Removed(v) ELSE v

\* Mutant of SettleSync: What was stored since is settled too.
SettleSyncAny(c) ==
    v' = IF caller[c].reply = "unauthorized" THEN [v EXCEPT !.needsLogin = TRUE]
         ELSE IF caller[c].used.pending # 0 THEN [v EXCEPT !.token = [NoToken EXCEPT !.current = caller[c].used.pending]]
         ELSE v

\* Promoted or refused, but only if the credential used is still the stored
\* one: whatever changed it happened after the request and wins.
SettleSync(c) ==
    v' = IF v.token # caller[c].used THEN v
         ELSE IF caller[c].reply = "unauthorized" THEN [v EXCEPT !.needsLogin = TRUE]
         ELSE IF caller[c].used.pending # 0 THEN [v EXCEPT !.token = [NoToken EXCEPT !.current = caller[c].used.pending]]
         ELSE v

\* A refused dial is not settled: only a removal is.
Settle(c) ==
    /\ caller[c].at = "replied" /\ ~Locked
    /\ CASE caller[c].reply = "removed" -> SettleRemoved(c)
         [] c = "sync" /\ caller[c].reply # "removed" -> SettleSync(c)
         [] OTHER -> UNCHANGED v
    /\ caller' = [caller EXCEPT ![c] = Idle]
    /\ UNCHANGED <<command, server, lost>>

\* The reply is lost, the process stops, or another command holds the store
\* for longer than a request waits.
GiveUp(c) ==
    /\ caller[c].at = "replied"
    /\ Locked \/ lost < MaxLost
    /\ lost' = IF Locked THEN lost ELSE lost + 1
    /\ caller' = [caller EXCEPT ![c] = Idle]
    /\ UNCHANGED <<v, command, server>>
-----------------------------------------------------------------------------
(* The commands, under the lock from beginning to end.                     *)

Save(w) == v' = w
Release == command' = Free

\* A ceremony is resumed, or begun with a fresh device code.
LoginBegin ==
    /\ ~Locked
    /\ v.needsLogin
    /\ Save([v EXCEPT !.device = TRUE])
    /\ ceremony' = IF v.device THEN ceremony ELSE "open"
    /\ command' = [at |-> "login", copy |-> [v EXCEPT !.device = TRUE]]
    /\ UNCHANGED <<caller, box, current, successor, minted, lost>>

\* Approved once: a box and its tokens, which end every earlier enrolment.
LoginPoll ==
    /\ command.at = "login" /\ minted < MaxTokens
    /\ IF ceremony = "approved"
       THEN /\ box' = [b \in DOMAIN box \cup {Enrolled + 1} |-> IF b > Enrolled THEN "live" ELSE box[b]]
            /\ minted' = minted + 1 /\ current' = minted + 1 /\ successor' = 0
            /\ ceremony' = "spent"
            /\ command' = [at |-> "save", copy |-> [box |-> Enrolled + 1, removed |-> FALSE, needsLogin |-> FALSE,
                                                    token |-> [current |-> minted + 1, pending |-> 0], device |-> FALSE]]
       ELSE /\ ceremony = "spent"
            /\ command' = [at |-> "save", copy |-> [command.copy EXCEPT !.device = FALSE]]
            /\ UNCHANGED server
    /\ UNCHANGED <<v, caller, lost>>

RotateBegin ==
    /\ ~Locked
    /\ ~v.removed /\ ~v.needsLogin /\ minted < MaxTokens
    /\ command' = [at |-> "rotate", copy |-> v]
    /\ UNCHANGED <<v, caller, server, lost>>

\* authenticatedVia and Rotate: removed, signed out, or the token that worked
\* becomes the current one and the new one its successor.
AfterUse(w, reply, next) ==
    CASE reply = "removed" -> Removed(w)
      [] reply = "unauthorized" -> [w EXCEPT !.needsLogin = TRUE]
      [] OTHER -> [w EXCEPT !.token = [current |-> Chosen(w.token), pending |-> next]]

RotateServed ==
    /\ command.at = "rotate"
    /\ LET w == command.copy
           reply == Reply(w.box, Chosen(w.token))
       IN  /\ command' = [at |-> "save", copy |-> AfterUse(w, reply, minted + 1)]
           /\ IF reply = "ok"
              THEN current' = Chosen(w.token) /\ successor' = minted + 1 /\ minted' = minted + 1 /\ UNCHANGED box
              ELSE Use(w.box, Chosen(w.token)) /\ UNCHANGED minted
    /\ UNCHANGED <<v, caller, ceremony, lost>>

CommandSaves ==
    /\ command.at = "save"
    /\ Save(command.copy) /\ Release
    /\ UNCHANGED <<caller, server, lost>>

\* Interrupted, crashed, or its reply lost: nothing it had not saved remains.
CommandStops ==
    /\ Locked
    /\ \/ command.at = "login" /\ UNCHANGED lost
       \/ lost < MaxLost /\ lost' = lost + 1
    /\ Release
    /\ UNCHANGED <<v, caller, server>>

Next ==
    \/ OwnerRemoves \/ OwnerApproves
    \/ \E c \in Callers : SyncCredential(c) \/ Served(c) \/ Settle(c) \/ GiveUp(c)
    \/ LoginBegin \/ LoginPoll \/ RotateBegin \/ RotateServed \/ CommandSaves \/ CommandStops

Spec == Init /\ [][Next]_vars
-----------------------------------------------------------------------------
(* Properties.                                                             *)

TypeOK ==
    /\ v.box \in DOMAIN box /\ (v.removed => v.needsLogin)
    /\ v.token.current <= minted /\ v.token.pending <= minted
    /\ minted <= MaxTokens /\ lost <= MaxLost

\* The box never signs itself out: while the service holds the stored
\* enrolment live, nothing that arrives late has marked it otherwise.
LiveStaysSignedIn ==
    (box[v.box] = "live" /\ v.box = Enrolled) => ~v.removed /\ ~v.needsLogin

\* While the service holds the stored enrolment live, the token the box would
\* use next is one the service takes, whatever reply or save was lost on the way.
NextTokenIsTaken ==
    (box[v.box] = "live" /\ v.box = Enrolled /\ ~v.needsLogin) =>
        Chosen(v.token) \in {current, successor}

\* An enrolment ends in one way its owner did not choose: sync or the bell read
\* its token before a rotation, and their request arrives after another used the
\* successor.  The token in the store, and the commands, never revoke it.
Overtaken(b) ==
    \E c \in Callers : caller[c].at = "sent" /\ caller[c].box = b /\ caller[c].token # Chosen(v.token)

OnlyTheOvertakenRevoke ==
    \A b \in DOMAIN box : box[b] = "live" /\ box'[b] = "revoked" => Overtaken(b)
=============================================================================
