---------------------------- MODULE BackupUpload ----------------------------
(***************************************************************************)
(* One encrypted backup on its way to the account (internal/account:       *)
(* upload.go, and markRemoved of store.go).  The ciphertext and the        *)
(* reservation stay on disk until the service says it is complete; a later *)
(* run finishes the old one before it starts another.  The command holds   *)
(* the account's lock throughout, and may stop at any of its saves.        *)
(***************************************************************************)
EXTENDS Naturals, Sequences

CONSTANTS
    Backups,        \* the bundles the nightly job makes, in order 1..n
    MaxMishaps      \* bound: crashes, lost calls, places given up or not used in time, logins

VARIABLES
    v,              \* tokens.bin: RemovedAt and NeedsLogin as one word, the pending upload
    file,           \* upload.age: the ciphertext, 0 for none
    run,            \* the command
    made,           \* bundles made so far
    reserved,       \* external: reservation id -> what it holds and its state
    box,            \* external: "held", or the service has "revoked" or "removed" it
    reported,       \* the bundles Upload returned as done
    mishaps

vars == <<v, file, run, made, reserved, box, reported, mishaps>>

NoUpload == [bundle |-> 0, id |-> 0]
Idle == [at |-> "idle", want |-> 0, id |-> 0, again |-> FALSE]
Ids == DOMAIN reserved

Init ==
    /\ v = [login |-> "in", upload |-> NoUpload] /\ file = 0 /\ run = Idle
    /\ made = 0 /\ reserved = <<>> /\ box = "held"
    /\ reported = {} /\ mishaps = 0

Go(place) == run' = [run EXCEPT !.at = place]
Fail == run' = Idle
Mishap == mishaps < MaxMishaps /\ mishaps' = mishaps + 1
-----------------------------------------------------------------------------
(* Upload.                                                                 *)

\* A new bundle, or the last one again (bound: while it is not reported); what
\* is unfinished comes first.
Begin ==
    /\ run = Idle /\ v.login = "in"
    /\ \E n \in ({made, made + 1} \cap Backups) \ reported :
           /\ made' = n
           /\ run' = [at |-> IF v.upload # NoUpload THEN "finish" ELSE "cipher",
                      want |-> n, id |-> 0, again |-> FALSE]
    /\ UNCHANGED <<v, file, reserved, box, reported, mishaps>>

SaveCiphertext ==
    /\ run.at = "cipher"
    /\ file' = run.want /\ Go("declare")
    /\ UNCHANGED <<v, made, reserved, box, reported, mishaps>>

Declare ==
    /\ run.at = "declare"
    /\ v' = [v EXCEPT !.upload = [bundle |-> run.want, id |-> 0]] /\ Go("finish")
    /\ UNCHANGED <<file, made, reserved, box, reported, mishaps>>

\* finishUpload: the ciphertext is read back against the hash of the
\* reservation before anything is asked of the service.
Finish ==
    /\ run.at = "finish"
    /\ IF file # v.upload.bundle THEN Fail
       ELSE Go(IF v.upload.id = 0 THEN "reserve" ELSE "complete")
    /\ UNCHANGED <<v, file, made, reserved, box, reported, mishaps>>

\* The reservation is asked for, and kept before it is used.
Reserve ==
    /\ run.at = "reserve" /\ box = "held"
    /\ reserved' = [n \in 1..Len(reserved) + 1 |->
                        IF n <= Len(reserved) THEN reserved[n] ELSE [state |-> "open", holds |-> 0]]
    /\ run' = [run EXCEPT !.at = "keep", !.id = Len(reserved) + 1]
    /\ UNCHANGED <<v, file, made, box, reported, mishaps>>

Keep ==
    /\ run.at = "keep"
    /\ v' = [v EXCEPT !.upload.id = run.id] /\ Go("complete")
    /\ UNCHANGED <<file, made, reserved, box, reported, mishaps>>

\* Completion is asked for first: an earlier transfer may have succeeded.  Where
\* nothing was sent and the address no longer takes it, the command gives up: the
\* service must first give up the reservation.
Complete ==
    /\ run.at = "complete" /\ box = "held"
    /\ LET id == v.upload.id IN
       \/ /\ reserved[id].state \in {"sent", "done"}
          /\ reserved' = [reserved EXCEPT ![id].state = "done"]
          /\ Go("clear") /\ UNCHANGED v
       \/ /\ reserved[id].state = "open" /\ ~run.again
          /\ Go("put") /\ UNCHANGED <<v, reserved>>
       \/ /\ reserved[id].state = "late"
          /\ Fail /\ UNCHANGED <<v, reserved>>
       \/ /\ reserved[id].state = "gone"
          /\ v' = [v EXCEPT !.upload.id = 0]
          /\ Fail /\ UNCHANGED reserved
    /\ UNCHANGED <<file, made, box, reported, mishaps>>

\* If-None-Match: an object already there is left as it is.
Put ==
    /\ run.at = "put"
    /\ LET id == v.upload.id IN
       IF reserved[id].state \in {"late", "gone"} THEN Fail /\ UNCHANGED reserved
       ELSE /\ reserved' = [reserved EXCEPT ![id] = [state |-> "sent", holds |-> file]]
            /\ run' = [run EXCEPT !.at = "complete", !.again = TRUE]
    /\ UNCHANGED <<v, file, made, box, reported, mishaps>>

\* The reservation ends before its ciphertext does; then, if it was an older
\* bundle's, this run's own begins.
Clear ==
    /\ run.at = "clear"
    /\ v' = [v EXCEPT !.upload = NoUpload]
    /\ run' = [run EXCEPT !.at = "unlink", !.again = (v.upload.bundle # run.want)]
    /\ reported' = IF v.upload.bundle = run.want THEN reported \cup {run.want} ELSE reported
    /\ UNCHANGED <<file, made, reserved, box, mishaps>>

Unlink ==
    /\ run.at = "unlink"
    /\ file' = 0
    /\ run' = IF run.again THEN [run EXCEPT !.at = "cipher", !.again = FALSE] ELSE Idle
    /\ UNCHANGED <<v, made, reserved, box, reported, mishaps>>

\* Mutant of SeeRemoval: The ciphertext goes before the state that names it.
SeeRemovalFileFirst ==
    /\ box = "removed" /\ v.login = "in"
    /\ \/ run.at \in {"idle", "reserve", "complete"} /\ file' = 0 /\ Go("forget") /\ UNCHANGED v
       \/ run.at = "forget" /\ v' = [login |-> "removed", upload |-> NoUpload] /\ run' = Idle /\ UNCHANGED file
    /\ UNCHANGED <<made, reserved, box, reported, mishaps>>

\* The service's word for a removed box, met by this command or by a sync
\* request between two of them: saved first, the ciphertext after.
SeeRemoval ==
    /\ box = "removed" /\ v.login = "in"
    /\ run.at \in {"idle", "reserve", "complete"}
    /\ v' = [login |-> "removed", upload |-> NoUpload]
    /\ run' = [Idle EXCEPT !.at = "unlink"]
    /\ UNCHANGED <<file, made, reserved, box, reported, mishaps>>

\* Any other 401: the box asks for a login, and the upload stays pending.
SeeRevoked ==
    /\ box = "revoked" /\ v.login = "in"
    /\ run.at \in {"idle", "reserve", "complete"}
    /\ v' = [v EXCEPT !.login = "needed"] /\ Fail
    /\ UNCHANGED <<file, made, reserved, box, reported, mishaps>>

\* A fresh login: to the service a new box, with nothing pending.  What was
\* pending is dropped with the old one; its ciphertext lies until the next.
Login ==
    /\ v.login # "in" /\ run = Idle /\ Mishap
    /\ v' = [login |-> "in", upload |-> NoUpload] /\ box' = "held"
    /\ UNCHANGED <<file, run, made, reserved, reported>>
-----------------------------------------------------------------------------
(* External: the service, its owner, and what goes wrong.                  *)

\* The process dies, or a call fails before or after the service saw it; a
\* failed save of tokens.bin ends the command as a crash does.
Crash ==
    /\ run # Idle /\ Mishap
    /\ Fail
    /\ \/ UNCHANGED reserved
       \/ run.at = "put" /\ reserved[v.upload.id].state = "open"
          /\ reserved' = [reserved EXCEPT ![v.upload.id] = [state |-> "sent", holds |-> file]]
       \/ run.at = "complete" /\ reserved[v.upload.id].state = "sent"
          /\ reserved' = [reserved EXCEPT ![v.upload.id].state = "done"]
    /\ UNCHANGED <<v, file, made, box, reported>>

\* The signed address is not used in its quarter of an hour.
UrlExpires ==
    /\ Mishap
    /\ \E id \in Ids : reserved[id].state = "open"
                       /\ reserved' = [reserved EXCEPT ![id].state = "late"]
    /\ UNCHANGED <<v, file, run, made, box, reported>>

\* The service gives a reservation up, whatever was sent under it.
ReservationExpires ==
    /\ Mishap
    /\ \E id \in Ids : reserved[id].state \in {"open", "sent"}
                       /\ reserved' = [reserved EXCEPT ![id].state = "gone"]
    /\ UNCHANGED <<v, file, run, made, box, reported>>

\* One whose address is past is given up in the end: the command counts on it.
LateIsGivenUp ==
    /\ \E id \in Ids : reserved[id].state = "late"
                       /\ reserved' = [reserved EXCEPT ![id].state = "gone"]
    /\ UNCHANGED <<v, file, run, made, box, reported, mishaps>>

OwnerRemoves ==
    /\ box # "removed" /\ box' = "removed" /\ Mishap
    /\ UNCHANGED <<v, file, run, made, reserved, reported>>

\* The credential is refused, whatever the reason.
Revoked ==
    /\ box = "held" /\ box' = "revoked" /\ Mishap
    /\ UNCHANGED <<v, file, run, made, reserved, reported>>

Steps ==
    \/ Begin \/ SaveCiphertext \/ Declare \/ Finish \/ Reserve \/ Keep
    \/ Complete \/ Put \/ Clear \/ Unlink \/ SeeRemoval
    \/ SeeRevoked

Next ==
    \/ Steps \/ Login \/ Crash \/ UrlExpires \/ ReservationExpires \/ LateIsGivenUp
    \/ OwnerRemoves \/ Revoked

Spec == Init /\ [][Next]_vars /\ WF_vars(Steps) /\ WF_vars(LateIsGivenUp)
-----------------------------------------------------------------------------
(* Properties.                                                             *)

TypeOK ==
    /\ made \in Backups \cup {0} /\ file \in Backups \cup {0}
    /\ v.upload.bundle \in Backups \cup {0} /\ v.upload.id \in Ids \cup {0}
    /\ mishaps <= MaxMishaps

\* The state never names an upload whose ciphertext is not there: every later
\* attempt would stop at it and none reach the service again.
PendingIsReadable == v.upload # NoUpload => file = v.upload.bundle

\* A bundle reported as stored is stored: the reply was about these bytes, not
\* about an older reservation finished on the way.
ReportedIsStored ==
    \A n \in reported : \E id \in Ids : reserved[id] = [state |-> "done", holds |-> n]

\* Every bundle made is stored in the end, through addresses past their time and
\* reservations given up, unless a newer run took its place or the service no
\* longer takes the box: the login it then needs drops what is pending.
MadeIsStored ==
    \A n \in Backups :
        (run.at # "idle" /\ run.want = n) ~> (n \in reported \/ made > n \/ box # "held")
=============================================================================
