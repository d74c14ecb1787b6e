------------------------------ MODULE CallPromise ------------------------------
(***************************************************************************)
(* What one inbound call promises the caller and the household, with no    *)
(* word on how: the caller's channel has one owner at a time, doorman may  *)
(* end the call only while doorman owns the channel, exactly one record is *)
(* posted, and the call is finished only when the caller is no longer held *)
(* in the Stasis application.  RingLadder is shown to implement it.        *)
(***************************************************************************)
EXTENDS Naturals

VARIABLES
    owner,      \* who owns the caller's channel: "doorman", "dialplan", or
                \* nobody, when the channel is "gone"
    endedBy,    \* who ended the channel: "nobody" so far, "far" end, "doorman"
    records,    \* call records posted
    finished    \* the session has left the registry

vars == <<owner, endedBy, records, finished>>

Init ==
    /\ owner = "doorman"
    /\ endedBy = "nobody"
    /\ records = 0
    /\ finished = FALSE

\* The caller hangs up, or whoever the caller was handed to does.
FarEndHangsUp ==
    /\ owner # "gone"
    /\ owner' = "gone"
    /\ endedBy' = "far"
    /\ UNCHANGED <<records, finished>>

\* A handset transfer, or the voicemail handoff: the dialplan owns it now.
Release ==
    /\ owner = "doorman"
    /\ ~finished
    /\ owner' = "dialplan"
    /\ UNCHANGED <<endedBy, records, finished>>

\* Only a channel doorman still owns may be hung up by doorman.
DoormanHangsUp ==
    /\ owner = "doorman"
    /\ ~finished
    /\ owner' = "gone"
    /\ endedBy' = "doorman"
    /\ UNCHANGED <<records, finished>>

Record ==
    /\ records = 0
    /\ ~finished
    /\ records' = 1
    /\ UNCHANGED <<owner, endedBy, finished>>

Finish ==
    /\ ~finished
    /\ records = 1
    /\ owner # "doorman"
    /\ finished' = TRUE
    /\ UNCHANGED <<owner, endedBy, records>>

Next == FarEndHangsUp \/ Release \/ DoormanHangsUp \/ Record \/ Finish

Spec == Init /\ [][Next]_vars
=============================================================================
