------------------------------ MODULE RingLadder ------------------------------
(***************************************************************************)
(* One call on the ringer ladder: lobby.Session from runPlan to cleanup,   *)
(* the event router and its registry (cmd/doorman), and as much of         *)
(* Asterisk as the session can see through ARI.                            *)
(*                                                                         *)
(* Three parties run concurrently.  The SESSION goroutine makes one ARI    *)
(* call at a time and reads its event queue.  The ROUTER goroutine takes   *)
(* events off the one WebSocket (wire) and posts them to the session.      *)
(* ASTERISK and the people on its phones change channels at any time.      *)
(*                                                                         *)
(* An ARI call made under the session's context does nothing once the      *)
(* context is cancelled.  A call whose reply carries something the session *)
(* keeps (a bridge id, a leg id, whether the caller was released) is two   *)
(* steps, request and reply, because the caller can go between the two.    *)
(***************************************************************************)
EXTENDS Naturals, Sequences

CONSTANTS
    Handset,    \* the household's phones
    Ladder,     \* the ring plan: a sequence of sets of handsets, one per step
    Mailbox,    \* TRUE when the plan names a mailbox
    QueueCap,   \* capacity of the session's event queue (64 in the code)
    ReplyLoss,  \* TRUE when an ARI call may take effect and still report an error
    WireLoss,   \* TRUE when events may be lost (the WebSocket reconnects)
    NoLeg       \* what stands where no leg is meant

Stage == 1 .. Len(Ladder)

\* Each rung dials each of its handsets once, so a leg is named by the rung
\* and the handset it rings.
Leg == {l \in Stage \X Handset : l[2] \in Ladder[l[1]]}

ASSUME LadderAssumption ==
    /\ Ladder \in Seq(SUBSET Handset) /\ Ladder # <<>>
    /\ Mailbox \in BOOLEAN
    /\ QueueCap \in Nat \ {0}
    /\ ReplyLoss \in BOOLEAN
    /\ WireLoss \in BOOLEAN
    /\ NoLeg \notin Leg

Event == [kind : {"answered", "gone", "left", "destroyed"},
          leg : Leg \cup {NoLeg}]

Answered(l) == [kind |-> "answered", leg |-> l]
Gone(l) == [kind |-> "gone", leg |-> l]
Left == [kind |-> "left", leg |-> NoLeg]            \* StasisEnd on the caller
Destroyed == [kind |-> "destroyed", leg |-> NoLeg]  \* ChannelDestroyed on it

VARIABLES
    pc,         \* where the session goroutine is
    stage,      \* the rung being rung, 0 before the first
    todo,       \* handsets of this rung not dialled yet
    pending,    \* the leg whose Originate is waiting for its reply
    legs,       \* Session.legs
    dialled,    \* the rung's own map from leg id to endpoint (its domain)
    winner,     \* the leg bridged() was called with
    cancelled,  \* Session.ctx is cancelled
    release,    \* channelRelease: "owned", "pending" or "confirmed"
    queue,      \* Session.events
    bridgeID,   \* Session.bridgeID is not empty
    outcome,    \* Record.Outcome
    answeredBy, \* Record.AnsweredBy: a leg dialled, or NoLeg when empty
    posted,     \* records posted to the call log
    handedOff,  \* CallHandedOff was observed
    routes,     \* legs in registry.channels
    registered, \* the caller is in registry.callers
    router,     \* "idle", or "cancelling" between the two halves of CallerLeft
    orphans,    \* legs the router has started a hangup goroutine for
    wire,       \* events sent by Asterisk, not read by the router yet
    legState,   \* Asterisk: "none", "ringing", "stasis", "bridged", "gone"
    caller,     \* Asterisk: "stasis", "dialplan" or "gone"
    bridge,     \* Asterisk: "none", "up" or "gone"
    endedBy     \* who ended the caller's channel: "nobody", "far", "doorman"

recVars == <<outcome, answeredBy, posted, handedOff>>
rung == <<stage, todo, pending, dialled>>
ladderVars == <<rung, legs, winner>>
routerVars == <<routes, registered, router, orphans>>
callerVars == <<caller, endedBy>>
control == <<cancelled, release, queue, bridgeID>>
channels == <<legState, callerVars, bridge>>
asterisk == <<wire, channels>>
vars == <<pc, ladderVars, control, recVars, routerVars, asterisk>>

Init ==
    /\ pc = "plan" /\ stage = 0 /\ todo = {} /\ pending = NoLeg
    /\ legs = {} /\ dialled = {} /\ winner = NoLeg
    /\ cancelled = FALSE /\ release = "owned" /\ queue = <<>> /\ bridgeID = FALSE
    /\ outcome = "abandoned" /\ answeredBy = NoLeg /\ posted = 0 /\ handedOff = FALSE
    /\ routes = {} /\ registered = TRUE /\ router = "idle" /\ orphans = {}
    /\ wire = <<>> /\ legState = [l \in Leg |-> "none"]
    /\ caller = "stasis" /\ bridge = "none" /\ endedBy = "nobody"

-----------------------------------------------------------------------------
(* Asterisk and the people on the phones. *)

Live(l) == legState[l] \in {"ringing", "stasis", "bridged"}

\* A DELETE on a live leg ends it and its end is announced; on any other it is
\* a 404 the session ignores.
EndLeg(l) ==
    IF Live(l)
    THEN /\ legState' = [legState EXCEPT ![l] = "gone"]
         /\ wire' = Append(wire, Gone(l))
    ELSE UNCHANGED <<legState, wire>>

\* The same call under the session's context.
HangupLeg(l) == IF cancelled THEN UNCHANGED <<legState, wire>> ELSE EndLeg(l)

\* A channel that dies inside Stasis announces both ends, one in the dialplan
\* only the second.
EndCaller(who) ==
    /\ caller # "gone"
    /\ caller' = "gone"
    /\ endedBy' = who
    /\ wire' = IF caller = "stasis" THEN wire \o <<Left, Destroyed>>
                                    ELSE Append(wire, Destroyed)

\* Picking up is what makes an originated leg enter Stasis.
Answer(l) ==
    /\ legState[l] = "ringing"
    /\ legState' = [legState EXCEPT ![l] = "stasis"]
    /\ wire' = Append(wire, Answered(l))
    /\ UNCHANGED <<pc, ladderVars, control, recVars, routerVars, callerVars,
                   bridge>>

\* Busy, declined, unreachable, rung out, or hung up by whoever answered.
HandsetEnds(l) ==
    /\ Live(l)
    /\ EndLeg(l)
    /\ UNCHANGED <<pc, ladderVars, control, recVars, routerVars, callerVars,
                   bridge>>

FarEndHangsUp ==
    /\ EndCaller("far")
    /\ UNCHANGED <<pc, ladderVars, control, recVars, routerVars, legState,
                   bridge>>

\* The handset talking to the caller presses Transfer: the caller leaves the
\* application alive.
Transfer ==
    /\ caller = "stasis"
    /\ \E l \in Leg : legState[l] = "bridged"
    /\ caller' = "dialplan"
    /\ wire' = Append(wire, Left)
    /\ UNCHANGED <<pc, ladderVars, control, recVars, routerVars, legState,
                   bridge, endedBy>>

Asterisk ==
    \/ \E l \in Leg : Answer(l) \/ HandsetEnds(l)
    \/ FarEndHangsUp
    \/ Transfer

-----------------------------------------------------------------------------
(* The router: one event at a time, in the order they arrived. *)

Reads(events) ==
    /\ router = "idle"
    /\ wire # <<>> /\ Head(wire) \in events
    /\ wire' = Tail(wire)

\* post never blocks: an event that finds the queue full is dropped.
Post(ev) == queue' = IF Len(queue) < QueueCap THEN Append(queue, ev) ELSE queue

RouteLeg ==
    /\ Reads([kind : {"answered", "gone"}, leg : routes])
    /\ Post(Head(wire))
    /\ UNCHANGED <<pc, ladderVars, cancelled, release, bridgeID, recVars,
                   routerVars, channels>>

\* Mutant: an answer nobody owns is dropped, not hung up.
RouteOrphanDropped ==
    /\ Reads([kind : {"answered", "gone"}, leg : Leg \ routes])
    /\ UNCHANGED <<pc, ladderVars, control, recVars, routerVars, channels>>

\* A leg nobody owns: an answer is an orphan to hang up, an end is nothing.
RouteOrphan ==
    /\ Reads([kind : {"answered", "gone"}, leg : Leg \ routes])
    /\ orphans' = IF Head(wire).kind = "answered" THEN orphans \cup {Head(wire).leg}
                                                  ELSE orphans
    /\ UNCHANGED <<pc, ladderVars, control, recVars, routes, registered, router,
                   channels>>

\* Mutant: StasisEnd on the caller handled as ChannelDestroyed is.
RouteCallerLeftAsGone ==
    /\ Reads({Left})
    /\ cancelled' = (cancelled \/ registered)
    /\ UNCHANGED <<pc, ladderVars, release, queue, bridgeID, recVars, routerVars,
                   channels>>

\* CallerLeft, first half: the dialplan's ownership is confirmed...
RouteCallerLeft ==
    /\ Reads({Left})
    /\ IF registered
       THEN release' = "confirmed" /\ router' = "cancelling"
       ELSE UNCHANGED <<release, router>>
    /\ UNCHANGED <<pc, ladderVars, cancelled, queue, bridgeID, recVars, routes,
                   registered, orphans, channels>>

\* ...and only then is the session cancelled.
CallerLeftCancels ==
    /\ router = "cancelling"
    /\ router' = "idle"
    /\ cancelled' = TRUE
    /\ UNCHANGED <<pc, ladderVars, release, queue, bridgeID, recVars, routes,
                   registered, orphans, asterisk>>

RouteCallerGone ==
    /\ Reads({Destroyed})
    /\ cancelled' = (cancelled \/ registered)
    /\ UNCHANGED <<pc, ladderVars, release, queue, bridgeID, recVars, routerVars,
                   channels>>

\* The goroutine the router starts for an orphan, on a context of its own.
HangupOrphan(l) ==
    /\ l \in orphans
    /\ orphans' = orphans \ {l}
    /\ EndLeg(l)
    /\ UNCHANGED <<pc, ladderVars, control, recVars, routes, registered, router,
                   callerVars, bridge>>

LoseEvent ==
    /\ WireLoss /\ wire # <<>>
    /\ wire' = Tail(wire)
    /\ UNCHANGED <<pc, ladderVars, control, recVars, routerVars, channels>>

Route == RouteLeg \/ RouteOrphan \/ RouteCallerLeft \/ CallerLeftCancels \/ RouteCallerGone

-----------------------------------------------------------------------------
(* The session: runPlan. *)

Goto(from, to) == pc = from /\ pc' = to

\* A step that changes nothing but where the session is.
Move(from, to) ==
    /\ Goto(from, to)
    /\ UNCHANGED <<ladderVars, control, recVars, routerVars, asterisk>>

CreateBridge ==
    /\ ~cancelled
    /\ Goto("plan", "bridgeReply")
    /\ bridge' = "up"
    /\ UNCHANGED <<ladderVars, control, recVars, routerVars, wire, legState,
                   callerVars>>

\* Refused by Asterisk, or not sent at all under a cancelled context.
CreateBridgeFails == Move("plan", "cleanup")

\* A reply is lost to a fault, or to a cancellation that overtakes it.
ReplyFails == cancelled \/ ReplyLoss

BridgeReply ==
    /\ \/ Goto("bridgeReply", "join") /\ bridgeID' = TRUE
       \/ Goto("bridgeReply", "cleanup") /\ ReplyFails /\ UNCHANGED bridgeID
    /\ UNCHANGED <<ladderVars, cancelled, release, queue, recVars, routerVars,
                   asterisk>>

BeginStage(i) ==
    /\ stage' = i
    /\ todo' = Ladder[i]
    /\ dialled' = {}
    /\ UNCHANGED <<pending, legs, winner>>

JoinCaller ==
    /\ \/ /\ ~cancelled /\ caller = "stasis"
          /\ Goto("join", "dial")
          /\ BeginStage(1)
       \/ Goto("join", "cleanup") /\ UNCHANGED ladderVars
    /\ UNCHANGED <<control, recVars, routerVars, asterisk>>

\* Between two rungs the ladder asks whether there is still a caller.
NextStage ==
    /\ pc = "next"
    /\ IF cancelled THEN pc' = "cleanup" /\ UNCHANGED ladderVars
       ELSE IF stage < Len(Ladder) THEN pc' = "dial" /\ BeginStage(stage + 1)
       ELSE pc' = "fallback" /\ UNCHANGED ladderVars
    /\ UNCHANGED <<control, recVars, routerVars, asterisk>>

-----------------------------------------------------------------------------
(* The session: ringStep. *)

\* Asleep, do-not-disturb, or an Originate that failed: on to the next handset.
SkipHandset(h) ==
    /\ pc = "dial" /\ h \in todo
    /\ todo' = todo \ {h}
    /\ UNCHANGED <<pc, stage, pending, legs, dialled, winner, control, recVars,
                   routerVars, asterisk>>

Originate(h) ==
    /\ Goto("dial", "originateReply") /\ h \in todo /\ ~cancelled
    /\ todo' = todo \ {h}
    /\ pending' = <<stage, h>>
    /\ legState' = [legState EXCEPT ![<<stage, h>>] = "ringing"]
    /\ UNCHANGED <<stage, legs, dialled, winner, control, recVars, routerVars,
                   wire, callerVars, bridge>>

\* Only with the reply does the session, and through OnLegCreated the router,
\* know the leg.  Without it the leg rings on, unknown to both.
OriginateReply ==
    /\ Goto("originateReply", "dial")
    /\ pending' = NoLeg
    /\ \/ /\ legs' = legs \cup {pending}
          /\ dialled' = dialled \cup {pending}
          /\ routes' = routes \cup {pending}
       \/ ReplyFails /\ UNCHANGED <<legs, dialled, routes>>
    /\ UNCHANGED <<stage, todo, winner, control, recVars, registered, router,
                   orphans, asterisk>>

AllDialled ==
    /\ pc = "dial" /\ todo = {}
    /\ pc' = IF legs = {} THEN "next" ELSE "ring"
    /\ UNCHANGED <<ladderVars, control, recVars, routerVars, asterisk>>

\* The session, waiting at this point, reads an event of this kind.
Takes(at, kind) ==
    /\ pc = at
    /\ queue # <<>> /\ Head(queue).kind = kind
    /\ queue' = Tail(queue)

\* Whatever leg the event names wins; the record names the handset only if
\* this rung dialled it.
RingAnswered ==
    /\ Takes("ring", "answered") /\ pc' = "bridgeWinner"
    /\ winner' = Head(queue).leg
    /\ outcome' = "answered"
    /\ answeredBy' = IF Head(queue).leg \in dialled THEN Head(queue).leg ELSE NoLeg
    /\ UNCHANGED <<stage, todo, pending, legs, dialled, cancelled, release,
                   bridgeID, posted, handedOff, routerVars, asterisk>>

RingLegGone ==
    /\ Takes("ring", "gone")
    /\ legs' = legs \ {Head(queue).leg}
    /\ pc' = IF legs' = {} THEN "next" ELSE "ring"
    /\ UNCHANGED <<rung, winner, cancelled, release, bridgeID, recVars,
                   routerVars, asterisk>>

RingTimeout == Move("ring", "hangupStage")

RingAbandoned == Move("ring", "cleanup") /\ cancelled

\* hangupLegs, and the same loop in dismiss: the error is ignored and the leg
\* forgotten either way.
HangupLegs(l) ==
    /\ pc \in {"hangupStage", "voicemail", "dismissLegs"} /\ l \in legs
    /\ HangupLeg(l)
    /\ legs' = legs \ {l}
    /\ UNCHANGED <<pc, rung, winner, control, recVars, routerVars, callerVars,
                   bridge>>

StageHungUp == Move("hangupStage", "next") /\ legs = {}

-----------------------------------------------------------------------------
(* The session: fallback, sendToVoicemail, dismiss. *)

Fallback ==
    /\ pc = "fallback"
    /\ IF Mailbox
       THEN /\ outcome' = "voicemail"
            /\ pc' = IF cancelled THEN "cleanup" ELSE "voicemail"
       ELSE pc' = "dismiss" /\ UNCHANGED outcome
    /\ UNCHANGED <<ladderVars, control, answeredBy, posted, handedOff,
                   routerVars, asterisk>>

\* The bridge id is forgotten whether or not the bridge was destroyed.
VoicemailBridge ==
    /\ Goto("voicemail", "continue") /\ legs = {}
    /\ bridge' = IF bridgeID /\ ~cancelled THEN "gone" ELSE bridge
    /\ bridgeID' = FALSE
    /\ UNCHANGED <<ladderVars, cancelled, release, queue, recVars, routerVars,
                   wire, legState, callerVars>>

\* release.begin, and the ContinueToDialplan request that takes effect...
Continue ==
    /\ Goto("continue", "continueReply")
    /\ ~cancelled /\ caller = "stasis"
    /\ release' = IF release = "owned" THEN "pending" ELSE release
    /\ caller' = "dialplan"
    /\ wire' = Append(wire, Left)
    /\ UNCHANGED <<ladderVars, cancelled, queue, bridgeID, recVars, routerVars,
                   legState, bridge, endedBy>>

\* ...or not: a cancelled context, a caller no longer there, a refusal.
ContinueRefused ==
    /\ Goto("continue", "continueFailed")
    /\ release' = IF release = "owned" THEN "pending" ELSE release
    /\ UNCHANGED <<ladderVars, cancelled, queue, bridgeID, recVars, routerVars,
                   asterisk>>

ContinueReply ==
    /\ \/ Goto("continueReply", "cleanup")
       \/ Goto("continueReply", "continueFailed") /\ ReplyFails
    /\ UNCHANGED <<ladderVars, control, recVars, routerVars, asterisk>>

\* Mutant: the failed release is never rolled back.
ContinueFailedStaysPending == Move("continueFailed", "cleanup")

\* release.failed: only a release still pending is rolled back.
ContinueFailed ==
    /\ pc = "continueFailed"
    /\ IF release = "pending"
       THEN release' = "owned" /\ pc' = "dismiss"
       ELSE UNCHANGED release /\ pc' = "cleanup"
    /\ UNCHANGED <<ladderVars, cancelled, queue, bridgeID, recVars, routerVars,
                   asterisk>>

\* Mutant: the reason written where the outcome belongs.
DismissWritesReason ==
    /\ pc = "dismiss"
    /\ IF cancelled
       THEN pc' = "cleanup" /\ UNCHANGED outcome
       ELSE pc' = "dismissLegs" /\ outcome' = "no-answer"
    /\ UNCHANGED <<ladderVars, control, answeredBy, posted, handedOff,
                   routerVars, asterisk>>

Dismiss ==
    /\ pc = "dismiss"
    /\ IF cancelled
       THEN pc' = "cleanup" /\ UNCHANGED outcome
       ELSE pc' = "dismissLegs" /\ outcome' = "dismissed"
    /\ UNCHANGED <<ladderVars, control, answeredBy, posted, handedOff,
                   routerVars, asterisk>>

DismissLegsHungUp == Move("dismissLegs", "goodbye") /\ legs = {}

\* While the parting prompt plays, leg events are read and discarded.
GoodbyeDiscards ==
    /\ pc = "goodbye" /\ queue # <<>>
    /\ queue' = Tail(queue)
    /\ UNCHANGED <<pc, ladderVars, cancelled, release, bridgeID, recVars,
                   routerVars, asterisk>>

\* The prompt ended, could not be played, or the context was cancelled.
GoodbyeEnds == Move("goodbye", "dismissHangup")

DismissHangup ==
    /\ Goto("dismissHangup", "cleanup")
    /\ \/ ~cancelled /\ EndCaller("doorman")
       \/ (cancelled \/ caller = "gone") /\ UNCHANGED <<callerVars, wire>>
    /\ UNCHANGED <<ladderVars, control, recVars, routerVars, legState, bridge>>

-----------------------------------------------------------------------------
(* The session: bridged. *)

BridgeWinner ==
    /\ \/ /\ Goto("bridgeWinner", "siblings")
          /\ ~cancelled /\ legState[winner] = "stasis" /\ bridge = "up"
          /\ legState' = [legState EXCEPT ![winner] = "bridged"]
       \/ Goto("bridgeWinner", "cleanup") /\ UNCHANGED legState
    /\ UNCHANGED <<ladderVars, control, recVars, routerVars, wire, callerVars,
                   bridge>>

\* Mutant: siblings are forgotten and left ringing.
ForgetSibling(l) ==
    /\ pc = "siblings" /\ l \in legs \ {winner}
    /\ legs' = legs \ {l}
    /\ UNCHANGED <<pc, rung, winner, control, recVars, routerVars, asterisk>>

HangupSibling(l) ==
    /\ pc = "siblings" /\ l \in legs \ {winner}
    /\ HangupLeg(l)
    /\ legs' = legs \ {l}
    /\ UNCHANGED <<pc, rung, winner, control, recVars, routerVars, callerVars,
                   bridge>>

SiblingsHungUp == Move("siblings", "talk") /\ legs \subseteq {winner}

\* Mutant: a late answer is joined to the call.
TalkLateJoins ==
    /\ Takes("talk", "answered")
    /\ legState' = IF legState[Head(queue).leg] = "stasis"
                   THEN [legState EXCEPT ![Head(queue).leg] = "bridged"] ELSE legState
    /\ UNCHANGED <<pc, ladderVars, cancelled, release, bridgeID, recVars,
                   routerVars, wire, callerVars, bridge>>

\* Lost the race after a winner was picked.
TalkLateAnswer ==
    /\ Takes("talk", "answered")
    /\ HangupLeg(Head(queue).leg)
    /\ UNCHANGED <<pc, ladderVars, cancelled, release, bridgeID, recVars,
                   routerVars, callerVars, bridge>>

TalkLegGone ==
    /\ Takes("talk", "gone")
    /\ IF Head(queue).leg = winner
       THEN legs' = legs \ {winner} /\ pc' = "cleanup"
       ELSE UNCHANGED <<legs, pc>>
    /\ UNCHANGED <<rung, winner, cancelled, release, bridgeID, recVars,
                   routerVars, asterisk>>

\* Mutants: the talking caller's departure is not selected on, or is taken for
\* a rung nobody answered.
TalkNeverCancelled == FALSE
TalkCancelledFallsBack == Move("talk", "fallback") /\ cancelled

TalkCancelled == Move("talk", "cleanup") /\ cancelled

-----------------------------------------------------------------------------
(* The session: cleanup, on a context of its own. *)

CleanupBegins ==
    /\ Goto("cleanup", "cleanupLegs")
    /\ cancelled' = TRUE
    /\ UNCHANGED <<ladderVars, release, queue, bridgeID, recVars, routerVars,
                   asterisk>>

CleanupLeg(l) ==
    /\ pc = "cleanupLegs" /\ l \in legs
    /\ EndLeg(l)
    /\ legs' = legs \ {l}
    /\ UNCHANGED <<pc, rung, winner, control, recVars, routerVars, callerVars,
                   bridge>>

CleanupBridge ==
    /\ Goto("cleanupLegs", "cleanupCaller") /\ legs = {}
    /\ bridge' = IF bridgeID THEN "gone" ELSE bridge
    /\ UNCHANGED <<ladderVars, control, recVars, routerVars, wire, legState,
                   callerVars>>

CleanupCaller ==
    /\ Goto("cleanupCaller", "record")
    /\ \/ release = "owned" /\ EndCaller("doorman")
       \/ (release # "owned" \/ caller = "gone") /\ UNCHANGED <<callerVars, wire>>
    /\ UNCHANGED <<ladderVars, control, recVars, routerVars, legState, bridge>>

PostRecord ==
    /\ Goto("record", "finish")
    /\ posted' = posted + 1
    /\ handedOff' = (release # "owned")
    /\ UNCHANGED <<ladderVars, control, outcome, answeredBy, routerVars,
                   asterisk>>

\* OnFinished: the registry forgets the caller and every leg of the session.
Finish ==
    /\ Goto("finish", "done")
    /\ routes' = {} /\ registered' = FALSE
    /\ UNCHANGED <<ladderVars, control, recVars, router, orphans, asterisk>>

-----------------------------------------------------------------------------
RunPlan == CreateBridge \/ CreateBridgeFails \/ BridgeReply
           \/ JoinCaller \/ NextStage
RingStep ==
    \/ \E h \in Handset : SkipHandset(h) \/ Originate(h)
    \/ OriginateReply \/ AllDialled
    \/ RingAnswered \/ RingLegGone \/ RingTimeout \/ RingAbandoned
    \/ \E l \in Leg : HangupLegs(l)
    \/ StageHungUp
Ending ==
    \/ Fallback \/ VoicemailBridge \/ Continue \/ ContinueRefused
    \/ ContinueReply \/ ContinueFailed
    \/ Dismiss \/ DismissLegsHungUp \/ GoodbyeDiscards \/ GoodbyeEnds \/ DismissHangup
Bridged ==
    \/ BridgeWinner
    \/ \E l \in Leg : HangupSibling(l)
    \/ SiblingsHungUp \/ TalkLateAnswer \/ TalkLegGone \/ TalkCancelled
Cleanup ==
    \/ CleanupBegins
    \/ \E l \in Leg : CleanupLeg(l)
    \/ CleanupBridge \/ CleanupCaller \/ PostRecord \/ Finish

Session == RunPlan \/ RingStep \/ Ending \/ Bridged \/ Cleanup

\* The call is over; nothing is left but stuttering.
Over == pc = "done" /\ UNCHANGED vars

Next ==
    \/ Session
    \/ Route
    \/ \E l \in Leg : HangupOrphan(l)
    \/ LoseEvent
    \/ Asterisk
    \/ Over

Spec == Init /\ [][Next]_vars

\* A goroutine that can run is run: the session's (whose ring timer fires and
\* whose prompts end), the router's, and those that hang up orphans.  Nobody
\* has to pick up or hang up.
FairSpec ==
    /\ Spec
    /\ WF_vars(Session)
    /\ WF_vars(Route)
    /\ WF_vars(\E l \in Leg : HangupOrphan(l))

-----------------------------------------------------------------------------
(* Correctness. *)

CleaningUp == {"cleanup", "cleanupLegs", "cleanupCaller", "record", "finish", "done"}

TypeOK ==
    /\ pc \in {"plan", "bridgeReply", "join", "next", "dial", "originateReply", "ring",
               "hangupStage", "fallback", "voicemail", "continue", "continueReply",
               "continueFailed", "dismiss", "dismissLegs", "goodbye", "dismissHangup",
               "bridgeWinner", "siblings", "talk"} \cup CleaningUp
    /\ stage \in 0 .. Len(Ladder)
    /\ todo \subseteq Handset
    /\ pending \in Leg \cup {NoLeg}
    /\ legs \subseteq Leg /\ dialled \subseteq Leg
    /\ winner \in Leg \cup {NoLeg}
    /\ cancelled \in BOOLEAN
    /\ release \in {"owned", "pending", "confirmed"}
    /\ queue \in Seq([kind : {"answered", "gone"}, leg : Leg])
    /\ bridgeID \in BOOLEAN
    /\ outcome \in {"abandoned", "answered", "voicemail", "dismissed"}
    /\ answeredBy \in Leg \cup {NoLeg}
    /\ posted \in Nat /\ handedOff \in BOOLEAN
    /\ routes \subseteq Leg /\ registered \in BOOLEAN
    /\ router \in {"idle", "cancelling"}
    /\ orphans \subseteq Leg
    /\ wire \in Seq(Event)
    /\ legState \in [Leg -> {"none", "ringing", "stasis", "bridged", "gone"}]
    /\ caller \in {"stasis", "dialplan", "gone"}
    /\ bridge \in {"none", "up", "gone"}
    /\ endedBy \in {"nobody", "far", "doorman"}

\* Doorman never hangs up a caller the dialplan owns: not one a handset has
\* transferred, not one already talking to the mailbox (channelRelease, and
\* ContinueToDialplan's "nothing may hang the channel up after this call").
NeverKillsHandedOff ==
    [][caller = "dialplan" /\ caller' = "gone" => endedBy' = "far"]_vars

\* Unless the caller has gone, the session forgets a leg only when that leg is
\* no more: hangupLegs, the sibling loop and the evLegGone cases.
LegsAreHungUp == cancelled \/ \A l \in legs \ legs' : legState'[l] = "gone"
ForgottenLegsAreGone == [][LegsAreHungUp]_vars

\* A picked-up leg somebody will still act on: its answer is on its way, the
\* session holds it, or it is an orphan being hung up.
Attended(l) ==
    \/ l \in legs \cup orphans
    \/ \E i \in 1 .. Len(wire) : wire[i] = Answered(l)
    \/ \E i \in 1 .. Len(queue) : queue[i] = Answered(l)

\* When doorman itself ended the call, nobody who picked up is left holding a
\* handset doorman has forgotten, whatever rung it was on and whenever the
\* answer came.
NobodyLeftHolding ==
    (~cancelled \/ endedBy = "doorman") =>
        \A l \in Leg : legState[l] = "stasis" => Attended(l)

\* Two handsets are never both joined to the caller, and the one that is is the
\* session's winner.
OneHandset ==
    \A l \in Leg : legState[l] = "bridged" => l = winner

\* A call that ends as a voicemail or a dismissal was never put through.
UnansweredNeverBridged ==
    outcome \in {"voicemail", "dismissed"} => \A l \in Leg : legState[l] # "bridged"

\* Of all the handsets that race only the session's winner is ever put through,
\* and none on a call that ends unanswered.
OnlyTheWinnerTalks == OneHandset /\ UnansweredNeverBridged

\* The session keeps what CallPromise states.
Promise == INSTANCE CallPromise WITH
    owner <- CASE caller = "stasis" -> "doorman"
               [] caller = "dialplan" -> "dialplan"
               [] caller = "gone" -> "gone",
    records <- posted,
    finished <- pc = "done"
KeepsPromise == Promise!Spec

\* A caller who leaves, by hanging up or by transfer, ends the session:
\* whatever it waits for unwinds, and the registry slot is freed.
CallerLeavingEndsSession == caller # "stasis" ~> pc = "done"

\* A rung does not ring for ever, whether or not anybody answers.
RingingEnds == pc = "ring" ~> pc # "ring"

\* An answer that comes after its own rung was hung up does not take the call
\* (bridged: "a late answer that raced its own cancellation is hung up too").
LateAnswerNeverWins == pc = "bridgeWinner" => winner \in dialled

\* Once the call is over and every event has been handled, no handset is left
\* off the hook in the application ("every sibling is hung up").
EveryLegHungUp ==
    pc = "done" /\ wire = <<>> /\ orphans = {} =>
        \A l \in Leg : legState[l] # "stasis"
=============================================================================
