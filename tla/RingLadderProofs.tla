--------------------------- MODULE RingLadderProofs ---------------------------
(* Theorems about RingLadder, for every household, ladder and queue. *)
EXTENDS RingLadder, SequenceTheorems, TLAPS

(***************************************************************************)
(* The inductive invariant, in named parts.                                *)
(***************************************************************************)

\* While a rung is being dialled, what is left to dial belongs to it.
DiallingOK ==
    /\ pc \in {"plan", "bridgeReply", "join"} => stage = 0
    /\ pc \in {"dial", "originateReply"} =>
          stage \in Stage /\ todo \subseteq Ladder[stage]
    /\ pc = "originateReply" => pending \in Leg
    /\ pc = "bridgeWinner" => winner \in Leg /\ outcome = "answered"

\* Only a session that was answered, and has bridged its winner, has a leg
\* joined to the caller.
BridgedOK ==
    \A l \in Leg : legState[l] = "bridged" =>
        /\ l = winner
        /\ outcome = "answered"
        /\ pc \in {"siblings", "talk"} \cup CleaningUp

\* No leg is dialled twice: those not yet dialled have never existed.
FreshLegs ==
    \A l \in Leg : legState[l] # "none" =>
        l[1] <= stage /\ (l[1] = stage => l[2] \notin todo)

\* The elements of a sequence.
Elems(s) == {s[i] : i \in 1 .. Len(s)}

\* The end of a leg is announced only when it has ended.
GoneIsGone ==
    \A e \in Elems(wire) \cup Elems(queue) :
        e.kind = "gone" => e.leg \in Leg /\ legState[e.leg] = "gone"

\* The caller's departure is announced, recorded and acted on only after it.
DepartureOK ==
    /\ Left \in Elems(wire) => caller # "stasis"
    /\ Destroyed \in Elems(wire) => caller = "gone"
    /\ router = "cancelling" => release = "confirmed"
    /\ release = "confirmed" => caller # "stasis"
    /\ cancelled /\ pc \notin CleaningUp \ {"cleanup"} =>
          caller = "gone" \/ (caller = "dialplan" /\ release = "confirmed")
    /\ registered = (pc # "done")

\* The router will read the caller's StasisEnd before the winner's end.
Announced ==
    /\ \E i \in 1 .. Len(wire) :
          wire[i] = Left /\ \A j \in 1 .. i - 1 : wire[j] # Gone(winner)
    /\ Gone(winner) \notin Elems(queue)

\* A caller the dialplan owns is one doorman knows, or will know in time, to
\* have released.
HandoverOK ==
    caller = "dialplan" =>
        \/ pc \in {"siblings", "talk"} /\ (release = "confirmed" \/ Announced)
        \/ pc = "continueReply" /\ release # "owned"
        \/ pc = "continueFailed" /\ release = "confirmed"
        \/ pc \in CleaningUp /\ release # "owned"

\* A handset can transfer the caller only while the session is talking to it.
JoinedOK ==
    caller = "stasis" /\ (\E l \in Leg : legState[l] = "bridged") =>
        pc \in {"siblings", "talk"}

Safe == TypeOK /\ DiallingOK /\ BridgedOK

Inv == Safe /\ FreshLegs /\ GoneIsGone /\ DepartureOK /\ JoinedOK /\ HandoverOK

-----------------------------------------------------------------------------
(* What the proofs need to know about events and sequences of them. *)

LEMMA EventFacts ==
    /\ Left \in Event /\ Destroyed \in Event
    /\ \A l \in Leg : Answered(l) \in Event /\ Gone(l) \in Event
BY DEF Left, Destroyed, Answered, Gone, Event

LEMMA LadderFacts ==
    /\ Len(Ladder) \in Nat /\ 1 \in Stage
    /\ \A i \in Stage : Ladder[i] \subseteq Handset
BY LadderAssumption DEF Stage

\* What the head and the tail of a sequence are.
LEMMA TakeHead ==
    ASSUME NEW S, NEW s \in Seq(S), s # <<>>
    PROVE  /\ Head(s) \in S /\ Head(s) = s[1]
           /\ Tail(s) \in Seq(S) /\ Len(s) \in Nat \ {0}
           /\ Len(Tail(s)) = Len(s) - 1
           /\ \A i \in 1 .. Len(Tail(s)) : i + 1 \in 1 .. Len(s) /\ Tail(s)[i] = s[i + 1]
BY HeadTailProperties, EmptySeq, LenProperties

LEMMA ElemsAppend ==
    ASSUME NEW S, NEW s \in Seq(S), NEW e \in S
    PROVE  Elems(Append(s, e)) = Elems(s) \cup {e}
BY AppendProperties, LenProperties DEF Elems

LEMMA ElemsTail ==
    ASSUME NEW S, NEW s \in Seq(S), s # <<>>
    PROVE  Head(s) \in Elems(s) /\ Elems(Tail(s)) \subseteq Elems(s)
BY TakeHead DEF Elems

LEMMA ElemsConcat ==
    ASSUME NEW S, NEW s \in Seq(S), NEW t \in Seq(S)
    PROVE  Elems(s \o t) = Elems(s) \cup Elems(t)
<1>1. Len(s) \in Nat /\ Len(t) \in Nat /\ Len(s \o t) = Len(s) + Len(t)
  BY ConcatProperties, LenProperties
<1>2. \A i \in 1 .. Len(s) : i \in 1 .. Len(s \o t) /\ (s \o t)[i] = s[i]
  BY <1>1, ConcatProperties
<1>3. \A i \in 1 .. Len(t) : Len(s) + i \in 1 .. Len(s \o t) /\ (s \o t)[Len(s) + i] = t[i]
  BY <1>1, ConcatProperties
<1>4. \A i \in 1 .. Len(s \o t) : \/ i \in 1 .. Len(s)
                                  \/ i - Len(s) \in 1 .. Len(t) /\ (s \o t)[i] = t[i - Len(s)]
  BY <1>1, ConcatProperties
<1>5. ASSUME NEW e \in Elems(s \o t) PROVE e \in Elems(s) \cup Elems(t)
  <2>1. PICK i \in 1 .. Len(s \o t) : e = (s \o t)[i]
    BY DEF Elems
  <2>2. CASE i \in 1 .. Len(s)
    BY <1>2, <2>1, <2>2 DEF Elems
  <2>3. CASE i - Len(s) \in 1 .. Len(t) /\ (s \o t)[i] = t[i - Len(s)]
    BY <2>1, <2>3 DEF Elems
  <2> QED BY <1>4, <2>2, <2>3
<1>6. ASSUME NEW e \in Elems(s) PROVE e \in Elems(s \o t)
  <2>1. PICK i \in 1 .. Len(s) : e = s[i]
    BY <1>6 DEF Elems
  <2> QED BY <2>1, <1>2 DEF Elems
<1>7. ASSUME NEW e \in Elems(t) PROVE e \in Elems(s \o t)
  <2>1. PICK i \in 1 .. Len(t) : e = t[i]
    BY <1>7 DEF Elems
  <2> QED BY <2>1, <1>3 DEF Elems
<1> QED BY <1>5, <1>6, <1>7

LegEvent == [kind : {"answered", "gone"}, leg : Leg]

LEMMA HeadIsLegEvent ==
    Safe /\ queue # <<>> => Head(queue) \in LegEvent /\ Tail(queue) \in Seq(LegEvent)
BY TakeHead DEF Safe, TypeOK, LegEvent

LEMMA LegRung == \A l \in Leg : l[1] \in Nat /\ l[1] >= 1
BY LadderFacts DEF Leg, Stage

\* Asterisk ending the caller keeps the wire a sequence of events.
LEMMA EndCallerType ==
    ASSUME TypeOK, NEW who \in {"far", "doorman"}, EndCaller(who)
    PROVE  wire' \in Seq(Event) /\ caller' = "gone" /\ endedBy' = who
<1>1. <<Left, Destroyed>> \in Seq(Event)
  BY EventFacts
<1>2. wire \o <<Left, Destroyed>> \in Seq(Event)
  BY <1>1, ConcatProperties DEF TypeOK
<1>3. Append(wire, Destroyed) \in Seq(Event)
  BY EventFacts DEF TypeOK
<1> QED BY <1>2, <1>3 DEF EndCaller

LEMMA EndLegType ==
    ASSUME TypeOK, NEW l \in Leg, EndLeg(l)
    PROVE  /\ wire' \in Seq(Event)
           /\ legState' \in [Leg -> {"none", "ringing", "stasis", "bridged", "gone"}]
           /\ \A k \in Leg : legState'[k] = "bridged" => legState[k] = "bridged"
<1>1. Append(wire, Gone(l)) \in Seq(Event)
  BY EventFacts DEF TypeOK
<1> QED BY <1>1 DEF TypeOK, EndLeg, Live

-----------------------------------------------------------------------------
(* Types, and the one handset joined to the caller. *)

LEMMA SafeInit == Init => Safe
<1> SUFFICES ASSUME Init PROVE Safe
  OBVIOUS
<1>1. wire \in Seq(Event) /\ queue \in Seq([kind : {"answered", "gone"}, leg : Leg])
  BY DEF Init
<1>2. stage \in 0 .. Len(Ladder)
  BY LadderFacts DEF Init
<1>3. legState \in [Leg -> {"none", "ringing", "stasis", "bridged", "gone"}]
  BY DEF Init
<1> QED BY <1>1, <1>2, <1>3 DEF Init, Safe, TypeOK, DiallingOK, BridgedOK, CleaningUp

LEMMA SafeNext == Safe /\ [Next]_vars => Safe'
<1> SUFFICES ASSUME Safe, [Next]_vars PROVE Safe'
  OBVIOUS
<1> USE LadderFacts, EventFacts
    DEF Safe, TypeOK, DiallingOK, BridgedOK, CleaningUp, Move, Goto, ladderVars, rung,
        recVars, routerVars, callerVars, control, channels, asterisk
<1>w. wire # <<>> => Head(wire) \in Event /\ Tail(wire) \in Seq(Event)
  BY TakeHead
<1>q. queue # <<>> => Head(queue) \in LegEvent /\ Tail(queue) \in Seq(LegEvent)
  BY HeadIsLegEvent
<1>1. ASSUME NEW l \in Leg, Answer(l) PROVE Safe'
  BY <1>1, EndLegType DEF Answer, HangupLeg
<1>2. ASSUME NEW l \in Leg, HandsetEnds(l) PROVE Safe'
  BY <1>2, EndLegType DEF HandsetEnds, HangupLeg
<1>3. CASE FarEndHangsUp
  BY <1>3, EndCallerType DEF FarEndHangsUp
<1>4. CASE Transfer
  BY <1>4 DEF Transfer
<1>5. CASE RouteLeg
  <2>1. Head(wire) \in LegEvent
    BY <1>5 DEF RouteLeg, Reads, LegEvent
  <2>2. queue' \in Seq(LegEvent)
    BY <1>5, <2>1, AppendProperties DEF RouteLeg, Post, LegEvent
  <2> QED BY <1>5, <1>w, <2>2 DEF RouteLeg, Reads, LegEvent
<1>6. CASE RouteOrphan
  BY <1>6, <1>w DEF RouteOrphan, Reads
<1>7. CASE RouteCallerLeft
  BY <1>7, <1>w DEF RouteCallerLeft, Reads
<1>8. CASE CallerLeftCancels
  BY <1>8 DEF CallerLeftCancels
<1>9. CASE RouteCallerGone
  BY <1>9, <1>w DEF RouteCallerGone, Reads
<1>10. ASSUME NEW l \in Leg, HangupOrphan(l) PROVE Safe'
  BY <1>10, EndLegType DEF HangupOrphan, HangupLeg
<1>11. CASE LoseEvent
  BY <1>11, <1>w DEF LoseEvent
<1>12. CASE CreateBridge
  BY <1>12 DEF CreateBridge
<1>13. CASE CreateBridgeFails
  BY <1>13 DEF CreateBridgeFails
<1>14. CASE BridgeReply
  <2>1. bridgeID' \in BOOLEAN
    BY <1>14, Zenon DEF BridgeReply
  <2>2. pc' \in {"join", "cleanup"}
    BY <1>14 DEF BridgeReply
  <2> QED BY <1>14, <2>1, <2>2 DEF BridgeReply
<1>15. CASE JoinCaller
  <2>1. CASE BeginStage(1) /\ pc' = "dial"
    BY <1>15, <2>1 DEF JoinCaller, BeginStage, Stage
  <2>2. CASE pc' = "cleanup" /\ UNCHANGED ladderVars
    BY <1>15, <2>2 DEF JoinCaller
  <2> QED BY <1>15, <2>1, <2>2 DEF JoinCaller
<1>16. CASE NextStage
  BY <1>16 DEF NextStage, BeginStage, Stage
<1>17. ASSUME NEW h \in Handset, SkipHandset(h) PROVE Safe'
  BY <1>17 DEF SkipHandset, Leg
<1>18. ASSUME NEW h \in Handset, Originate(h) PROVE Safe'
  BY <1>18 DEF Originate, Leg
<1>19. CASE OriginateReply
  BY <1>19 DEF OriginateReply
<1>20. CASE AllDialled
  BY <1>20 DEF AllDialled
<1>21. CASE RingAnswered
  BY <1>21, <1>q DEF RingAnswered, Takes, LegEvent
<1>22. CASE RingLegGone
  BY <1>22, <1>q DEF RingLegGone, Takes, LegEvent
<1>23. CASE RingTimeout
  BY <1>23 DEF RingTimeout
<1>24. CASE RingAbandoned
  BY <1>24 DEF RingAbandoned
<1>25. ASSUME NEW l \in Leg, HangupLegs(l) PROVE Safe'
  BY <1>25, EndLegType DEF HangupLegs, HangupLeg
<1>26. CASE StageHungUp
  BY <1>26 DEF StageHungUp
<1>27. CASE Fallback
  BY <1>27 DEF Fallback
<1>28. CASE VoicemailBridge
  <2>1. bridge' \in {"none", "up", "gone"}
    BY <1>28 DEF VoicemailBridge
  <2>2. bridgeID' \in BOOLEAN
    BY <1>28 DEF VoicemailBridge
  <2> QED BY <1>28, <2>1, <2>2 DEF VoicemailBridge
<1>29. CASE Continue
  BY <1>29 DEF Continue
<1>30. CASE ContinueRefused
  BY <1>30 DEF ContinueRefused
<1>31. CASE ContinueReply
  BY <1>31 DEF ContinueReply
<1>32. CASE ContinueFailed
  BY <1>32 DEF ContinueFailed
<1>33. CASE Dismiss
  BY <1>33 DEF Dismiss
<1>34. CASE DismissLegsHungUp
  BY <1>34 DEF DismissLegsHungUp
<1>35. CASE GoodbyeDiscards
  BY <1>35, <1>q DEF GoodbyeDiscards, LegEvent
<1>36. CASE GoodbyeEnds
  BY <1>36 DEF GoodbyeEnds
<1>37. CASE DismissHangup
  BY <1>37, EndCallerType DEF DismissHangup
<1>38. CASE BridgeWinner
  <2>1. CASE pc' = "siblings" /\ legState' = [legState EXCEPT ![winner] = "bridged"]
    BY <1>38, <2>1 DEF BridgeWinner
  <2>2. CASE pc' = "cleanup" /\ UNCHANGED legState
    BY <1>38, <2>2 DEF BridgeWinner
  <2> QED BY <1>38, <2>1, <2>2 DEF BridgeWinner
<1>39. ASSUME NEW l \in Leg, HangupSibling(l) PROVE Safe'
  BY <1>39, EndLegType DEF HangupSibling, HangupLeg
<1>40. CASE SiblingsHungUp
  BY <1>40 DEF SiblingsHungUp
<1>41. CASE TalkLateAnswer
  BY <1>41, EndLegType, <1>q DEF TalkLateAnswer, Takes, LegEvent, HangupLeg
<1>42. CASE TalkLegGone
  BY <1>42, <1>q DEF TalkLegGone, Takes, LegEvent
<1>43. CASE TalkCancelled
  BY <1>43 DEF TalkCancelled
<1>44. CASE CleanupBegins
  BY <1>44 DEF CleanupBegins
<1>45. ASSUME NEW l \in Leg, CleanupLeg(l) PROVE Safe'
  BY <1>45, EndLegType DEF CleanupLeg, HangupLeg
<1>46. CASE CleanupBridge
  BY <1>46 DEF CleanupBridge
<1>47. CASE CleanupCaller
  BY <1>47, EndCallerType DEF CleanupCaller
<1>48. CASE PostRecord
  BY <1>48 DEF PostRecord
<1>49. CASE Finish
  <2>1. routes' \subseteq Leg /\ registered' \in BOOLEAN
    BY <1>49 DEF Finish
  <2> QED BY <1>49, <2>1 DEF Finish
<1>50. CASE Over
  BY <1>50 DEF Over, vars
<1>51. CASE UNCHANGED vars
  BY <1>51 DEF vars
<1> QED
  BY <1>1, <1>2, <1>3, <1>4, <1>5, <1>6, <1>7, <1>8, <1>9, <1>10, <1>11, <1>12, <1>13, <1>14,
     <1>15, <1>16, <1>17, <1>18, <1>19, <1>20, <1>21, <1>22, <1>23, <1>24, <1>25, <1>26, <1>27, <1>28,
     <1>29, <1>30, <1>31, <1>32, <1>33, <1>34, <1>35, <1>36, <1>37, <1>38, <1>39, <1>40, <1>41, <1>42,
     <1>43, <1>44, <1>45, <1>46, <1>47, <1>48, <1>49, <1>50, <1>51
     DEF Next, Session, Route, Asterisk, RunPlan, RingStep, Ending, Bridged, Cleanup

\* Types: every variable always holds a value of its type.
THEOREM TypeCorrect == Spec => []TypeOK
<1>1. Safe => TypeOK
  BY DEF Safe
<1> QED BY SafeInit, SafeNext, <1>1, PTL DEF Spec

\* However handsets race, only the session's winner is ever joined to the
\* caller (ringStep and bridged).
THEOREM OnlyTheWinnerIsJoined == Spec => []OneHandset
<1>1. Safe => OneHandset
  BY DEF Safe, BridgedOK, OneHandset
<1> QED BY SafeInit, SafeNext, <1>1, PTL DEF Spec

\* A call recorded as a voicemail or a dismissal was never put through.
THEOREM UnansweredIsNeverBridged == Spec => []UnansweredNeverBridged
<1>1. Safe => UnansweredNeverBridged
  BY DEF Safe, BridgedOK, UnansweredNeverBridged
<1> QED BY SafeInit, SafeNext, <1>1, PTL DEF Spec

\* Of all the handsets that race only the winner is ever put through, and none
\* on a call that ends unanswered: the two theorems above, together.
THEOREM TheWinnerTalksAlone == Spec => []OnlyTheWinnerTalks
<1>1. OneHandset /\ UnansweredNeverBridged => OnlyTheWinnerTalks
  BY DEF OnlyTheWinnerTalks
<1> QED BY OnlyTheWinnerIsJoined, UnansweredIsNeverBridged, <1>1, PTL

-----------------------------------------------------------------------------
(* Handing the caller over. *)

\* The steps that make a leg, or move on to the next rung, touch only legs that
\* have never existed.
LEMMA FreshNext == Safe /\ FreshLegs /\ [Next]_vars => FreshLegs'
<1> SUFFICES ASSUME Safe, FreshLegs, [Next]_vars PROVE FreshLegs'
  OBVIOUS
<1> USE DEF Move, Goto, ladderVars, rung, callerVars, channels, asterisk
<1> DEFINE Same == /\ UNCHANGED <<stage, todo>>
                  /\ \A l \in Leg : legState'[l] # "none" => legState[l] # "none"
<1>1. Same => FreshLegs'
  BY DEF FreshLegs
<1>2. ASSUME NEW l \in Leg, EndLeg(l), UNCHANGED <<stage, todo>> PROVE Same
  BY <1>2 DEF EndLeg, Live, Safe, TypeOK
<1>3. CASE Asterisk \/ Route \/ LoseEvent \/ \E l \in Leg : HangupOrphan(l)
  <2>1. ASSUME NEW l \in Leg, Answer(l) PROVE Same
    BY <2>1 DEF Answer, Safe, TypeOK
  <2>2. ASSUME NEW l \in Leg, HandsetEnds(l) \/ HangupOrphan(l) PROVE Same
    BY <2>2, <1>2 DEF HandsetEnds, HangupOrphan
  <2>3. CASE FarEndHangsUp \/ Transfer \/ Route \/ LoseEvent
    BY <1>1, <2>3 DEF FarEndHangsUp, Transfer, Route, RouteLeg, RouteOrphan, RouteCallerLeft,
                CallerLeftCancels, RouteCallerGone, LoseEvent
  <2> QED BY <1>1, <1>3, <2>1, <2>2, <2>3 DEF Asterisk
<1>4. CASE RunPlan
  <2>1. CASE CreateBridge \/ CreateBridgeFails \/ BridgeReply
    BY <1>1, <2>1 DEF CreateBridge, CreateBridgeFails, BridgeReply
  <2>2. CASE JoinCaller \/ NextStage
    <3>1. UNCHANGED legState
      BY <2>2 DEF JoinCaller, NextStage
    <3>2. CASE UNCHANGED ladderVars
      BY <1>1, <3>1, <3>2
    <3>3. CASE stage = 0 /\ BeginStage(1)
      BY <3>1, <3>3, LegRung DEF BeginStage, FreshLegs
    <3>4. CASE BeginStage(stage + 1)
      BY <3>1, <3>4, LegRung DEF BeginStage, FreshLegs, Safe, TypeOK
    <3> QED BY <2>2, <3>2, <3>3, <3>4 DEF JoinCaller, NextStage, Safe, DiallingOK
  <2> QED BY <1>4, <2>1, <2>2 DEF RunPlan
<1>5. CASE RingStep
  <2>1. ASSUME NEW h \in Handset, SkipHandset(h) PROVE FreshLegs'
    BY <2>1 DEF SkipHandset, FreshLegs
  <2>2. ASSUME NEW h \in Handset, Originate(h) PROVE FreshLegs'
    BY <2>2 DEF Originate, FreshLegs, Safe, TypeOK, DiallingOK, Leg, Stage
  <2>3. ASSUME NEW l \in Leg, HangupLegs(l) PROVE Same
    BY <2>3, <1>2 DEF HangupLegs, HangupLeg
  <2>4. CASE \/ OriginateReply \/ AllDialled \/ RingAnswered \/ RingLegGone
             \/ RingTimeout \/ RingAbandoned \/ StageHungUp
    BY <1>1, <2>4 DEF OriginateReply, AllDialled, RingAnswered, RingLegGone, RingTimeout,
                RingAbandoned, StageHungUp
  <2> QED BY <1>1, <1>5, <2>1, <2>2, <2>3, <2>4 DEF RingStep
<1>6. CASE Ending
  BY <1>1, <1>6 DEF Ending, Fallback, VoicemailBridge, Continue, ContinueRefused,
     ContinueReply, ContinueFailed, Dismiss, DismissLegsHungUp, GoodbyeDiscards,
     GoodbyeEnds, DismissHangup
<1>7. CASE Bridged
  <2>1. CASE BridgeWinner
    BY <1>1, <2>1 DEF BridgeWinner, Safe, TypeOK, DiallingOK
  <2>2. ASSUME NEW l \in Leg, HangupSibling(l) PROVE Same
    BY <2>2, <1>2 DEF HangupSibling, HangupLeg
  <2>3. CASE TalkLateAnswer
    <3>1. Head(queue).leg \in Leg
      BY <2>3, HeadIsLegEvent DEF TalkLateAnswer, Takes, LegEvent
    <3> QED BY <1>1, <1>2, <2>3, <3>1 DEF TalkLateAnswer, HangupLeg
  <2>4. CASE SiblingsHungUp \/ TalkLegGone \/ TalkCancelled
    BY <1>1, <2>4 DEF SiblingsHungUp, TalkLegGone, TalkCancelled
  <2> QED BY <1>1, <1>7, <2>1, <2>2, <2>3, <2>4 DEF Bridged
<1>8. CASE Cleanup
  <2>1. ASSUME NEW l \in Leg, CleanupLeg(l) PROVE Same
    BY <2>1, <1>2 DEF CleanupLeg
  <2>2. CASE CleanupBegins \/ CleanupBridge \/ CleanupCaller \/ PostRecord \/ Finish
    BY <1>1, <2>2 DEF CleanupBegins, CleanupBridge, CleanupCaller, PostRecord, Finish
  <2> QED BY <1>1, <1>8, <2>1, <2>2 DEF Cleanup
<1>9. CASE Over \/ UNCHANGED vars
  BY <1>1, <1>9 DEF Over, vars
<1> QED BY <1>3, <1>4, <1>5, <1>6, <1>7, <1>8, <1>9 DEF Next, Session

\* What a step of Asterisk's ending a channel puts on the wire.
LEMMA EndLegWire ==
    ASSUME Safe, NEW l \in Leg, EndLeg(l)
    PROVE  /\ Elems(wire') \subseteq Elems(wire) \cup {Gone(l)}
           /\ wire' = wire \/ wire' = Append(wire, Gone(l))
           /\ Gone(l) \in Elems(wire') => Gone(l) \in Elems(wire) \/ legState'[l] = "gone"
           /\ \A k \in Leg : legState[k] = "gone" => legState'[k] = "gone"
<1>1. CASE Live(l)
  <2>1. Elems(Append(wire, Gone(l))) = Elems(wire) \cup {Gone(l)}
    BY ElemsAppend, EventFacts DEF Safe, TypeOK
  <2> QED BY <1>1, <2>1 DEF EndLeg, Live, Safe, TypeOK
<1>2. CASE ~Live(l)
  BY <1>2 DEF EndLeg
<1> QED BY <1>1, <1>2

LEMMA EndCallerWire ==
    ASSUME Safe, NEW who \in {"far", "doorman"}, EndCaller(who)
    PROVE  Elems(wire') \subseteq Elems(wire) \cup {Left, Destroyed}
<1> DEFINE both == <<Left, Destroyed>>
<1>1. both \in Seq(Event) /\ Elems(both) = {Left, Destroyed}
  BY EventFacts DEF Elems
<1>2. wire \in Seq(Event)
  BY DEF Safe, TypeOK
<1> HIDE DEF both
<1>4. Elems(wire \o both) = Elems(wire) \cup {Left, Destroyed}
  BY <1>1, <1>2, ElemsConcat
<1>3. Elems(Append(wire, Destroyed)) = Elems(wire) \cup {Destroyed}
  BY ElemsAppend, EventFacts DEF Safe, TypeOK
<1> QED BY <1>3, <1>4 DEF EndCaller, both

\* Reading the wire and the queue takes from them; posting moves one event.
LEMMA ReadsWire ==
    ASSUME Safe, NEW E, Reads(E)
    PROVE  /\ Head(wire) \in E /\ Head(wire) \in Elems(wire) /\ Head(wire) \in Event
           /\ Elems(wire') \subseteq Elems(wire) /\ router = "idle"
BY ElemsTail, TakeHead DEF Reads, Safe, TypeOK

LEMMA TailQueue ==
    ASSUME Safe, queue # <<>>, queue' = Tail(queue)
    PROVE  Head(queue) \in Elems(queue) /\ Elems(queue') \subseteq Elems(queue)
BY ElemsTail DEF Safe, TypeOK

LEMMA PostQueue ==
    ASSUME Safe, NEW e \in LegEvent, Post(e)
    PROVE  Elems(queue') \subseteq Elems(queue) \cup {e}
<1>1. Elems(Append(queue, e)) = Elems(queue) \cup {e}
  <2>1. queue \in Seq(LegEvent)
    BY DEF Safe, TypeOK, LegEvent
  <2> QED BY <2>1, ElemsAppend
<1> QED BY <1>1 DEF Post

LEMMA GoneNext == Safe /\ FreshLegs /\ GoneIsGone /\ [Next]_vars => GoneIsGone'
<1> SUFFICES ASSUME Safe, FreshLegs, GoneIsGone, [Next]_vars PROVE GoneIsGone'
  OBVIOUS
<1> USE DEF Move, Goto, ladderVars, rung, callerVars, channels, asterisk, control
<1> DEFINE NoNews == Elems(wire') \cup Elems(queue') \subseteq
                        Elems(wire) \cup Elems(queue) \cup {e \in Event : e.kind # "gone"}
           StillGone == \A l \in Leg : legState[l] = "gone" => legState'[l] = "gone"
<1>1. NoNews /\ StillGone => GoneIsGone'
  BY DEF GoneIsGone
<1>2. ASSUME NEW l \in Leg, EndLeg(l), Elems(queue') \subseteq Elems(queue) PROVE GoneIsGone'
  <2>1. ASSUME NEW e \in Elems(wire') \cup Elems(queue'), e.kind = "gone"
        PROVE  e.leg \in Leg /\ legState'[e.leg] = "gone"
    <3>1. CASE e \in Elems(wire) \cup Elems(queue)
      BY <1>2, <2>1, <3>1, EndLegWire DEF GoneIsGone
    <3>2. CASE e = Gone(l) /\ e \notin Elems(wire) /\ e \in Elems(wire')
      BY <1>2, <3>2, EndLegWire DEF Gone
    <3> QED BY <1>2, <2>1, <3>1, <3>2, EndLegWire
  <2> QED BY <2>1 DEF GoneIsGone
<1>3. ASSUME NEW who \in {"far", "doorman"}, EndCaller(who), UNCHANGED <<queue, legState>>
      PROVE  GoneIsGone'
  BY <1>1, <1>3, EndCallerWire, EventFacts DEF Left, Destroyed
<1>4. CASE Asterisk \/ LoseEvent \/ \E l \in Leg : HangupOrphan(l)
  <2>1. ASSUME NEW l \in Leg, Answer(l) PROVE GoneIsGone'
    <3>1. Elems(wire') = Elems(wire) \cup {Answered(l)}
      BY <2>1, ElemsAppend, EventFacts DEF Answer, Safe, TypeOK
    <3> QED BY <1>1, <2>1, <3>1, EventFacts DEF Answer, Answered, Safe, TypeOK
  <2>2. ASSUME NEW l \in Leg, HandsetEnds(l) \/ HangupOrphan(l) PROVE GoneIsGone'
    BY <2>2, <1>2 DEF HandsetEnds, HangupOrphan
  <2>3. CASE FarEndHangsUp
    BY <1>3, <2>3 DEF FarEndHangsUp
  <2>4. CASE Transfer
    <3>1. Elems(wire') = Elems(wire) \cup {Left}
      BY <2>4, ElemsAppend, EventFacts DEF Transfer, Safe, TypeOK
    <3> QED BY <1>1, <2>4, <3>1, EventFacts DEF Transfer, Left
  <2>5. CASE LoseEvent
    BY <1>1, <2>5, ElemsTail DEF LoseEvent, Safe, TypeOK
  <2> QED BY <1>4, <2>1, <2>2, <2>3, <2>4, <2>5 DEF Asterisk
<1>5. CASE Route
  <2>1. CASE RouteLeg
    <3>1. Head(wire) \in LegEvent
      BY <2>1, ReadsWire DEF RouteLeg, LegEvent, Safe, TypeOK
    <3> QED BY <1>1, <2>1, <3>1, ReadsWire, PostQueue DEF RouteLeg
  <2>2. CASE RouteOrphan \/ RouteCallerLeft \/ RouteCallerGone
    BY <1>1, <2>2, ReadsWire DEF RouteOrphan, RouteCallerLeft, RouteCallerGone
  <2>3. CASE CallerLeftCancels
    BY <1>1, <2>3 DEF CallerLeftCancels
  <2> QED BY <1>5, <2>1, <2>2, <2>3 DEF Route
<1>6. CASE RunPlan
  BY <1>1, <1>6 DEF RunPlan, CreateBridge, CreateBridgeFails, BridgeReply, JoinCaller, NextStage
<1>7. CASE RingStep
  <2>1. ASSUME NEW h \in Handset, SkipHandset(h) PROVE GoneIsGone'
    BY <1>1, <2>1 DEF SkipHandset
  <2>2. ASSUME NEW h \in Handset, Originate(h) PROVE GoneIsGone'
    <3>1. \A l \in Leg : legState[l] = "gone" => l # <<stage, h>>
      BY <2>2 DEF Originate, FreshLegs
    <3> QED BY <1>1, <2>2, <3>1 DEF Originate, Safe, TypeOK
  <2>3. ASSUME NEW l \in Leg, HangupLegs(l) PROVE GoneIsGone'
    BY <1>1, <1>2, <2>3 DEF HangupLegs, HangupLeg
  <2>4. CASE RingAnswered \/ RingLegGone
    BY <1>1, <2>4, TailQueue DEF RingAnswered, RingLegGone, Takes
  <2>5. CASE OriginateReply \/ AllDialled \/ RingTimeout \/ RingAbandoned \/ StageHungUp
    BY <1>1, <2>5 DEF OriginateReply, AllDialled, RingTimeout, RingAbandoned, StageHungUp
  <2> QED BY <1>7, <2>1, <2>2, <2>3, <2>4, <2>5 DEF RingStep
<1>8. CASE Ending
  <2>1. CASE DismissHangup
    BY <1>1, <1>3, <2>1 DEF DismissHangup
  <2>2. CASE Continue
    <3>1. Elems(wire') = Elems(wire) \cup {Left}
      BY <2>2, ElemsAppend, EventFacts DEF Continue, Safe, TypeOK
    <3> QED BY <1>1, <2>2, <3>1, EventFacts DEF Continue, Left
  <2>3. CASE GoodbyeDiscards
    BY <1>1, <2>3, TailQueue DEF GoodbyeDiscards
  <2>4. CASE \/ Fallback \/ VoicemailBridge \/ ContinueRefused \/ ContinueReply
             \/ ContinueFailed \/ Dismiss \/ DismissLegsHungUp \/ GoodbyeEnds
    BY <1>1, <2>4 DEF Fallback, VoicemailBridge, ContinueRefused, ContinueReply,
                      ContinueFailed, Dismiss, DismissLegsHungUp, GoodbyeEnds
  <2> QED BY <1>8, <2>1, <2>2, <2>3, <2>4 DEF Ending
<1>9. CASE Bridged
  <2>1. CASE BridgeWinner
    BY <1>1, <2>1 DEF BridgeWinner, Safe, TypeOK, DiallingOK
  <2>2. ASSUME NEW l \in Leg, HangupSibling(l) PROVE GoneIsGone'
    BY <1>1, <1>2, <2>2 DEF HangupSibling, HangupLeg
  <2>3. CASE TalkLateAnswer
    <3>1. Head(queue).leg \in Leg /\ Elems(queue') \subseteq Elems(queue)
      BY <2>3, HeadIsLegEvent, TailQueue DEF TalkLateAnswer, Takes, LegEvent
    <3> QED BY <1>1, <1>2, <2>3, <3>1 DEF TalkLateAnswer, HangupLeg
  <2>4. CASE TalkLegGone
    BY <1>1, <2>4, TailQueue DEF TalkLegGone, Takes
  <2>5. CASE SiblingsHungUp \/ TalkCancelled
    BY <1>1, <2>5 DEF SiblingsHungUp, TalkCancelled
  <2> QED BY <1>9, <2>1, <2>2, <2>3, <2>4, <2>5 DEF Bridged
<1>10. CASE Cleanup
  <2>1. ASSUME NEW l \in Leg, CleanupLeg(l) PROVE GoneIsGone'
    BY <1>2, <2>1 DEF CleanupLeg
  <2>2. CASE CleanupCaller
    BY <1>1, <1>3, <2>2 DEF CleanupCaller
  <2>3. CASE CleanupBegins \/ CleanupBridge \/ PostRecord \/ Finish
    BY <1>1, <2>3 DEF CleanupBegins, CleanupBridge, PostRecord, Finish
  <2> QED BY <1>10, <2>1, <2>2, <2>3 DEF Cleanup
<1>11. CASE Over \/ UNCHANGED vars
  BY <1>1, <1>11 DEF Over, vars
<1> QED BY <1>4, <1>5, <1>6, <1>7, <1>8, <1>9, <1>10, <1>11 DEF Next, Session

LEMMA DepartureNext == Safe /\ DepartureOK /\ [Next]_vars => DepartureOK'
<1> SUFFICES ASSUME Safe, DepartureOK, [Next]_vars PROVE DepartureOK'
  OBVIOUS
<1> USE DEF Move, Goto, callerVars, channels, asterisk, control, routerVars, CleaningUp
<1> DEFINE Frame == UNCHANGED <<caller, router, registered>>
           Quiet == Elems(wire') \cap {Left, Destroyed} \subseteq Elems(wire)
           Onward == /\ (pc' = "done") = (pc = "done")
                     /\ pc' \notin CleaningUp \ {"cleanup"} =>
                           pc \notin CleaningUp \ {"cleanup"} /\ cancelled' = cancelled
<1>1. Frame /\ Quiet /\ Onward /\ UNCHANGED release => DepartureOK'
  BY DEF DepartureOK
<1>2. ASSUME NEW l \in Leg, EndLeg(l) PROVE Quiet
  <2>1. Gone(l).kind = "gone" /\ Left.kind = "left" /\ Destroyed.kind = "destroyed"
    BY DEF Gone, Left, Destroyed
  <2>2. Gone(l) \notin {Left, Destroyed}
    BY <2>1
  <2>3. Elems(wire') \subseteq Elems(wire) \cup {Gone(l)}
    BY <1>2, EndLegWire
  <2> QED BY <2>2, <2>3
<1>3. ASSUME NEW who \in {"far", "doorman"}, EndCaller(who), UNCHANGED <<router, registered, release>>, Onward
      PROVE  DepartureOK'
  BY <1>3, EndCallerType DEF DepartureOK, Safe
<1>4. CASE Asterisk \/ LoseEvent \/ \E l \in Leg : HangupOrphan(l)
  <2>1. ASSUME NEW l \in Leg, Answer(l) PROVE DepartureOK'
    <3>1. Elems(wire') = Elems(wire) \cup {Answered(l)}
      BY <2>1, ElemsAppend, EventFacts DEF Answer, Safe, TypeOK
    <3> QED BY <1>1, <2>1, <3>1 DEF Answer, Answered, Left, Destroyed
  <2>2. ASSUME NEW l \in Leg, HandsetEnds(l) \/ HangupOrphan(l) PROVE DepartureOK'
    BY <1>1, <1>2, <2>2 DEF HandsetEnds, HangupOrphan
  <2>3. CASE FarEndHangsUp
    BY <1>3, <2>3 DEF FarEndHangsUp
  <2>4. CASE Transfer
    <3>1. Elems(wire') = Elems(wire) \cup {Left}
      BY <2>4, ElemsAppend, EventFacts DEF Transfer, Safe, TypeOK
    <3> QED BY <2>4, <3>1 DEF Transfer, Left, Destroyed, DepartureOK
  <2>5. CASE LoseEvent
    BY <1>1, <2>5, ElemsTail DEF LoseEvent, Safe, TypeOK
  <2> QED BY <1>4, <2>1, <2>2, <2>3, <2>4, <2>5 DEF Asterisk
<1>5. CASE Route
  <2>1. CASE RouteLeg \/ RouteOrphan
    BY <1>1, <2>1, ReadsWire DEF RouteLeg, RouteOrphan
  <2>2. CASE RouteCallerLeft
    BY <2>2, ReadsWire DEF RouteCallerLeft, DepartureOK
  <2>3. CASE CallerLeftCancels
    BY <2>3 DEF CallerLeftCancels, DepartureOK, Safe, TypeOK
  <2>4. CASE RouteCallerGone
    BY <2>4, ReadsWire DEF RouteCallerGone, DepartureOK
  <2> QED BY <1>5, <2>1, <2>2, <2>3, <2>4 DEF Route
<1>6. CASE RunPlan
  BY <1>1, <1>6 DEF RunPlan, CreateBridge, CreateBridgeFails, BridgeReply, JoinCaller, NextStage
<1>7. CASE RingStep
  <2>1. ASSUME NEW h \in Handset, SkipHandset(h) \/ Originate(h) PROVE DepartureOK'
    BY <1>1, <2>1 DEF SkipHandset, Originate
  <2>2. ASSUME NEW l \in Leg, HangupLegs(l) PROVE DepartureOK'
    BY <1>1, <1>2, <2>2 DEF HangupLegs, HangupLeg
  <2>3. CASE \/ OriginateReply \/ AllDialled \/ RingAnswered \/ RingLegGone
             \/ RingTimeout \/ RingAbandoned \/ StageHungUp
    BY <1>1, <2>3 DEF OriginateReply, AllDialled, RingAnswered, RingLegGone, Takes,
                      RingTimeout, RingAbandoned, StageHungUp
  <2> QED BY <1>7, <2>1, <2>2, <2>3 DEF RingStep
<1>8. CASE Ending
  <2>1. CASE DismissHangup
    BY <1>1, <1>3, <2>1 DEF DismissHangup
  <2>2. CASE Continue
    <3>1. Elems(wire') = Elems(wire) \cup {Left}
      BY <2>2, ElemsAppend, EventFacts DEF Continue, Safe, TypeOK
    <3> QED BY <2>2, <3>1 DEF Continue, Left, Destroyed, DepartureOK
  <2>3. CASE ContinueRefused \/ ContinueFailed
    BY <2>3 DEF ContinueRefused, ContinueFailed, DepartureOK
  <2>4. CASE \/ Fallback \/ VoicemailBridge \/ ContinueReply \/ Dismiss
             \/ DismissLegsHungUp \/ GoodbyeDiscards \/ GoodbyeEnds
    BY <1>1, <2>4 DEF Fallback, VoicemailBridge, ContinueReply, Dismiss,
                      DismissLegsHungUp, GoodbyeDiscards, GoodbyeEnds
  <2> QED BY <1>8, <2>1, <2>2, <2>3, <2>4 DEF Ending
<1>9. CASE Bridged
  <2>1. ASSUME NEW l \in Leg, HangupSibling(l) PROVE DepartureOK'
    BY <1>1, <1>2, <2>1 DEF HangupSibling, HangupLeg
  <2>2. CASE TalkLateAnswer
    <3>1. Head(queue).leg \in Leg
      BY <2>2, HeadIsLegEvent DEF TalkLateAnswer, Takes, LegEvent
    <3> QED BY <1>1, <1>2, <2>2, <3>1 DEF TalkLateAnswer, HangupLeg, Takes
  <2>3. CASE BridgeWinner \/ SiblingsHungUp \/ TalkLegGone \/ TalkCancelled
    BY <1>1, <2>3 DEF BridgeWinner, SiblingsHungUp, TalkLegGone, Takes, TalkCancelled
  <2> QED BY <1>9, <2>1, <2>2, <2>3 DEF Bridged
<1>10. CASE Cleanup
  <2>1. ASSUME NEW l \in Leg, CleanupLeg(l) PROVE DepartureOK'
    BY <1>1, <1>2, <2>1 DEF CleanupLeg
  <2>2. CASE CleanupCaller
    BY <1>1, <1>3, <2>2 DEF CleanupCaller
  <2>3. CASE CleanupBegins \/ CleanupBridge \/ PostRecord
    BY <1>1, <2>3 DEF CleanupBegins, CleanupBridge, PostRecord
  <2>4. CASE Finish
    BY <2>4 DEF Finish, DepartureOK
  <2> QED BY <1>10, <2>1, <2>2, <2>3, <2>4 DEF Cleanup
<1>11. CASE Over \/ UNCHANGED vars
  BY <1>1, <1>11 DEF Over, vars
<1> QED BY <1>4, <1>5, <1>6, <1>7, <1>8, <1>9, <1>10, <1>11 DEF Next, Session

\* The queue tells of the winner's end only once it has ended.
LEMMA WinnerGone ==
    ASSUME Safe, GoneIsGone, TalkLegGone, Head(queue).leg = winner
    PROVE  Head(queue) = Gone(winner) /\ Gone(winner) \in Elems(queue)
           /\ winner \in Leg /\ legState[winner] = "gone"
<1>1. Head(queue) \in LegEvent /\ Head(queue) \in Elems(queue) /\ Head(queue).kind = "gone"
  BY HeadIsLegEvent, TailQueue DEF TalkLegGone, Takes
<1> QED BY <1>1 DEF GoneIsGone, LegEvent, Gone

LEMMA JoinedNext == Safe /\ Safe' /\ GoneIsGone /\ DepartureOK /\ JoinedOK /\ [Next]_vars => JoinedOK'
<1> SUFFICES ASSUME Safe, Safe', GoneIsGone, DepartureOK, JoinedOK, [Next]_vars,
                    caller' = "stasis", NEW k \in Leg, legState'[k] = "bridged"
             PROVE  pc' \in {"siblings", "talk"}
  BY DEF JoinedOK
<1> USE DEF Move, Goto, callerVars, channels, asterisk, control, ladderVars, rung
<1> DEFINE Same == legState[k] = "bridged" /\ caller = "stasis" /\ pc' = pc
<1>0. pc' \in {"siblings", "talk"} \cup CleaningUp /\ k = winner'
  BY DEF Safe, BridgedOK
<1>1. Same => pc' \in {"siblings", "talk"}
  BY DEF JoinedOK
<1>2. ASSUME NEW l \in Leg, EndLeg(l) PROVE legState[k] = "bridged"
  BY <1>2, EndLegType DEF Safe
<1>3. legState[k] = "bridged" /\ caller = "stasis" => pc \in {"siblings", "talk"} /\ k = winner
  BY DEF JoinedOK, Safe, BridgedOK
<1>4. CASE Asterisk \/ Route \/ LoseEvent \/ \E l \in Leg : HangupOrphan(l)
  <2>1. ASSUME NEW l \in Leg, Answer(l) PROVE Same
    BY <2>1 DEF Answer, Safe, TypeOK
  <2>2. ASSUME NEW l \in Leg, HandsetEnds(l) \/ HangupOrphan(l) PROVE Same
    BY <2>2, <1>2 DEF HandsetEnds, HangupOrphan
  <2>3. CASE FarEndHangsUp \/ Transfer
    BY <2>3 DEF FarEndHangsUp, EndCaller, Transfer
  <2>4. CASE Route \/ LoseEvent
    BY <1>1, <2>4 DEF Route, RouteLeg, RouteOrphan, RouteCallerLeft, CallerLeftCancels,
                RouteCallerGone, LoseEvent
  <2> QED BY <1>1, <1>4, <2>1, <2>2, <2>3, <2>4 DEF Asterisk
<1>5. CASE RunPlan \/ RingStep
  <2>1. pc' \notin CleaningUp \/ UNCHANGED <<legState, caller>>
    BY <1>5 DEF RunPlan, CreateBridge, CreateBridgeFails, BridgeReply, JoinCaller, NextStage,
       RingStep, SkipHandset, Originate, OriginateReply, AllDialled, RingAnswered, RingLegGone,
       RingTimeout, RingAbandoned, HangupLegs, StageHungUp, CleaningUp
  <2>2. pc \notin {"siblings", "talk"} 
    BY <1>5 DEF RunPlan, CreateBridge, CreateBridgeFails, BridgeReply, JoinCaller, NextStage,
       RingStep, SkipHandset, Originate, OriginateReply, AllDialled, RingAnswered, RingLegGone,
       RingTimeout, RingAbandoned, HangupLegs, StageHungUp, Takes
  <2> QED BY <1>0, <1>3, <2>1, <2>2
<1>6. CASE Ending
  <2>1. legState[k] = "bridged"
    BY <1>6 DEF Ending, Fallback, VoicemailBridge, Continue, ContinueRefused, ContinueReply,
       ContinueFailed, Dismiss, DismissLegsHungUp, GoodbyeDiscards, GoodbyeEnds, DismissHangup,
       EndCaller
  <2>2. pc \notin {"siblings", "talk"} /\ caller = "stasis"
    BY <1>6 DEF Ending, Fallback, VoicemailBridge, Continue, ContinueRefused, ContinueReply,
       ContinueFailed, Dismiss, DismissLegsHungUp, GoodbyeDiscards, GoodbyeEnds, DismissHangup,
       EndCaller
  <2> QED BY <1>3, <2>1, <2>2
<1>7. CASE Bridged
  <2>1. CASE BridgeWinner \/ SiblingsHungUp
    BY <1>1, <1>3, <2>1 DEF BridgeWinner, SiblingsHungUp, CleaningUp
  <2>2. ASSUME NEW l \in Leg, HangupSibling(l) PROVE pc' \in {"siblings", "talk"}
    BY <2>2 DEF HangupSibling
  <2>3. CASE TalkLateAnswer
    BY <2>3 DEF TalkLateAnswer, Takes
  <2>4. CASE TalkLegGone
    BY <1>3, <2>4, WinnerGone DEF TalkLegGone, Takes
  <2>5. CASE TalkCancelled
    BY <2>5 DEF TalkCancelled, DepartureOK, CleaningUp
  <2> QED BY <1>7, <2>1, <2>2, <2>3, <2>4, <2>5 DEF Bridged
<1>8. CASE Cleanup
  <2>1. pc \in CleaningUp /\ caller = "stasis"
    BY <1>8 DEF Cleanup, CleanupBegins, CleanupLeg, CleanupBridge, CleanupCaller, PostRecord,
       Finish, EndCaller, CleaningUp
  <2>2. legState[k] = "bridged"
    BY <1>2, <1>8 DEF Cleanup, CleanupBegins, CleanupLeg, CleanupBridge, CleanupCaller,
       PostRecord, Finish
  <2> QED BY <1>3, <2>1, <2>2 DEF CleaningUp
<1>9. CASE Over \/ UNCHANGED vars
  BY <1>1, <1>9 DEF Over, vars
<1> QED BY <1>4, <1>5, <1>6, <1>7, <1>8, <1>9 DEF Next, Session

-----------------------------------------------------------------------------
(* Who hangs up a caller the dialplan owns. *)

\* More events on the wire leave what is announced announced.
LEMMA AnnouncedAppend ==
    ASSUME Safe, Announced, NEW e, wire' = Append(wire, e), winner' = winner,
           Elems(queue') \subseteq Elems(queue)
    PROVE  Announced'
<1>1. wire \in Seq(Event)
  BY DEF Safe, TypeOK
<1>2. PICK i \in 1 .. Len(wire) : wire[i] = Left /\ \A j \in 1 .. i - 1 : wire[j] # Gone(winner)
  BY DEF Announced
<1>3. /\ Len(wire') = Len(wire) + 1 /\ Len(wire) \in Nat
      /\ \A j \in 1 .. Len(wire) : wire'[j] = wire[j]
  BY <1>1
<1>4. i \in 1 .. Len(wire') /\ wire'[i] = Left /\ \A j \in 1 .. i - 1 : wire'[j] # Gone(winner)
  BY <1>2, <1>3
<1> QED BY <1>4 DEF Announced, Gone

\* Reading an event other than the StasisEnd leaves it announced, wherever the
\* event goes: the winner's end is not read first.
LEMMA AnnouncedRead ==
    ASSUME Safe, Announced, wire # <<>>, Head(wire) # Left, wire' = Tail(wire),
           winner' = winner, Elems(queue') \subseteq Elems(queue) \cup {Head(wire)}
    PROVE  Announced'
<1>1. wire \in Seq(Event)
  BY DEF Safe, TypeOK
<1>2. PICK i \in 1 .. Len(wire) : wire[i] = Left /\ \A j \in 1 .. i - 1 : wire[j] # Gone(winner)
  BY DEF Announced
<1>3. /\ Head(wire) = wire[1] /\ Len(wire) \in Nat \ {0} /\ Len(wire') = Len(wire) - 1
      /\ \A j \in 1 .. Len(wire') : wire'[j] = wire[j + 1]
  BY <1>1, TakeHead
<1>4. i > 1 /\ Head(wire) # Gone(winner)
  BY <1>2, <1>3
<1>5. /\ i - 1 \in 1 .. Len(wire') /\ wire'[i - 1] = Left
      /\ \A j \in 1 .. (i - 1) - 1 : wire'[j] # Gone(winner)
  BY <1>2, <1>3, <1>4
<1>6. Gone(winner) \notin Elems(queue')
  BY <1>4 DEF Announced
<1> QED BY <1>5, <1>6 DEF Announced, Gone

\* A transfer is announced at once: the winner, still joined, has not ended.
LEMMA TransferAnnounces == Safe /\ GoneIsGone /\ Transfer => Announced'
<1> SUFFICES ASSUME Safe, GoneIsGone, Transfer PROVE Announced'
  OBVIOUS
<1>1. wire \in Seq(Event) /\ wire' = Append(wire, Left)
  BY DEF Safe, TypeOK, Transfer
<1>2. winner \in Leg /\ legState[winner] = "bridged"
  BY DEF Safe, BridgedOK, Transfer
<1>3. Gone(winner) \notin Elems(wire) \cup Elems(queue)
  BY <1>2 DEF GoneIsGone, Gone
<1>4. /\ Len(wire') = Len(wire) + 1 /\ Len(wire) \in Nat /\ wire'[Len(wire) + 1] = Left
      /\ \A j \in 1 .. Len(wire) : wire'[j] = wire[j]
  BY <1>1
<1>5. \A j \in 1 .. Len(wire) : wire[j] # Gone(winner)
  BY <1>3 DEF Elems
<1>6. /\ Len(wire) + 1 \in 1 .. Len(wire')
      /\ \A j \in 1 .. (Len(wire) + 1) - 1 : wire'[j] # Gone(winner)
  BY <1>4, <1>5
<1> QED BY <1>3, <1>4, <1>6 DEF Announced, Gone, Transfer, ladderVars, control

LEMMA HandoverNext ==
    ASSUME ~ReplyLoss, ~WireLoss, Safe, GoneIsGone, DepartureOK, JoinedOK, HandoverOK,
           [Next]_vars
    PROVE  HandoverOK'
<1> USE DEF Move, Goto, callerVars, channels, asterisk, control, routerVars, ladderVars, rung,
            CleaningUp
<1> DEFINE Elsewhere == pc \notin {"siblings", "talk", "continueReply", "continueFailed"}
                                  \cup CleaningUp
           Talking == pc \in {"siblings", "talk"} /\ pc' \in {"siblings", "talk"}
<1>1. Elsewhere /\ caller' \in {caller, "gone"} => HandoverOK'
  BY DEF HandoverOK
<1>2. /\ pc' = pc /\ caller' = caller /\ release' = release /\ (Announced => Announced')
      => HandoverOK'
  BY DEF HandoverOK
<1>3. /\ Talking /\ caller' = caller /\ release' = release /\ (Announced => Announced')
      => HandoverOK'
  BY DEF HandoverOK
<1>4. ASSUME NEW l \in Leg, EndLeg(l), winner' = winner, Elems(queue') \subseteq Elems(queue)
      PROVE  Announced => Announced'
  <2>1. ASSUME wire' = wire, Announced PROVE Announced'
    BY <1>4, <2>1 DEF Announced, Gone
  <2> QED BY <1>4, <2>1, AnnouncedAppend DEF EndLeg
<1>5. CASE Asterisk \/ \E l \in Leg : HangupOrphan(l)
  <2>1. ASSUME NEW l \in Leg, Answer(l) PROVE HandoverOK'
    BY <1>2, <2>1, AnnouncedAppend DEF Answer
  <2>2. ASSUME NEW l \in Leg, HandsetEnds(l) \/ HangupOrphan(l) PROVE HandoverOK'
    BY <1>2, <1>4, <2>2 DEF HandsetEnds, HangupOrphan
  <2>3. CASE FarEndHangsUp
    BY <2>3 DEF FarEndHangsUp, EndCaller, HandoverOK
  <2>4. CASE Transfer
    BY <2>4, TransferAnnounces DEF Transfer, JoinedOK, HandoverOK
  <2> QED BY <1>5, <2>1, <2>2, <2>3, <2>4 DEF Asterisk
<1>6. CASE Route \/ LoseEvent
  <2>1. CASE RouteLeg
    <3>1. wire # <<>> /\ Head(wire) # Left /\ wire' = Tail(wire)
      BY <2>1 DEF RouteLeg, Reads, Left
    <3>2. Elems(queue') \subseteq Elems(queue) \cup {Head(wire)}
      <4>1. Head(wire) \in LegEvent
        BY <2>1, ReadsWire DEF RouteLeg, LegEvent, Safe, TypeOK
      <4> QED BY <2>1, <4>1, PostQueue DEF RouteLeg
    <3> QED BY <1>2, <2>1, <3>1, <3>2, AnnouncedRead DEF RouteLeg
  <2>2. CASE RouteOrphan
    <3>1. wire # <<>> /\ Head(wire) # Left /\ wire' = Tail(wire)
      BY <2>2 DEF RouteOrphan, Reads, Left
    <3> QED BY <1>2, <2>2, <3>1, AnnouncedRead DEF RouteOrphan
  <2>3. CASE RouteCallerLeft
    <3>0. ~registered => pc = "done"
      BY DEF DepartureOK
    <3>1. release' = "confirmed" \/ (pc = "done" /\ release' = release)
      <4>1. CASE registered
        BY <2>3, <4>1 DEF RouteCallerLeft
      <4>2. CASE ~registered
        <5>1. release' = release
          BY <2>3, <4>2 DEF RouteCallerLeft
        <5> QED BY <3>0, <4>2, <5>1
      <4> QED BY <4>1, <4>2
    <3> QED BY <2>3, <3>1 DEF RouteCallerLeft, HandoverOK
  <2>4. CASE CallerLeftCancels
    BY <1>2, <2>4 DEF CallerLeftCancels, Announced, Gone
  <2>5. CASE RouteCallerGone
    <3>1. caller' = "gone"
      BY <2>5, ReadsWire DEF RouteCallerGone, DepartureOK
    <3> QED BY <3>1 DEF HandoverOK
  <2> QED BY <1>6, <2>1, <2>2, <2>3, <2>4, <2>5 DEF Route, LoseEvent
<1>7. CASE RunPlan \/ RingStep
  BY <1>1, <1>7 DEF RunPlan, CreateBridge, CreateBridgeFails, BridgeReply, JoinCaller, NextStage,
     RingStep, SkipHandset, Originate, OriginateReply, AllDialled, RingAnswered, RingLegGone,
     RingTimeout, RingAbandoned, HangupLegs, StageHungUp, Takes
<1>8. CASE Ending
  <2>1. CASE Continue
    BY <2>1 DEF Continue, HandoverOK, Safe, TypeOK
  <2>2. CASE ContinueReply
    BY <2>2 DEF ContinueReply, ReplyFails, HandoverOK, DepartureOK
  <2>3. CASE ContinueFailed
    BY <2>3 DEF ContinueFailed, HandoverOK
  <2>4. CASE \/ Fallback \/ VoicemailBridge \/ ContinueRefused \/ Dismiss
             \/ DismissLegsHungUp \/ GoodbyeDiscards \/ GoodbyeEnds \/ DismissHangup
    BY <1>1, <2>4 DEF Fallback, VoicemailBridge, ContinueRefused, Dismiss, DismissLegsHungUp,
       GoodbyeDiscards, GoodbyeEnds, DismissHangup, EndCaller
  <2> QED BY <1>8, <2>1, <2>2, <2>3, <2>4 DEF Ending
<1>9. CASE Bridged
  <2>1. ASSUME NEW l \in Leg, HangupSibling(l) PROVE HandoverOK'
    <3>1. CASE cancelled
      BY <1>3, <2>1, <3>1 DEF HangupSibling, HangupLeg, Announced, Gone
    <3>2. CASE ~cancelled
      BY <1>3, <1>4, <2>1, <3>2 DEF HangupSibling, HangupLeg
    <3> QED BY <3>1, <3>2
  <2>2. CASE BridgeWinner
    BY <1>1, <2>2 DEF BridgeWinner
  <2>3. CASE SiblingsHungUp
    BY <1>3, <2>3 DEF SiblingsHungUp, Announced, Gone
  <2>4. CASE TalkLateAnswer
    <3>1. Head(queue).leg \in Leg
      BY <2>4, HeadIsLegEvent DEF TalkLateAnswer, Takes, LegEvent
    <3>2. Elems(queue') \subseteq Elems(queue)
      BY <2>4, TailQueue DEF TalkLateAnswer, Takes
    <3>3. Announced => Announced'
      <4>1. CASE cancelled
        BY <2>4, <3>2, <4>1 DEF TalkLateAnswer, HangupLeg, Announced, Gone
      <4>2. CASE ~cancelled
        BY <1>4, <2>4, <3>1, <3>2, <4>2 DEF TalkLateAnswer, HangupLeg
      <4> QED BY <4>1, <4>2
    <3> QED BY <1>3, <2>4, <3>3 DEF TalkLateAnswer, Takes
  <2>5. CASE TalkLegGone
    <3>1. CASE Head(queue).leg = winner
      BY <2>5, <3>1, WinnerGone DEF TalkLegGone, Takes, HandoverOK, Announced
    <3>2. CASE Head(queue).leg # winner
      <4>1. Elems(queue') \subseteq Elems(queue)
        BY <2>5, TailQueue DEF TalkLegGone, Takes
      <4>2. Announced => Announced'
        BY <2>5, <4>1 DEF TalkLegGone, Announced, Gone
      <4> QED BY <1>3, <2>5, <3>2, <4>2 DEF TalkLegGone, Takes
    <3> QED BY <3>1, <3>2
  <2>6. CASE TalkCancelled
    BY <2>6 DEF TalkCancelled, HandoverOK, DepartureOK
  <2> QED BY <1>9, <2>1, <2>2, <2>3, <2>4, <2>5, <2>6 DEF Bridged
<1>10. CASE Cleanup
  BY <1>10 DEF Cleanup, CleanupBegins, CleanupLeg, CleanupBridge, CleanupCaller, PostRecord,
     Finish, EndCaller, HandoverOK
<1>11. CASE Over \/ UNCHANGED vars
  BY <1>2, <1>11 DEF Over, vars, Announced, Gone
<1> QED BY <1>5, <1>6, <1>7, <1>8, <1>9, <1>10, <1>11 DEF Next, Session

LEMMA InvInit == Init => Inv
<1> SUFFICES ASSUME Init PROVE Inv
  OBVIOUS
<1>1. Elems(<<>>) = {}
  BY DEF Elems
<1>2. GoneIsGone /\ DepartureOK
  BY <1>1 DEF Init, GoneIsGone, DepartureOK, CleaningUp
<1>3. FreshLegs /\ JoinedOK /\ HandoverOK
  BY DEF Init, FreshLegs, JoinedOK, HandoverOK
<1> QED BY <1>2, <1>3, SafeInit DEF Inv

\* A step from a state of the invariant hangs up only a caller in Stasis, or
\* one whose far end hung up.
LEMMA KillsOnlyItsOwn ==
    Inv /\ [Next]_vars => (caller = "dialplan" /\ caller' = "gone" => endedBy' = "far")
<1> SUFFICES ASSUME Inv, [Next]_vars, caller = "dialplan", caller' = "gone"
             PROVE  endedBy' = "far"
  OBVIOUS
<1> USE DEF Move, Goto, callerVars, channels, asterisk, CleaningUp
<1>1. CASE Asterisk
  BY <1>1 DEF Asterisk, Answer, HandsetEnds, FarEndHangsUp, EndCaller, Transfer
<1>2. CASE Route \/ LoseEvent \/ \E l \in Leg : HangupOrphan(l)
  BY <1>2 DEF Route, RouteLeg, RouteOrphan, RouteCallerLeft, CallerLeftCancels,
     RouteCallerGone, LoseEvent, HangupOrphan
<1>3. CASE RunPlan \/ RingStep \/ Bridged
  BY <1>3 DEF RunPlan, CreateBridge, CreateBridgeFails, BridgeReply, JoinCaller, NextStage,
     RingStep, SkipHandset, Originate, OriginateReply, AllDialled, RingAnswered, RingLegGone,
     RingTimeout, RingAbandoned, HangupLegs, StageHungUp, Bridged, BridgeWinner,
     HangupSibling, SiblingsHungUp, TalkLateAnswer, TalkLegGone, TalkCancelled
<1>4. CASE Ending
  <2>1. pc # "dismissHangup"
    BY DEF Inv, HandoverOK
  <2> QED BY <1>4, <2>1 DEF Ending, Fallback, VoicemailBridge, Continue, ContinueRefused,
       ContinueReply, ContinueFailed, Dismiss, DismissLegsHungUp, GoodbyeDiscards,
       GoodbyeEnds, DismissHangup
<1>5. CASE Cleanup
  <2>1. pc = "cleanupCaller" => release # "owned"
    BY DEF Inv, HandoverOK
  <2> QED BY <1>5, <2>1 DEF Cleanup, CleanupBegins, CleanupLeg, CleanupBridge, CleanupCaller,
       PostRecord, Finish
<1>6. CASE Over \/ UNCHANGED vars
  BY <1>6 DEF Over, vars
<1> QED BY <1>1, <1>2, <1>3, <1>4, <1>5, <1>6 DEF Next, Session

\* The invariant is inductive as long as no reply and no event is lost.
LEMMA InvNext ==
    ASSUME ~ReplyLoss, ~WireLoss
    PROVE  Inv /\ [Next]_vars => Inv'
<1> SUFFICES ASSUME Inv, [Next]_vars PROVE Inv'
  OBVIOUS
<1>1. Safe'
  BY SafeNext DEF Inv
<1>2. FreshLegs'
  BY FreshNext DEF Inv
<1>3. GoneIsGone'
  BY GoneNext DEF Inv
<1>4. DepartureOK'
  BY DepartureNext DEF Inv
<1>5. JoinedOK'
  BY <1>1, JoinedNext DEF Inv
<1>6. HandoverOK'
  BY HandoverNext DEF Inv
<1> QED BY <1>1, <1>2, <1>3, <1>4, <1>5, <1>6 DEF Inv

\* As long as no reply and no event is lost, doorman never hangs up a caller
\* the dialplan owns: not one a handset transferred, nor one it sent to the
\* mailbox (channelRelease, sendToVoicemail and cleanup).
THEOREM HandedOffIsSafe ==
    ASSUME ~ReplyLoss, ~WireLoss
    PROVE  Spec => NeverKillsHandedOff
<1>1. Inv /\ [Next]_vars => [caller = "dialplan" /\ caller' = "gone" => endedBy' = "far"]_vars
  BY KillsOnlyItsOwn
<1> QED BY InvInit, InvNext, <1>1, PTL DEF Spec, NeverKillsHandedOff

-----------------------------------------------------------------------------
(* RingLadder implements CallPromise. *)

\* A session that is done with the caller has posted its one record, and no
\* release is left pending over a caller still in the application.
RecordOK ==
    /\ release = "pending" /\ pc # "continueFailed" => caller # "stasis"
    /\ pc \in {"record", "finish", "done"} => caller # "stasis"
    /\ posted = IF pc \in {"finish", "done"} THEN 1 ELSE 0

\* Only cleanup's last steps post a record or forget the caller; a caller who
\* has left Stasis never comes back.
LEMMA RecordNext == Safe /\ DepartureOK /\ RecordOK /\ [Next]_vars => RecordOK'
<1> SUFFICES ASSUME Safe, DepartureOK, RecordOK, [Next]_vars PROVE RecordOK'
  OBVIOUS
<1> USE DEF Move, Goto, control, recVars, callerVars, channels, asterisk
<1>1. CASE Asterisk
  BY <1>1 DEF Asterisk, Answer, HandsetEnds, FarEndHangsUp, EndCaller, Transfer, RecordOK
<1>2. CASE Route \/ LoseEvent \/ \E l \in Leg : HangupOrphan(l)
  BY <1>2 DEF Route, RouteLeg, RouteOrphan, RouteCallerLeft, CallerLeftCancels,
     RouteCallerGone, LoseEvent, HangupOrphan, RecordOK
<1>3. CASE RunPlan
  BY <1>3 DEF RunPlan, CreateBridge, CreateBridgeFails, BridgeReply, JoinCaller, NextStage,
     RecordOK
<1>4. CASE RingStep
  BY <1>4 DEF RingStep, SkipHandset, Originate, OriginateReply, AllDialled, RingAnswered,
     RingLegGone, RingTimeout, RingAbandoned, HangupLegs, StageHungUp, Takes, RecordOK
<1>5. CASE Ending
  BY <1>5 DEF Ending, Fallback, VoicemailBridge, Continue, ContinueRefused, ContinueReply,
     ContinueFailed, Dismiss, DismissLegsHungUp, GoodbyeDiscards, GoodbyeEnds,
     DismissHangup, EndCaller, RecordOK
<1>6. CASE Bridged
  BY <1>6 DEF Bridged, BridgeWinner, HangupSibling, SiblingsHungUp, TalkLateAnswer,
     TalkLegGone, TalkCancelled, Takes, RecordOK
<1>7. CASE Cleanup
  BY <1>7 DEF Cleanup, CleanupBegins, CleanupLeg, CleanupBridge, CleanupCaller, PostRecord,
     Finish, EndCaller, RecordOK, DepartureOK, Safe, TypeOK
<1>8. CASE Over \/ UNCHANGED vars
  BY <1>8 DEF Over, vars, RecordOK
<1> QED BY <1>1, <1>2, <1>3, <1>4, <1>5, <1>6, <1>7, <1>8 DEF Next, Session

\* What a step may do to the variables the promise is about.
LEMMA PromiseStep ==
    ASSUME Inv, Inv', RecordOK, [Next]_vars
    PROVE  \/ UNCHANGED <<caller, endedBy, posted>> /\ (pc' = "done" <=> pc = "done")
           \/ EndCaller("far") /\ UNCHANGED posted /\ (pc' = "done" <=> pc = "done")
           \/ /\ caller = "stasis" /\ caller' = "dialplan" /\ pc # "done" /\ pc' # "done"
              /\ UNCHANGED <<endedBy, posted>>
           \/ /\ caller = "stasis" /\ EndCaller("doorman") /\ pc # "done" /\ pc' # "done"
              /\ UNCHANGED posted
           \/ /\ posted = 0 /\ posted' = 1 /\ pc # "done" /\ pc' # "done"
              /\ UNCHANGED callerVars
           \/ /\ pc = "finish" /\ pc' = "done" /\ posted = 1 /\ caller # "stasis"
              /\ UNCHANGED <<callerVars, posted>>
<1> USE DEF Move, Goto, recVars, callerVars, channels, asterisk
<1>1. CASE Asterisk
  BY <1>1 DEF Asterisk, Answer, HandsetEnds, FarEndHangsUp, Transfer, RecordOK
<1>2. CASE Route \/ LoseEvent \/ \E l \in Leg : HangupOrphan(l)
  BY <1>2 DEF Route, RouteLeg, RouteOrphan, RouteCallerLeft, CallerLeftCancels,
     RouteCallerGone, LoseEvent, HangupOrphan
<1>3. CASE RunPlan \/ RingStep \/ Bridged
  BY <1>3 DEF RunPlan, CreateBridge, CreateBridgeFails, BridgeReply, JoinCaller, NextStage,
     RingStep, SkipHandset, Originate, OriginateReply, AllDialled, RingAnswered, RingLegGone,
     RingTimeout, RingAbandoned, HangupLegs, StageHungUp, Takes, Bridged, BridgeWinner,
     HangupSibling, SiblingsHungUp, TalkLateAnswer, TalkLegGone, TalkCancelled
<1>4. CASE Ending
  <2>1. pc = "dismissHangup" => caller # "dialplan"
    BY DEF Inv, HandoverOK, CleaningUp
  <2>2. EndCaller("doorman") /\ pc = "dismissHangup" => caller = "stasis"
    BY <2>1 DEF EndCaller, Inv, Safe, TypeOK
  <2> QED BY <1>4, <2>2 DEF Ending, Fallback, VoicemailBridge, Continue, ContinueRefused,
       ContinueReply, ContinueFailed, Dismiss, DismissLegsHungUp, GoodbyeDiscards,
       GoodbyeEnds, DismissHangup
<1>5. CASE Cleanup
  <2>1. pc = "cleanupCaller" /\ release = "owned" => caller # "dialplan"
    BY DEF Inv, HandoverOK, CleaningUp
  <2>2. EndCaller("doorman") /\ pc = "cleanupCaller" /\ release = "owned" => caller = "stasis"
    BY <2>1 DEF EndCaller, Inv, Safe, TypeOK
  <2> QED BY <1>5, <2>2 DEF Cleanup, CleanupBegins, CleanupLeg, CleanupBridge, CleanupCaller,
       PostRecord, Finish, RecordOK
<1>6. CASE Over \/ UNCHANGED vars
  BY <1>6 DEF Over, vars
<1> QED BY <1>1, <1>2, <1>3, <1>4, <1>5, <1>6 DEF Next, Session

\* As long as no reply and no event is lost, one call keeps its promise: the
\* caller's channel has one owner, doorman ends only a call it owns, posts one
\* record, and forgets the call only when nobody is left in the application
\* (runPlan to cleanup, and the registry's OnFinished).
THEOREM PromiseIsKept ==
    ASSUME ~ReplyLoss, ~WireLoss
    PROVE  Spec => KeepsPromise
<1>1. Init => Promise!Init /\ RecordOK
  BY DEF Init, Promise!Init, RecordOK
<1>2. ASSUME Inv, Inv', RecordOK, [Next]_vars
      PROVE  [Promise!Next]_(Promise!vars)
  <2> USE DEF Inv, Safe, TypeOK, callerVars, EndCaller, Promise!vars, Promise!Next
  <2>1. CASE UNCHANGED <<caller, endedBy, posted>> /\ (pc' = "done" <=> pc = "done")
    BY <2>1
  <2>2. CASE EndCaller("far") /\ UNCHANGED posted /\ (pc' = "done" <=> pc = "done")
    BY <1>2, <2>2 DEF Promise!FarEndHangsUp
  <2>3. CASE /\ caller = "stasis" /\ caller' = "dialplan" /\ pc # "done" /\ pc' # "done"
             /\ UNCHANGED <<endedBy, posted>>
    BY <2>3 DEF Promise!Release
  <2>4. CASE /\ caller = "stasis" /\ EndCaller("doorman") /\ pc # "done" /\ pc' # "done"
             /\ UNCHANGED posted
    BY <2>4 DEF Promise!DoormanHangsUp
  <2>5. CASE /\ posted = 0 /\ posted' = 1 /\ pc # "done" /\ pc' # "done"
             /\ UNCHANGED callerVars
    BY <2>5 DEF Promise!Record
  <2>6. CASE /\ pc = "finish" /\ pc' = "done" /\ posted = 1 /\ caller # "stasis"
             /\ UNCHANGED <<callerVars, posted>>
    BY <1>2, <2>6 DEF Promise!Finish
  <2> QED BY <1>2, <2>1, <2>2, <2>3, <2>4, <2>5, <2>6, PromiseStep
<1>3. Inv /\ RecordOK /\ [Next]_vars => Inv' /\ RecordOK'
  BY InvNext, RecordNext DEF Inv
<1>4. Inv /\ RecordOK /\ Inv' /\ [Next]_vars => [Promise!Next]_(Promise!vars)
  BY <1>2
<1> QED BY InvInit, <1>1, <1>3, <1>4, PTL DEF Spec, KeepsPromise, Promise!Spec
-----------------------------------------------------------------------------
(* Who is left holding a handset. *)

\* Every leg the session holds, or is about to, has been originated.
LegsExist ==
    /\ \A l \in legs : legState[l] # "none"
    /\ pc = "originateReply" => legState[pending] # "none"

\* Doorman ends the caller's channel only on its way out.
EndedOK == endedBy = "doorman" => pc \in CleaningUp

\* The caller is still doorman's to look after, or was until doorman ended the
\* call: no leg was forgotten under a cancelled context.
Kept == ~cancelled \/ endedBy = "doorman" \/ (release = "owned" /\ caller # "gone")

\* The router and the queue name no leg the session has forgotten alive, and a
\* picked-up leg is held, an orphan, or announced on the wire.
HeldOK ==
    Kept =>
        /\ \A l \in routes : l \in legs \/ legState[l] = "gone"
        /\ \A e \in Elems(queue) : e.leg \in legs \/ legState[e.leg] = "gone"
        /\ \A l \in Leg : legState[l] = "stasis" =>
              l \in legs \cup orphans \/ Answered(l) \in Elems(wire)

LEMMA ElemsHead ==
    ASSUME NEW S, NEW s \in Seq(S), s # <<>>
    PROVE  Elems(s) \subseteq {Head(s)} \cup Elems(Tail(s))
<1>1. ASSUME NEW i \in 1 .. Len(s), i # 1
      PROVE  i - 1 \in 1 .. Len(Tail(s)) /\ Tail(s)[i - 1] = s[i]
  <2>1. Len(s) \in Nat /\ Len(Tail(s)) = Len(s) - 1
    BY TakeHead
  <2>2. i - 1 \in 1 .. Len(Tail(s))
    BY <1>1, <2>1
  <2>3. (i - 1) + 1 = i /\ Tail(s)[i - 1] = s[(i - 1) + 1]
    BY <2>1, <2>2, TakeHead
  <2> QED BY <2>2, <2>3
<1>2. ASSUME NEW i \in 1 .. Len(s) PROVE s[i] \in {Head(s)} \cup Elems(Tail(s))
  <2>1. CASE i = 1
    BY <2>1, TakeHead
  <2>2. CASE i # 1
    BY <1>1, <2>2 DEF Elems
  <2> QED BY <2>1, <2>2
<1> QED BY <1>2 DEF Elems

LEMMA QueueLegs == Safe => \A e \in Elems(queue) : e.leg \in Leg
<1> SUFFICES ASSUME Safe, NEW i \in 1 .. Len(queue) PROVE queue[i] \in LegEvent
  BY DEF Elems, LegEvent
<1> QED BY ElementOfSeq DEF Safe, TypeOK, LegEvent

\* What ending a leg does to the legs.
LEMMA EndLegEffect ==
    ASSUME Safe, NEW l \in Leg, EndLeg(l)
    PROVE  /\ legState[l] # "none" => legState'[l] = "gone"
           /\ legState'[l] # "stasis"
           /\ \A k \in Leg : /\ legState[k] = "gone" => legState'[k] = "gone"
                             /\ legState[k] # "none" => legState'[k] # "none"
                             /\ legState'[k] = "stasis" => legState[k] = "stasis"
           /\ Elems(wire) \subseteq Elems(wire')
<1>1. CASE Live(l)
  <2>1. Elems(Append(wire, Gone(l))) = Elems(wire) \cup {Gone(l)}
    BY ElemsAppend, EventFacts DEF Safe, TypeOK
  <2> QED BY <1>1, <2>1 DEF EndLeg, Live, Safe, TypeOK
<1>2. CASE ~Live(l)
  BY <1>2 DEF EndLeg, Live, Safe, TypeOK
<1> QED BY <1>1, <1>2

LEMMA EndCallerKeepsWire ==
    ASSUME Safe, NEW who \in {"far", "doorman"}, EndCaller(who)
    PROVE  Elems(wire) \subseteq Elems(wire')
<1> DEFINE both == <<Left, Destroyed>>
<1>1. both \in Seq(Event) /\ wire \in Seq(Event)
  BY EventFacts DEF Safe, TypeOK
<1> HIDE DEF both
<1>2. Elems(wire \o both) = Elems(wire) \cup Elems(both)
  BY <1>1, ElemsConcat
<1>3. Elems(Append(wire, Destroyed)) = Elems(wire) \cup {Destroyed}
  BY <1>1, ElemsAppend, EventFacts
<1> QED BY <1>2, <1>3 DEF EndCaller, both

\* A leg about to be originated has never existed.
LEMMA FreshDial ==
    ASSUME Safe, FreshLegs, NEW h \in Handset, Originate(h)
    PROVE  <<stage, h>> \in Leg /\ legState[<<stage, h>>] = "none"
<1>1. <<stage, h>> \in Leg /\ h \in todo
  BY DEF Originate, Goto, Safe, DiallingOK, Leg, Stage
<1> QED BY <1>1 DEF FreshLegs

\* Legs are known to the session only once they exist.
LEMMA ExistNext == Safe /\ LegsExist /\ [Next]_vars => LegsExist'
<1> SUFFICES ASSUME Safe, LegsExist, [Next]_vars PROVE LegsExist'
  OBVIOUS
<1> USE DEF Move, Goto, ladderVars, rung, callerVars, channels, asterisk
<1> DEFINE Grow == \A l \in Leg : legState[l] # "none" => legState'[l] # "none"
           Same == /\ legs' \subseteq legs /\ pending' = pending
                   /\ pc' = "originateReply" => pc = "originateReply"
<1>0. legs \subseteq Leg /\ (pc = "originateReply" => pending \in Leg)
  BY DEF Safe, TypeOK, DiallingOK
<1>1. Grow /\ Same => LegsExist'
  BY <1>0 DEF LegsExist
<1>2. ASSUME NEW l \in Leg, EndLeg(l) PROVE Grow
  BY <1>2, EndLegEffect
<1>3. CASE Asterisk \/ Route \/ LoseEvent \/ \E l \in Leg : HangupOrphan(l)
  <2>1. ASSUME NEW l \in Leg, Answer(l) PROVE LegsExist'
    BY <1>1, <2>1 DEF Answer, Safe, TypeOK
  <2>2. ASSUME NEW l \in Leg, HandsetEnds(l) \/ HangupOrphan(l) PROVE LegsExist'
    BY <1>1, <1>2, <2>2 DEF HandsetEnds, HangupOrphan
  <2>3. CASE FarEndHangsUp \/ Transfer \/ Route \/ LoseEvent
    BY <1>1, <2>3 DEF FarEndHangsUp, Transfer, Route, RouteLeg, RouteOrphan, RouteCallerLeft,
                CallerLeftCancels, RouteCallerGone, LoseEvent
  <2> QED BY <1>3, <2>1, <2>2, <2>3 DEF Asterisk
<1>4. CASE RunPlan
  BY <1>1, <1>4 DEF RunPlan, CreateBridge, CreateBridgeFails, BridgeReply, JoinCaller,
                    NextStage, BeginStage
<1>5. CASE RingStep
  <2>1. ASSUME NEW h \in Handset, SkipHandset(h) PROVE LegsExist'
    BY <1>1, <2>1 DEF SkipHandset
  <2>2. ASSUME NEW h \in Handset, Originate(h) PROVE LegsExist'
    BY <1>0, <2>2 DEF Originate, LegsExist, Safe, TypeOK, DiallingOK, Leg, Stage
  <2>3. ASSUME NEW l \in Leg, HangupLegs(l) PROVE LegsExist'
    BY <1>1, <1>2, <2>3 DEF HangupLegs, HangupLeg
  <2>4. CASE OriginateReply
    BY <2>4 DEF OriginateReply, LegsExist
  <2>5. CASE \/ AllDialled \/ RingAnswered \/ RingLegGone
             \/ RingTimeout \/ RingAbandoned \/ StageHungUp
    BY <1>1, <2>5 DEF AllDialled, RingAnswered, RingLegGone, Takes,
                RingTimeout, RingAbandoned, StageHungUp
  <2> QED BY <1>5, <2>1, <2>2, <2>3, <2>4, <2>5 DEF RingStep
<1>6. CASE Ending
  BY <1>1, <1>6 DEF Ending, Fallback, VoicemailBridge, Continue, ContinueRefused,
     ContinueReply, ContinueFailed, Dismiss, DismissLegsHungUp, GoodbyeDiscards,
     GoodbyeEnds, DismissHangup
<1>7. CASE Bridged
  <2>1. CASE BridgeWinner
    BY <1>1, <2>1 DEF BridgeWinner, Safe, TypeOK, DiallingOK
  <2>2. ASSUME NEW l \in Leg, HangupSibling(l) PROVE LegsExist'
    BY <1>1, <1>2, <2>2 DEF HangupSibling, HangupLeg
  <2>3. CASE TalkLateAnswer
    <3>1. Head(queue).leg \in Leg
      BY <2>3, HeadIsLegEvent DEF TalkLateAnswer, Takes, LegEvent
    <3> QED BY <1>1, <1>2, <2>3, <3>1 DEF TalkLateAnswer, HangupLeg, Takes
  <2>4. CASE SiblingsHungUp \/ TalkLegGone \/ TalkCancelled
    BY <1>1, <2>4 DEF SiblingsHungUp, TalkLegGone, Takes, TalkCancelled
  <2> QED BY <1>7, <2>1, <2>2, <2>3, <2>4 DEF Bridged
<1>8. CASE Cleanup
  <2>1. ASSUME NEW l \in Leg, CleanupLeg(l) PROVE LegsExist'
    BY <1>1, <1>2, <2>1 DEF CleanupLeg
  <2>2. CASE CleanupBegins \/ CleanupBridge \/ CleanupCaller \/ PostRecord \/ Finish
    BY <1>1, <2>2 DEF CleanupBegins, CleanupBridge, CleanupCaller, PostRecord, Finish
  <2> QED BY <1>8, <2>1, <2>2 DEF Cleanup
<1>9. CASE Over \/ UNCHANGED vars
  BY <1>1, <1>9 DEF Over, vars
<1> QED BY <1>3, <1>4, <1>5, <1>6, <1>7, <1>8, <1>9 DEF Next, Session

\* As long as the caller has not gone, the session forgets a leg only when it
\* is hung up or was announced as ended (hangupLegs, bridged, cleanup).
LEMMA ForgetNext == Safe /\ GoneIsGone /\ LegsExist /\ [Next]_vars => LegsAreHungUp
<1> SUFFICES ASSUME Safe, GoneIsGone, LegsExist, [Next]_vars, ~cancelled
             PROVE  \A l \in legs \ legs' : legState'[l] = "gone"
  BY DEF LegsAreHungUp
<1> USE DEF Move, Goto, ladderVars, rung, callerVars, channels, asterisk
<1>1. ASSUME NEW l \in Leg, l \in legs, EndLeg(l), legs' = legs \ {l}
      PROVE  \A k \in legs \ legs' : legState'[k] = "gone"
  BY <1>1, EndLegEffect DEF LegsExist
<1>2. ASSUME queue # <<>>, Head(queue).kind = "gone", legs' = legs \ {Head(queue).leg},
             UNCHANGED legState
      PROVE  \A l \in legs \ legs' : legState'[l] = "gone"
  BY <1>2, ElemsTail DEF GoneIsGone, Safe, TypeOK
<1>3. CASE Asterisk \/ Route \/ LoseEvent \/ \E l \in Leg : HangupOrphan(l)
  BY <1>3 DEF Asterisk, Answer, HandsetEnds, FarEndHangsUp, Transfer, Route, RouteLeg,
     RouteOrphan, RouteCallerLeft, CallerLeftCancels, RouteCallerGone, LoseEvent, HangupOrphan
<1>4. CASE RunPlan
  BY <1>4 DEF RunPlan, CreateBridge, CreateBridgeFails, BridgeReply, JoinCaller, NextStage,
              BeginStage
<1>5. CASE RingStep
  <2>1. ASSUME NEW l \in Leg, HangupLegs(l) PROVE \A k \in legs \ legs' : legState'[k] = "gone"
    BY <1>1, <2>1 DEF HangupLegs, HangupLeg
  <2>2. CASE RingLegGone
    BY <1>2, <2>2 DEF RingLegGone, Takes
  <2>3. CASE \/ (\E h \in Handset : SkipHandset(h) \/ Originate(h)) \/ OriginateReply
             \/ AllDialled \/ RingAnswered \/ RingTimeout \/ RingAbandoned \/ StageHungUp
    BY <2>3 DEF SkipHandset, Originate, OriginateReply, AllDialled, RingAnswered,
                RingTimeout, RingAbandoned, StageHungUp
  <2> QED BY <1>5, <2>1, <2>2, <2>3 DEF RingStep
<1>6. CASE Ending
  BY <1>6 DEF Ending, Fallback, VoicemailBridge, Continue, ContinueRefused,
     ContinueReply, ContinueFailed, Dismiss, DismissLegsHungUp, GoodbyeDiscards,
     GoodbyeEnds, DismissHangup
<1>7. CASE Bridged
  <2>1. ASSUME NEW l \in Leg, HangupSibling(l) PROVE \A k \in legs \ legs' : legState'[k] = "gone"
    BY <1>1, <2>1 DEF HangupSibling, HangupLeg
  <2>2. CASE TalkLegGone
    BY <1>2, <2>2 DEF TalkLegGone, Takes
  <2>3. CASE BridgeWinner \/ SiblingsHungUp \/ TalkLateAnswer \/ TalkCancelled
    BY <2>3 DEF BridgeWinner, SiblingsHungUp, TalkLateAnswer, TalkCancelled
  <2> QED BY <1>7, <2>1, <2>2, <2>3 DEF Bridged
<1>8. CASE Cleanup
  <2>1. ASSUME NEW l \in Leg, CleanupLeg(l) PROVE \A k \in legs \ legs' : legState'[k] = "gone"
    BY <1>1, <2>1 DEF CleanupLeg
  <2>2. CASE CleanupBegins \/ CleanupBridge \/ CleanupCaller \/ PostRecord \/ Finish
    BY <2>2 DEF CleanupBegins, CleanupBridge, CleanupCaller, PostRecord, Finish
  <2> QED BY <1>8, <2>1, <2>2 DEF Cleanup
<1>9. CASE Over \/ UNCHANGED vars
  BY <1>9 DEF Over, vars
<1> QED BY <1>3, <1>4, <1>5, <1>6, <1>7, <1>8, <1>9 DEF Next, Session

\* The legs a session forgets while the caller is there have ended, whatever
\* replies or events are lost (hangupLegs, the sibling loop, evLegGone).
THEOREM NoLegIsForgotten == Spec => ForgottenLegsAreGone
<1> DEFINE I == Safe /\ FreshLegs /\ GoneIsGone /\ LegsExist
<1>1. Init => I
  <2>1. Init => FreshLegs /\ GoneIsGone /\ LegsExist
    BY DEF Init, FreshLegs, GoneIsGone, LegsExist, Elems
  <2> QED BY <2>1, SafeInit
<1>2. I /\ [Next]_vars => I'
  BY SafeNext, FreshNext, GoneNext, ExistNext
<1>3. I /\ [Next]_vars => LegsAreHungUp
  BY ForgetNext
<1> QED BY <1>1, <1>2, <1>3, PTL DEF Spec, ForgottenLegsAreGone

LEMMA EndedNext == Safe /\ EndedOK /\ [Next]_vars => EndedOK'
<1> SUFFICES ASSUME Safe, EndedOK, [Next]_vars PROVE EndedOK'
  OBVIOUS
<1> USE DEF Move, Goto, callerVars, channels, asterisk, CleaningUp, EndedOK, EndCaller
<1>1. CASE Asterisk \/ Route \/ LoseEvent \/ \E l \in Leg : HangupOrphan(l)
  BY <1>1 DEF Asterisk, Answer, HandsetEnds, FarEndHangsUp, Transfer, Route, RouteLeg,
     RouteOrphan, RouteCallerLeft, CallerLeftCancels, RouteCallerGone, LoseEvent, HangupOrphan
<1>2. CASE RunPlan
  BY <1>2 DEF RunPlan, CreateBridge, CreateBridgeFails, BridgeReply, JoinCaller, NextStage
<1>3. CASE RingStep
  BY <1>3 DEF RingStep, SkipHandset, Originate, OriginateReply, AllDialled, RingAnswered,
     RingLegGone, Takes, RingTimeout, RingAbandoned, HangupLegs, StageHungUp
<1>4. CASE Ending
  BY <1>4 DEF Ending, Fallback, VoicemailBridge, Continue, ContinueRefused,
     ContinueReply, ContinueFailed, Dismiss, DismissLegsHungUp, GoodbyeDiscards,
     GoodbyeEnds, DismissHangup
<1>5. CASE Bridged
  BY <1>5 DEF Bridged, BridgeWinner, HangupSibling, SiblingsHungUp, TalkLateAnswer,
     TalkLegGone, Takes, TalkCancelled
<1>6. CASE Cleanup
  BY <1>6 DEF Cleanup, CleanupBegins, CleanupLeg, CleanupBridge, CleanupCaller, PostRecord, Finish
<1>7. CASE Over \/ UNCHANGED vars
  BY <1>7 DEF Over, vars
<1> QED BY <1>1, <1>2, <1>3, <1>4, <1>5, <1>6, <1>7 DEF Next, Session

\* A session that has lost its caller never gets them back.
LEMMA KeptBack == Safe /\ DepartureOK /\ [Next]_vars /\ Kept' => Kept
<1> SUFFICES ASSUME Safe, DepartureOK, [Next]_vars, Kept' PROVE Kept
  OBVIOUS
<1> USE DEF Move, Goto, callerVars, channels, asterisk, control, EndCaller, Kept
<1> DEFINE Same == /\ cancelled => cancelled'
                   /\ endedBy' = "doorman" => endedBy = "doorman" \/ ~cancelled
                                              \/ (release = "owned" /\ caller # "gone")
                   /\ release' = "owned" => release = "owned"
                   /\ caller = "gone" => caller' = "gone"
<1>0. Same => Kept
  OBVIOUS
<1>1. CASE Asterisk \/ Route \/ LoseEvent \/ \E l \in Leg : HangupOrphan(l)
  BY <1>0, <1>1 DEF Asterisk, Answer, HandsetEnds, FarEndHangsUp, Transfer, Route, RouteLeg,
     RouteOrphan, RouteCallerLeft, CallerLeftCancels, RouteCallerGone, LoseEvent, HangupOrphan
<1>2. CASE RunPlan
  BY <1>0, <1>2 DEF RunPlan, CreateBridge, CreateBridgeFails, BridgeReply, JoinCaller, NextStage
<1>3. CASE RingStep
  BY <1>0, <1>3 DEF RingStep, SkipHandset, Originate, OriginateReply, AllDialled, RingAnswered,
     RingLegGone, Takes, RingTimeout, RingAbandoned, HangupLegs, StageHungUp
<1>4. CASE Ending
  <2>1. CASE ContinueFailed
    BY <2>1 DEF ContinueFailed, DepartureOK, CleaningUp
  <2>2. CASE \/ Fallback \/ VoicemailBridge \/ Continue \/ ContinueRefused
             \/ ContinueReply \/ Dismiss \/ DismissLegsHungUp \/ GoodbyeDiscards
             \/ GoodbyeEnds \/ DismissHangup
    BY <1>0, <2>2 DEF Fallback, VoicemailBridge, Continue, ContinueRefused,
       ContinueReply, Dismiss, DismissLegsHungUp, GoodbyeDiscards,
       GoodbyeEnds, DismissHangup
  <2> QED BY <1>4, <2>1, <2>2 DEF Ending
<1>5. CASE Bridged
  BY <1>0, <1>5 DEF Bridged, BridgeWinner, HangupSibling, SiblingsHungUp, TalkLateAnswer,
     TalkLegGone, Takes, TalkCancelled
<1>6. CASE Cleanup
  BY <1>0, <1>6 DEF Cleanup, CleanupBegins, CleanupLeg, CleanupBridge, CleanupCaller,
     PostRecord, Finish
<1>7. CASE Over \/ UNCHANGED vars
  BY <1>0, <1>7 DEF Over, vars
<1> QED BY <1>1, <1>2, <1>3, <1>4, <1>5, <1>6, <1>7 DEF Next, Session

\* While it works on the call of a caller it keeps, the session's context is
\* not cancelled.
LEMMA KeptWorks == DepartureOK /\ EndedOK /\ Kept /\ pc \notin CleaningUp => ~cancelled
BY DEF DepartureOK, EndedOK, Kept

LEMMA HeldNext ==
    /\ Safe /\ FreshLegs /\ GoneIsGone /\ LegsExist /\ DepartureOK /\ EndedOK /\ HeldOK
    /\ [Next]_vars /\ ~WireLoss
    => HeldOK'
<1> SUFFICES ASSUME Safe, FreshLegs, GoneIsGone, LegsExist, DepartureOK, EndedOK, HeldOK,
                    [Next]_vars, ~WireLoss, Kept', Kept
             PROVE  HeldOK'
  BY KeptBack DEF HeldOK
<1> USE DEF Move, Goto, ladderVars, rung, callerVars, channels, asterisk, control, routerVars
<1>a. legs \subseteq Leg /\ orphans \subseteq Leg /\ wire \in Seq(Event)
  BY DEF Safe, TypeOK
<1>b. pc \notin CleaningUp => ~cancelled
  BY KeptWorks
<1> DEFINE Ends(l) == legState[l] # "none" => legState'[l] = "gone"
           Legs == \A l \in legs : l \in legs' \/ legState'[l] = "gone"
           Orphans == \A l \in orphans : l \in orphans' \/ legState'[l] # "stasis"
           States == \A l \in Leg : /\ legState[l] = "gone" => legState'[l] = "gone"
                                    /\ legState'[l] = "stasis" => legState[l] = "stasis"
           Answers == \A l \in Leg : Answered(l) \in Elems(wire) => Answered(l) \in Elems(wire')
           Queue == Elems(queue') \subseteq Elems(queue)
           Routes == routes' \subseteq routes
<1>1. Legs /\ Orphans /\ States /\ Answers /\ Queue /\ Routes => HeldOK'
  <2> SUFFICES ASSUME Legs, Orphans, States, Answers, Queue, Routes PROVE HeldOK'
    OBVIOUS
  <2>1. \A l \in routes' : l \in legs' \/ legState'[l] = "gone"
    BY DEF HeldOK, Safe, TypeOK
  <2>2. \A e \in Elems(queue') : e.leg \in legs' \/ legState'[e.leg] = "gone"
    BY QueueLegs DEF HeldOK
  <2>3. \A l \in Leg : legState'[l] = "stasis" =>
            l \in legs' \cup orphans' \/ Answered(l) \in Elems(wire')
    BY DEF HeldOK
  <2> QED BY <2>1, <2>2, <2>3 DEF HeldOK
<1>2. ASSUME NEW l \in Leg, EndLeg(l) PROVE States /\ Answers /\ Ends(l) /\ legState'[l] # "stasis"
  BY <1>2, EndLegEffect
<1>3. ASSUME NEW l \in legs, EndLeg(l), legs' = legs \ {l}, UNCHANGED <<orphans, queue, routes>>
      PROVE  HeldOK'
  BY <1>a, <1>1, <1>2, <1>3 DEF LegsExist
<1>4. ASSUME NEW who \in {"far", "doorman"}, EndCaller(who),
             UNCHANGED <<legs, legState, orphans, queue, routes>>
      PROVE  HeldOK'
  BY <1>1, <1>4, EndCallerKeepsWire
<1>5. ASSUME NEW e \in Event, wire' = Append(wire, e),
             UNCHANGED <<legs, legState, orphans, queue, routes>>
      PROVE  HeldOK'
  <2>1. Elems(wire') = Elems(wire) \cup {e}
    BY <1>a, <1>5, ElemsAppend
  <2> QED BY <1>1, <1>5, <2>1
<1>6. ASSUME queue # <<>>, queue' = Tail(queue)
      PROVE  Queue
  BY <1>6, TailQueue
<1>7. ASSUME queue # <<>>, queue' = Tail(queue), Head(queue).kind = "gone",
             legs' = legs \ {Head(queue).leg}, UNCHANGED <<legState, orphans, wire, routes>>
      PROVE  HeldOK'
  <2>1. legState[Head(queue).leg] = "gone"
    BY <1>7, TailQueue DEF GoneIsGone
  <2> QED BY <1>1, <1>6, <1>7, <2>1
<1>8. ASSUME NEW E, Reads(E), \A l \in Leg : Answered(l) \notin E
      PROVE  Answers
  <2>1. Elems(wire) \subseteq {Head(wire)} \cup Elems(wire') /\ Head(wire) \in E
    BY <1>a, <1>8, ElemsHead DEF Reads
  <2> QED BY <1>8, <2>1
<1>9. CASE Asterisk
  <2>1. ASSUME NEW l \in Leg, Answer(l) PROVE HeldOK'
    <3>1. Elems(wire') = Elems(wire) \cup {Answered(l)}
      BY <1>a, <2>1, ElemsAppend, EventFacts DEF Answer
    <3>2. \A k \in Leg : k # l => legState'[k] = legState[k]
      BY <2>1 DEF Answer, Safe, TypeOK
    <3>3. legState[l] = "ringing" /\ legState' = [legState EXCEPT ![l] = "stasis"]
      BY <2>1 DEF Answer
    <3>4. \A k \in routes : k \in legs \/ legState'[k] = "gone"
      BY <3>2, <3>3 DEF HeldOK, Safe, TypeOK
    <3>5. \A e \in Elems(queue) : e.leg \in legs \/ legState'[e.leg] = "gone"
      BY <3>2, <3>3, QueueLegs DEF HeldOK
    <3>6. \A k \in Leg : legState'[k] = "stasis" =>
              k \in legs \cup orphans \/ Answered(k) \in Elems(wire')
      BY <3>1, <3>2 DEF HeldOK
    <3> QED BY <2>1, <3>4, <3>5, <3>6 DEF HeldOK, Answer
  <2>2. ASSUME NEW l \in Leg, HandsetEnds(l) PROVE HeldOK'
    BY <1>1, <1>2, <2>2 DEF HandsetEnds
  <2>3. CASE FarEndHangsUp
    BY <1>4, <2>3 DEF FarEndHangsUp
  <2>4. CASE Transfer
    BY <1>5, <2>4, EventFacts DEF Transfer
  <2> QED BY <1>9, <2>1, <2>2, <2>3, <2>4 DEF Asterisk
<1>10. CASE Route
  <2>1. CASE RouteLeg
    <3>1. Head(wire) \in LegEvent /\ Head(wire).leg \in routes
      <4>1. Head(wire) \in [kind : {"answered", "gone"}, leg : routes] /\ routes \subseteq Leg
        BY <2>1 DEF RouteLeg, Reads, Safe, TypeOK
      <4> QED BY <4>1 DEF LegEvent
    <3>2. Elems(queue') \subseteq Elems(queue) \cup {Head(wire)}
      BY <2>1, <3>1, PostQueue DEF RouteLeg
    <3>3. Elems(wire) \subseteq {Head(wire)} \cup Elems(wire')
      BY <1>a, <2>1, ElemsHead DEF RouteLeg, Reads
    <3>4. Head(wire).leg \in legs \/ legState[Head(wire).leg] = "gone"
      BY <3>1 DEF HeldOK
    <3>5. UNCHANGED <<legs, legState, orphans, routes>>
      BY <2>1 DEF RouteLeg
    <3>6. \A e \in Elems(queue') : e.leg \in legs \/ legState[e.leg] = "gone"
      BY <3>2, <3>4 DEF HeldOK
    <3>7. \A l \in Leg : legState[l] = "stasis" =>
              l \in legs \cup orphans \/ Answered(l) \in Elems(wire')
      BY <3>3, <3>4 DEF HeldOK, Answered
    <3> QED BY <3>5, <3>6, <3>7 DEF HeldOK
  <2>2. CASE RouteOrphan
    <3>1. Elems(wire) \subseteq {Head(wire)} \cup Elems(wire')
      BY <1>a, <2>2, ElemsHead DEF RouteOrphan, Reads
    <3>2. \A l \in Leg : Head(wire) = Answered(l) => l \in orphans'
      BY <2>2 DEF RouteOrphan, Answered
    <3>3. UNCHANGED <<legs, legState, queue, routes>> /\ orphans \subseteq orphans'
      BY <2>2 DEF RouteOrphan
    <3>4. \A l \in Leg : legState[l] = "stasis" =>
              l \in legs \cup orphans' \/ Answered(l) \in Elems(wire')
      BY <3>1, <3>2, <3>3 DEF HeldOK
    <3> QED BY <3>3, <3>4 DEF HeldOK
  <2>3. CASE RouteCallerLeft \/ RouteCallerGone
    <3>1. \A l \in Leg : Answered(l) \notin {Left} /\ Answered(l) \notin {Destroyed}
      BY DEF Answered, Left, Destroyed
    <3> QED BY <1>1, <1>8, <2>3, <3>1 DEF RouteCallerLeft, RouteCallerGone
  <2>4. CASE CallerLeftCancels
    BY <1>1, <2>4 DEF CallerLeftCancels
  <2> QED BY <1>10, <2>1, <2>2, <2>3, <2>4 DEF Route
<1>11. ASSUME NEW l \in Leg, HangupOrphan(l) PROVE HeldOK'
  BY <1>1, <1>2, <1>11 DEF HangupOrphan
<1>12. CASE RunPlan
  BY <1>1, <1>12 DEF RunPlan, CreateBridge, CreateBridgeFails, BridgeReply, JoinCaller,
                     NextStage, BeginStage
<1>13. CASE RingStep
  <2>1. ASSUME NEW h \in Handset, SkipHandset(h) PROVE HeldOK'
    BY <1>1, <2>1 DEF SkipHandset
  <2>2. ASSUME NEW h \in Handset, Originate(h) PROVE HeldOK'
    <3>1. legState[<<stage, h>>] = "none"
      BY <2>2, FreshDial
    <3> QED BY <1>1, <2>2, <3>1 DEF Originate, Safe, TypeOK
  <2>3. ASSUME NEW l \in Leg, HangupLegs(l) PROVE HeldOK'
    BY <1>b, <1>3, <2>3 DEF HangupLegs, HangupLeg, CleaningUp
  <2>4. CASE OriginateReply
    <3>1. \/ /\ legs' = legs \cup {pending} /\ routes' = routes \cup {pending}
             /\ UNCHANGED <<legState, orphans, wire, queue>>
          \/ UNCHANGED <<legs, routes, legState, orphans, wire, queue>>
      BY <2>4 DEF OriginateReply
    <3> QED BY <3>1 DEF HeldOK
  <2>5. CASE RingAnswered
    BY <1>1, <1>6, <2>5 DEF RingAnswered, Takes
  <2>6. CASE RingLegGone
    BY <1>7, <2>6 DEF RingLegGone, Takes
  <2>7. CASE AllDialled \/ RingTimeout \/ RingAbandoned \/ StageHungUp
    BY <1>1, <2>7 DEF AllDialled, RingTimeout, RingAbandoned, StageHungUp
  <2> QED BY <1>13, <2>1, <2>2, <2>3, <2>4, <2>5, <2>6, <2>7 DEF RingStep
<1>14. CASE Ending
  <2>1. CASE DismissHangup
    BY <1>1, <1>4, <2>1 DEF DismissHangup
  <2>2. CASE Continue
    BY <1>5, <2>2, EventFacts DEF Continue
  <2>3. CASE GoodbyeDiscards
    BY <1>1, <1>6, <2>3 DEF GoodbyeDiscards
  <2>4. CASE \/ Fallback \/ VoicemailBridge \/ ContinueRefused \/ ContinueReply
             \/ ContinueFailed \/ Dismiss \/ DismissLegsHungUp \/ GoodbyeEnds
    BY <1>1, <2>4 DEF Fallback, VoicemailBridge, ContinueRefused, ContinueReply,
                      ContinueFailed, Dismiss, DismissLegsHungUp, GoodbyeEnds
  <2> QED BY <1>14, <2>1, <2>2, <2>3, <2>4 DEF Ending
<1>15. CASE Bridged
  <2>1. CASE BridgeWinner
    BY <1>1, <2>1 DEF BridgeWinner, Safe, TypeOK, DiallingOK
  <2>2. ASSUME NEW l \in Leg, HangupSibling(l) PROVE HeldOK'
    BY <1>b, <1>3, <2>2 DEF HangupSibling, HangupLeg, CleaningUp
  <2>3. CASE TalkLateAnswer
    <3>1. Head(queue).leg \in Leg /\ Queue
      BY <1>6, <2>3, HeadIsLegEvent DEF TalkLateAnswer, Takes, LegEvent
    <3> QED BY <1>1, <1>2, <2>3, <3>1 DEF TalkLateAnswer, HangupLeg
  <2>4. CASE TalkLegGone
    BY <1>1, <1>6, <1>7, <2>4 DEF TalkLegGone, Takes
  <2>5. CASE SiblingsHungUp \/ TalkCancelled
    BY <1>1, <2>5 DEF SiblingsHungUp, TalkCancelled
  <2> QED BY <1>15, <2>1, <2>2, <2>3, <2>4, <2>5 DEF Bridged
<1>16. CASE Cleanup
  <2>1. ASSUME NEW l \in Leg, CleanupLeg(l) PROVE HeldOK'
    BY <1>3, <2>1 DEF CleanupLeg
  <2>2. CASE CleanupCaller
    BY <1>1, <1>4, <2>2 DEF CleanupCaller
  <2>3. CASE CleanupBegins \/ CleanupBridge \/ PostRecord \/ Finish
    BY <1>1, <2>3 DEF CleanupBegins, CleanupBridge, PostRecord, Finish
  <2> QED BY <1>16, <2>1, <2>2, <2>3 DEF Cleanup
<1>17. CASE Over \/ UNCHANGED vars
  BY <1>1, <1>17 DEF Over, vars
<1> QED BY <1>9, <1>10, <1>11, <1>12, <1>13, <1>14, <1>15, <1>16, <1>17
        DEF Next, Session, LoseEvent

\* A leg picked up is attended as the property says: by sets of events or by
\* their places is the same.
LEMMA AnnouncedIsAttended ==
    ASSUME Safe, NEW l \in Leg, l \in legs \cup orphans \/ Answered(l) \in Elems(wire)
    PROVE  Attended(l)
<1>1. CASE l \in legs \cup orphans
  BY <1>1 DEF Attended
<1>2. CASE Answered(l) \in Elems(wire)
  <2>1. PICK i \in 1 .. Len(wire) : wire[i] = Answered(l)
    BY <1>2 DEF Elems
  <2> QED BY <2>1 DEF Attended
<1> QED BY <1>1, <1>2

\* As long as no event is lost on the socket, whoever picks up on a call that
\* doorman ends, or that is not over, is dealt with: put through, hung up, or
\* about to be, although replies are lost and the queue drops what finds it
\* full (ringStep, hangupLegs, and the router's orphans).
THEOREM NobodyHoldsADeadPhone ==
    ASSUME ~WireLoss
    PROVE  Spec => []NobodyLeftHolding
<1> DEFINE I == /\ Safe /\ FreshLegs /\ GoneIsGone /\ LegsExist
                /\ DepartureOK /\ EndedOK /\ HeldOK
<1>1. Init => I
  <2>1. Init => LegsExist /\ EndedOK /\ HeldOK
    BY DEF Init, LegsExist, EndedOK, HeldOK, Elems
  <2> QED BY <2>1, InvInit DEF Inv
<1>2. I /\ [Next]_vars => I'
  BY SafeNext, FreshNext, GoneNext, ExistNext, DepartureNext, EndedNext, HeldNext
<1>3. I => NobodyLeftHolding
  <2> SUFFICES ASSUME I, Kept, NEW l \in Leg, legState[l] = "stasis" PROVE Attended(l)
    BY DEF NobodyLeftHolding, Kept
  <2> QED BY AnnouncedIsAttended DEF HeldOK
<1> QED BY <1>1, <1>2, <1>3, PTL DEF Spec
=============================================================================
