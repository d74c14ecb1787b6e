--------------------------- MODULE LobbyDoorProofs ---------------------------
(* Theorems about LobbyDoor, for every line, its menus and its callers. *)
EXTENDS LobbyDoor, FiniteSetTheorems, TLAPS

(***************************************************************************)
(* What is true of each call, in named parts.                              *)
(***************************************************************************)

Outcome == {"abandoned", "dismissed", "house", "extension", "voicemail", "listening"}
Place == {"free", "door", "welcome", "greeting", "collect", "invalid", "over"}
            \cup Walking \cup Challenged
Tries == 0 .. MaxPinAttempts + 1
Plays == 0 .. MenuMaxPlays
Silences == 0 .. Repeat + 1
Repeats == 0 .. MaxRepeats
Guard == {"none", "noInput", "choice"}
Verdict == {"none", "passed", "failed", "no-answer", "rate-limited"}
KeyOrNone == Key \cup {""}
ChoiceOrNone == Choice \cup {NoChoice}
Menus == DOMAIN Choices

CallType == [
    pc : Place, number : Number, known : BOOLEAN, gone : BOOLEAN, waited : BOOLEAN,
    digits : Nat, attempts : Tries, menu : Menus, plays : Plays, silent : Silences,
    late : BOOLEAN, key : KeyOrNone, passed : BOOLEAN, tries : Tries, repeats : Repeats,
    guard : Guard, choice : ChoiceOrNone, challenge : Verdict, outcome : Outcome]

Collecting == {"greeting", "welcome", "collect", "invalid"}

\* The counters stay below their limits where another is still to be counted.
CountsOK(r) ==
    /\ r.pc \in {"door", "greeting", "welcome"} => r.attempts = 0
    /\ r.pc \in Collecting => r.attempts <= MaxPinAttempts
    /\ r.pc \in Challenged => r.tries <= MaxPinAttempts
    /\ r.pc \in Walking \/ (r.pc \in Challenged /\ r.guard = "choice") => r.silent <= Repeat

\* A pass is a caller's who was admitted at the door or solved a sum, and only
\* one without a pass is ever asked.
PassOK(r) ==
    /\ r.pc = "door" => ~r.known
    /\ r.pc = "welcome" => r.known
    /\ r.passed => r.known \/ r.challenge = "passed"
    /\ r.pc = "solved" => r.challenge = "passed"
    /\ r.pc \in Challenged => ~r.passed /\ ~r.known
    /\ r.known /\ r.pc \in Walking => r.passed

\* A guarded choice is taken only with a pass.
ChoiceOK(r) ==
    /\ r.pc \in Challenged => r.guard # "none"
    /\ r.pc \in Challenged /\ r.guard = "choice" => r.key \in DOMAIN Choices[r.menu]
    /\ r.pc = "choice" =>
          /\ r.key \in DOMAIN Choices[r.menu]
          /\ Choices[r.menu][r.key].challenge => r.passed
    /\ r.choice # NoChoice => (r.choice.challenge => r.passed)
    /\ r.pc \in {"recording", "listen"} => r.choice # NoChoice
    /\ r.pc \in {"door", "welcome"} => r.choice = NoChoice

\* A call has no outcome before it is over, and then the one its way led to.
OutcomeOK(r) ==
    /\ r.pc # "over" => r.outcome = "abandoned"
    /\ ChallengeNoInput /\ ~r.known /\ r.challenge # "passed" =>
          /\ r.outcome # "house"
          /\ r.outcome = "voicemail" =>
                r.choice # NoChoice /\ r.choice.kind \in {"extension", "voicemail"}
    /\ r.pc = "over" /\ r.known /\ ~r.gone /\ r.choice = NoChoice => r.outcome = "house"

CallOK(r) == r \in CallType /\ CountsOK(r) /\ PassOK(r) /\ ChoiceOK(r) /\ OutcomeOK(r)

\* The guesses a call may still make before it ends or is asked about the
\* budget again.
Guesses(n) ==
    {g \in Call \X (1 .. MaxPinAttempts + 1) :
        call[g[1]].number = n /\ call[g[1]].pc \in Collecting /\ call[g[1]].attempts < g[2]}
Answers(n) ==
    {g \in Call \X (1 .. MaxPinAttempts + 1) :
        call[g[1]].number = n /\ call[g[1]].pc \in Challenged \ {"challenge", "solved"}
        /\ call[g[1]].tries < g[2]}

Most == MaxFailures - 1 + Cardinality(Call) * (MaxPinAttempts + 1)

\* One number's budget for PINs, and for sums.
PinBudget(n) == Cardinality(Recent(pinFails[n])) + Cardinality(Guesses(n)) <= Most
SumBudget(n) == Cardinality(Recent(sumFails[n])) + Cardinality(Answers(n)) <= Most
BudgetOK == \A n \in Number : PinBudget(n) /\ SumBudget(n)

CallsOK == call \in [Call -> CallType] /\ \A c \in Call : CallOK(call[c])

-----------------------------------------------------------------------------
(* What the session's functions do to a call. *)

\* What a call may carry from one place of the program to the next.
Carries(r) ==
    /\ r \in CallType /\ r.outcome = "abandoned"
    /\ r.passed => r.known \/ r.challenge = "passed"
    /\ r.choice # NoChoice => (r.choice.challenge => r.passed)

LEMMA ConstantFacts ==
    /\ MaxPinAttempts \in Nat /\ MaxRepeats \in Nat /\ Repeat \in Nat
    /\ MenuMaxPlays \in Nat /\ AnswerDigits \in Nat /\ Horizon \in Nat
    /\ MaxFailures \in Nat \ {0} /\ Window \in Nat /\ IsFiniteSet(Call) /\ FrontMenu \in DOMAIN Choices
    /\ OnNoInput \in {"dismiss", "ring-house", "voicemail"}
    /\ ChallengeNoInput \in BOOLEAN
    /\ ChallengeNoInput => OnNoInput # "dismiss"
    /\ NoChoice \notin Choice
BY DoorAssumption DEF MaxRepeats

\* The places and verdicts a step names are places and verdicts.
LEMMA SetFacts ==
    /\ Walking \cup Challenged \subseteq Place
    /\ {"free", "door", "welcome", "greeting", "collect", "invalid", "over"} \subseteq Place
    /\ {"none", "passed", "failed", "no-answer", "rate-limited"} \subseteq Verdict
    /\ {"none", "noInput", "choice"} \subseteq Guard
    /\ FrontMenu \in Menus
    /\ 0 \in Tries /\ 0 \in Plays /\ 0 \in Silences /\ 0 \in Repeats
    /\ \A n \in Tries : n <= MaxPinAttempts => n + 1 \in Tries
    /\ \A n \in Plays : n < MenuMaxPlays => n + 1 \in Plays
    /\ \A n \in Silences : n <= Repeat => n + 1 \in Silences
    /\ \A n \in Repeats : n < MaxRepeats => n + 1 \in Repeats
    /\ Tries \subseteq Nat /\ Plays \subseteq Nat /\ Silences \subseteq Nat /\ Repeats \subseteq Nat
    /\ "" \in KeyOrNone /\ Key \subseteq KeyOrNone
    /\ NoChoice \in ChoiceOrNone /\ Choice \subseteq ChoiceOrNone
<1>1. /\ Walking \cup Challenged \subseteq Place
      /\ {"free", "door", "welcome", "greeting", "collect", "invalid", "over"} \subseteq Place
  BY DEF Place
<1>2. /\ {"none", "passed", "failed", "no-answer", "rate-limited"} \subseteq Verdict
      /\ {"none", "noInput", "choice"} \subseteq Guard
  BY DEF Verdict, Guard
<1>3. /\ FrontMenu \in Menus
      /\ "" \in KeyOrNone /\ Key \subseteq KeyOrNone
      /\ NoChoice \in ChoiceOrNone /\ Choice \subseteq ChoiceOrNone
  BY ConstantFacts DEF Menus, KeyOrNone, ChoiceOrNone
<1>4. /\ 0 \in Tries /\ Tries \subseteq Nat
      /\ \A n \in Tries : n <= MaxPinAttempts => n + 1 \in Tries
  BY ConstantFacts DEF Tries
<1>5. /\ 0 \in Plays /\ Plays \subseteq Nat
      /\ \A n \in Plays : n < MenuMaxPlays => n + 1 \in Plays
  BY ConstantFacts DEF Plays
<1>6. /\ 0 \in Silences /\ Silences \subseteq Nat
      /\ \A n \in Silences : n <= Repeat => n + 1 \in Silences
  BY ConstantFacts DEF Silences
<1>7. /\ 0 \in Repeats /\ Repeats \subseteq Nat
      /\ \A n \in Repeats : n < MaxRepeats => n + 1 \in Repeats
  BY ConstantFacts DEF Repeats
<1> QED BY <1>1, <1>2, <1>3, <1>4, <1>5, <1>6, <1>7

LEMMA SettleOK ==
    ASSUME NEW r, Carries(r), NEW o \in Outcome,
           r.known /\ ~r.gone /\ r.choice = NoChoice => o = "house",
           ChallengeNoInput /\ ~r.known /\ r.challenge # "passed" =>
              /\ o # "house"
              /\ o = "voicemail" =>
                    r.choice # NoChoice /\ r.choice.kind \in {"extension", "voicemail"}
    PROVE  CallOK(Settle(r, o))
<1> DEFINE t == Settle(r, o)
<1>1. t \in CallType
  BY SetFacts DEF Settle, Carries, CallType
<1>2. /\ t.pc = "over" /\ t.known = r.known /\ t.gone = r.gone /\ t.choice = r.choice
      /\ t.passed = r.passed /\ t.challenge = r.challenge
      /\ t.outcome = IF r.gone /\ o # "voicemail" THEN "abandoned" ELSE o
  BY DEF Settle, Carries, CallType
<1> HIDE DEF t
<1>3. CountsOK(t)
  BY <1>2 DEF CountsOK, Collecting, Walking, Challenged
<1>4. PassOK(t)
  BY <1>2 DEF PassOK, Carries, Walking, Challenged
<1>5. ChoiceOK(t)
  BY <1>2 DEF ChoiceOK, Carries, Challenged
<1>6. OutcomeOK(t)
  BY <1>2 DEF OutcomeOK
<1> QED BY <1>1, <1>3, <1>4, <1>5, <1>6 DEF CallOK, t

LEMMA UnguardedOK ==
    ASSUME NEW r, Carries(r), ~r.known, ChallengeNoInput => r.challenge = "passed"
    PROVE  CallOK(Unguarded(r))
BY ConstantFacts, SettleOK DEF Unguarded, Outcome

LEMMA ChallengeOK ==
    ASSUME NEW r, Carries(r), ~r.known, ~r.passed, NEW guard \in {"noInput", "choice"},
           guard = "choice" => r.silent <= Repeat /\ r.key \in DOMAIN Choices[r.menu]
    PROVE  CallOK(Challenge(r, guard))
<1> DEFINE t == Challenge(r, guard)
<1>1. t \in CallType
  <2>1. "challenge" \in Place /\ guard \in Guard /\ 0 \in Tries
    BY SetFacts DEF Challenged
  <2> QED BY <2>1 DEF Challenge, At, Carries, CallType
<1>2. /\ t.pc = "challenge" /\ t.known = r.known /\ t.gone = r.gone /\ t.choice = r.choice
      /\ t.passed = r.passed /\ t.challenge = r.challenge /\ t.outcome = r.outcome
      /\ t.tries = 0 /\ t.guard = guard /\ t.key = r.key /\ t.menu = r.menu
      /\ t.silent = r.silent
  BY DEF Challenge, At, Carries, CallType
<1> HIDE DEF t
<1>3. CountsOK(t)
  BY <1>2, ConstantFacts DEF CountsOK, Collecting, Walking
<1>4. PassOK(t)
  BY <1>2 DEF PassOK, Walking
<1>5. ChoiceOK(t)
  BY <1>2 DEF ChoiceOK, Carries
<1>6. OutcomeOK(t)
  BY <1>2 DEF OutcomeOK, Carries
<1> QED BY <1>1, <1>3, <1>4, <1>5, <1>6 DEF CallOK, t

LEMMA DispositionOK ==
    ASSUME NEW r, Carries(r)
    PROVE  CallOK(Disposition(r))
<1>1. CASE r.known
  BY <1>1, SettleOK DEF Disposition, Outcome
<1>2. CASE ~r.known /\ ChallengeNoInput /\ ~r.passed
  BY <1>2, ChallengeOK DEF Disposition
<1>3. CASE ~r.known /\ ~(ChallengeNoInput /\ ~r.passed)
  BY <1>3, UnguardedOK DEF Disposition, Carries
<1> QED BY <1>1, <1>2, <1>3

LEMMA OfferOK ==
    ASSUME NEW r, Carries(r), r.silent <= Repeat, r.known => r.passed, NEW key \in KeyOrNone
    PROVE  CallOK(Offer(r, key))
<1> DEFINE pc == IF key \in {"", "#"} THEN "menuPlay" ELSE "menuKey"
           t == [At(r, pc) EXCEPT !.plays = @ + 1, !.key = key]
<1>1. CASE r.gone
  BY <1>1, SettleOK DEF Offer, Outcome
<1>2. CASE ~r.gone /\ (r.plays >= MenuMaxPlays \/ r.late)
  BY <1>2, DispositionOK DEF Offer
<1>3. CASE ~r.gone /\ ~(r.plays >= MenuMaxPlays \/ r.late)
  <2>1. Offer(r, key) = t
    BY <1>3 DEF Offer
  <2>2. pc \in {"menuPlay", "menuKey"}
    OBVIOUS
  <2> HIDE DEF pc
  <2>3. t \in CallType
    <3>1. r.plays \in Plays /\ r.plays < MenuMaxPlays
      <4>1. r.plays \in Plays
        BY DEF Carries, CallType
      <4>2. r.plays \in Nat /\ MenuMaxPlays \in Nat
        BY <4>1, SetFacts, ConstantFacts
      <4>3. ~(r.plays >= MenuMaxPlays)
        BY <1>3
      <4> QED BY <4>1, <4>2, <4>3
    <3>2. pc \in Place /\ r.plays + 1 \in Plays
      BY <2>2, <3>1, SetFacts DEF Walking
    <3> QED BY <3>2 DEF At, Carries, CallType
  <2>4. /\ t.pc = pc /\ t.known = r.known /\ t.choice = r.choice
        /\ t.passed = r.passed /\ t.challenge = r.challenge /\ t.outcome = r.outcome
        /\ t.silent = r.silent
    BY DEF At, Carries, CallType
  <2> HIDE DEF t
  <2>5. CountsOK(t)
    BY <2>2, <2>4 DEF CountsOK, Collecting, Walking, Challenged
  <2>6. PassOK(t)
    BY <2>2, <2>4 DEF PassOK, Carries, Challenged
  <2>7. ChoiceOK(t)
    BY <2>2, <2>4 DEF ChoiceOK, Carries, Challenged
  <2>8. OutcomeOK(t)
    BY <2>2, <2>4 DEF OutcomeOK, Carries
  <2> QED BY <2>1, <2>3, <2>5, <2>6, <2>7, <2>8 DEF CallOK
<1> QED BY <1>1, <1>2, <1>3

LEMMA WalkMenuOK ==
    ASSUME NEW r, Carries(r), NEW key \in KeyOrNone, NEW passed \in BOOLEAN,
           passed = r.known, r.choice = NoChoice
    PROVE  CallOK(WalkMenu(r, key, passed))
<1> DEFINE t == [r EXCEPT !.menu = FrontMenu, !.passed = passed, !.plays = 0,
                          !.silent = 0, !.late = FALSE]
<1>1. t \in CallType
  <2>1. FrontMenu \in Menus /\ 0 \in Plays /\ 0 \in Silences
    BY SetFacts
  <2> QED BY <2>1 DEF Carries, CallType
<1>2. /\ t.known = r.known /\ t.choice = r.choice /\ t.passed = passed
      /\ t.challenge = r.challenge /\ t.outcome = r.outcome /\ t.silent = 0
  BY DEF Carries, CallType
<1> HIDE DEF t
<1>3. Carries(t) /\ t.silent <= Repeat /\ (t.known => t.passed)
  BY <1>1, <1>2, ConstantFacts DEF Carries
<1>4. WalkMenu(r, key, passed) = Offer(t, key)
  BY DEF WalkMenu, t
<1> QED BY <1>3, <1>4, OfferOK

-----------------------------------------------------------------------------
(* Every step leaves every call in order. *)

LimitsOK ==
    /\ pinFails \in [Number -> SUBSET (Nat \X Nat)]
    /\ sumFails \in [Number -> SUBSET (Nat \X Nat)]
    /\ \A n \in Number : IsFiniteSet(pinFails[n]) /\ IsFiniteSet(sumFails[n])
    /\ now \in 0 .. Horizon

\* It is enough to look at the call that moves.
LEMMA OneMoves ==
    ASSUME CallsOK, NEW c \in Call, NEW r, CallOK(r), call' = [call EXCEPT ![c] = r]
    PROVE  CallsOK'
<1>1. call \in [Call -> CallType] /\ r \in CallType
  BY DEF CallsOK, CallOK
<1>2. call' \in [Call -> CallType]
  BY <1>1
<1>3. ASSUME NEW d \in Call PROVE CallOK(call'[d])
  <2>1. CASE d = c
    BY <1>1, <2>1
  <2>2. CASE d # c
    BY <1>1, <2>2 DEF CallsOK
  <2> QED BY <2>1, <2>2
<1> QED BY <1>2, <1>3 DEF CallsOK, CallOK, CountsOK, PassOK, ChoiceOK, OutcomeOK

\* What the session's functions do, they do to the same call.
Same(r, t) == t.gone = r.gone /\ t.number = r.number

LEMMA SameSettle ==
    ASSUME NEW r \in CallType, NEW o \in Outcome
    PROVE  Same(r, Settle(r, o))
BY DEF Settle, CallType, Same

LEMMA SameAt ==
    ASSUME NEW r \in CallType, NEW pc \in Place
    PROVE  Same(r, At(r, pc))
BY DEF At, CallType, Same

LEMMA SameDisposition ==
    ASSUME NEW r \in CallType
    PROVE  Same(r, Unguarded(r)) /\ Same(r, Disposition(r))
<1>1. Same(r, Unguarded(r))
  BY ConstantFacts, SameSettle DEF Unguarded, Outcome
<1>2. Same(r, Challenge(r, "noInput"))
  BY DEF Challenge, At, CallType, Same
<1>3. Same(r, Settle(r, "house"))
  BY SameSettle DEF Outcome
<1> QED BY <1>1, <1>2, <1>3 DEF Disposition

LEMMA SameOffer ==
    ASSUME NEW r \in CallType, NEW key \in KeyOrNone
    PROVE  Same(r, Offer(r, key))
<1> DEFINE pc == IF key \in {"", "#"} THEN "menuPlay" ELSE "menuKey"
<1>1. Same(r, [At(r, pc) EXCEPT !.plays = @ + 1, !.key = key])
  BY DEF At, CallType, Same
<1>2. Same(r, Settle(r, "abandoned"))
  BY SameSettle DEF Outcome
<1> QED BY <1>1, <1>2, SameDisposition DEF Offer

LEMMA SameWalk ==
    ASSUME NEW r \in CallType, NEW key \in KeyOrNone, NEW passed \in BOOLEAN
    PROVE  Same(r, WalkMenu(r, key, passed))
<1> DEFINE t == [r EXCEPT !.menu = FrontMenu, !.passed = passed, !.plays = 0,
                          !.silent = 0, !.late = FALSE]
<1>1. t \in CallType /\ Same(r, t)
  <2>1. FrontMenu \in Menus /\ 0 \in Plays /\ 0 \in Silences
    BY SetFacts
  <2> QED BY <2>1 DEF CallType, Same
<1>2. WalkMenu(r, key, passed) = Offer(t, key)
  BY DEF WalkMenu
<1> HIDE DEF t
<1> QED BY <1>1, <1>2, SameOffer DEF Same

\* A call that has lost its caller just ends.
LEMMA ContinuesOK ==
    ASSUME CallsOK, NEW c \in Call, NEW r, Continues(c, r),
           CallOK(r), r.gone = call[c].gone
    PROVE  CallsOK'
<1> DEFINE t == At(r, "over")
<1>1. CASE call[c].gone
  <2>1. "over" \in Place /\ r \in CallType
    BY SetFacts DEF CallOK
  <2>2. /\ t \in CallType /\ t.pc = "over" /\ t.known = r.known /\ t.gone
        /\ t.choice = r.choice /\ t.passed = r.passed
        /\ t.challenge = r.challenge /\ t.outcome = r.outcome
    BY <1>1, <2>1 DEF At, CallType
  <2> HIDE DEF t
  <2>3. CallOK(t)
    <3>1. CountsOK(t) /\ PassOK(t)
      BY <2>1, <2>2 DEF CallOK, CountsOK, PassOK, Collecting, Walking, Challenged
    <3>2. ChoiceOK(t)
      BY <2>1, <2>2 DEF CallOK, ChoiceOK, Challenged
    <3>3. OutcomeOK(t)
      BY <2>1, <2>2 DEF CallOK, OutcomeOK
    <3> QED BY <2>2, <3>1, <3>2, <3>3 DEF CallOK
  <2>4. call' = [call EXCEPT ![c] = t]
    BY <1>1 DEF Continues, Becomes, t
  <2> QED BY <2>3, <2>4, OneMoves
<1>2. CASE ~call[c].gone
  BY <1>2, OneMoves DEF Continues, Becomes
<1> QED BY <1>1, <1>2

\* A call under way that is asked nothing carries what the next place needs.
LEMMA UnderWay ==
    ASSUME NEW r, CallOK(r), r.pc # "over"
    PROVE  Carries(r)
BY DEF CallOK, Carries, PassOK, ChoiceOK, OutcomeOK

LEMMA GoesOn ==
    ASSUME NEW r, CallOK(r), r.pc # "over", NEW t \in CallType, t.pc # "over",
           t.known = r.known, t.choice = r.choice, t.passed = r.passed,
           t.challenge = r.challenge, t.outcome = r.outcome,
           CountsOK(t), PassOK(t), ChoiceOK(t)
    PROVE  CallOK(t)
BY UnderWay DEF CallOK, OutcomeOK, Carries

\* Moving on to another place and keeping everything else.
LEMMA AtOK ==
    ASSUME NEW r, CallOK(r), r.pc # "over", NEW pc \in Place \ {"over"},
           CountsOK(At(r, pc)), PassOK(At(r, pc)), ChoiceOK(At(r, pc))
    PROVE  CallOK(At(r, pc))
<1> DEFINE t == At(r, pc)
<1>1. r \in CallType
  BY DEF CallOK
<1>2. /\ t \in CallType /\ t.pc = pc
      /\ t.known = r.known /\ t.choice = r.choice /\ t.passed = r.passed
      /\ t.challenge = r.challenge /\ t.outcome = r.outcome
  BY <1>1 DEF At, CallType
<1> HIDE DEF t
<1>3. CountsOK(t) /\ PassOK(t) /\ ChoiceOK(t)
  BY DEF t
<1>4. CallOK(t)
  BY <1>2, <1>3, GoesOn
<1> QED BY <1>4 DEF t

\* The fields a move leaves alone.
LEMMA AtFields ==
    ASSUME NEW r, CallOK(r), NEW pc \in Place
    PROVE  LET t == At(r, pc)
           IN  /\ t.pc = pc /\ t.number = r.number /\ t.known = r.known /\ t.gone = r.gone
               /\ t.digits = r.digits /\ t.attempts = r.attempts /\ t.menu = r.menu
               /\ t.silent = r.silent /\ t.key = r.key /\ t.passed = r.passed
               /\ t.tries = r.tries /\ t.guard = r.guard /\ t.choice = r.choice
               /\ t.challenge = r.challenge /\ t.outcome = r.outcome
BY DEF At, CallOK, CallType

LEMMA FreshOK ==
    ASSUME NEW n \in Number
    PROVE  CallOK(Fresh(n)) /\ CallOK([Fresh(n) EXCEPT !.pc = "free"])
<1>1. /\ "" \in KeyOrNone /\ 0 \in Tries /\ 0 \in Plays /\ 0 \in Silences /\ 0 \in Repeats
      /\ NoChoice \in ChoiceOrNone /\ FrontMenu \in Menus /\ "door" \in Place /\ "free" \in Place
      /\ "none" \in Guard /\ "none" \in Verdict /\ "abandoned" \in Outcome
  BY SetFacts DEF Outcome
<1>2. ASSUME NEW t \in CallType, t.pc \in {"door", "free"}, ~t.known, ~t.passed,
             t.attempts = 0, t.choice = NoChoice, t.outcome = "abandoned", t.challenge = "none"
      PROVE  CallOK(t)
  <2>1. CountsOK(t) /\ PassOK(t)
    BY <1>2, ConstantFacts DEF CountsOK, PassOK, Collecting, Walking, Challenged
  <2>2. ChoiceOK(t) /\ OutcomeOK(t)
    BY <1>2 DEF ChoiceOK, OutcomeOK, Challenged
  <2> QED BY <2>1, <2>2 DEF CallOK
<1>3. CallOK(Fresh(n))
  <2> DEFINE t == Fresh(n)
  <2>1. /\ t \in CallType /\ t.pc = "door" /\ ~t.known /\ ~t.passed /\ t.attempts = 0
        /\ t.choice = NoChoice /\ t.outcome = "abandoned" /\ t.challenge = "none"
    BY <1>1 DEF Fresh, CallType
  <2> HIDE DEF t
  <2>2. CallOK(t)
    BY <1>2, <2>1
  <2> QED BY <2>2 DEF t
<1>4. CallOK([Fresh(n) EXCEPT !.pc = "free"])
  <2> DEFINE t == [Fresh(n) EXCEPT !.pc = "free"]
  <2>1. /\ t \in CallType /\ t.pc = "free" /\ ~t.known /\ ~t.passed /\ t.attempts = 0
        /\ t.choice = NoChoice /\ t.outcome = "abandoned" /\ t.challenge = "none"
    BY <1>1 DEF Fresh, CallType
  <2> HIDE DEF t
  <2>2. CallOK(t)
    BY <1>2, <2>1
  <2> QED BY <2>2 DEF t
<1> QED BY <1>3, <1>4

LEMMA CollectOK ==
    ASSUME NEW r, CallOK(r), r.pc \in {"greeting", "welcome"}
    PROVE  CallOK(Collect(r))
<1> DEFINE t == Collect(r)
<1>1. r \in CallType /\ "collect" \in Place /\ 0 \in Tries
  BY SetFacts DEF CallOK
<1>2. /\ t \in CallType /\ t.pc = "collect" /\ t.attempts = 0
      /\ t.known = r.known /\ t.choice = r.choice /\ t.passed = r.passed
      /\ t.challenge = r.challenge /\ t.outcome = r.outcome
  BY <1>1 DEF Collect, At, CallType
<1> HIDE DEF t
<1>3. CountsOK(t) /\ PassOK(t) /\ ChoiceOK(t)
  BY <1>2, ConstantFacts
     DEF CallOK, CountsOK, PassOK, ChoiceOK, Collecting, Walking, Challenged
<1>4. CallOK(t)
  BY <1>2, <1>3, GoesOn
<1> QED BY <1>4 DEF t

\* The greeting, and the line's places.
LEMMA ArrivalOK ==
    ASSUME CallsOK, NEW c \in Call,
           \/ Arrive(c) \/ HangUp(c) \/ Finish(c) \/ DismissBlocked(c) \/ Welcome(c)
           \/ Greet(c) \/ GreetingEnds(c)
    PROVE  CallsOK'
<1>a. call \in [Call -> CallType] /\ CallOK(call[c]) /\ call[c] \in CallType
  BY DEF CallsOK
<1>b. call[c].pc # "over" => Carries(call[c])
  BY <1>a, UnderWay
<1>1. CASE Arrive(c)
  BY <1>a, <1>1, FreshOK, OneMoves DEF Arrive, Becomes
<1>2. CASE HangUp(c)
  <2> DEFINE t == [call[c] EXCEPT !.gone = TRUE]
  <2>1. /\ t \in CallType /\ t.pc = call[c].pc /\ t.pc # "over"
        /\ t.known = call[c].known /\ t.choice = call[c].choice /\ t.passed = call[c].passed
        /\ t.challenge = call[c].challenge /\ t.outcome = call[c].outcome
        /\ t.attempts = call[c].attempts /\ t.tries = call[c].tries
        /\ t.silent = call[c].silent /\ t.guard = call[c].guard
        /\ t.key = call[c].key /\ t.menu = call[c].menu
    BY <1>a, <1>2 DEF HangUp, CallType
  <2> HIDE DEF t
  <2>2. CountsOK(t) /\ PassOK(t) /\ ChoiceOK(t)
    BY <1>a, <2>1 DEF CallOK, CountsOK, PassOK, ChoiceOK
  <2>3. CallOK(t)
    BY <1>a, <2>1, <2>2, GoesOn
  <2> QED BY <1>a, <1>2, <2>3, OneMoves DEF HangUp, Becomes, t
<1>3. CASE Finish(c)
  <2>1. call[c].number \in Number
    BY <1>a DEF CallType
  <2>2. CallOK(Free)
    BY <2>1, FreshOK DEF Free
  <2> QED BY <1>a, <1>3, <2>2, OneMoves DEF Finish, Becomes
<1>4. CASE DismissBlocked(c)
  <2>1. ~call[c].known /\ call[c].pc = "door"
    BY <1>a, <1>4 DEF DismissBlocked, CallOK, PassOK
  <2>2. CallOK(Settle(call[c], "dismissed"))
    BY <1>b, <2>1, SettleOK DEF Outcome
  <2> QED BY <1>a, <1>4, <2>2, OneMoves DEF DismissBlocked, Becomes
<1>5. CASE Welcome(c)
  <2> DEFINE t == [At(call[c], "welcome") EXCEPT !.known = TRUE]
  <2>1. call[c].pc = "door" /\ call[c].attempts = 0 /\ call[c].choice = NoChoice
        /\ call[c].outcome = "abandoned"
    BY <1>a, <1>5 DEF Welcome, CallOK, CountsOK, ChoiceOK, OutcomeOK
  <2>2. t \in CallType
    <3>1. "welcome" \in Place
      BY SetFacts
    <3> QED BY <1>a, <3>1 DEF At, CallType
  <2>3. /\ t.pc = "welcome" /\ t.known /\ t.attempts = 0 /\ t.choice = NoChoice
        /\ t.outcome = "abandoned"
    BY <1>a, <2>1 DEF At, CallType
  <2>4. call' = [call EXCEPT ![c] = t]
    BY <1>a, <1>5 DEF Welcome
  <2> HIDE DEF t
  <2>5. CountsOK(t) /\ PassOK(t)
    BY <2>3, ConstantFacts DEF CountsOK, PassOK, Collecting, Walking, Challenged
  <2>6. ChoiceOK(t) /\ OutcomeOK(t)
    BY <2>3 DEF ChoiceOK, OutcomeOK, Challenged
  <2> QED BY <1>a, <2>2, <2>4, <2>5, <2>6, OneMoves DEF CallOK
<1>6. CASE Greet(c)
  <2>1. call[c].pc = "door" /\ ~call[c].known /\ call[c].attempts = 0
        /\ call[c].choice = NoChoice
    BY <1>a, <1>6 DEF Greet, CallOK, CountsOK, PassOK, ChoiceOK
  <2>2. CallOK(Settle(call[c], "dismissed"))
    BY <1>b, <2>1, SettleOK DEF Outcome
  <2>3. CallOK(WalkMenu(call[c], "", FALSE))
    <3>1. "" \in KeyOrNone
      BY SetFacts
    <3>2. FALSE = call[c].known
      BY <1>a, <2>1 DEF CallType
    <3> QED BY <1>b, <2>1, <3>1, <3>2, WalkMenuOK
  <2>4. CallOK(At(call[c], "greeting"))
    <3>1. "greeting" \in Place \ {"over"}
      BY SetFacts
    <3>2. LET t == At(call[c], "greeting") IN CountsOK(t) /\ PassOK(t) /\ ChoiceOK(t)
      BY <1>a, <2>1, <3>1, AtFields, ConstantFacts
         DEF CallOK, CountsOK, PassOK, ChoiceOK, Collecting, Walking, Challenged
    <3> QED BY <1>a, <2>1, <3>1, <3>2, AtOK
  <2> QED BY <1>a, <1>6, <2>2, <2>3, <2>4, OneMoves DEF Greet
<1>7. CASE GreetingEnds(c)
  <2>1. CASE call[c].pc = "welcome" /\ Continues(c, Settle(call[c], "house"))
    <3>1. CallOK(Settle(call[c], "house"))
      BY <1>a, <1>b, <2>1, SettleOK DEF CallOK, PassOK, Outcome
    <3>2. Same(call[c], Settle(call[c], "house"))
      BY <1>a, SameSettle DEF Outcome
    <3> QED BY <1>a, <2>1, <3>1, <3>2, ContinuesOK DEF Same
  <2>2. CASE call[c].pc = "greeting" /\ Continues(c, Collect(call[c]))
    <3>1. CallOK(Collect(call[c]))
      BY <1>a, <2>2, CollectOK
    <3>2. Same(call[c], Collect(call[c]))
      BY <1>a DEF Collect, At, CallType, Same
    <3> QED BY <1>a, <2>2, <3>1, <3>2, ContinuesOK DEF Same
  <2> QED BY <1>7, <2>1, <2>2 DEF GreetingEnds
<1> QED BY <1>1, <1>2, <1>3, <1>4, <1>5, <1>6, <1>7

\* At the collector only the entry changes.
LEMMA EntryOK ==
    ASSUME NEW r, CallOK(r), r.pc = "collect", NEW t \in CallType, t.pc = "collect",
           t.attempts = r.attempts,
           t.known = r.known, t.choice = r.choice, t.passed = r.passed,
           t.challenge = r.challenge, t.outcome = r.outcome
    PROVE  CallOK(t)
<1>1. CountsOK(t) /\ PassOK(t) /\ ChoiceOK(t)
  BY DEF CallOK, CountsOK, PassOK, ChoiceOK, Collecting, Walking, Challenged
<1> QED BY <1>1, GoesOn

LEMMA ByPinIsChoice == ByPin \in Choice /\ ByPin # NoChoice /\ ~ByPin.challenge
                       /\ ByPin.kind = "extension"
<1>1. ByPin \in Choice /\ ~ByPin.challenge /\ ByPin.kind = "extension"
  BY DEF ByPin, Choice, Kind
<1> QED BY <1>1, ConstantFacts

LEMMA EvaluateOK ==
    ASSUME CallsOK, NEW c \in Call,
           NEW e, CallOK(e), e.pc = "collect", Evaluate(c, e)
    PROVE  CallsOK'
<1>a. e \in CallType /\ Carries(e) /\ e.attempts \in Tries /\ e.attempts <= MaxPinAttempts
  BY UnderWay DEF CallOK, CallType, CountsOK, Collecting
<1>1. CASE Wrong(c, e)
  <2> DEFINE r == [e EXCEPT !.digits = 0, !.attempts = @ + 1]
  <2>1. e.attempts + 1 \in Tries
    BY <1>a, SetFacts
  <2>2. /\ r \in CallType /\ r.pc = "collect" /\ r.attempts = e.attempts + 1
        /\ r.known = e.known /\ r.choice = e.choice /\ r.passed = e.passed
        /\ r.challenge = e.challenge /\ r.outcome = e.outcome
    BY <1>a, <2>1 DEF CallType
  <2>3. call' = [call EXCEPT ![c] =
            IF r.attempts <= MaxPinAttempts THEN At(r, "invalid")
            ELSE Settle(r, IF r.known THEN "house" ELSE "dismissed")]
    BY <1>1 DEF Wrong
  <2> HIDE DEF r
  <2>4. Carries(r)
    BY <1>a, <2>2 DEF Carries
  <2>5. CASE r.attempts <= MaxPinAttempts
    <3> DEFINE t == At(r, "invalid")
    <3>0. "invalid" \in Place
      BY SetFacts
    <3>1. /\ t \in CallType /\ t.pc = "invalid" /\ t.attempts = r.attempts
          /\ t.known = r.known /\ t.choice = r.choice /\ t.passed = r.passed
          /\ t.challenge = r.challenge /\ t.outcome = r.outcome
      BY <2>2, <3>0 DEF At, CallType
    <3>2. call' = [call EXCEPT ![c] = t]
      BY <2>3, <2>5
    <3> HIDE DEF t
    <3>3. CountsOK(t) /\ PassOK(t) /\ ChoiceOK(t)
      BY <2>2, <2>5, <3>1
         DEF CallOK, CountsOK, PassOK, ChoiceOK, Collecting, Walking, Challenged
    <3>4. CallOK(t)
      BY <2>2, <3>1, <3>3, GoesOn
    <3> QED BY <3>2, <3>4, OneMoves
  <2>6. CASE ~(r.attempts <= MaxPinAttempts)
    <3>1. CallOK(Settle(r, IF r.known THEN "house" ELSE "dismissed"))
      BY <2>4, SettleOK DEF Outcome
    <3> QED BY <2>3, <2>6, <3>1, OneMoves
  <2> QED BY <2>5, <2>6
<1>2. CASE Right(c, e)
  <2> DEFINE r == [e EXCEPT !.choice = ByPin]
  <2>1. PICK outcome \in {"extension", "voicemail"} : call' = [call EXCEPT ![c] = Settle(r, outcome)]
    BY <1>2 DEF Right
  <2>0. ByPin \in ChoiceOrNone
    BY ByPinIsChoice, SetFacts
  <2>2. /\ r \in CallType /\ r.choice = ByPin /\ r.known = e.known
        /\ r.passed = e.passed /\ r.challenge = e.challenge /\ r.outcome = e.outcome
    BY <1>a, <2>0 DEF CallType
  <2> HIDE DEF r
  <2>3. Carries(r)
    BY <1>a, <2>2, ByPinIsChoice DEF Carries
  <2>4. CallOK(Settle(r, outcome))
    BY <2>2, <2>3, ByPinIsChoice, SettleOK DEF Outcome
  <2> QED BY <2>1, <2>4, OneMoves
<1> QED BY <1>1, <1>2 DEF Evaluate

LEMMA DigitFacts == "*" \notin Digit /\ "#" \notin Digit /\ "" \notin Digit
BY DoorAssumption

LEMMA LongestFacts == Longest \in Nat /\ Longest \in PinLengths
                      /\ \A k \in PinLengths : k <= Longest
BY DoorAssumption DEF Longest

LEMMA HandleOK ==
    ASSUME CallsOK, NEW c \in Call,
           NEW r, CallOK(r), r.pc = "collect", NEW key \in Key, Handle(c, r, key)
    PROVE  CallsOK'
<1>a. r \in CallType /\ "collect" \in Place
  BY SetFacts DEF CallOK
<1>1. ASSUME NEW d \in Nat PROVE CallOK([At(r, "collect") EXCEPT !.digits = d])
  <2> DEFINE t == [At(r, "collect") EXCEPT !.digits = d]
  <2>1. /\ t \in CallType /\ t.pc = "collect" /\ t.attempts = r.attempts
        /\ t.known = r.known /\ t.choice = r.choice /\ t.passed = r.passed
        /\ t.challenge = r.challenge /\ t.outcome = r.outcome
    BY <1>a DEF At, CallType
  <2> HIDE DEF t
  <2>2. CallOK(t)
    BY <2>1, EntryOK
  <2> QED BY <2>2 DEF t
<1>2. r.digits \in Nat /\ r.digits + 1 \in Nat
  BY <1>a DEF CallType
<1>3. CallOK([r EXCEPT !.digits = @ + 1]) /\ [r EXCEPT !.digits = @ + 1].pc = "collect"
  <2> DEFINE t == [r EXCEPT !.digits = @ + 1]
  <2>1. /\ t \in CallType /\ t.pc = "collect" /\ t.attempts = r.attempts
        /\ t.known = r.known /\ t.choice = r.choice /\ t.passed = r.passed
        /\ t.challenge = r.challenge /\ t.outcome = r.outcome
    BY <1>a, <1>2 DEF CallType
  <2> HIDE DEF t
  <2>2. CallOK(t)
    BY <2>1, EntryOK
  <2> QED BY <2>1, <2>2 DEF t
<1>4. [At(r, "collect") EXCEPT !.digits = @ + 1] = [At(r, "collect") EXCEPT !.digits = r.digits + 1]
  BY <1>a DEF At, CallType
<1>5. CASE Becomes(c, [At(r, "collect") EXCEPT !.digits = 0])
  BY <1>1, <1>5, OneMoves DEF Becomes
<1>6. CASE Becomes(c, [At(r, "collect") EXCEPT !.digits = @ + 1])
  BY <1>1, <1>2, <1>4, <1>6, OneMoves DEF Becomes
<1>7. CASE Evaluate(c, r)
  BY <1>7, EvaluateOK
<1>8. CASE Evaluate(c, [r EXCEPT !.digits = @ + 1])
  BY <1>3, <1>8, EvaluateOK
<1>9. key = "*" \/ key = "#" \/ key \in Digit
  BY DEF Key
<1>10. r.digits + 1 < Longest \/ r.digits + 1 >= Longest
  BY <1>2, LongestFacts
<1>11. CASE key = "*"
  BY <1>5, <1>11, DigitFacts DEF Handle
<1>12. CASE key = "#"
  BY <1>7, <1>12, DigitFacts DEF Handle
<1>13. CASE key \in Digit
  BY <1>6, <1>8, <1>10, <1>13, DigitFacts DEF Handle
<1> QED BY <1>9, <1>11, <1>12, <1>13

\* The collector.
LEMMA CollectorOK ==
    ASSUME CallsOK, NEW c \in Call,
           \/ CollectSeed(c) \/ CollectTimer(c) \/ InvalidEnds(c)
           \/ \E key \in Key : BargeGreeting(c, key) \/ CollectKey(c, key)
    PROVE  CallsOK'
<1>a. call \in [Call -> CallType] /\ CallOK(call[c]) /\ call[c] \in CallType
  BY DEF CallsOK
<1>b. call[c].pc # "over" => Carries(call[c])
  BY <1>a, UnderWay
<1>1. CASE CollectSeed(c)
  <2> DEFINE r == [call[c] EXCEPT !.key = ""]
  <2>0. "" \in KeyOrNone
    BY SetFacts
  <2>1. /\ r \in CallType /\ r.pc = "collect" /\ r.attempts = call[c].attempts
        /\ r.known = call[c].known /\ r.choice = call[c].choice /\ r.passed = call[c].passed
        /\ r.challenge = call[c].challenge /\ r.outcome = call[c].outcome
    BY <1>a, <1>1, <2>0 DEF CallType, CollectSeed
  <2>2. Handle(c, r, call[c].key) /\ call[c].pc = "collect" /\ call[c].key \in Key
    BY <1>a, <1>1 DEF CollectSeed, CallType, KeyOrNone
  <2> HIDE DEF r
  <2>3. CallOK(r)
    BY <1>a, <2>1, <2>2, EntryOK
  <2> QED BY <1>a, <2>1, <2>2, <2>3, HandleOK
<1>2. CASE CollectTimer(c)
  <2>1. CASE Evaluate(c, call[c])
    BY <1>a, <1>2, <2>1, EvaluateOK DEF CollectTimer
  <2>2. CASE Becomes(c, Disposition(call[c]))
    BY <1>a, <1>b, <1>2, <2>2, DispositionOK, OneMoves DEF CollectTimer, Becomes
  <2> QED BY <1>2, <2>1, <2>2 DEF CollectTimer
<1>3. CASE InvalidEnds(c)
  <2>1. "collect" \in Place \ {"over"} /\ call[c].pc = "invalid"
    BY <1>3, SetFacts DEF InvalidEnds
  <2>2. LET t == At(call[c], "collect") IN CountsOK(t) /\ PassOK(t) /\ ChoiceOK(t)
    BY <1>a, <2>1, AtFields
       DEF CallOK, CountsOK, PassOK, ChoiceOK, Collecting, Walking, Challenged
  <2>3. CallOK(At(call[c], "collect"))
    BY <1>a, <2>1, <2>2, AtOK
  <2>4. Same(call[c], At(call[c], "collect"))
    BY <1>a, <2>1, SameAt
  <2> QED BY <1>a, <1>3, <2>3, <2>4, ContinuesOK DEF InvalidEnds, Same
<1>4. ASSUME NEW key \in Key, BargeGreeting(c, key) PROVE CallsOK'
  <2>0. key \in KeyOrNone
    BY SetFacts
  <2>1. CASE call[c].pc = "welcome" /\ Continues(c, WalkMenu(call[c], key, TRUE))
    <3>1. call[c].known /\ call[c].choice = NoChoice
      BY <1>a, <2>1 DEF CallOK, PassOK, ChoiceOK
    <3>2. TRUE = call[c].known
      BY <1>a, <3>1 DEF CallType
    <3>3. CallOK(WalkMenu(call[c], key, TRUE))
      BY <1>b, <2>0, <2>1, <3>1, <3>2, WalkMenuOK
    <3>4. Same(call[c], WalkMenu(call[c], key, TRUE))
      BY <1>a, <2>0, SameWalk
    <3> QED BY <1>a, <2>1, <3>3, <3>4, ContinuesOK DEF Same
  <2>2. CASE /\ call[c].pc \in {"greeting", "welcome"}
             /\ Continues(c, [Collect(call[c]) EXCEPT !.key = key])
    <3> DEFINE r == Collect(call[c])
               t == [r EXCEPT !.key = key]
    <3>1. CallOK(r) /\ r.pc = "collect" /\ r.gone = call[c].gone
      <4>1. CallOK(r)
        BY <1>a, <2>2, CollectOK
      <4>2. "collect" \in Place /\ 0 \in Tries
        BY SetFacts
      <4> QED BY <1>a, <4>1, <4>2 DEF Collect, At, CallType
    <3> HIDE DEF r
    <3>2. /\ t \in CallType /\ t.pc = "collect" /\ t.attempts = r.attempts
          /\ t.known = r.known /\ t.choice = r.choice /\ t.passed = r.passed
          /\ t.challenge = r.challenge /\ t.outcome = r.outcome /\ t.gone = call[c].gone
      BY <2>0, <3>1 DEF CallOK, CallType
    <3>3. Continues(c, t)
      BY <2>2 DEF r
    <3> HIDE DEF t
    <3>4. CallOK(t)
      BY <3>1, <3>2, EntryOK
    <3> QED BY <1>a, <3>2, <3>3, <3>4, ContinuesOK
  <2> QED BY <1>4, <2>1, <2>2 DEF BargeGreeting
<1>5. ASSUME NEW key \in Key, CollectKey(c, key) PROVE CallsOK'
  BY <1>a, <1>5, HandleOK DEF CollectKey
<1> QED BY <1>1, <1>2, <1>3, <1>4, <1>5

-----------------------------------------------------------------------------
(* The sum. *)

\* At the sum only the question, the answer and their counts change.
LEMMA QuestionOK ==
    ASSUME NEW r, CallOK(r), r.pc \in Challenged,
           NEW t \in CallType, t.pc \in Challenged \ {"solved"},
           t.tries = r.tries, t.silent = r.silent, t.guard = r.guard, t.key = r.key,
           t.menu = r.menu,
           t.known = r.known, t.choice = r.choice, t.passed = r.passed,
           t.challenge = r.challenge, t.outcome = r.outcome
    PROVE  CallOK(t)
<1>1. CountsOK(t) /\ PassOK(t) /\ ChoiceOK(t)
  BY DEF CallOK, CountsOK, PassOK, ChoiceOK, Collecting, Walking, Challenged
<1>2. r.pc # "over" /\ t.pc # "over"
  BY DEF Challenged
<1> QED BY <1>1, <1>2, GoesOn

LEMMA AnsweredOK ==
    ASSUME CallsOK, NEW c \in Call, call[c].pc = "answer",
           NEW digits, Answered(c, digits)
    PROVE  CallsOK'
<1>a. call \in [Call -> CallType] /\ CallOK(call[c]) /\ call[c] \in CallType
  BY DEF CallsOK
<1>b. /\ call[c].tries \in Tries /\ call[c].tries <= MaxPinAttempts
      /\ ~call[c].passed /\ ~call[c].known /\ Carries(call[c])
      /\ call[c].guard # "none"
  BY <1>a, UnderWay DEF CallOK, CallType, CountsOK, PassOK, ChoiceOK, Challenged
<1>1. CASE Failed(c)
  <2> DEFINE r == [call[c] EXCEPT !.tries = @ + 1]
             v == [r EXCEPT !.challenge = "failed"]
  <2>1. call[c].tries + 1 \in Tries /\ "failed" \in Verdict /\ "tryAgain" \in Place
    BY <1>b, SetFacts DEF Challenged
  <2>2. /\ r \in CallType /\ r.pc = "answer" /\ r.tries = call[c].tries + 1
        /\ r.known = call[c].known /\ r.choice = call[c].choice /\ r.passed = call[c].passed
        /\ r.challenge = call[c].challenge /\ r.outcome = call[c].outcome
        /\ r.silent = call[c].silent /\ r.guard = call[c].guard /\ r.key = call[c].key
        /\ r.menu = call[c].menu
    BY <1>a, <2>1 DEF CallType
  <2>3. call' = [call EXCEPT ![c] =
            IF r.tries <= MaxPinAttempts THEN At(r, "tryAgain") ELSE Settle(v, "dismissed")]
    BY <1>1 DEF Failed
  <2>4. CASE r.tries <= MaxPinAttempts
    <3> HIDE DEF r
    <3> DEFINE t == At(r, "tryAgain")
    <3>1. /\ t \in CallType /\ t.pc = "tryAgain" /\ t.tries = r.tries
          /\ t.known = r.known /\ t.choice = r.choice /\ t.passed = r.passed
          /\ t.challenge = r.challenge /\ t.outcome = r.outcome
          /\ t.silent = r.silent /\ t.guard = r.guard /\ t.key = r.key /\ t.menu = r.menu
      BY <2>1, <2>2 DEF At, CallType
    <3>2. call' = [call EXCEPT ![c] = t]
      BY <2>3, <2>4
    <3> HIDE DEF t
    <3>3. CountsOK(t) /\ PassOK(t) /\ ChoiceOK(t)
      BY <1>a, <2>2, <2>4, <3>1
         DEF CallOK, CountsOK, PassOK, ChoiceOK, Collecting, Walking, Challenged
    <3>4. CallOK(t)
      BY <1>a, <2>2, <3>1, <3>3, GoesOn
    <3> QED BY <1>a, <3>2, <3>4, OneMoves
  <2>5. CASE ~(r.tries <= MaxPinAttempts)
    <3>1. /\ v \in CallType /\ v.known = call[c].known /\ v.choice = call[c].choice
          /\ v.passed = call[c].passed /\ v.challenge = "failed"
          /\ v.outcome = call[c].outcome
      BY <1>a, <2>1 DEF CallType
    <3>2. call' = [call EXCEPT ![c] = Settle(v, "dismissed")]
      BY <2>3, <2>5
    <3> HIDE DEF r, v
    <3>3. Carries(v) /\ ~v.known
      BY <1>b, <3>1 DEF Carries
    <3>4. CallOK(Settle(v, "dismissed"))
      BY <3>3, SettleOK DEF Outcome
    <3> QED BY <1>a, <3>2, <3>4, OneMoves
  <2> QED BY <2>4, <2>5
<1>2. CASE Solved(c)
  <2> DEFINE t == [At(call[c], "solved") EXCEPT !.challenge = "passed"]
  <2>1. "solved" \in Place /\ "passed" \in Verdict
    BY SetFacts DEF Challenged
  <2>2. /\ t \in CallType /\ t.pc = "solved" /\ t.tries = call[c].tries
        /\ t.known = call[c].known /\ t.choice = call[c].choice /\ t.passed = call[c].passed
        /\ t.challenge = "passed" /\ t.outcome = call[c].outcome
        /\ t.silent = call[c].silent /\ t.guard = call[c].guard /\ t.key = call[c].key
        /\ t.menu = call[c].menu
    BY <1>a, <2>1 DEF At, CallType
  <2>3. call' = [call EXCEPT ![c] = t]
    BY <1>2 DEF Solved, Becomes
  <2> HIDE DEF t
  <2>4. CountsOK(t) /\ PassOK(t)
    BY <1>a, <1>b, <2>2 DEF CallOK, CountsOK, PassOK, Collecting, Walking, Challenged
  <2>5. ChoiceOK(t) /\ OutcomeOK(t)
    BY <1>a, <1>b, <2>2 DEF CallOK, ChoiceOK, OutcomeOK, Challenged, Carries
  <2> QED BY <1>a, <2>2, <2>3, <2>4, <2>5, OneMoves DEF CallOK
<1> QED BY <1>1, <1>2 DEF Answered

LEMMA ChallengedOK ==
    ASSUME CallsOK, NEW c \in Call,
           \/ ChallengeBegins(c) \/ ExplainEnds(c) \/ Ask(c) \/ AnswerTimer(c)
           \/ TryAgainEnds(c) \/ SolvedEnds(c)
           \/ \E key \in Key : AnswerKey(c, key)
    PROVE  CallsOK'
<1> DEFINE r == call[c]
<1>a. call \in [Call -> CallType] /\ CallOK(r) /\ r \in CallType
  BY DEF CallsOK
<1>b. r.pc # "over" => Carries(r)
  BY <1>a, UnderWay
<1>c. /\ {"explain", "ask", "answer"} \subseteq Challenged \ {"solved"}
      /\ {"explain", "ask", "answer", "choice"} \subseteq Place
      /\ {"rate-limited", "no-answer"} \subseteq Verdict
      /\ {"challenge", "explain", "ask", "answer", "tryAgain", "solved"} \subseteq Challenged
      /\ 0 \in Repeats /\ 0 \in Nat /\ r.repeats \in Repeats /\ r.digits \in Nat
  BY <1>a, SetFacts DEF Challenged, Walking, Verdict, CallType
<1>d. r.pc \in Challenged => ~r.known /\ ~r.passed /\ r.pc # "over"
  BY <1>a DEF CallOK, PassOK, Challenged
\* The question moves on.
<1>e. ASSUME NEW pc \in {"explain", "ask", "answer"}, r.pc \in Challenged
      PROVE  CallOK(At(r, pc)) /\ Same(r, At(r, pc))
  <2> DEFINE t == At(r, pc)
  <2>1. /\ t \in CallType /\ t.pc = pc /\ t.tries = r.tries /\ t.silent = r.silent
        /\ t.guard = r.guard /\ t.key = r.key /\ t.menu = r.menu
        /\ t.known = r.known /\ t.choice = r.choice /\ t.passed = r.passed
        /\ t.challenge = r.challenge /\ t.outcome = r.outcome /\ Same(r, t)
    BY <1>a, <1>c, <1>e DEF At, CallType, Same
  <2> HIDE DEF t
  <2>2. CallOK(t)
    BY <1>a, <1>c, <1>e, <2>1, QuestionOK
  <2> QED BY <2>1, <2>2 DEF t
\* ...with another entry,
<1>f. ASSUME NEW d \in Nat, r.pc \in Challenged
      PROVE  CallOK([At(r, "answer") EXCEPT !.digits = d])
             /\ Same(r, [At(r, "answer") EXCEPT !.digits = d])
  <2> DEFINE t == [At(r, "answer") EXCEPT !.digits = d]
  <2>1. /\ t \in CallType /\ t.pc = "answer" /\ t.tries = r.tries /\ t.silent = r.silent
        /\ t.guard = r.guard /\ t.key = r.key /\ t.menu = r.menu
        /\ t.known = r.known /\ t.choice = r.choice /\ t.passed = r.passed
        /\ t.challenge = r.challenge /\ t.outcome = r.outcome /\ Same(r, t)
    BY <1>a, <1>c, <1>f DEF At, CallType, Same
  <2> HIDE DEF t
  <2>2. CallOK(t)
    BY <1>a, <1>c, <1>f, <2>1, QuestionOK
  <2> QED BY <2>1, <2>2 DEF t
\* ...or asked again.
<1>g. ASSUME NEW q \in Repeats, r.pc \in Challenged
      PROVE  CallOK([At(r, "ask") EXCEPT !.repeats = q])
             /\ Same(r, [At(r, "ask") EXCEPT !.repeats = q])
  <2> DEFINE t == [At(r, "ask") EXCEPT !.repeats = q]
  <2>1. /\ t \in CallType /\ t.pc = "ask" /\ t.tries = r.tries /\ t.silent = r.silent
        /\ t.guard = r.guard /\ t.key = r.key /\ t.menu = r.menu
        /\ t.known = r.known /\ t.choice = r.choice /\ t.passed = r.passed
        /\ t.challenge = r.challenge /\ t.outcome = r.outcome /\ Same(r, t)
    BY <1>a, <1>c, <1>g DEF At, CallType, Same
  <2> HIDE DEF t
  <2>2. CallOK(t)
    BY <1>a, <1>c, <1>g, <2>1, QuestionOK
  <2> QED BY <2>1, <2>2 DEF t
\* A verdict that ends the call.
<1>h. ASSUME NEW v \in {"rate-limited", "no-answer"}, r.pc \in Challenged
      PROVE  CallOK(Settle([r EXCEPT !.challenge = v], "dismissed"))
  <2> DEFINE t == [r EXCEPT !.challenge = v]
  <2>1. /\ t \in CallType /\ t.known = r.known /\ t.choice = r.choice
        /\ t.passed = r.passed /\ t.challenge = v /\ t.outcome = r.outcome
    BY <1>a, <1>c, <1>h DEF CallType
  <2> HIDE DEF t
  <2>2. Carries(t) /\ ~t.known
    BY <1>b, <1>d, <1>h, <2>1 DEF Carries
  <2>3. CallOK(Settle(t, "dismissed"))
    BY <2>2, SettleOK DEF Outcome
  <2> QED BY <2>3 DEF t
<1>1. CASE ChallengeBegins(c)
  <2>1. r.pc \in Challenged
    BY <1>1, <1>c DEF ChallengeBegins
  <2>2. CASE OverBudget(sumFails, r.number)
    <3>1. CallOK(Settle([r EXCEPT !.challenge = "rate-limited"], "dismissed"))
      BY <1>h, <2>1
    <3> QED BY <1>a, <1>1, <2>2, <3>1, OneMoves DEF ChallengeBegins
  <2>3. CASE ~OverBudget(sumFails, r.number)
    <3>1. CallOK(At(r, "explain"))
      BY <1>e, <2>1
    <3> QED BY <1>a, <1>1, <2>3, <3>1, OneMoves DEF ChallengeBegins
  <2> QED BY <2>2, <2>3
<1>2. CASE ExplainEnds(c)
  <2>1. CallOK(At(r, "ask")) /\ Same(r, At(r, "ask"))
    BY <1>2, <1>c, <1>e DEF ExplainEnds
  <2> QED BY <1>a, <1>2, <2>1, ContinuesOK DEF ExplainEnds, Same
<1>3. CASE Ask(c)
  <2>1. r.pc \in Challenged
    BY <1>3, <1>c DEF Ask
  <2>2. CallOK([At(r, "answer") EXCEPT !.digits = 0])
        /\ Same(r, [At(r, "answer") EXCEPT !.digits = 0])
    BY <1>c, <1>f, <2>1
  <2> QED BY <1>a, <1>3, <2>2, ContinuesOK DEF Ask, Same
<1>4. CASE AnswerTimer(c)
  <2>1. r.pc = "answer" /\ r.pc \in Challenged
    BY <1>4, <1>c DEF AnswerTimer
  <2>2. CASE Becomes(c, Settle([r EXCEPT !.challenge = "no-answer"], "dismissed"))
    <3>1. CallOK(Settle([r EXCEPT !.challenge = "no-answer"], "dismissed"))
      BY <1>h, <2>1
    <3> QED BY <1>a, <2>2, <3>1, OneMoves DEF Becomes
  <2>3. CASE Answered(c, r.digits)
    BY <2>1, <2>3, AnsweredOK
  <2> QED BY <1>4, <2>2, <2>3 DEF AnswerTimer
<1>5. CASE TryAgainEnds(c)
  <2>1. r.pc \in Challenged
    BY <1>5, <1>c DEF TryAgainEnds
  <2>2. CallOK([At(r, "ask") EXCEPT !.repeats = 0])
        /\ Same(r, [At(r, "ask") EXCEPT !.repeats = 0])
    BY <1>c, <1>g, <2>1
  <2> QED BY <1>a, <1>5, <2>2, ContinuesOK DEF TryAgainEnds, Same
<1>6. CASE SolvedEnds(c)
  <2>1. /\ r.pc = "solved" /\ r.pc \in Challenged /\ r.challenge = "passed" /\ ~r.known
        /\ r.pc # "over"
    BY <1>a, <1>6, <1>c, <1>d DEF SolvedEnds, CallOK, PassOK
  <2>2. CASE r.guard = "noInput"
    <3>1. CallOK(Unguarded(r))
      BY <1>b, <2>1, UnguardedOK
    <3>2. Same(r, Unguarded(r))
      BY <1>a, SameDisposition
    <3> QED BY <1>a, <1>6, <2>2, <3>1, <3>2, ContinuesOK DEF SolvedEnds, Same
  <2>3. CASE r.guard # "noInput"
    <3> DEFINE t == [At(r, "choice") EXCEPT !.passed = TRUE]
    <3>1. r.guard = "choice" /\ r.key \in DOMAIN Choices[r.menu] /\ r.silent <= Repeat
      <4>1. r.guard \in Guard /\ r.guard # "none"
        BY <1>a, <2>1 DEF CallOK, ChoiceOK, CallType
      <4>2. r.guard = "choice"
        BY <2>3, <4>1 DEF Guard
      <4> QED BY <1>a, <2>1, <4>2 DEF CallOK, ChoiceOK, CountsOK
    <3>2. /\ t \in CallType /\ t.pc = "choice" /\ t.known = r.known /\ t.choice = r.choice
          /\ t.passed /\ t.challenge = r.challenge /\ t.outcome = r.outcome
          /\ t.silent = r.silent /\ t.key = r.key /\ t.menu = r.menu /\ Same(r, t)
      BY <1>a, <1>c DEF At, CallType, Same
    <3>3. Continues(c, t)
      BY <1>6, <2>3 DEF SolvedEnds
    <3> HIDE DEF t
    <3>4. CountsOK(t) /\ PassOK(t)
      BY <2>1, <3>1, <3>2 DEF CountsOK, PassOK, Collecting, Challenged
    <3>5. ChoiceOK(t) /\ OutcomeOK(t)
      BY <1>b, <2>1, <3>1, <3>2 DEF ChoiceOK, OutcomeOK, Challenged, Carries
    <3> QED BY <1>a, <3>2, <3>3, <3>4, <3>5, ContinuesOK DEF CallOK, Same
  <2> QED BY <2>2, <2>3
<1>7. ASSUME NEW key \in Key, AnswerKey(c, key) PROVE CallsOK'
  <2>1. r.pc = "answer" /\ r.pc \in Challenged
    BY <1>7, <1>c DEF AnswerKey
  <2>2. key = "*" \/ key = "#" \/ key \in Digit
    BY DEF Key
  <2>3. r.digits + 1 \in Nat /\ r.repeats \in 0 .. MaxRepeats
    BY <1>c DEF Repeats
  <2>4. CASE \E digits \in {r.digits, r.digits + 1} : Answered(c, digits)
    BY <2>1, <2>4, AnsweredOK
  <2>5. CASE Becomes(c, [At(r, "ask") EXCEPT !.repeats = @ + 1]) /\ r.repeats < MaxRepeats
    <3>1. [At(r, "ask") EXCEPT !.repeats = @ + 1] = [At(r, "ask") EXCEPT !.repeats = r.repeats + 1]
      BY <1>a DEF At, CallType
    <3>2. CallOK([At(r, "ask") EXCEPT !.repeats = r.repeats + 1])
      BY <1>c, <1>g, <2>1, <2>5, SetFacts
    <3> QED BY <1>a, <2>5, <3>1, <3>2, OneMoves DEF Becomes
  <2>6. CASE Becomes(c, [At(r, "answer") EXCEPT !.digits = 0])
    <3>1. CallOK([At(r, "answer") EXCEPT !.digits = 0])
      BY <1>c, <1>f, <2>1
    <3> QED BY <1>a, <2>6, <3>1, OneMoves DEF Becomes
  <2>7. CASE Becomes(c, [At(r, "answer") EXCEPT !.digits = @ + 1])
    <3>1. [At(r, "answer") EXCEPT !.digits = @ + 1] = [At(r, "answer") EXCEPT !.digits = r.digits + 1]
      BY <1>a DEF At, CallType
    <3>2. CallOK([At(r, "answer") EXCEPT !.digits = r.digits + 1])
      BY <1>f, <2>1, <2>3
    <3> QED BY <1>a, <2>7, <3>1, <3>2, OneMoves DEF Becomes
  <2>8. CASE key = "#"
    BY <1>7, <2>4, <2>8, DigitFacts DEF AnswerKey
  <2>9. CASE key = "*"
    <3>1. r.repeats < MaxRepeats \/ r.repeats = MaxRepeats
      BY <2>3, ConstantFacts
    <3> QED BY <1>7, <2>5, <2>6, <2>9, <3>1, DigitFacts DEF AnswerKey
  <2>10. CASE key \in Digit
    <3>1. r.digits + 1 < AnswerDigits \/ r.digits + 1 >= AnswerDigits
      BY <2>3, ConstantFacts
    <3> QED BY <1>7, <2>4, <2>7, <2>10, <3>1, DigitFacts DEF AnswerKey
  <2> QED BY <2>2, <2>8, <2>9, <2>10
<1> QED BY <1>1, <1>2, <1>3, <1>4, <1>5, <1>6, <1>7

-----------------------------------------------------------------------------
(* The menu. *)

LEMMA MenuFacts ==
    ASSUME NEW m \in Menus, NEW k \in DOMAIN Choices[m]
    PROVE  /\ Choices[m][k] \in Choice
           /\ Choices[m][k].kind = "menu" => Choices[m][k].target \in Menus
BY DoorAssumption DEF Menus

\* Moving on inside the menu, with another key perhaps.
LEMMA StrollOK ==
    ASSUME NEW r, CallOK(r), r.pc \in Walking,
           NEW t \in CallType, t.pc \in {"menuPlay", "menuWait", "menuKey"},
           t.silent = r.silent,
           t.known = r.known, t.choice = r.choice, t.passed = r.passed,
           t.challenge = r.challenge, t.outcome = r.outcome
    PROVE  CallOK(t)
<1>1. r.pc # "over" /\ r.pc \notin Challenged
  BY DEF Walking, Challenged
<1>2. t.pc # "over" /\ t.pc \in Walking /\ t.pc \notin Challenged /\ t.pc \notin Collecting
      /\ t.pc \notin {"door", "greeting", "welcome", "solved", "choice", "recording", "listen"}
  BY DEF Walking, Challenged, Collecting
<1>3. CountsOK(t)
  BY <1>1, <1>2 DEF CallOK, CountsOK
<1>4. PassOK(t)
  BY <1>1, <1>2 DEF CallOK, PassOK
<1>5. ChoiceOK(t)
  BY <1>1, <1>2 DEF CallOK, ChoiceOK
<1> QED BY <1>1, <1>2, <1>3, <1>4, <1>5, GoesOn

LEMMA MenuOK ==
    ASSUME CallsOK, NEW c \in Call,
           \/ MenuPlay(c) \/ MenuWaitTimer(c) \/ MenuKeyAgain(c) \/ MenuChoose(c)
           \/ TakeChoice(c) \/ RecordingEnds(c) \/ Listen(c)
           \/ \E key \in Key : MenuWaitKey(c, key)
    PROVE  CallsOK'
<1> DEFINE r == call[c]
<1>a. call \in [Call -> CallType] /\ CallOK(r) /\ r \in CallType
  BY DEF CallsOK
<1>b. r.pc \in Walking => /\ Carries(r) /\ r.pc # "over"
                         /\ r.silent <= Repeat /\ (r.known => r.passed)
  BY <1>a, UnderWay DEF Walking, CallOK, CountsOK, PassOK
<1>c. /\ Walking \subseteq Place
      /\ {"menuPlay", "menuWait", "menuKey", "choice", "recording", "listen"} \subseteq Walking
      /\ Key \subseteq KeyOrNone /\ Key \cup {""} = KeyOrNone /\ "" \in KeyOrNone
      /\ 0 \in Silences /\ r.silent \in Silences /\ 0 <= Repeat
  <2>1. Walking \subseteq Place
    BY SetFacts
  <2>2. {"menuPlay", "menuWait", "menuKey", "choice", "recording", "listen"} \subseteq Walking
    BY DEF Walking
  <2>3. Key \subseteq KeyOrNone /\ Key \cup {""} = KeyOrNone /\ "" \in KeyOrNone
    BY DEF KeyOrNone
  <2>4. 0 \in Silences /\ r.silent \in Silences
    BY <1>a, SetFacts DEF CallType
  <2>5. 0 <= Repeat
    BY ConstantFacts
  <2> QED BY <2>1, <2>2, <2>3, <2>4, <2>5
<1>d. ASSUME r.pc \in Walking, NEW key \in Key PROVE
        /\ CallOK([At(r, "menuKey") EXCEPT !.key = key])
        /\ Same(r, [At(r, "menuKey") EXCEPT !.key = key])
  <2> DEFINE t == [At(r, "menuKey") EXCEPT !.key = key]
  <2>1. /\ t \in CallType /\ t.pc = "menuKey" /\ t.silent = r.silent /\ Same(r, t)
        /\ t.known = r.known /\ t.choice = r.choice /\ t.passed = r.passed
        /\ t.challenge = r.challenge /\ t.outcome = r.outcome
    BY <1>a, <1>c DEF At, CallType, Same
  <2> HIDE DEF t
  <2>2. CallOK(t)
    BY <1>a, <1>d, <2>1, StrollOK
  <2> QED BY <2>1, <2>2 DEF t
<1>e. ASSUME r.pc \in Walking PROVE CallOK(At(r, "menuWait")) /\ Same(r, At(r, "menuWait"))
  <2> DEFINE t == At(r, "menuWait")
  <2>1. /\ t \in CallType /\ t.pc = "menuWait" /\ t.silent = r.silent /\ Same(r, t)
        /\ t.known = r.known /\ t.choice = r.choice /\ t.passed = r.passed
        /\ t.challenge = r.challenge /\ t.outcome = r.outcome
    BY <1>a, <1>c DEF At, CallType, Same
  <2> HIDE DEF t
  <2>2. CallOK(t)
    BY <1>a, <1>e, <2>1, StrollOK
  <2> QED BY <2>1, <2>2 DEF t
<1>f. ASSUME r.pc \in Walking, NEW key \in KeyOrNone
      PROVE  CallOK(Offer(r, key)) /\ Same(r, Offer(r, key))
  BY <1>a, <1>b, <1>f, OfferOK, SameOffer
\* The silences are forgotten.
<1>g. ASSUME r.pc \in Walking
      PROVE  LET t == [r EXCEPT !.silent = 0]
             IN  /\ t \in CallType /\ Carries(t) /\ t.silent = 0 /\ t.pc = r.pc
                 /\ t.known = r.known /\ t.choice = r.choice /\ t.passed = r.passed
                 /\ t.challenge = r.challenge /\ t.outcome = r.outcome
                 /\ t.menu = r.menu /\ t.key = r.key
  BY <1>a, <1>b, <1>c, <1>g DEF Carries, CallType
<1>1. CASE MenuPlay(c)
  <2>1. r.pc \in Walking
    BY <1>1, <1>c DEF MenuPlay
  <2>2. CASE Continues(c, At(r, "menuWait"))
    BY <1>a, <1>e, <2>1, <2>2, ContinuesOK DEF Same
  <2>3. ASSUME NEW key \in Key, Continues(c, [At(r, "menuKey") EXCEPT !.key = key])
        PROVE  CallsOK'
    <3>1. /\ CallOK([At(r, "menuKey") EXCEPT !.key = key])
          /\ [At(r, "menuKey") EXCEPT !.key = key].gone = r.gone
      BY <1>d, <2>1 DEF Same
    <3> QED BY <1>a, <2>3, <3>1, ContinuesOK
  <2> QED BY <1>1, <2>2, <2>3 DEF MenuPlay
<1>2. ASSUME NEW key \in Key, MenuWaitKey(c, key) PROVE CallsOK'
  <2>1. r.pc \in Walking /\ Continues(c, [At(r, "menuKey") EXCEPT !.key = key])
    BY <1>2, <1>c DEF MenuWaitKey
  <2>2. /\ CallOK([At(r, "menuKey") EXCEPT !.key = key])
        /\ [At(r, "menuKey") EXCEPT !.key = key].gone = r.gone
    BY <1>d, <2>1 DEF Same
  <2> QED BY <1>a, <2>1, <2>2, ContinuesOK
<1>3. CASE MenuWaitTimer(c)
  <2> DEFINE t == [r EXCEPT !.silent = @ + 1, !.key = ""]
  <2>1. r.pc \in Walking
    BY <1>3, <1>c DEF MenuWaitTimer
  <2>2. r.silent + 1 \in Silences
    BY <1>b, <1>c, <2>1, SetFacts
  <2>3. /\ t \in CallType /\ t.silent = r.silent + 1 /\ Same(r, t)
        /\ t.known = r.known /\ t.choice = r.choice /\ t.passed = r.passed
        /\ t.challenge = r.challenge /\ t.outcome = r.outcome
    BY <1>a, <1>c, <2>2 DEF CallType, Same
  <2>4. Continues(c, IF t.silent > Repeat THEN Disposition(t) ELSE Offer(t, ""))
    BY <1>3 DEF MenuWaitTimer
  <2> HIDE DEF t
  <2>5. Carries(t) /\ (t.known => t.passed)
    BY <1>b, <2>1, <2>3 DEF Carries
  <2>6. CASE t.silent > Repeat
    <3>1. CallOK(Disposition(t)) /\ Same(t, Disposition(t))
      BY <2>3, <2>5, DispositionOK, SameDisposition
    <3>2. Continues(c, Disposition(t)) /\ Disposition(t).gone = r.gone
      BY <2>3, <2>4, <2>6, <3>1 DEF Same
    <3> QED BY <1>a, <3>1, <3>2, ContinuesOK
  <2>7. CASE ~(t.silent > Repeat)
    <3>1. t.silent <= Repeat
      <4>1. t.silent \in Nat /\ Repeat \in Nat
        BY <2>2, <2>3, SetFacts, ConstantFacts
      <4> QED BY <2>7, <4>1
    <3>2. CallOK(Offer(t, "")) /\ Same(t, Offer(t, ""))
      BY <1>c, <2>3, <2>5, <3>1, OfferOK, SameOffer
    <3>3. Continues(c, Offer(t, "")) /\ Offer(t, "").gone = r.gone
      BY <2>3, <2>4, <2>7, <3>2 DEF Same
    <3> QED BY <1>a, <3>2, <3>3, ContinuesOK
  <2> QED BY <2>6, <2>7
<1>4. CASE MenuKeyAgain(c)
  <2> DEFINE t == [r EXCEPT !.silent = 0]
  <2>1. r.pc \in Walking /\ Becomes(c, Offer(t, ""))
    BY <1>4, <1>c DEF MenuKeyAgain
  <2>2. t \in CallType /\ Carries(t) /\ t.silent = 0 /\ (t.known => t.passed)
    BY <1>b, <1>g, <2>1
  <2> HIDE DEF t
  <2>3. CallOK(Offer(t, ""))
    BY <1>c, <2>2, OfferOK
  <2> QED BY <1>a, <2>1, <2>3, OneMoves DEF Becomes
<1>5. CASE MenuChoose(c)
  <2> DEFINE t == [r EXCEPT !.silent = 0]
  <2>1. /\ r.pc \in Walking /\ t.key \in DOMAIN Choices[t.menu]
        /\ Becomes(c, IF Choices[t.menu][t.key].challenge /\ ~t.passed
                      THEN Challenge(t, "choice") ELSE At(t, "choice"))
    BY <1>5, <1>a, <1>c DEF MenuChoose, CallType
  <2>2. t \in CallType /\ Carries(t) /\ t.silent = 0 /\ (t.known => t.passed)
    BY <1>b, <1>g, <2>1
  <2> HIDE DEF t
  <2>3. CASE Choices[t.menu][t.key].challenge /\ ~t.passed
    <3>1. CallOK(Challenge(t, "choice"))
      BY <1>c, <2>1, <2>2, <2>3, ChallengeOK
    <3> QED BY <1>a, <2>1, <2>3, <3>1, OneMoves DEF Becomes
  <2>4. CASE ~(Choices[t.menu][t.key].challenge /\ ~t.passed)
    <3> DEFINE v == At(t, "choice")
    <3>1. /\ v \in CallType /\ v.pc = "choice" /\ v.silent = 0 /\ v.key = t.key
          /\ v.menu = t.menu /\ v.known = t.known /\ v.choice = t.choice
          /\ v.passed = t.passed /\ v.challenge = t.challenge /\ v.outcome = t.outcome
      BY <1>c, <2>2 DEF At, CallType
    <3>2. call' = [call EXCEPT ![c] = v]
      BY <2>1, <2>4 DEF Becomes
    <3> HIDE DEF v
    <3>3. CountsOK(v) /\ PassOK(v)
      BY <1>c, <2>2, <3>1 DEF CountsOK, PassOK, Carries, Collecting, Challenged
    <3>4. ChoiceOK(v)
      BY <2>1, <2>2, <2>4, <3>1 DEF ChoiceOK, Carries, Challenged
    <3>5. OutcomeOK(v)
      BY <2>2, <3>1 DEF OutcomeOK, Carries
    <3> QED BY <1>a, <3>1, <3>2, <3>3, <3>4, <3>5, OneMoves DEF CallOK
  <2> QED BY <2>3, <2>4
<1>6. CASE TakeChoice(c)
  <2> DEFINE t == Chosen(c)
  <2>1. /\ r.pc \in Walking /\ r.pc = "choice" /\ r.key \in DOMAIN Choices[r.menu]
        /\ Choices[r.menu][r.key].challenge => r.passed
    BY <1>6, <1>a, <1>c DEF TakeChoice, CallOK, ChoiceOK
  <2>2. /\ r.menu \in Menus /\ Choices[r.menu][r.key] \in Choice
        /\ Choices[r.menu][r.key].kind = "menu" => Choices[r.menu][r.key].target \in Menus
    BY <1>a, <2>1, MenuFacts DEF CallType
  <2>3. /\ t \in CallType /\ t.pc = r.pc /\ t.silent = r.silent
        /\ t.choice = Choices[r.menu][r.key] /\ t.known = r.known /\ t.passed = r.passed
        /\ t.challenge = r.challenge /\ t.outcome = r.outcome
    BY <1>a, <1>c, <2>2, SetFacts DEF Chosen, CallType
  <2>4. /\ t.choice \in Choice /\ t.choice # NoChoice
        /\ t.choice.kind = "menu" => t.choice.target \in Menus
    BY <2>2, <2>3, ConstantFacts
  <2> HIDE DEF t
  <2>5. /\ Carries(t) /\ t.silent <= Repeat /\ (t.known => t.passed)
    BY <1>b, <2>1, <2>3 DEF Carries
  <2>6. ASSUME t.choice.kind = "extension", NEW outcome \in {"extension", "voicemail"},
               Becomes(c, Settle(t, outcome))
        PROVE  CallsOK'
    <3>1. CallOK(Settle(t, outcome))
      BY <2>4, <2>5, <2>6, SettleOK DEF Outcome
    <3> QED BY <1>a, <2>6, <3>1, OneMoves DEF Becomes
  <2>7. CASE t.choice.kind = "voicemail" /\ Becomes(c, Settle(t, "voicemail"))
    <3>1. CallOK(Settle(t, "voicemail"))
      BY <2>4, <2>5, <2>7, SettleOK DEF Outcome
    <3> QED BY <1>a, <2>7, <3>1, OneMoves DEF Becomes
  <2>8. CASE t.choice.kind = "menu" /\ Becomes(c, Offer([t EXCEPT !.menu = t.choice.target], ""))
    <3> DEFINE v == [t EXCEPT !.menu = t.choice.target]
    <3>1. /\ v \in CallType /\ v.silent = t.silent /\ v.known = t.known
          /\ v.choice = t.choice /\ v.passed = t.passed /\ v.challenge = t.challenge
          /\ v.outcome = t.outcome
      BY <2>3, <2>4, <2>8 DEF CallType
    <3>2. Becomes(c, Offer(v, ""))
      BY <2>8
    <3> HIDE DEF v
    <3>3. Carries(v) /\ v.silent <= Repeat /\ (v.known => v.passed)
      BY <2>5, <3>1 DEF Carries
    <3>4. CallOK(Offer(v, ""))
      BY <1>c, <3>3, OfferOK
    <3> QED BY <1>a, <3>2, <3>4, OneMoves DEF Becomes
  <2>9. ASSUME NEW pc \in {"recording", "listen"}, Becomes(c, At(t, pc))
        PROVE  CallsOK'
    <3> DEFINE v == At(t, pc)
    <3>1. /\ v \in CallType /\ v.pc = pc /\ v.silent = t.silent /\ v.known = t.known
          /\ v.choice = t.choice /\ v.passed = t.passed /\ v.challenge = t.challenge
          /\ v.outcome = t.outcome
      BY <1>c, <2>3 DEF At, CallType
    <3>2. call' = [call EXCEPT ![c] = v]
      BY <2>9 DEF Becomes
    <3> HIDE DEF v
    <3>3. CountsOK(v) /\ PassOK(v)
      BY <2>5, <3>1 DEF CountsOK, PassOK, Carries, Collecting, Challenged
    <3>4. ChoiceOK(v) /\ OutcomeOK(v)
      BY <2>4, <2>5, <3>1 DEF ChoiceOK, OutcomeOK, Carries, Challenged
    <3> QED BY <1>a, <3>1, <3>2, <3>3, <3>4, OneMoves DEF CallOK
  <2>10. \/ /\ t.choice.kind = "extension"
            /\ \E outcome \in {"extension", "voicemail"} : Becomes(c, Settle(t, outcome))
         \/ t.choice.kind = "voicemail" /\ Becomes(c, Settle(t, "voicemail"))
         \/ t.choice.kind = "menu" /\ Becomes(c, Offer([t EXCEPT !.menu = t.choice.target], ""))
         \/ \E pc \in {"recording", "listen"} : Becomes(c, At(t, pc))
    BY <1>6 DEF TakeChoice, t
  <2> QED BY <2>6, <2>7, <2>8, <2>9, <2>10
<1>7. CASE RecordingEnds(c) \/ Listen(c)
  <2>1. r.pc \in Walking /\ r.choice # NoChoice
    BY <1>7, <1>a, <1>c DEF RecordingEnds, Listen, CallOK, ChoiceOK
  <2>2. ASSUME NEW key \in KeyOrNone, Continues(c, Offer(r, key)) PROVE CallsOK'
    <3>1. CallOK(Offer(r, key)) /\ Offer(r, key).gone = r.gone
      BY <1>f, <2>1 DEF Same
    <3> QED BY <1>a, <2>2, <3>1, ContinuesOK
  <2>3. ASSUME NEW outcome \in {"listening", "dismissed"}, Continues(c, Settle(r, outcome))
        PROVE  CallsOK'
    <3>1. CallOK(Settle(r, outcome))
      BY <1>b, <2>1, SettleOK DEF Outcome
    <3>2. Settle(r, outcome).gone = r.gone
      BY <1>a, SameSettle DEF Outcome, Same
    <3> QED BY <1>a, <2>3, <3>1, <3>2, ContinuesOK
  <2> QED BY <1>7, <1>c, <2>2, <2>3 DEF RecordingEnds, Listen
<1> QED BY <1>1, <1>2, <1>3, <1>4, <1>5, <1>6, <1>7

-----------------------------------------------------------------------------
(* Time, and the limiters. *)

LEMMA TimeOK ==
    ASSUME CallsOK, NEW c \in Call, Silence(c) \/ Deadline(c) \/ Unwind(c)
    PROVE  CallsOK'
<1> DEFINE r == call[c]
<1>a. CallOK(r) /\ r \in CallType
  BY DEF CallsOK
<1>b. r.pc # "over" => Carries(r)
  BY <1>a, UnderWay
\* A flag is all that changes.
<1>c. ASSUME r.pc # "over", NEW t \in CallType,
             t.pc = r.pc, t.known = r.known, t.choice = r.choice, t.passed = r.passed,
             t.challenge = r.challenge, t.outcome = r.outcome, t.attempts = r.attempts,
             t.tries = r.tries, t.silent = r.silent, t.guard = r.guard, t.key = r.key,
             t.menu = r.menu, call' = [call EXCEPT ![c] = t]
      PROVE  CallsOK'
  <2>1. CountsOK(t) /\ PassOK(t) /\ ChoiceOK(t)
    BY <1>a, <1>c DEF CallOK, CountsOK, PassOK, ChoiceOK
  <2>2. CallOK(t)
    BY <1>a, <1>c, <2>1, GoesOn
  <2> QED BY <1>c, <2>2, OneMoves
<1>1. CASE Silence(c)
  <2> DEFINE t == [r EXCEPT !.waited = TRUE]
  <2>1. r.pc # "over" /\ call' = [call EXCEPT ![c] = t]
    BY <1>1 DEF Silence, Waits, Becomes
  <2>2. /\ t \in CallType
        /\ t.pc = r.pc /\ t.known = r.known /\ t.choice = r.choice /\ t.passed = r.passed
        /\ t.challenge = r.challenge /\ t.outcome = r.outcome /\ t.attempts = r.attempts
        /\ t.tries = r.tries /\ t.silent = r.silent /\ t.guard = r.guard /\ t.key = r.key
        /\ t.menu = r.menu
    BY <1>a DEF CallType
  <2> HIDE DEF t
  <2> QED BY <1>c, <2>1, <2>2
<1>2. CASE Deadline(c)
  <2> DEFINE t == [r EXCEPT !.late = TRUE]
  <2>1. r.pc # "over" /\ call' = [call EXCEPT ![c] = t]
    BY <1>2 DEF Deadline, Walking, Challenged, Becomes
  <2>2. /\ t \in CallType
        /\ t.pc = r.pc /\ t.known = r.known /\ t.choice = r.choice /\ t.passed = r.passed
        /\ t.challenge = r.challenge /\ t.outcome = r.outcome /\ t.attempts = r.attempts
        /\ t.tries = r.tries /\ t.silent = r.silent /\ t.guard = r.guard /\ t.key = r.key
        /\ t.menu = r.menu
    BY <1>a DEF CallType
  <2> HIDE DEF t
  <2> QED BY <1>c, <2>1, <2>2
<1>3. CASE Unwind(c)
  <2> DEFINE t == At(r, "over")
  <2>1. r.pc # "over" /\ r.gone /\ call' = [call EXCEPT ![c] = t] /\ "over" \in Place
    BY <1>3, SetFacts DEF Unwind, Waits, Becomes
  <2>2. /\ t \in CallType /\ t.pc = "over" /\ t.gone
        /\ t.known = r.known /\ t.choice = r.choice /\ t.passed = r.passed
        /\ t.challenge = r.challenge /\ t.outcome = r.outcome
    BY <1>a, <2>1 DEF At, CallType
  <2> HIDE DEF t
  <2>3. CountsOK(t) /\ PassOK(t) /\ ChoiceOK(t) /\ OutcomeOK(t)
    BY <1>b, <2>1, <2>2
       DEF CountsOK, PassOK, ChoiceOK, OutcomeOK, Carries, Collecting, Walking, Challenged
  <2>4. CallOK(t)
    BY <2>2, <2>3 DEF CallOK
  <2> QED BY <2>1, <2>4, OneMoves
<1> QED BY <1>1, <1>2, <1>3

LEMMA CallsInductive ==
    ASSUME CallsOK, [Next]_vars
    PROVE  CallsOK'
<1>1. ASSUME NEW c \in Call, Arrive(c) \/ HangUp(c) \/ Session(c) \/ Silence(c) \/ Deadline(c)
      PROVE  CallsOK'
  <2>1. CASE \/ Arrive(c) \/ HangUp(c) \/ Finish(c) \/ DismissBlocked(c) \/ Welcome(c)
             \/ Greet(c) \/ GreetingEnds(c)
    BY <2>1, ArrivalOK
  <2>2. CASE CollectSeed(c) \/ CollectTimer(c) \/ InvalidEnds(c)
    BY <2>2, CollectorOK
  <2>3. CASE \/ ChallengeBegins(c) \/ ExplainEnds(c) \/ Ask(c) \/ AnswerTimer(c)
             \/ TryAgainEnds(c) \/ SolvedEnds(c)
    BY <2>3, ChallengedOK
  <2>4. CASE \/ MenuPlay(c) \/ MenuWaitTimer(c) \/ MenuKeyAgain(c) \/ MenuChoose(c)
             \/ TakeChoice(c) \/ RecordingEnds(c) \/ Listen(c)
    BY <2>4, MenuOK
  <2>5. CASE Silence(c) \/ Deadline(c) \/ Unwind(c)
    BY <2>5, TimeOK
  <2> QED BY <1>1, <2>1, <2>2, <2>3, <2>4, <2>5 DEF Session
<1>2. ASSUME NEW c \in Call, NEW key \in Key, Press(c, key)
      PROVE  CallsOK'
  <2>1. CASE BargeGreeting(c, key) \/ CollectKey(c, key)
    BY <2>1, CollectorOK
  <2>2. CASE AnswerKey(c, key)
    BY <2>2, ChallengedOK
  <2>3. CASE MenuWaitKey(c, key)
    BY <2>3, MenuOK
  <2> QED BY <1>2, <2>1, <2>2, <2>3 DEF Press
<1>3. CASE Sweep \/ Tick \/ UNCHANGED vars
  BY <1>3 DEF Sweep, Tick, vars, CallsOK, CallOK, CountsOK, PassOK, ChoiceOK, OutcomeOK
<1> QED BY <1>1, <1>2, <1>3 DEF Next

LEMMA InitCalls == Init => CallsOK
<1>1. CallOK(Free)
  <2> DEFINE n == CHOOSE n \in Number : TRUE
  <2>1. n \in Number
    <3>1. \E m \in Number : TRUE
      BY DoorAssumption
    <3> QED BY <3>1
  <2> QED BY <2>1, FreshOK DEF Free
<1> QED BY <1>1 DEF Init, CallsOK, CallOK

-----------------------------------------------------------------------------
(* The limiters are finite sets of moments. *)

Limiter == {F \in [Number -> SUBSET (Nat \X Nat)] : \A n \in Number : IsFiniteSet(F[n])}

LEMMA RecentIs ==
    ASSUME NEW S \in SUBSET (Nat \X Nat), IsFiniteSet(S)
    PROVE  /\ Recent(S) \in SUBSET (Nat \X Nat) /\ IsFiniteSet(Recent(S))
           /\ Recent(S) \subseteq S /\ Recent(Recent(S)) = Recent(S)
BY FS_Subset DEF Recent

\* There is always another serial number.
LEMMA SerialIs ==
    ASSUME NEW S, IsFiniteSet(S)
    PROVE  Serial(S) \in Nat
<1> DEFINE N == Cardinality(S) + 1
           f == [k \in 1 .. N |-> <<now, k>>]
<1>1. Cardinality(S) \in Nat
  BY FS_CardinalityType
<1>2. IsFiniteSet(1 .. N) /\ Cardinality(1 .. N) = N
  BY <1>1, FS_Interval
<1>3. \E k \in 1 .. N : <<now, k>> \notin S
  <2> SUFFICES ASSUME \A k \in 1 .. N : <<now, k>> \in S PROVE FALSE
    OBVIOUS
  <2>1. f \in [1 .. N -> S]
    OBVIOUS
  <2> HIDE DEF f
  <2>2. \E x, y \in 1 .. N : x # y /\ f[x] = f[y]
    BY <1>1, <1>2, <2>1, FS_PigeonHole
  <2> QED BY <2>2 DEF f
<1>4. Serial(S) \in 1 .. N
  BY <1>3 DEF Serial
<1> QED BY <1>1, <1>4

LEMMA LimiterKept ==
    ASSUME NEW F \in Limiter, NEW n \in Number, now \in Nat
    PROVE  Failure(F, n) \in Limiter /\ Pruned(F, n) \in Limiter /\ Success(F, n) \in Limiter
<1>1. ASSUME NEW S \in SUBSET (Nat \X Nat), IsFiniteSet(S)
      PROVE  [F EXCEPT ![n] = S] \in Limiter
  BY <1>1 DEF Limiter
<1>2. F[n] \in SUBSET (Nat \X Nat) /\ IsFiniteSet(F[n])
  BY DEF Limiter
<1>3. Recent(F[n]) \in SUBSET (Nat \X Nat) /\ IsFiniteSet(Recent(F[n]))
  BY <1>2, RecentIs
<1>4. Pruned(F, n) \in Limiter
  BY <1>1, <1>3 DEF Pruned, Limiter
<1>5. Success(F, n) \in Limiter
  BY <1>1, FS_EmptySet DEF Success
<1>6. Failure(F, n) \in Limiter
  <2> DEFINE S == Recent(F[n]) \cup {<<now, Serial(Recent(F[n]))>>}
  <2>1. S \in SUBSET (Nat \X Nat) /\ IsFiniteSet(S)
    <3>1. Serial(Recent(F[n])) \in Nat
      BY <1>3, SerialIs
    <3>2. IsFiniteSet(S)
      BY <1>3, FS_AddElement
    <3> HIDE DEF S
    <3>3. \A x \in S : x \in Recent(F[n]) \/ x = <<now, Serial(Recent(F[n]))>>
      BY DEF S
    <3> QED BY <1>3, <3>1, <3>2, <3>3
  <2>2. Failure(F, n) = [F EXCEPT ![n] = S]
    BY DEF Failure
  <2> HIDE DEF S
  <2> QED BY <1>1, <2>1, <2>2
<1> QED BY <1>4, <1>5, <1>6

-----------------------------------------------------------------------------
(* The steps by what they do to the limiters and to the guesses of a call.  *)

Asked == Challenged \ {"challenge", "solved"}

\* A step that gives a call no new guess, of a PIN or of a sum.
Tame(r, t) ==
    /\ t.pc \in Collecting =>
          r.pc \in Collecting /\ t.number = r.number /\ t.attempts >= r.attempts
    /\ t.pc \in Asked =>
          r.pc \in Asked /\ t.number = r.number /\ t.tries >= r.tries

Quiet(c) == \E t : Becomes(c, t) /\ Tame(call[c], t)

\* An entry about to be looked at.
Guess(c) ==
    \E e \in CallType :
        /\ Evaluate(c, e)
        /\ call[c].pc = "collect" /\ e.pc = "collect"
        /\ e.number = call[c].number /\ e.attempts = call[c].attempts

Outside(t) == t.pc \notin Collecting \cup Asked

LEMMA QuietBy ==
    ASSUME NEW c \in Call, NEW t, Becomes(c, t), Outside(t) \/ Tame(call[c], t)
    PROVE  Quiet(c)
BY DEF Quiet, Outside, Tame

LEMMA Places ==
    /\ \A pc \in {"free", "door", "over", "challenge", "solved"} \cup Walking :
          pc \notin Collecting \cup Asked
    /\ \A pc \in {"greeting", "welcome", "collect", "invalid"} :
          pc \in Collecting /\ pc \notin Asked
    /\ \A pc \in {"explain", "ask", "answer", "tryAgain"} :
          pc \in Asked /\ pc \notin Collecting
BY DEF Collecting, Asked, Challenged, Walking

\* Where the session's functions send a call there is nothing to guess.
LEMMA OutsideSettle == ASSUME NEW r \in CallType, NEW o PROVE Outside(Settle(r, o))
BY Places DEF Settle, CallType, Outside

LEMMA OutsideAt ==
    ASSUME NEW r \in CallType, NEW pc \in {"over", "challenge", "solved"} \cup Walking
    PROVE  Outside(At(r, pc))
BY Places DEF At, CallType, Outside

LEMMA QuietIf ==
    ASSUME CallsOK, CallsOK', NEW c \in Call, NEW t, Continues(c, t),
           Outside(t) \/ Tame(call[c], t)
    PROVE  Quiet(c)
<1>1. CASE call[c].gone
  <2> DEFINE u == At(t, "over")
  <2>1. call' = [call EXCEPT ![c] = u]
    BY <1>1 DEF Continues, Becomes
  <2>2. u \in CallType
    BY <2>1 DEF CallsOK
  <2>3. u.pc = "over"
    BY <2>2 DEF At, CallType
  <2>4. Becomes(c, u)
    BY <2>1 DEF Continues, Becomes
  <2> HIDE DEF u
  <2>5. Outside(u)
    BY <2>3, Places DEF Outside
  <2> QED BY <2>4, <2>5, QuietBy
<1>2. CASE ~call[c].gone
  <2>1. Becomes(c, t)
    BY <1>2 DEF Continues, Becomes
  <2> QED BY <2>1, QuietBy
<1> QED BY <1>1, <1>2

LEMMA OutsideChallenge ==
    ASSUME NEW r \in CallType, NEW guard PROVE Outside(Challenge(r, guard))
BY Places DEF Challenge, At, CallType, Outside

LEMMA OutsideDisposition ==
    ASSUME NEW r \in CallType PROVE Outside(Unguarded(r)) /\ Outside(Disposition(r))
<1>1. Outside(Unguarded(r))
  BY ConstantFacts, OutsideSettle DEF Unguarded
<1> QED BY <1>1, OutsideSettle, OutsideChallenge DEF Disposition

LEMMA OutsideOffer ==
    ASSUME NEW r \in CallType, NEW key PROVE Outside(Offer(r, key))
<1> DEFINE pc == IF key \in {"", "#"} THEN "menuPlay" ELSE "menuKey"
<1>1. pc \in Walking
  BY DEF Walking
<1>2. Outside([At(r, pc) EXCEPT !.plays = @ + 1, !.key = key])
  BY <1>1, Places DEF At, CallType, Outside
<1> QED BY <1>2, OutsideSettle, OutsideDisposition DEF Offer

LEMMA OutsideWalk ==
    ASSUME NEW r \in CallType, NEW key, NEW passed \in BOOLEAN
    PROVE  Outside(WalkMenu(r, key, passed))
<1>1. [r EXCEPT !.menu = FrontMenu, !.passed = passed, !.plays = 0,
                !.silent = 0, !.late = FALSE] \in CallType
  <2>1. FrontMenu \in Menus /\ 0 \in Plays /\ 0 \in Silences
    BY SetFacts
  <2> QED BY <2>1 DEF CallType
<1> QED BY <1>1, OutsideOffer DEF WalkMenu

LEMMA GuessFromKey ==
    ASSUME CallsOK, NEW c \in Call, NEW r \in CallType, NEW key \in Key, Handle(c, r, key),
           call[c].pc = "collect", r.pc = "collect",
           r.number = call[c].number, r.attempts = call[c].attempts
    PROVE  Guess(c) \/ Quiet(c)
<1>a. call[c] \in CallType /\ call[c].attempts \in Nat
  BY SetFacts DEF CallsOK, CallType
<1>b. r.digits \in Nat /\ r.digits + 1 \in Nat
  BY DEF CallType
<1>1. ASSUME NEW d \in Nat PROVE Tame(call[c], [At(r, "collect") EXCEPT !.digits = d])
  BY <1>a, Places DEF At, CallType, Tame
<1>2. [At(r, "collect") EXCEPT !.digits = @ + 1] = [At(r, "collect") EXCEPT !.digits = r.digits + 1]
  BY DEF At, CallType
<1>3. CASE Becomes(c, [At(r, "collect") EXCEPT !.digits = 0])
  BY <1>1, <1>3, QuietBy
<1>4. CASE Becomes(c, [At(r, "collect") EXCEPT !.digits = @ + 1])
  BY <1>b, <1>1, <1>2, <1>4, QuietBy
<1>5. CASE Evaluate(c, r)
  BY <1>5 DEF Guess
<1>6. CASE Evaluate(c, [r EXCEPT !.digits = @ + 1])
  <2> DEFINE e == [r EXCEPT !.digits = @ + 1]
  <2>1. e \in CallType /\ e.pc = "collect" /\ e.number = r.number /\ e.attempts = r.attempts
    BY <1>b DEF CallType
  <2> HIDE DEF e
  <2>2. Evaluate(c, e)
    BY <1>6 DEF e
  <2> QED BY <2>1, <2>2 DEF Guess
<1>7. key = "*" \/ key = "#" \/ key \in Digit
  BY DEF Key
<1>8. r.digits + 1 < Longest \/ r.digits + 1 >= Longest
  BY <1>b, LongestFacts
<1>9. CASE key = "*"
  BY <1>3, <1>9, DigitFacts DEF Handle
<1>10. CASE key = "#"
  BY <1>5, <1>10, DigitFacts DEF Handle
<1>11. CASE key \in Digit
  BY <1>4, <1>6, <1>8, <1>11, DigitFacts DEF Handle
<1> QED BY <1>7, <1>9, <1>10, <1>11

\* The steps of a call that leave the limiters alone.
LEMMA QuietSteps ==
    ASSUME CallsOK, CallsOK', NEW c \in Call,
           \/ Arrive(c) \/ HangUp(c) \/ Finish(c) \/ DismissBlocked(c) \/ GreetingEnds(c)
           \/ InvalidEnds(c) \/ ExplainEnds(c) \/ Ask(c) \/ TryAgainEnds(c) \/ SolvedEnds(c)
           \/ MenuPlay(c) \/ MenuWaitTimer(c) \/ MenuKeyAgain(c) \/ MenuChoose(c)
           \/ TakeChoice(c) \/ RecordingEnds(c) \/ Listen(c)
           \/ Silence(c) \/ Deadline(c) \/ Unwind(c)
           \/ \E key \in Key : BargeGreeting(c, key) \/ MenuWaitKey(c, key)
    PROVE  Quiet(c)
<1> DEFINE r == call[c]
<1>a. CallOK(r) /\ r \in CallType /\ r.attempts \in Nat /\ r.tries \in Nat
  BY SetFacts DEF CallsOK, CallType
<1>b. "over" \in {"over", "challenge", "solved"} \cup Walking
  OBVIOUS
\* The same place, with a flag up.
<1>c. ASSUME NEW t, t.pc = r.pc, t.number = r.number, t.attempts = r.attempts, t.tries = r.tries
      PROVE  Tame(r, t)
  BY <1>a, <1>c DEF Tame
<1>d. ASSUME NEW t, t.pc \in Walking PROVE Outside(t)
  BY <1>d, Places DEF Outside
<1>1. CASE Arrive(c)
  <2>1. ASSUME NEW n \in Number PROVE Outside(Fresh(n))
    BY Places DEF Fresh, Outside
  <2> QED BY <1>1, <2>1, QuietBy DEF Arrive
<1>2. CASE HangUp(c)
  <2>1. Tame(r, [r EXCEPT !.gone = TRUE])
    BY <1>a, <1>c DEF CallType
  <2> QED BY <1>2, <2>1, QuietBy DEF HangUp
<1>3. CASE Finish(c)
  <2>1. Outside(Free)
    BY Places DEF Free, Fresh, Outside
  <2> QED BY <1>3, <2>1, QuietBy DEF Finish
<1>4. CASE DismissBlocked(c)
  BY <1>a, <1>4, OutsideSettle, QuietBy DEF DismissBlocked
<1>5. ASSUME r.pc \in {"greeting", "welcome"}, NEW t,
             \/ t = Collect(r)
             \/ \E key \in Key : t = [Collect(r) EXCEPT !.key = key]
      PROVE  Tame(r, t)
  <2>1. t.pc = "collect" /\ t.number = r.number /\ t.attempts = 0 /\ r.attempts = 0
    BY <1>a, <1>5 DEF Collect, At, CallType, CallOK, CountsOK
  <2> QED BY <1>5, <2>1, Places DEF Tame
<1>6. CASE GreetingEnds(c)
  BY <1>a, <1>5, <1>6, OutsideSettle, QuietIf DEF GreetingEnds
<1>7. ASSUME NEW key \in Key, BargeGreeting(c, key) PROVE Quiet(c)
  <2>1. CASE r.pc = "welcome" /\ Continues(c, WalkMenu(r, key, TRUE))
    BY <1>a, <2>1, OutsideWalk, QuietIf
  <2>2. CASE /\ r.pc \in {"greeting", "welcome"}
             /\ Continues(c, [Collect(r) EXCEPT !.key = key])
    BY <1>5, <2>2, QuietIf
  <2> QED BY <1>7, <2>1, <2>2 DEF BargeGreeting
<1>8. CASE InvalidEnds(c)
  <2>1. Tame(r, At(r, "collect"))
    BY <1>a, <1>8, Places DEF InvalidEnds, At, CallType, Tame
  <2> QED BY <1>8, <2>1, QuietIf DEF InvalidEnds
<1>9. CASE ExplainEnds(c)
  <2>1. Tame(r, At(r, "ask"))
    BY <1>a, <1>9, Places DEF ExplainEnds, At, CallType, Tame
  <2> QED BY <1>9, <2>1, QuietIf DEF ExplainEnds
<1>10. CASE Ask(c)
  <2>1. Tame(r, [At(r, "answer") EXCEPT !.digits = 0])
    BY <1>a, <1>10, Places DEF Ask, At, CallType, Tame
  <2> QED BY <1>10, <2>1, QuietIf DEF Ask
<1>11. CASE TryAgainEnds(c)
  <2>1. Tame(r, [At(r, "ask") EXCEPT !.repeats = 0])
    BY <1>a, <1>11, Places DEF TryAgainEnds, At, CallType, Tame
  <2> QED BY <1>11, <2>1, QuietIf DEF TryAgainEnds
<1>12. CASE SolvedEnds(c)
  <2>1. Outside([At(r, "choice") EXCEPT !.passed = TRUE])
    BY <1>a, Places DEF At, CallType, Outside, Walking
  <2> QED BY <1>a, <1>12, <2>1, OutsideDisposition, QuietIf DEF SolvedEnds
<1>13. ASSUME NEW key, Continues(c, [At(r, "menuKey") EXCEPT !.key = key]) PROVE Quiet(c)
  <2>1. Outside([At(r, "menuKey") EXCEPT !.key = key])
    BY <1>a, Places DEF At, CallType, Outside, Walking
  <2> QED BY <1>13, <2>1, QuietIf
<1>14. CASE MenuPlay(c)
  <2>1. Outside(At(r, "menuWait"))
    BY <1>a, OutsideAt DEF Walking
  <2> QED BY <1>13, <1>14, <2>1, QuietIf DEF MenuPlay
<1>15. ASSUME NEW key \in Key, MenuWaitKey(c, key) PROVE Quiet(c)
  BY <1>13, <1>15 DEF MenuWaitKey
<1>16. CASE MenuWaitTimer(c)
  <2> DEFINE t == [r EXCEPT !.silent = @ + 1, !.key = ""]
  <2>1. r.silent + 1 \in Silences /\ "" \in KeyOrNone
    BY <1>a, <1>16, SetFacts DEF MenuWaitTimer, CallOK, CountsOK, CallType, Walking
  <2>2. t \in CallType
    BY <1>a, <2>1 DEF CallType
  <2>3. Continues(c, IF t.silent > Repeat THEN Disposition(t) ELSE Offer(t, ""))
    BY <1>16 DEF MenuWaitTimer
  <2> HIDE DEF t
  <2> QED BY <2>2, <2>3, OutsideDisposition, OutsideOffer, QuietIf
<1>17. [r EXCEPT !.silent = 0] \in CallType
  BY <1>a, SetFacts DEF CallType
<1>18. CASE MenuKeyAgain(c)
  BY <1>17, <1>18, OutsideOffer, QuietBy DEF MenuKeyAgain
<1>19. CASE MenuChoose(c)
  <2> DEFINE t == [r EXCEPT !.silent = 0]
  <2>1. Becomes(c, IF Choices[t.menu][t.key].challenge /\ ~t.passed
                   THEN Challenge(t, "choice") ELSE At(t, "choice"))
    BY <1>19 DEF MenuChoose
  <2>2. t \in CallType
    BY <1>17
  <2> HIDE DEF t
  <2>3. Outside(Challenge(t, "choice")) /\ Outside(At(t, "choice"))
    BY <2>2, OutsideChallenge, OutsideAt DEF Walking
  <2> QED BY <2>1, <2>3, QuietBy
<1>20. CASE TakeChoice(c)
  <2> DEFINE t == Chosen(c)
  <2>1. r.key \in DOMAIN Choices[r.menu] /\ r.menu \in Menus
    BY <1>20, <1>a DEF TakeChoice, CallOK, ChoiceOK, CallType
  <2>2. Choices[r.menu][r.key] \in ChoiceOrNone /\ "" \in KeyOrNone
    BY <2>1, MenuFacts, SetFacts
  <2>3. t \in CallType
    BY <1>a, <2>2 DEF Chosen, CallType
  <2>4. \/ \E outcome : Becomes(c, Settle(t, outcome))
        \/ t.choice.kind = "menu" /\ Becomes(c, Offer([t EXCEPT !.menu = t.choice.target], ""))
        \/ \E pc \in {"recording", "listen"} : Becomes(c, At(t, pc))
    BY <1>20 DEF TakeChoice, t
  <2>5. t.choice.kind = "menu" => [t EXCEPT !.menu = t.choice.target] \in CallType
    <3>1. t.choice = Choices[r.menu][r.key]
      BY <1>a DEF Chosen, CallType
    <3>2. t.choice.kind = "menu" => t.choice.target \in Menus
      BY <2>1, <3>1, MenuFacts
    <3> HIDE DEF t
    <3> QED BY <2>3, <3>2 DEF CallType
  <2> HIDE DEF t
  <2>6. ASSUME NEW pc \in {"recording", "listen"} PROVE Outside(At(t, pc))
    BY <2>3, OutsideAt DEF Walking
  <2> QED BY <2>3, <2>4, <2>5, <2>6, OutsideSettle, OutsideOffer, QuietBy
<1>21. CASE RecordingEnds(c) \/ Listen(c)
  BY <1>a, <1>21, OutsideSettle, OutsideOffer, QuietIf DEF RecordingEnds, Listen
<1>22. CASE Silence(c)
  <2>1. Tame(r, [r EXCEPT !.waited = TRUE])
    BY <1>a, <1>c DEF CallType
  <2> QED BY <1>22, <2>1, QuietBy DEF Silence
<1>23. CASE Deadline(c)
  <2>1. Tame(r, [r EXCEPT !.late = TRUE])
    BY <1>a, <1>c DEF CallType
  <2> QED BY <1>23, <2>1, QuietBy DEF Deadline
<1>24. CASE Unwind(c)
  BY <1>a, <1>b, <1>24, OutsideAt, QuietBy DEF Unwind
<1> QED BY <1>1, <1>2, <1>3, <1>4, <1>6, <1>7, <1>8, <1>9, <1>10, <1>11, <1>12, <1>14,
           <1>15, <1>16, <1>18, <1>19, <1>20, <1>21, <1>22, <1>23, <1>24

LEMMA StepKinds ==
    ASSUME CallsOK, CallsOK', Next
    PROVE  \/ Sweep \/ Tick
           \/ \E c \in Call :
                 \/ Welcome(c) \/ Greet(c) \/ ChallengeBegins(c)
                 \/ call[c].pc = "answer" /\ Failed(c)
                 \/ Guess(c) \/ Quiet(c)
<1>1. ASSUME NEW c \in Call, call[c].pc = "answer", NEW digits, Answered(c, digits)
      PROVE  Failed(c) \/ Quiet(c)
  <2>1. call[c] \in CallType
    BY DEF CallsOK
  <2>2. Outside([At(call[c], "solved") EXCEPT !.challenge = "passed"])
    BY <2>1, Places DEF At, CallType, Outside
  <2> QED BY <1>1, <2>2, QuietBy DEF Answered, Solved
<1>2. ASSUME NEW c \in Call, AnswerTimer(c)
      PROVE  Quiet(c) \/ (call[c].pc = "answer" /\ Failed(c))
  <2>1. [call[c] EXCEPT !.challenge = "no-answer"] \in CallType
    <3>1. call[c] \in CallType /\ "no-answer" \in Verdict
      BY SetFacts DEF CallsOK
    <3> QED BY <3>1 DEF CallType
  <2> QED BY <1>1, <1>2, <2>1, OutsideSettle, QuietBy DEF AnswerTimer
<1>3. ASSUME NEW c \in Call, NEW key \in Key, AnswerKey(c, key)
      PROVE  Quiet(c) \/ (call[c].pc = "answer" /\ Failed(c))
  <2> DEFINE r == call[c]
  <2>1. r \in CallType /\ r.pc = "answer" /\ r.tries \in Nat /\ r.digits + 1 \in Nat
        /\ r.repeats \in 0 .. MaxRepeats
    <3>1. r \in CallType
      BY DEF CallsOK
    <3>2. r.digits \in Nat /\ r.tries \in Tries /\ r.repeats \in Repeats
      BY <3>1 DEF CallType
    <3>3. r.tries \in Nat
      BY <3>2, SetFacts
    <3>4. r.digits + 1 \in Nat
      BY <3>2
    <3>5. r.repeats \in 0 .. MaxRepeats
      BY <3>2 DEF Repeats
    <3> QED BY <1>3, <3>1, <3>3, <3>4, <3>5 DEF AnswerKey
  <2>2. /\ Tame(r, [At(r, "ask") EXCEPT !.repeats = @ + 1])
        /\ Tame(r, [At(r, "answer") EXCEPT !.digits = 0])
        /\ Tame(r, [At(r, "answer") EXCEPT !.digits = @ + 1])
    BY <2>1, Places DEF At, CallType, Tame
  <2>3. key = "*" \/ key = "#" \/ key \in Digit
    BY DEF Key
  <2>4. CASE key = "#"
    BY <1>1, <1>3, <2>1, <2>4, DigitFacts DEF AnswerKey
  <2>5. CASE key = "*"
    <3>1. r.repeats < MaxRepeats \/ r.repeats = MaxRepeats
      BY <2>1, ConstantFacts
    <3> QED BY <1>3, <2>2, <2>5, <3>1, DigitFacts, QuietBy DEF AnswerKey
  <2>6. CASE key \in Digit
    <3>1. r.digits + 1 < AnswerDigits \/ r.digits + 1 >= AnswerDigits
      BY <2>1, ConstantFacts
    <3> QED BY <1>1, <1>3, <2>1, <2>2, <2>6, <3>1, DigitFacts, QuietBy DEF AnswerKey
  <2> QED BY <2>3, <2>4, <2>5, <2>6
<1>4. ASSUME NEW c \in Call, CollectSeed(c) \/ CollectTimer(c)
      PROVE  Guess(c) \/ Quiet(c)
  <2>0. call[c] \in CallType
    BY DEF CallsOK
  <2>1. CASE CollectSeed(c)
    <3> DEFINE r == [call[c] EXCEPT !.key = ""]
    <3>0. "" \in KeyOrNone
      BY SetFacts
    <3>1. /\ r \in CallType /\ r.pc = "collect" /\ r.number = call[c].number
          /\ r.attempts = call[c].attempts /\ call[c].pc = "collect"
      BY <2>0, <2>1, <3>0 DEF CollectSeed, CallType
    <3>2. Handle(c, r, call[c].key) /\ call[c].key \in Key
      BY <2>0, <2>1 DEF CollectSeed, CallType, KeyOrNone
    <3> HIDE DEF r
    <3> QED BY <3>1, <3>2, GuessFromKey
  <2>2. CASE CollectTimer(c)
    BY <2>0, <2>2, OutsideDisposition, QuietBy DEF CollectTimer, Guess
  <2> QED BY <1>4, <2>1, <2>2
<1>5. ASSUME NEW c \in Call, NEW key \in Key, CollectKey(c, key)
      PROVE  Guess(c) \/ Quiet(c)
  <2>1. call[c] \in CallType
    BY DEF CallsOK
  <2> QED BY <1>5, <2>1, GuessFromKey DEF CollectKey
<1>6. ASSUME NEW c \in Call, Arrive(c) \/ HangUp(c) \/ Session(c) \/ Silence(c) \/ Deadline(c)
      PROVE  \/ Welcome(c) \/ Greet(c) \/ ChallengeBegins(c)
             \/ call[c].pc = "answer" /\ Failed(c)
             \/ Guess(c) \/ Quiet(c)
  BY <1>2, <1>4, <1>6, QuietSteps DEF Session
<1>7. ASSUME NEW c \in Call, NEW key \in Key, Press(c, key)
      PROVE  \/ call[c].pc = "answer" /\ Failed(c)
             \/ Guess(c) \/ Quiet(c)
  BY <1>3, <1>5, <1>7, QuietSteps DEF Press
<1> QED BY <1>6, <1>7 DEF Next

-----------------------------------------------------------------------------
(* Finite sums of failures and guesses. *)


Token == Call \X (1 .. MaxPinAttempts + 1)

LEMMA TokenFacts ==
    /\ IsFiniteSet(Token) /\ Cardinality(Token) = Cardinality(Call) * (MaxPinAttempts + 1)
    /\ Cardinality(Call) \in Nat /\ Most \in Nat
<1>1. IsFiniteSet(Call) /\ MaxPinAttempts \in Nat /\ MaxFailures \in Nat \ {0}
  BY ConstantFacts
<1>2. IsFiniteSet(1 .. MaxPinAttempts + 1)
      /\ Cardinality(1 .. MaxPinAttempts + 1) = MaxPinAttempts + 1
  BY <1>1, FS_Interval
<1>3. Cardinality(Call) \in Nat
  BY <1>1, FS_CardinalityType
<1>4. IsFiniteSet(Token) /\ Cardinality(Token) = Cardinality(Call) * (MaxPinAttempts + 1)
  BY <1>1, <1>2, FS_Product DEF Token
<1>5. Cardinality(Call) * (MaxPinAttempts + 1) \in Nat
  <2>1. Cardinality(Token) \in Nat
    BY <1>4, FS_CardinalityType
  <2> QED BY <1>4, <2>1
<1>6. Most \in Nat
  BY <1>1, <1>5 DEF Most
<1> QED BY <1>3, <1>4, <1>6

LEMMA TokensAre ==
    ASSUME NEW n
    PROVE  /\ Guesses(n) \in SUBSET Token /\ IsFiniteSet(Guesses(n))
           /\ Answers(n) \in SUBSET Token /\ IsFiniteSet(Answers(n))
<1>1. Guesses(n) \in SUBSET Token /\ Answers(n) \in SUBSET Token
  BY DEF Guesses, Answers, Token
<1> QED BY <1>1, TokenFacts, FS_Subset

LEMMA Trade ==
    ASSUME NEW F, IsFiniteSet(F), NEW G, IsFiniteSet(G), NEW M \in Nat,
           Cardinality(F) + Cardinality(G) <= M,
           NEW E \in SUBSET F, NEW H \in SUBSET G
    PROVE  Cardinality(E) + Cardinality(H) <= M
<1>1. Cardinality(E) <= Cardinality(F) /\ IsFiniteSet(E)
  BY FS_Subset
<1>2. Cardinality(H) <= Cardinality(G) /\ IsFiniteSet(H)
  BY FS_Subset
<1>3. /\ Cardinality(E) \in Nat /\ Cardinality(F) \in Nat
      /\ Cardinality(G) \in Nat /\ Cardinality(H) \in Nat
  BY <1>1, <1>2, FS_CardinalityType
<1> QED BY <1>1, <1>2, <1>3

\* A guess that fails was a guess still to be made.
LEMMA TradeOne ==
    ASSUME NEW F, IsFiniteSet(F), NEW G, IsFiniteSet(G), NEW M \in Nat,
           Cardinality(F) + Cardinality(G) <= M,
           NEW x, NEW g \in G,
           NEW E \in SUBSET (F \cup {x}), NEW H \in SUBSET (G \ {g})
    PROVE  Cardinality(E) + Cardinality(H) <= M
<1>1. IsFiniteSet(F \cup {x}) /\ Cardinality(F \cup {x}) <= Cardinality(F) + 1
  <2>1. Cardinality(F) \in Nat
    BY FS_CardinalityType
  <2>2. /\ IsFiniteSet(F \cup {x})
        /\ Cardinality(F \cup {x}) = IF x \in F THEN Cardinality(F) ELSE Cardinality(F) + 1
    BY FS_AddElement
  <2> QED BY <2>1, <2>2
<1>2. IsFiniteSet(G \ {g}) /\ Cardinality(G \ {g}) = Cardinality(G) - 1
  BY FS_RemoveElement
<1>3. /\ Cardinality(F) \in Nat /\ Cardinality(G) \in Nat
      /\ Cardinality(F \cup {x}) \in Nat /\ Cardinality(G \ {g}) \in Nat
  BY <1>1, <1>2, FS_CardinalityType
<1>4. Cardinality(F \cup {x}) + Cardinality(G \ {g}) <= M
  BY <1>1, <1>2, <1>3
<1> QED BY <1>1, <1>2, <1>4, Trade

\* A call let in to guess has a budget, and no more guesses than any call has.
LEMMA LetIn ==
    ASSUME NEW F, IsFiniteSet(F), ~(Cardinality(F) >= MaxFailures), NEW G \in SUBSET Token
    PROVE  Cardinality(F) + Cardinality(G) <= Most
<1>1. IsFiniteSet(G) /\ Cardinality(G) <= Cardinality(Call) * (MaxPinAttempts + 1)
  BY TokenFacts, FS_Subset
<1>2. Cardinality(F) \in Nat /\ Cardinality(G) \in Nat
  BY <1>1, FS_CardinalityType
<1>3. Cardinality(F) <= MaxFailures - 1
  BY <1>2, ConstantFacts
<1>4. Cardinality(Call) * (MaxPinAttempts + 1) \in Nat
  <2>1. Cardinality(Token) \in Nat
    BY TokenFacts, FS_CardinalityType
  <2> QED BY <2>1, TokenFacts
<1> QED BY <1>1, <1>2, <1>3, <1>4, ConstantFacts DEF Most

LEMMA GuessesShrink ==
    ASSUME CallsOK, CallsOK', NEW c \in Call, NEW t, call' = [call EXCEPT ![c] = t], NEW n,
           t.pc \in Collecting /\ t.number = n =>
              /\ call[c].pc \in Collecting /\ call[c].number = n
              /\ t.attempts >= call[c].attempts
    PROVE  Guesses(n)' \in SUBSET Guesses(n)
<1>1. call \in [Call -> CallType] /\ call' \in [Call -> CallType]
  BY DEF CallsOK
<1>2. ASSUME NEW d \in Call PROVE call[d].attempts \in Nat /\ call'[d].attempts \in Nat
  <2>1. call[d] \in CallType /\ call'[d] \in CallType
    BY <1>1
  <2>2. call[d].attempts \in Tries /\ call'[d].attempts \in Tries
    BY <2>1 DEF CallType
  <2> QED BY <2>2, SetFacts
<1>3. ASSUME NEW d \in Call, NEW k \in 1 .. MaxPinAttempts + 1,
             call'[d].number = n, call'[d].pc \in Collecting, call'[d].attempts < k
      PROVE  call[d].number = n /\ call[d].pc \in Collecting /\ call[d].attempts < k
  <2>1. CASE d = c
    <3>1. call'[d] = t
      BY <1>1, <2>1
    <3> QED BY <1>2, <1>3, <2>1, <3>1
  <2>2. CASE d # c
    BY <1>1, <1>3, <2>2
  <2> QED BY <2>1, <2>2
<1> QED BY <1>3 DEF Guesses

LEMMA AnswersShrink ==
    ASSUME CallsOK, CallsOK', NEW c \in Call, NEW t, call' = [call EXCEPT ![c] = t], NEW n,
           t.pc \in Asked /\ t.number = n =>
              /\ call[c].pc \in Asked /\ call[c].number = n
              /\ t.tries >= call[c].tries
    PROVE  Answers(n)' \in SUBSET Answers(n)
<1>1. call \in [Call -> CallType] /\ call' \in [Call -> CallType]
  BY DEF CallsOK
<1>2. ASSUME NEW d \in Call PROVE call[d].tries \in Nat /\ call'[d].tries \in Nat
  <2>1. call[d] \in CallType /\ call'[d] \in CallType
    BY <1>1
  <2>2. call[d].tries \in Tries /\ call'[d].tries \in Tries
    BY <2>1 DEF CallType
  <2> QED BY <2>2, SetFacts
<1>3. ASSUME NEW d \in Call, NEW k \in 1 .. MaxPinAttempts + 1,
             call'[d].number = n, call'[d].pc \in Asked, call'[d].tries < k
      PROVE  call[d].number = n /\ call[d].pc \in Asked /\ call[d].tries < k
  <2>1. CASE d = c
    <3>1. call'[d] = t
      BY <1>1, <2>1
    <3> QED BY <1>2, <1>3, <2>1, <3>1
  <2>2. CASE d # c
    BY <1>1, <1>3, <2>2
  <2> QED BY <2>1, <2>2
<1> QED BY <1>3 DEF Answers, Asked

LEMMA LimitsInductive ==
    ASSUME CallsOK, CallsOK', LimitsOK, [Next]_vars
    PROVE  LimitsOK'
<1>a. pinFails \in Limiter /\ sumFails \in Limiter /\ now \in Nat /\ now \in 0 .. Horizon
  BY ConstantFacts DEF LimitsOK, Limiter
<1>b. ASSUME pinFails' \in Limiter, sumFails' \in Limiter, now' \in 0 .. Horizon
      PROVE  LimitsOK'
  BY <1>b DEF LimitsOK, Limiter
<1>c. ASSUME NEW c \in Call PROVE call[c] \in CallType /\ call[c].number \in Number
  <2>1. call[c] \in CallType
    BY DEF CallsOK
  <2> QED BY <2>1 DEF CallType
<1>1. CASE Sweep
  <2>1. ASSUME NEW F \in Limiter PROVE [n \in Number |-> Recent(F[n])] \in Limiter
    <3>1. \A n \in Number : F[n] \in SUBSET (Nat \X Nat) /\ IsFiniteSet(F[n])
      BY DEF Limiter
    <3>2. \A n \in Number : Recent(F[n]) \in SUBSET (Nat \X Nat) /\ IsFiniteSet(Recent(F[n]))
      BY <3>1, RecentIs
    <3> QED BY <3>2 DEF Limiter
  <2> QED BY <1>a, <1>b, <1>1, <2>1 DEF Sweep
<1>2. CASE Tick
  <2>1. now' \in 0 .. Horizon
    BY <1>a, <1>2, ConstantFacts DEF Tick
  <2> QED BY <1>a, <1>b, <1>2, <2>1 DEF Tick
<1>3. ASSUME NEW c \in Call, Welcome(c) PROVE LimitsOK'
  BY <1>a, <1>b, <1>c, <1>3, LimiterKept DEF Welcome
<1>4. ASSUME NEW c \in Call, Greet(c) PROVE LimitsOK'
  BY <1>a, <1>b, <1>c, <1>4, LimiterKept DEF Greet
<1>5. ASSUME NEW c \in Call, ChallengeBegins(c) PROVE LimitsOK'
  BY <1>a, <1>b, <1>c, <1>5, LimiterKept DEF ChallengeBegins
<1>6. ASSUME NEW c \in Call, Failed(c) PROVE LimitsOK'
  <2>1. [call[c] EXCEPT !.tries = @ + 1].number \in Number
    BY <1>c DEF CallType
  <2> QED BY <1>a, <1>b, <1>6, <2>1, LimiterKept DEF Failed
<1>7. ASSUME NEW c \in Call, NEW e \in CallType, Evaluate(c, e) PROVE LimitsOK'
  <2>1. e.number \in Number /\ [e EXCEPT !.digits = 0, !.attempts = @ + 1].number \in Number
    BY DEF CallType
  <2>2. CASE Wrong(c, e)
    BY <1>a, <1>b, <2>1, <2>2, LimiterKept DEF Wrong
  <2>3. CASE Right(c, e)
    BY <1>a, <1>b, <2>1, <2>3, LimiterKept DEF Right
  <2> QED BY <1>7, <2>2, <2>3 DEF Evaluate
<1>8. ASSUME NEW c \in Call, Quiet(c) PROVE LimitsOK'
  BY <1>a, <1>b, <1>8 DEF Quiet, Becomes
<1>9. CASE UNCHANGED vars
  BY <1>a, <1>b, <1>9 DEF vars
<1> QED BY <1>1, <1>2, <1>3, <1>4, <1>5, <1>6, <1>7, <1>8, <1>9, StepKinds DEF Guess

-----------------------------------------------------------------------------
(* The budgets. *)

\* The failures that still count, as sets that change.
LEMMA RecentFacts ==
    ASSUME LimitsOK, NEW n \in Number
    PROVE  /\ IsFiniteSet(Recent(pinFails[n])) /\ IsFiniteSet(Recent(sumFails[n]))
           /\ Recent(pinFails[n]) \in SUBSET (Nat \X Nat)
           /\ Recent(sumFails[n]) \in SUBSET (Nat \X Nat)
BY RecentIs DEF LimitsOK

LEMMA RecentShrinks ==
    ASSUME now \in Nat, now' \in Nat, now' >= now,
           NEW S \in SUBSET (Nat \X Nat), NEW T, T \subseteq S
    PROVE  {f \in T : f[1] + Window > now'} \in SUBSET Recent(S)
<1>1. Window \in Nat
  BY ConstantFacts
<1>2. ASSUME NEW f \in T, f[1] + Window > now' PROVE f \in S /\ f[1] + Window > now
  <2>1. f \in S /\ f[1] \in Nat
    OBVIOUS
  <2> QED BY <1>1, <1>2, <2>1
<1> QED BY <1>2 DEF Recent

LEMMA PinsTame ==
    ASSUME LimitsOK, LimitsOK', NEW n \in Number, PinBudget(n),
           Recent(pinFails[n])' \in SUBSET Recent(pinFails[n]),
           Guesses(n)' \in SUBSET Guesses(n)
    PROVE  PinBudget(n)'
<1>1. IsFiniteSet(Recent(pinFails[n])) /\ IsFiniteSet(Guesses(n)) /\ Most \in Nat
  BY RecentFacts, TokensAre, TokenFacts
<1>2. Cardinality(Recent(pinFails[n])') + Cardinality(Guesses(n)') <= Most
  BY <1>1, Trade DEF PinBudget
<1> QED BY <1>2 DEF PinBudget, Most

LEMMA SumsTame ==
    ASSUME LimitsOK, LimitsOK', NEW n \in Number, SumBudget(n),
           Recent(sumFails[n])' \in SUBSET Recent(sumFails[n]),
           Answers(n)' \in SUBSET Answers(n)
    PROVE  SumBudget(n)'
<1>1. IsFiniteSet(Recent(sumFails[n])) /\ IsFiniteSet(Answers(n)) /\ Most \in Nat
  BY RecentFacts, TokensAre, TokenFacts
<1>2. Cardinality(Recent(sumFails[n])') + Cardinality(Answers(n)') <= Most
  BY <1>1, Trade DEF SumBudget
<1> QED BY <1>2 DEF SumBudget, Most

LEMMA TokensNext ==
    ASSUME NEW n
    PROVE  Guesses(n)' \in SUBSET Token /\ Answers(n)' \in SUBSET Token
BY DEF Guesses, Answers, Token

LEMMA BudgetInductive ==
    ASSUME CallsOK, CallsOK', LimitsOK, LimitsOK', BudgetOK, [Next]_vars
    PROVE  BudgetOK'
<1>a. pinFails \in Limiter /\ sumFails \in Limiter
  BY DEF LimitsOK, Limiter
<1>b. now \in Nat /\ now' \in Nat
  BY ConstantFacts DEF LimitsOK
<1>c. ASSUME NEW c \in Call
      PROVE  /\ call[c] \in CallType /\ call[c].number \in Number /\ CallOK(call[c])
             /\ call[c].attempts \in Nat /\ call[c].tries \in Nat
  <2>1. call[c] \in CallType /\ CallOK(call[c])
    BY DEF CallsOK
  <2>2. call[c].attempts \in Tries /\ call[c].tries \in Tries
    BY <2>1 DEF CallType
  <2> QED BY <2>1, <2>2, SetFacts DEF CallType
<1>d. ASSUME NEW n \in Number PROVE PinBudget(n) /\ SumBudget(n)
  BY DEF BudgetOK
\* What is left of a limiter that only forgets.
<1>e. ASSUME NEW n \in Number, now' >= now, pinFails'[n] \subseteq pinFails[n]
      PROVE  Recent(pinFails[n])' \in SUBSET Recent(pinFails[n])
  <2>1. pinFails[n] \in SUBSET (Nat \X Nat)
    BY DEF LimitsOK
  <2>2. Recent(pinFails[n])' = {f \in pinFails'[n] : f[1] + Window > now'}
    BY DEF Recent
  <2> QED BY <1>b, <1>e, <2>1, <2>2, RecentShrinks
<1>f. ASSUME NEW n \in Number, now' >= now, sumFails'[n] \subseteq sumFails[n]
      PROVE  Recent(sumFails[n])' \in SUBSET Recent(sumFails[n])
  <2>1. sumFails[n] \in SUBSET (Nat \X Nat)
    BY DEF LimitsOK
  <2>2. Recent(sumFails[n])' = {f \in sumFails'[n] : f[1] + Window > now'}
    BY DEF Recent
  <2> QED BY <1>b, <1>f, <2>1, <2>2, RecentShrinks
<1>g. ASSUME UNCHANGED <<pinFails, now>>, NEW n \in Number,
             Guesses(n)' \in SUBSET Guesses(n)
      PROVE  PinBudget(n)'
  BY <1>b, <1>d, <1>e, <1>g, PinsTame
<1>h. ASSUME UNCHANGED <<sumFails, now>>, NEW n \in Number,
             Answers(n)' \in SUBSET Answers(n)
      PROVE  SumBudget(n)'
  BY <1>b, <1>d, <1>f, <1>h, SumsTame
\* A number whose calls are given no guess, and one whose sums are.
<1>i. ASSUME NEW c \in Call, NEW t, call' = [call EXCEPT ![c] = t], t.pc \notin Asked,
             UNCHANGED <<sumFails, now>>, NEW n \in Number
      PROVE  SumBudget(n)'
  BY <1>h, <1>i, AnswersShrink
<1>j. ASSUME NEW c \in Call, NEW t, call' = [call EXCEPT ![c] = t], t.pc \notin Collecting,
             UNCHANGED <<pinFails, now>>, NEW n \in Number
      PROVE  PinBudget(n)'
  BY <1>g, <1>j, GuessesShrink
<1> SUFFICES ASSUME NEW n \in Number PROVE PinBudget(n)' /\ SumBudget(n)'
  BY DEF BudgetOK
<1>1. ASSUME NEW c \in Call, Quiet(c) PROVE PinBudget(n)' /\ SumBudget(n)'
  <2>1. PICK t : Becomes(c, t) /\ Tame(call[c], t)
    BY <1>1 DEF Quiet
  <2>2. call' = [call EXCEPT ![c] = t] /\ UNCHANGED <<pinFails, sumFails, now>>
    BY <2>1 DEF Becomes
  <2>3. Guesses(n)' \in SUBSET Guesses(n)
    BY <2>1, <2>2, GuessesShrink DEF Tame
  <2>4. Answers(n)' \in SUBSET Answers(n)
    BY <2>1, <2>2, AnswersShrink DEF Tame
  <2> QED BY <1>g, <1>h, <2>2, <2>3, <2>4
<1>2. CASE Sweep
  <2>1. pinFails'[n] = Recent(pinFails[n]) /\ sumFails'[n] = Recent(sumFails[n])
        /\ UNCHANGED <<call, now>>
    BY <1>2 DEF Sweep
  <2>2. pinFails'[n] \subseteq pinFails[n] /\ sumFails'[n] \subseteq sumFails[n]
    BY <2>1 DEF Recent
  <2>3. Guesses(n)' = Guesses(n) /\ Answers(n)' = Answers(n)
    BY <2>1 DEF Guesses, Answers
  <2> QED BY <1>b, <1>d, <1>e, <1>f, <2>1, <2>2, <2>3, PinsTame, SumsTame
<1>3. CASE Tick \/ UNCHANGED vars
  <2>1. UNCHANGED <<call, pinFails, sumFails>> /\ now' >= now
    BY <1>b, <1>3 DEF Tick, vars
  <2>2. Guesses(n)' = Guesses(n) /\ Answers(n)' = Answers(n)
    BY <2>1 DEF Guesses, Answers
  <2> QED BY <1>d, <1>e, <1>f, <2>1, <2>2, PinsTame, SumsTame
<1>4. ASSUME NEW c \in Call, Welcome(c) PROVE PinBudget(n)' /\ SumBudget(n)'
  <2> DEFINE t == [At(call[c], "welcome") EXCEPT !.known = TRUE]
  <2>1. /\ call' = [call EXCEPT ![c] = t] /\ pinFails' = Success(pinFails, call[c].number)
        /\ UNCHANGED <<sumFails, now>>
    BY <1>4, <1>c DEF Welcome, CallsOK
  <2>2. t.pc = "welcome" /\ t.number = call[c].number
    BY <1>c DEF At, CallType
  <2> HIDE DEF t
  <2>3. SumBudget(n)'
    BY <1>i, <2>1, <2>2, Places
  <2>4. CASE n = call[c].number
    <3>1. pinFails'[n] = {}
      BY <1>a, <1>c, <2>1, <2>4 DEF Success, Limiter
    <3>2. Recent(pinFails[n])' = {}
      BY <3>1 DEF Recent
    <3>3. Cardinality({}) = 0 /\ IsFiniteSet({}) /\ ~(0 >= MaxFailures)
      BY FS_EmptySet, ConstantFacts
    <3>4. Cardinality(Recent(pinFails[n])') + Cardinality(Guesses(n)') <= Most
      BY <3>2, <3>3, LetIn, TokensNext
    <3> QED BY <2>3, <3>4 DEF PinBudget, Most
  <2>5. CASE n # call[c].number
    <3>1. pinFails'[n] = pinFails[n]
      BY <1>a, <1>c, <2>1, <2>5 DEF Success, Limiter
    <3>2. Guesses(n)' \in SUBSET Guesses(n)
      BY <2>1, <2>2, <2>5, GuessesShrink
    <3> QED BY <1>b, <1>d, <1>e, <2>1, <2>3, <3>1, <3>2, PinsTame
  <2> QED BY <2>4, <2>5
<1>5. ASSUME NEW c \in Call, Greet(c) PROVE PinBudget(n)' /\ SumBudget(n)'
  <2> DEFINE t == IF OverBudget(pinFails, call[c].number) THEN Settle(call[c], "dismissed")
                  ELSE IF HasMenu THEN WalkMenu(call[c], "", FALSE)
                  ELSE At(call[c], "greeting")
  <2>1. /\ call' = [call EXCEPT ![c] = t] /\ pinFails' = Pruned(pinFails, call[c].number)
        /\ UNCHANGED <<sumFails, now>>
    BY <1>5, <1>c DEF Greet, CallsOK
  <2>2. /\ t.pc \notin Asked /\ t.number = call[c].number
        /\ t.pc \in Collecting => ~OverBudget(pinFails, call[c].number)
    <3>1. Outside(Settle(call[c], "dismissed")) /\ Same(call[c], Settle(call[c], "dismissed"))
      BY <1>c, OutsideSettle, SameSettle DEF Outcome
    <3>2. Outside(WalkMenu(call[c], "", FALSE)) /\ Same(call[c], WalkMenu(call[c], "", FALSE))
      BY <1>c, SetFacts, OutsideWalk, SameWalk
    <3>3. At(call[c], "greeting").pc = "greeting" /\ Same(call[c], At(call[c], "greeting"))
      BY <1>c DEF At, CallType, Same
    <3> QED BY <3>1, <3>2, <3>3, Places DEF Outside, Same
  <2> HIDE DEF t
  <2>3. SumBudget(n)'
    BY <1>i, <2>1, <2>2
  <2>4. pinFails'[n] \subseteq pinFails[n] /\ (n = call[c].number => pinFails'[n] = Recent(pinFails[n]))
    BY <1>a, <1>c, <2>1 DEF Pruned, Limiter, Recent
  <2>5. CASE n = call[c].number /\ t.pc \in Collecting
    <3>1. Recent(pinFails[n])' = Recent(pinFails[n])
      BY <2>1, <2>4, <2>5 DEF Recent
    <3>2. ~(Cardinality(Recent(pinFails[n])) >= MaxFailures)
      BY <2>2, <2>5 DEF OverBudget
    <3>3. Cardinality(Recent(pinFails[n])') + Cardinality(Guesses(n)') <= Most
      BY <3>1, <3>2, LetIn, TokensNext, RecentFacts
    <3> QED BY <2>3, <3>3 DEF PinBudget, Most
  <2>6. CASE ~(n = call[c].number /\ t.pc \in Collecting)
    <3>1. Guesses(n)' \in SUBSET Guesses(n)
      BY <2>1, <2>2, <2>6, GuessesShrink
    <3> QED BY <1>b, <1>d, <1>e, <2>1, <2>3, <2>4, <3>1, PinsTame
  <2> QED BY <2>5, <2>6
<1>6. ASSUME NEW c \in Call, ChallengeBegins(c) PROVE PinBudget(n)' /\ SumBudget(n)'
  <2> DEFINE t == IF OverBudget(sumFails, call[c].number)
                  THEN Settle([call[c] EXCEPT !.challenge = "rate-limited"], "dismissed")
                  ELSE At(call[c], "explain")
  <2>1. /\ call' = [call EXCEPT ![c] = t] /\ sumFails' = Pruned(sumFails, call[c].number)
        /\ UNCHANGED <<pinFails, now>>
    BY <1>6, <1>c DEF ChallengeBegins, CallsOK
  <2>2. /\ t.pc \notin Collecting /\ t.number = call[c].number
        /\ t.pc \in Asked => ~OverBudget(sumFails, call[c].number)
    <3> DEFINE v == [call[c] EXCEPT !.challenge = "rate-limited"]
    <3>1. v \in CallType /\ v.number = call[c].number
      <4>1. call[c] \in CallType /\ "rate-limited" \in Verdict
        BY <1>c, SetFacts
      <4> QED BY <4>1 DEF CallType
    <3> HIDE DEF v
    <3>2. Outside(Settle(v, "dismissed")) /\ Same(v, Settle(v, "dismissed"))
      BY <3>1, OutsideSettle, SameSettle DEF Outcome
    <3>3. At(call[c], "explain").pc = "explain" /\ Same(call[c], At(call[c], "explain"))
      BY <1>c DEF At, CallType, Same
    <3> QED BY <3>1, <3>2, <3>3, Places DEF Outside, Same, v
  <2> HIDE DEF t
  <2>3. PinBudget(n)'
    BY <1>j, <2>1, <2>2
  <2>4. sumFails'[n] \subseteq sumFails[n] /\ (n = call[c].number => sumFails'[n] = Recent(sumFails[n]))
    BY <1>a, <1>c, <2>1 DEF Pruned, Limiter, Recent
  <2>5. CASE n = call[c].number /\ t.pc \in Asked
    <3>1. Recent(sumFails[n])' = Recent(sumFails[n])
      BY <2>1, <2>4, <2>5 DEF Recent
    <3>2. ~(Cardinality(Recent(sumFails[n])) >= MaxFailures)
      BY <2>2, <2>5 DEF OverBudget
    <3>3. Cardinality(Recent(sumFails[n])') + Cardinality(Answers(n)') <= Most
      BY <3>1, <3>2, LetIn, TokensNext, RecentFacts
    <3> QED BY <2>3, <3>3 DEF SumBudget, Most
  <2>6. CASE ~(n = call[c].number /\ t.pc \in Asked)
    <3>1. Answers(n)' \in SUBSET Answers(n)
      BY <2>1, <2>2, <2>6, AnswersShrink
    <3> QED BY <1>b, <1>d, <1>f, <2>1, <2>3, <2>4, <3>1, SumsTame
  <2> QED BY <2>5, <2>6
<1>7. ASSUME NEW c \in Call, NEW e \in CallType, Evaluate(c, e), call[c].pc = "collect",
             e.number = call[c].number, e.attempts = call[c].attempts
      PROVE  PinBudget(n)' /\ SumBudget(n)'
  <2>1. CASE Right(c, e)
    <3>1. PICK outcome \in {"extension", "voicemail"} :
             call' = [call EXCEPT ![c] = Settle([e EXCEPT !.choice = ByPin], outcome)]
      BY <2>1 DEF Right
    <3>2. [e EXCEPT !.choice = ByPin] \in CallType
      <4>1. ByPin \in ChoiceOrNone
        BY ByPinIsChoice, SetFacts
      <4> QED BY <4>1 DEF CallType
    <3>3. Outside(Settle([e EXCEPT !.choice = ByPin], outcome))
      BY <3>2, OutsideSettle
    <3>4. pinFails' = Success(pinFails, call[c].number) /\ UNCHANGED <<sumFails, now>>
      BY <1>7, <2>1 DEF Right
    <3>5. pinFails'[n] \subseteq pinFails[n]
      BY <1>a, <1>c, <3>4 DEF Success, Limiter
    <3>6. Guesses(n)' \in SUBSET Guesses(n)
      BY <3>1, <3>3, GuessesShrink DEF Outside
    <3>7. SumBudget(n)'
      BY <1>i, <3>1, <3>3, <3>4 DEF Outside
    <3> QED BY <1>b, <1>d, <1>e, <3>4, <3>5, <3>6, <3>7, PinsTame
  <2>2. CASE Wrong(c, e)
    <3> DEFINE r == [e EXCEPT !.digits = 0, !.attempts = @ + 1]
               t == IF r.attempts <= MaxPinAttempts THEN At(r, "invalid")
                    ELSE Settle(r, IF r.known THEN "house" ELSE "dismissed")
               g == <<c, call[c].attempts + 1>>
               x == <<now, Serial(Recent(pinFails[n]))>>
    <3>1. /\ call' = [call EXCEPT ![c] = t] /\ UNCHANGED <<sumFails, now>>
          /\ pinFails' = Failure(pinFails, r.number)
      BY <2>2 DEF Wrong
    <3>2. r.number = call[c].number /\ r.attempts = call[c].attempts + 1
      BY <1>7, <1>c DEF CallType
    <3>3. /\ t.pc \notin Asked /\ t.number = call[c].number
          /\ t.pc \in Collecting => t.attempts = call[c].attempts + 1
      <4>1. /\ At(r, "invalid").pc = "invalid" /\ At(r, "invalid").number = r.number
            /\ At(r, "invalid").attempts = r.attempts
        BY DEF At, CallType
      <4>2. /\ Settle(r, IF r.known THEN "house" ELSE "dismissed").pc = "over"
            /\ Settle(r, IF r.known THEN "house" ELSE "dismissed").number = r.number
        BY DEF Settle, CallType
      <4> HIDE DEF r
      <4> QED BY <3>2, <4>1, <4>2, Places
    <3> HIDE DEF r, t
    <3>4. SumBudget(n)'
      BY <1>i, <3>1, <3>3
    <3>5. call[c].attempts <= MaxPinAttempts /\ call[c].pc \in Collecting
      BY <1>7, <1>c, Places DEF CallOK, CountsOK
    <3>6. Guesses(n)' \in SUBSET Guesses(n)
      <4>1. t.pc \in Collecting /\ t.number = n =>
               /\ call[c].pc \in Collecting /\ call[c].number = n
               /\ t.attempts >= call[c].attempts
        BY <1>c, <3>3, <3>5
      <4> QED BY <3>1, <4>1, GuessesShrink
    <3>7. CASE n = call[c].number
      <4>1. g \in Guesses(n)
        BY <1>c, <3>5, <3>7, ConstantFacts DEF Guesses
      <4>2. g \notin Guesses(n)'
        <5>1. call'[c] = t
          BY <3>1 DEF CallsOK
        <5> QED BY <1>c, <3>3, <5>1 DEF Guesses
      <4>3. Guesses(n)' \in SUBSET (Guesses(n) \ {g})
        BY <3>6, <4>2
      <4>4. pinFails'[n] = Recent(pinFails[n]) \cup {<<now, Serial(Recent(pinFails[n]))>>}
        BY <1>a, <3>1, <3>2, <3>7 DEF Failure, Limiter
      <4>5. Recent(pinFails[n])' \in
               SUBSET (Recent(pinFails[n]) \cup {x})
        BY <4>4 DEF Recent
      <4>6. IsFiniteSet(Recent(pinFails[n])) /\ IsFiniteSet(Guesses(n)) /\ Most \in Nat
        BY RecentFacts, TokensAre, TokenFacts
      <4>7. Cardinality(Recent(pinFails[n])) + Cardinality(Guesses(n)) <= Most
        BY <1>d DEF PinBudget
      <4> HIDE DEF g, x
      <4>8. Cardinality(Recent(pinFails[n])') + Cardinality(Guesses(n)') <= Most
        BY <4>1, <4>3, <4>5, <4>6, <4>7, TradeOne
      <4> QED BY <3>4, <4>8 DEF PinBudget, Most
    <3>8. CASE n # call[c].number
      <4>1. pinFails'[n] = pinFails[n]
        BY <1>a, <1>c, <3>1, <3>2, <3>8 DEF Failure, Limiter
      <4> QED BY <1>b, <1>d, <1>e, <3>1, <3>4, <3>6, <4>1, PinsTame
    <3> QED BY <3>7, <3>8
  <2> QED BY <1>7, <2>1, <2>2 DEF Evaluate
<1>8. ASSUME NEW c \in Call, call[c].pc = "answer", Failed(c)
      PROVE  PinBudget(n)' /\ SumBudget(n)'
  <2> DEFINE r == [call[c] EXCEPT !.tries = @ + 1]
             v == [r EXCEPT !.challenge = "failed"]
             t == IF r.tries <= MaxPinAttempts THEN At(r, "tryAgain")
                  ELSE Settle(v, "dismissed")
             g == <<c, call[c].tries + 1>>
             x == <<now, Serial(Recent(sumFails[n]))>>
  <2>1. /\ call' = [call EXCEPT ![c] = t] /\ UNCHANGED <<pinFails, now>>
        /\ sumFails' = Failure(sumFails, r.number)
    BY <1>8 DEF Failed
  <2>2. r.number = call[c].number /\ r.tries = call[c].tries + 1
    BY <1>c DEF CallType
  <2>3. /\ t.pc \notin Collecting /\ t.number = call[c].number
        /\ t.pc \in Asked => t.tries = call[c].tries + 1
    <3>1. /\ At(r, "tryAgain").pc = "tryAgain" /\ At(r, "tryAgain").number = r.number
          /\ At(r, "tryAgain").tries = r.tries
      BY <1>c DEF At, CallType
    <3>2. Settle(v, "dismissed").pc = "over" /\ Settle(v, "dismissed").number = r.number
      BY <1>c DEF Settle, CallType
    <3> HIDE DEF r, v
    <3> QED BY <2>2, <3>1, <3>2, Places
  <2> HIDE DEF r, v, t
  <2>4. PinBudget(n)'
    BY <1>j, <2>1, <2>3
  <2>5. call[c].tries <= MaxPinAttempts /\ call[c].pc \in Asked
    <3>1. call[c].pc \in Challenged
      BY <1>8 DEF Challenged
    <3> QED BY <1>8, <1>c, <3>1, Places DEF CallOK, CountsOK
  <2>6. Answers(n)' \in SUBSET Answers(n)
    <3>1. t.pc \in Asked /\ t.number = n =>
             /\ call[c].pc \in Asked /\ call[c].number = n /\ t.tries >= call[c].tries
      BY <1>c, <2>3, <2>5
    <3> QED BY <2>1, <3>1, AnswersShrink
  <2>7. CASE n = call[c].number
    <3>1. g \in Answers(n)
      BY <1>c, <2>5, <2>7, ConstantFacts DEF Answers, Asked
    <3>2. g \notin Answers(n)'
      <4>1. call'[c] = t
        BY <2>1 DEF CallsOK
      <4> QED BY <1>c, <2>3, <4>1 DEF Answers, Asked
    <3>3. Answers(n)' \in SUBSET (Answers(n) \ {g})
      BY <2>6, <3>2
    <3>4. sumFails'[n] = Recent(sumFails[n]) \cup {<<now, Serial(Recent(sumFails[n]))>>}
      BY <1>a, <2>1, <2>2, <2>7 DEF Failure, Limiter
    <3>5. Recent(sumFails[n])' \in
             SUBSET (Recent(sumFails[n]) \cup {x})
      BY <3>4 DEF Recent
    <3>6. IsFiniteSet(Recent(sumFails[n])) /\ IsFiniteSet(Answers(n)) /\ Most \in Nat
      BY RecentFacts, TokensAre, TokenFacts
    <3>7. Cardinality(Recent(sumFails[n])) + Cardinality(Answers(n)) <= Most
      BY <1>d DEF SumBudget
    <3> HIDE DEF g, x
    <3>8. Cardinality(Recent(sumFails[n])') + Cardinality(Answers(n)') <= Most
      BY <3>1, <3>3, <3>5, <3>6, <3>7, TradeOne
    <3> QED BY <2>4, <3>8 DEF SumBudget, Most
  <2>8. CASE n # call[c].number
    <3>1. sumFails'[n] = sumFails[n]
      BY <1>a, <1>c, <2>1, <2>2, <2>8 DEF Failure, Limiter
    <3> QED BY <1>b, <1>d, <1>f, <2>1, <2>4, <2>6, <3>1, SumsTame
  <2> QED BY <2>7, <2>8
<1> QED BY <1>1, <1>2, <1>3, <1>4, <1>5, <1>6, <1>7, <1>8, StepKinds DEF Guess

-----------------------------------------------------------------------------
(***************************************************************************)
(* The inductive invariant: every call is in order, the limiters are sets  *)
(* of moments, and what counts against a number and what its calls may     *)
(* still guess stay together within the bound.  The bound on failures      *)
(* alone is not inductive: nothing would say that a call at the limit has  *)
(* no guess left.                                                          *)
(***************************************************************************)
Inv == CallsOK /\ LimitsOK /\ BudgetOK

LEMMA InitInv == Init => Inv
<1> SUFFICES ASSUME Init PROVE Inv
  OBVIOUS
<1>1. CallsOK
  BY InitCalls
<1>2. LimitsOK
  <2>1. IsFiniteSet({})
    BY FS_EmptySet
  <2> QED BY <2>1, ConstantFacts DEF Init, LimitsOK
<1>3. BudgetOK
  <2> SUFFICES ASSUME NEW n \in Number PROVE PinBudget(n) /\ SumBudget(n)
    BY DEF BudgetOK
  <2>1. Recent(pinFails[n]) = {} /\ Recent(sumFails[n]) = {}
    BY DEF Init, Recent
  <2>2. \A c \in Call : call[c].pc = "free"
    BY DEF Init, Free, Fresh
  <2>3. Guesses(n) = {} /\ Answers(n) = {}
    BY <2>2 DEF Guesses, Answers, Collecting, Challenged
  <2> QED BY <2>1, <2>3, FS_EmptySet, TokenFacts DEF PinBudget, SumBudget
<1> QED BY <1>1, <1>2, <1>3 DEF Inv

LEMMA InvInductive == Inv /\ [Next]_vars => Inv'
<1> SUFFICES ASSUME Inv, [Next]_vars PROVE Inv'
  OBVIOUS
<1>1. CallsOK'
  BY CallsInductive DEF Inv
<1>2. LimitsOK'
  BY <1>1, LimitsInductive DEF Inv
<1>3. BudgetOK'
  BY <1>1, <1>2, BudgetInductive DEF Inv
<1> QED BY <1>1, <1>2, <1>3 DEF Inv

\* The door's inductive invariant holds throughout.
THEOREM DoorInvariant == Spec => []Inv
BY InitInv, InvInductive, PTL DEF Spec

\* Every variable keeps its type: no counter of a call passes its limit, and
\* the limiters are finite (collect, challenge, walkMenu, RateLimiter).
THEOREM TypeCorrect == Spec => []TypeOK
<1>1. Inv => TypeOK
  BY DEF Inv, CallsOK, LimitsOK, TypeOK, CallType, Place, Tries, Plays, Silences, Repeats,
         Guard, Verdict, KeyOrNone, ChoiceOrNone, Menus, Outcome
<1> QED BY <1>1, DoorInvariant, PTL

\* Whatever the menus and however a caller walks them, what lies behind a sum
\* is reached only with a pass (disposition, walkMenu, challenge).
THEOREM GuardsAreHeld == Spec => []GuardsHold
<1>1. Inv => GuardsHold
  <2> SUFFICES ASSUME Inv, NEW c \in Call, ~(call[c].challenge = "passed" \/ call[c].known)
               PROVE  /\ call[c].choice # NoChoice => ~call[c].choice.challenge
                      /\ ChallengeNoInput => call[c].outcome # "house"
                      /\ ChallengeNoInput /\ call[c].outcome = "voicemail" =>
                            /\ call[c].choice # NoChoice
                            /\ call[c].choice.kind \in {"extension", "voicemail"}
    BY DEF GuardsHold
  <2>1. PassOK(call[c]) /\ ChoiceOK(call[c]) /\ OutcomeOK(call[c])
    BY DEF Inv, CallsOK, CallOK
  <2> QED BY <2>1 DEF PassOK, ChoiceOK, OutcomeOK
<1> QED BY <1>1, DoorInvariant, PTL

\* An admitted caller who stays and chooses nothing reaches the house, by
\* every way out of the collector and of the menus (noInput, evaluate).
THEOREM AdmittedAreHeard == Spec => []AdmittedReachTheHouse
<1>1. Inv => AdmittedReachTheHouse
  BY DEF Inv, CallsOK, CallOK, OutcomeOK, AdmittedReachTheHouse
<1> QED BY <1>1, DoorInvariant, PTL

\* However many calls a number makes at once and however it redials, its
\* guesses in one window are bounded by the budget and one call's attempts for
\* every place of the line (RateLimiter, collect, challenge).
THEOREM GuessesAreBounded == Spec => []BudgetsHold
<1>1. Inv => BudgetsHold
  <2> SUFFICES ASSUME Inv, NEW n \in Number
               PROVE  Cardinality(Recent(pinFails[n])) <= Most
                      /\ Cardinality(Recent(sumFails[n])) <= Most
    BY DEF BudgetsHold, Most
  <2>1. PinBudget(n) /\ SumBudget(n) /\ LimitsOK
    BY DEF Inv, BudgetOK
  <2>2. /\ IsFiniteSet(Recent(pinFails[n])) /\ IsFiniteSet(Recent(sumFails[n]))
        /\ IsFiniteSet(Guesses(n)) /\ IsFiniteSet(Answers(n))
    BY <2>1, RecentFacts, TokensAre
  <2>3. /\ Cardinality(Recent(pinFails[n])) \in Nat /\ Cardinality(Recent(sumFails[n])) \in Nat
        /\ Cardinality(Guesses(n)) \in Nat /\ Cardinality(Answers(n)) \in Nat
    BY <2>2, FS_CardinalityType
  <2> QED BY <2>1, <2>3, TokenFacts DEF PinBudget, SumBudget
<1> QED BY <1>1, DoorInvariant, PTL

\* Every step that takes a failure away before its time is an admission at the
\* door or a right PIN of the same number; a solved sum takes none (Success).
THEOREM OnlyPinsForgive == Spec => OnlyPinsForgivePins
<1> DEFINE Forgiven(n) == \E c \in Call : /\ call[c].number = n
                                          /\ call'[c].pc = "welcome" \/ call'[c].choice = ByPin
           Step == \A n \in Number : ~(Recent(pinFails[n]) \subseteq pinFails'[n]) => Forgiven(n)
<1>1. Inv /\ Inv' /\ [Next]_vars => Step
  <2> SUFFICES ASSUME Inv, Inv', [Next]_vars, NEW n \in Number,
                      ~(Recent(pinFails[n]) \subseteq pinFails'[n])
               PROVE  Forgiven(n)
    OBVIOUS
  <2>a. CallsOK /\ CallsOK' /\ pinFails \in Limiter
    BY DEF Inv, LimitsOK, Limiter
  <2>b. ASSUME NEW c \in Call PROVE call[c] \in CallType /\ call[c].number \in Number
    <3>1. call[c] \in CallType
      BY <2>a DEF CallsOK
    <3> QED BY <3>1 DEF CallType
  <2>c. pinFails'[n] # pinFails[n] /\ pinFails'[n] # Recent(pinFails[n])
    BY DEF Recent
  <2>1. CASE Sweep
    BY <2>c, <2>1 DEF Sweep
  <2>2. CASE Tick \/ UNCHANGED vars
    BY <2>c, <2>2 DEF Tick, vars
  <2>3. ASSUME NEW c \in Call, Welcome(c) PROVE Forgiven(n)
    <3>1. call'[c].pc = "welcome"
      BY <2>a, <2>b, <2>3 DEF Welcome, At, CallType, CallsOK
    <3>2. call[c].number = n
      BY <2>a, <2>b, <2>c, <2>3 DEF Welcome, Success, Limiter
    <3> QED BY <3>1, <3>2
  <2>4. ASSUME NEW c \in Call, Greet(c) PROVE Forgiven(n)
    BY <2>a, <2>b, <2>c, <2>4 DEF Greet, Pruned, Limiter
  <2>5. ASSUME NEW c \in Call, ChallengeBegins(c) \/ Failed(c) \/ Quiet(c) PROVE Forgiven(n)
    BY <2>c, <2>5 DEF ChallengeBegins, Failed, Quiet, Becomes
  <2>6. ASSUME NEW c \in Call, Guess(c) PROVE Forgiven(n)
    <3>1. PICK e \in CallType : Evaluate(c, e) /\ e.number = call[c].number
      BY <2>6 DEF Guess
    <3>2. CASE Wrong(c, e)
      <4> DEFINE r == [e EXCEPT !.digits = 0, !.attempts = @ + 1]
      <4>1. pinFails' = Failure(pinFails, r.number)
        BY <3>2 DEF Wrong
      <4> HIDE DEF r
      <4>2. Recent(pinFails[n]) \subseteq pinFails'[n] \/ pinFails'[n] = pinFails[n]
        BY <2>a, <4>1 DEF Failure, Limiter
      <4> QED BY <2>c, <4>2
    <3>3. CASE Right(c, e)
      <4>1. PICK outcome \in {"extension", "voicemail"} :
               call' = [call EXCEPT ![c] = Settle([e EXCEPT !.choice = ByPin], outcome)]
        BY <3>3 DEF Right
      <4>2. call'[c].choice = ByPin
        <5>1. call'[c] = Settle([e EXCEPT !.choice = ByPin], outcome)
          BY <2>a, <4>1 DEF CallsOK
        <5> QED BY <5>1 DEF Settle, CallType
      <4>3. call[c].number = n
        BY <2>a, <2>b, <2>c, <3>1, <3>3 DEF Right, Success, Limiter
      <4> QED BY <4>2, <4>3
    <3> QED BY <3>1, <3>2, <3>3 DEF Evaluate
  <2> QED BY <2>a, <2>1, <2>2, <2>3, <2>4, <2>5, <2>6, StepKinds
<1>2. Spec => [][Step]_vars
  BY <1>1, DoorInvariant, PTL DEF Spec
<1> QED BY <1>2 DEF OnlyPinsForgivePins

\* All of it: what the door promises holds for every line, whatever its menus,
\* its PINs, its budgets and its callers.
THEOREM DoorIsKept == Spec => DoorHolds
BY TypeCorrect, GuardsAreHeld, AdmittedAreHeard, GuessesAreBounded, OnlyPinsForgive, PTL
   DEF DoorHolds
=============================================================================
