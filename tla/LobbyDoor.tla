------------------------------- MODULE LobbyDoor -------------------------------
(***************************************************************************)
(* The door of one line: what happens to a call between its arrival and    *)
(* the moment something rings, records or turns it away (lobby.Session.Run *)
(* up to runPlan, sendToVoicemail, listen and dismiss).  Several calls run *)
(* at once, each in its own goroutine, and share the line's two rate       *)
(* limiters, which count by caller's number.                               *)
(*                                                                         *)
(* A call is a record; an operator from records to records is what one     *)
(* function of the session does to its call.  What was typed is not kept:  *)
(* an entry is its length, and whether it is some extension's PIN is up to *)
(* the caller.                                                             *)
(***************************************************************************)
EXTENDS Naturals, FiniteSets

CONSTANTS
    Call,             \* the line's places under MaxConcurrentCalls
    Number,           \* callers; a withheld number is one caller
    Tier,             \* what the ladder says of each: "blocked", "admitted", "stranger"
    PinLengths,       \* the lengths of the line's PINs
    MaxPinAttempts,   \* retries after the first try, of a PIN and of a sum
    MaxFailures,      \* the limiters' budget...
    Window,           \* ...over this long
    Horizon,          \* bound: the clock stops here
    HasMenu,          \* [line] menu is set
    FrontMenu,        \* the menu it names
    Digit,            \* digit keys, a few of the ten
    Choices,          \* [[menus]]: for each menu, its choices by key
    Repeat,           \* times a silent caller is offered the menu again
    MenuMaxPlays,     \* times one call is offered a menu
    AnswerDigits,     \* MaxAnswerDigits: the longest answer to a sum
    OnNoInput,        \* "dismiss", "ring-house" or "voicemail"
    ChallengeNoInput, \* the line's disposition is behind a sum
    NoChoice          \* what stands where no choice was made

Kind == {"extension", "voicemail", "menu", "shelf", "recording"}
Choice == [kind : Kind, target : DOMAIN Choices \cup {NoChoice},
           challenge : BOOLEAN, goodbye : BOOLEAN]
Key == Digit \cup {"*", "#"}

Longest == CHOOSE n \in PinLengths : \A k \in PinLengths : k <= n
Shortest == CHOOSE n \in PinLengths : \A k \in PinLengths : n <= k
Mixed == Longest # Shortest

ASSUME DoorAssumption ==
    /\ IsFiniteSet(Call) /\ Number # {}
    /\ Tier \in [Number -> {"blocked", "admitted", "stranger"}]
    /\ PinLengths \subseteq Nat \ {0} /\ PinLengths # {}
    /\ \E n \in PinLengths : \A k \in PinLengths : k <= n
    /\ \E n \in PinLengths : \A k \in PinLengths : n <= k
    /\ MaxPinAttempts \in Nat /\ MaxFailures \in Nat \ {0}
    /\ Window \in Nat \ {0} /\ Horizon \in Nat
    /\ HasMenu \in BOOLEAN /\ FrontMenu \in DOMAIN Choices
    /\ \A m \in DOMAIN Choices :
          /\ DOMAIN Choices[m] \subseteq Digit
          /\ \A k \in DOMAIN Choices[m] :
                /\ Choices[m][k] \in Choice
                /\ Choices[m][k].kind = "menu" => Choices[m][k].target \in DOMAIN Choices
    /\ Digit \cap {"*", "#", ""} = {}
    /\ NoChoice \notin Choice
    /\ Repeat \in Nat /\ MenuMaxPlays \in Nat \ {0} /\ AnswerDigits \in Nat \ {0}
    /\ OnNoInput \in {"dismiss", "ring-house", "voicemail"}
    /\ ChallengeNoInput \in BOOLEAN
    /\ ChallengeNoInput => OnNoInput # "dismiss"

\* A PIN chooses an extension, behind no sum.
ByPin == [kind |-> "extension", target |-> NoChoice, challenge |-> FALSE, goodbye |-> FALSE]

MaxRepeats == 2   \* maxChallengeRepeats

VARIABLES
    call,      \* each place's call
    pinFails,  \* Limiter: each number's wrong PINs, and when
    sumFails,  \* ChallengeLimiter: and its wrong answers
    now        \* the clock both read

vars == <<call, pinFails, sumFails, now>>

\* A place with no call in it, and a call that has just been let in.
Fresh(n) == [pc |-> "door", number |-> n, known |-> FALSE, gone |-> FALSE,
             waited |-> FALSE, digits |-> 0, attempts |-> 0,
             menu |-> FrontMenu, plays |-> 0, silent |-> 0, late |-> FALSE,
             key |-> "", passed |-> FALSE, tries |-> 0, repeats |-> 0,
             guard |-> "none", choice |-> NoChoice, challenge |-> "none",
             outcome |-> "abandoned"]
Free == [Fresh(CHOOSE n \in Number : TRUE) EXCEPT !.pc = "free"]

Init ==
    /\ call = [c \in Call |-> Free]
    /\ pinFails = [n \in Number |-> {}]
    /\ sumFails = [n \in Number |-> {}]
    /\ now = 0

-----------------------------------------------------------------------------
(* RateLimiter: a number's failures are a set of times; those of one moment *)
(* are told apart by a serial number.                                       *)

\* prune: what is still inside the window.
Recent(times) == {f \in times : f[1] + Window > now}

Serial(times) == CHOOSE k \in 1 .. Cardinality(times) + 1 : <<now, k>> \notin times

OverBudget(fails, n) == Cardinality(Recent(fails[n])) >= MaxFailures
Failure(fails, n) ==
    LET kept == Recent(fails[n]) IN [fails EXCEPT ![n] = kept \cup {<<now, Serial(kept)>>}]
Pruned(fails, n) == [fails EXCEPT ![n] = Recent(@)]
Success(fails, n) == [fails EXCEPT ![n] = {}]

Sweep ==
    /\ pinFails' = [n \in Number |-> Recent(pinFails[n])]
    /\ sumFails' = [n \in Number |-> Recent(sumFails[n])]
    /\ UNCHANGED <<call, now>>

Tick ==
    /\ now < Horizon
    /\ now' = now + 1
    /\ UNCHANGED <<call, pinFails, sumFails>>

-----------------------------------------------------------------------------
(* What the session's functions do to its call. *)

\* Handed on: to a ring plan, the mailbox, a shelf, or the parting prompt.
\* A cancelled call goes nowhere, though the record of a message is written
\* before anybody looks.
Settle(r, outcome) ==
    [r EXCEPT !.pc = "over",
              !.outcome = IF r.gone /\ outcome # "voicemail" THEN @ ELSE outcome]

At(r, pc) == [r EXCEPT !.pc = pc, !.waited = FALSE]

\* A step that leaves the limiters alone.
Becomes(c, r) ==
    /\ call' = [call EXCEPT ![c] = r]
    /\ UNCHANGED <<pinFails, sumFails, now>>

\* ...and one that goes nowhere once the caller has gone.
Continues(c, r) == Becomes(c, IF call[c].gone THEN At(r, "over") ELSE r)

\* disposition, past the challenge.
Unguarded(r) ==
    CASE OnNoInput = "ring-house" -> Settle(r, "house")
      [] OnNoInput = "voicemail" -> Settle(r, "voicemail")
      [] OnNoInput = "dismiss" -> Settle(r, "dismissed")

Challenge(r, guard) == [At(r, "challenge") EXCEPT !.guard = guard, !.tries = 0]

\* Where a caller goes who chose nothing: an admitted one always to the house.
Disposition(r) ==
    IF r.known THEN Settle(r, "house")
    ELSE IF ChallengeNoInput /\ ~r.passed THEN Challenge(r, "noInput")
    ELSE Unguarded(r)

\* The top of walkMenu's loop: the ceilings, then one play of the menu.
Offer(r, key) ==
    IF r.gone THEN Settle(r, "abandoned")
    ELSE IF r.plays >= MenuMaxPlays \/ r.late THEN Disposition(r)
    ELSE [At(r, IF key \in {"", "#"} THEN "menuPlay" ELSE "menuKey")
             EXCEPT !.plays = @ + 1, !.key = key]

WalkMenu(r, key, passed) ==
    Offer([r EXCEPT !.menu = FrontMenu, !.passed = passed, !.plays = 0,
                    !.silent = 0, !.late = FALSE], key)

Collect(r) == [At(r, "collect") EXCEPT !.digits = 0, !.attempts = 0]

-----------------------------------------------------------------------------
(* Arrival and the ladder. *)

\* The registry admits a call only into a free place.
Arrive(c) ==
    /\ call[c].pc = "free"
    /\ \E n \in Number : Becomes(c, Fresh(n))

\* The caller hangs up, or leaves: the context is cancelled.
HangUp(c) ==
    /\ call[c].pc \notin {"free", "over"} /\ ~call[c].gone
    /\ Becomes(c, [call[c] EXCEPT !.gone = TRUE])

\* cleanup and OnFinished free the place.
Finish(c) ==
    /\ call[c].pc = "over"
    /\ Becomes(c, Free)

DismissBlocked(c) ==
    /\ call[c].pc = "door" /\ Tier[call[c].number] = "blocked"
    /\ Becomes(c, Settle(call[c], "dismissed"))

\* Admission at the door clears the number's failures.
Welcome(c) ==
    /\ call[c].pc = "door" /\ Tier[call[c].number] = "admitted"
    /\ pinFails' = Success(pinFails, call[c].number)
    /\ call' = [call EXCEPT ![c] = [At(@, "welcome") EXCEPT !.known = TRUE]]
    /\ UNCHANGED <<sumFails, now>>

\* A stranger over the budget is sent away ungreeted; any other hears the menu
\* or the lobby.
Greet(c) ==
    /\ call[c].pc = "door" /\ Tier[call[c].number] = "stranger"
    /\ pinFails' = Pruned(pinFails, call[c].number)
    /\ call' = [call EXCEPT ![c] =
                  IF OverBudget(pinFails, @.number) THEN Settle(@, "dismissed")
                  ELSE IF HasMenu THEN WalkMenu(@, "", FALSE)
                  ELSE At(@, "greeting")]
    /\ UNCHANGED <<sumFails, now>>

\* The greeting ends, or fails to play: an admitted caller reaches the house at
\* once, a stranger has the first-digit window.
GreetingEnds(c) ==
    \/ call[c].pc = "welcome" /\ Continues(c, Settle(call[c], "house"))
    \/ call[c].pc = "greeting" /\ Continues(c, Collect(call[c]))

-----------------------------------------------------------------------------
(* collect and evaluate. *)

\* A key over a greeting stops it and is the first key of what follows: of a
\* PIN, or, for an admitted caller on a menu line, of a choice.
BargeGreeting(c, key) ==
    \/ /\ call[c].pc = "welcome" /\ HasMenu
       /\ Continues(c, WalkMenu(call[c], key, TRUE))
    \/ /\ call[c].pc = "greeting" \/ (call[c].pc = "welcome" /\ ~HasMenu)
       /\ Continues(c, [Collect(call[c]) EXCEPT !.key = key])

\* A completed entry that is no extension's PIN.
Wrong(c, entry) ==
    LET r == [entry EXCEPT !.digits = 0, !.attempts = @ + 1]
    IN  /\ pinFails' = Failure(pinFails, r.number)
        /\ call' = [call EXCEPT ![c] =
                      IF r.attempts <= MaxPinAttempts THEN At(r, "invalid")
                      ELSE Settle(r, IF r.known THEN "house" ELSE "dismissed")]
        /\ UNCHANGED <<sumFails, now>>

\* A completed entry that is: the extension's plan, or its mailbox in quiet
\* hours.
Right(c, entry) ==
    /\ entry.digits \in PinLengths
    /\ pinFails' = Success(pinFails, entry.number)
    /\ \E outcome \in {"extension", "voicemail"} :
          call' = [call EXCEPT ![c] = Settle([entry EXCEPT !.choice = ByPin], outcome)]
    /\ UNCHANGED <<sumFails, now>>

Evaluate(c, entry) == Wrong(c, entry) \/ Right(c, entry)

\* handle: one key at the collector.
Handle(c, r, key) ==
    CASE key = "*" -> Becomes(c, [At(r, "collect") EXCEPT !.digits = 0])
      [] key = "#" -> Evaluate(c, r)
      [] key \in Digit /\ r.digits + 1 < Longest ->
            Becomes(c, [At(r, "collect") EXCEPT !.digits = @ + 1])
      [] key \in Digit /\ r.digits + 1 >= Longest ->
            Evaluate(c, [r EXCEPT !.digits = @ + 1])

CollectSeed(c) ==
    /\ call[c].pc = "collect" /\ call[c].key # ""
    /\ Handle(c, [call[c] EXCEPT !.key = ""], call[c].key)

CollectKey(c, key) ==
    /\ call[c].pc = "collect" /\ call[c].key = ""
    /\ Handle(c, call[c], key)

\* The timer fires: with PINs of several lengths a pause ends an entry that
\* may be one; else the dial window is over.
CollectTimer(c) ==
    /\ call[c].pc = "collect" /\ call[c].key = "" /\ call[c].waited
    /\ IF Mixed /\ call[c].digits >= Shortest
       THEN Evaluate(c, call[c])
       ELSE Becomes(c, Disposition(call[c]))

InvalidEnds(c) == call[c].pc = "invalid" /\ Continues(c, At(call[c], "collect"))

-----------------------------------------------------------------------------
(* challenge. *)

\* The budget for sums is looked at here and not at the door.
ChallengeBegins(c) ==
    /\ call[c].pc = "challenge"
    /\ sumFails' = Pruned(sumFails, call[c].number)
    /\ call' = [call EXCEPT ![c] =
                  IF OverBudget(sumFails, @.number)
                  THEN Settle([@ EXCEPT !.challenge = "rate-limited"], "dismissed")
                  ELSE At(@, "explain")]
    /\ UNCHANGED <<pinFails, now>>

\* A key that skips the explanation is not an answer.
ExplainEnds(c) == call[c].pc = "explain" /\ Continues(c, At(call[c], "ask"))

\* "What is a times..."; over the last operand the caller may already answer.
Ask(c) ==
    /\ call[c].pc = "ask"
    /\ Continues(c, [At(call[c], "answer") EXCEPT !.digits = 0])

\* Mutant: a right answer clears the PIN failures too.
SolvedForgivesPins(c) ==
    /\ pinFails' = Success(pinFails, call[c].number)
    /\ call' = [call EXCEPT ![c] = [At(@, "solved") EXCEPT !.challenge = "passed"]]
    /\ UNCHANGED <<sumFails, now>>

Solved(c) == Becomes(c, [At(call[c], "solved") EXCEPT !.challenge = "passed"])

Failed(c) ==
    LET r == [call[c] EXCEPT !.tries = @ + 1]
    IN  /\ sumFails' = Failure(sumFails, r.number)
        /\ call' = [call EXCEPT ![c] =
                      IF r.tries <= MaxPinAttempts THEN At(r, "tryAgain")
                      ELSE Settle([r EXCEPT !.challenge = "failed"], "dismissed")]
        /\ UNCHANGED <<pinFails, now>>

\* The product is up to the caller; an empty entry is a wrong one.
Answered(c, digits) == Failed(c) \/ (digits > 0 /\ Solved(c))

\* collectDigits with StarRepeats: * asks again, twice; after that it clears.
AnswerKey(c, key) ==
    /\ call[c].pc = "answer"
    /\ CASE key = "#" -> Answered(c, call[c].digits)
         [] key = "*" /\ call[c].repeats < MaxRepeats ->
               Becomes(c, [At(call[c], "ask") EXCEPT !.repeats = @ + 1])
         [] key = "*" /\ call[c].repeats = MaxRepeats ->
               Becomes(c, [At(call[c], "answer") EXCEPT !.digits = 0])
         [] key \in Digit /\ call[c].digits + 1 < AnswerDigits ->
               Becomes(c, [At(call[c], "answer") EXCEPT !.digits = @ + 1])
         [] key \in Digit /\ call[c].digits + 1 >= AnswerDigits ->
               Answered(c, call[c].digits + 1)

AnswerTimer(c) ==
    /\ call[c].pc = "answer" /\ call[c].waited
    /\ IF call[c].digits = 0
       THEN Becomes(c, Settle([call[c] EXCEPT !.challenge = "no-answer"], "dismissed"))
       ELSE Answered(c, call[c].digits)

\* A new question on every try.
TryAgainEnds(c) ==
    /\ call[c].pc = "tryAgain"
    /\ Continues(c, [At(call[c], "ask") EXCEPT !.repeats = 0])

\* Solved, the call takes the route the sum was guarding.
SolvedEnds(c) ==
    /\ call[c].pc = "solved"
    /\ Continues(c, IF call[c].guard = "noInput" THEN Unguarded(call[c])
                    ELSE [At(call[c], "choice") EXCEPT !.passed = TRUE])

-----------------------------------------------------------------------------
(* walkMenu and listen. *)

\* A key over the menu stops it; # is no choice, and waits on.
MenuPlay(c) ==
    /\ call[c].pc = "menuPlay"
    /\ \/ \E key \in Key \ {"#"} :
             Continues(c, [At(call[c], "menuKey") EXCEPT !.key = key])
       \/ Continues(c, At(call[c], "menuWait"))

\* Other keys neither choose nor restart the window.
MenuWaitKey(c, key) ==
    /\ call[c].pc = "menuWait" /\ key # "#"
    /\ Continues(c, [At(call[c], "menuKey") EXCEPT !.key = key])

MenuWaitTimer(c) ==
    /\ call[c].pc = "menuWait" /\ (call[c].waited \/ call[c].late)
    /\ LET r == [call[c] EXCEPT !.silent = @ + 1, !.key = ""]
       IN  Continues(c, IF r.silent > Repeat THEN Disposition(r) ELSE Offer(r, ""))

\* Hear it again, or a key that chooses nothing: the menu is offered again.
MenuKeyAgain(c) ==
    /\ call[c].pc = "menuKey" /\ call[c].key \notin DOMAIN Choices[call[c].menu]
    /\ Becomes(c, Offer([call[c] EXCEPT !.silent = 0], ""))

\* Mutant: the choice's own sum is not asked.
MenuChooseUnguarded(c) ==
    /\ call[c].pc = "menuKey" /\ call[c].key \in DOMAIN Choices[call[c].menu]
    /\ Becomes(c, [At(call[c], "choice") EXCEPT !.silent = 0])

MenuChoose(c) ==
    /\ call[c].pc = "menuKey" /\ call[c].key \in DOMAIN Choices[call[c].menu]
    /\ LET r == [call[c] EXCEPT !.silent = 0]
       IN  Becomes(c, IF Choices[r.menu][r.key].challenge /\ ~r.passed
                      THEN Challenge(r, "choice") ELSE At(r, "choice"))

Chosen(c) == [call[c] EXCEPT !.choice = Choices[call[c].menu][call[c].key], !.key = ""]

TakeChoice(c) ==
    /\ call[c].pc = "choice"
    /\ LET r == Chosen(c)
       IN  \/ /\ r.choice.kind = "extension"
              /\ \E outcome \in {"extension", "voicemail"} : Becomes(c, Settle(r, outcome))
           \/ r.choice.kind = "voicemail" /\ Becomes(c, Settle(r, "voicemail"))
           \/ /\ r.choice.kind = "menu"
              /\ Becomes(c, Offer([r EXCEPT !.menu = r.choice.target], ""))
           \/ r.choice.kind = "recording" /\ Becomes(c, At(r, "recording"))
           \/ r.choice.kind = "shelf" /\ Becomes(c, At(r, "listen"))

\* A recording ends in a goodbye or at the menu again, where a key pressed over
\* it is a choice.
RecordingEnds(c) ==
    /\ call[c].pc = "recording"
    /\ IF call[c].choice.goodbye
       THEN Continues(c, Settle(call[c], "dismissed"))
       ELSE \E key \in Key \cup {""} : Continues(c, Offer(call[c], key))

\* Released to the shelf; or no time is left; or every line is busy, or the
\* release is refused, and the menu is offered again.
Listen(c) ==
    /\ call[c].pc = "listen"
    /\ \/ \E outcome \in {"listening", "dismissed"} : Continues(c, Settle(call[c], outcome))
       \/ \E key \in Key \cup {""} : Continues(c, Offer(call[c], key))

-----------------------------------------------------------------------------
(* Time, and the next-state relation. *)

Waits == {"collect", "answer", "menuWait"}

\* The caller has pressed nothing for as long as the session waits.
Silence(c) ==
    /\ call[c].pc \in Waits /\ ~call[c].waited
    /\ Becomes(c, [call[c] EXCEPT !.waited = TRUE])

Walking == {"menuPlay", "menuWait", "menuKey", "choice", "recording", "listen"}
Challenged == {"challenge", "explain", "ask", "answer", "solved", "tryAgain"}

\* MenuMaxDuration has passed since the menu began.
Deadline(c) ==
    /\ HasMenu /\ ~call[c].late /\ call[c].pc \in Walking \cup Challenged
    /\ Becomes(c, [call[c] EXCEPT !.late = TRUE])

\* A wait selects on the cancelled context.
Unwind(c) ==
    /\ call[c].pc \in Waits /\ call[c].gone
    /\ Becomes(c, At(call[c], "over"))

Press(c, key) ==
    \/ BargeGreeting(c, key) \/ CollectKey(c, key)
    \/ AnswerKey(c, key) \/ MenuWaitKey(c, key)

Session(c) ==
    \/ DismissBlocked(c) \/ Welcome(c) \/ Greet(c) \/ GreetingEnds(c)
    \/ CollectSeed(c) \/ CollectTimer(c) \/ InvalidEnds(c)
    \/ ChallengeBegins(c) \/ ExplainEnds(c) \/ Ask(c) \/ AnswerTimer(c)
    \/ TryAgainEnds(c) \/ SolvedEnds(c)
    \/ MenuPlay(c) \/ MenuWaitTimer(c) \/ MenuKeyAgain(c) \/ MenuChoose(c)
    \/ TakeChoice(c) \/ RecordingEnds(c) \/ Listen(c)
    \/ Unwind(c) \/ Finish(c)

Next ==
    \/ \E c \in Call : Arrive(c) \/ HangUp(c) \/ Session(c) \/ Silence(c) \/ Deadline(c)
    \/ \E c \in Call, key \in Key : Press(c, key)
    \/ Sweep \/ Tick

Spec == Init /\ [][Next]_vars

\* A session that can go on does, and time passes; nobody has to press a key,
\* or to stop pressing them.
FairSpec ==
    /\ Spec
    /\ \A c \in Call : WF_vars(Session(c)) /\ WF_vars(Silence(c)) /\ WF_vars(Deadline(c))

-----------------------------------------------------------------------------
(* Correctness. *)

TypeOK ==
    /\ call \in [Call -> [
          pc : {"free", "door", "welcome", "greeting", "collect", "invalid", "over"}
                  \cup Walking \cup Challenged,
          number : Number, known : BOOLEAN, gone : BOOLEAN, waited : BOOLEAN,
          digits : Nat, attempts : 0 .. MaxPinAttempts + 1,
          menu : DOMAIN Choices, plays : 0 .. MenuMaxPlays, silent : 0 .. Repeat + 1,
          late : BOOLEAN, key : Key \cup {""}, passed : BOOLEAN,
          tries : 0 .. MaxPinAttempts + 1, repeats : 0 .. MaxRepeats,
          guard : {"none", "noInput", "choice"}, choice : Choice \cup {NoChoice},
          challenge : {"none", "passed", "failed", "no-answer", "rate-limited"},
          outcome : {"abandoned", "dismissed", "house", "extension", "voicemail",
                     "listening"}]]
    /\ pinFails \in [Number -> SUBSET (Nat \X Nat)] /\ sumFails \in [Number -> SUBSET (Nat \X Nat)]
    /\ \A n \in Number : IsFiniteSet(pinFails[n]) /\ IsFiniteSet(sumFails[n])
    /\ now \in 0 .. Horizon

\* What lies behind a sum is reached only by a caller who solved one on this
\* call or was admitted at the door, by whatever walk through the menus.
GuardsHold ==
    \A c \in Call :
        LET r == call[c]
        IN  r.challenge = "passed" \/ r.known \/
            /\ r.choice # NoChoice => ~r.choice.challenge
            /\ ChallengeNoInput => r.outcome # "house"
            /\ ChallengeNoInput /\ r.outcome = "voicemail" =>
                  r.choice # NoChoice /\ r.choice.kind \in {"extension", "voicemail"}

\* An admitted caller who stays on the line and chooses nothing reaches the
\* house, whatever they mistype and however long they wait (noInput, evaluate).
AdmittedReachTheHouse ==
    \A c \in Call :
        LET r == call[c]
        IN  r.pc = "over" /\ r.known /\ ~r.gone /\ r.choice = NoChoice =>
                r.outcome = "house"

\* However many calls one number makes at once and however it redials, its
\* guesses inside one window are bounded: the budget is looked at only as a
\* call begins to guess, so each call under way may use up its attempts.
BudgetsHold ==
    LET most == MaxFailures - 1 + Cardinality(Call) * (MaxPinAttempts + 1)
    IN  \A n \in Number : Cardinality(Recent(pinFails[n])) <= most
                          /\ Cardinality(Recent(sumFails[n])) <= most

\* Wrong PINs are forgiven by time, by a right PIN and by admission, never by a
\* sum or a menu ("solving two times three would wipe a redialler's PIN
\* failures").
OnlyPinsForgivePins ==
    [][\A n \in Number :
          ~(Recent(pinFails[n]) \subseteq pinFails'[n]) =>
              \E c \in Call :
                  /\ call[c].number = n
                  /\ call'[c].pc = "welcome" \/ call'[c].choice = ByPin]_vars

\* What is behind a sum is reached through it, who is admitted is heard, guesses
\* are bounded however one redials, and only a right PIN, admission or time
\* forgives wrong ones.
DoorHolds ==
    /\ [](TypeOK /\ GuardsHold /\ AdmittedReachTheHouse /\ BudgetsHold)
    /\ OnlyPinsForgivePins

\* A call offered a menu ends, whatever is pressed at it ("MenuMaxDuration
\* bounds the wall clock from the first menu to the handoff").
MenuEnds == \A c \in Call : call[c].pc = "menuPlay" ~> call[c].pc \in {"over", "free"}
=============================================================================
