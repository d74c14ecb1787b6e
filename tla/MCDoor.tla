---------------------------- MODULE MCDoor ----------------------------
(* The door: a stranger who redials two places at once, and the walks of one
   caller through two menus; with what the door reads: the compiled policy,
   the directories and the address books. One component moves in each
   behaviour. *)
EXTENDS LobbyDoor, TLC

CONSTANTS c1, c2, Stranger, Gran, Spammer

MCCall == {c1, c2}
OneCall == {c1}
MCNumber == {Stranger, Gran, Spammer}
StrangerAndGran == {Stranger, Gran}
StrangerAndSpammer == {Stranger, Spammer}
JustStranger == {Stranger}
MCTier == [n \in Number |-> CASE n = Gran -> "admitted"
                               [] n = Spammer -> "blocked"
                               [] OTHER -> "stranger"]

OneLength == {1}
TwoLengths == {1, 2}

Plain(kind) == [kind |-> kind, target |-> NoChoice, challenge |-> FALSE, goodbye |-> FALSE]
To(menu) == [Plain("menu") EXCEPT !.target = menu]

\* A line that never looks at a menu still has one to name.
NoMenus == "front" :> <<>>

\* 1 rings an extension, 2 is another menu; there, 1 is a recording and 2 a
\* shelf of stories.
OpenMenus ==
    "front" :> ("1" :> Plain("extension") @@ "2" :> To("more")) @@
    "more" :> ("1" :> Plain("recording") @@ "2" :> Plain("shelf"))

\* The same with a sum before the extension, and a mailbox and a goodbye.
GuardedMenus ==
    "front" :> ("1" :> [Plain("extension") EXCEPT !.challenge = TRUE] @@ "2" :> To("more")) @@
    "more" :> ("1" :> [Plain("recording") EXCEPT !.goodbye = TRUE] @@
               "2" :> [Plain("voicemail") EXCEPT !.challenge = TRUE])

Symmetry == Permutations(Call)

MenuTier ==
    [n \in MCNumber |-> CASE n = Gran -> "admitted" [] n = Spammer -> "blocked" [] OTHER -> "stranger"]

VARIABLES
    part,           \* which component this behaviour is of
    r1, r2, r3, r4   \* where its variables are

cells == <<r1, r2, r3, r4>>

Menu == INSTANCE LobbyDoor WITH
    NoChoice <- NoChoice, Call <- {"c1"}, Number <- MCNumber, Tier <- MenuTier,
    PinLengths <- OneLength, MaxPinAttempts <- 1, MaxFailures <- 2, Window <- 2,
    Horizon <- 2, HasMenu <- TRUE, FrontMenu <- "front", Digit <- {"1", "2"},
    Choices <- GuardedMenus, Repeat <- 1, MenuMaxPlays <- 3, AnswerDigits <- 2,
    OnNoInput <- "voicemail", ChallengeNoInput <- TRUE,
    call <- r1, pinFails <- r2, sumFails <- r3, now <- r4

Rules == INSTANCE HousePolicy WITH
    MaxEdits <- 2,
    file <- r1, policy <- r2, edits <- r3

-----------------------------------------------------------------------------
SuiteInit ==
    /\ Init
    /\ \/ part = "door" /\ r1 = 0 /\ r2 = 0 /\ r3 = 0 /\ r4 = 0
       \/ part = "menu" /\ Menu!Init
       \/ part = "rules" /\ Rules!Init /\ r4 = 0

DoorSteps == part = "door" /\ Next /\ UNCHANGED <<part, cells>>
MenuSteps == part = "menu" /\ Menu!Next /\ UNCHANGED <<part, vars>>
RulesSteps == part = "rules" /\ Rules!Next /\ UNCHANGED <<part, vars, r4>>

SuiteNext == DoorSteps \/ MenuSteps \/ RulesSteps
suiteVars == <<part, vars, cells>>

SuiteSpec ==
    /\ SuiteInit /\ [][SuiteNext]_suiteVars

\* The door alone, in which a session that can go on does (FairSpec).
HeldSpec ==
    /\ SuiteInit /\ part = "door" /\ [][DoorSteps]_suiteVars
    /\ \A c \in Call : WF_vars(Session(c)) /\ WF_vars(Silence(c)) /\ WF_vars(Deadline(c))
-----------------------------------------------------------------------------
\* However a caller walks the menus, a guarded choice is behind its sum, and
\* one who is admitted and chooses nothing reaches the house.
MenuHolds ==
    part = "menu" => Menu!GuardsHold /\ Menu!AdmittedReachTheHouse

\* An accepted policy has no dead end for a caller, and its warnings name
\* exactly what nobody can walk to.
RulesHold ==
    part = "rules" => Rules!TypeOK /\ Rules!NoDeadEnds /\ Rules!WarnsOfTheUnheard
=============================================================================
