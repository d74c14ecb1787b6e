---------------------------- MODULE CreditAlarm ----------------------------
(***************************************************************************)
(* `doorman balance --ring`: each morning a timer asks every provider what *)
(* is left, and when an account is low rings the house phones in turn until *)
(* one answers; the daemon plays what it has to say (cmd/doorman/balance*, *)
(* internal/provider, internal/lobby/announce.go).  What was rung about is *)
(* kept in a file from one run to the next.                                *)
(*                                                                         *)
(* A day has PerDay ticks of the clock; the timer fires at any tick of its *)
(* jitter, and the command rings again after Repeat ticks.                 *)
(***************************************************************************)
EXTENDS Integers, FiniteSets, Sequences, SequencesExt

CONSTANTS
    Trunks,         \* accounts with a client and credentials
    Unwatched,      \* trunks with none: no client, no capability, no key
    RingIds,        \* what --ring names, in order: handsets and groups
    Groups,         \* the members of each id, of a handset itself
    Pseudo,         \* handsets that are no PJSIP phone
    PerDay, Jitter, Repeat,
    Threshold,      \* balance_min, or --min
    MaxTime,        \* bound: ticks
    MaxMishaps      \* bound: things that go wrong

VARIABLES
    clock,
    credit,         \* what each account really holds
    ranToday,       \* the timer has fired today
    pc,             \* "idle", "asked", "ringing", "watching", "rung", "failed"
    results,        \* what this run was told: [state, balance] of each trunk
    began,          \* now, of this run
    rang,           \* the state file: when each trunk was announced, or Never
    due,            \* the trunks this run rings about
    next,           \* the phone it rings next
    channel,        \* of the call: "none", "ringing", "up", "gone"
    clip,           \* which clip of the announcement plays; 0 before the daemon has it
    seenUp,         \* the command saw the channel up
    heard,          \* phones that heard this run's announcement out
    blind,          \* every look at the channel of this run failed
    told,           \* when a phone last rang about a trunk
    mishaps

vars == <<clock, credit, ranToday, pc, results, began, rang, due, next, channel, clip,
          seenUp, heard, blind, told, mishaps>>
run == <<due, next, channel, clip, seenUp, heard, blind>>

\* Groups expand in place, a phone rings once, and what is no phone is skipped.
Targets == FoldLeft(LAMBDA out, id : out \o SelectSeq(Groups[id], LAMBDA h : h \notin Pseudo /\ \A i \in DOMAIN out : out[i] # h),
                    <<>>, RingIds)

Never == -10
Clips == 3
All == Trunks \cup Unwatched

Init ==
    /\ clock = 0 /\ credit \in [Trunks -> {Threshold}]
    /\ ranToday = FALSE /\ pc = "idle"
    /\ results = [t \in All |-> [state |-> "none", balance |-> -1]] /\ began = 0
    /\ rang = [t \in Trunks |-> Never] /\ due = {}
    /\ next = 1 /\ channel = "none" /\ clip = 0 /\ seenUp = FALSE /\ heard = {} /\ blind = FALSE
    /\ told = [t \in Trunks |-> Never] /\ mishaps = 0

Mishap == mishaps < MaxMishaps /\ mishaps' = mishaps + 1
-----------------------------------------------------------------------------
(* Asking the providers.                                                   *)

\* An answer that is no balance, or none, is an error and never a zero.
Watched(t) == t \notin Unwatched
Balance(t) == credit[t]
CheckTrunkBalance(t, failed) ==
    IF ~Watched(t) THEN [state |-> "unwatched", balance |-> -1]
    ELSE IF t \in failed THEN [state |-> "error", balance |-> -1]
    ELSE [state |-> IF Balance(t) < Threshold THEN "low" ELSE "ok", balance |-> Balance(t)]

Low == {t \in All : results[t].state = "low"}
Unchecked == {t \in All : results[t].state = "error"}
BalanceExit == IF Low # {} THEN 1 ELSE IF Unchecked # {} THEN 3 ELSE 0

Check ==
    /\ pc = "idle" /\ ~ranToday /\ clock % PerDay <= Jitter
    /\ \E failed \in SUBSET Trunks :
        /\ failed # {} => mishaps < MaxMishaps
        /\ mishaps' = mishaps + Cardinality(failed)
        /\ results' = [t \in All |-> CheckTrunkBalance(t, failed)]
    /\ ranToday' = TRUE /\ began' = clock
    /\ pc' = "asked"
    /\ UNCHANGED <<clock, credit, rang, run, told>>
-----------------------------------------------------------------------------
(* Whether to ring.                                                        *)

\* A trunk that was not found low is forgotten, the unreachable one too.
Forget == [t \in Trunks |-> IF t \in Low THEN rang[t] ELSE Never]

\* Mutant of Due: The repeat has to be over, and not only up.
DueLate == {t \in Low : rang[t] = Never \/ Repeat <= 0 \/ began - rang[t] > Repeat}

Due == {t \in Low : rang[t] = Never \/ Repeat <= 0 \/ began - rang[t] >= Repeat}

NothingDue ==
    /\ pc = "asked" /\ Due = {}
    /\ rang' = IF Low = {} THEN rang ELSE Forget
    /\ pc' = "idle"
    /\ UNCHANGED <<clock, credit, ranToday, results, began, run, told, mishaps>>

\* The lowest of those below, rounded down; a trunk that is due may not be it.
SpokenBalance == CHOOSE t \in Low : \A u \in Low : results[t].balance <= results[u].balance

AnnounceLow ==
    /\ pc = "asked" /\ Due # {}
    /\ due' = Due /\ next' = 1 /\ heard' = {} /\ blind' = FALSE
    /\ pc' = "ringing"
    /\ UNCHANGED <<clock, credit, ranToday, results, began, rang, channel, clip, seenUp, told, mishaps>>

\* The handsets cannot be resolved or there is no ARI login: nothing is rung.
ResolveFails ==
    /\ pc = "asked" /\ Low # {} /\ Mishap
    /\ pc' = "failed"
    /\ UNCHANGED <<clock, credit, ranToday, results, began, rang, run, told>>
-----------------------------------------------------------------------------
(* The call.                                                               *)

Originate ==
    /\ pc = "ringing" /\ next <= Len(Targets)
    /\ channel' = "ringing" /\ clip' = 0 /\ seenUp' = FALSE
    /\ told' = [t \in Trunks |-> IF t \in due THEN began ELSE told[t]]
    /\ pc' = "watching"
    /\ UNCHANGED <<clock, credit, ranToday, results, began, rang, due, next, heard, blind, mishaps>>
OriginateFails ==
    /\ pc = "ringing" /\ next <= Len(Targets) /\ Mishap
    /\ pc' = "failed"
    /\ UNCHANGED <<clock, credit, ranToday, results, began, rang, run, told>>

Answer ==
    /\ channel = "ringing" /\ channel' = "up"
    /\ UNCHANGED <<clock, credit, ranToday, pc, results, began, rang, due, next, clip, seenUp, heard, blind, told, mishaps>>

\* The daemon plays the phrase, the number and the goodbye, and hangs up; that
\* takes longer than the half second between two looks at the channel.
Play ==
    /\ channel = "up" /\ clip < Clips /\ clip' = clip + 1
    /\ UNCHANGED <<clock, credit, ranToday, pc, results, began, rang, due, next, channel, seenUp, heard, blind, told, mishaps>>
Announced ==
    /\ channel = "up" /\ clip = Clips /\ (seenUp \/ blind)
    /\ channel' = "gone" /\ heard' = heard \cup {Targets[next]}
    /\ UNCHANGED <<clock, credit, ranToday, pc, results, began, rang, due, next, clip, seenUp, blind, told, mishaps>>

\* Nobody answers, or they hang up before the end.
Gone ==
    /\ channel \in {"ringing", "up"} /\ channel' = "gone"
    /\ UNCHANGED <<clock, credit, ranToday, pc, results, began, rang, due, next, clip, seenUp, heard, blind, told, mishaps>>

\* A look at the channel twice a second, until it is gone.
WatchChannel ==
    /\ pc = "watching"
    /\ CASE channel = "up" -> seenUp' = TRUE /\ UNCHANGED <<pc, next, channel>>
         [] channel = "gone" ->
              /\ IF seenUp THEN pc' = "rung" /\ UNCHANGED next ELSE pc' = "ringing" /\ next' = next + 1
              /\ channel' = "none" /\ UNCHANGED seenUp
         [] OTHER -> UNCHANGED <<pc, next, channel, seenUp>>
    /\ UNCHANGED <<clock, credit, ranToday, results, began, rang, due, clip, heard, blind, told, mishaps>>
WatchFails ==
    /\ pc = "watching" /\ ~blind /\ Mishap
    /\ blind' = TRUE
    /\ UNCHANGED <<clock, credit, ranToday, pc, results, began, rang, due, next, channel, clip, seenUp, heard, told>>
Deadline ==
    /\ pc = "watching" /\ channel \in {"ringing", "up"} /\ Mishap
    /\ channel' = "gone"
    /\ UNCHANGED <<clock, credit, ranToday, pc, results, began, rang, due, next, clip, seenUp, heard, blind, told>>

\* Every trunk that was due counts as announced, answered or not.
Remember ==
    /\ pc = "rung" \/ (pc = "ringing" /\ next > Len(Targets))
    /\ rang' = [t \in Trunks |-> IF t \in due THEN began ELSE Forget[t]]
    /\ pc' = "idle"
    /\ UNCHANGED <<clock, credit, ranToday, results, began, run, told, mishaps>>

\* A call that was not placed is not recorded, nor what was forgotten.
GiveUp ==
    /\ pc = "failed" /\ pc' = "idle"
    /\ UNCHANGED <<clock, credit, ranToday, results, began, rang, run, told, mishaps>>

\* The file cannot be written, or was damaged: one ring more.
StateLost ==
    /\ pc = "idle" /\ Mishap
    /\ rang' = [t \in Trunks |-> Never]
    /\ UNCHANGED <<clock, credit, ranToday, pc, results, began, run, told>>
-----------------------------------------------------------------------------
(* The clock and the account.                                              *)

Tick ==
    /\ pc = "idle" /\ clock < MaxTime
    /\ clock' = clock + 1
    /\ clock % PerDay >= Jitter => ranToday
    /\ ranToday' = (ranToday /\ clock' % PerDay # 0)
    /\ UNCHANGED <<credit, pc, results, began, rang, run, told, mishaps>>
Spend ==
    /\ pc = "idle" /\ \E t \in Trunks : credit[t] > 0 /\ credit' = [credit EXCEPT ![t] = @ - 1]
    /\ UNCHANGED <<clock, ranToday, pc, results, began, rang, run, told, mishaps>>
TopUp ==
    /\ pc = "idle" /\ \E t \in Trunks : credit[t] < Threshold /\ credit' = [credit EXCEPT ![t] = Threshold]
    /\ UNCHANGED <<clock, ranToday, pc, results, began, rang, run, told, mishaps>>

Next ==
    \/ Check \/ NothingDue \/ AnnounceLow \/ ResolveFails
    \/ Originate \/ OriginateFails \/ Answer \/ Play \/ Announced \/ Gone
    \/ WatchChannel \/ WatchFails \/ Deadline \/ Remember \/ GiveUp \/ StateLost
    \/ Tick \/ Spend \/ TopUp

Spec == Init /\ [][Next]_vars
-----------------------------------------------------------------------------
(* Properties.                                                             *)

TypeOK ==
    /\ clock \in 0..MaxTime /\ credit \in [Trunks -> 0..Threshold]
    /\ rang \in [Trunks -> {Never} \cup 0..MaxTime] /\ told \in [Trunks -> {Never} \cup 0..MaxTime]
    /\ BalanceExit \in {0, 1, 3}

\* What the file says was announced, a phone has rung about; and after a run on
\* which nothing went wrong one has rung, within the repeat, about every account
\* that is below its threshold.
HouseIsTold ==
    /\ \A t \in Trunks : told[t] >= rang[t]
    /\ pc = "idle" /\ mishaps = 0 => \A t \in Low \cap Trunks : told[t] # Never /\ began - told[t] < Repeat

\* The phones ring in order and the first that hears it is the last that rings;
\* but for a run that could not look at its channel.
OneHears == Cardinality(heard) <= 1 \/ blind
=============================================================================
