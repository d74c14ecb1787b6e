------------------------------ MODULE Bedtime ------------------------------
(***************************************************************************)
(* A handset's curfew and its do-not-disturb.  The same windows are read   *)
(* three times: by the lobby before it rings a phone (internal/policy,     *)
(* internal/lobby), by the dialplan `doorman render` writes for calls that *)
(* never reach the daemon (internal/render), and by the keeper that drops  *)
(* the calls of a phone that fell asleep (cmd/doorman/curfew.go).          *)
(*                                                                         *)
(* The day has Slots slots for its minutes and the week Week days.  Two    *)
(* phones: the child's, with the curfew, and the parents', whose pages     *)
(* override do-not-disturb.                                                *)
(***************************************************************************)
EXTENDS Naturals, FiniteSets

CONSTANTS
    Slots, Week,
    Windows,        \* the windows a schedule may hold
    MaxTime,        \* bound: slots the clock runs for
    MaxCalls,       \* bound: calls placed
    MaxEvents       \* bound: edits, restarts and do-not-disturbs

VARIABLES
    time,           \* slots since the clock started
    curfew,         \* the windows of the policy in service
    rendered,       \* those in the installed dialplan
    dnd,            \* DND_<id> of the child's phone: when it ends
    calls,          \* the channels on the child's phone
    ringing,        \* the lobby has passed the gate and not originated yet
    keeper,         \* what it saw last: "unknown", "awake" or "asleep"
    looked,         \* whether it has looked in this slot
    fell,           \* it saw the phone fall asleep, and has not dropped yet
    placed, events

vars == <<time, curfew, rendered, dnd, calls, ringing, keeper, looked, fell, placed, events>>

\* Ordinary calls, an emergency call and the reminder apps.
Kinds == {"lobby", "room", "page", "all", "out", "911", "reminder"}
Exempt == {"reminder"}

Init ==
    /\ time = 0
    /\ curfew = {} /\ rendered = {}
    /\ dnd = 0 /\ calls = {} /\ ringing = FALSE
    /\ keeper = "unknown" /\ looked = FALSE /\ fell = FALSE
    /\ placed = 0 /\ events = 0
-----------------------------------------------------------------------------
(* The windows.                                                            *)

Clock(t) == t % Slots
Day(t) == (t \div Slots) % Week

\* Afterhours.Active: a window that crosses midnight belongs to the day it
\* starts on.
Active(w, t) ==
    IF w.start <= w.end
    THEN Day(t) \in w.days /\ w.start <= Clock(t) /\ Clock(t) < w.end
    ELSE \/ Day(t) \in w.days /\ Clock(t) >= w.start
         \/ (Day(t) + Week - 1) % Week \in w.days /\ Clock(t) < w.end
Asleep(t) == \E w \in curfew : Active(w, t)

Spec1(from, to, days) == [from |-> from, to |-> to, days |-> days]

\* timeSpecs: inclusive to the minute, the weekday and the clock apart; the
\* morning after is on the days after.
TimeSpecs(w) ==
    IF w.start < w.end
    THEN {Spec1(w.start, w.end - 1, w.days)}
    ELSE {Spec1(w.start, Slots - 1, w.days)}
         \cup (IF w.end > 0 THEN {Spec1(0, w.end - 1, {(d + 1) % Week : d \in w.days})} ELSE {})
IfTime(s, t) == Day(t) \in s.days /\ s.from <= Clock(t) /\ Clock(t) <= s.to
CurfewExpr(t) == \E w \in rendered : \E s \in TimeSpecs(w) : IfTime(s, t)

Quiet == dnd > time
-----------------------------------------------------------------------------
(* Calls.                                                                  *)

\* A channel comes up; one is late that comes up on a sleeping phone, or one
\* the keeper last saw asleep, until it sees it awake.
Call(kind) == [kind |-> kind, late |-> Asleep(time) \/ keeper = "asleep", kept |-> FALSE]
Place(kind) ==
    /\ placed < MaxCalls /\ placed' = placed + 1
    /\ calls' = calls \cup {Call(kind)}
    /\ UNCHANGED <<time, curfew, rendered, dnd, keeper, looked, fell, events>>

\* The lobby's gate, before every originate, and the originate after it.
RingGate ==
    /\ ~ringing /\ ~Asleep(time) /\ ~Quiet
    /\ ringing' = TRUE
    /\ UNCHANGED <<time, curfew, rendered, dnd, calls, keeper, looked, fell, placed, events>>
Originate == ringing /\ ringing' = FALSE /\ Place("lobby")

\* A room dials the phone: asleep is asked before quiet.
DialRoom == ~CurfewExpr(time) /\ ~Quiet /\ Place("room") /\ UNCHANGED ringing

\* 100: every phone that is neither quiet nor asleep.
RingAll == ~Quiet /\ ~CurfewExpr(time) /\ Place("all") /\ UNCHANGED ringing

\* 500: the parents' phone pages a quiet room, and not a sleeping one.
Page == \E override \in BOOLEAN : (override \/ ~Quiet) /\ ~CurfewExpr(time) /\ Place("page") /\ UNCHANGED ringing

\* [curfew-<id>]: the phone's own calls, behind a clock; 911 and the reminder
\* apps before it.
DialOut == ~CurfewExpr(time) /\ Place("out") /\ UNCHANGED ringing
DialEmergency == Place("911") /\ UNCHANGED ringing
Reminder == Place("reminder") /\ UNCHANGED ringing

HangUp ==
    /\ \E c \in calls : calls' = calls \ {c}
    /\ UNCHANGED <<time, curfew, rendered, dnd, ringing, keeper, looked, fell, placed, events>>

\* *78NN on the phone, and *79.
SetQuiet ==
    /\ dnd' \in {0, time + 2} \ {dnd} /\ events < MaxEvents /\ events' = events + 1
    /\ UNCHANGED <<time, curfew, rendered, calls, ringing, keeper, looked, fell, placed>>
-----------------------------------------------------------------------------
(* The keeper.                                                             *)

\* The first look only learns: a call found on a sleeping phone is kept.
Look ==
    /\ ~looked /\ ~fell
    /\ looked' = TRUE
    /\ keeper' = IF Asleep(time) THEN "asleep" ELSE "awake"
    /\ fell' = (keeper = "awake" /\ Asleep(time))
    /\ calls' = {[c EXCEPT !.kept = @ \/ keeper = "unknown", !.late = @ /\ Asleep(time)] : c \in calls}
    /\ UNCHANGED <<time, curfew, rendered, dnd, ringing, placed, events>>

\* Mutant of Drop: It stops at the first channel it finds.
DropOne ==
    /\ fell /\ fell' = FALSE
    /\ \E c \in calls : c.kind \notin Exempt /\ calls' = calls \ {c}
    /\ UNCHANGED <<time, curfew, rendered, dnd, ringing, keeper, looked, placed, events>>

\* Every channel of the phone but those of the reminder apps.
Drop ==
    /\ fell /\ fell' = FALSE
    /\ calls' = {c \in calls : c.kind \in Exempt}
    /\ UNCHANGED <<time, curfew, rendered, dnd, ringing, keeper, looked, placed, events>>

\* The listing or a hangup is refused; the calls it was about stay.
DropFails ==
    /\ fell /\ fell' = FALSE
    /\ \E failed \in SUBSET calls : calls' = {[c EXCEPT !.kept = TRUE] : c \in failed} \cup {c \in calls : c.kind \in Exempt}
    /\ UNCHANGED <<time, curfew, rendered, dnd, ringing, keeper, looked, placed, events>>
-----------------------------------------------------------------------------
(* The clock and the household.                                            *)

\* The keeper looks once a minute.
Tick ==
    /\ looked /\ ~fell /\ time < MaxTime
    /\ time' = time + 1 /\ looked' = FALSE
    /\ UNCHANGED <<curfew, rendered, dnd, calls, ringing, keeper, fell, placed, events>>

\* The daemon takes an edited policy; the dialplan waits for a render.
Edit ==
    /\ events < MaxEvents /\ events' = events + 1
    /\ curfew' \in {{w} : w \in Windows} \cup {{}} /\ curfew' # curfew
    /\ UNCHANGED <<time, rendered, dnd, calls, ringing, keeper, looked, fell, placed>>
Render ==
    /\ rendered # curfew /\ rendered' = curfew
    /\ UNCHANGED <<time, curfew, dnd, calls, ringing, keeper, looked, fell, placed, events>>

Restart ==
    /\ events < MaxEvents /\ events' = events + 1
    /\ keeper' = "unknown" /\ looked' = FALSE /\ fell' = FALSE /\ ringing' = FALSE
    /\ UNCHANGED <<time, curfew, rendered, dnd, calls, placed>>

Next ==
    \/ RingGate \/ Originate \/ DialRoom \/ RingAll \/ Page \/ DialOut \/ DialEmergency \/ Reminder
    \/ HangUp \/ SetQuiet \/ Look \/ Drop \/ DropFails \/ Tick \/ Edit \/ Render \/ Restart

Spec == Init /\ [][Next]_vars
-----------------------------------------------------------------------------
(* Properties.                                                             *)

TypeOK ==
    /\ time \in 0..MaxTime /\ dnd \in 0..(MaxTime + 2)
    /\ calls \subseteq [kind : Kinds, late : BOOLEAN, kept : BOOLEAN]
    /\ keeper \in {"unknown", "awake", "asleep"}

\* Once rendered, the dialplan lets no call through at a minute when the daemon
\* takes the phone for asleep, over midnight and the end of the week too; and
\* the other way round, but for a window that ends where it starts: the policy
\* accepts it, the daemon reads it as no time at all and the dialplan as a day.
DialplanAgrees ==
    rendered = curfew =>
        /\ Asleep(time) => CurfewExpr(time)
        /\ (\A w \in curfew : w.start # w.end) => (CurfewExpr(time) => Asleep(time))

\* No ordinary call reaches or leaves a sleeping phone, whichever way it comes:
\* only one the lobby's gate let through just before the hour.
SleepersAreLeftAlone ==
    rendered = curfew /\ Asleep(time) /\ placed' # placed =>
        \A c \in calls' \ calls : c.kind \in {"911", "lobby"} \cup Exempt

\* Each call that was up when its phone fell asleep is gone after the look, but
\* for those of the reminders, those a starting daemon found and those whose
\* hangup was refused.
DroppedAtTheHour ==
    keeper = "asleep" /\ ~fell /\ Asleep(time) => \A c \in calls : c.kept \/ c.late \/ c.kind \in Exempt
=============================================================================
