------------------------------ MODULE PhoneGame ------------------------------
(***************************************************************************)
(* The game preview (internal/phonegame; cmd/doorman/games.go).  One room  *)
(* at a time: a host plays a pack, invites other handsets and lets them    *)
(* talk.  The manager routes what Asterisk announces by the seat a channel *)
(* holds, while the room's own goroutine asks, dials and waits.            *)
(***************************************************************************)
EXTENDS Naturals, FiniteSets, Sequences, Functions

CONSTANTS
    Packs,          \* packs on the disk: [questions, tiers, perTier, lines]
    Options,        \* the answer keys
    Callers,        \* channels that dial *GAME
    Legs,           \* channels an invitation creates
    HandsetOf,      \* channel -> its handset, or "other"
    Handsets,       \* the handsets that may join
    LeaveTo,        \* "gone", and "away" where calls are transferred
    Prompts,        \* the lines every room needs
    MaxMembers,     \* handsets in a room
    MaxQueue,       \* events a room has not read yet
    MaxWire,        \* bound: announcements under way
    MaxMishaps      \* bound: calls of Asterisk that fail

VARIABLES
    pack,           \* the pack that loaded
    previous,       \* its question's layout in the last game
    chan,           \* external: channel -> "none", "ring", "app", "gone", "away", "killed"
    wire,           \* what Asterisk announced and the manager has not seen
    dismissing,     \* channels the manager hangs up
    closed,         \* the preview is ending
    seats,          \* channels whose announcements the room reads
    room,           \* the room, or NoRoom
    queue,          \* its events
    bridge, muted,  \* external: who is in its bridge, who is muted
    lost,           \* history: legs made by an invitation whose reply did not come
    heard,          \* history: legs whose answer the manager gave to the room
    mishaps

vars == <<pack, previous, chan, wire, dismissing, closed, seats, room, queue, bridge, muted,
          lost, heard, mishaps>>
manager == <<pack, wire, dismissing, closed, seats>>
history == <<lost, heard>>
outside == <<chan, bridge, muted>>

Channels == Callers \cup Legs
NoRoom == [at |-> "none"]
Open == room.at # "none"
Mishap == mishaps < MaxMishaps /\ mishaps' = mishaps + 1
-----------------------------------------------------------------------------
(* The pack and its layouts.                                               *)

OfTier(p, t) == {q \in p.questions : q.tier = t}

ValidLayout(q) == DOMAIN q.pins \subseteq Options /\ IsInjective(q.pins) /\ Range(q.pins) \subseteq Options

\* Load: the lines are there, every tier can be drawn, every layout can be made.
Loads(p) ==
    /\ Prompts \subseteq p.lines
    /\ \A t \in 1 .. p.tiers : Cardinality(OfTier(p, t)) >= p.perTier
    /\ \A q \in p.questions : q.tier \in 1 .. p.tiers /\ ValidLayout(q)

\* Start draws a question of the first tier.
Draw(p) == OfTier(p, 1)

Layouts(q) == {f \in [Options -> Options] : IsInjective(f) /\ \A k \in DOMAIN q.pins : f[k] = q.pins[k]}

\* prepareLayouts: the layout of the last game is not given again.
Layout(q, last, f) ==
    LET free == Options \ DOMAIN q.pins
        a == CHOOSE k \in free : \A o \in free : k <= o
        b == CHOOSE k \in free \ {a} : \A o \in free \ {a} : k <= o
    IN IF f = last /\ Cardinality(free) > 1 THEN [f EXCEPT ![a] = f[b], ![b] = f[a]] ELSE f

\* The choice a button was said with.
Canonical(f, button) == CHOOSE k \in Options : f[k] = button

Init ==
    /\ pack \in {p \in Packs : Loads(p)} /\ previous = [k \in {} |-> 0]
    /\ chan = [c \in Channels |-> "none"] /\ wire = <<>> /\ dismissing = {} /\ closed = FALSE
    /\ seats = {} /\ room = NoRoom /\ queue = <<>> /\ bridge = {} /\ muted = {}
    /\ lost = {} /\ heard = {} /\ mishaps = 0
-----------------------------------------------------------------------------
(* external: the phones.                                                   *)

Announce(c, type) == Len(wire) < MaxWire /\ wire' = Append(wire, [type |-> type, chan |-> c])

\* external
Enter(c) ==
    /\ chan[c] = IF c \in Callers THEN "none" ELSE "ring"
    /\ chan' = [chan EXCEPT ![c] = "app"] /\ Announce(c, "start")
    /\ UNCHANGED <<pack, previous, dismissing, closed, seats, room, queue, bridge, muted, mishaps>>

\* external: hung up, rung out, or transferred out of the application.
Leave(c) ==
    /\ \/ chan[c] = "app" /\ \E s \in LeaveTo : chan' = [chan EXCEPT ![c] = s]
       \/ chan[c] = "ring" /\ chan' = [chan EXCEPT ![c] = "gone"]
    /\ Announce(c, "end") /\ bridge' = bridge \ {c} /\ muted' = muted \ {c}
    /\ UNCHANGED <<pack, previous, dismissing, closed, seats, room, queue, mishaps>>

\* Hangup as Asterisk does it; the channel's end is announced.
HungUp(cs) ==
    /\ chan' = [c \in Channels |-> IF c \notin cs THEN chan[c]
                                   ELSE IF chan[c] = "away" THEN "killed"
                                   ELSE IF chan[c] = "none" THEN "none" ELSE "gone"]
    /\ bridge' = bridge \ cs /\ muted' = muted \ cs
-----------------------------------------------------------------------------
(* The manager.                                                            *)

NewRoom(c) == [at |-> "begin", next |-> "none", back |-> "lobby", host |-> c, inviting |-> "none", leg |-> "none",
               members |-> {}, owned |-> {c}, detached |-> {}, gone |-> {}, cancelled |-> FALSE]

Invited(c) == Open /\ c \in Legs /\ room.at # "ended" /\ room.inviting = HandsetOf[c]

\* A room that does not read its events fast enough ends.
Queued(e) ==
    IF Len(queue) < MaxQueue THEN queue' = Append(queue, e) /\ UNCHANGED room
    ELSE room' = [room EXCEPT !.cancelled = TRUE] /\ UNCHANGED queue

Event ==
    /\ wire # <<>> /\ wire' = Tail(wire)
    /\ LET e == Head(wire)  c == e.chan  mine == c \in seats \/ (e.type = "start" /\ Invited(c)) IN
       /\ heard' = IF mine /\ c \in Legs /\ ~closed THEN heard \cup {c} ELSE heard
       /\ IF closed THEN UNCHANGED <<dismissing, seats, room, queue>>
          ELSE
            \/ /\ mine /\ seats' = seats \cup {c} /\ Queued(e) /\ UNCHANGED dismissing
            \/ /\ ~mine /\ e.type = "start" /\ c \in Callers /\ ~Open
               /\ room' = NewRoom(c) /\ seats' = {c} /\ queue' = <<>> /\ UNCHANGED dismissing
            \/ /\ ~mine /\ e.type = "start" /\ (c \in Legs \/ Open)
               /\ dismissing' = dismissing \cup {c} /\ UNCHANGED <<seats, room, queue>>
            \/ ~mine /\ e.type = "end" /\ UNCHANGED <<dismissing, seats, room, queue>>
    /\ UNCHANGED <<pack, previous, closed, outside, lost, mishaps>>

Dismiss(c) ==
    /\ c \in dismissing /\ dismissing' = dismissing \ {c} /\ HungUp({c})
    /\ UNCHANGED <<pack, previous, wire, closed, seats, room, queue, mishaps>>

\* The twenty minutes are over, or the preview is ending.
Cancel ==
    /\ Open /\ ~room.cancelled /\ room' = [room EXCEPT !.cancelled = TRUE]
    /\ UNCHANGED <<manager, previous, queue, outside, mishaps>>
Close ==
    /\ ~closed /\ closed' = TRUE /\ room' = IF Open THEN [room EXCEPT !.cancelled = TRUE] ELSE room
    /\ UNCHANGED <<pack, previous, wire, dismissing, seats, queue, outside, mishaps>>
-----------------------------------------------------------------------------
(* The room: what it does next, what it waits for.                         *)

At(label) == room.at = label
To(label) == room' = [room EXCEPT !.at = label]
Say(next) == room' = [room EXCEPT !.at = "say", !.next = next]
End == room' = [room EXCEPT !.at = "end", !.inviting = "none"]
InApp(cs) == ~room.cancelled /\ \A c \in cs : chan[c] = "app"
Still == UNCHANGED <<manager, previous, queue>>
Quiet == Still /\ UNCHANGED <<outside, mishaps>>

\* A call of Asterisk that fails ends the room.
Fails(cs) == End /\ ((~InApp(cs) /\ UNCHANGED mishaps) \/ Mishap) /\ UNCHANGED outside

Begin ==
    /\ At("begin") /\ Still
    /\ \/ HandsetOf[room.host] \notin Handsets /\ End /\ UNCHANGED <<outside, mishaps>>
       \/ Fails({room.host})
       \/ /\ HandsetOf[room.host] \in Handsets /\ InApp({room.host}) /\ bridge' = {room.host}
          /\ room' = [room EXCEPT !.at = "say", !.next = "lobby", !.members = {room.host}]
          /\ UNCHANGED <<chan, muted, mishaps>>

\* A line was played; lines that play to the invited handset end with it.
Played ==
    /\ At("say") /\ queue = <<>> /\ To(room.next) /\ Quiet
PlayFails == At("say") /\ Still /\ Fails({})

Waits == room.at \in {"say", "lobby", "pick", "ring", "clip", "accept", "ask", "social", "talk"}

\* observe: a channel that left is no longer a member; the host ends the room.
Observe ==
    /\ Waits /\ queue # <<>> /\ queue' = Tail(queue)
    /\ LET e == Head(queue)  c == e.chan
           left == [room EXCEPT !.detached = @ \cup {c}, !.gone = @ \cup {c}, !.members = @ \ {c}] IN
       room' = IF e.type = "end"
               THEN IF c = room.host THEN [left EXCEPT !.at = "end"]
                    ELSE IF c = room.leg /\ room.at \in {"ring", "clip", "accept"}
                         THEN [left EXCEPT !.at = "say", !.next = "uninvite"] ELSE left
               ELSE IF At("ring") /\ c = room.leg THEN [room EXCEPT !.at = "clip"] ELSE room
    /\ UNCHANGED <<manager, previous, outside, mishaps>>

\* A wait ends when the room is cancelled.
GiveUp == Waits /\ room.cancelled /\ End /\ Quiet
-----------------------------------------------------------------------------
(* The menus.  A window opens on an empty queue; no key is a timeout.      *)

Window(label) == At(label) /\ queue = <<>>

LobbyKey ==
    /\ Window("lobby")
    /\ \/ End /\ UNCHANGED previous
       \/ \E q \in Draw(pack) : \E f \in Layouts(q) :
            /\ previous' = Layout(q, previous, f)
            /\ Say("ask")
       \/ room' = [room EXCEPT !.at = "invite", !.back = "lobby"] /\ UNCHANGED previous
    /\ UNCHANGED <<manager, queue, outside, mishaps>>

Present(h) == \E c \in room.members : HandsetOf[c] = h
Back == IF room.back = "lobby" THEN "again" ELSE "ask"

Invite ==
    /\ At("invite") /\ Quiet
    /\ IF Cardinality(room.members) >= MaxMembers \/ \A h \in Handsets : Present(h) THEN Say(Back) ELSE Say("pick")

\* Back to the lobby's line.
Again == At("again") /\ Say("lobby") /\ Quiet

Busy(h) == \E c \in Channels : HandsetOf[c] = h /\ chan[c] \in {"ring", "app", "away"}

PickKey ==
    /\ Window("pick") /\ Quiet
    /\ \/ To(Back)
       \/ \E h \in Handsets : ~Present(h) /\ IF Busy(h) THEN Say(Back)
                              ELSE room' = [room EXCEPT !.at = "dial", !.inviting = h]

\* Asterisk creates the leg, which may ring and answer before the reply is
\* read; the reply may be an error, late or unread, and the leg there all the same.
Originate(l) ==
    /\ At("dial") /\ room.leg = "none" /\ ~room.cancelled /\ HandsetOf[l] = room.inviting /\ chan[l] = "none"
    /\ chan' = [chan EXCEPT ![l] = "ring"] /\ room' = [room EXCEPT !.leg = l]
    /\ UNCHANGED <<manager, previous, queue, bridge, muted, mishaps>>
NotOriginated ==
    /\ At("dial") /\ room.leg = "none" /\ Say("uninvite") /\ Still /\ UNCHANGED outside
    /\ (Mishap \/ (room.cancelled /\ UNCHANGED mishaps))
ReplyLost ==
    /\ At("dial") /\ room.leg # "none" /\ lost' = lost \cup {room.leg} /\ Still
    /\ room' = [room EXCEPT !.at = "say", !.next = "uninvite", !.leg = "none"]
    /\ (Mishap \/ (room.cancelled /\ UNCHANGED mishaps)) /\ UNCHANGED <<outside, heard>>
Ringing ==
    /\ At("dial") /\ room.leg # "none"
    /\ room' = [room EXCEPT !.at = "ring", !.owned = @ \cup {room.leg}] /\ seats' = seats \cup {room.leg}
    /\ UNCHANGED <<pack, wire, dismissing, closed, previous, queue, outside, mishaps>>

RingsOut == At("ring") /\ Say("uninvite") /\ Quiet

\* The invitation is played to the handset, and it presses 1.
Clip == At("clip") /\ queue = <<>> /\ (To("accept") \/ Say("uninvite")) /\ Quiet

Accept ==
    /\ Window("accept")
    /\ \/ Say("uninvite") /\ Quiet
       \/ Still /\ Fails({room.leg})
       \/ /\ InApp({room.leg}) /\ muted' = muted \cup {room.leg} /\ bridge' = bridge \cup {room.leg}
          /\ room' = [room EXCEPT !.at = "say", !.next = "uninvite", !.members = @ \cup {room.leg}]
          /\ Still /\ UNCHANGED <<chan, mishaps>>

\* Mutant of Uninvite: a leg that did not join is left ringing.
UninviteOnly ==
    /\ At("uninvite") /\ room' = [room EXCEPT !.at = Back, !.inviting = "none", !.leg = "none", !.owned = @ \ {room.leg}]
    /\ seats' = IF room.leg \in room.members THEN seats ELSE seats \ {room.leg}
    /\ UNCHANGED <<pack, wire, dismissing, closed, previous, queue, outside, mishaps>>

\* What was deferred: a leg that did not join is hung up and loses its seat;
\* a hangup that fails is left to the end of the room.
Uninvite ==
    /\ At("uninvite") /\ room' = [room EXCEPT !.at = Back, !.inviting = "none", !.leg = "none"]
    /\ IF room.leg \in room.members \cup {"none"} THEN UNCHANGED <<outside, seats>>
       ELSE /\ seats' = seats \ {room.leg}
            /\ \/ room.leg \notin room.detached /\ ~room.cancelled /\ HungUp({room.leg})
               \/ UNCHANGED outside
    /\ UNCHANGED <<pack, wire, dismissing, closed, previous, queue, mishaps>>
-----------------------------------------------------------------------------
(* The game.                                                               *)

\* An answer, or no answer in time, is a step of the pack; 9 is social.
Ask ==
    /\ Window("ask")
    /\ \/ Say("ask") \/ Say("end") \/ Say("social")
    /\ Quiet
PackFails == At("ask") /\ Still /\ Fails({})

SocialKey ==
    /\ Window("social") /\ Still
    /\ \/ Say("ask") /\ UNCHANGED <<outside, mishaps>>
       \/ room' = [room EXCEPT !.at = "invite", !.back = "game"] /\ UNCHANGED <<outside, mishaps>>
       \/ Cardinality(room.members) < 2 /\ Say("ask") /\ UNCHANGED <<outside, mishaps>>
       \/ Cardinality(room.members) >= 2 /\ Say("unmute") /\ UNCHANGED <<outside, mishaps>>

Unmute ==
    /\ At("unmute") /\ Still
    /\ \/ InApp(room.members) /\ To("talk") /\ muted' = muted \ room.members /\ UNCHANGED <<chan, bridge, mishaps>>
       \/ Fails(room.members)

\* The talk is over; whoever is still a member is muted again.
Mute ==
    /\ At("talk") /\ Still
    /\ \/ InApp(room.members) /\ Say("ask") /\ muted' = room.members \ {room.host} /\ UNCHANGED <<chan, bridge, mishaps>>
       \/ Fails(room.members)
-----------------------------------------------------------------------------
(* cleanup: out of the manager first, then the legs and the bridge.        *)

Forget ==
    /\ At("end") /\ To("ended") /\ seats' = {}
    /\ UNCHANGED <<pack, previous, wire, dismissing, closed, queue, outside, mishaps>>

CleanUp ==
    /\ At("ended") /\ room' = NoRoom /\ queue' = <<>>
    /\ LET cs == room.owned \ room.detached IN
       /\ chan' = [c \in Channels |-> IF c \notin cs \/ chan[c] = "none" THEN chan[c]
                                      ELSE IF chan[c] = "away" THEN "killed" ELSE "gone"]
       /\ bridge' = {} /\ muted' = {}
    /\ UNCHANGED <<manager, previous, mishaps>>

Step ==
    \/ Begin \/ Played \/ PlayFails \/ Observe \/ GiveUp \/ LobbyKey \/ Invite \/ Again \/ PickKey
    \/ (\E l \in Legs : Originate(l)) \/ NotOriginated \/ Ringing \/ RingsOut \/ Clip \/ Accept
    \/ Uninvite \/ Ask \/ PackFails \/ SocialKey \/ Unmute \/ Mute \/ Forget \/ CleanUp

Quietly ==
    /\ (\E c \in Channels : Enter(c) \/ Leave(c) \/ Dismiss(c)) \/ Cancel \/ Close \/ Step
    /\ UNCHANGED history

Next == Quietly \/ Event \/ ReplyLost

Spec == Init /\ [][Next]_vars

TypeOK ==
    /\ chan \in [Channels -> {"none", "ring", "app", "gone", "away", "killed"}]
    /\ seats \cup dismissing \cup bridge \cup muted \subseteq Channels
    /\ lost \cup heard \subseteq Legs /\ Len(queue) <= MaxQueue
-----------------------------------------------------------------------------
\* When there is no room, nobody is left ringing, or alone in the application,
\* who was not announced a moment ago; unless the preview itself is ending.  An
\* invitation whose reply was lost is the exception, and how far it goes: its
\* leg rings on for its own time, is sent away if it answers later, and stays
\* alone in the application only if it answered while the room still said so.
NobodyIsLeft ==
    (~Open /\ wire = <<>> /\ dismissing = {} /\ ~closed) =>
        /\ bridge = {}
        /\ \A c \in Channels :
             /\ chan[c] = "ring" => c \in lost
             /\ chan[c] = "app" => c \in lost \cap heard

\* Whoever hears the game only hears it: the host alone is not muted, except
\* while they talk.
SidelineIsSilent == (Open /\ room.at \notin {"talk", "end", "ended"}) => bridge \ {room.host} \subseteq muted

\* Only handsets that may join hear it, each once.
OnlyHandsets ==
    \A c, d \in bridge : HandsetOf[c] \in Handsets /\ (HandsetOf[c] = HandsetOf[d] => c = d)

\* Every answer has its own button, pins stay, and another game has another layout.
AnswersAreTheirs ==
    \A q \in Draw(pack) : \A f \in Layouts(q) :
        LET g == Layout(q, previous, f) IN
        /\ g \in Layouts(q) /\ \A k \in Options : Canonical(g, g[k]) = k
        /\ Cardinality(Options \ DOMAIN q.pins) > 1 => g # previous
=============================================================================
