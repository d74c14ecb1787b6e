--------------------------- MODULE VoicemailMail ---------------------------
(***************************************************************************)
(* What happens to a voicemail after the recording (internal/voicemail,    *)
(* cmd/doorman/voicemail.go).  Asterisk owns the boxes and starts a        *)
(* process at every change of one; the processes take turns under a lock,  *)
(* mail what is new with a transcript and a link, and keep a list of what  *)
(* they mailed.  A server answers the links.                               *)
(***************************************************************************)
EXTENDS Naturals, Sequences, FiniteSets, SequencesExt

CONSTANTS
    Msgs, Boxes,
    Left,           \* message -> when it was recorded
    Backlog,        \* messages every box has before any process ran
    Conf,           \* lines of voicemail.conf: [box, emails, refused], in order
    MailTo,         \* the house's address, or {}
    Runs,           \* processes
    Window, Days,   \* notify's window; how long a link lasts
    MaxTime, MaxMishaps

None == 99
VARIABLES
    now,
    inbox,          \* box -> its messages in the order of their slots
    put,            \* box -> message -> when its file was made there
    news,           \* <<box, message>> that came after the box was first seen
    rung,           \* boxes a process is owed for
    list,           \* the list on the disk: keys and box markers
    lock,
    run,            \* process -> [at, box, to, blind, sent, todo, link]
    mailed,         \* <<box, message>> -> how often it was mailed
    letters,        \* [box, to, blind] of what was mailed
    links, printed, \* links there are, and in a mail: [of, plays, at]
    mishaps

vars == <<now, inbox, put, news, rung, list, lock, run, mailed, letters, links, printed, mishaps>>
box == <<inbox, put, news, rung>>
out == <<mailed, letters, printed>>

Idle == [at |-> "idle", box |-> "none", to |-> {}, blind |-> FALSE, listed |-> FALSE, sent |-> {}, todo |-> <<>>, link |-> {}]
Mishap == mishaps < MaxMishaps /\ mishaps' = mishaps + 1

Init ==
    /\ now = 0 /\ put = [b \in Boxes |-> [m \in Msgs |-> IF m \in Backlog THEN 0 ELSE None]]
    /\ inbox = [b \in Boxes |-> SetToSeq(Backlog)]
    /\ news = {} /\ rung = {} /\ list = {} /\ lock = "none" /\ run = [r \in Runs |-> Idle]
    /\ mailed = [x \in Boxes \X Msgs |-> 0] /\ letters = {} /\ links = {} /\ printed = {} /\ mishaps = 0

\* The message of a list is known by its box and its id.
Key(b, m) == <<b, m>>
Marker(b) == <<b, "seen">>
-----------------------------------------------------------------------------
(* external: Asterisk's boxes.                                             *)

Arrive(b, m) ==
    /\ put[b][m] = None /\ put' = [put EXCEPT ![b][m] = now] /\ rung' = rung \cup {b}
    /\ inbox' = [inbox EXCEPT ![b] = Append(@, m)]
    /\ news' = IF Marker(b) \in list \/ Left[m] = now THEN news \cup {<<b, m>>} ELSE news
    /\ UNCHANGED <<now, list, lock, run, out, links, mishaps>>
Leave(b, m) == Left[m] = now /\ (\A c \in Boxes : put[c][m] = None) /\ Arrive(b, m)
Forward(b, m) == (\E c \in Boxes : m \in ToSet(inbox[c])) /\ Arrive(b, m)

\* It was listened to: the later ones move down a slot.
Listened(b, i) ==
    /\ i \in DOMAIN inbox[b] /\ inbox' = [inbox EXCEPT ![b] = RemoveAt(@, i)] /\ rung' = rung \cup {b}
    /\ UNCHANGED <<now, put, news, list, lock, run, out, links, mishaps>>
-----------------------------------------------------------------------------
(* Who hears about it.                                                     *)

\* line: the last line of the box counts, of those that could be read.
Lookup(b, lines) ==
    LET of == SelectSeq(lines, LAMBDA l : l.box = b) IN
    IF of = <<>> THEN [box |-> b, emails |-> {}, refused |-> 0] ELSE of[Len(of)]

\* recipients: the box's own, unless it has none; refused is not none, but a
\* file that cannot be read is.
Recipients(b, lines) ==
    LET l == Lookup(b, lines) IN
    CASE l.emails # {} -> l.emails
      [] l.emails = {} /\ l.refused > 0 -> {}
      [] OTHER -> MailTo

-----------------------------------------------------------------------------
(* A process, from its arguments to the saved list.                        *)

Go(r, x) == run' = [run EXCEPT ![r] = x]

\* Start: with the settings read, and nobody to tell, there is nothing to do.
\* A voicemail.conf, or a file it includes, that cannot be read is passed over.
Start(r) ==
    /\ run[r].at = "idle" /\ \E b \in rung :
        /\ rung' = rung \ {b}
        /\ \/ \E lines \in {Conf, <<>>} : LET to == Recipients(b, lines) IN
                /\ IF lines = Conf THEN UNCHANGED mishaps ELSE Mishap
                /\ Go(r, IF to = {} THEN Idle
                         ELSE [Idle EXCEPT !.at = "lock", !.box = b, !.to = to, !.blind = lines # Conf])
           \/ Mishap /\ Go(r, Idle)
    /\ UNCHANGED <<now, inbox, put, news, list, lock, out, links>>

\* What is news: not listed, and not older than the first sight of the box.
News(b, known) ==
    {i \in DOMAIN inbox[b] :
        /\ Key(b, inbox[b][i]) \notin known
        /\ (Marker(b) \in known \/ now - Left[inbox[b][i]] <= Window)}

\* Mutant of OpenSent: the processes do not wait for each other.
OpenUnlocked(r) ==
    /\ run[r].at = "lock" /\ lock' = lock
    /\ LET b == run[r].box new == News(b, list) IN
       Go(r, [run[r] EXCEPT !.at = "mail", !.listed = TRUE,
           !.sent = list \cup {Key(b, inbox[b][i]) : i \in DOMAIN inbox[b] \ new} \cup {Marker(b)},
           !.todo = [i \in 1 .. Cardinality(new) |-> LET s == SetToSortSeq(new, <)[i] IN [slot |-> s, msg |-> inbox[b][s]]]])
    /\ UNCHANGED <<now, box, list, out, links, mishaps>>

\* openSent and Inbox: under the lock; the messages are read with their slots.
OpenSent(r) ==
    /\ run[r].at = "lock" /\ lock = "none" /\ lock' = r
    /\ LET b == run[r].box new == News(b, list) IN
       Go(r, IF inbox[b] = <<>> THEN [run[r] EXCEPT !.at = "done"]
             ELSE [run[r] EXCEPT !.at = "mail", !.listed = TRUE,
                      !.sent = list \cup {Key(b, inbox[b][i]) : i \in DOMAIN inbox[b] \ new} \cup {Marker(b)},
                      !.todo = [i \in 1 .. Cardinality(new) |->
                                   LET s == SetToSortSeq(new, <)[i] IN [slot |-> s, msg |-> inbox[b][s]]]])
    /\ UNCHANGED <<now, box, list, out, links, mishaps>>

\* No list can be kept: the newest message is mailed, every time.
OpenFails(r) ==
    /\ run[r].at = "lock" /\ Mishap
    /\ LET b == run[r].box n == Len(inbox[b]) IN
       Go(r, IF n = 0 THEN Idle ELSE [run[r] EXCEPT !.at = "mail", !.todo = <<[slot |-> n, msg |-> inbox[b][n]]>>])
    /\ UNCHANGED <<now, box, list, lock, out, links>>

\* MakeLink: whatever file is in the slot by now is linked, with its own time.
MakeLink(r) ==
    /\ run[r].at = "mail" /\ run[r].todo # <<>>
    /\ LET b == run[r].box t == Head(run[r].todo)
           made == IF t.slot \notin DOMAIN inbox[b] THEN {}
                   ELSE {[of |-> <<b, t.msg>>, plays |-> inbox[b][t.slot], at |-> put[b][inbox[b][t.slot]]]}
       IN links' = links \cup made /\ Go(r, [run[r] EXCEPT !.at = "send", !.link = made])
    /\ UNCHANGED <<now, box, list, lock, out, mishaps>>

\* Each address is tried; what could not be sent is not tried again.
Send(r) ==
    /\ run[r].at = "send" /\ LET b == run[r].box t == Head(run[r].todo) IN \E reached \in SUBSET run[r].to :
        /\ IF reached = run[r].to THEN UNCHANGED mishaps ELSE Mishap
        /\ mailed' = [mailed EXCEPT ![<<b, t.msg>>] = IF reached = {} THEN @ ELSE @ + 1]
        /\ letters' = letters \cup {[box |-> b, to |-> a, blind |-> run[r].blind] : a \in reached}
        /\ printed' = IF reached = {} THEN printed ELSE printed \cup run[r].link
        /\ Go(r, [run[r] EXCEPT !.at = "mail", !.todo = Tail(@), !.link = {},
                      !.sent = IF run[r].listed THEN @ \cup {Key(b, t.msg)} ELSE @])
    /\ UNCHANGED <<now, box, list, lock, links>>

\* Prune: a link's age is its file's own time.
Expired == {l \in links : now - l.at > Days}

\* save, Prune, and the lock is given up; a failed save changes nothing.
Save(r) ==
    /\ (run[r].at = "mail" /\ run[r].todo = <<>>) \/ run[r].at = "done"
    /\ Go(r, Idle) /\ lock' = IF lock = r THEN "none" ELSE lock
    /\ IF run[r].listed
          THEN (list' = run[r].sent /\ UNCHANGED mishaps) \/ (list' = list /\ Mishap)
          ELSE UNCHANGED <<list, mishaps>>
    /\ links' = IF run[r].listed THEN links \ Expired ELSE links
    /\ UNCHANGED <<now, box, out>>

\* The process dies; the kernel gives up its lock.
Dies(r) ==
    /\ run[r].at # "idle" /\ Mishap /\ Go(r, Idle) /\ lock' = IF lock = r THEN "none" ELSE lock
    /\ UNCHANGED <<now, box, list, out, links>>
-----------------------------------------------------------------------------
(* The links.                                                              *)

Allowed(from) == from \in {"home", "tailnet"}

\* ServeHTTP: what a request for a link is answered with a recording for.
ServeHTTP(from, l) == Allowed(from) /\ l \in links

\* The server's hourly prune.
PruneLinks == Expired # {} /\ links' = links \ Expired /\ UNCHANGED <<now, box, list, lock, run, out, mishaps>>

\* Hours pass between the processes, which end within the quarter of one.
Quiet == rung = {} /\ \A r \in Runs : run[r].at = "idle"
Tick == now < MaxTime /\ Quiet /\ now' = now + 1
        /\ UNCHANGED <<box, list, lock, run, out, links, mishaps>>

Next ==
    \/ \E b \in Boxes, m \in Msgs : Leave(b, m) \/ Forward(b, m)
    \/ \E b \in Boxes : \E i \in DOMAIN inbox[b] : Listened(b, i)
    \/ \E r \in Runs : Start(r) \/ OpenSent(r) \/ OpenFails(r) \/ MakeLink(r) \/ Send(r) \/ Save(r) \/ Dies(r)
    \/ PruneLinks \/ Tick

Spec == Init /\ [][Next]_vars
-----------------------------------------------------------------------------
\* A message is mailed once to its box, but for a process that died, or a
\* list that could not be kept.
MailedOnce == \A x \in DOMAIN mailed : mailed[x] <= 1 + mishaps

\* Once nothing runs and nothing is owed, whatever was left, and whatever
\* came after the box was first seen, was mailed.
NewsIsMailed ==
    Quiet /\ mishaps = 0 => \A x \in news :
        mailed[x] > 0 \/ Recipients(x[1], Conf) = {} \/ x[2] \notin ToSet(inbox[x[1]])

\* A box's mail goes to its own addresses, and a box whose addresses are all
\* refused is not taken for one without: the house's mailbox hears of a box
\* that has addresses, good or refused, only from a process that could not
\* read voicemail.conf, and then nobody else does.
OwnAddress ==
    \A x \in letters :
        IF x.blind THEN x.to \in MailTo
        ELSE LET l == Lookup(x.box, Conf) IN
             x.to \in l.emails \/ (x.to \in MailTo /\ l.emails = {} /\ l.refused = 0)

\* A link that was mailed plays for its days, wherever the family is; out
\* of its networks it never does.
LinksLast ==
    \A l \in printed : \A from \in {"home", "tailnet", "outside"} :
        IF from = "outside" THEN ~ServeHTTP(from, l) ELSE now - l.at <= Days => ServeHTTP(from, l)

\* "A link is a link to the recording itself, not to a slot in the box":
\* what is mailed with a message plays that message.
PlaysItsMessage == \A l \in printed : l.plays = l.of[2]
=============================================================================
