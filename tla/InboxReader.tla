----------------------------- MODULE InboxReader -----------------------------
(***************************************************************************)
(* Texts to the house number (internal/inbox; cmd/doorman: inbox.go).  The *)
(* reader pulls the oldest unacknowledged texts from the edge, acts on     *)
(* each, and acknowledges those it is done with.  A word acts once.  A     *)
(* contact card waits on a shelf on the disk for its phone books: the      *)
(* sender names them, cancels, or says nothing and is told that the house  *)
(* book is the default.  Books are written target by target; a write may   *)
(* fail, an answer be lost and the reader be stopped anywhere.  One sender *)
(* and one house number, so one place on the shelf; time counts in units   *)
(* of the quiet period.                                                    *)
(***************************************************************************)
EXTENDS Naturals, FiniteSets, Sequences, SequencesExt

CONSTANTS
    Msg,            \* message id -> [kind, to, good]: what it is, the books it names, and
                    \* whether its contact data can be read
    PullLimit,      \* how many texts one pull brings
    SeenKeep,       \* how many handled ids are kept
    Quiet, Choice, Total, \* contactQuiet, contactChoice and the 15 minutes
    SaveAttempts,   \* saveAttemptLimit
    MaxTime,        \* bound on the clock
    Mixes,          \* bound: which texts come together
    MaxMishaps      \* bound: failed writes and replies, lost answers, crashes

VARIABLES
    now, mishaps,
    may,            \* of the phone book words the sender may use, as policy and messages
                    \* say: "all", "others" (none that is named here) or "none"
    edge,           \* external: the texts not acknowledged
    come,           \* external: message id -> when it arrived, and as which
    seen,           \* the ids handled, oldest first: [ids] in memory, [file] on the disk
                    \* and [lost], those a restart forgot
    shelf,          \* the batch that waits, in memory
    disk,           \* the same, in its file
    book,           \* <<target, card>>: what the phone books hold
    acts,           \* message id -> how often its webhook was called
    declined,       \* the cards given up, and those of them the sender was sent a text
                    \* about: a sender that may not use the words is sent none, and a
                    \* text that fails changes nothing
    offered,        \* cards of a batch whose House default the sender was told of
    attempts,       \* message id -> failed saves
    loop,           \* the reader: [at, todo, done, retry, full]
    job             \* the contact work under way

vars == <<now, mishaps, may, edge, come, seen, shelf, disk, book, acts, declined, offered,
          attempts, loop, job>>
files == <<seen, disk, book>>
world == <<now, may, edge, come>>

Ids == DOMAIN Msg
Kind(m) == Msg[m].kind
IsCard(m) == Kind(m) \in {"card", "cardto", "upload"}
Checked(m) == Msg[m].good
Texts == {m \in Ids : Kind(m) \in {"card", "cardto"}}
Empty == [cards |-> {}, since |-> 0, quiet |-> 0, deadline |-> 0, noticed |-> FALSE,
         words |-> {}, default |-> FALSE, noDefault |-> FALSE]
NoJob == [cards |-> {}, left |-> {}, durable |-> FALSE, then |-> "none", id |-> "none"]
Idle == [at |-> "idle", todo |-> <<>>, done |-> {}, retry |-> FALSE, full |-> FALSE]
Mishap == mishaps < MaxMishaps /\ mishaps' = mishaps + 1
Put(b) == shelf' = b /\ disk' = b
Head1 == Head(loop.todo)
Waiting == shelf # Empty

Init ==
    /\ now = 0 /\ mishaps = 0 /\ may = "all" /\ seen = [ids |-> <<>>, file |-> <<>>, lost |-> {}]
    /\ edge = {} /\ come = <<>> /\ shelf = Empty /\ disk = Empty /\ book = {}
    /\ acts = [m \in Ids |-> 0] /\ declined = [cards |-> {}, told |-> {}] /\ offered = {}
    /\ attempts = [m \in Ids |-> 0] /\ loop = Idle /\ job = NoJob

\* The clock moves, and texts come, between two pulls or two kinds of work.
Between == loop.at = "idle" \/ (loop.at = "handle" /\ loop.todo = <<>>)

Tick ==
    /\ Between /\ now < MaxTime /\ now' = now + 1
    /\ UNCHANGED <<mishaps, may, edge, come, files, shelf, acts, declined, offered, attempts, loop, job>>

Arrive(m) ==
    /\ Between /\ m \notin DOMAIN come /\ \E x \in Mixes : DOMAIN come \cup {m} \subseteq x
    /\ LET text == [at |-> now, nth |-> Cardinality(DOMAIN come) + 1]
       IN come' = [i \in DOMAIN come \cup {m} |-> IF i = m THEN text ELSE come[i]]
    /\ edge' = edge \cup {m}
    /\ UNCHANGED <<now, mishaps, may, files, shelf, acts, declined, offered, attempts, loop, job>>

\* The oldest texts first; a full answer may have left others behind.
Before(m, n) == come[m].nth < come[n].nth
Oldest == LET q == SetToSortSeq(edge, Before) IN SubSeq(q, 1, IF Len(q) < PullLimit THEN Len(q) ELSE PullLimit)

Pull ==
    /\ loop.at = "idle" /\ (edge # {} \/ Waiting)
    /\ loop' = [at |-> "handle", todo |-> Oldest, done |-> {}, retry |-> FALSE,
                full |-> Len(Oldest) = PullLimit]
    /\ UNCHANGED <<world, mishaps, files, shelf, acts, declined, offered, attempts, job>>
-----------------------------------------------------------------------------
(* The end of one text: handled and marked, or left for the next pull.     *)

IsSeen(m) == m \in ToSet(seen.ids)
Noted(m) == LET q == Append(seen.ids, m) IN
    SubSeq(q, Len(q) - (IF Len(q) < SeenKeep THEN Len(q) ELSE SeenKeep) + 1, Len(q))

\* The whole list is written beside the file and renamed over it.  Neither error
\* is looked at: the old file may stay, or what was written of the new one
\* replace it, and the id counts as new all the same.
Mark(m) ==
    IF IsSeen(m) THEN UNCHANGED <<seen, mishaps>>
    ELSE \/ seen' = [seen EXCEPT !.ids = Noted(m), !.file = Noted(m)] /\ UNCHANGED mishaps
         \/ /\ Mishap
            /\ \E f \in {seen.file} \cup {SubSeq(Noted(m), 1, n) : n \in 0 .. Len(Noted(m)) - 1} :
                   seen' = [seen EXCEPT !.ids = Noted(m), !.file = f]
Done(m) == loop' = [loop EXCEPT !.at = "handle", !.todo = Tail(@), !.done = @ \cup {m}]
Retried == loop' = [loop EXCEPT !.at = "handle", !.todo = Tail(@), !.retry = TRUE]
Handling(m) == loop.at = "handle" /\ loop.todo # <<>> /\ m = Head1
Quietly == UNCHANGED <<world, book, acts, offered, attempts, job>>

Duplicate(m) ==
    /\ Handling(m) /\ Kind(m) # "upload" /\ IsSeen(m) /\ Done(m)
    /\ UNCHANGED <<files, shelf, declined, mishaps>> /\ Quietly

\* A plain word is marked before anything moves; then it calls its webhook, or
\* only answers: a question, a state that is already reached, no permission, no
\* such word.
ActMark(m) ==
    /\ Handling(m) /\ Kind(m) = "act" /\ ~IsSeen(m) /\ Mark(m)
    /\ loop' = [loop EXCEPT !.at = "act"]
    /\ UNCHANGED <<shelf, disk, declined>> /\ Quietly

Act(m) ==
    /\ loop.at = "act" /\ m = Head1 /\ Done(m)
    /\ \/ acts' = [acts EXCEPT ![m] = @ + 1]
       \/ UNCHANGED acts
    /\ UNCHANGED <<world, mishaps, files, shelf, declined, offered, attempts, job>>

\* The mark of a contact command comes last, in a step of its own.
ThenMark(m) == loop' = [loop EXCEPT !.at = "mark"]
MarkDone(m) ==
    /\ loop.at = "mark" /\ m = Head1 /\ Done(m)
    /\ IF Kind(m) = "upload" THEN UNCHANGED <<seen, mishaps>> ELSE Mark(m)
    /\ UNCHANGED <<shelf, disk, declined>> /\ Quietly

GiveUp(cards, answered) ==
    declined' = [cards |-> declined.cards \cup cards,
                 told |-> IF answered THEN declined.told \cup cards ELSE declined.told]

\* A refused text is answered, or not, and marked.
Refuse(m, cards, answered) ==
    /\ ThenMark(m) /\ GiveUp(cards, answered)
    /\ UNCHANGED <<files, shelf, mishaps>> /\ Quietly
-----------------------------------------------------------------------------
(* The shelf.                                                              *)

InTime(m) == Waiting /\ come[m].at < shelf.deadline
Overdue(m) == Waiting /\ come[m].at >= shelf.deadline
Fresh(m) == [Empty EXCEPT !.since = come[m].nth, !.deadline = now + Total]

\* Three cards wait at once.
Room(b) == Cardinality(b.cards) < 3

\* Mutant of ShelveContacts: another card leaves the notice as it was.
ShelveUnannounced(m) ==
    /\ Handling(m) /\ Kind(m) = "card" /\ ~IsSeen(m) /\ ~Overdue(m)
    /\ LET b == IF Waiting THEN shelf ELSE Fresh(m) IN
       /\ may # "none" /\ m \notin b.cards /\ b.words = {} /\ Room(b) /\ ThenMark(m)
       /\ Put([b EXCEPT !.cards = @ \cup {m}, !.quiet = now + Quiet])
       /\ UNCHANGED <<seen, declined, mishaps>> /\ Quietly

\* A sender that may use no word is refused in silence, a card that cannot be
\* read with an answer, both before the shelf is looked at.
MayShelve(m) == may # "none" /\ Checked(m)

RefuseCard(m) ==
    /\ Handling(m) /\ Kind(m) = "card" /\ ~IsSeen(m) /\ ~MayShelve(m)
    /\ Refuse(m, {m}, may # "none")

ShelveContacts(m) ==
    /\ Handling(m) /\ Kind(m) = "card" /\ ~IsSeen(m) /\ MayShelve(m) /\ ~Overdue(m)
    /\ LET b == IF Waiting THEN shelf ELSE Fresh(m) IN
       \/ /\ m \in b.cards /\ ThenMark(m)
          /\ UNCHANGED <<files, shelf, declined, mishaps>> /\ Quietly
       \/ /\ m \notin b.cards /\ b.words # {} /\ Retried
          /\ UNCHANGED <<files, shelf, declined, mishaps>> /\ Quietly
       \/ m \notin b.cards /\ b.words = {} /\ ~Room(b) /\ Refuse(m, {m}, TRUE)
       \/ /\ m \notin b.cards /\ b.words = {} /\ Room(b) /\ ThenMark(m)
          /\ Put([b EXCEPT !.cards = @ \cup {m}, !.quiet = now + Quiet, !.noticed = FALSE,
                  !.default = FALSE, !.deadline = IF b.noticed THEN now + Total ELSE @])
          /\ UNCHANGED <<seen, declined, mishaps>> /\ Quietly

Start(cards, left, durable, then, id) ==
    /\ job' = [cards |-> cards, left |-> left, durable |-> durable, then |-> then, id |-> id]
    /\ loop' = [loop EXCEPT !.at = "save"]

Older(m) == come[m].nth < shelf.since
Unsaved == {c \in shelf.cards : \A e \in book : e[2] # c}
Allowed(m) == may = "all" /\ Msg[m].to # {}

\* A choice that names no book is refused with an answer, one the sender may not
\* use in silence; both take the default away from a batch that waits.  A number
\* that is no longer anybody's is not read at all.
StopContactDefault(m) ==
    IF InTime(m) /\ ~Older(m) /\ shelf.words = {}
    THEN Put([shelf EXCEPT !.noDefault = TRUE, !.default = FALSE, !.noticed = TRUE,
                           !.deadline = now + Choice])
    ELSE UNCHANGED <<shelf, disk>>

RefuseChoice(m) ==
    /\ Handling(m) /\ Kind(m) \in {"addto", "cardto"} /\ ~IsSeen(m) /\ ~Allowed(m)
    /\ StopContactDefault(m) \/ (may = "none" /\ UNCHANGED <<shelf, disk>>)
    /\ ThenMark(m) /\ GiveUp({m} \cap Texts, Msg[m].to = {})
    /\ UNCHANGED <<seen, mishaps>> /\ Quietly

\* The choice is pinned to the batch before a book is written; a card that
\* brings its own books and finds none waiting is saved directly.
SelectContacts(m) ==
    /\ Handling(m) /\ Kind(m) \in {"addto", "cardto"} /\ ~IsSeen(m) /\ Allowed(m) /\ ~Overdue(m)
    /\ \/ ~Waiting /\ Kind(m) = "addto" /\ Refuse(m, {}, TRUE)
       \/ ~Waiting /\ Kind(m) = "cardto" /\ ~Checked(m) /\ Refuse(m, {m}, TRUE)
       \/ /\ ~Waiting /\ Kind(m) = "cardto" /\ Checked(m) /\ Start({m}, Msg[m].to, FALSE, "mark", m)
          /\ UNCHANGED <<world, mishaps, files, shelf, acts, declined, offered, attempts>>
       \/ Waiting /\ Older(m) /\ Refuse(m, {m} \cap Texts, TRUE)
       \/ /\ Waiting /\ ~Older(m) /\ Kind(m) = "cardto" /\ m \notin shelf.cards
          /\ ~(Checked(m) /\ Room(shelf)) /\ StopContactDefault(m) /\ ThenMark(m) /\ GiveUp({m}, TRUE)
          /\ UNCHANGED <<seen, mishaps>> /\ Quietly
       \/ /\ Waiting /\ ~Older(m) /\ (Kind(m) = "cardto" => m \in shelf.cards \/ (Checked(m) /\ Room(shelf)))
          /\ LET b == [shelf EXCEPT !.cards = @ \cup ({m} \cap Texts), !.words = Msg[m].to,
                                    !.default = FALSE]
             IN Put(b) /\ Start(b.cards, b.words, TRUE, "mark", m)
          /\ UNCHANGED <<world, mishaps, seen, book, acts, declined, offered, attempts>>

CancelContacts(m) ==
    /\ Handling(m) /\ Kind(m) = "cancel" /\ ~IsSeen(m) /\ ~Overdue(m)
    /\ \/ (~Waiting \/ Older(m) \/ may = "none") /\ Refuse(m, {}, FALSE)
       \/ /\ Waiting /\ ~Older(m) /\ Put(Empty) /\ ThenMark(m)
          /\ GiveUp(Unsaved, TRUE)
          /\ UNCHANGED <<seen, mishaps>> /\ Quietly

\* An upload names its books and its answer goes back with the acknowledgement.
ImportUpload(m) ==
    /\ Handling(m) /\ Kind(m) = "upload"
    /\ IF may = "all" /\ Checked(m) THEN Start({m}, Msg[m].to, FALSE, "mark", m) /\ UNCHANGED declined
              ELSE Done(m) /\ GiveUp({m}, TRUE) /\ UNCHANGED job
    /\ UNCHANGED <<world, mishaps, files, shelf, acts, offered, attempts>>

\* retryContacts: the shelf could not be written; the text stays at the edge.
WritesShelf(m) ==
    \/ /\ Kind(m) = "card" /\ MayShelve(m) /\ ~Overdue(m)
       /\ Waiting => m \notin shelf.cards /\ shelf.words = {} /\ Room(shelf)
    \/ Kind(m) \in {"addto", "cardto"} /\ InTime(m) /\ ~Older(m) /\ (Allowed(m) \/ shelf.words = {})
    \/ Kind(m) = "cancel" /\ InTime(m) /\ ~Older(m) /\ may # "none"

PutFails(m) ==
    /\ Handling(m) /\ ~IsSeen(m) /\ WritesShelf(m) /\ Mishap /\ Retried
    /\ UNCHANGED <<files, shelf, declined>> /\ Quietly
-----------------------------------------------------------------------------
(* advanceContactBatch: after the texts, or before one that came too late. *)

Resume(then) == loop' = [loop EXCEPT !.at = then]

Expired == shelf.words = {} /\ now >= shelf.deadline
ByDefault == Expired /\ shelf.noticed /\ shelf.default

\* The batch is given up: with an answer when its time is over, in silence when
\* its sender may no longer use any word, or no longer those it chose.
Drop(then) ==
    /\ Put(Empty) /\ GiveUp(Unsaved, may # "none" /\ Expired /\ ~ByDefault)
    /\ Resume(then) /\ UNCHANGED <<seen, mishaps>> /\ Quietly

AdvanceContactBatch(then) ==
    \/ may = "none" /\ Drop(then)
    \/ may = "others" /\ (shelf.words # {} \/ ByDefault) /\ Drop(then)
    \/ may # "none" /\ Expired /\ ~ByDefault /\ Drop(then)
    \/ /\ may = "all" /\ shelf.words # {} /\ Start(shelf.cards, shelf.words, TRUE, then, "none")
       /\ UNCHANGED <<world, mishaps, files, shelf, acts, declined, offered, attempts>>
    \/ /\ may = "all" /\ ByDefault
       /\ Put([shelf EXCEPT !.words = {"house"}]) /\ Start(shelf.cards, {"house"}, TRUE, then, "none")
       /\ UNCHANGED <<world, mishaps, seen, book, acts, declined, offered, attempts>>

\* The notice counts only when the carrier took it and the shelf could be
\* written; it offers the house book only to a sender that may use its word.
Undecided == may # "none" /\ shelf.words = {} /\ now < shelf.deadline
Offers == ~shelf.noDefault /\ may = "all"
RetryLater(then) ==
    IF then = "ack" THEN loop' = [loop EXCEPT !.at = "ack", !.retry = TRUE] ELSE Retried

SendNotice(then) ==
    /\ Undecided /\ ~shelf.noticed /\ now >= shelf.quiet
    /\ \/ Mishap /\ Put([shelf EXCEPT !.quiet = now + Quiet]) /\ UNCHANGED offered /\ Resume(then)
       \/ /\ offered' = IF Offers THEN offered \cup shelf.cards ELSE offered
          /\ \/ /\ Put([shelf EXCEPT !.noticed = TRUE, !.deadline = now + Choice, !.default = Offers])
                /\ Resume(then) /\ UNCHANGED mishaps
             \/ Mishap /\ RetryLater(then) /\ UNCHANGED <<shelf, disk>>
    /\ UNCHANGED <<world, seen, book, acts, declined, attempts, job>>

\* The batch cannot be removed, or its choice not pinned.
AdvanceFails(then) ==
    /\ may = "none" \/ Expired \/ (may = "others" /\ shelf.words # {})
    /\ Mishap /\ RetryLater(then) /\ UNCHANGED <<files, shelf, declined>> /\ Quietly

NothingDue == Undecided /\ (shelf.noticed \/ now < shelf.quiet)

SettleFirst(m) ==
    /\ Handling(m) /\ ~IsSeen(m) /\ Overdue(m)
    /\ \/ Kind(m) = "card" /\ MayShelve(m)
       \/ Kind(m) = "cancel"
       \/ Kind(m) \in {"addto", "cardto"} /\ Allowed(m)
    /\ AdvanceContactBatch("handle") \/ AdvanceFails("handle")

\* After the texts of the pull; a default only when the edge was drained and
\* nothing is to be retried.
AllowDefaults == ~loop.full /\ ~loop.retry
Advance ==
    /\ loop.at = "handle" /\ loop.todo = <<>> /\ Waiting /\ (AllowDefaults \/ shelf.words # {})
    /\ AdvanceContactBatch("ack") \/ SendNotice("ack") \/ AdvanceFails("ack")

AdvanceNothing ==
    /\ loop.at = "handle" /\ loop.todo = <<>>
    /\ ~Waiting \/ (~AllowDefaults /\ shelf.words = {}) \/ NothingDue
    /\ Resume("ack") /\ UNCHANGED <<files, shelf, declined, mishaps>> /\ Quietly
-----------------------------------------------------------------------------
(* saveContacts, one book after another, and what follows.                 *)

\* external: ownbook.Import adds the whole batch to one book under its lock.
Import(t) ==
    /\ loop.at = "save" /\ t \in job.left
    /\ book' = book \cup ({t} \X job.cards) /\ job' = [job EXCEPT !.left = @ \ {t}]
    /\ UNCHANGED <<world, mishaps, seen, shelf, disk, acts, declined, offered, attempts, loop>>

Given(m) == attempts[m] + 1 >= SaveAttempts
ImportFails ==
    /\ loop.at = "save" /\ job.left # {} /\ Mishap /\ job' = NoJob
    /\ IF job.durable \/ ~Given(job.id)
          THEN /\ UNCHANGED declined
               /\ attempts' = IF job.durable THEN attempts ELSE [attempts EXCEPT ![job.id] = @ + 1]
               /\ RetryLater(job.then)
          ELSE /\ attempts' = [attempts EXCEPT ![job.id] = 0] /\ GiveUp(job.cards, TRUE)
               /\ Resume("mark")
    /\ UNCHANGED <<world, files, shelf, acts, offered>>

\* The books are written: the batch leaves the shelf, and only its file stays
\* when that cannot be removed.
Saved ==
    /\ loop.at = "save" /\ job.left = {} /\ job # NoJob /\ job' = NoJob /\ Resume(job.then)
    /\ IF job.durable
          THEN shelf' = Empty /\ ((disk' = Empty /\ UNCHANGED mishaps) \/ (Mishap /\ UNCHANGED disk))
          ELSE UNCHANGED <<shelf, disk, mishaps>>
    /\ attempts' = IF job.durable THEN attempts ELSE [attempts EXCEPT ![job.id] = 0]
    /\ UNCHANGED <<world, seen, book, acts, declined, offered>>

\* Acked on a clock of its own: the call, or its answer, may be lost.
Ack ==
    /\ loop.at = "ack" /\ loop' = Idle
    /\ \/ edge' = edge \ loop.done /\ (UNCHANGED mishaps \/ Mishap)
       \/ Mishap /\ UNCHANGED edge
    /\ UNCHANGED <<now, may, come, files, shelf, acts, declined, offered, attempts, job>>

\* Stopped and started again, perhaps with another policy.
Restart ==
    /\ Mishap /\ loop' = Idle /\ job' = NoJob /\ shelf' = disk /\ may' \in {"all", "others", "none"}
    /\ seen' = [seen EXCEPT !.ids = seen.file,
                           !.lost = @ \cup (ToSet(seen.ids) \ ToSet(seen.file))]
    /\ attempts' = [m \in Ids |-> 0]
    /\ UNCHANGED <<now, edge, come, disk, book, acts, declined, offered>>

Handle(m) ==
    \/ Duplicate(m) \/ ActMark(m) \/ Act(m) \/ MarkDone(m) \/ PutFails(m)
    \/ RefuseCard(m) \/ ShelveContacts(m)
    \/ RefuseChoice(m) \/ SelectContacts(m) \/ CancelContacts(m) \/ ImportUpload(m) \/ SettleFirst(m)

Next ==
    \/ Tick \/ Pull \/ (\E m \in Ids : Arrive(m) \/ Handle(m))
    \/ Advance \/ AdvanceNothing \/ (\E t \in job.left : Import(t)) \/ ImportFails \/ Saved
    \/ Ack \/ Restart

Spec == Init /\ [][Next]_vars

TypeOK ==
    /\ now \in 0 .. MaxTime /\ shelf.cards \subseteq Texts /\ disk.cards \subseteq Texts
    /\ ToSet(seen.ids) \subseteq Ids /\ declined.told \subseteq declined.cards /\ Len(seen.ids) <= SeenKeep
    /\ loop.at \in {"idle", "handle", "act", "mark", "save", "ack"}
-----------------------------------------------------------------------------
\* "An id can arrive twice; a door opens once" holds of every text handed over
\* again, after a lost acknowledgement or a restart anywhere, except one: a text
\* whose mark did not reach the file, which nobody looks at, and whose mark the
\* restart then forgot.
ActsOnce == \A m \in Ids : acts[m] <= 1 \/ m \in seen.lost

\* A card the edge was told is handled is in a phone book or on the shelf's disk,
\* or it was given up.
CardsAreAccounted ==
    \A m \in Ids : (IsCard(m) /\ m \in DOMAIN come /\ m \notin edge) =>
        m \in declined.cards \/ m \in disk.cards \/ \E e \in book : e[2] = m

\* A card goes to the books a text of its sender named or, unnamed, to the
\* house book when a notice said so of that very card.
NothingUnasked ==
    \A e \in book :
        \/ \E m \in DOMAIN come : e[1] \in Msg[m].to
        \/ e[1] = "house" /\ e[2] \in offered

\* A card that came alone and that its sender was sent a refusal of stays out: no
\* batch on the disk and no text handed over again brings it back, unless its mark
\* was forgotten.  (A card refused in silence may still be saved by a batch that
\* held it before the refusal.)
DeclinedStaysOut == \A e \in book' \ book : Kind(e[2]) = "card" =>
                        e[2] \notin declined.told \/ e[2] \in seen.lost
=============================================================================
