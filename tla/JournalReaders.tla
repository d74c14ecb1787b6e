---------------------------- MODULE JournalReaders ----------------------------
(* What reads the event journal (internal/events: store.go, queries.go,      *)
(* doorbell.go, sibling.go): retention deletes its oldest rows, a doorbell   *)
(* tells a consumer how far it now reaches, the consumer pages through it    *)
(* with a cursor, and `doorman calls` sees one summary per call.  A second   *)
(* process of the box appends rows of its own.                               *)
EXTENDS Naturals, FiniteSets, FiniteSetsExt

CONSTANTS
    Call,          \* calls that are summed up
    Target,        \* endpoints the doorbell may be given
    MaxEvents,     \* rows retained
    Chunk,         \* rows a full database gives up at once (256 in the source)
    Limit,         \* rows of a page
    ScanLimit,     \* rows looked at for a page (10000 in the source)
    MaxRows,       \* bound: rows appended
    MaxMishaps     \* bound: lost answers, failed saves, restarts, disk troubles

VARIABLES
    rows,        \* every row ever appended, by sequence; those to `floor` are gone
    high, floor, \* metadata
    connected,   \* the sibling holds a connection
    target,      \* the endpoint of this life of the daemon
    delivered,   \* delivery_state
    ringing,     \* what a request under way announces; 0: none
    answered,    \* the consumer accepted it
    heard,       \* the furthest each endpoint was told of
    cursor,      \* where the consumer is
    got,         \* rows its pages gave it
    expired,     \* rows it was told are gone
    troubles

journal == <<rows, high, floor>>
bell == <<target, delivered, ringing, answered>>
consumer == <<heard, cursor, got, expired>>
vars == <<journal, connected, bell, consumer, troubles>>

Finished == {"session.finished", "call.finished"}
Event == [type : Finished, call : Call] \cup [type : {"other"}]
Retained == {n \in DOMAIN rows : n > floor}
Trouble == troubles < MaxMishaps /\ troubles' = troubles + 1

Init ==
    /\ rows = [n \in {} |-> 0] /\ high = 0 /\ floor = 0
    /\ connected = FALSE
    /\ target = CHOOSE t \in Target : TRUE
    /\ delivered = [t \in Target |-> 0] /\ ringing = 0 /\ answered = FALSE
    /\ heard = [t \in Target |-> 0] /\ cursor = 0 /\ got = {} /\ expired = {}
    /\ troubles = 0
-----------------------------------------------------------------------------
(* The store.                                                              *)

\* prune: a prefix goes, what is older than `age` and what is beyond the number
\* retained.
PruneTo(age, reserve) == Max({floor, age, high + reserve - MaxEvents} \cap Nat)

\* appendTx: make room, insert, move the high-water mark.
AppendTx(e) ==
    /\ high < MaxRows
    /\ floor' = PruneTo(floor, 1)
    /\ high' = high + 1
    /\ rows' = [n \in DOMAIN rows \cup {high + 1} |-> IF n = high + 1 THEN e ELSE rows[n]]

Post(e) ==
    /\ AppendTx(e)
    /\ UNCHANGED <<connected, bell, consumer, troubles>>

\* Time passes, and the next tick or the next row prunes by age.
Prune ==
    /\ Trouble
    /\ \E n \in floor..high : floor' = PruneTo(n, 0)
    /\ UNCHANGED <<rows, high, connected, bell, consumer>>

\* The pages are all used: the oldest rows go, whatever their age.
Reclaim ==
    /\ Trouble
    /\ Retained # {}
    /\ floor' = Min({high, floor + Chunk})
    /\ UNCHANGED <<rows, high, connected, bell, consumer>>

\* The sibling opens the journal on its first row, and again after a failure.
SiblingAppend(e) ==
    /\ AppendTx(e)
    /\ connected' = TRUE
    /\ UNCHANGED <<bell, consumer, troubles>>

SiblingFails ==
    /\ Trouble
    /\ connected' = FALSE
    /\ UNCHANGED <<journal, bell, consumer>>
-----------------------------------------------------------------------------
(* The doorbell.                                                           *)

Ring ==
    /\ ringing = 0
    /\ high > delivered[target]
    /\ ringing' = high /\ answered' = FALSE
    /\ UNCHANGED <<journal, connected, target, delivered, consumer, troubles>>

\* The request arrives; its answer may still be lost.
Deliver ==
    /\ ringing # 0 /\ ~answered
    /\ heard' = [heard EXCEPT ![target] = Max({@, ringing})]
    /\ answered' = TRUE
    /\ UNCHANGED <<journal, connected, target, delivered, ringing, cursor, got, expired, troubles>>

Acknowledge ==
    /\ answered
    /\ delivered' = [delivered EXCEPT ![target] = Max({@, ringing})]
    /\ ringing' = 0 /\ answered' = FALSE
    /\ UNCHANGED <<journal, connected, target, consumer, troubles>>

\* The request fails, its answer is lost or cannot be saved: tried again.
RingFails ==
    /\ Trouble
    /\ ringing # 0
    /\ ringing' = 0 /\ answered' = FALSE
    /\ UNCHANGED <<journal, connected, target, delivered, consumer>>

\* The daemon restarts, perhaps with another endpoint.
Restart ==
    /\ Trouble
    /\ target' \in Target
    /\ ringing' = 0 /\ answered' = FALSE
    /\ UNCHANGED <<journal, connected, delivered, consumer>>
-----------------------------------------------------------------------------
(* The consumer reads a page up to what it has heard of.                   *)

Through == heard[target]
Refused == (cursor # 0 /\ cursor < floor) \/ (Through < floor /\ Through # 0)
From == Max({cursor, floor})
Foremost(S, most) == {n \in S : Cardinality({k \in S : k < n}) < most}

\* The scan is bounded first and filtered after: `end` is how far it looked,
\* which may be short of Through, and the page have nothing of it.
Scanned == Foremost({n \in Retained : n > From /\ n <= Through}, ScanLimit)
PageOf(S) == Foremost(S, Limit)

\* Mutant of NextCursor: a page that is not full was all there was.
NextCursorThrough(page) == IF Cardinality(page) = Limit THEN Max(page) ELSE Through

NextCursor(page) ==
    IF Cardinality(page) = Limit THEN Max(page)
    ELSE IF Scanned = {} THEN Through ELSE Max(Scanned)

\* Only rows of calls are asked for.
Read ==
    /\ cursor < Through
    /\ ~Refused
    /\ LET page == PageOf({n \in Scanned : rows[n].type \in Finished}) IN
           /\ got' = got \cup page
           /\ cursor' = NextCursor(page)
           /\ expired' = IF cursor = 0 THEN expired \cup (1..floor) ELSE expired
    /\ UNCHANGED <<journal, connected, bell, heard, troubles>>

\* "Cursor expired: resume explicitly from 0".  A batch that is gone waits for
\* the next announcement.
Resume ==
    /\ cursor < Through /\ cursor # 0 /\ cursor < floor
    /\ cursor' = 0
    /\ expired' = expired \cup (1..floor)
    /\ UNCHANGED <<journal, connected, bell, heard, got, troubles>>
-----------------------------------------------------------------------------
(* `doorman calls`.                                                        *)

\* One per call: the last of the daemon's own, else the last of Asterisk's.
Summaries ==
    {n \in Retained : rows[n].type \in Finished /\
        ~\E k \in Retained :
            /\ rows[k].type \in Finished /\ rows[k].call = rows[n].call
            /\ \/ rows[k].type = "session.finished" /\ rows[n].type = "call.finished"
               \/ rows[k].type = rows[n].type /\ k > n}

Next ==
    \/ \E e \in Event : Post(e) \/ SiblingAppend(e)
    \/ Prune \/ Reclaim \/ SiblingFails
    \/ Ring \/ Deliver \/ Acknowledge \/ RingFails \/ Restart
    \/ Read \/ Resume

Spec == Init /\ [][Next]_vars
-----------------------------------------------------------------------------
TypeOK ==
    /\ DOMAIN rows = 1..high /\ floor \in 0..high
    /\ connected \in BOOLEAN /\ target \in Target
    /\ delivered \in [Target -> 0..high] /\ heard \in [Target -> 0..high]
    /\ ringing \in 0..high /\ cursor \in 0..high

\* Nothing is acknowledged to an endpoint that it was not told of, whatever is
\* appended, lost or restarted between the request and its acknowledgement.
AcknowledgedWasHeard == \A t \in Target : delivered[t] <= heard[t]

\* A consumer that follows its cursor has been given, or told it has lost,
\* every row of a call behind it: filters, scans cut short, full pages and
\* retention skip none.
NothingSkipped ==
    \A n \in 1..cursor : rows[n].type \in Finished => n \in got \cup expired

\* Every call of which a summary is retained is listed once, and what is listed
\* does not depend on which of the two summaries came first.
OneSummaryPerCall ==
    \A c \in Call :
        LET of(type) == {n \in Retained : rows[n].type = type /\ rows[n].call = c}
            all == UNION {of(t) : t \in Finished}
            best == IF of("session.finished") # {} THEN of("session.finished") ELSE of("call.finished") IN
        all # {} => {n \in Summaries : rows[n].call = c} = {Max(best)}

\* A row committed by either writer is announced in the end: the sibling's, too,
\* at the next poll of the file, though sibling.go has it that they wait for a
\* commit of the daemon's.
EveryRowIsAnnounced == \A n \in 1..MaxRows : high >= n ~> heard[target] >= n
=============================================================================
