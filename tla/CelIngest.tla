------------------------------ MODULE CelIngest ------------------------------
(***************************************************************************)
(* Asterisk's own record of its channels (CEL) on its way into the event   *)
(* journal (internal/events/cel.go).  Asterisk appends numbered rows to a  *)
(* spool that keeps the last few; once a second the journal's writer reads *)
(* a bounded batch after its cursor and commits, in one transaction, the   *)
(* events the rows stand for, the state of the channels they belong to and *)
(* the cursor.  A source that was replaced, rows the spool no longer has   *)
(* and rows that make no sense are declared by gap rows, and make what was *)
(* known of the channels useless.                                          *)
(*                                                                         *)
(* A row's time is its `take`, which a restored copy of the spool does not *)
(* repeat.  The journal's own retention is JournalReaders' subject.        *)
(***************************************************************************)
EXTENDS Naturals, Sequences, FiniteSets, SequencesExt, FiniteSetsExt

CONSTANTS
    Chan,                \* channels
    Context,             \* the dialplan context each one starts in
    Batch,               \* rows read at once (128 in the source)
    Keep,                \* rows the spool's trigger keeps (100000)
    StateCap,            \* channels followed at once (4096)
    MaxRows,             \* bound: rows Asterisk writes
    MaxMishaps           \* bound: spools replaced, restored or edited, weeks
                         \* passed, failed commits and crashes

VARIABLES
    source,      \* doorman_cel_meta.source_id
    rows,        \* doorman_cel: a row for each number still kept
    next,        \* the number AUTOINCREMENT gives next
    take,        \* stands for the time of day
    stage,       \* where Asterisk is with each channel
    written,     \* rows Asterisk has written
    mishaps,
    progress,    \* cel_progress: the source, the cursor and its anchor row
    channels,    \* cel_channels
    journal,     \* the events appended
    batch        \* what this tick read of the spool

spool == <<source, rows, next>>
asterisk == <<take, stage, written>>
committed == <<progress, channels, journal>>
vars == <<spool, asterisk, mishaps, committed, batch>>

None == [source |-> 0]
Empty == [c \in {} |-> {}]
High == IF rows = Empty THEN 0 ELSE Max(DOMAIN rows)
Low == IF rows = Empty THEN 0 ELSE Min(DOMAIN rows)

Init ==
    /\ source = 1 /\ rows = Empty /\ next = 1
    /\ take = 0 /\ stage = [c \in Chan |-> "new"] /\ written = 0 /\ mishaps = 0
    /\ progress = [source |-> 0, through |-> 0, anchor |-> {}]
    /\ channels = Empty /\ journal = <<>> /\ batch = None
-----------------------------------------------------------------------------
(* Asterisk and the operator.                                              *)

Kinds(c) ==
    CASE stage[c] = "new" -> {"CHAN_START"}
      [] stage[c] = "up" -> {"APP_START", "BRIDGE_ENTER", "CHAN_END"}
      [] OTHER -> {}

\* A row is inserted, and the trigger drops the one that is too old.
Emit(c, kind, sound) ==
    /\ written < MaxRows
    /\ kind \in Kinds(c)
    /\ rows' = [n \in {m \in DOMAIN rows \cup {next} : m + Keep > next} |->
                    IF n = next THEN [chan |-> c, kind |-> kind, sound |-> sound, take |-> take]
                    ELSE rows[n]]
    /\ next' = next + 1
    /\ stage' = [stage EXCEPT ![c] = IF kind = "CHAN_END" THEN "gone" ELSE "up"]
    /\ written' = written + 1
    /\ UNCHANGED <<source, take, mishaps, committed, batch>>

Mishap == mishaps < MaxMishaps /\ mishaps' = mishaps + 1

\* A new spool with a new identity, as the documents ask.
Replace ==
    /\ Mishap
    /\ source' = source + 1 /\ rows' = Empty /\ next' = 1
    /\ UNCHANGED <<asterisk, committed, batch>>

\* An older copy of the same spool, as they ask not to.
Restore ==
    /\ Mishap
    /\ \E n \in DOMAIN rows :
           /\ rows' = [m \in {k \in DOMAIN rows : k < n} |-> rows[m]]
           /\ next' = n
    /\ take' = take + 1
    /\ UNCHANGED <<source, stage, written, committed, batch>>

\* A row is deleted by hand.
Edit ==
    /\ Mishap
    /\ \E n \in DOMAIN rows : rows' = [m \in DOMAIN rows \ {n} |-> rows[m]]
    /\ UNCHANGED <<source, next, asterisk, committed, batch>>

\* Seven days: whatever is followed now is stale.
WeekPasses ==
    /\ Mishap
    /\ channels # Empty
    /\ channels' = [c \in DOMAIN channels |-> [channels[c] EXCEPT !.stale = TRUE]]
    /\ UNCHANGED <<spool, asterisk, progress, journal, batch>>
-----------------------------------------------------------------------------
(* Reading the spool.                                                      *)

\* Numbers reused by a restored spool must not pass for rows already read.
AnchorHolds ==
    progress.source = source /\ progress.through >= Low /\ progress.through > 0
        /\ progress.anchor # {} =>
    /\ progress.through \in DOMAIN rows
    /\ {rows[progress.through]} = progress.anchor

Pending == {n \in DOMAIN rows : n > progress.through}
FirstOf(S) == {n \in S : Cardinality({m \in S : m < n}) < Batch}

ReadCEL ==
    /\ batch = None
    /\ AnchorHolds
    /\ ~(source = progress.source /\ High < progress.through)
    /\ ~(source = progress.source /\ High = progress.through /\ Pending = {})
    /\ batch' = [source |-> source, low |-> Low, rows |-> [n \in FirstOf(Pending) |-> rows[n]]]
    /\ UNCHANGED <<spool, asterisk, mishaps, committed>>
-----------------------------------------------------------------------------
(* What a row becomes.                                                     *)

CelType == [CHAN_START |-> "channel.started", APP_START |-> "channel.application",
            BRIDGE_ENTER |-> "channel.bridge_entered", CHAN_END |-> "channel.ended"]

InboundLine(c) == Context[c] \in {"inbound-trunk", "inbound-fallback", "cmm-line", "from-trunk", "from"}
OutboundContext(c) ==
    Context[c] \in {"internal", "cmm-outbound", "outbound-console", "cmm-emergency", "cmm-failover"}

\* `forgets`: the channels whose state the gap makes useless.
Gap(reason, count, forgets) ==
    [type |-> "coverage.gap", reason |-> reason, count |-> count, forgets |-> forgets]
ChannelEvent(n, row) ==
    [type |-> CelType[row.kind], source |-> batch.source, number |-> n, chan |-> row.chan,
     take |-> row.take]
Summary(row, bridged) ==
    [type |-> "call.finished", chan |-> row.chan,
     outcome |-> IF bridged /\ OutboundContext(row.chan) THEN "answered" ELSE "ended"]

\* A root channel of a line is followed from its first row, one that calls out
\* from its first Dial.
Follows(row) ==
    \/ InboundLine(row.chan) /\ row.kind \in {"CHAN_START", "APP_START"}
    \/ OutboundContext(row.chan) /\ row.kind = "APP_START"

Known(c, following) ==
    IF c \in DOMAIN following THEN following[c]
    ELSE [tracked |-> FALSE, bridged |-> FALSE, stale |-> FALSE]

Observed(row, following) ==
    LET st == Known(row.chan, following)
        tracked == st.tracked \/ Follows(row) IN
    [st EXCEPT !.tracked = tracked, !.bridged = @ \/ (tracked /\ row.kind = "BRIDGE_ENTER")]

Forget(following, S) == [c \in DOMAIN following \ S |-> following[c]]
Remember(following, c, st) ==
    [d \in DOMAIN following \cup {c} |-> IF d = c THEN st ELSE following[d]]

\* ingestCELRow: acc carries the events, the channels and the cursor.
IngestRow(acc, n) ==
    LET row == batch.rows[n]
        st == Observed(row, acc.channels)
        seen == Append(acc.log, ChannelEvent(n, row)) IN
    IF ~row.sound
    THEN [acc EXCEPT !.log = Append(@, Gap("invalid-row", 1, {}))]
    ELSE IF row.kind = "CHAN_END"
    THEN [acc EXCEPT !.log = IF st.tracked THEN Append(seen, Summary(row, st.bridged)) ELSE seen,
                     !.channels = Forget(@, {row.chan})]
    ELSE IF row.chan \notin DOMAIN acc.channels /\ Cardinality(DOMAIN acc.channels) >= StateCap
    THEN [acc EXCEPT !.log = Append(seen, Gap("state-capacity", 1, {}))]
    ELSE [acc EXCEPT !.log = seen, !.channels = Remember(@, row.chan, st)]

\* A hole before the row is declared, and what was known of the channels goes.
CloseHole(acc, n) ==
    IF n = acc.after + 1 THEN acc
    ELSE [acc EXCEPT !.log = Append(@, Gap("sequence-gap", n - acc.after - 1, DOMAIN acc.channels)),
                     !.channels = Empty]

IngestNumbered(acc, n) ==
    [IngestRow(CloseHole(acc, n), n) EXCEPT !.after = n, !.anchor = {batch.rows[n]}]
-----------------------------------------------------------------------------
(* The transaction.                                                        *)

Replaced == progress.source # 0 /\ batch.source # progress.source

\* The batch of a replaced source was read after the old cursor: it is
\* dropped, and the new source is read from its beginning.
Rows == IF Replaced THEN {} ELSE DOMAIN batch.rows

\* Where ingestion starts, and what must be said first.
Start ==
    LET old == IF Replaced THEN 0 ELSE progress.through
        retained == batch.low > old + 1
        why == (IF Replaced THEN <<Gap("source-replaced", 0, DOMAIN channels)>> ELSE <<>>) \o
               (IF retained THEN <<Gap("retention-gap", batch.low - old - 1, DOMAIN channels)>> ELSE <<>>) \o
               (IF progress.source = 0 /\ ~retained THEN <<Gap("observation-started", 0, {})>> ELSE <<>>) IN
    [log |-> why, after |-> IF retained THEN batch.low - 1 ELSE old,
     anchor |-> IF Replaced \/ retained THEN {} ELSE progress.anchor,
     channels |-> IF why = <<>> THEN channels ELSE Empty]

\* Channels seen too long ago are dropped with a notice, never hung up.
DropStale(acc) ==
    LET stale == {c \in DOMAIN acc.channels : acc.channels[c].stale} IN
    IF stale = {} THEN acc
    ELSE [acc EXCEPT !.log = Append(@, Gap("stale-channel-state", Cardinality(stale), stale)),
                     !.channels = Forget(@, stale)]

Ingested ==
    LET start == DropStale(Start) IN
    FoldLeft(IngestNumbered, start, SetToSortSeq({n \in Rows : n > start.after}, <))

\* Mutant of Commit: The cursor is saved by itself, before the rest.
CommitCursorFirst ==
    /\ batch # None
    /\ \E done \in {Ingested} :
           IF progress.through < done.after
           THEN /\ progress' = [source |-> batch.source, through |-> done.after, anchor |-> done.anchor]
                /\ UNCHANGED <<channels, journal, batch>>
           ELSE /\ channels' = done.channels
                /\ journal' = journal \o done.log
                /\ batch' = None
                /\ UNCHANGED progress
    /\ UNCHANGED <<spool, asterisk, mishaps>>

Commit ==
    /\ batch # None
    /\ \E done \in {Ingested} :
           /\ progress' = [source |-> batch.source, through |-> done.after, anchor |-> done.anchor]
           /\ channels' = done.channels
           /\ journal' = journal \o done.log
    /\ batch' = None
    /\ UNCHANGED <<spool, asterisk, mishaps>>

\* The commit fails, the deadline passes or the process dies.
Abandon ==
    /\ Mishap
    /\ batch # None
    /\ batch' = None
    /\ UNCHANGED <<spool, asterisk, committed>>

Next ==
    \/ \E c \in Chan, sound \in BOOLEAN : \E kind \in Kinds(c) : Emit(c, kind, sound)
    \/ Replace \/ Restore \/ Edit \/ WeekPasses
    \/ ReadCEL \/ Commit \/ Abandon

Spec == Init /\ [][Next]_vars
-----------------------------------------------------------------------------
TypeOK ==
    /\ source \in Nat /\ next \in Nat \ {0} /\ take \in Nat
    /\ \A n \in DOMAIN rows : n < next /\ rows[n].chan \in Chan
    /\ stage \in [Chan -> {"new", "up", "gone"}]
    /\ written \in 0..MaxRows /\ mishaps \in 0..MaxMishaps
    /\ progress.source \in 0..source
    /\ DOMAIN channels \subseteq Chan /\ Cardinality(DOMAIN channels) <= StateCap

IsGap(e, reasons) == e.type = "coverage.gap" /\ e.reason \in reasons
IsRow(e) == e.type \in {CelType[k] : k \in DOMAIN CelType}

\* Every number of the source up to the cursor is a channel event of the
\* journal or is counted by a gap row: replays, holes, retention and crashes
\* neither lose one in silence nor tell one twice.
EveryRowAccounted ==
    LET tally[i \in 0..Len(journal)] ==
            IF i = 0 \/ IsGap(journal[i], {"source-replaced"}) THEN 0
            ELSE tally[i - 1] +
                 (IF IsRow(journal[i]) THEN 1
                  ELSE IF IsGap(journal[i], {"retention-gap", "sequence-gap", "invalid-row"})
                       THEN journal[i].count ELSE 0) IN
    progress.through = tally[Len(journal)]

\* A call is summed up only if its beginning is in the journal and nothing
\* since has made the channel's state useless; it is called answered only if a
\* bridge was seen since then.
NothingIsInvented ==
    \A j \in DOMAIN journal : journal[j].type = "call.finished" =>
        LET c == journal[j].chan
            since == Max({0} \cup {i \in 1..(j - 1) :
                journal[i].type = "coverage.gap" /\ c \in journal[i].forgets})
            sight(types) == {i \in (since + 1)..(j - 1) :
                IsRow(journal[i]) /\ journal[i].chan = c /\ journal[i].type \in types} IN
        /\ sight(IF InboundLine(c) THEN {"channel.started", "channel.application"}
                 ELSE {"channel.application"}) # {}
        /\ InboundLine(c) \/ OutboundContext(c)
        /\ journal[j].outcome = "answered" => sight({"channel.bridge_entered"}) # {}

\* A restored spool's reused numbers are never passed over: the cursor moves
\* on only from a row the journal has read, or after a declared gap.
NoReusedNumberPassed ==
    \A n \in DOMAIN rows :
        n = progress.through /\ batch = None /\ batch' # None /\ source = progress.source
            /\ progress.anchor # {} => {rows[n]} = progress.anchor
=============================================================================
