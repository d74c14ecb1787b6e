--------------------------- MODULE PodcastWorker ---------------------------
(* The podcast worker: which feeds the handsets subscribe to, when each feed is
   asked again, which two of its episodes are kept, and what the status says.
   The library the episodes stand in is BookLibrary; here an episode is in the
   catalog, and playable or not. *)
EXTENDS Naturals, Sequences, FiniteSets

CONSTANTS
    Handsets, Feeds,
    Pilot,          \* the feed of the first subscriptions, whose two episodes are fixed
    Listings,       \* what a feed may list: [guid, version], newest first
    Keep,           \* bound: episodes kept of a feed (2 in the code)
    Attempts,       \* bound: episodes tried in one refresh (4 in the code)
    Retry, Poll,    \* five minutes, an hour
    MaxTime,        \* bound: the clock
    MaxEdits        \* bound: subscriptions changed, feeds republished, episodes damaged

VARIABLES
    subs,           \* subscriptions.json: [handset, feed] pairs, or "bad"
    offered,        \* the episodes each feed lists, newest first
    state,          \* each .feed file: [failed, nextCheck, body]
    catalog,        \* the episodes of the published catalog
    broken,         \* those whose files are not whole
    run,            \* the refresh under way
    status,         \* status.json
    edit,           \* a subscribe command that has read the file
    now, edits

vars == <<subs, offered, state, catalog, broken, run, status, edit, now, edits>>

Guids == UNION {{items[i].guid : i \in 1..Len(items)} : items \in Listings}
Pairs == [handset : Handsets, feed : Feeds]
NoBody == <<[guid |-> "", version |-> 0]>>
NoState == [failed |-> FALSE, nextCheck |-> 0, body |-> NoBody]
NoRun == [at |-> "idle", scheduled |-> FALSE, left |-> {}, sources |-> {}, old |-> {}, next |-> {}, failed |-> FALSE]
NoEdit == [pair |-> <<>>, next |-> {}]
Bad == {<<>>}       \* a file Parse refuses


TypeOK ==
    /\ subs = Bad \/ subs \subseteq Pairs
    /\ \A f \in Feeds : state[f].nextCheck \in 0..(MaxTime + Poll) /\ state[f].failed \in BOOLEAN
    /\ \A e \in catalog \cup broken : e.feed \in Feeds
    /\ run.at \in {"idle", "feeds", "publish", "status"}
    /\ status.state \in {"none", "idle", "ready", "error"} /\ now \in 0..MaxTime

Init ==
    /\ subs \in {{[handset |-> h, feed |-> f] : h \in Handsets} : f \in Feeds}
    /\ \E items \in Listings : Len(items) = 2 /\ offered = [f \in Feeds |-> items]
    /\ state = [f \in Feeds |-> NoState]
    /\ catalog = {} /\ broken = {} /\ run = NoRun
    /\ status = [state |-> "none", ready |-> 0]
    /\ edit = NoEdit /\ now = 0 /\ edits = 0

-----------------------------------------------------------------------------
(* Subscriptions *)

\* No file at all is a house with no subscriptions.
Parse == subs # Bad

Allows(h, f) == Parse /\ [handset |-> h, feed |-> f] \in subs

Select(pairs, pair, enabled) == IF enabled THEN pairs \cup {pair} ELSE pairs \ {pair}

Changes == edits < MaxEdits /\ edits' = edits + 1

\* The command reads the file, then writes it whole.
ReadSubscriptions(pair, enabled) ==
    /\ enabled # Allows(pair.handset, pair.feed)
    /\ edit = NoEdit /\ Parse /\ Changes
    /\ edit' = [pair |-> pair, next |-> Select(subs, pair, enabled)]
    /\ UNCHANGED <<subs, offered, state, catalog, broken, run, status, now>>

Save ==
    /\ edit # NoEdit /\ edit' = NoEdit
    /\ subs' = edit.next
    /\ UNCHANGED <<offered, state, catalog, broken, run, status, now, edits>>

-----------------------------------------------------------------------------
(* The world *)

Republish(f) ==
    /\ Changes /\ \E items \in Listings : items # offered[f] /\ offered' = [offered EXCEPT ![f] = items]
    /\ UNCHANGED <<subs, state, catalog, broken, run, status, edit, now>>

\* An episode's files are hurt: it is no longer ready to play.
Damage == Changes /\ (\E e \in catalog \ broken : broken' = broken \cup {e})
    /\ UNCHANGED <<subs, offered, state, catalog, run, status, edit, now>>

Tick == now < MaxTime /\ now' = now + 1
    /\ UNCHANGED <<subs, offered, state, catalog, broken, run, status, edit, edits>>

-----------------------------------------------------------------------------
(* A refresh *)

Ready(e) == e \in catalog /\ e \notin broken
Cached == Cardinality({e \in catalog : Ready(e)})

\* Feeds somebody subscribes to, read once when the refresh starts.
Sources == {p.feed : p \in subs}

Begin(scheduled) ==
    /\ run = NoRun
    /\ IF Parse
       THEN /\ run' = [NoRun EXCEPT !.at = "feeds", !.scheduled = scheduled, !.left = Sources, !.sources = Sources, !.old = catalog]
            /\ state' = [f \in Feeds |-> IF f \in Sources THEN state[f] ELSE NoState]
            /\ UNCHANGED status
       ELSE status' = [state |-> "error", ready |-> Cached] /\ UNCHANGED <<run, state>>
    /\ UNCHANGED <<subs, offered, catalog, broken, edit, now, edits>>

Previous(f) == {e \in run.old : e.feed = f /\ Ready(e)}
Waiting(f) == run.scheduled /\ now < state[f].nextCheck

\* What asking for the feed gives: its body and whether it may be stored, or a failure.
Fetched(f) == {[ok |-> FALSE, body |-> NoBody, store |-> FALSE]}
    \cup {[ok |-> TRUE, body |-> offered[f], store |-> s] : s \in BOOLEAN}
    \cup IF state[f].body # NoBody THEN {[ok |-> TRUE, body |-> state[f].body, store |-> TRUE]} ELSE {}

LoadFeed(f) ==
    IF Waiting(f) /\ state[f].body # NoBody THEN {[ok |-> TRUE, body |-> state[f].body, store |-> TRUE]}
    ELSE Fetched(f)

\* An identity counts once; the pilot's episodes are named beforehand.
SelectEpisodes(items) == {i \in 1..Len(items) : \A j \in 1..(i - 1) : items[j].guid # items[i].guid}

EpisodeOf(f, item) == [feed |-> f, guid |-> item.guid, version |-> item.version]

\* The episodes that can be fetched and converted in the space there is.
PrepareEpisode == SUBSET Guids

\* Down the list: what is ready is kept, what is new is prepared, until there are enough.
Choose(f, items, prepares) ==
    LET take[i \in 0..Len(items)] ==
          IF i = 0 THEN [sel |-> {}, tried |-> 0, failed |-> FALSE]
          ELSE LET got == take[i - 1]  e == EpisodeOf(f, items[i]) IN
               IF i \notin SelectEpisodes(items) \/ Cardinality(got.sel) = Keep THEN got
               ELSE IF e \in Previous(f) THEN [got EXCEPT !.sel = @ \cup {e}]
               ELSE IF got.tried = Attempts THEN got
               ELSE IF e.guid \in prepares THEN [got EXCEPT !.sel = @ \cup {e}, !.tried = @ + 1]
               ELSE [got EXCEPT !.tried = @ + 1, !.failed = TRUE]
    IN take[Len(items)]

\* Mutant of Fill: What was there before is only a spare for a failed refresh.
NoFill(sel, previous) == {sel}

\* What was there before makes up the number.
Fill(sel, previous) ==
    LET spare == {e \in previous : \A d \in sel : d.guid # e.guid}
        room == IF Keep > Cardinality(sel) THEN Keep - Cardinality(sel) ELSE 0
        n == IF Cardinality(spare) < room THEN Cardinality(spare) ELSE room
    IN {sel \cup x : x \in {y \in SUBSET spare : Cardinality(y) = n}}

Took(f, sel, failed) ==
    run' = [run EXCEPT !.left = @ \ {f}, !.next = @ \cup sel, !.failed = @ \/ failed]

\* A feed in its wait keeps what it has; a pilot that is complete is left alone.
Content(f) == (Waiting(f) /\ (state[f].failed \/ Previous(f) # {})) \/ (f = Pilot /\ Cardinality(Previous(f)) = Keep)

Skip(f) ==
    /\ Took(f, Previous(f), Waiting(f) /\ state[f].failed)
    /\ state' = IF Waiting(f) THEN state ELSE [state EXCEPT ![f].failed = FALSE]

\* The new wait; the file of a feed may fail to be written, and then it is a failure.
Saved(f, failed, body) ==
    [failed |-> failed, body |-> body,
     nextCheck |-> IF Waiting(f) THEN state[f].nextCheck ELSE now + (IF failed THEN Retry ELSE Poll)]

RefreshSource(f) ==
    \E got \in LoadFeed(f), writes \in BOOLEAN, prepares \in PrepareEpisode :
    LET body == IF ~got.ok THEN state[f].body ELSE IF got.store THEN got.body ELSE NoBody
        picked == Choose(f, got.body, prepares)
        unavailable == ~got.ok \/ SelectEpisodes(got.body) = {}
        failed == unavailable \/ picked.failed
    IN \E sel \in IF unavailable THEN {Previous(f)} ELSE Fill(picked.sel, Previous(f)) :
        /\ Took(f, sel, failed \/ ~writes)
        /\ state' = IF writes THEN [state EXCEPT ![f] = Saved(f, failed, body)] ELSE state
        /\ broken' = broken \ (sel \ Previous(f))

Refresh ==
    /\ run.at = "feeds" /\ \E f \in run.left :
        IF Content(f) THEN Skip(f) /\ UNCHANGED broken ELSE RefreshSource(f)
    /\ UNCHANGED <<subs, offered, catalog, status, edit, now, edits>>

FeedsDone == run.at = "feeds" /\ run.left = {} /\ run' = [run EXCEPT !.at = "publish"]
    /\ UNCHANGED <<subs, offered, state, catalog, broken, status, edit, now, edits>>

\* Nothing is published that is not whole, and nothing at all when nothing changed.
Publish ==
    /\ run.at = "publish"
    /\ IF run.next \cap broken = {}
       THEN catalog' = run.next /\ run' = [run EXCEPT !.at = "status"] /\ UNCHANGED status
       ELSE status' = [state |-> "error", ready |-> Cached] /\ run' = NoRun /\ UNCHANGED catalog
    /\ UNCHANGED <<subs, offered, state, broken, edit, now, edits>>

Report ==
    /\ run.at = "status" /\ run' = NoRun
    /\ status' = [state |-> IF run.failed THEN "error" ELSE IF run.sources = {} THEN "idle" ELSE "ready", ready |-> Cached]
    /\ UNCHANGED <<subs, offered, state, catalog, broken, edit, now, edits>>

\* The worker is killed; the next one starts over.
Crash == run # NoRun /\ run' = NoRun
    /\ UNCHANGED <<subs, offered, state, catalog, broken, status, edit, now, edits>>

Next ==
    \/ \E p \in Pairs, enabled \in BOOLEAN : ReadSubscriptions(p, enabled)
    \/ Save \/ Damage \/ Tick \/ Refresh \/ FeedsDone \/ Publish \/ Report \/ Crash
    \/ \E f \in Feeds : Republish(f)
    \/ \E scheduled \in BOOLEAN : Begin(scheduled)

Spec == Init /\ [][Next]_vars

-----------------------------------------------------------------------------
Of(set, f) == {e \in set : e.feed = f}

\* A refresh, failed or not, leaves every feed it still carries at least as many
\* episodes as were ready to play before it.
EpisodesStay ==
    catalog' # catalog =>
        \A f \in run.sources : Cardinality(Of(catalog', f)) >= Cardinality(Previous(f))
=============================================================================
