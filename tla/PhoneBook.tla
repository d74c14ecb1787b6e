------------------------------ MODULE PhoneBook ------------------------------
(***************************************************************************)
(* The phones' directories (cmd/doorman: phonebook.go, phonebook_job.go,   *)
(* provision.go; internal/provision: phonebook.go, push; internal/         *)
(* accountbook; internal/ownbook).  Books of the account, delivered file   *)
(* by file, and numbers filed from a phone with *88 are read into a cache  *)
(* while they may change; each phone gets the books it selects, composed   *)
(* of those they include; a worker pushes a changed directory to the phone *)
(* and remembers what the phone acknowledged.                              *)
(***************************************************************************)
EXTENDS Naturals, FiniteSets, Sequences, SequencesExt

CONSTANTS
    Phones,         \* the handsets the worker can push to
    Deliveries,     \* what the files become, one after another: "handsets" -> the
                    \* house book and the books each phone names; account book -> it
    MaxDepth,       \* how deep includes may nest
    Slots,          \* uploads at once
    Recordings,     \* *88 recordings: [phone, number, dials]
    Addrs,          \* addresses on the LAN
    FirstAddr,      \* phone -> the address it has at first, another for each
    MaxMoves,       \* bound: changes of address
    MaxMishaps      \* bound: failures, lost answers, crashes

VARIABLES
    files,          \* the inventory and the account books
    delivered,      \* how many deliveries are on the disk
    spool,          \* the recordings not yet dealt with
    own,            \* phone -> its own book: [id, number, named]
    filer,          \* the *88 job: [at, rec, book]
    reader,         \* a refresh: [at, todo, stamp, read], and which files were put
                    \* back meanwhile to what it fingerprinted
    cache,          \* the same of the last refresh that was accepted
    push,           \* phone -> the worker's delivery
    flight,         \* phone -> the upload under way
    addr,           \* external: phone -> its address
    holds,          \* external: phone -> the directory it imported
    moves, mishaps

vars == <<files, delivered, spool, own, filer, reader, cache, push, flight, addr, holds, moves, mishaps>>
inputs == <<files, delivered, spool, own>>
lan == <<addr, holds, moves>>

Mishap == mishaps < MaxMishaps /\ mishaps' = mishaps + 1
Nothing == [nothing |-> TRUE]
Files == DOMAIN Deliveries[1]
Account(read) == [b \in Files \ {"handsets"} |-> read[b]]
Content(f) == IF f = "own" THEN own ELSE files[f]

\* In the order of the fingerprint; loading reads the inventory first, and again
\* at the end for what each phone names.
Watched == <<"handsets", "own">> \o SetToSeq(Files \ {"handsets"})
Loaded == Watched \o <<"lists">>
Idle == [at |-> "stamp", todo |-> Watched, stamp |-> <<>>, read |-> <<>>, putBack |-> {}]
-----------------------------------------------------------------------------
(* accountbook: one book, and the books together.                          *)

Held(acct) == {b \in DOMAIN acct : acct[b].there}
Included(acct, b) == ToSet(acct[b].includes)

\* Problems: what a file alone can get wrong.
Sound(acct, b) ==
    /\ b \notin Included(acct, b) /\ Cardinality(Included(acct, b)) = Len(acct[b].includes)
    /\ acct[b].pass => acct[b].includes = <<>>

RECURSIVE Below(_, _, _)
Below(acct, S, n) ==
    IF n = 0 THEN S
    ELSE Below(acct, S \cup UNION {Included(acct, b) : b \in S \cap Held(acct)}, n - 1)

RECURSIVE Depth(_, _)
Depth(acct, b) ==
    LET ds == {1 + (IF i = "house" THEN 0 ELSE Depth(acct, i)) : i \in Included(acct, b)}
    IN IF ds = {} THEN 0 ELSE CHOOSE d \in ds : \A e \in ds : e <= d

\* Check: one pass book, shown nowhere; nothing missing, no cycle, not too deep.
Check(acct) ==
    LET H == Held(acct) IN
    /\ Cardinality({b \in H : acct[b].pass}) <= 1
    /\ \A b \in H : \A i \in Included(acct, b) \ {"house"} : i \in H /\ ~acct[i].pass
    /\ \A b \in H : b \notin Below(acct, Included(acct, b), Cardinality(H))
    /\ \A b \in H : Depth(acct, b) <= MaxDepth
-----------------------------------------------------------------------------
(* loadBooks and Select.                                                   *)

\* A pass book admits and is never shown.
Books(read) ==
    [b \in {"house"} \cup {a \in Held(Account(read)) : ~read[a].pass} |->
        IF b = "house" THEN [contacts |-> read.handsets.house, includes |-> <<>>, composed |-> FALSE]
        ELSE [contacts |-> read[b].contacts, includes |-> read[b].includes, composed |-> TRUE]]

\* A book is shown once, and of it the contacts not shown yet; an empty group
\* only when the phone named it.
RECURSIVE Walk(_, _, _, _, _)
Walk(books, st, id, composed, depth) ==
    IF st.fails \/ id \in st.reached THEN st
    ELSE IF id \notin DOMAIN books \/ depth > MaxDepth THEN [st EXCEPT !.fails = TRUE]
    ELSE LET group == books[id].contacts \ st.shown
             inner == composed \/ books[id].composed
             here == [fails |-> FALSE, reached |-> st.reached \cup {id}, shown |-> st.shown \cup group,
                      out |-> IF inner /\ group = {} THEN st.out ELSE Append(st.out, group)]
         IN FoldLeft(LAMBDA s, i : Walk(books, s, i, TRUE, depth + 1), here, books[id].includes)

Select(names, read) ==
    FoldLeft(LAMBDA s, i : Walk(Books(read), s, i, FALSE, 0),
             [fails |-> FALSE, reached |-> {}, shown |-> {}, out |-> <<>>], names)

\* The set is checked with what the inventory named at first, and with what it
\* names by the end.
Loads(read) ==
    LET acct == Account(read) IN
    /\ \A b \in Held(acct) : Sound(acct, b)
    /\ Check(acct)
    /\ \A p \in Phones : \A lists \in {read.handsets.lists, read.lists} : ~Select(lists[p], read).fails

\* The phone's own additions come last.
Directory(p) ==
    [books |-> Select(cache.read.lists[p], cache.read).out,
     added |-> {[number |-> e.number, named |-> e.named] : e \in cache.read.own[p]}]

Init ==
    /\ files = Deliveries[1] /\ delivered = 1
    /\ spool = Recordings /\ own = [p \in Phones |-> {}]
    /\ filer = [at |-> "idle", rec |-> Nothing, book |-> {}]
    /\ reader = Idle
    /\ LET now == [f \in ToSet(Watched) |-> Content(f)]
       IN  cache = [Idle EXCEPT !.stamp = now, !.read = now @@ ("lists" :> files.handsets.lists)]
    /\ push = [p \in Phones |-> [done |-> FALSE, digest |-> Nothing, ip |-> "none", waits |-> FALSE, held |-> Nothing]]
    /\ flight = [p \in Phones |-> Nothing] /\ holds = [p \in Phones |-> Nothing]
    /\ addr = FirstAddr
    /\ moves = 0 /\ mishaps = 0
-----------------------------------------------------------------------------
(* What changes on the disk.                                               *)

\* external: a delivery of the account or an edit of the inventory, one file at
\* a time; a later one may put back what was there.
DeliverFile(f) ==
    /\ delivered < Len(Deliveries) /\ files[f] # Deliveries[delivered + 1][f]
    /\ files' = [files EXCEPT ![f] = Deliveries[delivered + 1][f]]
    /\ delivered' = IF files' = Deliveries[delivered + 1] THEN delivered + 1 ELSE delivered
    /\ reader' = IF f \in DOMAIN reader.stamp /\ files'[f] = reader.stamp[f]
                 THEN [reader EXCEPT !.putBack = @ \cup {f}] ELSE reader
    /\ UNCHANGED <<spool, own, filer, cache, push, flight, lan, mishaps>>

\* The job takes a recording; what is not a number is dropped.
Take(r) ==
    /\ filer.at = "idle" /\ r \in spool
    /\ IF r.dials
          THEN filer' = [at |-> "file", rec |-> r, book |-> own[r.phone]] /\ UNCHANGED spool
          ELSE spool' = spool \ {r} /\ UNCHANGED filer
    /\ UNCHANGED <<files, delivered, own, reader, cache, push, flight, lan, mishaps>>

Entry(r) == [id |-> r.id, number |-> r.number, named |-> FALSE]
Have(book, r) == \E e \in book : e.number = r.number \/ e.id = r.id
Find(book, r) == {e \in book : e.id = r.id}

\* Upsert and save: a number that is there already keeps its entry.
FileNumber ==
    /\ filer.at = "file"
    /\ LET r == filer.rec  b == IF Have(filer.book, r) THEN filer.book ELSE filer.book \cup {Entry(r)} IN
       /\ own' = [own EXCEPT ![r.phone] = b]
       /\ filer' = [filer EXCEPT !.book = b,
                    !.at = IF \E e \in Find(b, r) : ~e.named THEN "hear" ELSE "remove"]
    /\ UNCHANGED <<files, delivered, spool, reader, cache, push, flight, lan, mishaps>>

\* The transcription comes, fails and is tried again, or is given up after a week.
Hear ==
    /\ filer.at = "hear"
    /\ \/ filer' = [filer EXCEPT !.at = "name"] /\ UNCHANGED mishaps
       \/ Mishap /\ filer' = [filer EXCEPT !.at = "idle"]
       \/ Mishap /\ filer' = [filer EXCEPT !.at = "remove"]
    /\ UNCHANGED <<inputs, reader, cache, push, flight, lan>>

\* Rename in the book that was read, and save it.
Rename ==
    /\ filer.at = "name"
    /\ LET r == filer.rec
           b == {IF e.id = r.id THEN [e EXCEPT !.named = TRUE] ELSE e : e \in filer.book}
       IN own' = [own EXCEPT ![r.phone] = b]
    /\ filer' = [filer EXCEPT !.at = "remove"]
    /\ UNCHANGED <<files, delivered, spool, reader, cache, push, flight, lan, mishaps>>

RemoveAudio ==
    /\ filer.at = "remove" /\ spool' = spool \ {filer.rec}
    /\ filer' = [at |-> "idle", rec |-> Nothing, book |-> {}]
    /\ UNCHANGED <<files, delivered, own, reader, cache, push, flight, lan, mishaps>>

FilerStops ==
    /\ filer.at # "idle" /\ Mishap /\ filer' = [at |-> "idle", rec |-> Nothing, book |-> {}]
    /\ UNCHANGED <<inputs, reader, cache, push, flight, lan>>
-----------------------------------------------------------------------------
(* bookCache.refresh: each file is read in turn, three times over.         *)

Due == Head(reader.todo)
Ends == Tail(reader.todo) = <<>>

\* What is cached is of these files as they are: there is nothing to do.
Fingerprint ==
    /\ reader.at = "stamp"
    /\ LET stamp == reader.stamp @@ (Due :> Content(Due)) IN
       reader' = IF ~Ends THEN [reader EXCEPT !.todo = Tail(@), !.stamp = stamp]
                 ELSE IF stamp = cache.stamp THEN Idle
                 ELSE [reader EXCEPT !.at = "load", !.todo = Loaded, !.stamp = stamp]
    /\ UNCHANGED <<inputs, filer, cache, push, flight, lan, mishaps>>

\* What does not load leaves the last books.
ReadInput ==
    /\ reader.at = "load"
    /\ LET read == reader.read @@ (Due :> IF Due = "lists" THEN files.handsets.lists ELSE Content(Due)) IN
       reader' = IF ~Ends THEN [reader EXCEPT !.todo = Tail(@), !.read = read]
                 ELSE IF Loads(read) THEN [reader EXCEPT !.at = "again", !.todo = Watched, !.read = read]
                 ELSE Idle
    /\ UNCHANGED <<inputs, filer, cache, push, flight, lan, mishaps>>

\* Mutant of Refresh: what was fingerprinted before is not compared again.
RefreshOnce ==
    /\ reader.at = "again" /\ reader' = Idle /\ cache' = reader
    /\ UNCHANGED <<inputs, filer, push, flight, lan, mishaps>>

\* The files are fingerprinted again: what changed while it was read leaves the
\* last books, too.
Refresh ==
    /\ reader.at = "again"
    /\ IF Content(Due) # reader.stamp[Due] THEN reader' = Idle /\ UNCHANGED cache
       ELSE IF Ends THEN reader' = Idle /\ cache' = [reader EXCEPT !.at = "stamp", !.todo = Watched]
       ELSE reader' = [reader EXCEPT !.todo = Tail(@)] /\ UNCHANGED cache
    /\ UNCHANGED <<inputs, filer, push, flight, lan, mishaps>>
-----------------------------------------------------------------------------
(* push: the worker and its uploads.                                       *)

Key(p) == [ip |-> addr[p], doc |-> Directory(p)]
Waits(p) == push[p].waits /\ push[p].held \in {Nothing, Key(p)}
UpToDate(p) == push[p].done /\ push[p].digest = Directory(p) /\ push[p].ip = addr[p]
Free == Cardinality({p \in Phones : flight[p] # Nothing}) < Slots

Tick(p) ==
    /\ reader = Idle /\ flight[p] = Nothing /\ ~Waits(p) /\ ~UpToDate(p) /\ Free
    /\ flight' = [flight EXCEPT ![p] = Key(p)]
    /\ UNCHANGED <<inputs, filer, reader, cache, push, lan, mishaps>>

\* The phone at the address says who it is before anything is written.
IsItself(p) == addr[p] = flight[p].ip
Acknowledged(p) ==
    push' = [push EXCEPT ![p] = [done |-> TRUE, digest |-> flight[p].doc, ip |-> flight[p].ip,
                                 waits |-> FALSE, held |-> Nothing]]
Failed(p, holdsBack) ==
    push' = [push EXCEPT ![p] = [@ EXCEPT !.done = FALSE, !.waits = TRUE,
                                          !.held = IF holdsBack THEN flight[p] ELSE Nothing]]

Upload(p) ==
    /\ flight[p] # Nothing /\ flight' = [flight EXCEPT ![p] = Nothing]
    /\ \/ /\ IsItself(p) /\ holds' = [holds EXCEPT ![p] = flight[p].doc]
          /\ ((Acknowledged(p) /\ UNCHANGED mishaps) \/ (Failed(p, FALSE) /\ Mishap))
       \/ IsItself(p) /\ Failed(p, TRUE) /\ Mishap /\ UNCHANGED holds
       \/ ~IsItself(p) /\ Failed(p, TRUE) /\ UNCHANGED <<mishaps, holds>>
       \/ Failed(p, FALSE) /\ Mishap /\ UNCHANGED holds
    /\ UNCHANGED <<inputs, filer, reader, cache, addr, moves>>

BackoffEnds(p) ==
    /\ push[p].waits /\ push' = [push EXCEPT ![p].waits = FALSE]
    /\ UNCHANGED <<inputs, filer, reader, cache, flight, lan, mishaps>>

\* external: a phone gets another address, perhaps one another phone has left.
Move(p) ==
    /\ moves < MaxMoves /\ moves' = moves + 1
    /\ \E a \in Addrs \ {addr[q] : q \in Phones} : addr' = [addr EXCEPT ![p] = a]
    /\ UNCHANGED <<inputs, filer, reader, cache, push, flight, holds, mishaps>>

Next ==
    \/ \E f \in Files : DeliverFile(f)
    \/ \E r \in Recordings : Take(r)
    \/ FileNumber \/ Hear \/ Rename \/ RemoveAudio \/ FilerStops
    \/ Fingerprint \/ ReadInput \/ Refresh
    \/ \E p \in Phones : Tick(p) \/ Upload(p) \/ BackoffEnds(p) \/ Move(p)

Spec == Init /\ [][Next]_vars

TypeOK ==
    /\ delivered \in 1 .. Len(Deliveries) /\ spool \subseteq Recordings
    /\ filer.at \in {"idle", "file", "hear", "name", "remove"}
    /\ reader.at \in {"stamp", "load", "again"} /\ moves \in 0 .. MaxMoves
-----------------------------------------------------------------------------
\* The cache is what the disk held at one moment, but for a file that changed
\* and was put back between the fingerprints: what was read of it in between is
\* served under the fingerprint of what is there. Every phone's selection shows
\* each contact it reaches once, and no pass book's.
ServedIsWhole ==
    /\ \A f \in ToSet(Watched) : cache.read[f] = cache.stamp[f] \/ f \in cache.putBack
    /\ cache.read.lists = cache.stamp.handsets.lists \/ "handsets" \in cache.putBack
    /\ \A p \in Phones :
        LET s == Select(cache.read.lists[p], cache.read)
            named == ToSet(cache.read.lists[p])
            reach == Below(Account(cache.read), named, Cardinality(Files))
            books == Books(cache.read)
        IN  /\ ~s.fails /\ s.reached = reach
            /\ s.shown = UNION {books[b].contacts : b \in reach}
            /\ \A i, j \in DOMAIN s.out : i # j => s.out[i] \cap s.out[j] = {}

\* What the worker takes as delivered to the phone at its address is what the
\* phone holds.
DoneIsHeld == \A p \in Phones : push[p].done => holds[p] = push[p].digest

\* A recording is gone only when its number is in the phone's book.
NumbersAreFiled ==
    \A r \in Recordings : (r.dials /\ r \notin spool) => \E e \in own[r.phone] : e.number = r.number

\* An entry stays, and keeps the name it got.
NamesStay ==
    \A p \in Phones : \A e \in own[p] : \E f \in own'[p] :
        f.id = e.id /\ f.number = e.number /\ (e.named => f.named)
=============================================================================
