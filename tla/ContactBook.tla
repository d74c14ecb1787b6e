----------------------------- MODULE ContactBook -----------------------------
(***************************************************************************)
(* The address books (internal/contacts, internal/policy/contacts.go,      *)
(* cmd/doorman/contacts.go).  Sources named in contacts.toml are files or  *)
(* addresses to fetch; a fetch keeps a copy and its tag in two files of a  *)
(* cache, conditionally, and the merge of what could be read is swapped    *)
(* into the book calls look numbers up in.  `doorman check --fetch` fetches *)
(* into the same cache.                                                    *)
(***************************************************************************)
EXTENDS Naturals, FiniteSets, Sequences, SequencesExt

CONSTANTS
    Confs,          \* contents of contacts.toml: [sources, refresh], or Absent
    Versions,       \* the lines an address book may hold, one after the other
    Feeds, Paths,   \* sources fetched, and read where they are
    Urls,           \* the addresses a feed may name
    Dated,          \* those that send nothing that is not newer than what is asked with
    TollFree,       \* numbers anybody finds
    Listed,         \* the numbers of [[people]]
    Fetchers,       \* "daemon", and "check" where it fetches too
    MaxEdits,       \* bound: edits of contacts.toml and of the files
    MaxMishaps      \* bound: fetches that fail, restarts

VARIABLES
    conf,           \* contacts.toml
    server,         \* external: address -> the version it serves
    file,           \* external: path -> [v, upto]: a version, copied in so far
    data,           \* feed -> its copy: [v, whole]; of which address and version
    meta,           \* feed -> [tag, fetched, failed]
    torn,           \* feeds whose last copy was written and its tag was not
    tmp,            \* feed -> the file a copy is written to before its rename
    fetch,          \* fetcher -> where it is
    book,           \* what calls look up: the documents of the merged set, or NoBook
    said,           \* what check said of its set
    edits, mishaps

vars == <<conf, server, file, data, meta, torn, tmp, fetch, book, said, edits, mishaps>>
outside == <<conf, server, file, edits>>
cache == <<data, meta, torn, tmp>>

NoBook == <<[id |-> "none", kind |-> "none", read |-> FALSE, lines |-> <<>>, whole |-> TRUE]>>
Mishap == mishaps < MaxMishaps /\ mishaps' = mishaps + 1
-----------------------------------------------------------------------------
(* contacts.toml.                                                          *)

\* compileContacts: one place each, known kinds, no id twice.
Compiles(c) ==
    /\ c.sources # <<>> /\ c.refresh >= 1
    /\ \A i, j \in DOMAIN c.sources : i # j => c.sources[i].id # c.sources[j].id
    /\ \A i \in DOMAIN c.sources :
        LET s == c.sources[i] IN
        /\ s.id \in Feeds \cup Paths /\ s.kind \in {"admit", "block"} /\ (s.token => s.id \in Feeds)

Present(c) == c.there
HasUrls(c) == \E i \in DOMAIN c.sources : c.sources[i].id \in Feeds
-----------------------------------------------------------------------------
(* vCards: parseCards, classify, Compile.                                  *)

NoCard == [open |-> FALSE, name |-> "", org |-> FALSE, tels |-> <<>>]

\* absorb: FN is the name, N where there was none yet.
Absorb(card, line) ==
    CASE line.t = "fn" -> [card EXCEPT !.name = line.v]
      [] line.t = "n" -> IF card.name = "" THEN [card EXCEPT !.name = line.v] ELSE card
      [] line.t = "org" -> [card EXCEPT !.org = TRUE]
      [] line.t = "tel" -> [card EXCEPT !.tels = Append(@, [number |-> line.v, types |-> line.types])]
      [] OTHER -> card

\* A card within a card is dropped, up to its end.
Line(st, line) ==
    IF line.t = "begin"
    THEN IF st.cur.open THEN [st EXCEPT !.depth = @ + 1] ELSE [st EXCEPT !.cur = [NoCard EXCEPT !.open = TRUE]]
    ELSE IF line.t = "end"
    THEN IF st.depth > 0 THEN [st EXCEPT !.depth = @ - 1]
         ELSE IF st.cur.open THEN [st EXCEPT !.cards = Append(@, st.cur), !.cur = NoCard] ELSE st
    ELSE IF st.cur.open /\ st.depth = 0 THEN [st EXCEPT !.cur = Absorb(@, line)] ELSE st

Cards(lines) == FoldLeft(Line, [cards |-> <<>>, cur |-> NoCard, depth |-> 0], lines).cards

\* What a stranger can look up is published; so is what is unclear.
Personal(card, tel) ==
    /\ tel.number \notin TollFree /\ ~card.org /\ card.name # ""
    /\ "work" \notin tel.types /\ "cell" \in tel.types

Mentions(doc) ==
    FoldLeft(LAMBDA s, c : s \o [i \in DOMAIN c.tels |->
                 [number |-> c.tels[i].number, name |-> c.name, personal |-> Personal(c, c.tels[i]),
                  blocked |-> doc.kind = "block", source |-> doc.id]],
             <<>>, IF doc.read THEN Cards(doc.lines) ELSE <<>>)

Merge(set, n) ==
    IF \A e \in set : e.number # n.number THEN set \cup {n}
    ELSE {IF e.number # n.number THEN e
          ELSE [e EXCEPT !.name = IF e.name = "" THEN n.name ELSE @, !.source = IF e.name = "" /\ n.name # "" THEN n.source ELSE @,
                         !.personal = @ /\ n.personal, !.blocked = @ \/ n.blocked] : e \in set}

Compile(docs) ==
    FoldLeft(LAMBDA set, d : FoldLeft(Merge, set, Mentions(d)), {}, docs)

Lookup(docs, number) == {e \in Compile(docs) : e.number = number}

\* printContacts: a listed number that is blocked, or a file that is not there.
Contradictions(docs) == {e \in Compile(docs) : e.blocked /\ e.number \in Listed}
CheckOk(docs) == Contradictions(docs) = {} /\ \A i \in DOMAIN docs : docs[i].id \in Paths => docs[i].read
-----------------------------------------------------------------------------
(* The documents of a set, from the disk.                                  *)

Lines(v) == IF v = 0 THEN <<>> ELSE Versions[v]
NoCopy == [v |-> [of |-> "none", n |-> 0], whole |-> TRUE]

Cached(s) ==
    [id |-> s.id, kind |-> s.kind, read |-> meta[s.id].fetched /\ data[s.id] # NoCopy,
     lines |-> Lines(data[s.id].v.n), whole |-> data[s.id].whole]

\* As it is, also half copied in.
Opened(s) ==
    LET all == Lines(file[s.id].v) IN
    [id |-> s.id, kind |-> s.kind, read |-> file[s.id].v # 0,
     lines |-> SubSeq(all, 1, file[s.id].upto), whole |-> file[s.id].upto = Len(all)]

Document(s) == IF s.id \in Paths THEN Opened(s) ELSE Cached(s)
Load(c) == [i \in DOMAIN c.sources |-> Document(c.sources[i])]

Idle == [at |-> "idle", conf |-> [sources |-> <<>>], docs |-> <<>>, meta |-> [tag |-> NoCopy.v], got |-> NoCopy.v, opened |-> "none"]

\* openContacts: without an inventory there is no book until the next start.
Start == IF Present(conf) /\ Compiles(conf) THEN Load(conf) ELSE NoBook

Init ==
    /\ conf \in {c \in Confs : Present(c) /\ Compiles(c)}
    /\ server = [u \in Urls |-> 1] /\ file = [p \in Paths |-> [v |-> 1, upto |-> Len(Lines(1))]]
    /\ data = [s \in Feeds |-> NoCopy] /\ tmp = [s \in Feeds |-> NoCopy] /\ torn = {}
    /\ meta = [s \in Feeds |-> [tag |-> NoCopy.v, fetched |-> FALSE, failed |-> FALSE]]
    /\ fetch = [f \in Fetchers |-> Idle] /\ book = Start
    /\ said = [ok |-> FALSE, docs |-> <<>>] /\ edits = 0 /\ mishaps = 0
-----------------------------------------------------------------------------
(* external: edits of the household, and of the address books.             *)

Edit == edits < MaxEdits /\ edits' = edits + 1
EditConf ==
    /\ Edit /\ \E c \in Confs : conf' = c
    /\ UNCHANGED <<server, file, cache, fetch, book, said, mishaps>>
\* An address serves another version, perhaps an earlier one again.
Serve(u) ==
    /\ Edit /\ \E n \in 1 .. Len(Versions) : n # server[u] /\ server' = [server EXCEPT ![u] = n]
    /\ UNCHANGED <<conf, file, cache, fetch, book, said, mishaps>>
\* A file is copied in, a line at a time, or taken away.
CopyIn(p) ==
    /\ \/ Edit /\ file' = [file EXCEPT ![p] = [v |-> 0, upto |-> 0]]
       \/ Edit /\ file[p].v < Len(Versions) /\ file' = [file EXCEPT ![p] = [v |-> @.v + 1, upto |-> 0]]
       \/ file[p].upto < Len(Lines(file[p].v)) /\ file' = [file EXCEPT ![p].upto = @ + 1] /\ UNCHANGED edits
    /\ UNCHANGED <<conf, server, cache, fetch, book, said, mishaps>>
-----------------------------------------------------------------------------
(* A fetcher goes through the sources in order.                            *)

Put(f, r) == fetch' = [fetch EXCEPT ![f] = r]
Source(f) == fetch[f].conf.sources[Len(fetch[f].docs) + 1]
At(f, label) == fetch[f].at = label
Next1(f, doc) == Put(f, [fetch[f] EXCEPT !.at = "source", !.docs = Append(@, doc), !.meta = Idle.meta, !.got = NoCopy.v, !.opened = "none"])

\* An inventory that does not load, or is gone, leaves the book.
Begin(f) ==
    /\ At(f, "idle") /\ Present(conf) /\ Compiles(conf) /\ (f = "daemon" => book # NoBook)
    /\ IF HasUrls(conf) THEN Put(f, [Idle EXCEPT !.at = "source", !.conf = conf]) /\ UNCHANGED <<book, said>>
       ELSE /\ IF f = "daemon" THEN book' = Load(conf) /\ UNCHANGED said
               ELSE said' = [ok |-> CheckOk(Load(conf)), docs |-> Load(conf)] /\ UNCHANGED book
            /\ UNCHANGED fetch
    /\ UNCHANGED <<outside, cache, mishaps>>

More(f) == At(f, "source") /\ Len(fetch[f].docs) < Len(fetch[f].conf.sources)

ReadFile(f) ==
    /\ More(f) /\ Source(f).id \in Paths /\ Next1(f, Opened(Source(f)))
    /\ UNCHANGED <<outside, cache, book, said, mishaps>>

\* The tag is kept by the source's id, whatever address it came from.
ReadMeta(f) ==
    /\ More(f) /\ Source(f).id \in Feeds
    /\ Put(f, [fetch[f] EXCEPT !.at = "asked", !.meta = meta[Source(f).id]])
    /\ UNCHANGED <<outside, cache, book, said, mishaps>>

\* external: by date, what is not newer is not sent; by tag, what has it already.
NotModified(tag, url) ==
    IF url \in Dated THEN tag.n >= server[url] ELSE tag = [of |-> url, n |-> server[url]]

\* The tag is asked with; what has it already is not sent again.
Answer(f) ==
    /\ At(f, "asked") /\ LET s == Source(f)  m == fetch[f].meta  same == m.fetched /\ NotModified(m.tag, s.url) IN
       \/ /\ same /\ meta' = [meta EXCEPT ![s.id] = [m EXCEPT !.failed = FALSE]]
          /\ Put(f, [fetch[f] EXCEPT !.at = "cached"]) /\ UNCHANGED mishaps
       \/ /\ ~same /\ Put(f, [fetch[f] EXCEPT !.at = "write", !.got = [of |-> s.url, n |-> server[s.url]]])
          /\ UNCHANGED <<meta, mishaps>>
       \/ Mishap /\ Put(f, [fetch[f] EXCEPT !.at = "fail"]) /\ UNCHANGED meta
    /\ UNCHANGED <<outside, data, torn, tmp, book, said>>

\* fail: the copy that is there stays, and its tag.
Fail(f) ==
    /\ At(f, "fail") /\ meta' = [meta EXCEPT ![Source(f).id] = [fetch[f].meta EXCEPT !.failed = TRUE]]
    /\ Put(f, [fetch[f] EXCEPT !.at = "cached"])
    /\ UNCHANGED <<outside, data, torn, tmp, book, said, mishaps>>

\* writeAtomic: the file beside the copy is written and renamed over it.
WriteTmp(f) ==
    /\ At(f, "write") /\ tmp' = [tmp EXCEPT ![Source(f).id] = [v |-> fetch[f].got, whole |-> FALSE]]
    /\ Put(f, [fetch[f] EXCEPT !.at = "writing", !.opened = "tmp"])
    /\ UNCHANGED <<outside, data, meta, torn, book, said, mishaps>>
WriteRest(f) ==
    /\ At(f, "writing") /\ LET u == Source(f).id  all == [v |-> fetch[f].got, whole |-> TRUE] IN
       IF fetch[f].opened = "tmp" THEN tmp' = [tmp EXCEPT ![u] = all] /\ UNCHANGED data
       ELSE data' = [data EXCEPT ![u] = all] /\ UNCHANGED tmp
    /\ Put(f, [fetch[f] EXCEPT !.at = "rename"])
    /\ UNCHANGED <<outside, meta, torn, book, said, mishaps>>
Rename(f) ==
    /\ At(f, "rename") /\ LET u == Source(f).id IN
       IF tmp[u] = NoCopy THEN Put(f, [fetch[f] EXCEPT !.at = "fail"]) /\ UNCHANGED <<data, torn, tmp>>
       ELSE /\ data' = [data EXCEPT ![u] = tmp[u]] /\ tmp' = [tmp EXCEPT ![u] = NoCopy] /\ torn' = torn \cup {u}
            /\ fetch' = [g \in Fetchers |->
                   IF g = f THEN [fetch[g] EXCEPT !.at = "tag", !.opened = "none"]
                   ELSE [fetch[g] EXCEPT !.opened = IF @ = "tmp" /\ Source(g).id = u THEN "data" ELSE @]]
    /\ UNCHANGED <<outside, meta, book, said, mishaps>>
\* Mutant of WriteTag: the tag of what the server sent is kept though no copy was written.
WriteTagAnyway(f) ==
    /\ fetch[f].at \in {"write", "tag"}
    /\ meta' = [meta EXCEPT ![Source(f).id] = [tag |-> fetch[f].got, fetched |-> TRUE, failed |-> FALSE]]
    /\ Put(f, [fetch[f] EXCEPT !.at = "cached"])
    /\ UNCHANGED <<outside, data, torn, tmp, book, said, mishaps>>

\* The tag is written after the copy it belongs to. Where that fails, it is
\* written once more with the failure, and that may fail, too.
WriteTag(f) ==
    /\ At(f, "tag") /\ LET s == Source(f).id  m == [tag |-> fetch[f].got, fetched |-> TRUE, failed |-> FALSE] IN
       \/ meta' = [meta EXCEPT ![s] = m] /\ torn' = torn \ {s} /\ UNCHANGED mishaps
       \/ meta' = [meta EXCEPT ![s] = [m EXCEPT !.failed = TRUE]] /\ torn' = torn \ {s} /\ Mishap
       \/ UNCHANGED <<meta, torn>> /\ Mishap
    /\ Put(f, [fetch[f] EXCEPT !.at = "cached"])
    /\ UNCHANGED <<outside, data, tmp, book, said>>

ReadCopy(f) ==
    /\ At(f, "cached") /\ Next1(f, Cached(Source(f)))
    /\ UNCHANGED <<outside, cache, book, said, mishaps>>

\* All sources were gone through: the daemon swaps its book, check reports.
Finish(f) ==
    /\ At(f, "source") /\ ~More(f) /\ Put(f, Idle)
    /\ IF f = "daemon" THEN book' = fetch[f].docs /\ UNCHANGED said
       ELSE said' = [ok |-> CheckOk(fetch[f].docs), docs |-> fetch[f].docs] /\ UNCHANGED book
    /\ UNCHANGED <<outside, cache, mishaps>>

\* The daemon starts again, wherever it was; a check is broken off.
Restart(f) ==
    /\ Mishap /\ Put(f, Idle) /\ book' = IF f = "daemon" THEN Start ELSE book
    /\ UNCHANGED <<outside, cache, said>>

Next ==
    \/ EditConf \/ (\E u \in Urls : Serve(u)) \/ (\E p \in Paths : CopyIn(p))
    \/ \E f \in Fetchers :
        \/ Begin(f) \/ ReadFile(f) \/ ReadMeta(f) \/ Answer(f) \/ Fail(f) \/ WriteTmp(f) \/ WriteRest(f)
        \/ Rename(f) \/ WriteTag(f) \/ ReadCopy(f) \/ Finish(f) \/ Restart(f)

Spec == Init /\ [][Next]_vars

TypeOK ==
    /\ torn \subseteq Feeds
    /\ \A s \in Feeds : {data[s].v.n, meta[s].tag.n} \subseteq 0 .. Len(Versions)
    /\ \A f \in Fetchers : Len(fetch[f].docs) <= Len(fetch[f].conf.sources)
-----------------------------------------------------------------------------
\* A half-written copy of what is fetched is never what a call sees. (A file is
\* read as it is, also while it is copied in: CutLendsNothing.)
HalfIsNeverSeen == book # NoBook => \A i \in DOMAIN book : book[i].id \in Feeds => book[i].whole

\* The tag a copy is asked for again with is the copy's own, whatever was broken
\* off, but where a fetch stopped or failed between the two: the copy is then the
\* newer one, never the tag.
TagIsOfCopy == \A s \in Feeds \ torn : meta[s].fetched => meta[s].tag = data[s].v

\* A copy that is said to be current is what its address serves, but where the
\* tag asked with was another's: of the copy before it, when the address went
\* back to that; or, asked by date, of another address or of a later version.
CurrentIsServed ==
    \A f \in Fetchers : At(f, "asked") /\ fetch'[f].at = "cached" =>
        LET s == Source(f)  tag == fetch[f].meta.tag IN
        \/ data[s.id].v = [of |-> s.url, n |-> server[s.url]]
        \/ s.id \in torn
        \/ s.url \in Dated /\ (tag.of # s.url \/ tag.n > server[s.url])

\* A number is blocked when any source blocks it, and admitted as a person's
\* only when every card that names it says so; the first name is its name.
MergeIsCautious ==
    book # NoBook =>
        LET all == FoldLeft(LAMBDA s, d : s \o Mentions(d), <<>>, book) IN
        \A e \in Compile(book) :
            LET mine == SelectSeq(all, LAMBDA n : n.number = e.number)
                named == SelectSeq(mine, LAMBDA n : n.name # "") IN
            /\ e.blocked = \E i \in DOMAIN mine : mine[i].blocked
            /\ e.personal = \A i \in DOMAIN mine : mine[i].personal
            /\ e.name = IF named = <<>> THEN "" ELSE named[1].name

\* A file read while it is copied in gives the cards that are whole, and lends
\* no number to another card.
CutLendsNothing ==
    book # NoBook => \A i \in DOMAIN book : (book[i].id \in Paths /\ book[i].read) =>
        \E v \in 1 .. Len(Versions) : IsPrefix(book[i].lines, Lines(v)) /\ IsPrefix(Cards(book[i].lines), Cards(Lines(v)))

\* A source that was fetched goes on counting, whatever fails, while it is there.
SourcesStay ==
    (book # NoBook /\ book' # NoBook) =>
        \A i \in DOMAIN book, j \in DOMAIN book' :
            (book[i].id \in Feeds /\ book'[j].id = book[i].id /\ book[i].read) => book'[j].read
=============================================================================
