---------------------------- MODULE BookLibrary ----------------------------
(* The recording library: the prepared editions on disk, the catalog that names
   them, the menu bundle made for one catalog, and the three ways in: `doorman
   books prepare`, the archive importers and the podcast worker.  Publishers are
   processes that may be killed between any two steps; callers read the same
   files while they work.
   A podcast library and a books library are two roots with one writer's rules
   each; `kind` says which one this is. *)
EXTENDS Naturals, FiniteSets

CONSTANTS
    Publishers,     \* processes that write the library
    Callers,        \* handsets inside the books menu
    Books,          \* [id, rev, preview] editions: bookDir is the id and the revision
    Sources,        \* catalogs `books prepare` may be given, sets of editions
    Archives,       \* [op, book, flaw]: archives an importer may be given
    MaxOps          \* bound: commands begun

VARIABLES
    kind,           \* "books" or "podcasts"
    dirs,           \* what each edition's directory holds
    unsynced,       \* editions renamed into place without a sync
    catalog,        \* catalog.json: the editions it names, NoFile when there is none
    menus,          \* menus.json: the catalog it was made for, or NoFile
    pending,        \* preview-catalog.pending.json
    prompts,        \* the prompt directory stands
    library,        \* who holds .import.lock
    pubs,           \* each publisher
    callers,        \* each caller
    ops,            \* commands begun
    powerLost       \* whether the power has failed

vars == <<kind, dirs, unsynced, catalog, menus, pending, prompts, library, pubs, callers, ops, powerLost>>
disk == <<dirs, unsynced, catalog, menus, pending, prompts>>

NoOne == "no one"
Imports == {"preview", "audiobook", "recorded"}
NoBook == [id |-> "", rev |-> 0, preview |-> FALSE]
NoFile == {NoBook}
Catalogs == SUBSET Books \cup {NoFile}
Idle == [op |-> "", at |-> "idle", books |-> {}, cat |-> {}, flaw |-> "none", menuSource |-> NoFile]
Out == [at |-> "out", shelf |-> {}, clips |-> FALSE, book |-> NoBook]

TypeOK ==
    /\ kind \in {"books", "podcasts"}
    /\ dirs \in [Books -> {"none", "hurt", "notitle", "whole"}]
    /\ unsynced \subseteq Books
    /\ catalog \in Catalogs /\ menus \in Catalogs /\ pending \in Catalogs
    /\ prompts \in BOOLEAN /\ powerLost \in BOOLEAN
    /\ library \in Publishers \cup {NoOne}
    /\ \A p \in Publishers : pubs[p].books \subseteq Books /\ pubs[p].cat \in Catalogs
    /\ \A c \in Callers : callers[c].at \in {"out", "shelf", "listening"}
    /\ ops \in 0..MaxOps

Init ==
    /\ kind \in {"books", "podcasts"}
    /\ dirs = [b \in Books |-> "none"] /\ unsynced = {}
    /\ catalog = NoFile /\ menus = NoFile /\ pending = NoFile /\ prompts = FALSE
    /\ library = NoOne
    /\ pubs = [p \in Publishers |-> Idle]
    /\ callers = [c \in Callers |-> Out]
    /\ ops = 0 /\ powerLost = FALSE

-----------------------------------------------------------------------------
(* Reading *)

Load == IF catalog = NoFile THEN {} ELSE catalog

\* Every chapter is a regular file of the size the catalog or the index gives.
ChaptersReady(b) == dirs[b] \in {"notitle", "whole"}

TitlesReady(b) == dirs[b] = "whole"

\* live asks that the catalog still names this very revision.
ArtifactReady(b, live) ==
    /\ kind = "podcasts" => TitlesReady(b) /\ (live => prompts)
    /\ live => catalog # NoFile /\ b \in catalog
    /\ ChaptersReady(b)

Ready(b) == ArtifactReady(b, TRUE)

\* An identity is named once.
Validate(c) == \A b, d \in c : b.id = d.id => b = d

\* The bundle serves only the catalog it was made for.
LoadMenus(c) == menus # NoFile /\ menus = c

-----------------------------------------------------------------------------
(* What each importer refuses on sight, and what only once it unpacks *)

Opened == {"size", "hash"}
Directory == {"directory"}
Members == {"member"}
Sums == {"sums"}
Manifest == {"manifest", "timeline"}

PreviewSees == Opened \cup Members \cup Sums \cup {"checksum"} \cup Manifest
AudiobookSees == Opened \cup Directory \cup Members \cup Sums \cup Manifest \cup {"extra"}
RecordedSees == Opened \cup Directory \cup Members \cup Sums \cup Manifest \cup {"extra"}

\* Segments are verified against SHA256SUMS as they are read, and decoded one by one.
PreviewUnpacks == {"decode"}
AudiobookUnpacks == {"checksum", "decode"}
RecordedUnpacks == {"checksum", "decode"}

Sees(op) ==
    CASE op = "preview" -> PreviewSees [] op = "audiobook" -> AudiobookSees [] OTHER -> RecordedSees
Unpacks(op) ==
    CASE op = "preview" -> PreviewUnpacks [] op = "audiobook" -> AudiobookUnpacks [] OTHER -> RecordedUnpacks

Content(flaw) == IF flaw \in {"checksum", "decode"} THEN "hurt" ELSE "whole"

\* A conversion yields every chapter and every spoken title, or nothing.
PrepareBook == {"whole", "none"}

\* A preview takes no full recording's place.
Downgrades(c, b) == \E old \in c : old.id = b.id /\ b.preview /\ ~old.preview

Preflight(c, b) == ~Downgrades(c, b)

ImportedCatalog(c, b) == {old \in c : old.id # b.id} \cup {b}

-----------------------------------------------------------------------------
(* Publishing *)

The(p) == CHOOSE b \in pubs[p].books : TRUE
To(p, at) == pubs' = [pubs EXCEPT ![p].at = at]
Holds(p) == library = p
Release(p) == library' = IF Holds(p) THEN NoOne ELSE library

\* The command returns: its lock goes, its stage is removed.
Done(p) == pubs' = [pubs EXCEPT ![p] = Idle] /\ Release(p)
Fail(p) == Done(p) /\ UNCHANGED disk

Begin(p, job) ==
    /\ pubs[p] = Idle /\ ops < MaxOps /\ ops' = ops + 1
    /\ pubs' = [pubs EXCEPT ![p] = job]
    /\ UNCHANGED <<library, disk>>

StartPrepare(p) == kind = "books" /\ \E s \in Sources :
    /\ Validate(s)
    /\ Begin(p, [Idle EXCEPT !.op = "prepare", !.at = "lock", !.books = s, !.cat = s])

StartImport(p) == kind = "books" /\ \E a \in Archives : \E m \in {NoFile, {a.book}, ImportedCatalog(Load, a.book)} :
    /\ a.flaw \notin Sees(a.op)
    /\ Begin(p, [Idle EXCEPT !.op = a.op, !.books = {a.book}, !.flaw = a.flaw, !.menuSource = m,
                             !.at = IF a.op = "recorded" THEN "stage" ELSE "lock"])

\* The menu bundle is rendered for the catalog as it stands, without the lock.
StartMenus(p) ==
    /\ kind = "books" /\ catalog # NoFile
    /\ Begin(p, [Idle EXCEPT !.op = "menus", !.at = "bundle", !.cat = catalog])

Busy(p) == pubs[p].at = "lock" /\ library # NoOne /\ Fail(p) /\ UNCHANGED ops

\* Mutant of Lock: The lock is taken from whoever holds it.
NeverLocked(p) ==
    /\ pubs[p].at = "lock" /\ UNCHANGED <<ops, disk>>
    /\ IF pubs[p].op = "audiobook" /\ ~Preflight(Load, The(p)) THEN UNCHANGED library /\ pubs' = [pubs EXCEPT ![p] = Idle]
       ELSE /\ library' = p
            /\ pubs' = [pubs EXCEPT
                 ![p].at = CASE pubs[p].op = "prepare" -> "edition"
                             [] pubs[p].op = "recorded" -> "tree" [] OTHER -> "stage",
                 ![p].cat = IF pubs[p].op = "prepare" THEN @ ELSE Load]

\* An importer reads the catalog under the lock, an audiobook's fit is tried first.
Lock(p) ==
    /\ pubs[p].at = "lock" /\ library = NoOne /\ UNCHANGED <<ops, disk>>
    /\ IF pubs[p].op = "audiobook" /\ ~Preflight(Load, The(p)) THEN UNCHANGED library /\ pubs' = [pubs EXCEPT ![p] = Idle]
       ELSE /\ library' = p
            /\ pubs' = [pubs EXCEPT
                 ![p].at = CASE pubs[p].op = "prepare" -> "edition"
                             [] pubs[p].op = "recorded" -> "tree" [] OTHER -> "stage",
                 ![p].cat = IF pubs[p].op = "prepare" THEN @ ELSE Load]

StageImport(p) ==
    /\ pubs[p].at = "stage" /\ UNCHANGED ops
    /\ IF pubs[p].flaw \in Unpacks(pubs[p].op) THEN Fail(p)
       ELSE To(p, IF pubs[p].op = "recorded" THEN "lock" ELSE "tree") /\ UNCHANGED <<library, disk>>

\* The stage is synced and renamed; a revision already there must be the same, byte for byte.
PublishTree(p) ==
    /\ pubs[p].at = "tree" /\ UNCHANGED ops
    /\ LET b == The(p) IN
       IF Downgrades(pubs[p].cat, b) \/ (dirs[b] \notin {"none", Content(pubs[p].flaw)}) THEN Fail(p)
       ELSE /\ dirs' = [dirs EXCEPT ![b] = Content(pubs[p].flaw)]
            /\ pubs' = [pubs EXCEPT ![p].at = "menus", ![p].cat = ImportedCatalog(@, b)]
            /\ UNCHANGED <<library, unsynced, catalog, menus, pending, prompts>>

\* Only a bundle made for the very catalog is copied in.
CopyPreviewMenus(source, c) == source = c

\* A catalog that changes under a menu bundle waits for a bundle of its own.
MenuRefresh(p) == LET j == pubs[p] IN
    /\ j.at = "menus" /\ UNCHANGED ops
    /\ CASE j.menuSource = NoFile /\ Load # j.cat /\ menus # NoFile ->
              /\ pending' = j.cat /\ Done(p)
              /\ UNCHANGED <<dirs, unsynced, catalog, menus, prompts>>
         [] j.menuSource # NoFile /\ ~CopyPreviewMenus(j.menuSource, j.cat) -> Fail(p)
         [] OTHER -> To(p, "prompts") /\ UNCHANGED <<library, disk>>

\* One recording is converted, staged and renamed; one already there is measured.
PrepareEdition(p) == pubs[p].at = "edition" /\ UNCHANGED ops /\
    IF pubs[p].books = {} THEN To(p, "prompts") /\ UNCHANGED <<library, disk>>
    ELSE LET b == The(p) IN \E made \in PrepareBook :
         IF made = "none" \/ dirs[b] = "hurt" THEN Fail(p)
         ELSE /\ dirs' = IF dirs[b] = "none" THEN [dirs EXCEPT ![b] = made] ELSE dirs
              /\ unsynced' = IF dirs[b] = "none" THEN unsynced \cup {b} ELSE unsynced
              /\ pubs' = [pubs EXCEPT ![p].books = @ \ {b}]
              /\ UNCHANGED <<library, catalog, menus, pending, prompts>>

MakePrompts(p) ==
    /\ pubs[p].at = "prompts" /\ UNCHANGED ops
    /\ prompts' = TRUE
    /\ To(p, IF pubs[p].op = "prepare" THEN "catalog" ELSE "bundle")
    /\ UNCHANGED <<library, dirs, unsynced, catalog, menus, pending>>

BuildMenus(p) ==
    /\ pubs[p].at = "bundle" /\ pubs[p].op = "menus"
    /\ menus' = pubs[p].cat /\ Done(p)
    /\ UNCHANGED <<ops, dirs, unsynced, catalog, pending, prompts>>

\* An importer's own bundle goes first, the one it replaces is remembered.
PublishMenus(p) == LET j == pubs[p] IN
    /\ j.at = "bundle" /\ j.op # "menus" /\ UNCHANGED <<ops, library, dirs, unsynced, catalog, pending, prompts>>
    /\ menus' = IF j.menuSource = NoFile THEN menus ELSE j.menuSource
    /\ pubs' = [pubs EXCEPT ![p].at = "catalog", ![p].menuSource = IF @ = NoFile THEN @ ELSE menus]

PublishCatalog(p) ==
    /\ pubs[p].at = "catalog" /\ pubs[p].op # "refresh" /\ UNCHANGED ops
    /\ catalog' = pubs[p].cat /\ To(p, "retire")
    /\ pending' = IF pubs[p].op \in Imports THEN NoFile ELSE pending
    /\ UNCHANGED <<library, dirs, unsynced, menus, prompts>>

\* The catalog could not be written: an importer puts the menus back as they were.
CatalogFails(p) ==
    /\ pubs[p].at = "catalog" /\ pubs[p].op # "refresh" /\ UNCHANGED ops
    /\ menus' \in IF pubs[p].op \in Imports THEN {menus, pubs[p].menuSource} ELSE {menus}
    /\ Done(p) /\ UNCHANGED <<dirs, unsynced, catalog, pending, prompts>>

RetireStaleMenus(p) ==
    /\ pubs[p].at = "retire" /\ UNCHANGED ops
    /\ menus' = IF menus = catalog THEN menus ELSE NoFile
    /\ Done(p) /\ UNCHANGED <<dirs, unsynced, catalog, pending, prompts>>

-----------------------------------------------------------------------------
(* The podcast worker: reap, prepare what is new, publish, reap *)

Playing == \E c \in Callers : callers[c].at # "out"

StartRefresh(p) ==
    /\ kind = "podcasts" /\ \A q \in Publishers : pubs[q] = Idle
    /\ Begin(p, [Idle EXCEPT !.op = "refresh", !.at = "reap"])

Unnamed == {b \in Books : dirs[b] # "none" /\ b \notin Load}

\* Removing a directory is not one step: a killed worker leaves half of one.
ReapPodcasts(p) ==
    /\ pubs[p].at = "reap" /\ ~Playing /\ UNCHANGED ops
    /\ \E b \in Unnamed : \E left \in {"hurt", "none"} :
        /\ dirs' = [dirs EXCEPT ![b] = left] /\ unsynced' = unsynced \ {b}
        /\ UNCHANGED <<pubs, library, catalog, menus, pending, prompts>>

\* Nothing is left to remove, or someone is listening and nothing may be.
Reaped(p) ==
    /\ pubs[p].at = "reap" /\ (Playing \/ Unnamed = {}) /\ UNCHANGED <<ops, library, disk>>
    /\ IF pubs[p].cat = NoFile THEN Done(p)
       ELSE \E keep \in SUBSET {b \in Load : Ready(b)}, new \in SUBSET Books :
            /\ Validate(keep \cup new) /\ keep \cap new = {}
            /\ pubs' = [pubs EXCEPT ![p].at = "stage", ![p].books = new, ![p].cat = keep]

\* StagePodcast: an episode that cannot be prepared is left out.
StagePodcast(p) == pubs[p].at = "stage" /\ pubs[p].op = "refresh" /\ UNCHANGED <<ops, library>> /\
    IF pubs[p].books = {} THEN To(p, "catalog") /\ UNCHANGED disk
    ELSE LET b == The(p) IN \E made \in PrepareBook :
         /\ dirs' = IF dirs[b] = "none" THEN [dirs EXCEPT ![b] = made] ELSE dirs
         /\ unsynced' = IF dirs' = dirs THEN unsynced ELSE unsynced \cup {b}
         /\ pubs' = [pubs EXCEPT ![p].books = @ \ {b},
                                  ![p].cat = IF made = "none" \/ dirs[b] = "hurt" THEN @ ELSE @ \cup {b}]
         /\ UNCHANGED <<catalog, menus, pending, prompts>>

\* PreparePodcasts refuses an edition that is not whole; no episode at all is published as it is.
PreparePodcasts(p) ==
    /\ pubs[p].at = "catalog" /\ pubs[p].op = "refresh" /\ UNCHANGED ops
    /\ LET next == pubs[p].cat IN
       \/ /\ \A b \in next : ArtifactReady(b, FALSE)
          /\ catalog' = next /\ prompts' = (prompts \/ next # {})
          /\ pubs' = [pubs EXCEPT ![p].at = "reap", ![p].cat = NoFile]
          /\ UNCHANGED <<library, dirs, unsynced, menus, pending>>
       \/ (\E b \in next : ~ArtifactReady(b, FALSE)) /\ Fail(p)

-----------------------------------------------------------------------------
(* Callers *)

\* A podcast caller shares the playback lock until the call is over.
Enter(c) ==
    /\ callers[c] = Out /\ catalog # NoFile
    /\ kind = "podcasts" => \A p \in Publishers : pubs[p].at # "reap"
    /\ callers' = [callers EXCEPT ![c] = [at |-> "shelf", shelf |-> catalog, clips |-> LoadMenus(catalog), book |-> NoBook]]

Choose(c) ==
    /\ callers[c].at = "shelf"
    /\ \E b \in callers[c].shelf : Ready(b) /\ callers' = [callers EXCEPT ![c].at = "listening", ![c].book = b]

Back(c) == callers[c].at = "listening" /\ callers' = [callers EXCEPT ![c].at = "shelf", ![c].book = NoBook]

HangUp(c) == callers[c] # Out /\ callers' = [callers EXCEPT ![c] = Out]

-----------------------------------------------------------------------------
(* Faults *)

\* A publisher is killed; its locks go with it.
Crash(p) == pubs[p] # Idle /\ Fail(p) /\ UNCHANGED ops

\* What was renamed without a sync may come back hurt, or not at all.
PowerLoss ==
    /\ ~powerLost /\ powerLost' = TRUE /\ unsynced # {}
    /\ \E left \in [unsynced -> {"none", "hurt", "notitle", "whole"}] :
        dirs' = [b \in Books |-> IF b \in unsynced THEN left[b] ELSE dirs[b]]
    /\ unsynced' = {} /\ library' = NoOne
    /\ pubs' = [p \in Publishers |-> Idle] /\ callers' = [c \in Callers |-> Out]
    /\ UNCHANGED <<kind, catalog, menus, pending, prompts, ops>>

Publish(p) ==
    \/ StartPrepare(p) \/ StartImport(p) \/ StartMenus(p) \/ Busy(p) \/ Lock(p)
    \/ pubs[p].op # "refresh" /\ StageImport(p)
    \/ PublishTree(p) \/ MenuRefresh(p) \/ PrepareEdition(p) \/ MakePrompts(p) \/ BuildMenus(p) \/ PublishMenus(p)
    \/ PublishCatalog(p) \/ CatalogFails(p) \/ RetireStaleMenus(p)
    \/ StartRefresh(p) \/ ReapPodcasts(p) \/ Reaped(p) \/ StagePodcast(p) \/ PreparePodcasts(p)
    \/ Crash(p)

Listen(c) == Enter(c) \/ Choose(c) \/ Back(c) \/ HangUp(c)

Next ==
    \/ \E p \in Publishers : Publish(p) /\ UNCHANGED <<kind, callers, powerLost>>
    \/ \E c \in Callers : Listen(c) /\ UNCHANGED <<kind, disk, library, pubs, ops, powerLost>>
    \/ PowerLoss

Spec == Init /\ [][Next]_vars

-----------------------------------------------------------------------------
\* What a caller listens to is on the disk, every chapter of it, for as long as
\* they listen; and until the power fails the catalog names nothing that is not.
ShelfIsWhole ==
    /\ \A c \in Callers : callers[c].at = "listening" => ChaptersReady(callers[c].book)
    /\ ~powerLost => \A b \in Load : ChaptersReady(b)

\* An import adds to the shelf: whoever else publishes meanwhile, no title leaves
\* it and no full recording gives way to a preview.
BooksStay ==
    \A p \in Publishers :
        pubs[p].op \in Imports /\ catalog' # catalog /\ pubs'[p].at = "retire" =>
            \A b \in Load : \E d \in catalog' : d.id = b.id /\ (d.preview => b.preview)
=============================================================================
