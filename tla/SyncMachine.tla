----------------------------- MODULE SyncMachine -----------------------------
(***************************************************************************)
(* The household's side of the account: a pass of the sync machine fetches *)
(* the commands a person queued on the web, applies each to the box's own  *)
(* files and answers it (internal/syncmachine: apply.go, store.go,         *)
(* transport.go, the atomic writers of patch.go and the acceptance rule of *)
(* files.go).  The files are the authority; the ledger holds each command's*)
(* intent, recorded before the disk is touched, and its receipt.           *)
(*                                                                         *)
(* Two files stand for all: `own`, the inventory (which handset names the  *)
(* account's book, and a text a person also edits), and `book`, one book   *)
(* the account delivers (0: not held).  A content is its own hash.  A      *)
(* person edits both at any time, and the process may stop anywhere.       *)
(***************************************************************************)
EXTENDS Naturals, Sequences, FiniteSets, SequencesExt

CONSTANTS
    Items,         \* the commands queued, each proposed once
    Verbs,         \* [Items -> Seq(verb)]
    Kept,          \* revisions remembered (keptRevisions: 1000)
    MaxEdits,      \* bound: edits by a person
    MaxMishaps     \* bound: crashes, lost calls, failed writes, lost ledgers,
                   \* commands that expire

VARIABLES
    files,         \* [own, book] on disk
    running,       \* the files the daemon has loaded
    echo,          \* generation, revision and the configuration recorded
    revisions,     \* box digest of the last Kept revisions
    ledger,        \* commands: receipt and intent
    pass,          \* where Exchange is
    published,     \* the snapshot this process knows the service has
    service,       \* external: the snapshot, and for each item its proposal
    edits, mishaps, raced

disk == <<echo, revisions, ledger>>
budget == <<edits, mishaps>>
vars == <<files, running, disk, pass, published, service, budget, raced>>

None == "none"
Idle == [at |-> "idle"]

\* What observe accepts: a file a person broke, or a handset that names a book
\* the box does not hold, is refused and the last good revision stays.
Valid(f) == f.own.ok /\ (f.own.names => f.book # 0)

Init ==
    /\ files = [own |-> [names |-> FALSE, text |-> 0, ok |-> TRUE], book |-> 0]
    /\ running = files
    /\ echo = [gen |-> 1, rev |-> 1, config |-> {files}]
    /\ revisions = {[rev |-> 1, digest |-> files.own]}
    /\ ledger = [i \in {} |-> {}]
    /\ pass = Idle /\ published = <<>>
    /\ LET snap == [gen |-> 1, rev |-> 1, own |-> files.own] IN
           service = [snap |-> snap, item |-> [i \in Items |->
               [state |-> "unborn", base |-> snap, expired |-> FALSE, answer |-> None]]]
    /\ edits = 0 /\ mishaps = 0 /\ raced = FALSE
-----------------------------------------------------------------------------
(* The ledger's records of what is observed.                               *)

\* A configuration that differs makes a revision; the history is bounded.
Recorded(f) ==
    LET e == IF echo.config = {f} THEN echo
             ELSE [echo EXCEPT !.rev = @ + 1, !.config = {f}]
    IN  [echo |-> e, revisions |-> {r \in revisions \cup {[rev |-> e.rev, digest |-> f.own]} :
                                        r.rev + Kept >= e.rev /\ (r.rev = e.rev => r.digest = f.own)}]

Record(f) == echo' = Recorded(f).echo /\ revisions' = Recorded(f).revisions

\* The base describes the box's own files: the same revision, or one that
\* differs only in delivered books.
SameBase(base, f) ==
    \/ base = Recorded(f).echo.rev
    \/ \E r \in Recorded(f).revisions : r.rev = base /\ r.digest = f.own

\* The watcher, once a second and never inside Apply.
Applying == pass.at \in {"plan", "write", "rename", "finish"}

Observe ==
    /\ ~Applying
    /\ Valid(files)
    /\ Record(files)
    /\ UNCHANGED <<files, running, ledger, pass, published, service, budget, raced>>
-----------------------------------------------------------------------------
(* Planning.                                                               *)

OwnVerb(v) == v.does \in {"select", "unselect"}
NeedsBase(i) == \E k \in DOMAIN Verbs[i] : OwnVerb(Verbs[i][k])

Refused(why) == [refused |-> why, view |-> files, order |-> <<>>]
Touched(order, p) == IF Contains(order, p) THEN order ELSE Append(order, p)

SelectBooks(p, names) ==
    [p EXCEPT !.view.own.names = names, !.order = Touched(@, "own")]

\* A delivery names the copy it replaces, a removal the revision it removes;
\* both are idempotent over their own result.
PutBook(p, v) ==
    IF (p.view.book = 0 /\ v.before # 0) \/ p.view.book \notin {0, v.to, v.before}
    THEN Refused("conflict")
    ELSE [p EXCEPT !.view.book = v.to, !.order = Touched(@, "book")]

RemoveBook(p, v) ==
    IF p.view.book = 0 THEN p
    ELSE IF p.view.book = v.before THEN [p EXCEPT !.view.book = 0, !.order = Touched(@, "book")]
    ELSE Refused("conflict")

\* The verbs in order, each over what the ones before it did.
Plan(i, f) ==
    FoldLeft(LAMBDA p, v :
                IF p.refused # None THEN p
                ELSE CASE OwnVerb(v) -> SelectBooks(p, v.does = "select")
                       [] v.does = "put" -> PutBook(p, v)
                       [] v.does = "remove" -> RemoveBook(p, v),
             [refused |-> None, view |-> f, order |-> <<>>], Verbs[i])

Intent(p, f) ==
    SelectSeq([k \in DOMAIN p.order |-> [path |-> p.order[k], before |-> f[p.order[k]],
                                         after |-> p.view[p.order[k]]]],
              LAMBDA w : w.before # w.after)

Accepted(p) == Valid(p.view)

Landed(i, f) ==
    ledger[i].intent # <<>> /\ \A k \in DOMAIN ledger[i].intent :
        f[ledger[i].intent[k].path] = ledger[i].intent[k].after
-----------------------------------------------------------------------------
(* Apply.                                                                  *)

NewRow == [receipt |-> None, rev |-> 0, intent |-> <<>>]
Answer(i, status) == ledger' = [ledger EXCEPT ![i].receipt = status, ![i].rev = echo'.rev]
Abandon(i, status) == ledger' = [ledger EXCEPT ![i] = [NewRow EXCEPT !.receipt = status]]
Answering == pass' = [pass EXCEPT !.at = "latest"]
Stop == pass' = Idle
SavedOrApplied(f) == IF running = f THEN "applied" ELSE "saved"

\* The row is inserted before anything else; a receipt that is not `saved` is
\* final.  Files observe refuses give no answer: the item comes back.
Look ==
    /\ pass.at = "apply"
    /\ LET i == Head(pass.list)
           known == IF i \in DOMAIN ledger THEN ledger
                    ELSE [j \in DOMAIN ledger \cup {i} |-> IF j = i THEN NewRow
                                                           ELSE ledger[j]]
           receipt == known[i].receipt
       IN  \/ /\ receipt \notin {None, "saved"}
              /\ Answering /\ UNCHANGED disk
           \/ /\ receipt \in {None, "saved"} /\ ~Valid(files)
              /\ IF receipt = "saved" THEN Answering ELSE Stop
              /\ ledger' = known /\ UNCHANGED <<echo, revisions>>
           \/ /\ receipt = "saved" /\ Valid(files)
              /\ Record(files) /\ Answering
              /\ IF Landed(i, files) /\ running = files
                 THEN ledger' = [ledger EXCEPT ![i].receipt = "applied"]
                 ELSE UNCHANGED ledger
           \/ /\ receipt = None /\ Valid(files)
              /\ Record(files)
              /\ IF echo.gen # service.item[i].base.gen
                 THEN Answering /\ ledger' = [known EXCEPT ![i].receipt = "stale"]
                 ELSE IF i \in DOMAIN ledger /\ Landed(i, files)
                 THEN Answering /\ Answer(i, SavedOrApplied(files))
                 ELSE /\ ledger' = known
                      /\ pass' = [pass EXCEPT !.at = "plan", !.saw = files]
    /\ UNCHANGED <<files, running, published, service, budget, raced>>

\* A replay: each target holds what was there or what was written, and the
\* plan over them arrives at the same result.
Resumable(i, f) ==
    /\ \A k \in DOMAIN ledger[i].intent :
           f[ledger[i].intent[k].path] \in {ledger[i].intent[k].before, ledger[i].intent[k].after}
    /\ Plan(i, f).refused = None
    /\ \A k \in DOMAIN ledger[i].intent :
           Plan(i, f).view[ledger[i].intent[k].path] = ledger[i].intent[k].after

Writing(i, intent) == pass' = [pass EXCEPT !.at = IF intent = <<>> THEN "finish" ELSE "write", !.left = intent]

PlanAgain ==
    /\ pass.at = "plan"
    /\ LET i == Head(pass.list) IN
       /\ ledger[i].intent # <<>>
       /\ IF Resumable(i, pass.saw)
          THEN Writing(i, SelectSeq(ledger[i].intent, LAMBDA w : pass.saw[w.path] # w.after))
               /\ UNCHANGED ledger
          ELSE Answering /\ Abandon(i, IF Plan(i, pass.saw).refused # None
                                       THEN Plan(i, pass.saw).refused ELSE "conflict")
    /\ UNCHANGED <<files, running, echo, revisions, published, service, budget, raced>>

PlanFirst ==
    /\ pass.at = "plan"
    /\ LET i == Head(pass.list)
           p == Plan(i, pass.saw)
           intent == Intent(p, pass.saw)
           refused == IF NeedsBase(i) /\ ~SameBase(service.item[i].base.rev, pass.saw) THEN "conflict"
                      ELSE IF service.item[i].expired THEN "stale"
                      ELSE IF p.refused # None THEN p.refused
                      ELSE IF intent # <<>> /\ ~Accepted(p) THEN "rejected"
                      ELSE IF intent # <<>> /\ files # pass.saw THEN "conflict"
                      ELSE None
       IN  /\ ledger[i].intent = <<>>
           /\ UNCHANGED <<echo, revisions>>
           /\ IF refused # None THEN Answering /\ Answer(i, refused)
              ELSE Writing(i, intent) /\ ledger' = [ledger EXCEPT ![i].intent = intent]
    /\ UNCHANGED <<files, running, published, service, budget, raced>>

Unchanged(w) == files[w.path] = w.before

\* A file is replaced or removed only if it still holds what was read.
Compare ==
    /\ pass.at = "write"
    /\ LET w == Head(pass.left) IN
       IF Unchanged(w) THEN pass' = [pass EXCEPT !.at = "rename"] /\ UNCHANGED ledger
       ELSE Answering /\ Abandon(Head(pass.list), "conflict")
    /\ raced' = FALSE
    /\ UNCHANGED <<files, running, echo, revisions, published, service, budget>>

\* The rename, or the link that creates a book and fails if one appeared.  A
\* directory that refuses the temporary file is a final answer; one whose
\* fsync fails after the rename leaves the intent to the next pass.
Appeared(w) == w.path = "book" /\ w.before = 0 /\ files.book # 0

Rename ==
    /\ pass.at = "rename"
    /\ LET w == Head(pass.left) IN
       \/ /\ ~Appeared(w)
          /\ files' = [files EXCEPT ![w.path] = w.after]
          /\ \/ /\ pass' = [pass EXCEPT !.left = Tail(@), !.at = IF Tail(pass.left) = <<>> THEN "finish" ELSE "write"]
                /\ UNCHANGED mishaps
             \/ mishaps < MaxMishaps /\ mishaps' = mishaps + 1 /\ Stop
          /\ UNCHANGED ledger
       \/ /\ Appeared(w)
          /\ Answering /\ Abandon(Head(pass.list), "conflict")
          /\ UNCHANGED <<files, mishaps>>
       \/ /\ mishaps < MaxMishaps /\ mishaps' = mishaps + 1
          /\ Answering /\ Abandon(Head(pass.list), "failed")
          /\ UNCHANGED files
    /\ UNCHANGED <<running, echo, revisions, published, service, edits, raced>>

Finish ==
    /\ pass.at = "finish"
    /\ LET i == Head(pass.list) IN
       IF ~Valid(files) THEN Stop /\ UNCHANGED disk
       ELSE /\ Record(files) /\ Answering
            /\ Answer(i, IF \A k \in DOMAIN ledger[i].intent :
                               files[ledger[i].intent[k].path] = ledger[i].intent[k].after
                         THEN SavedOrApplied(files) ELSE "conflict")
    /\ UNCHANGED <<files, running, published, service, budget, raced>>
-----------------------------------------------------------------------------
(* Exchange.  A call the service never answers ends the pass.              *)

Key(s) == <<s.gen, s.rev>>
Snapshot(e) == [gen |-> e.gen, rev |-> e.rev, own |-> (CHOOSE f \in e.config : TRUE).own]

\* Observe, or the last good snapshot; with neither there is no pass.
Begin ==
    /\ pass.at = "idle"
    /\ IF Valid(files) THEN Record(files) ELSE UNCHANGED <<echo, revisions>>
    /\ echo'.config # {}
    /\ pass' = [at |-> "publish", snap |-> Snapshot(echo'),
                list |-> <<>>, saw |-> files, left |-> <<>>]
    /\ UNCHANGED <<files, running, ledger, published, service, budget, raced>>

Latest ==
    /\ pass.at = "latest"
    /\ pass' = [pass EXCEPT !.at = "publish", !.snap = Snapshot(echo)]
    /\ UNCHANGED <<files, running, disk, published, service, budget, raced>>

\* Mutant of Known: A pass publishes only once.
KnownOnce(s) == published # <<>>
Known(s) == published = Key(s)

\* A snapshot the service has already accepted is not sent again for a while.
Publish ==
    /\ pass.at = "publish"
    /\ pass' = [pass EXCEPT !.at = IF pass.list = <<>> THEN "queue" ELSE "receipt"]
    /\ IF Known(pass.snap) THEN UNCHANGED <<published, service>>
       ELSE published' = Key(pass.snap) /\ service' = [service EXCEPT !.snap = pass.snap]
    /\ UNCHANGED <<files, running, disk, budget, raced>>

\* External: the service offers what is not expired and not finally answered.
Offered == {i \in Items : LET s == service.item[i] IN
                s.state = "queued" /\ ~s.expired /\ s.answer \in {None, "saved"}}

Fetch ==
    /\ pass.at = "queue"
    /\ \E list \in SetToSeqs(Offered) :
           pass' = IF list = <<>> THEN Idle ELSE [pass EXCEPT !.at = "apply", !.list = list]
    /\ UNCHANGED <<files, running, disk, published, service, budget, raced>>

\* External: the first answer is taken, a saved one may become applied; any
\* other difference is reported back, and the pass goes on.
Take(i, status) ==
    service' = [service EXCEPT !.item[i].answer =
                    IF @ = None \/ (@ = "saved" /\ status = "applied") THEN status ELSE @]

Receipt ==
    /\ pass.at = "receipt"
    /\ LET i == Head(pass.list) IN Take(i, ledger[i].receipt)
    /\ pass' = IF Tail(pass.list) = <<>> THEN Idle
               ELSE [pass EXCEPT !.at = "apply", !.list = Tail(@)]
    /\ UNCHANGED <<files, running, disk, published, budget, raced>>

Mishap == mishaps < MaxMishaps /\ mishaps' = mishaps + 1

\* The service took the call, or did not, and the reply is lost.
CallLost ==
    /\ Mishap
    /\ pass.at \in {"publish", "queue", "receipt"}
    /\ Stop
    /\ published' = IF pass.at = "publish" THEN <<>> ELSE published
    /\ \/ UNCHANGED service
       \/ pass.at = "publish" /\ service' = [service EXCEPT !.snap = pass.snap]
       \/ pass.at = "receipt" /\ Take(Head(pass.list), ledger[Head(pass.list)].receipt)
    /\ UNCHANGED <<files, running, disk, edits, raced>>

Crash ==
    /\ Mishap
    /\ pass # Idle
    /\ Stop /\ published' = <<>>
    /\ UNCHANGED <<files, running, disk, service, edits, raced>>

\* state/sync is not in a backup: a box restored from one starts a generation.
NewGeneration ==
    /\ Mishap
    /\ echo' = [gen |-> echo.gen + 1, rev |-> 0, config |-> {}]
    /\ revisions' = {} /\ ledger' = [i \in {} |-> {}]
    /\ Stop /\ published' = <<>>
    /\ UNCHANGED <<files, running, service, edits, raced>>
-----------------------------------------------------------------------------
(* The person, on the web and at the box, the clock and the daemon.        *)

\* External: one change to the box's own files is pending at a time.
Propose(i) ==
    /\ service.item[i].state = "unborn"
    /\ NeedsBase(i) => \A j \in Items : NeedsBase(j) =>
           \/ service.item[j].state = "unborn"
           \/ service.item[j].expired \/ service.item[j].answer # None
    /\ service' = [service EXCEPT !.item[i].state = "queued", !.item[i].base = service.snap]
    /\ UNCHANGED <<files, running, disk, pass, published, budget, raced>>

Expire(i) ==
    /\ service.item[i].state = "queued" /\ ~service.item[i].expired
    /\ Mishap
    /\ service' = [service EXCEPT !.item[i].expired = TRUE]
    /\ UNCHANGED <<files, running, disk, pass, published, edits, raced>>

\* `raced`: an edit between the comparison and the rename.
Edit ==
    /\ edits < MaxEdits /\ edits' = edits + 1
    /\ \/ \E text \in 0..1, ok \in BOOLEAN :
              files' = [files EXCEPT !.own.text = text, !.own.ok = ok]
       \/ files.book # 0 /\ files' = [files EXCEPT !.book = 9]
    /\ files' # files
    /\ raced' = (raced \/ pass.at = "rename")
    /\ UNCHANGED <<running, disk, pass, published, service, mishaps>>

Reload ==
    /\ Valid(files) /\ running # files
    /\ running' = files
    /\ UNCHANGED <<files, disk, pass, published, service, budget, raced>>

Machine == Begin \/ Publish \/ Fetch \/ Look \/ PlanAgain \/ PlanFirst \/ Compare \/ Rename
           \/ Finish \/ Latest \/ Receipt

Next ==
    \/ Machine \/ Observe
    \/ CallLost \/ Crash \/ NewGeneration
    \/ \E i \in Items : Propose(i) \/ Expire(i)
    \/ Edit \/ Reload

Spec == Init /\ [][Next]_vars /\ WF_vars(Machine)
-----------------------------------------------------------------------------
(* Properties.                                                             *)

Statuses == {None, "saved", "applied", "rejected", "conflict", "stale", "failed"}

TypeOK ==
    /\ files.own.names \in BOOLEAN /\ files.book \in Nat
    /\ \A i \in DOMAIN ledger : i \in Items /\ ledger[i].receipt \in Statuses
    /\ Cardinality(revisions) <= Kept + 1 /\ edits <= MaxEdits /\ mishaps <= MaxMishaps

MachineWrites == files' # files /\ edits' = edits

\* No verb of the box's own files comes before a delivery or after a removal:
\* the order in which the comments of apply.go:79-81 and 245-247 hold.
BooksFirst(i) ==
    \A k, l \in DOMAIN Verbs[i] : k < l =>
        /\ ~(OwnVerb(Verbs[i][k]) /\ Verbs[i][l].does = "put")
        /\ ~(Verbs[i][k].does = "remove" /\ OwnVerb(Verbs[i][l]))

Dangling(f) == f.own.names /\ f.book = 0

\* However a command of several files stops part way, crash, refused write or
\* replay, it leaves no handset naming a book the box does not hold, if its verbs
\* come books first.  Files are written in the order the verbs touch them and
\* nothing checks that order: a command in the other one is the only thing that
\* may leave such a handset, and then only by its own first write.
NamedBooksAreHeld ==
    ~Dangling(files) /\ Dangling(files') =>
        /\ MachineWrites /\ ~BooksFirst(Head(pass.list))
        /\ ~Dangling(Plan(Head(pass.list), files).view)

\* The machine changes the box's own file only over the content its author saw,
\* and a book only over the copy the delivery named: an edit made at the box
\* before the file was compared is never lost, replay or not.
LocalWorkIsKept ==
    MachineWrites /\ ~raced =>
        LET i == Head(pass.list) IN
        /\ files'.own # files.own => files.own = service.item[i].base.own
        /\ files'.book # files.book => files.book # 9

\* Nothing the service was told is taken back while the ledger lives: its
\* answer is the ledger's, or the saved one the ledger has since upgraded.
AnswersStand ==
    \A i \in Items : LET told == service.item[i].answer IN
        (told # None /\ i \in DOMAIN ledger /\ service.item[i].base.gen = echo.gen) =>
            ledger[i].receipt = told \/ (told = "saved" /\ ledger[i].receipt = "applied")

\* When the service learns that a command was saved it already has a snapshot
\* that holds it: the next proposal is based on the new configuration.
SnapshotBeforeReceipt ==
    \A i \in Items : service'.item[i].answer # service.item[i].answer
                          /\ service'.item[i].answer \in {"saved", "applied"} =>
        service.snap.gen = echo.gen /\ service.snap.rev >= ledger[i].rev

\* The same edit is never made twice: once a command's write has landed and been
\* answered, the machine does not touch a file for it again.
AppliedAtMostOnce ==
    MachineWrites =>
        LET i == Head(pass.list) IN ledger[i].receipt = None /\ service.item[i].answer = None

\* While the files stay readable, a queued command is answered or expires.
QueuedIsAnswered ==
    \A i \in Items :
        (service.item[i].state = "queued") ~>
            (service.item[i].answer # None \/ service.item[i].expired \/ ~Valid(files))
=============================================================================
