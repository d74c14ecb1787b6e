--------------------------- MODULE MediaDelivery ---------------------------
(***************************************************************************)
(* Bought and preview media (internal/mediadelivery, internal/account      *)
(* media.go, cmd/doorman/sync.go).  A pass of the command lists the        *)
(* deliveries of each of its sources and takes each one from the offer to  *)
(* the library, telling the store every step with a numbered receipt that  *)
(* is on the disk before it is sent.  Requests and answers are lost, disks *)
(* fail, processes die between any two steps, and passes overlap.          *)
(***************************************************************************)
EXTENDS Naturals, Sequences, FiniteSets

CONSTANTS
    Sources,        \* what a pass asks for, in order: sequences of deliveries
    Bad,            \* deliveries no importer takes
    Passes,         \* processes
    MaxSeq,         \* bound: receipts of one delivery when a pass begins
    MaxFaults       \* bound

Deliveries == UNION {{Sources[i][j] : j \in DOMAIN Sources[i]} : i \in DOMAIN Sources}
None == [num |-> 0, st |-> "none"]

VARIABLES
    server,         \* external: delivery -> the store's [num, st]
    outbox,         \* delivery -> the receipt file, or None
    library,        \* what was imported
    archives,       \* passes whose download is on the disk
    lock,
    pass,           \* process -> [at, titles, todo, listed, num, st, next, clean]
    stuck,          \* deliveries a pass could not reconcile
    faults

vars == <<server, outbox, library, archives, lock, pass, stuck, faults>>

Idle == [at |-> "idle", titles |-> <<>>, todo |-> <<>>, listed |-> [d \in Deliveries |-> None],
         num |-> 0, st |-> "none", next |-> "none", clean |-> TRUE]
Fault == faults < MaxFaults /\ faults' = faults + 1
NoFault == UNCHANGED faults

Init ==
    /\ server = [d \in Deliveries |-> [num |-> 0, st |-> "offered"]]
    /\ outbox = [d \in Deliveries |-> None] /\ library = {} /\ archives = {} /\ lock = "none"
    /\ pass = [p \in Passes |-> Idle] /\ stuck = {} /\ faults = 0
-----------------------------------------------------------------------------
At(p, label) == pass[p].at = label
Go(p, r) == pass' = [pass EXCEPT ![p] = r]
Item(p) == Head(pass[p].todo)

\* The pass over one source ends; the next source is opened afresh.
Leave(p, clean) ==
    /\ Go(p, [Idle EXCEPT !.at = "open", !.titles = Tail(pass[p].titles), !.clean = pass[p].clean /\ clean])
    /\ lock' = "none" /\ archives' = archives \ {p}
Report(p, state) == [pass[p] EXCEPT !.at = "save", !.next = state]

Begin(p) ==
    /\ At(p, "idle") /\ (\A d \in Deliveries : server[d].num < MaxSeq)
    /\ Go(p, [Idle EXCEPT !.at = "open", !.titles = Sources])
    /\ UNCHANGED <<server, outbox, library, archives, lock, stuck, faults>>

\* The journal's lock is not waited for; a holder removes abandoned archives.
Open(p) ==
    /\ At(p, "open") /\ UNCHANGED <<server, outbox, library, stuck, faults>>
    /\ IF pass[p].titles = <<>> THEN Go(p, Idle) /\ UNCHANGED <<archives, lock>>
       ELSE IF lock = "none" THEN Go(p, [pass[p] EXCEPT !.at = "list"]) /\ lock' = p /\ archives' = {}
       ELSE Go(p, [pass[p] EXCEPT !.titles = Tail(@), !.clean = FALSE]) /\ UNCHANGED <<archives, lock>>

List(p) ==
    /\ At(p, "list") /\ UNCHANGED <<server, outbox, library, stuck>>
    /\ \/ /\ NoFault /\ UNCHANGED <<archives, lock>>
          /\ Go(p, [pass[p] EXCEPT !.at = "next", !.todo = Head(pass[p].titles), !.listed = server])
       \/ Fault /\ Leave(p, FALSE)

\* What the store and the outbox agree on; installed is the end.
Proceed(p, last) ==
    Go(p, IF last.st = "installed" THEN [pass[p] EXCEPT !.at = "next", !.todo = Tail(@)]
          ELSE [pass[p] EXCEPT !.at = "save", !.num = last.num, !.st = last.st, !.next = "downloading"])

Done(p) == At(p, "next") /\ pass[p].todo = <<>> /\ Leave(p, TRUE) /\ UNCHANGED <<server, outbox, library, stuck, faults>>

Reconcile(p) ==
    /\ At(p, "next") /\ pass[p].todo # <<>> /\ UNCHANGED <<server, library, faults>>
    /\ LET d == Item(p) old == outbox[d] seen == pass[p].listed[d] IN
       \/ old = None /\ Proceed(p, seen) /\ UNCHANGED <<outbox, archives, lock, stuck>>
       \/ /\ old # None /\ (seen.num > old.num \/ (seen.num = old.num /\ seen.st # old.st))
          /\ stuck' = stuck \cup {d} /\ Leave(p, FALSE) /\ UNCHANGED outbox
       \/ /\ old # None /\ seen = old /\ Proceed(p, old) /\ outbox' = [outbox EXCEPT ![d] = None]
          /\ UNCHANGED <<archives, lock, stuck>>
       \/ /\ old # None /\ seen.num < old.num /\ Go(p, [pass[p] EXCEPT !.at = "resend"])
          /\ UNCHANGED <<outbox, archives, lock, stuck>>

\* external: the store takes the next receipt, and one it has again.
Takes(d, r) == r.num = server[d].num + 1 \/ r = server[d]
Accept(d, r) == server' = [server EXCEPT ![d] = r]

\* Receipt: it arrives and is answered, or it is lost, or its answer is.
Receipt(p, r, answered) ==
    LET d == Item(p) IN
    \/ Takes(d, r) /\ Accept(d, r) /\ NoFault /\ Go(p, answered) /\ UNCHANGED <<archives, lock>>
    \/ Takes(d, r) /\ Accept(d, r) /\ Fault /\ Leave(p, FALSE)
    \/ UNCHANGED server /\ Fault /\ Leave(p, FALSE)
    \/ ~Takes(d, r) /\ UNCHANGED server /\ NoFault /\ Leave(p, FALSE)

\* Mutant of Resend: an unanswered receipt is dropped and told afresh.
ResendAnew(p) ==
    /\ At(p, "resend") /\ outbox' = [outbox EXCEPT ![Item(p)] = None]
    /\ Proceed(p, pass[p].listed[Item(p)]) /\ UNCHANGED <<server, library, archives, lock, stuck, faults>>

Resend(p) ==
    /\ At(p, "resend") /\ LET d == Item(p) IN Receipt(p, outbox[d], [pass[p] EXCEPT !.at = "resent"])
    /\ UNCHANGED <<outbox, library, stuck>>
Resent(p) ==
    /\ At(p, "resent") /\ LET d == Item(p) IN Proceed(p, outbox[d]) /\ outbox' = [outbox EXCEPT ![d] = None]
    /\ UNCHANGED <<server, library, archives, lock, stuck, faults>>

\* report: the receipt is on the disk, then it is sent, then it is forgotten.
Save(p) ==
    /\ At(p, "save") /\ UNCHANGED <<server, library, stuck>>
    /\ \/ /\ NoFault /\ outbox' = [outbox EXCEPT ![Item(p)] = [num |-> pass[p].num + 1, st |-> pass[p].next]]
          /\ Go(p, [pass[p] EXCEPT !.at = "post"]) /\ UNCHANGED <<archives, lock>>
       \/ Fault /\ UNCHANGED outbox /\ Leave(p, FALSE)
Post(p) ==
    /\ At(p, "post") /\ Receipt(p, outbox[Item(p)], [pass[p] EXCEPT !.at = "forget"])
    /\ UNCHANGED <<outbox, library, stuck>>
Forget(p) ==
    LET s == pass[p].next told == [pass[p] EXCEPT !.num = @ + 1, !.st = s] IN
    /\ At(p, "forget") /\ outbox' = [outbox EXCEPT ![Item(p)] = None] /\ UNCHANGED <<server, library, stuck, faults>>
    /\ \/ s = "downloading" /\ Go(p, [told EXCEPT !.at = "fetch"]) /\ UNCHANGED <<archives, lock>>
       \/ s = "downloaded" /\ Go(p, [told EXCEPT !.at = "save", !.next = "installing"]) /\ UNCHANGED <<archives, lock>>
       \/ s = "installing" /\ Go(p, [told EXCEPT !.at = "install"]) /\ UNCHANGED <<archives, lock>>
       \/ /\ s = "installed" /\ Go(p, [told EXCEPT !.at = "next", !.todo = Tail(@)]) /\ archives' = archives \ {p}
          /\ UNCHANGED lock
       \/ s = "failed" /\ Leave(p, Item(p) \in Bad)

\* A private file first; then the whole archive with its size and hash.
Fetch(p) ==
    /\ At(p, "fetch") /\ archives' = archives \cup {p} /\ Go(p, [pass[p] EXCEPT !.at = "copy"])
    /\ UNCHANGED <<server, outbox, library, lock, stuck, faults>>
DownloadTo(p) ==
    /\ At(p, "copy") /\ UNCHANGED <<server, outbox, library, lock, stuck>>
    /\ \/ NoFault /\ UNCHANGED archives /\ Go(p, Report(p, "downloaded"))
       \/ Fault /\ archives' = archives \ {p} /\ Go(p, [Report(p, "failed") EXCEPT !.clean = FALSE])

\* install: atomic, and it may be done again; what no importer takes fails.
Install(p) ==
    /\ At(p, "install") /\ UNCHANGED <<server, outbox, archives, lock, stuck>>
    /\ \/ Item(p) \notin Bad /\ NoFault /\ library' = library \cup {Item(p)} /\ Go(p, Report(p, "installed"))
       \/ Item(p) \notin Bad /\ Fault /\ UNCHANGED library /\ Go(p, [Report(p, "failed") EXCEPT !.clean = FALSE])
       \/ Item(p) \in Bad /\ NoFault /\ UNCHANGED library /\ Go(p, Report(p, "failed"))

\* The process dies; its archive stays, and the kernel gives up its lock.
Dies(p) ==
    /\ ~At(p, "idle") /\ Fault /\ Go(p, Idle) /\ lock' = IF lock = p THEN "none" ELSE lock
    /\ UNCHANGED <<server, outbox, library, archives, stuck>>

Next ==
    \E p \in Passes :
        \/ Begin(p) \/ Open(p) \/ List(p) \/ Done(p) \/ Reconcile(p) \/ Resend(p) \/ Resent(p) \/ Save(p)
        \/ Post(p) \/ Forget(p) \/ Fetch(p) \/ DownloadTo(p) \/ Install(p) \/ Dies(p)

Spec == Init /\ [][Next]_vars

TypeOK ==
    /\ \A d \in Deliveries : server[d].num \in Nat /\ outbox[d].num \in Nat
    /\ lock \in Passes \cup {"none"} /\ library \subseteq Deliveries /\ archives \subseteq Passes
-----------------------------------------------------------------------------
\* "Installed" is told, and written down, of nothing the library has not.
InstalledIsTrue == \A d \in Deliveries : "installed" \in {server[d].st, outbox[d].st} => d \in library

\* However often processes die and messages are lost, the outbox and the
\* store never disagree: no pass stops for an operator.
NeverStuck == stuck = {}

\* Listed after one no importer takes: a pass over a source ends at the first
\* delivery that fails.
Behind == {d \in Deliveries : \E i \in DOMAIN Sources : \E j, k \in DOMAIN Sources[i] :
               j < k /\ Sources[i][j] \in Bad /\ Sources[i][k] = d}

\* A delivery that cannot be installed does not keep those of other sources out;
\* those listed after it in its own wait until it is gone, however often asked.
Independent ==
    \A p \in Passes : At(p, "open") /\ pass[p].titles = <<>> /\ pass[p].clean =>
        Deliveries \ (Bad \cup Behind) \subseteq library /\ Behind \cap library = {}

\* No more than one archive is on the disk, but for those of the dead that a
\* pass has yet to remove.
OneArchive == lock # "none" => archives \subseteq {lock}

\* The store reads one story per delivery: the steps in order, from the
\* download on after every interruption, and nothing after "installed".
OneStory ==
    \A d \in Deliveries : server'[d] # server[d] =>
        /\ server'[d].num = server[d].num + 1 /\ server[d].st # "installed"
        /\ \/ server'[d].st = "downloading"
           \/ <<server[d].st, server'[d].st>> \in
                {<<"downloading", "downloaded">>, <<"downloaded", "installing">>, <<"installing", "installed">>,
                 <<"downloading", "failed">>, <<"installing", "failed">>}

\* A completed installation is not repeated for a lost acknowledgement: its
\* receipt stays until the store has it, and then nothing is done again.
NotRepeated ==
    \A d \in Deliveries : outbox[d].st = "installed" => outbox'[d] = outbox[d] \/ server[d] = outbox[d]
=============================================================================
