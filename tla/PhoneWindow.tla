----------------------------- MODULE PhoneWindow -----------------------------
(***************************************************************************)
(* The provisioning window (cmd/doorman: provision.go; internal/provision: *)
(* phone.go; internal/provision/serve: serve.go).  A command renders every *)
(* phone's configuration, opens a listener for a while, and waits until    *)
(* the phones it was told of have fetched theirs and registered again.     *)
(* What the listener sees reaches the command through a bounded queue that *)
(* drops when it is full; what Asterisk knows of a phone is polled.        *)
(***************************************************************************)
EXTENDS Naturals, FiniteSets, Sequences

CONSTANTS
    Handsets,       \* handset id -> [mac, model, secrets]: what the files say
    Templated,      \* the models with a template
    Addrs,          \* the addresses a phone may have
    QueueLimit,     \* the queue's capacity
    MaxFetches,     \* bound: fetches in all
    MaxTroubles     \* bound: crashes, unanswered polls

VARIABLES
    win,            \* the command: [at, named, notify, reader, progress]
    exit,           \* what the last command said: "none", "usage", "missing", "done"
    seen,           \* the phones that made first contact, on the disk
    contact,        \* phone -> the address of its first contact in this window
    queue,          \* the events on their way to the command
    crt, key,       \* the generation of the certificate's two files
    served,         \* what the listener presents: [crt, key]
    phone,          \* external: phone -> [addr, login, online]
    life,           \* what each phone did in this window: fetched, and gone since
    fetches, troubles

vars == <<win, exit, seen, contact, queue, crt, key, served, phone, life, fetches, troubles>>
desk == <<win, exit, queue>>
disk == <<seen, crt, key>>
outside == <<phone, life>>

Ids == DOMAIN Handsets
Closed == [at |-> "closed", named |-> {}, notify |-> FALSE, reader |-> FALSE, progress |-> <<>>]
Fresh == [fetched |-> FALSE, offline |-> FALSE, registered |-> FALSE]
Trouble == troubles < MaxTroubles /\ troubles' = troubles + 1
NoPair == [crt |-> 0, key |-> 0]

\* A phone takes part with a mac and a model that has a template; one that
\* takes part and misses a secret fails the whole build.
Provisioned == {p \in Ids : Handsets[p].mac /\ Handsets[p].model \in Templated}
Builds == \A p \in Provisioned : Handsets[p].secrets

Init ==
    /\ win = Closed /\ exit = "none" /\ seen = {} /\ contact = [p \in Ids |-> "none"]
    /\ queue = <<>> /\ crt = 0 /\ key = 0 /\ served = NoPair
    /\ phone \in [Ids -> {[addr |-> a, login |-> FALSE, online |-> o] : a \in Addrs, o \in BOOLEAN}]
    /\ \A p \in Ids \ Provisioned : ~phone[p].online
    /\ life = [p \in Ids |-> {}] /\ fetches = 0 /\ troubles = 0
-----------------------------------------------------------------------------
(* The command.                                                            *)

\* Nothing is served when the build fails or an unknown phone is named.
Refuse(named) ==
    /\ win.at = "closed" /\ exit' = "usage" /\ (~Builds \/ ~(named \subseteq Provisioned))
    /\ UNCHANGED <<win, disk, contact, queue, served, outside, fetches, troubles>>

Forget(named) == seen \ named

\* The files are written, --reset forgets first contacts, and the listener
\* gets its certificate.
Open(named, notify, reader, reset) ==
    /\ win.at = "closed" /\ Builds /\ named # {} /\ named \subseteq Provisioned
    /\ win' = [at |-> "cert", named |-> named, notify |-> notify, reader |-> reader,
               progress |-> [p \in named |-> Fresh]]
    /\ seen' = IF reset THEN Forget(named) ELSE seen
    /\ contact' = [p \in Ids |-> "none"] /\ queue' = <<>> /\ exit' = "none"
    /\ life' = [p \in Ids |-> {}]
    /\ UNCHANGED <<crt, key, served, phone, fetches, troubles>>

\* The pair on the disk is used when it fits and lasts; else a new one is
\* written, certificate first.
PairFits == crt # 0 /\ crt = key
Certificate ==
    /\ win.at = "cert"
    /\ IF PairFits
          THEN /\ served' = [crt |-> crt, key |-> key] /\ win' = [win EXCEPT !.at = "open"]
               /\ UNCHANGED crt
          ELSE /\ crt' = key + 1 /\ win' = [win EXCEPT !.at = "key"] /\ UNCHANGED served
    /\ UNCHANGED <<exit, seen, contact, queue, key, outside, fetches, troubles>>

WriteKey ==
    /\ win.at = "key" /\ key' = crt /\ served' = [crt |-> crt, key |-> crt]
    /\ win' = [win EXCEPT !.at = "open"]
    /\ UNCHANGED <<exit, seen, contact, queue, crt, outside, fetches, troubles>>

Missing == {p \in win.named :
    ~win.progress[p].fetched \/ (win.reader /\ ~win.progress[p].registered)}
AllDone == Missing = {}
Finish ==
    /\ win' = [win EXCEPT !.at = "closed"] /\ served' = NoPair
    /\ exit' = IF AllDone THEN "done" ELSE "missing"

\* The next event; only a fetched one counts, and only of a named phone.
ReadEvent ==
    /\ win.at = "open" /\ ~AllDone /\ queue # <<>> /\ queue' = Tail(queue)
    /\ LET p == Head(queue).phone IN
       win' = IF p \in win.named /\ Head(queue).kind = "fetched"
              THEN [win EXCEPT !.progress[p].fetched = TRUE] ELSE win
    /\ UNCHANGED <<exit, disk, contact, served, outside, fetches, troubles>>

\* readRegistration: Asterisk may not answer in time.
Due(p) == win.progress[p].fetched /\ ~win.progress[p].registered /\ win.reader
Unanswered == Trouble /\ UNCHANGED win

\* Mutant of Poll: online is registered again, notified or not.
PollOnline(p) ==
    /\ win.at = "open" /\ p \in win.named /\ Due(p) /\ phone[p].online
    /\ win' = [win EXCEPT !.progress[p].registered = TRUE] /\ UNCHANGED troubles
    /\ UNCHANGED <<exit, disk, contact, queue, served, outside, fetches>>

\* After a notify the phone restarts to apply: it counts once it was gone.
Poll(p) ==
    /\ win.at = "open" /\ p \in win.named /\ Due(p)
    /\ \/ Unanswered
       \/ /\ win.notify /\ ~win.progress[p].offline /\ ~phone[p].online
          /\ win' = [win EXCEPT !.progress[p].offline = TRUE] /\ UNCHANGED troubles
       \/ /\ win.notify => win.progress[p].offline
          /\ phone[p].online
          /\ win' = [win EXCEPT !.progress[p].registered = TRUE] /\ UNCHANGED troubles
    /\ UNCHANGED <<exit, disk, contact, queue, served, outside, fetches>>

\* Done, or out of time, interrupted, or the listener failed.
Close ==
    /\ win.at = "open" /\ Finish
    /\ UNCHANGED <<disk, contact, queue, outside, fetches, troubles>>

Crash ==
    /\ win.at # "closed" /\ Trouble /\ win' = Closed /\ served' = NoPair /\ exit' = "none" /\ queue' = <<>>
    /\ UNCHANGED <<disk, contact, outside, fetches>>
-----------------------------------------------------------------------------
(* The listener.                                                           *)

Emit(kind, p) == queue' = IF Len(queue) < QueueLimit THEN Append(queue, [kind |-> kind, phone |-> p])
                          ELSE queue
Leaves(p) == life' = IF "fetched" \in life[p] THEN [life EXCEPT ![p] = @ \cup {"gone"}] ELSE life

Authorised(p) == phone[p].login
SameContact(p) == contact[p] = phone[p].addr
MarkSeen(p) == seen' = seen \cup {p}
MarkContact(p) ==
    contact' = IF contact[p] = "none" THEN [contact EXCEPT ![p] = phone[p].addr] ELSE contact
Welcome(p) == p \notin seen \/ Authorised(p) \/ SameContact(p)

\* A phone the files do not have, and one that must present its login first.
Challenge(p) ==
    /\ win.at = "open" /\ fetches < MaxFetches /\ fetches' = fetches + 1
    /\ p \notin Provisioned \/ ~Welcome(p)
    /\ Emit(IF p \in Provisioned THEN "unauthorized" ELSE "refused", p)
    /\ UNCHANGED <<win, exit, disk, contact, served, outside, troubles>>

\* The configuration carries the phone's login; the first contact of the
\* window is remembered by its address, the first of all on the disk.
Fetch(p) ==
    /\ win.at = "open" /\ p \in Provisioned /\ Welcome(p)
    /\ fetches < MaxFetches /\ fetches' = fetches + 1
    /\ phone' = [phone EXCEPT ![p].login = TRUE]
    /\ MarkSeen(p) /\ MarkContact(p) /\ Emit("fetched", p)
    /\ life' = [life EXCEPT ![p] = @ \cup {"fetched"} \cup (IF phone[p].online THEN {} ELSE {"gone"})]
    /\ UNCHANGED <<win, exit, crt, key, served, troubles>>

\* external: the phone restarts, comes back, or is set to factory defaults.
GoesOffline(p) ==
    /\ phone[p].online /\ phone' = [phone EXCEPT ![p].online = FALSE]
    /\ Leaves(p) /\ UNCHANGED <<desk, disk, contact, served, fetches, troubles>>

Registers(p) ==
    /\ ~phone[p].online /\ phone' = [phone EXCEPT ![p].online = TRUE]
    /\ UNCHANGED <<desk, disk, contact, served, life, fetches, troubles>>

FactoryReset(p) ==
    /\ phone[p].login /\ \E a \in Addrs : phone' = [phone EXCEPT ![p] = [addr |-> a, login |-> FALSE, online |-> FALSE]]
    /\ Leaves(p) /\ UNCHANGED <<desk, disk, contact, served, fetches, troubles>>

Next ==
    \/ \E n \in SUBSET Ids : Refuse(n) \/ \E y, r, z \in BOOLEAN : Open(n, y, r, z)
    \/ Certificate \/ WriteKey \/ ReadEvent \/ Close \/ Crash
    \/ \E p \in Ids : Challenge(p)
    \/ \E p \in Provisioned : Poll(p) \/ Fetch(p) \/ GoesOffline(p) \/ Registers(p) \/ FactoryReset(p)

Spec == Init /\ [][Next]_vars

TypeOK ==
    /\ win.at \in {"closed", "cert", "key", "open"} /\ win.named \subseteq Ids
    /\ seen \subseteq Ids /\ Len(queue) <= QueueLimit /\ fetches \in 0 .. MaxFetches
-----------------------------------------------------------------------------
\* "n of n handsets registered": every phone the command named fetched its
\* configuration in this very window and, after a notify, was gone since.
ExitIsTrue ==
    exit = "done" => \A p \in win.named :
        /\ "fetched" \in life[p]
        /\ (win.notify /\ win.reader) => "gone" \in life[p]

\* The listener presents a certificate with its own key.
PairIsServed == served.crt = served.key /\ (win.at = "open" => served # NoPair)
=============================================================================
