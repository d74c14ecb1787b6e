-------------------------- MODULE SyncMachineProofs --------------------------
(***************************************************************************)
(* What the service is told of a command, for every queue of commands and  *)
(* whatever each of them does.  AppliedAtMostOnce looks one pass ahead: a  *)
(* receipt lost on its way brings the command back, and a ledger lost with *)
(* its disk forgets that it was ever made.  Inv says that whatever the     *)
(* service was told in this generation the ledger still knows, and that no *)
(* step between a command's look at the ledger and its receipt can meet    *)
(* another generation.                                                     *)
(***************************************************************************)
EXTENDS SyncMachine, FiniteSetTheorems, SequenceTheorems, TLAPS

\* A ledger is a table of rows, of revisions up to `top`.
Row(r) == r = [receipt |-> r.receipt, rev |-> r.rev, intent |-> r.intent]
Order(r) == r = [state |-> r.state, base |-> r.base, expired |-> r.expired, answer |-> r.answer]
Table(L, top) ==
    /\ L = [j \in DOMAIN L |-> L[j]] /\ DOMAIN L \subseteq Items
    /\ \A j \in DOMAIN L : Row(L[j]) /\ L[j].rev \in 0..top

Fields ==
    /\ service = [snap |-> service.snap, item |-> service.item]
    /\ DOMAIN service.item = Items /\ service.item = [i \in Items |-> service.item[i]]
    /\ \A i \in Items : Order(service.item[i])
    /\ echo = [gen |-> echo.gen, rev |-> echo.rev, config |-> echo.config]
    /\ \/ pass = Idle
       \/ /\ pass = [at |-> pass.at, snap |-> pass.snap, list |-> pass.list, saw |-> pass.saw, left |-> pass.left]
          /\ pass.at \in {"publish", "queue", "apply", "plan", "write", "rename", "finish", "latest", "receipt"}
          /\ pass.list \in Seq(Items)

Numbers ==
    /\ echo.gen \in Nat /\ echo.rev \in Nat
    /\ service.snap.gen \in Nat /\ service.snap.rev \in Nat
    /\ \A i \in Items : service.item[i].base.gen \in Nat
    /\ Table(ledger, echo.rev)
    /\ pass # Idle => pass.snap.gen \in Nat /\ pass.snap.rev \in Nat

\* Nothing is of a generation to come, and a pass is of the present one.
Generations ==
    /\ service.snap.gen <= echo.gen
    /\ \A i \in Items : service.item[i].base.gen <= echo.gen
    /\ pass # Idle => pass.snap.gen = echo.gen

\* What the service was told in this generation the ledger still knows.
Remembered ==
    \A i \in Items : LET told == service.item[i].answer IN
        /\ service.item[i].state = "unborn" => told = None
        /\ told # None /\ service.item[i].base.gen = echo.gen =>
               /\ i \in DOMAIN ledger
               /\ ledger[i].receipt = told \/ (told = "saved" /\ ledger[i].receipt = "applied")

\* The snapshot this process believes the service has is the one it has.
PublishedOK == published # <<>> => published = Key(service.snap)

\* Where a pass stands with the command in hand.
Undecided(i) ==
    i \in DOMAIN ledger /\ ledger[i].receipt = None /\ service.item[i].base.gen = echo.gen
Decided(i) == i \in DOMAIN ledger /\ ledger[i].receipt # None

PassOK ==
    pass # Idle =>
        /\ \A k \in DOMAIN pass.list : service.item[pass.list[k]].state # "unborn"
        /\ pass.list = <<>> => pass.at \in {"publish", "queue"}
        /\ Applying => Undecided(Head(pass.list))
        /\ pass.at = "latest" => Decided(Head(pass.list))
        /\ pass.at = "publish" /\ pass.list # <<>> =>
               Decided(Head(pass.list)) /\ ledger[Head(pass.list)].rev <= pass.snap.rev
        /\ pass.at = "receipt" =>
               /\ Decided(Head(pass.list))
               /\ service.snap.gen = echo.gen /\ ledger[Head(pass.list)].rev <= service.snap.rev

Inv == Fields /\ Numbers /\ Generations /\ Remembered /\ PublishedOK /\ PassOK

\* What one answer, one intent or one new row makes of the table.
Put(L, i, s, n, t) == [L EXCEPT ![i] = [receipt |-> s, rev |-> n, intent |-> t]]
Answered(L, i, s, n) == [L EXCEPT ![i].receipt = s, ![i].rev = n]
Stamped(L, i, s) == [L EXCEPT ![i].receipt = s]
Intended(L, i, w) == [L EXCEPT ![i].intent = w]

LEMMA Rewritten ==
  ASSUME NEW L, NEW top \in Nat, Table(L, top), NEW i \in DOMAIN L, NEW s, NEW n \in 0..top, NEW t
  PROVE  /\ Table(Put(L, i, s, n, t), top) /\ DOMAIN Put(L, i, s, n, t) = DOMAIN L
         /\ Put(L, i, s, n, t)[i].receipt = s /\ Put(L, i, s, n, t)[i].rev = n
         /\ \A j \in DOMAIN L : j # i => Put(L, i, s, n, t)[j] = L[j]
  <1> DEFINE r == [receipt |-> s, rev |-> n, intent |-> t]
             M == Put(L, i, s, n, t)
  <1>1. r.receipt = s /\ r.rev = n /\ r.intent = t /\ r = [receipt |-> r.receipt, rev |-> r.rev, intent |-> r.intent] OBVIOUS
  <1>2. M = [L EXCEPT ![i] = r] BY DEF Put
  <1>6. Row(r) BY <1>1 DEF Row
  <1> HIDE DEF r, M
  <1>3. DOMAIN M = DOMAIN L /\ M[i] = r /\ \A j \in DOMAIN L : j # i => M[j] = L[j] BY <1>2
  <1>4. M = [j \in DOMAIN M |-> M[j]] BY <1>2 DEF Table
  <1>5. Table(M, top)
    BY <1>1, <1>3, <1>4, <1>6 DEF Table
  <1>7. QED BY <1>1, <1>3, <1>5 DEF M

LEMMA AnswerSet ==
  ASSUME NEW L, NEW top \in Nat, Table(L, top), NEW i \in DOMAIN L, NEW s, NEW n
  PROVE  Answered(L, i, s, n) = Put(L, i, s, n, L[i].intent)
  <1>1. PICK a, b, c : L[i] = [receipt |-> a, rev |-> b, intent |-> c] BY DEF Table, Row
  <1> DEFINE K == [L EXCEPT ![i].receipt = s]
             M == [K EXCEPT ![i].rev = n]
  <1>2. K = [L EXCEPT ![i] = [L[i] EXCEPT !.receipt = s]] OBVIOUS
  <1>3. K[i] = [receipt |-> s, rev |-> b, intent |-> c] BY <1>1, <1>2
  <1>4. M = [K EXCEPT ![i] = [K[i] EXCEPT !.rev = n]] OBVIOUS
  <1>8. Answered(L, i, s, n) = M BY DEF Answered
  <1> HIDE DEF K, M
  <1>5. [K[i] EXCEPT !.rev = n] = [receipt |-> s, rev |-> n, intent |-> L[i].intent] BY <1>1, <1>3
  <1>6. M = [K EXCEPT ![i] = [receipt |-> s, rev |-> n, intent |-> L[i].intent]] BY <1>4, <1>5
  <1>7. QED BY <1>2, <1>6, <1>8 DEF Put

LEMMA ReceiptSet ==
  ASSUME NEW L, NEW top \in Nat, Table(L, top), NEW i \in DOMAIN L, NEW s
  PROVE  Stamped(L, i, s) = Put(L, i, s, L[i].rev, L[i].intent)
  <1>1. PICK a, b, c : L[i] = [receipt |-> a, rev |-> b, intent |-> c] BY DEF Table, Row
  <1>2. [L[i] EXCEPT !.receipt = s] = [receipt |-> s, rev |-> L[i].rev, intent |-> L[i].intent]
    BY <1>1
  <1>3. Stamped(L, i, s) = [L EXCEPT ![i] = [L[i] EXCEPT !.receipt = s]] BY DEF Stamped
  <1>4. QED BY <1>2, <1>3 DEF Put

LEMMA IntentSet ==
  ASSUME NEW L, NEW top \in Nat, Table(L, top), NEW i \in DOMAIN L, NEW w
  PROVE  Intended(L, i, w) = Put(L, i, L[i].receipt, L[i].rev, w)
  <1>1. PICK a, b, c : L[i] = [receipt |-> a, rev |-> b, intent |-> c] BY DEF Table, Row
  <1>2. [L[i] EXCEPT !.intent = w] = [receipt |-> L[i].receipt, rev |-> L[i].rev, intent |-> w]
    BY <1>1
  <1>3. Intended(L, i, w) = [L EXCEPT ![i] = [L[i] EXCEPT !.intent = w]] BY DEF Intended
  <1>4. QED BY <1>2, <1>3 DEF Put

LEMMA Opened ==
  ASSUME NEW L, NEW top \in Nat, Table(L, top), NEW i \in Items, i \notin DOMAIN L,
         NEW M, M = [j \in DOMAIN L \cup {i} |-> IF j = i THEN NewRow ELSE L[j]]
  PROVE  /\ Table(M, top) /\ DOMAIN M = DOMAIN L \cup {i}
         /\ M[i] = NewRow /\ \A j \in DOMAIN L : M[j] = L[j]
  <1>1. Row(NewRow) /\ NewRow.rev \in 0..top BY DEF Row, NewRow
  <1>2. DOMAIN M = DOMAIN L \cup {i} /\ M[i] = NewRow /\ \A j \in DOMAIN L : M[j] = L[j] OBVIOUS
  <1>3. M = [j \in DOMAIN M |-> M[j]] BY <1>2
  <1>4. QED BY <1>1, <1>2, <1>3 DEF Table

LEMMA Later ==
  ASSUME NEW L, NEW top \in Nat, Table(L, top), NEW n \in Nat, top <= n
  PROVE  Table(L, n)
  BY DEF Table

LEMMA InitInv == Init => Inv
  <1> SUFFICES ASSUME Init PROVE Inv OBVIOUS
  <1> USE DEF Init
  <1>1. Fields
    <2>1. /\ service = [snap |-> service.snap, item |-> service.item]
          /\ service.item = [i \in Items |-> service.item[i]]
      OBVIOUS
    <2>2. \A i \in Items : Order(service.item[i]) BY DEF Order
    <2>3. echo = [gen |-> echo.gen, rev |-> echo.rev, config |-> echo.config] OBVIOUS
    <2>4. QED BY <2>1, <2>2, <2>3 DEF Fields
  <1>2. Numbers /\ Generations
    <2>1. DOMAIN ledger = {} /\ ledger = [i \in DOMAIN ledger |-> ledger[i]] OBVIOUS
    <2>2. QED BY <2>1 DEF Numbers, Generations, Table
  <1>3. Remembered /\ PublishedOK /\ PassOK BY DEF Remembered, PublishedOK, PassOK
  <1>4. QED BY <1>1, <1>2, <1>3 DEF Inv

\* What no step of the ledger, the pass or the service touches.
LEMMA UntouchedInv ==
  ASSUME Inv, UNCHANGED <<echo, ledger, pass, published, service>>
  PROVE  Inv'
  BY DEF Inv, Fields, Numbers, Generations, Remembered, PublishedOK, PassOK, Undecided, Decided,
     Applying, Key

\* Recording a configuration stays in its generation and never goes back.
LEMMA Recording ==
  ASSUME Inv, NEW f, Record(f)
  PROVE  /\ echo' = [gen |-> echo'.gen, rev |-> echo'.rev, config |-> echo'.config]
         /\ echo'.gen = echo.gen
         /\ echo'.rev \in Nat /\ echo.rev <= echo'.rev
  <1>1. /\ echo = [gen |-> echo.gen, rev |-> echo.rev, config |-> echo.config]
        /\ echo.rev \in Nat
    BY DEF Inv, Fields, Numbers
  <1>2. CASE echo.config = {f} BY <1>1, <1>2 DEF Record, Recorded
  <1>3. CASE echo.config # {f}
    <2>1. echo' = [echo EXCEPT !.rev = @ + 1, !.config = {f}] BY <1>3 DEF Record, Recorded
    <2>2. echo' = [gen |-> echo.gen, rev |-> echo.rev + 1, config |-> {f}] BY <1>1, <2>1
    <2>3. QED BY <1>1, <2>2
  <1>4. QED BY <1>2, <1>3

\* The steps between a command's look at the ledger and the pass's next
\* snapshot: a receipt is given once, and only a saved one improves.
LEMMA LedgerStep ==
  ASSUME Inv, UNCHANGED <<service, published>>, pass # Idle, pass.list # <<>>,
         echo' = [gen |-> echo'.gen, rev |-> echo'.rev, config |-> echo'.config],
         echo'.gen = echo.gen, echo'.rev \in Nat, echo.rev <= echo'.rev,
         Table(ledger', echo'.rev), DOMAIN ledger \subseteq DOMAIN ledger',
         \A j \in DOMAIN ledger :
             \/ ledger'[j].receipt = ledger[j].receipt
             \/ ledger[j].receipt = None
             \/ ledger[j].receipt = "saved" /\ ledger'[j].receipt = "applied",
         \/ pass' = Idle
         \/ /\ pass' = [at |-> pass'.at, snap |-> pass.snap, list |-> pass.list, saw |-> pass'.saw, left |-> pass'.left]
            /\ \/ pass'.at \in {"plan", "write", "rename", "finish"} /\ Undecided(Head(pass.list))'
               \/ pass'.at = "latest" /\ Decided(Head(pass.list))'
  PROVE  Inv'
  <1> USE DEF Inv
  <1>1. Fields' BY DEF Fields
  <1>2. Numbers'
    <2>1. pass' # Idle => pass'.snap = pass.snap OBVIOUS
    <2>2. QED BY <2>1 DEF Numbers
  <1>3. Generations' BY DEF Generations
  <1>4. Remembered' BY DEF Remembered, None
  <1>5. PublishedOK' BY DEF PublishedOK, Key
  <1>6. PassOK'
    <2>1. CASE pass' = Idle BY <2>1 DEF PassOK
    <2>2. CASE pass' # Idle
      <3>1. pass'.list = pass.list /\ pass'.at \in {"plan", "write", "rename", "finish", "latest"}
        BY <2>2
      <3>2. pass'.at = "latest" => Decided(Head(pass.list))' BY <2>2
      <3>3. pass'.at # "latest" => Undecided(Head(pass.list))' BY <2>2
      <3>4. \A k \in DOMAIN pass.list : service'.item[pass.list[k]].state # "unborn" BY DEF PassOK
      <3>5. QED BY <3>1, <3>2, <3>3, <3>4 DEF PassOK, Applying, Decided, Undecided
    <2>3. QED BY <2>1, <2>2
  <1>7. QED BY <1>1, <1>2, <1>3, <1>4, <1>5, <1>6

\* A pass that is under way is a record of its five fields.
LEMMA UnderWay ==
  ASSUME Inv, pass # Idle
  PROVE  /\ pass = [at |-> pass.at, snap |-> pass.snap, list |-> pass.list, saw |-> pass.saw, left |-> pass.left]
         /\ pass.at \in {"publish", "queue", "apply", "plan", "write", "rename", "finish", "latest", "receipt"}
         /\ pass.list \in Seq(Items)
         /\ pass.list # <<>> => Head(pass.list) \in Items /\ 1 \in DOMAIN pass.list
                                /\ Head(pass.list) = pass.list[1]
  BY HeadTailProperties, EmptySeq DEF Inv, Fields

\* An answer to the command in hand, which had none.
LEMMA AnswerStep ==
  ASSUME Inv, UNCHANGED <<service, published>>, pass # Idle, pass.list # <<>>,
         echo' = [gen |-> echo'.gen, rev |-> echo'.rev, config |-> echo'.config],
         echo'.gen = echo.gen, echo'.rev \in Nat, echo.rev <= echo'.rev,
         Head(pass.list) \in DOMAIN ledger, ledger[Head(pass.list)].receipt = None,
         NEW status, status # None,
         \/ Answer(Head(pass.list), status)
         \/ Abandon(Head(pass.list), status),
         pass' = [at |-> "latest", snap |-> pass.snap, list |-> pass.list, saw |-> pass.saw, left |-> pass.left]
  PROVE  Inv'
  <1> DEFINE i == Head(pass.list)
  <1>1. Table(ledger, echo.rev) /\ echo.rev \in Nat BY DEF Inv, Numbers
  <1>2. Table(ledger, echo'.rev) BY <1>1, Later
  <1>3. i \in DOMAIN ledger /\ ledger[i].receipt = None OBVIOUS
  <1>4. \E n \in 0..echo'.rev : \E w : ledger' = Put(ledger, i, status, n, w)
    <2>1. CASE Answer(i, status)
      <3>1. ledger' = Answered(ledger, i, status, echo'.rev) BY <2>1 DEF Answer, Answered
      <3> HIDE DEF i
      <3>2. ledger' = Put(ledger, i, status, echo'.rev, ledger[i].intent)
        BY <1>1, <1>3, <3>1, AnswerSet
      <3>3. echo'.rev \in 0..echo'.rev OBVIOUS
      <3>4. QED BY <3>2, <3>3
    <2>2. CASE Abandon(i, status)
      <3>1. [NewRow EXCEPT !.receipt = status] = [receipt |-> status, rev |-> 0, intent |-> <<>>]
        BY DEF NewRow
      <3>2. ledger' = Put(ledger, i, status, 0, <<>>) BY <2>2, <3>1 DEF Abandon, Put
      <3>3. 0 \in 0..echo'.rev OBVIOUS
      <3>4. QED BY <3>2, <3>3
    <2>3. QED BY <2>1, <2>2
  <1>9. PICK n \in 0..echo'.rev : \E w : ledger' = Put(ledger, i, status, n, w) BY <1>4
  <1>10. PICK w : ledger' = Put(ledger, i, status, n, w) BY <1>9
  <1> HIDE DEF i
  <1>5. /\ Table(ledger', echo'.rev) /\ DOMAIN ledger' = DOMAIN ledger
        /\ ledger'[i].receipt = status
        /\ \A j \in DOMAIN ledger : j # i => ledger'[j] = ledger[j]
    BY <1>2, <1>3, <1>10, Rewritten
  <1>6. \A j \in DOMAIN ledger : ledger'[j].receipt = ledger[j].receipt \/ ledger[j].receipt = None
    BY <1>3, <1>5
  <1>7. Decided(Head(pass.list))' BY <1>3, <1>5 DEF Decided, i
  <1>8. QED BY <1>5, <1>6, <1>7, LedgerStep

LEMMA LookInv == ASSUME Inv, Look PROVE Inv'
  <1> DEFINE i == Head(pass.list)
             known == IF i \in DOMAIN ledger THEN ledger
                      ELSE [j \in DOMAIN ledger \cup {i} |-> IF j = i THEN NewRow ELSE ledger[j]]
  <1>1. /\ pass # Idle /\ pass.at = "apply" /\ pass.list # <<>> /\ UNCHANGED <<service, published>>
    BY DEF Look, Idle, Inv, PassOK
  <1>2. i \in Items BY <1>1, UnderWay
  <1>3. /\ Table(ledger, echo.rev) /\ echo.rev \in Nat
        /\ echo = [gen |-> echo.gen, rev |-> echo.rev, config |-> echo.config]
    BY DEF Inv, Fields, Numbers
  <1>4. /\ Table(known, echo.rev)
        /\ DOMAIN ledger \subseteq DOMAIN known /\ i \in DOMAIN known
        /\ \A j \in DOMAIN ledger : known[j] = ledger[j]
        /\ i \notin DOMAIN ledger => known[i].receipt = None
    <2>1. CASE i \in DOMAIN ledger BY <1>3, <2>1
    <2>2. CASE i \notin DOMAIN ledger
      <3>1. known = [j \in DOMAIN ledger \cup {i} |-> IF j = i THEN NewRow ELSE ledger[j]] BY <2>2
      <3> HIDE DEF known, i
      <3>2. Table(known, echo.rev) /\ DOMAIN known = DOMAIN ledger \cup {i}
            /\ known[i] = NewRow /\ \A j \in DOMAIN ledger : known[j] = ledger[j]
        BY <1>2, <1>3, <2>2, <3>1, Opened
      <3>3. QED BY <2>2, <3>2 DEF NewRow
    <2>3. QED BY <2>1, <2>2
  <1>5. pass = [at |-> pass.at, snap |-> pass.snap, list |-> pass.list, saw |-> pass.saw, left |-> pass.left]
    BY <1>1, UnderWay
  <1> DEFINE told == [at |-> "latest", snap |-> pass.snap, list |-> pass.list, saw |-> pass.saw, left |-> pass.left]
  <1>6. Answering => pass' = told BY <1>5 DEF Answering
  <1> HIDE DEF known
  <1>7. CASE known[i].receipt \notin {None, "saved"} /\ Answering /\ UNCHANGED disk
    <2>1. UNCHANGED <<echo, ledger>> BY <1>7 DEF disk
    <2>2. Decided(i) BY <1>4, <1>7 DEF Decided
    <2>3. Decided(Head(pass.list))' BY <1>6, <1>7, <2>1, <2>2 DEF Decided
    <2>4. QED BY <1>1, <1>3, <1>6, <1>7, <2>1, <2>3, LedgerStep
  <1>8. CASE /\ known[i].receipt \in {None, "saved"} /\ ledger' = known /\ UNCHANGED echo
             /\ IF known[i].receipt = "saved" THEN Answering ELSE Stop
    <2>1. \A j \in DOMAIN ledger : ledger'[j].receipt = ledger[j].receipt BY <1>4, <1>8
    <2>2. CASE known[i].receipt = "saved"
      <3>1. pass' = told BY <1>6, <1>8, <2>2
      <3>2. Decided(Head(pass.list))' BY <1>4, <1>8, <2>2, <3>1 DEF Decided, None
      <3>3. QED BY <1>1, <1>3, <1>4, <1>8, <2>1, <3>1, <3>2, LedgerStep
    <2>3. CASE known[i].receipt # "saved"
      <3>1. pass' = Idle BY <1>8, <2>3 DEF Stop
      <3>2. QED BY <1>1, <1>3, <1>4, <1>8, <2>1, <3>1, LedgerStep
    <2>4. QED BY <2>2, <2>3
  <1>9. CASE /\ known[i].receipt = "saved" /\ Record(files) /\ Answering
             /\ IF Landed(i, files) /\ running = files
                THEN ledger' = [ledger EXCEPT ![i].receipt = "applied"]
                ELSE UNCHANGED ledger
    <2>1. i \in DOMAIN ledger /\ ledger[i].receipt = "saved" BY <1>4, <1>9 DEF None
    <2>2. echo'.rev \in Nat /\ echo.rev <= echo'.rev /\ echo'.gen = echo.gen
          /\ echo' = [gen |-> echo'.gen, rev |-> echo'.rev, config |-> echo'.config]
      BY <1>9, Recording
    <2>3. pass' = told BY <1>6, <1>9
    <2>4. Table(ledger, echo'.rev) BY <1>3, <2>2, Later
    <2>5. CASE ledger' = ledger
      <3>1. Decided(Head(pass.list))' BY <2>1, <2>3, <2>5 DEF Decided, None
      <3>2. QED BY <1>1, <2>2, <2>3, <2>4, <2>5, <3>1, LedgerStep
    <2>6. CASE ledger' = [ledger EXCEPT ![i].receipt = "applied"]
      <3> HIDE DEF i
      <3>8. ledger' = Stamped(ledger, i, "applied") BY <2>6 DEF Stamped
      <3>1. ledger' = Put(ledger, i, "applied", ledger[i].rev, ledger[i].intent)
        BY <1>3, <2>1, <3>8, ReceiptSet
      <3>2. ledger[i].rev \in 0..echo'.rev BY <2>1, <2>4 DEF Table
      <3>3. /\ Table(ledger', echo'.rev) /\ DOMAIN ledger' = DOMAIN ledger
            /\ ledger'[i].receipt = "applied"
            /\ \A j \in DOMAIN ledger : j # i => ledger'[j] = ledger[j]
        BY <2>1, <2>2, <2>4, <3>1, <3>2, Rewritten
      <3>4. \A j \in DOMAIN ledger :
                \/ ledger'[j].receipt = ledger[j].receipt
                \/ ledger[j].receipt = "saved" /\ ledger'[j].receipt = "applied"
        BY <2>1, <3>3
      <3>5. Decided(i)' BY <2>1, <3>3, <2>3 DEF Decided, None, i
      <3>6. Decided(Head(pass.list))' BY <3>5 DEF i
      <3>7. QED BY <1>1, <2>2, <2>3, <3>3, <3>4, <3>6, LedgerStep
    <2>7. QED BY <1>9, <2>5, <2>6
  <1>10. CASE /\ known[i].receipt = None /\ Record(files)
              /\ IF echo.gen # service.item[i].base.gen
                 THEN Answering /\ ledger' = [known EXCEPT ![i].receipt = "stale"]
                 ELSE IF i \in DOMAIN ledger /\ Landed(i, files)
                 THEN Answering /\ Answer(i, SavedOrApplied(files))
                 ELSE /\ ledger' = known
                      /\ pass' = [pass EXCEPT !.at = "plan", !.saw = files]
    <2>1. echo'.rev \in Nat /\ echo.rev <= echo'.rev /\ echo'.gen = echo.gen
          /\ echo' = [gen |-> echo'.gen, rev |-> echo'.rev, config |-> echo'.config]
      BY <1>10, Recording
    <2>2. Table(known, echo'.rev) BY <1>3, <1>4, <2>1, Later
    <2>3. CASE echo.gen # service.item[i].base.gen
      <3>1. ledger' = [known EXCEPT ![i].receipt = "stale"] /\ pass' = told BY <1>6, <1>10, <2>3
      <3> HIDE DEF i
      <3>8. ledger' = Stamped(known, i, "stale") BY <3>1 DEF Stamped
      <3>2. ledger' = Put(known, i, "stale", known[i].rev, known[i].intent)
        BY <1>3, <1>4, <3>8, ReceiptSet
      <3>3. known[i].rev \in 0..echo'.rev BY <1>4, <2>2 DEF Table
      <3>4. /\ Table(ledger', echo'.rev) /\ DOMAIN ledger' = DOMAIN known
            /\ ledger'[i].receipt = "stale"
            /\ \A j \in DOMAIN known : j # i => ledger'[j] = known[j]
        BY <1>4, <2>1, <2>2, <3>2, <3>3, Rewritten
      <3>5. \A j \in DOMAIN ledger : ledger'[j].receipt = ledger[j].receipt \/ ledger[j].receipt = None
        BY <1>4, <1>10, <3>4
      <3>6. Decided(Head(pass.list))' BY <1>4, <3>1, <3>4 DEF Decided, None, i
      <3>7. QED BY <1>1, <1>4, <2>1, <3>1, <3>4, <3>5, <3>6, LedgerStep
    <2>4. CASE echo.gen = service.item[i].base.gen /\ i \in DOMAIN ledger /\ Landed(i, files)
      <3>1. Answer(i, SavedOrApplied(files)) /\ pass' = told BY <1>6, <1>10, <2>4
      <3> HIDE DEF i
      <3>2. ledger[i].receipt = None BY <1>4, <1>10, <2>4
      <3>3. SavedOrApplied(files) # None BY DEF SavedOrApplied, None
      <3>4. QED BY <1>1, <2>1, <2>4, <3>1, <3>2, <3>3, AnswerStep DEF i
    <2>5. CASE echo.gen = service.item[i].base.gen /\ ~(i \in DOMAIN ledger /\ Landed(i, files))
      <3>1. ledger' = known
            /\ pass' = [at |-> "plan", snap |-> pass.snap, list |-> pass.list, saw |-> files, left |-> pass.left]
        BY <1>5, <1>10, <2>5
      <3>2. Undecided(Head(pass.list))' BY <1>1, <1>4, <1>10, <2>1, <2>5, <3>1 DEF Undecided
      <3>3. \A j \in DOMAIN ledger : ledger'[j].receipt = ledger[j].receipt BY <1>4, <3>1
      <3>4. QED BY <1>1, <1>4, <2>1, <2>2, <3>1, <3>2, <3>3, LedgerStep
    <2>6. QED BY <2>3, <2>4, <2>5
  <1>11. QED BY <1>7, <1>8, <1>9, <1>10 DEF Look, known, disk

\* What every step of Apply finds: a command in hand that has no answer yet.
LEMMA InHand ==
  ASSUME Inv, Applying
  PROVE  /\ pass # Idle /\ pass.list # <<>> /\ Head(pass.list) \in Items
         /\ Undecided(Head(pass.list))
         /\ Head(pass.list) \in DOMAIN ledger /\ ledger[Head(pass.list)].receipt = None
         /\ Table(ledger, echo.rev) /\ echo.rev \in Nat
         /\ echo = [gen |-> echo.gen, rev |-> echo.rev, config |-> echo.config]
  <1>1. pass # Idle BY DEF Applying, Idle
  <1>2. pass.list # <<>> /\ Undecided(Head(pass.list)) BY <1>1 DEF Inv, PassOK, Applying
  <1>3. QED BY <1>1, <1>2, UnderWay DEF Undecided, Inv, Fields, Numbers

LEMMA Tells ==
  ASSUME Inv, pass # Idle, Answering
  PROVE  pass' = [at |-> "latest", snap |-> pass.snap, list |-> pass.list, saw |-> pass.saw, left |-> pass.left]
  BY UnderWay DEF Answering

LEMMA Writes ==
  ASSUME Inv, pass # Idle, NEW i, NEW w, Writing(i, w)
  PROVE  /\ pass' = [at |-> pass'.at, snap |-> pass.snap, list |-> pass.list, saw |-> pass'.saw, left |-> pass'.left]
         /\ pass'.at \in {"plan", "write", "rename", "finish"}
  <1>1. pass = [at |-> pass.at, snap |-> pass.snap, list |-> pass.list, saw |-> pass.saw, left |-> pass.left]
    BY UnderWay
  <1>2. CASE w = <<>>
    <2>1. pass' = [at |-> "finish", snap |-> pass.snap, list |-> pass.list, saw |-> pass.saw, left |-> w]
      BY <1>1, <1>2 DEF Writing
    <2>2. QED BY <2>1
  <1>3. CASE w # <<>>
    <2>1. pass' = [at |-> "write", snap |-> pass.snap, list |-> pass.list, saw |-> pass.saw, left |-> w]
      BY <1>1, <1>3 DEF Writing
    <2>2. QED BY <2>1
  <1>4. QED BY <1>2, <1>3

\* An answer given while nothing is recorded, and a step on to the next file.
LEMMA Answers ==
  ASSUME Inv, Applying, UNCHANGED <<echo, service, published>>, Answering,
         NEW status, status # None,
         Answer(Head(pass.list), status) \/ Abandon(Head(pass.list), status)
  PROVE  Inv'
  <1>1. echo' = [gen |-> echo'.gen, rev |-> echo'.rev, config |-> echo'.config]
        /\ echo'.gen = echo.gen /\ echo'.rev \in Nat /\ echo.rev <= echo'.rev
    BY InHand
  <1>2. pass' = [at |-> "latest", snap |-> pass.snap, list |-> pass.list, saw |-> pass.saw, left |-> pass.left]
    BY InHand, Tells
  <1>3. QED BY <1>1, <1>2, InHand, AnswerStep

LEMMA GoesOn ==
  ASSUME Inv, Applying, UNCHANGED <<echo, ledger, service, published>>,
         \/ pass' = Idle
         \/ /\ pass' = [at |-> pass'.at, snap |-> pass.snap, list |-> pass.list, saw |-> pass'.saw, left |-> pass'.left]
            /\ pass'.at \in {"plan", "write", "rename", "finish"}
  PROVE  Inv'
  <1>1. Undecided(Head(pass.list))' \/ pass' = Idle BY InHand DEF Undecided
  <1>2. QED BY <1>1, InHand, LedgerStep

LEMMA PlanAgainInv == ASSUME Inv, PlanAgain PROVE Inv'
  <1> DEFINE i == Head(pass.list)
             ahead == SelectSeq(ledger[i].intent, LAMBDA w : pass.saw[w.path] # w.after)
             why == Plan(i, pass.saw).refused
  <1>1. Applying /\ UNCHANGED <<echo, service, published>> BY DEF PlanAgain, Applying
  <1>2. CASE Writing(i, ahead) /\ UNCHANGED ledger
    <2> HIDE DEF i, ahead
    <2>1. QED BY <1>1, <1>2, InHand, Writes, GoesOn
  <1>3. CASE Answering /\ why # None /\ Abandon(i, why)
    <2> HIDE DEF why
    <2>1. QED BY <1>1, <1>3, Answers
  <1>4. CASE Answering /\ Abandon(i, "conflict")
    BY <1>1, <1>4, Answers DEF None
  <1>5. CASE Resumable(i, pass.saw) BY <1>2, <1>5 DEF PlanAgain
  <1>6. CASE ~Resumable(i, pass.saw) /\ why # None BY <1>3, <1>6 DEF PlanAgain
  <1>7. CASE ~Resumable(i, pass.saw) /\ why = None BY <1>4, <1>7 DEF PlanAgain
  <1>8. QED BY <1>5, <1>6, <1>7

LEMMA PlanFirstInv == ASSUME Inv, PlanFirst PROVE Inv'
  <1> DEFINE i == Head(pass.list)
  <1>1. Applying /\ UNCHANGED <<echo, service, published>> BY DEF PlanFirst, Applying
  <1>2. ASSUME NEW status, status # None, Answering, Answer(i, status) PROVE Inv'
    BY <1>1, <1>2, Answers
  <1>3. ASSUME NEW w, Writing(i, w), ledger' = [ledger EXCEPT ![i].intent = w] PROVE Inv'
    <2>1. /\ i \in DOMAIN ledger /\ ledger[i].receipt = None
          /\ Table(ledger, echo.rev) /\ echo.rev \in Nat /\ ledger[i].rev \in 0..echo.rev
      BY <1>1, InHand DEF Table
    <2>2. /\ pass' = [at |-> pass'.at, snap |-> pass.snap, list |-> pass.list, saw |-> pass'.saw, left |-> pass'.left]
          /\ pass'.at \in {"plan", "write", "rename", "finish"}
      BY <1>1, <1>3, InHand, Writes
    <2>3. Undecided(i) BY <1>1, InHand
    <2> HIDE DEF i
    <2>4. ledger' = Intended(ledger, i, w) BY <1>3 DEF Intended
    <2>5. ledger' = Put(ledger, i, ledger[i].receipt, ledger[i].rev, w) BY <2>1, <2>4, IntentSet
    <2>6. /\ Table(ledger', echo.rev) /\ DOMAIN ledger' = DOMAIN ledger
          /\ ledger'[i].receipt = None
          /\ \A j \in DOMAIN ledger : j # i => ledger'[j] = ledger[j]
      BY <2>1, <2>5, Rewritten
    <2>7. \A j \in DOMAIN ledger : ledger'[j].receipt = ledger[j].receipt BY <2>1, <2>6
    <2>8. Undecided(Head(pass.list))' BY <1>1, <2>2, <2>3, <2>6 DEF Undecided, i
    <2>9. QED BY <1>1, <2>2, <2>6, <2>7, <2>8, InHand, LedgerStep
  <1>4. \E status, w :
            \/ status # None /\ Answering /\ Answer(i, status)
            \/ Writing(i, w) /\ ledger' = [ledger EXCEPT ![i].intent = w]
    BY DEF PlanFirst
  <1>5. QED BY <1>2, <1>3, <1>4

LEMMA CompareInv == ASSUME Inv, Compare PROVE Inv'
  <1>1. Applying /\ UNCHANGED <<echo, service, published>> BY DEF Compare, Applying
  <1>2. CASE pass' = [pass EXCEPT !.at = "rename"] /\ UNCHANGED ledger
    <2>1. pass' = [at |-> "rename", snap |-> pass.snap, list |-> pass.list, saw |-> pass.saw, left |-> pass.left]
      BY <1>1, <1>2, InHand, UnderWay
    <2>2. QED BY <1>1, <1>2, <2>1, GoesOn
  <1>3. CASE Answering /\ Abandon(Head(pass.list), "conflict") BY <1>1, <1>3, Answers DEF None
  <1>4. QED BY <1>2, <1>3 DEF Compare

LEMMA RenameInv == ASSUME Inv, Rename PROVE Inv'
  <1>1. Applying /\ UNCHANGED <<echo, service, published>> BY DEF Rename, Applying
  <1>2. CASE UNCHANGED ledger /\ pass' = Idle BY <1>1, <1>2, GoesOn
  <1>3. CASE /\ UNCHANGED ledger
             /\ pass' = [pass EXCEPT !.left = Tail(@), !.at = IF Tail(pass.left) = <<>> THEN "finish" ELSE "write"]
    <2> DEFINE next == IF Tail(pass.left) = <<>> THEN "finish" ELSE "write"
    <2>1. next \in {"finish", "write"} OBVIOUS
    <2>2. pass' = [pass EXCEPT !.left = Tail(@), !.at = next] BY <1>3
    <2> HIDE DEF next
    <2>3. pass' = [at |-> next, snap |-> pass.snap, list |-> pass.list, saw |-> pass.saw, left |-> Tail(pass.left)]
      BY <1>1, <2>2, InHand, UnderWay
    <2>4. pass' = [at |-> pass'.at, snap |-> pass.snap, list |-> pass.list, saw |-> pass'.saw, left |-> pass'.left]
          /\ pass'.at = next
      BY <2>3
    <2>5. QED BY <1>1, <1>3, <2>1, <2>4, GoesOn
  <1>4. CASE Answering /\ Abandon(Head(pass.list), "conflict") BY <1>1, <1>4, Answers DEF None
  <1>5. CASE Answering /\ Abandon(Head(pass.list), "failed") BY <1>1, <1>5, Answers DEF None
  <1>6. QED BY <1>2, <1>3, <1>4, <1>5 DEF Rename, Stop

LEMMA FinishInv == ASSUME Inv, Finish PROVE Inv'
  <1>1. Applying /\ UNCHANGED <<service, published>> BY DEF Finish, Applying
  <1>2. CASE ~Valid(files)
    <2>1. pass' = Idle /\ UNCHANGED <<echo, ledger>> BY <1>2 DEF Finish, Stop, disk
    <2>2. QED BY <1>1, <2>1, GoesOn
  <1>3. CASE Valid(files)
    <2>1. Record(files) /\ Answering BY <1>3 DEF Finish
    <2>2. \E status : status # None /\ Answer(Head(pass.list), status)
      <3>1. SavedOrApplied(files) # None /\ "conflict" # None BY DEF SavedOrApplied, None
      <3>2. Answer(Head(pass.list), SavedOrApplied(files)) \/ Answer(Head(pass.list), "conflict")
        BY <1>3 DEF Finish, Answer
      <3>3. QED BY <3>1, <3>2
    <2>3. echo'.rev \in Nat /\ echo.rev <= echo'.rev /\ echo'.gen = echo.gen
          /\ echo' = [gen |-> echo'.gen, rev |-> echo'.rev, config |-> echo'.config]
      BY <2>1, Recording
    <2>4. pass' = [at |-> "latest", snap |-> pass.snap, list |-> pass.list, saw |-> pass.saw, left |-> pass.left]
      BY <1>1, <2>1, InHand, Tells
    <2>5. PICK status : status # None /\ Answer(Head(pass.list), status) BY <2>2
    <2>6. QED BY <1>1, <2>3, <2>4, <2>5, InHand, AnswerStep
  <1>4. QED BY <1>2, <1>3

LEMMA ObserveInv == ASSUME Inv, Observe PROVE Inv'
  <1>1. /\ echo' = [gen |-> echo'.gen, rev |-> echo'.rev, config |-> echo'.config]
        /\ echo'.gen = echo.gen /\ echo'.rev \in Nat /\ echo.rev <= echo'.rev
    BY Recording DEF Observe
  <1>2. UNCHANGED <<ledger, pass, published, service>> BY DEF Observe
  <1>3. Table(ledger, echo'.rev) BY <1>1, Later DEF Inv, Numbers
  <1>4. Fields' /\ PublishedOK' BY <1>1, <1>2 DEF Inv, Fields, PublishedOK, Key
  <1>5. Numbers' /\ Generations' /\ Remembered'
    BY <1>1, <1>2, <1>3 DEF Inv, Numbers, Generations, Remembered
  <1>6. PassOK' BY <1>1, <1>2 DEF Inv, PassOK, Applying, Decided, Undecided
  <1>7. QED BY <1>4, <1>5, <1>6 DEF Inv

LEMMA BeginInv == ASSUME Inv, Begin PROVE Inv'
  <1>1. /\ echo' = [gen |-> echo'.gen, rev |-> echo'.rev, config |-> echo'.config]
        /\ echo'.gen = echo.gen /\ echo'.rev \in Nat /\ echo.rev <= echo'.rev
    <2>1. CASE Valid(files) BY <2>1, Recording DEF Begin
    <2>2. CASE ~Valid(files) BY <2>2 DEF Begin, Inv, Fields, Numbers
    <2>3. QED BY <2>1, <2>2
  <1>2. UNCHANGED <<ledger, published, service>> BY DEF Begin
  <1>3. Table(ledger, echo'.rev) BY <1>1, Later DEF Inv, Numbers
  <1>4. \E own : pass' = [at |-> "publish", snap |-> [gen |-> echo'.gen, rev |-> echo'.rev, own |-> own],
                          list |-> <<>>, saw |-> files, left |-> <<>>]
    BY DEF Begin, Snapshot
  <1>5. PICK own : pass' = [at |-> "publish", snap |-> [gen |-> echo'.gen, rev |-> echo'.rev, own |-> own],
                            list |-> <<>>, saw |-> files, left |-> <<>>]
    BY <1>4
  <1>6. /\ pass' = [at |-> pass'.at, snap |-> pass'.snap, list |-> pass'.list, saw |-> pass'.saw, left |-> pass'.left]
        /\ pass'.at = "publish" /\ pass'.list = <<>>
        /\ pass'.snap.gen = echo'.gen /\ pass'.snap.rev = echo'.rev
    BY <1>5
  <1>7. Fields' /\ PublishedOK' BY <1>1, <1>2, <1>6 DEF Inv, Fields, PublishedOK, Key
  <1>8. Numbers' /\ Generations' /\ Remembered'
    BY <1>1, <1>2, <1>3, <1>6 DEF Inv, Numbers, Generations, Remembered
  <1>9. PassOK' BY <1>6 DEF PassOK, Applying
  <1>10. QED BY <1>7, <1>8, <1>9 DEF Inv

LEMMA LatestInv == ASSUME Inv, Latest PROVE Inv'
  <1>1. pass # Idle /\ pass.list # <<>> /\ Decided(Head(pass.list))
    BY DEF Latest, Idle, Inv, PassOK
  <1>2. UNCHANGED <<echo, ledger, published, service>> BY DEF Latest, disk
  <1>3. \E own : pass' = [at |-> "publish", snap |-> [gen |-> echo.gen, rev |-> echo.rev, own |-> own],
                          list |-> pass.list, saw |-> pass.saw, left |-> pass.left]
    BY <1>1, UnderWay DEF Latest, Snapshot
  <1>4. PICK own : pass' = [at |-> "publish", snap |-> [gen |-> echo.gen, rev |-> echo.rev, own |-> own],
                            list |-> pass.list, saw |-> pass.saw, left |-> pass.left]
    BY <1>3
  <1>5. /\ pass' = [at |-> pass'.at, snap |-> pass'.snap, list |-> pass'.list, saw |-> pass'.saw, left |-> pass'.left]
        /\ pass'.at = "publish" /\ pass'.list = pass.list
        /\ pass'.snap.gen = echo.gen /\ pass'.snap.rev = echo.rev
    BY <1>4
  <1>6. ledger[Head(pass.list)].rev \in 0..echo.rev /\ echo.rev \in Nat
    BY <1>1 DEF Inv, Numbers, Table, Decided
  <1>7. Fields' /\ PublishedOK' BY <1>2, <1>5, UnderWay, <1>1 DEF Inv, Fields, PublishedOK, Key
  <1>8. Numbers' /\ Generations' /\ Remembered'
    BY <1>2, <1>5 DEF Inv, Numbers, Generations, Remembered
  <1>9. \A k \in DOMAIN pass.list : service.item[pass.list[k]].state # "unborn"
    BY <1>1 DEF Inv, PassOK
  <1>10. PassOK' BY <1>1, <1>2, <1>5, <1>6, <1>9 DEF PassOK, Applying, Decided
  <1>11. QED BY <1>7, <1>8, <1>10 DEF Inv

LEMMA CrashInv == ASSUME Inv, pass' = Idle, published' \in {<<>>, published},
                         UNCHANGED <<echo, ledger, service>>
                  PROVE  Inv'
  BY DEF Inv, Fields, Numbers, Generations, Remembered, PublishedOK, PassOK, Key

LEMMA NewGenerationInv == ASSUME Inv, NewGeneration PROVE Inv'
  <1>1. /\ echo' = [gen |-> echo.gen + 1, rev |-> 0, config |-> {}] /\ ledger' = [i \in {} |-> {}]
        /\ pass' = Idle /\ published' = <<>> /\ UNCHANGED service
    BY DEF NewGeneration, Stop
  <1>2. Table(ledger', echo'.rev)
    <2>1. DOMAIN ledger' = {} /\ ledger' = [i \in DOMAIN ledger' |-> ledger'[i]] BY <1>1
    <2>2. QED BY <2>1 DEF Table
  <1>3. echo.gen \in Nat /\ echo'.gen = echo.gen + 1 /\ echo'.rev = 0 BY <1>1 DEF Inv, Numbers
  <1>4. Fields' BY <1>1 DEF Inv, Fields
  <1>5. Numbers' /\ Generations' /\ Remembered' /\ PublishedOK' /\ PassOK'
    BY <1>1, <1>2, <1>3 DEF Inv, Numbers, Generations, Remembered, PublishedOK, PassOK
  <1>6. QED BY <1>4, <1>5 DEF Inv

\* A call that replaces the snapshot the service holds by the pass's own.
LEMMA PublishInv == ASSUME Inv, Publish PROVE Inv'
  <1>1. /\ pass # Idle /\ UNCHANGED <<echo, ledger>>
        /\ pass' = [pass EXCEPT !.at = IF pass.list = <<>> THEN "queue" ELSE "receipt"]
        /\ \/ Known(pass.snap) /\ UNCHANGED <<published, service>>
           \/ published' = Key(pass.snap) /\ service' = [service EXCEPT !.snap = pass.snap]
        /\ pass.at = "publish"
    BY DEF Publish, Idle, disk
  <1>2. /\ pass.snap.gen = echo.gen /\ pass.snap.gen \in Nat /\ pass.snap.rev \in Nat
    BY <1>1 DEF Inv, Numbers, Generations
  <1>3. /\ service' = [snap |-> service'.snap, item |-> service.item]
        /\ service'.snap.gen = echo.gen /\ service'.snap.rev = pass.snap.rev
        /\ published' # <<>> => published' = Key(service'.snap)
    <2>1. CASE Known(pass.snap) /\ UNCHANGED <<published, service>>
      <3>1. published # <<>> /\ <<pass.snap.gen, pass.snap.rev>> = <<service.snap.gen, service.snap.rev>>
        BY <2>1 DEF Inv, PublishedOK, Known, Key
      <3>2. QED BY <1>2, <2>1, <3>1 DEF Inv, PublishedOK, Key, Fields
    <2>2. CASE published' = Key(pass.snap) /\ service' = [service EXCEPT !.snap = pass.snap]
      <3>1. service = [snap |-> service.snap, item |-> service.item] BY DEF Inv, Fields
      <3>2. service' = [snap |-> pass.snap, item |-> service.item] BY <2>2, <3>1
      <3>3. QED BY <1>2, <2>2, <3>2
    <2>3. QED BY <1>1, <2>1, <2>2
  <1>4. /\ pass' = [at |-> pass'.at, snap |-> pass.snap, list |-> pass.list, saw |-> pass.saw, left |-> pass.left]
        /\ pass.list = <<>> => pass'.at = "queue"
        /\ pass.list # <<>> => pass'.at = "receipt"
    <2>1. pass = [at |-> pass.at, snap |-> pass.snap, list |-> pass.list, saw |-> pass.saw, left |-> pass.left]
      BY <1>1, UnderWay
    <2>2. CASE pass.list = <<>>
      <3>1. pass' = [at |-> "queue", snap |-> pass.snap, list |-> pass.list, saw |-> pass.saw, left |-> pass.left]
        BY <1>1, <2>1, <2>2
      <3>2. QED BY <3>1, <2>2
    <2>3. CASE pass.list # <<>>
      <3>1. pass' = [at |-> "receipt", snap |-> pass.snap, list |-> pass.list, saw |-> pass.saw, left |-> pass.left]
        BY <1>1, <2>1, <2>3
      <3>2. QED BY <3>1, <2>3
    <2>4. QED BY <2>2, <2>3
  <1>5. service'.item = service.item BY <1>3
  <1>6. pass'.list = pass.list /\ pass'.snap = pass.snap /\ pass' # Idle BY <1>4 DEF Idle
  <1>7. Fields' BY <1>1, <1>3, <1>4, <1>5, <1>6, UnderWay DEF Inv, Fields
  <1>8. Numbers' /\ Generations' /\ Remembered'
    BY <1>1, <1>2, <1>3, <1>5, <1>6 DEF Inv, Numbers, Generations, Remembered
  <1>9. PublishedOK' BY <1>3 DEF PublishedOK, Key
  <1>10. /\ \A k \in DOMAIN pass.list : service.item[pass.list[k]].state # "unborn"
         /\ pass.list # <<>> => Decided(Head(pass.list)) /\ ledger[Head(pass.list)].rev <= pass.snap.rev
    BY <1>1 DEF Inv, PassOK
  <1>11. PassOK'
    <2>1. CASE pass.list = <<>> BY <1>4, <1>6, <2>1 DEF PassOK, Applying
    <2>2. CASE pass.list # <<>>
      <3>1. pass'.at = "receipt" BY <1>4, <2>2
      <3>2. Decided(Head(pass.list))' BY <1>1, <1>10, <2>2, <1>6 DEF Decided
      <3>3. service'.snap.gen = echo'.gen /\ ledger'[Head(pass'.list)].rev <= service'.snap.rev
        BY <1>1, <1>3, <1>6, <1>10, <2>2
      <3>4. QED BY <1>5, <1>6, <1>10, <2>2, <3>1, <3>2, <3>3 DEF PassOK, Applying, Decided
    <2>3. QED BY <2>1, <2>2
  <1>12. QED BY <1>7, <1>8, <1>9, <1>11 DEF Inv

LEMMA FetchInv == ASSUME IsFiniteSet(Items), Inv, Fetch PROVE Inv'
  <1>1. /\ pass # Idle /\ pass.at = "queue" /\ UNCHANGED <<echo, ledger, published, service>>
    BY DEF Fetch, Idle, disk
  <1>2. Cardinality(Offered) \in Nat
    BY FS_Subset, FS_CardinalityType DEF Offered
  <1>3. PICK list \in SetToSeqs(Offered) :
            pass' = IF list = <<>> THEN Idle ELSE [pass EXCEPT !.at = "apply", !.list = list]
    BY DEF Fetch
  <1>4. list \in [1..Cardinality(Offered) -> Offered] BY <1>3 DEF SetToSeqs
  <1>5. list \in Seq(Offered) BY <1>2, <1>4
  <1>6. list \in Seq(Items) /\ \A k \in DOMAIN list : service.item[list[k]].state # "unborn"
    BY <1>4, <1>5 DEF Offered
  <1>7. CASE list = <<>> BY <1>1, <1>3, <1>7, CrashInv
  <1>8. CASE list # <<>>
    <2>1. pass' = [at |-> "apply", snap |-> pass.snap, list |-> list, saw |-> pass.saw, left |-> pass.left]
      BY <1>1, <1>3, <1>8, UnderWay
    <2>2. /\ pass' = [at |-> pass'.at, snap |-> pass'.snap, list |-> pass'.list, saw |-> pass'.saw, left |-> pass'.left]
          /\ pass'.at = "apply" /\ pass'.list = list /\ pass'.snap = pass.snap
      BY <2>1
    <2>3. Fields' BY <1>1, <1>6, <2>2 DEF Inv, Fields
    <2>4. Numbers' /\ Generations' /\ Remembered' /\ PublishedOK'
      BY <1>1, <2>2 DEF Inv, Numbers, Generations, Remembered, PublishedOK, Key
    <2>5. PassOK' BY <1>1, <1>6, <1>8, <2>2 DEF PassOK, Applying
    <2>6. QED BY <2>3, <2>4, <2>5 DEF Inv
  <1>9. QED BY <1>7, <1>8

\* The service's row of one item, replaced; the others stay.
With(i, st, ba, ex, an) ==
    [snap |-> service.snap,
     item |-> [service.item EXCEPT ![i] = [state |-> st, base |-> ba, expired |-> ex, answer |-> an]]]

LEMMA ItemShape ==
  ASSUME Inv, NEW i \in Items
  PROVE  \E st, ba, ex, an : service.item[i] = [state |-> st, base |-> ba, expired |-> ex, answer |-> an]
  <1>1. Order(service.item[i]) BY DEF Inv, Fields
  <1>2. QED BY <1>1 DEF Order

LEMMA ItemSet ==
  ASSUME Inv, NEW i \in Items, NEW st, NEW ba, NEW ex, NEW an, service' = With(i, st, ba, ex, an)
  PROVE  /\ service' = [snap |-> service'.snap, item |-> service'.item] /\ service'.snap = service.snap
         /\ DOMAIN service'.item = Items /\ service'.item = [j \in Items |-> service'.item[j]]
         /\ service'.item[i].state = st /\ service'.item[i].base = ba
         /\ service'.item[i].expired = ex /\ service'.item[i].answer = an
         /\ \A j \in Items : j # i => service'.item[j] = service.item[j]
         /\ \A j \in Items : Order(service'.item[j])
  <1> DEFINE r == [state |-> st, base |-> ba, expired |-> ex, answer |-> an]
  <1>1. /\ service'.snap = service.snap /\ service'.item = [service.item EXCEPT ![i] = r]
        /\ service' = [snap |-> service'.snap, item |-> service'.item]
    BY DEF With
  <1>2. /\ r.state = st /\ r.base = ba /\ r.expired = ex /\ r.answer = an
        /\ Order(r)
    BY DEF Order
  <1> HIDE DEF r
  <1>3. /\ DOMAIN service'.item = Items /\ service'.item[i] = r
        /\ \A j \in Items : j # i => service'.item[j] = service.item[j]
        /\ service'.item = [j \in Items |-> service'.item[j]]
    BY <1>1 DEF Inv, Fields
  <1>4. QED BY <1>1, <1>2, <1>3 DEF Inv, Fields

LEMMA Taken ==
  ASSUME Inv, NEW i \in Items, NEW status, Take(i, status)
  PROVE  \E an :
            /\ service' = With(i, service.item[i].state, service.item[i].base, service.item[i].expired, an)
            /\ \/ an = service.item[i].answer
               \/ an = status /\ service.item[i].answer = None
               \/ an = status /\ service.item[i].answer = "saved" /\ status = "applied"
  <1> DEFINE old == service.item[i].answer
             an == IF old = None \/ (old = "saved" /\ status = "applied") THEN status ELSE old
  <1>1. PICK st, ba, ex, was : service.item[i] = [state |-> st, base |-> ba, expired |-> ex, answer |-> was]
    BY ItemShape
  <1>2. service = [snap |-> service.snap, item |-> service.item] BY DEF Inv, Fields
  <1>3. service' = [service EXCEPT !.item = [service.item EXCEPT ![i] = [service.item[i] EXCEPT !.answer = an]]]
    BY DEF Take
  <1>4. \/ an = old
        \/ an = status /\ old = None
        \/ an = status /\ old = "saved" /\ status = "applied"
    <2>1. CASE old = None \/ (old = "saved" /\ status = "applied")
      <3>1. an = status BY <2>1
      <3> HIDE DEF an, old
      <3>2. QED BY <2>1, <3>1
    <2>2. CASE ~(old = None \/ (old = "saved" /\ status = "applied"))
      <3>1. an = old BY <2>2
      <3> HIDE DEF an, old
      <3>2. QED BY <3>1
    <2>3. QED BY <2>1, <2>2
  <1> HIDE DEF an
  <1>5. [service.item[i] EXCEPT !.answer = an] = [state |-> st, base |-> ba, expired |-> ex, answer |-> an]
    BY <1>1
  <1>6. service' = [snap |-> service.snap, item |-> [service.item EXCEPT ![i] = [state |-> st, base |-> ba, expired |-> ex, answer |-> an]]]
    BY <1>2, <1>3, <1>5
  <1>7. service.item[i].state = st /\ service.item[i].base = ba /\ service.item[i].expired = ex BY <1>1
  <1>8. QED BY <1>4, <1>6, <1>7 DEF With

\* A receipt that arrives, whether or not its reply does.
LEMMA TakeInv ==
  ASSUME Inv, pass # Idle, pass.at = "receipt", Take(Head(pass.list), ledger[Head(pass.list)].receipt),
         UNCHANGED <<echo, ledger, published>>,
         \/ pass' = Idle
         \/ /\ pass' = [at |-> "apply", snap |-> pass.snap, list |-> Tail(pass.list), saw |-> pass.saw, left |-> pass.left]
            /\ Tail(pass.list) # <<>>
  PROVE  Inv'
  <1> DEFINE i == Head(pass.list)
  <1>1. /\ pass.list # <<>> /\ i \in Items /\ Decided(i) /\ 1 \in DOMAIN pass.list /\ i = pass.list[1]
        /\ \A k \in DOMAIN pass.list : service.item[pass.list[k]].state # "unborn"
        /\ pass.list \in Seq(Items)
    BY UnderWay DEF Inv, PassOK
  <1>2. service.item[i].state # "unborn" BY <1>1
  <1> HIDE DEF i
  <1>3. PICK an :
            /\ service' = With(i, service.item[i].state, service.item[i].base, service.item[i].expired, an)
            /\ \/ an = service.item[i].answer
               \/ an = ledger[i].receipt /\ service.item[i].answer = None
               \/ an = ledger[i].receipt /\ service.item[i].answer = "saved" /\ ledger[i].receipt = "applied"
    BY <1>1, Taken DEF i
  <1>4. /\ service' = [snap |-> service'.snap, item |-> service'.item] /\ service'.snap = service.snap
        /\ DOMAIN service'.item = Items /\ service'.item = [j \in Items |-> service'.item[j]]
        /\ service'.item[i].state = service.item[i].state /\ service'.item[i].base = service.item[i].base
        /\ service'.item[i].answer = an
        /\ \A j \in Items : j # i => service'.item[j] = service.item[j]
        /\ \A j \in Items : Order(service'.item[j])
    <2>1. i \in Items BY <1>1
    <2>2. service' = With(i, service.item[i].state, service.item[i].base, service.item[i].expired, an)
      BY <1>3
    <2> DEFINE st == service.item[i].state
               ba == service.item[i].base
               ex == service.item[i].expired
    <2>3. service' = With(i, st, ba, ex, an) BY <2>2
    <2> HIDE DEF st, ba, ex
    <2>4. /\ service' = [snap |-> service'.snap, item |-> service'.item] /\ service'.snap = service.snap
          /\ DOMAIN service'.item = Items /\ service'.item = [j \in Items |-> service'.item[j]]
          /\ service'.item[i].state = st /\ service'.item[i].base = ba
          /\ service'.item[i].answer = an
          /\ \A j \in Items : j # i => service'.item[j] = service.item[j]
          /\ \A j \in Items : Order(service'.item[j])
      BY <2>1, <2>3, ItemSet
    <2>5. QED BY <2>4 DEF st, ba
  <1>5. pass' # Idle =>
            /\ pass' = [at |-> pass'.at, snap |-> pass'.snap, list |-> pass'.list, saw |-> pass'.saw, left |-> pass'.left]
            /\ pass'.at = "apply" /\ pass'.list = Tail(pass.list) /\ pass'.snap = pass.snap
            /\ pass'.list \in Seq(Items) /\ pass'.list # <<>>
            /\ \A k \in DOMAIN pass'.list : \E m \in DOMAIN pass.list : pass'.list[k] = pass.list[m]
    <2> DEFINE rest == Tail(pass.list)
    <2>1. /\ rest \in Seq(Items)
          /\ \A k \in DOMAIN rest : k + 1 \in DOMAIN pass.list /\ rest[k] = pass.list[k + 1]
      BY <1>1
    <2>2. \A k \in DOMAIN rest : \E m \in DOMAIN pass.list : rest[k] = pass.list[m] BY <2>1
    <2> HIDE DEF rest
    <2>3. CASE pass' = Idle BY <2>3
    <2>4. CASE /\ pass' = [at |-> "apply", snap |-> pass.snap, list |-> rest, saw |-> pass.saw, left |-> pass.left]
               /\ rest # <<>>
      <3>1. /\ pass' = [at |-> pass'.at, snap |-> pass'.snap, list |-> pass'.list, saw |-> pass'.saw, left |-> pass'.left]
            /\ pass'.at = "apply" /\ pass'.list = rest /\ pass'.snap = pass.snap
        BY <2>4
      <3>2. QED BY <2>1, <2>2, <2>4, <3>1 DEF rest
    <2>5. QED BY <2>3, <2>4 DEF rest
  <1>6. \A j \in Items : service'.item[j].base = service.item[j].base /\ service'.item[j].state = service.item[j].state
    BY <1>4
  <1>7. Fields' BY <1>4, <1>5 DEF Inv, Fields
  <1>8. Numbers' /\ Generations' /\ PublishedOK'
    BY <1>4, <1>5, <1>6 DEF Inv, Numbers, Generations, PublishedOK, Key
  <1>9. Remembered'
    <2>1. ASSUME NEW j \in Items
          PROVE  LET told == service'.item[j].answer IN
                 /\ service'.item[j].state = "unborn" => told = None
                 /\ told # None /\ service'.item[j].base.gen = echo'.gen =>
                        /\ j \in DOMAIN ledger'
                        /\ ledger'[j].receipt = told \/ (told = "saved" /\ ledger'[j].receipt = "applied")
      <3>1. CASE j # i BY <1>4, <3>1 DEF Inv, Remembered
      <3>2. CASE j = i
        <4>1. i \in DOMAIN ledger /\ ledger[i].receipt # None /\ i \in Items BY <1>1 DEF Decided
        <4>2. LET told == service.item[i].answer IN
              told # None /\ service.item[i].base.gen = echo.gen =>
                  ledger[i].receipt = told \/ (told = "saved" /\ ledger[i].receipt = "applied")
          BY <1>1 DEF Inv, Remembered
        <4>3. an # None /\ service.item[i].base.gen = echo.gen =>
                  ledger[i].receipt = an \/ (an = "saved" /\ ledger[i].receipt = "applied")
          BY <1>3, <4>1, <4>2
        <4>4. service'.item[i].answer = an /\ service'.item[i].state # "unborn"
              /\ service'.item[i].base.gen = service.item[i].base.gen
          BY <1>2, <1>4
        <4>5. QED BY <3>2, <4>1, <4>3, <4>4
      <3>3. QED BY <3>1, <3>2
    <2>2. QED BY <2>1 DEF Remembered
  <1>10. PassOK'
    <2>1. CASE pass' = Idle BY <2>1 DEF PassOK
    <2>2. CASE pass' # Idle
      <3>1. \A k \in DOMAIN pass'.list : service'.item[pass'.list[k]].state # "unborn"
        <4>1. \A k \in DOMAIN pass.list : pass.list[k] \in Items BY <1>1
        <4>2. QED BY <1>1, <1>5, <1>6, <2>2, <4>1
      <3>2. QED BY <1>5, <2>2, <3>1 DEF PassOK, Applying
    <2>3. QED BY <2>1, <2>2
  <1>11. QED BY <1>7, <1>8, <1>9, <1>10 DEF Inv

LEMMA ReceiptInv == ASSUME Inv, Receipt PROVE Inv'
  <1>1. /\ pass # Idle /\ pass.at = "receipt" /\ Take(Head(pass.list), ledger[Head(pass.list)].receipt)
        /\ UNCHANGED <<echo, ledger, published>>
        /\ pass' = IF Tail(pass.list) = <<>> THEN Idle
                   ELSE [pass EXCEPT !.at = "apply", !.list = Tail(@)]
    BY DEF Receipt, Idle, disk
  <1>2. pass = [at |-> pass.at, snap |-> pass.snap, list |-> pass.list, saw |-> pass.saw, left |-> pass.left]
    BY <1>1, UnderWay
  <1>3. Tail(pass.list) # <<>> =>
            pass' = [at |-> "apply", snap |-> pass.snap, list |-> Tail(pass.list), saw |-> pass.saw, left |-> pass.left]
    BY <1>1, <1>2
  <1>4. QED BY <1>1, <1>3, TakeInv

LEMMA CallLostInv == ASSUME Inv, CallLost PROVE Inv'
  <1>1. /\ pass # Idle /\ pass' = Idle /\ UNCHANGED <<echo, ledger>>
        /\ published' = IF pass.at = "publish" THEN <<>> ELSE published
    BY DEF CallLost, Stop, Idle, disk
  <1>2. CASE UNCHANGED service BY <1>1, <1>2, CrashInv
  <1>3. CASE pass.at = "publish" /\ service' = [service EXCEPT !.snap = pass.snap]
    <2>1. service' = [snap |-> pass.snap, item |-> service.item] /\ published' = <<>>
      BY <1>1, <1>3 DEF Inv, Fields
    <2>2. service' = [snap |-> service'.snap, item |-> service'.item] /\ service'.item = service.item
          /\ service'.snap = pass.snap
      BY <2>1
    <2>3. Fields' BY <1>1, <2>2 DEF Inv, Fields
    <2>4. Numbers' /\ Generations' /\ Remembered' /\ PublishedOK' /\ PassOK'
      BY <1>1, <2>1, <2>2 DEF Inv, Numbers, Generations, Remembered, PublishedOK, PassOK
    <2>5. QED BY <2>3, <2>4 DEF Inv
  <1>4. CASE pass.at = "receipt" /\ Take(Head(pass.list), ledger[Head(pass.list)].receipt)
    BY <1>1, <1>4, TakeInv
  <1>5. QED BY <1>2, <1>3, <1>4 DEF CallLost

LEMMA Proposed ==
  ASSUME Inv, NEW i \in Items, Propose(i)
  PROVE  service' = With(i, "queued", service.snap, service.item[i].expired, service.item[i].answer)
  <1>1. service' = [service EXCEPT !.item[i].state = "queued", !.item[i].base = service.snap]
    BY DEF Propose
  <1>2. PICK st, ba, ex, an : service.item[i] = [state |-> st, base |-> ba, expired |-> ex, answer |-> an]
    BY ItemShape
  <1>3. service' = With(i, "queued", service.snap, ex, an)
    <2>1. service = [snap |-> service.snap, item |-> service.item] BY DEF Inv, Fields
    <2> DEFINE half == [service.item EXCEPT ![i] = [service.item[i] EXCEPT !.state = "queued"]]
               one == [service EXCEPT !.item[i].state = "queued"]
    <2>2. one = [snap |-> service.snap, item |-> half] BY <2>1
    <2>3. service' = [one EXCEPT !.item[i].base = service.snap] BY <1>1
    <2>4. half[i] = [state |-> "queued", base |-> ba, expired |-> ex, answer |-> an]
      BY <1>2 DEF Inv, Fields
    <2> HIDE DEF one
    <2>5. service' = [snap |-> service.snap, item |-> [half EXCEPT ![i] = [half[i] EXCEPT !.base = service.snap]]]
      BY <2>2, <2>3
    <2>6. [half[i] EXCEPT !.base = service.snap] = [state |-> "queued", base |-> service.snap, expired |-> ex, answer |-> an]
      BY <2>4
    <2>7. [half EXCEPT ![i] = [half[i] EXCEPT !.base = service.snap]]
            = [service.item EXCEPT ![i] = [state |-> "queued", base |-> service.snap, expired |-> ex, answer |-> an]]
      BY <2>6
    <2>8. QED BY <2>5, <2>7 DEF With
  <1>4. service.item[i].expired = ex /\ service.item[i].answer = an BY <1>2
  <1>5. QED BY <1>3, <1>4

LEMMA Expired ==
  ASSUME Inv, NEW i \in Items, Expire(i)
  PROVE  \E yes : service' = With(i, service.item[i].state, service.item[i].base, yes, service.item[i].answer)
  <1>1. PICK yes : service' = [service EXCEPT !.item[i].expired = yes] BY DEF Expire
  <1>2. PICK st, ba, ex, an : service.item[i] = [state |-> st, base |-> ba, expired |-> ex, answer |-> an]
    BY ItemShape
  <1>3. service = [snap |-> service.snap, item |-> service.item] BY DEF Inv, Fields
  <1>4. service' = [service EXCEPT !.item = [service.item EXCEPT ![i] = [service.item[i] EXCEPT !.expired = yes]]]
    BY <1>1
  <1>5. [service.item[i] EXCEPT !.expired = yes] = [state |-> st, base |-> ba, expired |-> yes, answer |-> an]
    BY <1>2
  <1>6. service' = With(i, st, ba, yes, an) BY <1>3, <1>4, <1>5 DEF With
  <1>7. service.item[i].state = st /\ service.item[i].base = ba /\ service.item[i].answer = an BY <1>2
  <1>8. QED BY <1>6, <1>7

LEMMA ProposeInv == ASSUME Inv, NEW i \in Items, Propose(i) PROVE Inv'
  <1>1. service.item[i].state = "unborn" /\ UNCHANGED <<echo, ledger, pass, published>>
    BY DEF Propose, disk
  <1> DEFINE an == service.item[i].answer
             ex == service.item[i].expired
  <1>3. service' = With(i, "queued", service.snap, ex, an) BY Proposed
  <1>5. an = None BY <1>1 DEF Inv, Remembered
  <1> HIDE DEF an, ex
  <1>4. /\ service' = [snap |-> service'.snap, item |-> service'.item] /\ service'.snap = service.snap
        /\ DOMAIN service'.item = Items /\ service'.item = [j \in Items |-> service'.item[j]]
        /\ service'.item[i].state = "queued" /\ service'.item[i].base = service.snap
        /\ service'.item[i].answer = an
        /\ \A j \in Items : j # i => service'.item[j] = service.item[j]
        /\ \A j \in Items : Order(service'.item[j])
    BY <1>3, ItemSet
  <1>6. Fields' BY <1>1, <1>4 DEF Inv, Fields
  <1>7. Numbers' /\ Generations' /\ PublishedOK'
    BY <1>1, <1>4 DEF Inv, Numbers, Generations, PublishedOK, Key
  <1>8. Remembered' BY <1>1, <1>4, <1>5 DEF Inv, Remembered
  <1>9. PassOK'
    <2>1. CASE pass = Idle BY <1>1, <2>1 DEF PassOK
    <2>2. CASE pass # Idle
      <3>1. /\ pass.list \in Seq(Items)
            /\ \A k \in DOMAIN pass.list : service.item[pass.list[k]].state # "unborn" /\ pass.list[k] \in Items
        BY <2>2, UnderWay DEF Inv, PassOK
      <3>2. \A k \in DOMAIN pass.list : service'.item[pass.list[k]] = service.item[pass.list[k]]
        BY <1>1, <1>4, <3>1
      <3>3. pass.list # <<>> => service'.item[Head(pass.list)] = service.item[Head(pass.list)]
        BY <2>2, <3>2, UnderWay
      <3>4. pass.list = <<>> => ~Applying /\ pass.at \notin {"latest", "receipt"} BY <2>2 DEF Inv, PassOK, Applying
      <3>5. QED BY <1>1, <1>4, <2>2, <3>1, <3>2, <3>3, <3>4 DEF Inv, PassOK, Applying, Decided, Undecided
    <2>3. QED BY <2>1, <2>2
  <1>10. QED BY <1>6, <1>7, <1>8, <1>9 DEF Inv

LEMMA ExpireInv == ASSUME Inv, NEW i \in Items, Expire(i) PROVE Inv'
  <1>1. UNCHANGED <<echo, ledger, pass, published>> BY DEF Expire, disk
  <1> DEFINE st == service.item[i].state
             ba == service.item[i].base
             an == service.item[i].answer
  <1>3. PICK yes : service' = With(i, st, ba, yes, an) BY Expired
  <1>5. service.item[i].state = st /\ service.item[i].base = ba /\ service.item[i].answer = an OBVIOUS
  <1> HIDE DEF st, ba, an
  <1>4. /\ service' = [snap |-> service'.snap, item |-> service'.item] /\ service'.snap = service.snap
        /\ DOMAIN service'.item = Items /\ service'.item = [j \in Items |-> service'.item[j]]
        /\ service'.item[i].state = st /\ service'.item[i].base = ba /\ service'.item[i].answer = an
        /\ \A j \in Items : j # i => service'.item[j] = service.item[j]
        /\ \A j \in Items : Order(service'.item[j])
    BY <1>3, ItemSet
  <1>6. \A j \in Items :
            /\ service'.item[j].state = service.item[j].state /\ service'.item[j].base = service.item[j].base
            /\ service'.item[j].answer = service.item[j].answer
    BY <1>4, <1>5
  <1>7. Fields' BY <1>1, <1>4 DEF Inv, Fields
  <1>8. Numbers' /\ Generations' /\ PublishedOK' /\ Remembered'
    BY <1>1, <1>4, <1>6 DEF Inv, Numbers, Generations, PublishedOK, Key, Remembered
  <1>9. PassOK'
    <2>1. CASE pass = Idle BY <1>1, <2>1 DEF PassOK
    <2>2. CASE pass # Idle
      <3>1. \A k \in DOMAIN pass.list : pass.list[k] \in Items BY <2>2, UnderWay
      <3>2. pass.list # <<>> => Head(pass.list) \in Items BY <2>2, UnderWay
      <3>3. pass.list = <<>> => ~Applying /\ pass.at \notin {"latest", "receipt"} BY <2>2 DEF Inv, PassOK, Applying
      <3>4. QED BY <1>1, <1>4, <1>6, <2>2, <3>1, <3>2, <3>3 DEF Inv, PassOK, Applying, Decided, Undecided
    <2>3. QED BY <2>1, <2>2
  <1>10. QED BY <1>7, <1>8, <1>9 DEF Inv

LEMMA NextInv == ASSUME IsFiniteSet(Items), Inv, [Next]_vars PROVE Inv'
  <1>1. CASE UNCHANGED vars BY <1>1, UntouchedInv DEF vars, disk
  <1>2. CASE Begin BY <1>2, BeginInv
  <1>3. CASE Publish BY <1>3, PublishInv
  <1>4. CASE Fetch BY <1>4, FetchInv
  <1>5. CASE Look BY <1>5, LookInv
  <1>6. CASE PlanAgain BY <1>6, PlanAgainInv
  <1>7. CASE PlanFirst BY <1>7, PlanFirstInv
  <1>8. CASE Compare BY <1>8, CompareInv
  <1>9. CASE Rename BY <1>9, RenameInv
  <1>10. CASE Finish BY <1>10, FinishInv
  <1>11. CASE Latest BY <1>11, LatestInv
  <1>12. CASE Receipt BY <1>12, ReceiptInv
  <1>13. CASE Observe BY <1>13, ObserveInv
  <1>14. CASE CallLost BY <1>14, CallLostInv
  <1>15. CASE Crash BY <1>15, CrashInv DEF Crash, Stop, disk
  <1>16. CASE NewGeneration BY <1>16, NewGenerationInv
  <1>17. CASE \E i \in Items : Propose(i) \/ Expire(i) BY <1>17, ProposeInv, ExpireInv
  <1>18. CASE Edit BY <1>18, UntouchedInv DEF Edit, disk
  <1>19. CASE Reload BY <1>19, UntouchedInv DEF Reload, disk
  <1>20. QED
    BY <1>1, <1>2, <1>3, <1>4, <1>5, <1>6, <1>7, <1>8, <1>9, <1>10, <1>11, <1>12, <1>13, <1>14,
       <1>15, <1>16, <1>17, <1>18, <1>19
    DEF Next, Machine

\* Whatever commands are queued and whatever each of them does, what the service
\* was told in this generation the ledger still knows, and no step between a
\* command's look at the ledger and its receipt meets another generation
\* (Apply and Exchange in apply.go and transport.go).
THEOREM LedgerInvariant == ASSUME IsFiniteSet(Items) PROVE Spec => []Inv
  <1>1. Init => Inv BY InitInv
  <1>2. Inv /\ [Next]_vars => Inv' BY NextInv
  <1>3. QED BY <1>1, <1>2, PTL DEF Spec

\* Nothing the service was told of a command is taken back while the ledger
\* lives: a receipt is final, and only a saved one may become applied.
THEOREM AnswersAreKept == ASSUME IsFiniteSet(Items) PROVE Spec => []AnswersStand
  <1>1. Inv => AnswersStand BY DEF Inv, Remembered, AnswersStand
  <1>2. QED BY <1>1, LedgerInvariant, PTL

\* Only the person edits.
LEMMA EditsStep == [Next]_vars => Edit \/ UNCHANGED edits
  <1>1. Begin \/ Publish \/ Fetch => UNCHANGED edits BY DEF Begin, Publish, Fetch, budget
  <1>2. Look \/ PlanAgain \/ PlanFirst => UNCHANGED edits BY DEF Look, PlanAgain, PlanFirst, budget
  <1>3. Compare \/ Rename \/ Finish => UNCHANGED edits BY DEF Compare, Rename, Finish, budget
  <1>4. Latest \/ Receipt \/ Observe => UNCHANGED edits BY DEF Latest, Receipt, Observe, budget
  <1>5. CallLost \/ Crash \/ NewGeneration => UNCHANGED edits BY DEF CallLost, Crash, NewGeneration
  <1>6. (\E i \in Items : Propose(i) \/ Expire(i)) => UNCHANGED edits BY DEF Propose, Expire, budget
  <1>7. Reload \/ UNCHANGED vars => UNCHANGED edits BY DEF Reload, vars, budget
  <1>8. QED BY <1>1, <1>2, <1>3, <1>4, <1>5, <1>6, <1>7 DEF Next, Machine

LEMMA EditsCounted == Spec => [](edits \in Nat)
  <1>1. Init => edits \in Nat BY DEF Init
  <1>2. edits \in Nat /\ [Next]_vars => (edits \in Nat)'
    <2>1. SUFFICES ASSUME edits \in Nat, [Next]_vars PROVE edits' \in Nat OBVIOUS
    <2>2. Edit => edits' = edits + 1 BY DEF Edit
    <2>3. edits' = edits \/ edits' = edits + 1 BY <2>1, <2>2, EditsStep
    <2>4. QED BY <2>1, <2>3
  <1>3. QED BY <1>1, <1>2, PTL DEF Spec

\* Only the rename of a command in hand is a write of the machine.
LEMMA OnlyRenameWrites ==
  ASSUME edits \in Nat, [Next]_vars, MachineWrites
  PROVE  Rename
  <1>1. files' # files /\ edits' = edits BY DEF MachineWrites
  <1>2. Edit => edits' = edits + 1 BY DEF Edit
  <1>3. ~Edit BY <1>1, <1>2
  <1>4. Begin \/ Publish \/ Fetch => UNCHANGED files BY DEF Begin, Publish, Fetch
  <1>5. Look \/ PlanAgain \/ PlanFirst => UNCHANGED files BY DEF Look, PlanAgain, PlanFirst
  <1>6. Compare \/ Finish \/ Latest => UNCHANGED files BY DEF Compare, Finish, Latest
  <1>7. Receipt \/ Observe \/ Reload => UNCHANGED files BY DEF Receipt, Observe, Reload
  <1>8. CallLost \/ Crash \/ NewGeneration => UNCHANGED files BY DEF CallLost, Crash, NewGeneration
  <1>9. (\E i \in Items : Propose(i) \/ Expire(i)) => UNCHANGED files BY DEF Propose, Expire
  <1>10. UNCHANGED vars => UNCHANGED files BY DEF vars
  <1>11. QED
    BY <1>1, <1>3, <1>4, <1>5, <1>6, <1>7, <1>8, <1>9, <1>10 DEF Next, Machine

\* The same edit is never made twice: the machine writes a file only for a
\* command the ledger has no receipt for and the service was never answered
\* about, whatever replies, processes and receipts were lost on the way.
THEOREM WrittenOnce == ASSUME IsFiniteSet(Items) PROVE Spec => [][AppliedAtMostOnce]_vars
  <1>1. ASSUME Inv, edits \in Nat, [Next]_vars PROVE [AppliedAtMostOnce]_vars
    <2>1. SUFFICES ASSUME MachineWrites PROVE AppliedAtMostOnce BY DEF AppliedAtMostOnce
    <2> DEFINE i == Head(pass.list)
    <2>2. Applying BY <1>1, <2>1, OnlyRenameWrites DEF Rename, Applying
    <2>3. i \in Items /\ i \in DOMAIN ledger /\ ledger[i].receipt = None
          /\ service.item[i].base.gen = echo.gen
      BY <1>1, <2>2, InHand DEF Undecided
    <2>4. service.item[i].answer = None
      <3> HIDE DEF i
      <3>1. QED BY <1>1, <2>3 DEF Inv, Remembered, None
    <2>5. QED BY <2>3, <2>4 DEF AppliedAtMostOnce
  <1>2. QED BY <1>1, LedgerInvariant, EditsCounted, PTL DEF Spec

\* A receipt changes one answer, a proposal or an expiry none.
LEMMA TakeAnswers ==
  ASSUME Inv, NEW h \in Items, NEW status, Take(h, status)
  PROVE  \A j \in Items : service'.item[j].answer # service.item[j].answer =>
             j = h /\ service'.item[j].answer = status
  <1>1. PICK an :
            /\ service' = With(h, service.item[h].state, service.item[h].base, service.item[h].expired, an)
            /\ \/ an = service.item[h].answer
               \/ an = status /\ service.item[h].answer = None
               \/ an = status /\ service.item[h].answer = "saved" /\ status = "applied"
    BY Taken
  <1> DEFINE st == service.item[h].state
             ba == service.item[h].base
             ex == service.item[h].expired
  <1>2. service' = With(h, st, ba, ex, an) BY <1>1
  <1> HIDE DEF st, ba, ex
  <1>3. /\ service' = [snap |-> service'.snap, item |-> service'.item] /\ service'.snap = service.snap
        /\ DOMAIN service'.item = Items /\ service'.item = [j \in Items |-> service'.item[j]]
        /\ service'.item[h].answer = an
        /\ \A j \in Items : j # h => service'.item[j] = service.item[j]
    BY <1>2, ItemSet
  <1>4. QED BY <1>1, <1>3

LEMMA OthersAnswers ==
  ASSUME Inv, NEW h \in Items, Propose(h) \/ Expire(h)
  PROVE  \A j \in Items : service'.item[j].answer = service.item[j].answer
  <1> DEFINE an == service.item[h].answer
  <1>1. \E st, ba, ex : service' = With(h, st, ba, ex, an) BY Proposed, Expired
  <1>2. PICK st, ba, ex : service' = With(h, st, ba, ex, an) BY <1>1
  <1> HIDE DEF an
  <1>3. /\ service' = [snap |-> service'.snap, item |-> service'.item] /\ service'.snap = service.snap
        /\ DOMAIN service'.item = Items /\ service'.item = [j \in Items |-> service'.item[j]]
        /\ service'.item[h].answer = an
        /\ \A j \in Items : j # h => service'.item[j] = service.item[j]
    BY <1>2, ItemSet
  <1>4. QED BY <1>3 DEF an

\* The service's answers change only when a receipt is put to it.
LEMMA OnlyReceiptsAnswer ==
  ASSUME Inv, [Next]_vars, NEW i \in Items, service'.item[i].answer # service.item[i].answer
  PROVE  /\ pass # Idle /\ pass.at = "receipt" /\ i = Head(pass.list)
         /\ service'.item[i].answer = ledger[i].receipt
  <1>1. ASSUME pass.at = "receipt", pass # Idle, Take(Head(pass.list), ledger[Head(pass.list)].receipt)
        PROVE  i = Head(pass.list) /\ service'.item[i].answer = ledger[i].receipt
    <2>1. Head(pass.list) \in Items BY <1>1, UnderWay DEF Inv, PassOK
    <2>2. QED BY <1>1, <2>1, TakeAnswers
  <1>2. ASSUME NEW j \in Items, Propose(j) \/ Expire(j) PROVE service'.item[i].answer = service.item[i].answer
    BY <1>2, OthersAnswers
  <1>3. ASSUME service' = [service EXCEPT !.snap = pass.snap] PROVE service'.item = service.item
    BY <1>3 DEF Inv, Fields
  <1>4. service'.item # service.item OBVIOUS
  <1>5. service' # service BY <1>4
  <1>6. CASE Receipt BY <1>1, <1>6 DEF Receipt, Idle
  <1>7. CASE CallLost
    <2>1. Take(Head(pass.list), ledger[Head(pass.list)].receipt) /\ pass.at = "receipt"
      BY <1>3, <1>4, <1>5, <1>7 DEF CallLost
    <2>2. pass # Idle BY <2>1 DEF Idle
    <2>3. QED BY <1>1, <2>1, <2>2
  <1>8. CASE Publish BY <1>3, <1>4, <1>5, <1>8 DEF Publish
  <1>9. ~\E j \in Items : Propose(j) \/ Expire(j) BY <1>2
  <1>10. QED
    BY <1>5, <1>6, <1>7, <1>8, <1>9 DEF Next, Machine, vars, Begin, Fetch, Look, PlanAgain, PlanFirst,
       Compare, Rename, Finish, Latest, Observe, Crash, NewGeneration, Edit, Reload

\* When the service learns that a command was saved or applied it already has a
\* snapshot of this generation that holds it, so the person's next proposal is
\* based on the new configuration.
THEOREM SnapshotComesFirst ==
  ASSUME IsFiniteSet(Items) PROVE Spec => [][SnapshotBeforeReceipt]_vars
  <1>1. ASSUME Inv, [Next]_vars PROVE [SnapshotBeforeReceipt]_vars
    <2>1. ASSUME NEW i \in Items, service'.item[i].answer # service.item[i].answer
          PROVE  service.snap.gen = echo.gen /\ service.snap.rev >= ledger[i].rev
      <3>1. pass # Idle /\ pass.at = "receipt" /\ i = Head(pass.list) BY <1>1, <2>1, OnlyReceiptsAnswer
      <3>2. Decided(i) /\ service.snap.gen = echo.gen /\ ledger[i].rev <= service.snap.rev
        BY <1>1, <3>1 DEF Inv, PassOK
      <3>3. ledger[i].rev \in Nat /\ service.snap.rev \in Nat
        BY <1>1, <3>2 DEF Inv, Numbers, Table, Decided
      <3>4. QED BY <3>2, <3>3
    <2>2. QED BY <2>1 DEF SnapshotBeforeReceipt
  <1>2. QED BY <1>1, LedgerInvariant, PTL DEF Spec

-----------------------------------------------------------------------------
(* The history of revisions, by which a proposal's base is recognised.     *)

Revision(r) == r = [rev |-> r.rev, digest |-> r.digest]
History ==
    /\ echo = [gen |-> echo.gen, rev |-> echo.rev, config |-> echo.config] /\ echo.rev \in Nat
    /\ IsFiniteSet(revisions)
    /\ \A r \in revisions : Revision(r) /\ r.rev \in Nat /\ r.rev <= echo.rev /\ echo.rev <= r.rev + Kept
    /\ \A r, q \in revisions : r.rev = q.rev => r = q

OneContentEach == \A r, q \in revisions : r.rev = q.rev => r = q

LEMMA HistoryStep ==
  ASSUME Kept \in Nat, History, NEW f, Record(f)
  PROVE  History'
  <1> DEFINE e == Recorded(f).echo
             now == [rev |-> e.rev, digest |-> f.own]
  <1>1. e = [gen |-> e.gen, rev |-> e.rev, config |-> e.config] /\ e.rev \in Nat /\ e.rev >= echo.rev
    <2>1. CASE echo.config = {f} BY <2>1 DEF Recorded, History
    <2>2. CASE echo.config # {f}
      <3>1. e = [echo EXCEPT !.rev = @ + 1, !.config = {f}] BY <2>2 DEF Recorded
      <3>2. e = [gen |-> echo.gen, rev |-> echo.rev + 1, config |-> {f}] BY <3>1 DEF History
      <3> HIDE DEF e
      <3>3. QED BY <3>2 DEF History
    <2>3. QED BY <2>1, <2>2
  <1>2. echo' = e
        /\ revisions' = {r \in revisions \cup {now} :
                            r.rev + Kept >= e.rev /\ (r.rev = e.rev => r.digest = f.own)}
    BY DEF Record, Recorded
  <1> HIDE DEF e
  <1>3. now.rev = e.rev /\ now.digest = f.own /\ Revision(now) BY DEF Revision
  <1> HIDE DEF now
  <1>4. IsFiniteSet(revisions')
    <2>1. IsFiniteSet(revisions \cup {now}) BY FS_AddElement DEF History
    <2>2. QED BY <1>2, <2>1, FS_Subset
  <1>5. \A r \in revisions' : Revision(r) /\ r.rev \in Nat /\ r.rev <= e.rev /\ e.rev <= r.rev + Kept
    BY <1>1, <1>2, <1>3 DEF History
  <1>6. \A r \in revisions' : r.rev = e.rev => r = now
    BY <1>2, <1>3, <1>5 DEF Revision
  <1>7. \A r \in revisions' : r.rev # e.rev => r \in revisions BY <1>2, <1>3
  <1>8. \A r, q \in revisions' : r.rev = q.rev => r = q BY <1>6, <1>7 DEF History
  <1>9. QED BY <1>1, <1>2, <1>4, <1>5, <1>8 DEF History

LEMMA HistoryKept ==
  ASSUME History, UNCHANGED <<echo, revisions>>
  PROVE  History'
  BY DEF History

LEMMA HistoryInv == ASSUME Kept \in Nat, History, [Next]_vars PROVE History'
  <1>1. (\E f : Record(f)) \/ UNCHANGED <<echo, revisions>> \/ NewGeneration
    <2>1. Begin => (\E f : Record(f)) \/ UNCHANGED <<echo, revisions>> BY DEF Begin
    <2>2. Publish \/ Fetch => UNCHANGED <<echo, revisions>> BY DEF Publish, Fetch, disk
    <2>3. Look => (\E f : Record(f)) \/ UNCHANGED <<echo, revisions>> BY DEF Look, disk
    <2>4. PlanAgain \/ PlanFirst \/ Compare \/ Rename => UNCHANGED <<echo, revisions>>
      BY DEF PlanAgain, PlanFirst, Compare, Rename
    <2>5. Finish => (\E f : Record(f)) \/ UNCHANGED <<echo, revisions>> BY DEF Finish, disk
    <2>6. Latest \/ Receipt => UNCHANGED <<echo, revisions>> BY DEF Latest, Receipt, disk
    <2>7. Observe => \E f : Record(f) BY DEF Observe
    <2>8. CallLost \/ Crash => UNCHANGED <<echo, revisions>> BY DEF CallLost, Crash, disk
    <2>9. (\E i \in Items : Propose(i) \/ Expire(i)) => UNCHANGED <<echo, revisions>>
      BY DEF Propose, Expire, disk
    <2>10. Edit \/ Reload \/ UNCHANGED vars => UNCHANGED <<echo, revisions>> BY DEF Edit, Reload, vars, disk
    <2>11. QED BY <2>1, <2>2, <2>3, <2>4, <2>5, <2>6, <2>7, <2>8, <2>9, <2>10 DEF Next, Machine
  <1>2. CASE \E f : Record(f) BY <1>2, HistoryStep
  <1>3. CASE UNCHANGED <<echo, revisions>> BY <1>3, HistoryKept
  <1>4. CASE NewGeneration
    <2>1. echo' = [gen |-> echo.gen + 1, rev |-> 0, config |-> {}] /\ revisions' = {}
      BY <1>4 DEF NewGeneration
    <2>2. QED BY <2>1, FS_EmptySet DEF History
  <1>5. QED BY <1>1, <1>2, <1>3, <1>4

LEMMA HistoryFits == ASSUME Kept \in Nat, History PROVE Cardinality(revisions) <= Kept + 1
  <1> DEFINE last == echo.rev
             first == IF last >= Kept THEN last - Kept ELSE 0
             window == first..last
             f == [r \in revisions |-> r.rev]
  <1>1. last \in Nat /\ first \in Nat /\ first <= last /\ last - first <= Kept BY DEF History
  <1>2. \A r \in revisions : r.rev \in window BY <1>1 DEF History
  <1>3. f \in Injection(revisions, window)
    <2>1. f \in [revisions -> window] BY <1>2
    <2>2. \A r, q \in revisions : f[r] = f[q] => r = q BY DEF History
    <2>3. DOMAIN f = revisions OBVIOUS
    <2> HIDE DEF f, window
    <2>4. QED BY <2>1, <2>2, <2>3 DEF Injection, IsInjective
  <1> HIDE DEF f, first, last
  <1>4. IsFiniteSet(window) /\ Cardinality(window) = last - first + 1 BY <1>1, FS_Interval
  <1>5. Cardinality(revisions) <= Cardinality(window) /\ Cardinality(revisions) \in Nat
    BY <1>3, <1>4, FS_Injection, FS_CardinalityType DEF History
  <1>6. QED BY <1>1, <1>4, <1>5

\* The history never outgrows its limit and never gives one revision two
\* contents, so what a proposal was based on is recognised by its number alone
\* (prune and SameBase in store.go), however often files change, the process
\* stops and generations begin.
THEOREM HistoryIsBounded ==
  ASSUME Kept \in Nat
  PROVE  Spec => [](OneContentEach /\ Cardinality(revisions) <= Kept + 1)
  <1>1. Init => History
    <2>1. SUFFICES ASSUME Init PROVE History OBVIOUS
    <2>2. echo = [gen |-> 1, rev |-> 1, config |-> {files}] /\ revisions = {[rev |-> 1, digest |-> files.own]}
      BY <2>1 DEF Init
    <2>3. IsFiniteSet(revisions) BY <2>2, FS_Singleton
    <2>4. \A r \in revisions : Revision(r) /\ r.rev = 1 /\ r = [rev |-> 1, digest |-> files.own]
      BY <2>2 DEF Revision
    <2>5. QED BY <2>2, <2>3, <2>4 DEF History
  <1>2. History /\ [Next]_vars => History' BY HistoryInv
  <1>3. History => OneContentEach /\ Cardinality(revisions) <= Kept + 1
    BY HistoryFits DEF History, OneContentEach
  <1>4. QED BY <1>1, <1>2, <1>3, PTL DEF Spec

==============================================================================
