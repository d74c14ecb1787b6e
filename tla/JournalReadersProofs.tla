------------------------ MODULE JournalReadersProofs ------------------------
(***************************************************************************)
(* What reads the event journal, for any number of calls, endpoints, rows  *)
(* and troubles, and any size of a page and of the journal.  The doorbell  *)
(* needs one conjunct more than its property, RingOK; the consumer needs   *)
(* to know what a page leaves out, which is what lemma Page says.          *)
(***************************************************************************)
EXTENDS JournalReaders, Integers, FiniteSetTheorems, WellFoundedInduction, TLAPS

Journal ==
    /\ high \in Nat /\ floor \in Nat /\ floor <= high
    /\ rows \in [1..high -> Event]

Doorbell ==
    /\ connected \in BOOLEAN /\ target \in Target /\ answered \in BOOLEAN
    /\ ringing \in Nat /\ ringing <= high
    /\ delivered \in [Target -> Nat] /\ \A t \in Target : delivered[t] <= high
    /\ heard \in [Target -> Nat] /\ \A t \in Target : heard[t] <= high

Consumer == cursor \in Nat /\ cursor <= high

\* What is about to be acknowledged was heard by the endpoint it was rung at.
RingOK == answered => ringing <= heard[target]

Inv == Journal /\ Doorbell /\ Consumer /\ RingOK /\ AcknowledgedWasHeard /\ NothingSkipped

\* What the store and the consumer are configured with.
Sizes ==
    /\ MaxEvents \in Nat /\ Chunk \in Nat /\ Limit \in Nat \ {0} /\ ScanLimit \in Nat \ {0}
    /\ Target # {}
-----------------------------------------------------------------------------
(* Greatest and least members of finite sets of numbers.                   *)

Above(S, m) == {k \in S : k > m}
Below(S, m) == {k \in S : k < m}

LEMMA Smallest ==
    ASSUME NEW S, NEW T, IsFiniteSet(S), T # {}, \A A \in T : A \subseteq S
    PROVE  \E A \in T : \A B \in T : B \subseteq A => B = A
  <1> DEFINE R == StrictSubsetOrdering(S)
             F == FiniteSubsetsOf(S)
  <1>1. IsWellFoundedOn(R, F) BY FS_StrictSubsetOrderingWellFounded
  <1>2. F = SUBSET S BY FS_FiniteSubsetsOfFinite
  <1>3. PICK A \in T : \A B \in T : <<B, A>> \notin R
    <2> HIDE DEF R, F
    <2> QED BY <1>1, <1>2, WFMin
  <1> QED BY <1>3 DEF StrictSubsetOrdering

LEMMA Greatest ==
    ASSUME NEW S, S \subseteq Nat, IsFiniteSet(S), S # {}
    PROVE  Max(S) \in S /\ \A k \in S : k <= Max(S)
  <1> DEFINE T == {Above(S, m) : m \in S}
  <1>1. T # {} /\ \A A \in T : A \subseteq S
    <2>1. \A m : Above(S, m) \subseteq S BY DEF Above
    <2> QED BY <2>1
  <1>2. PICK A \in T : \A B \in T : B \subseteq A => B = A
    <2> HIDE DEF T
    <2> QED BY ONLY <1>1, IsFiniteSet(S), Smallest
  <1>3. PICK m \in S : A = Above(S, m) OBVIOUS
  <1>4. \A k \in S : m >= k
    <2> SUFFICES ASSUME NEW k \in S, k > m PROVE FALSE BY S \subseteq Nat
    <2>1. k \in Nat /\ m \in Nat BY S \subseteq Nat
    <2>2. ASSUME NEW x \in Above(S, k) PROVE x \in Above(S, m) BY <2>1, S \subseteq Nat DEF Above
    <2>3. k \in Above(S, m) /\ k \notin Above(S, k) BY <2>1 DEF Above
    <2> QED BY <1>2, <1>3, <2>2, <2>3
  <1>5. Max(S) \in S /\ \A k \in S : Max(S) >= k BY <1>4 DEF Max
  <1> QED BY <1>5, S \subseteq Nat

LEMMA First ==
    ASSUME NEW S, S \subseteq Nat, IsFiniteSet(S), S # {}
    PROVE  \E m \in S : \A k \in S : m <= k
  <1> DEFINE T == {Below(S, m) : m \in S}
  <1>1. T # {} /\ \A A \in T : A \subseteq S
    <2>1. \A m : Below(S, m) \subseteq S BY DEF Below
    <2> QED BY <2>1
  <1>2. PICK A \in T : \A B \in T : B \subseteq A => B = A
    <2> HIDE DEF T
    <2> QED BY ONLY <1>1, IsFiniteSet(S), Smallest
  <1>3. PICK m \in S : A = Below(S, m) OBVIOUS
  <1>4. \A k \in S : m <= k
    <2> SUFFICES ASSUME NEW k \in S, k < m PROVE FALSE BY S \subseteq Nat
    <2>1. k \in Nat /\ m \in Nat BY S \subseteq Nat
    <2>2. ASSUME NEW x \in Below(S, k) PROVE x \in Below(S, m) BY <2>1, S \subseteq Nat DEF Below
    <2>3. k \in Below(S, m) /\ k \notin Below(S, k) BY <2>1 DEF Below
    <2> QED BY <1>2, <1>3, <2>2, <2>3
  <1> QED BY <1>4

LEMMA MaxOfTwo ==
    ASSUME NEW a \in Nat, NEW b \in Nat
    PROVE  Max({a, b}) = IF a >= b THEN a ELSE b
  BY DEF Max

LEMMA MinOfTwo ==
    ASSUME NEW a \in Nat, NEW b \in Nat
    PROVE  Min({a, b}) = IF a <= b THEN a ELSE b
  BY DEF Min

-----------------------------------------------------------------------------
(* What the operators of the readers return.                               *)

\* Pruning keeps the floor between where it was and the rows there are.
LEMMA Pruned ==
    ASSUME Journal, Sizes, NEW age \in floor..high, NEW r \in {0, 1}
    PROVE  PruneTo(age, r) \in Nat /\ floor <= PruneTo(age, r) /\ PruneTo(age, r) <= high + r
  <1> DEFINE S == {floor, age, high + r - MaxEvents} \cap Nat
  <1>1. floor \in S /\ S \subseteq Nat /\ \A k \in S : k <= high + r BY DEF Journal, Sizes
  <1>2. IsFiniteSet(S)
    <2>1. high + r \in Nat BY DEF Journal
    <2> HIDE DEF S
    <2> QED BY <1>1, <2>1, FS_BoundedSetOfNaturals
  <1>3. Max(S) \in S /\ \A k \in S : k <= Max(S)
    <2> HIDE DEF S
    <2> QED BY <1>1, <1>2, Greatest
  <1>4. PruneTo(age, r) = Max(S) BY DEF PruneTo
  <1> HIDE DEF S
  <1> QED BY <1>1, <1>3, <1>4

\* A set of rows is a finite set of numbers.
LEMMA RowsFinite ==
    ASSUME Journal, NEW S, S \subseteq 1..high
    PROVE  S \subseteq Nat /\ IsFiniteSet(S)
  <1>1. S \subseteq Nat /\ \A k \in S : k <= high BY DEF Journal
  <1> QED BY <1>1, FS_BoundedSetOfNaturals DEF Journal

\* A scan, and a page of it, is a beginning of what it was asked for, and all
\* of it unless it is full.
LEMMA Page ==
    ASSUME NEW most \in Nat \ {0}, NEW S, S \subseteq Nat, IsFiniteSet(S)
    PROVE  /\ Foremost(S, most) \subseteq S
           /\ \A m \in Foremost(S, most), k \in S : k <= m => k \in Foremost(S, most)
           /\ Foremost(S, most) # S => Cardinality(Foremost(S, most)) = most
  <1> DEFINE page == Foremost(S, most)
  <1>1. page = {n \in S : Cardinality(Below(S, n)) < most} BY DEF Foremost, Below
  <1>2. ASSUME NEW n PROVE IsFiniteSet(Below(S, n)) /\ Cardinality(Below(S, n)) \in Nat
    <2>1. Below(S, n) \in SUBSET S BY DEF Below
    <2> QED BY <2>1, FS_Subset, FS_CardinalityType
  <1>3. ASSUME NEW m \in page, NEW k \in S, k <= m PROVE k \in page
    <2>1. Below(S, k) \subseteq Below(S, m)
      <3>1. k \in Nat /\ m \in Nat BY <1>1
      <3>2. ASSUME NEW x \in Below(S, k) PROVE x \in Below(S, m) BY <1>3, <3>1 DEF Below
      <3> QED BY <3>2
    <2>2. Cardinality(Below(S, k)) <= Cardinality(Below(S, m)) BY <1>2, <2>1, FS_Subset
    <2>3. Cardinality(Below(S, m)) < most BY <1>1
    <2>4. Cardinality(Below(S, k)) < most BY <1>2, <2>2, <2>3
    <2> QED BY <1>1, <2>4
  <1>4. ASSUME page # S PROVE Cardinality(page) = most
    <2>1. page \in SUBSET S BY <1>1
    <2>2. IsFiniteSet(page) /\ Cardinality(page) \in Nat BY <2>1, FS_Subset, FS_CardinalityType
    <2>3. PICK w \in S \ page : \A k \in S \ page : w <= k
      <3>1. S \ page \in SUBSET S /\ S \ page # {} BY <1>4, <2>1
      <3>2. S \ page \subseteq Nat /\ IsFiniteSet(S \ page) BY <3>1, FS_Subset
      <3> HIDE DEF page
      <3> QED BY ONLY <3>1, <3>2, First
    <2>4. w \in Nat /\ page \subseteq Nat BY <2>1
    <2>5. page = Below(S, w)
      <3>1. ASSUME NEW x \in page PROVE x \in Below(S, w)
        <4>1. x \in S /\ x \in Nat BY <2>1, <3>1
        <4>2. ~ (w <= x) BY <1>3, <2>3, <3>1
        <4> QED BY <4>1, <4>2, <2>4 DEF Below
      <3>2. ASSUME NEW x \in Below(S, w) PROVE x \in page
        <4>1. x \in S /\ x \in Nat /\ x < w BY <3>2 DEF Below
        <4>2. ~ (w <= x) BY <4>1, <2>4
        <4> QED BY <4>1, <4>2, <2>3
      <3> QED BY <3>1, <3>2
    <2>6. Cardinality(page) >= most
      <3>1. ~ (Cardinality(Below(S, w)) < most) BY <1>1, <2>3
      <3> QED BY <3>1, <2>2, <2>5
    <2>7. Cardinality(page) <= most
      <3>1. page # {} BY <2>2, <2>6, FS_EmptySet
      <3> DEFINE m == Max(page)
      <3>2. m \in page /\ \A k \in page : k <= m
        <4> HIDE DEF page
        <4> QED BY <2>2, <2>4, <3>1, Greatest
      <3>3. Cardinality(Below(S, m)) < most BY <1>1, <3>2
      <3>4. page \subseteq Below(S, m) \cup {m}
        <4>1. ASSUME NEW x \in page, x # m PROVE x \in Below(S, m)
          <5>1. x \in Nat /\ m \in Nat /\ x <= m BY <2>4, <3>2, <4>1
          <5> QED BY <5>1, <4>1, <2>1 DEF Below
        <4> QED BY <4>1
      <3>5. /\ IsFiniteSet(Below(S, m) \cup {m})
            /\ Cardinality(Below(S, m) \cup {m}) <= Cardinality(Below(S, m)) + 1
        <4>1. IsFiniteSet(Below(S, m)) /\ Cardinality(Below(S, m)) \in Nat BY <1>2
        <4>2. /\ IsFiniteSet(Below(S, m) \cup {m})
              /\ Cardinality(Below(S, m) \cup {m}) =
                     IF m \in Below(S, m) THEN Cardinality(Below(S, m)) ELSE Cardinality(Below(S, m)) + 1
          BY ONLY <4>1, FS_AddElement
        <4> QED BY <4>1, <4>2
      <3>6. Cardinality(page) <= Cardinality(Below(S, m) \cup {m}) BY <3>4, <3>5, FS_Subset
      <3>7. Cardinality(Below(S, m)) \in Nat BY <1>2
      <3>8. Cardinality(Below(S, m) \cup {m}) \in Nat BY <3>5, FS_CardinalityType
      <3> QED BY <2>2, <3>3, <3>5, <3>6, <3>7, <3>8
    <2> QED BY <2>2, <2>6, <2>7
  <1> QED BY <1>1, <1>3, <1>4

-----------------------------------------------------------------------------
(* The steps.                                                              *)

\* A consumer who keeps its place and its pages is skipped nothing by rows
\* that come and go.
LEMMA NotSkipped ==
    ASSUME Journal, Consumer, NothingSkipped, UNCHANGED <<cursor, got, expired>>,
           \A n \in 1..high : rows'[n] = rows[n]
    PROVE  NothingSkipped'
  <1> SUFFICES ASSUME NEW n \in 1..cursor, rows'[n].type \in Finished
               PROVE  n \in got \cup expired
    BY DEF NothingSkipped
  <1>1. n \in 1..high BY DEF Journal, Consumer
  <1> QED BY <1>1 DEF NothingSkipped

\* A row is inserted, by this process or by its sibling.
LEMMA AppendInv ==
    ASSUME Sizes, Inv, NEW e \in Event, Post(e) \/ SiblingAppend(e)
    PROVE  Inv'
  <1> USE DEF Inv, Journal, Doorbell, Consumer, RingOK, AcknowledgedWasHeard, journal, bell, consumer, Trouble, Post, SiblingAppend
  <1>a. AppendTx(e) /\ UNCHANGED <<bell, consumer>> /\ connected' \in BOOLEAN OBVIOUS
  <1>b. floor' \in Nat /\ floor' <= high + 1 BY <1>a, Pruned DEF AppendTx
  <1>c. high' = high + 1 BY <1>a DEF AppendTx
  <1>d. rows' \in [1..high' -> Event] /\ \A n \in 1..high : rows'[n] = rows[n]
    <2>1. rows' = [n \in (1..high) \cup {high + 1} |-> IF n = high + 1 THEN e ELSE rows[n]]
      BY <1>a DEF AppendTx
    <2>2. (1..high) \cup {high + 1} = 1..(high + 1) OBVIOUS
    <2>3. \A n \in 1..high : n # high + 1 OBVIOUS
    <2> QED BY <1>c, <2>1, <2>2, <2>3
  <1>1. Journal' BY <1>b, <1>c, <1>d
  <1>2. Doorbell' BY <1>a, <1>c
  <1>3. Consumer' BY <1>a, <1>c
  <1>4. RingOK' BY <1>a
  <1>5. AcknowledgedWasHeard' BY <1>a
  <1>6. NothingSkipped' BY <1>a, <1>d, NotSkipped
  <1> QED BY <1>1, <1>2, <1>3, <1>4, <1>5, <1>6 DEF Inv

\* Rows go, by age, by number or for their pages.
LEMMA PruneInv == ASSUME Sizes, Inv, Prune \/ Reclaim PROVE Inv'
  <1> USE DEF Inv, Journal, Doorbell, Consumer, RingOK, AcknowledgedWasHeard, journal, bell, consumer, Trouble, Prune, Reclaim
  <1>a. UNCHANGED <<rows, high, connected, bell, consumer>> OBVIOUS
  <1>b. floor' \in Nat /\ floor' <= high
    <2>1. CASE Prune
      <3>1. PICK n \in floor..high : floor' = PruneTo(n, 0) BY <2>1
      <3> QED BY <3>1, Pruned
    <2>2. CASE Reclaim
      <3>1. floor' = Min({high, floor + Chunk}) /\ floor + Chunk \in Nat BY <2>2 DEF Sizes
      <3> QED BY <3>1, MinOfTwo
    <2> QED BY <2>1, <2>2
  <1>1. Journal' BY <1>a, <1>b
  <1>2. Doorbell' BY <1>a
  <1>3. Consumer' BY <1>a
  <1>4. RingOK' BY <1>a
  <1>5. AcknowledgedWasHeard' BY <1>a
  <1>6. NothingSkipped' BY <1>a, NotSkipped
  <1> QED BY <1>1, <1>2, <1>3, <1>4, <1>5, <1>6 DEF Inv

\* The doorbell's failures, and a new life of the daemon.
LEMMA BellFailsInv == ASSUME Inv, SiblingFails \/ Ring \/ RingFails \/ Restart PROVE Inv'
  <1> USE DEF Inv, Journal, Doorbell, Consumer, RingOK, AcknowledgedWasHeard, journal, bell, consumer, Trouble,
              SiblingFails, Ring, RingFails, Restart
  <1>1. Journal' OBVIOUS
  <1>2. Doorbell'
    <2>1. UNCHANGED <<journal, delivered, heard>> OBVIOUS
    <2>2. connected' \in BOOLEAN /\ answered' \in BOOLEAN OBVIOUS
    <2>3. target' \in Target OBVIOUS
    <2>4. ringing' \in Nat /\ ringing' <= high OBVIOUS
    <2> QED BY <2>1, <2>2, <2>3, <2>4
  <1>3. Consumer' OBVIOUS
  <1>4. RingOK' OBVIOUS
  <1>5. AcknowledgedWasHeard' OBVIOUS
  <1>6. NothingSkipped' BY NotSkipped
  <1> QED BY <1>1, <1>2, <1>3, <1>4, <1>5, <1>6 DEF Inv

\* The endpoint hears how far the journal reaches.
LEMMA DeliverInv == ASSUME Inv, Deliver PROVE Inv'
  <1> USE DEF Inv, Journal, Doorbell, Consumer, RingOK, AcknowledgedWasHeard, journal, bell, consumer, Trouble, Deliver
  <1> DEFINE far == IF heard[target] >= ringing THEN heard[target] ELSE ringing
  <1>a. far \in Nat /\ far <= high /\ far >= ringing /\ far >= heard[target] OBVIOUS
  <1>b. heard' = [heard EXCEPT ![target] = far] BY MaxOfTwo
  <1> HIDE DEF far
  <1>c. UNCHANGED <<journal, connected, target, delivered, ringing, cursor, got, expired>> OBVIOUS
  <1> HIDE DEF Deliver
  <1>1. Journal' BY <1>c
  <1>2. Doorbell' 
    <2>1. answered' = TRUE BY DEF Deliver
    <2> QED BY <1>a, <1>b, <1>c, <2>1
  <1>3. Consumer' BY <1>c
  <1>4. RingOK' BY <1>a, <1>b, <1>c
  <1>5. AcknowledgedWasHeard' BY <1>a, <1>b, <1>c
  <1>6. NothingSkipped' BY <1>c, NotSkipped
  <1> QED BY <1>1, <1>2, <1>3, <1>4, <1>5, <1>6 DEF Inv

\* What the endpoint heard is recorded as delivered.
LEMMA AcknowledgeInv == ASSUME Inv, Acknowledge PROVE Inv'
  <1> USE DEF Inv, Journal, Doorbell, Consumer, RingOK, AcknowledgedWasHeard, journal, bell, consumer, Trouble, Acknowledge
  <1> DEFINE far == IF delivered[target] >= ringing THEN delivered[target] ELSE ringing
  <1>a. far \in Nat /\ far <= high /\ far <= heard[target] OBVIOUS
  <1>b. delivered' = [delivered EXCEPT ![target] = far] BY MaxOfTwo
  <1> HIDE DEF far
  <1>c. UNCHANGED <<journal, connected, target, consumer>> /\ ringing' = 0 /\ answered' = FALSE OBVIOUS
  <1> HIDE DEF Acknowledge
  <1>1. Journal' BY <1>c
  <1>2. Doorbell'
    <2>1. delivered' \in [Target -> Nat] /\ \A t \in Target : delivered'[t] <= high BY <1>a, <1>b
    <2>2. /\ connected' = connected /\ target' = target /\ high' = high /\ heard' = heard
          /\ ringing' = 0
      BY <1>c
    <2>3. answered' \in BOOLEAN BY <1>c
    <2> QED BY <2>1, <2>2, <2>3
  <1>3. Consumer' BY <1>c
  <1>4. RingOK' BY <1>c
  <1>5. AcknowledgedWasHeard' BY <1>a, <1>b, <1>c
  <1>6. NothingSkipped' BY <1>c, NotSkipped
  <1> QED BY <1>1, <1>2, <1>3, <1>4, <1>5, <1>6 DEF Inv

\* The consumer starts again.
LEMMA ResumeInv == ASSUME Inv, Resume PROVE Inv'
  <1> USE DEF Inv, Journal, Doorbell, Consumer, RingOK, AcknowledgedWasHeard, journal, bell, consumer, Trouble, Resume
  <1>1. Journal' OBVIOUS
  <1>2. Doorbell' OBVIOUS
  <1>3. Consumer' OBVIOUS
  <1>4. RingOK' OBVIOUS
  <1>5. AcknowledgedWasHeard' OBVIOUS
  <1>6. NothingSkipped' BY DEF NothingSkipped
  <1> QED BY <1>1, <1>2, <1>3, <1>4, <1>5, <1>6 DEF Inv

\* The consumer reads a page: the cursor stops where the page does if it is
\* full, and where the scan does otherwise, so that nothing is left behind.
LEMMA ReadInv == ASSUME Sizes, Inv, Read PROVE Inv'
  <1> USE DEF Inv, Journal, Doorbell, Consumer, RingOK, AcknowledgedWasHeard, journal, bell, consumer, Trouble, Read
  <1> DEFINE Reach == {n \in Retained : n > From /\ n <= Through}
             F == {n \in Scanned : rows[n].type \in Finished}
             page == PageOf(F)
  <1>a. cursor < Through /\ ~Refused /\ cursor' = NextCursor(page) /\ got' = got \cup page
    OBVIOUS
  <1>b. UNCHANGED <<journal, connected, bell, heard>> OBVIOUS
  <1>c. expired \subseteq expired' /\ (cursor = 0 => 1..floor \subseteq expired') OBVIOUS
  <1>d. Through \in Nat /\ Through <= high BY DEF Through
  <1>e. From = (IF cursor >= floor THEN cursor ELSE floor) BY MaxOfTwo DEF From
  <1>r. /\ Reach = {n \in 1..high : n > floor /\ n > From /\ n <= Through}
        /\ Reach \subseteq Nat /\ IsFiniteSet(Reach)
    <2>1. Reach = {n \in 1..high : n > floor /\ n > From /\ n <= Through} BY DEF Retained
    <2> QED BY <2>1, RowsFinite
  <1>s. /\ Scanned \subseteq Reach
        /\ \A m \in Scanned, k \in Reach : k <= m => k \in Scanned
        /\ Scanned # Reach => Cardinality(Scanned) = ScanLimit
    <2>1. Scanned = Foremost(Reach, ScanLimit) BY DEF Scanned
    <2>2. ScanLimit \in Nat \ {0} BY DEF Sizes
    <2>3. Reach \subseteq Nat /\ IsFiniteSet(Reach) BY <1>r
    <2> HIDE DEF Reach
    <2>4. /\ Foremost(Reach, ScanLimit) \subseteq Reach
          /\ \A m \in Foremost(Reach, ScanLimit), k \in Reach : k <= m => k \in Foremost(Reach, ScanLimit)
          /\ Foremost(Reach, ScanLimit) # Reach => Cardinality(Foremost(Reach, ScanLimit)) = ScanLimit
      BY ONLY <2>2, <2>3, Page
    <2> QED BY ONLY <2>1, <2>4
  <1>f. Scanned \subseteq Nat /\ IsFiniteSet(Scanned)
    <2>1. Scanned \in SUBSET Reach BY <1>s
    <2> QED BY <1>r, <2>1, FS_Subset
  <1>g. F \subseteq Nat /\ IsFiniteSet(F) /\ F \subseteq Scanned
    <2>1. F \in SUBSET Scanned OBVIOUS
    <2> QED BY <1>f, <2>1, FS_Subset
  <1>h. /\ page \subseteq F
        /\ \A m \in page, k \in F : k <= m => k \in page
        /\ page # F => Cardinality(page) = Limit
    <2>1. page = Foremost(F, Limit) BY DEF PageOf
    <2>2. Limit \in Nat \ {0} BY DEF Sizes
    <2> HIDE DEF F
    <2>3. F \subseteq Nat /\ IsFiniteSet(F) BY <1>g
    <2> HIDE DEF F
    <2>4. /\ Foremost(F, Limit) \subseteq F
          /\ \A m \in Foremost(F, Limit), k \in F : k <= m => k \in Foremost(F, Limit)
          /\ Foremost(F, Limit) # F => Cardinality(Foremost(F, Limit)) = Limit
      BY ONLY <2>2, <2>3, Page
    <2> HIDE DEF page
    <2> QED BY ONLY <2>1, <2>4
  <1> HIDE DEF Reach, F, page, Read
  <1>i. Cardinality(page) = Limit => Max(page) \in page /\ \A k \in page : k <= Max(page)
    <2> SUFFICES ASSUME Cardinality(page) = Limit
                 PROVE  Max(page) \in page /\ \A k \in page : k <= Max(page)
      OBVIOUS
    <2>1. page \in SUBSET F BY <1>h
    <2>2. IsFiniteSet(page) /\ page \subseteq Nat BY <1>g, <2>1, FS_Subset
    <2>3. page # {} BY FS_EmptySet DEF Sizes
    <2> QED BY <2>2, <2>3, Greatest
  <1>j. Scanned # {} => Max(Scanned) \in Scanned BY <1>f, Greatest
  <1>t. Scanned = {} => Reach = {}
    <2> SUFFICES ASSUME Scanned = {}, Reach # {} PROVE FALSE OBVIOUS
    <2>1. Cardinality(Scanned) = ScanLimit BY <1>s
    <2> QED BY <2>1, FS_EmptySet DEF Sizes
  <1>k. cursor' \in Nat /\ cursor' <= Through
    <2>1. CASE Cardinality(page) = Limit
      <3>1. cursor' = Max(page) /\ Max(page) \in Scanned BY <1>a, <1>g, <1>h, <1>i, <2>1 DEF NextCursor
      <3> QED BY <1>r, <1>s, <3>1
    <2>2. CASE Cardinality(page) # Limit
      <3>1. cursor' = IF Scanned = {} THEN Through ELSE Max(Scanned) BY <1>a, <2>2 DEF NextCursor
      <3> QED BY <1>d, <1>r, <1>s, <1>j, <3>1
    <2> QED BY <2>1, <2>2
  <1>l. ASSUME NEW n \in 1..cursor', rows[n].type \in Finished PROVE n \in got' \cup expired'
    <2>1. CASE n <= cursor BY <2>1, <1>a, <1>c, <1>l DEF NothingSkipped
    <2>2. CASE n > cursor /\ n <= floor
      <3>1. cursor < floor BY <2>2
      <3>2. cursor = 0 BY <3>1, <1>a DEF Refused
      <3> QED BY <3>2, <1>c, <2>2
    <2>3. CASE n > cursor /\ n > floor
      <3>1. n \in 1..high /\ n <= Through /\ n > From BY <2>3, <1>d, <1>e, <1>k
      <3>2. n \in Reach BY <3>1, <2>3, <1>r
      <3>3. CASE Cardinality(page) = Limit
        <4>1. cursor' = Max(page) BY <1>a, <3>3 DEF NextCursor
        <4>2. n <= Max(page) /\ Max(page) \in page BY <4>1, <3>3, <1>i, <1>k, <1>l
        <4>3. Max(page) \in Scanned BY <4>2, <1>g, <1>h
        <4>4. n \in F BY <3>2, <4>2, <4>3, <1>s, <1>l DEF F
        <4>5. n \in page BY <4>2, <4>4, <1>h
        <4> QED BY <4>5, <1>a
      <3>4. CASE Cardinality(page) # Limit
        <4>1. Scanned # {} BY <3>2, <1>t
        <4>2. n <= Max(Scanned) /\ Max(Scanned) \in Scanned BY <4>1, <3>4, <1>a, <1>j, <1>k, <1>l DEF NextCursor
        <4>3. n \in F BY <3>2, <4>2, <1>s, <1>l DEF F
        <4> QED BY <4>3, <3>4, <1>h, <1>a
      <3> QED BY <3>3, <3>4
    <2> QED BY <2>1, <2>2, <2>3, <1>k
  <1>1. Journal' BY <1>b
  <1>2. Doorbell' BY <1>b
  <1>3. Consumer' BY <1>b, <1>d, <1>k
  <1>4. RingOK' BY <1>b
  <1>5. AcknowledgedWasHeard' BY <1>b
  <1>6. NothingSkipped' BY <1>b, <1>l DEF NothingSkipped
  <1> QED BY <1>1, <1>2, <1>3, <1>4, <1>5, <1>6 DEF Inv

\* `doorman calls` lists a call once: the greatest of its best summaries is
\* listed, and whatever else is retained of the call is passed over for it.
LEMMA OneSummary == ASSUME Journal PROVE OneSummaryPerCall
  <1> SUFFICES ASSUME NEW c \in Call
               PROVE
        LET of(type) == {n \in Retained : rows[n].type = type /\ rows[n].call = c}
            all == UNION {of(t) : t \in Finished}
            best == IF of("session.finished") # {} THEN of("session.finished") ELSE of("call.finished") IN
        all # {} => {n \in Summaries : rows[n].call = c} = {Max(best)}
    BY DEF OneSummaryPerCall
  <1> DEFINE of(type) == {n \in Retained : rows[n].type = type /\ rows[n].call = c}
             all == UNION {of(t) : t \in Finished}
             best == IF of("session.finished") # {} THEN of("session.finished") ELSE of("call.finished")
             m == Max(best)
  <1> SUFFICES ASSUME all # {} PROVE {n \in Summaries : rows[n].call = c} = {m} OBVIOUS
  <1>1. Retained \subseteq 1..high BY DEF Retained, Journal
  <1>2. best # {} /\ best \subseteq 1..high BY <1>1 DEF Finished
  <1>3. m \in best /\ \A k \in best : k <= m
    <2> HIDE DEF best
    <2> QED BY <1>2, RowsFinite, Greatest
  <1>4. \A n \in best : n \in Retained /\ n \in Nat /\ rows[n].type \in Finished /\ rows[n].call = c
    BY <1>1 DEF Finished
  <1>5. \A k \in Retained : rows[k].type = "session.finished" /\ rows[k].call = c => k \in best OBVIOUS
  <1>6. \A k \in Retained : rows[k].type = rows[m].type /\ rows[k].call = c => k \in best BY <1>3
  <1>7. \A k \in best : rows[k].type = rows[m].type BY <1>3
  <1>8. \A k \in Retained :
          rows[k].type \in Finished /\ rows[k].call = c /\ k \notin best =>
              rows[k].type = "call.finished" /\ rows[m].type = "session.finished"
    BY <1>3 DEF Finished
  <1> HIDE DEF best, m
  <1>9. m \in Summaries
    <2> SUFFICES ASSUME NEW k \in Retained, rows[k].type \in Finished, rows[k].call = rows[m].call,
                        \/ rows[k].type = "session.finished" /\ rows[m].type = "call.finished"
                        \/ rows[k].type = rows[m].type /\ k > m
                 PROVE  FALSE
      BY <1>3, <1>4 DEF Summaries
    <2>1. rows[k].call = c /\ k \in Nat /\ m \in Nat BY <1>1, <1>3, <1>4
    <2>2. CASE rows[k].type = "session.finished" /\ rows[m].type = "call.finished"
      BY <2>1, <2>2, <1>5, <1>7
    <2>3. CASE rows[k].type = rows[m].type /\ k > m BY <2>1, <2>3, <1>3, <1>6
    <2> QED BY <2>2, <2>3
  <1>10. ASSUME NEW n \in Summaries, rows[n].call = c PROVE n = m
    <2>1. /\ n \in Retained /\ rows[n].type \in Finished
          /\ ~ (rows[m].type = "session.finished" /\ rows[n].type = "call.finished")
          /\ ~ (rows[m].type = rows[n].type /\ m > n)
      BY <1>3, <1>4, <1>10 DEF Summaries
    <2>2. n \in best BY <2>1, <1>8, <1>10
    <2> QED BY <2>1, <2>2, <1>3, <1>4, <1>7
  <1> QED BY <1>3, <1>4, <1>9, <1>10
-----------------------------------------------------------------------------
LEMMA InitInv == ASSUME Sizes, Init PROVE Inv
  <1> USE DEF Init, Sizes
  <1>1. Journal
    <2>1. 1..0 = {} OBVIOUS
    <2> QED BY <2>1 DEF Journal
  <1>2. Doorbell /\ Consumer
    <2>1. target \in Target OBVIOUS
    <2>2. delivered \in [Target -> Nat] /\ \A t \in Target : delivered[t] = 0 OBVIOUS
    <2>3. heard \in [Target -> Nat] /\ \A t \in Target : heard[t] = 0 OBVIOUS
    <2>4. connected \in BOOLEAN /\ answered \in BOOLEAN OBVIOUS
    <2>5. ringing = 0 /\ high = 0 /\ cursor = 0 OBVIOUS
    <2> HIDE DEF Init
    <2>6. Doorbell BY <2>1, <2>2, <2>3, <2>4, <2>5 DEF Doorbell
    <2> QED BY <2>5, <2>6 DEF Consumer
  <1>3. RingOK /\ AcknowledgedWasHeard /\ NothingSkipped
    BY DEF RingOK, AcknowledgedWasHeard, NothingSkipped
  <1> QED BY <1>1, <1>2, <1>3 DEF Inv

LEMMA StutterInv == ASSUME Inv, UNCHANGED vars PROVE Inv'
  <1> USE DEF Inv, vars, journal, bell, consumer
  <1>1. Journal' /\ Doorbell' /\ Consumer' BY DEF Journal, Doorbell, Consumer
  <1>2. RingOK' /\ AcknowledgedWasHeard' BY DEF RingOK, AcknowledgedWasHeard
  <1>3. NothingSkipped' BY NotSkipped
  <1> QED BY <1>1, <1>2, <1>3

LEMMA NextInv == ASSUME Sizes PROVE Inv /\ [Next]_vars => Inv'
  <1> SUFFICES ASSUME Inv, [Next]_vars PROVE Inv' OBVIOUS
  <1>1. CASE UNCHANGED vars BY <1>1, StutterInv
  <1>2. ASSUME NEW e \in Event, Post(e) \/ SiblingAppend(e) PROVE Inv' BY <1>2, AppendInv
  <1>3. CASE Prune \/ Reclaim BY <1>3, PruneInv
  <1>4. CASE SiblingFails \/ Ring \/ RingFails \/ Restart BY <1>4, BellFailsInv
  <1>5. CASE Deliver \/ Acknowledge BY <1>5, DeliverInv, AcknowledgeInv
  <1>6. CASE Read \/ Resume BY <1>6, ReadInv, ResumeInv
  <1> QED BY <1>1, <1>2, <1>3, <1>4, <1>5, <1>6 DEF Next

LEMMA InvSuffices == Inv => TypeOK /\ AcknowledgedWasHeard /\ NothingSkipped /\ OneSummaryPerCall
  <1>1. Inv => TypeOK BY DEF Inv, Journal, Doorbell, Consumer, TypeOK
  <1>2. Inv => OneSummaryPerCall BY OneSummary DEF Inv
  <1> QED BY <1>1, <1>2 DEF Inv

\* The journal, its doorbell and its consumer stand to each other as Inv says,
\* through every append, deletion, lost answer and restart.
THEOREM ReadersInvariant == ASSUME Sizes PROVE Spec => []Inv
  <1>1. Init => Inv BY InitInv
  <1>2. Inv /\ [Next]_vars => Inv' BY NextInv
  <1> QED BY <1>1, <1>2, PTL DEF Spec

\* Sequences, cursors and announcements stay within the journal.
THEOREM TypeCorrect == ASSUME Sizes PROVE Spec => []TypeOK
  <1>1. Inv => TypeOK BY InvSuffices
  <1> QED BY ReadersInvariant, <1>1, PTL

\* The doorbell's delivery state (doorbell.go) is never ahead of what that
\* endpoint was told.
THEOREM NothingAcknowledgedUnheard == ASSUME Sizes PROVE Spec => []AcknowledgedWasHeard
  <1>1. Inv => AcknowledgedWasHeard BY InvSuffices
  <1> QED BY ReadersInvariant, <1>1, PTL

\* A consumer that pages with its cursor (queries.go) is given every row of a
\* call behind it, or told that it has lost it.
THEOREM PagesSkipNothing == ASSUME Sizes PROVE Spec => []NothingSkipped
  <1>1. Inv => NothingSkipped BY InvSuffices
  <1> QED BY ReadersInvariant, <1>1, PTL

\* A call with a summary retained is listed once, whichever of its two
\* summaries came first.
THEOREM CallsAreListedOnce == ASSUME Sizes PROVE Spec => []OneSummaryPerCall
  <1>1. Inv => OneSummaryPerCall BY InvSuffices
  <1> QED BY ReadersInvariant, <1>1, PTL
=============================================================================
