-------------------------- MODULE AccountStoreProofs --------------------------
(***************************************************************************)
(* The account's credential for every number of enrolments, tokens and     *)
(* requests under way.  That the next token is one the service takes is    *)
(* not inductive: a request sent with an older token may yet be served, a  *)
(* late reply may yet be settled, and a command holds a copy that it may   *)
(* or may not save.  Inv says of the stored credential and of that copy    *)
(* alike that the service takes its next token, that nobody else will use  *)
(* the successor first, and that no reply still on its way is about it     *)
(* unless it was asked with it.                                            *)
(***************************************************************************)
EXTENDS AccountStore, FiniteSetTheorems, TLAPS

Token == [current : Nat, pending : Nat]
Store == [box : Nat, removed : BOOLEAN, needsLogin : BOOLEAN, token : Token, device : BOOLEAN]
Request == [at : {"sent", "replied"}, box : Nat, used : Token, token : Nat,
            reply : {"none", "ok", "removed", "unauthorized"}]
Working == [at : {"login", "rotate", "save"}, copy : Store]

Types ==
    /\ v \in Store
    /\ caller \in [Callers -> {Idle} \cup Request]
    /\ command \in {Free} \cup Working
    /\ Enrolled \in Nat \ {0}
    /\ box \in [1..Enrolled -> {"live", "removed", "revoked"}]
    /\ minted \in Nat /\ current \in 1..minted /\ successor \in 0..minted
    /\ lost \in Nat

\* The room a rotation saw when it began is still there when it is served.
Bounds ==
    /\ minted <= MaxTokens /\ lost <= MaxLost
    /\ command.at = "rotate" => minted < MaxTokens

\* What holds of a store, the one on disk and the copy of a command.
StoreOK(w) ==
    /\ w.box \in 1..Enrolled
    /\ w.removed => w.needsLogin
    /\ ~w.needsLogin => w.token.current # 0
    /\ w.token.pending # 0 => w.token.current < w.token.pending
    /\ w.token.current <= minted /\ w.token.pending <= minted

Live(b) == b = Enrolled /\ box[b] = "live"

Busy(c) == caller[c].at \in {"sent", "replied"}

\* It is signed in, its next token is one the service takes, and nobody will
\* use the successor before it does.
InService(w) ==
    Live(w.box) =>
        /\ ~w.needsLogin
        /\ Chosen(w.token) \in {current, successor}
        /\ \A c \in Callers :
               caller[c].at = "sent" /\ caller[c].box = w.box /\ caller[c].token = successor
                   => Chosen(w.token) = successor

\* What a request was made with is of this enrolment, or of an older one whose
\* tokens are all older than these.
Newer(w) ==
    \A c \in Callers : Busy(c) =>
        /\ caller[c].box \in 1..w.box
        /\ caller[c].box < w.box /\ w.token.current # 0 => caller[c].used.current < w.token.current

\* A request carries what its credential chose, and a refusal is the last word
\* on its enrolment.
RequestOK(c) ==
    Busy(c) =>
        /\ caller[c].used.current \in 1..minted
        /\ caller[c].used.pending <= minted
        /\ caller[c].token = Chosen(caller[c].used)
        /\ caller[c].at = "replied" => caller[c].reply # "none"
        /\ caller[c].reply \in {"removed", "unauthorized"} => ~Live(caller[c].box)

CopyOK ==
    /\ command.at = "login" => command.copy = v /\ v.needsLogin
    /\ command.at = "rotate" => command.copy = v /\ ~v.needsLogin
    /\ command.at = "save" =>
           StoreOK(command.copy) /\ InService(command.copy) /\ Newer(command.copy)

Inv ==
    /\ Types
    /\ StoreOK(v) /\ InService(v) /\ Newer(v)
    /\ \A c \in Callers : RequestOK(c)
    /\ CopyOK

\* Enrolments are numbered in the order they are made.
LEMMA Counted == \A n \in Nat : Cardinality(1..n) = n
  <1> TAKE n \in Nat
  <1>1. Cardinality(1..n) = IF 1 > n THEN 0 ELSE n - 1 + 1 BY FS_Interval
  <1>2. QED BY <1>1

LEMMA SameEnrolments ==
  ASSUME Types, DOMAIN box' = DOMAIN box
  PROVE  Enrolled' = Enrolled
  BY DEF Enrolled

LEMMA InitInv == Init => Inv
  <1> SUFFICES ASSUME Init PROVE Inv OBVIOUS
  <1> USE DEF Init
  <1>1. DOMAIN box = 1..1 OBVIOUS
  <1>2. Enrolled = 1 BY <1>1, Counted DEF Enrolled
  <1>3. Types BY <1>2 DEF Types, Store, Token, Free, server
  <1>4. StoreOK(v) /\ InService(v) BY <1>2 DEF StoreOK, InService, Chosen, Live, Idle
  <1>5. Newer(v) /\ (\A c \in Callers : RequestOK(c)) BY DEF Newer, RequestOK, Busy, Idle
  <1>6. CopyOK BY DEF CopyOK, Free
  <1>7. QED BY <1>3, <1>4, <1>5, <1>6 DEF Inv

LEMMA StutterInv == Inv /\ UNCHANGED vars => Inv'
  <1> SUFFICES ASSUME Inv, UNCHANGED vars PROVE Inv' OBVIOUS
  <1> USE DEF Inv, vars, server
  <1>1. Enrolled' = Enrolled BY SameEnrolments
  <1>2. QED
    BY <1>1 DEF Types, StoreOK, InService, Newer, RequestOK, CopyOK, Live, Busy

LEMMA OwnerRemovesInv == ASSUME Inv, OwnerRemoves PROVE Inv'
  <1> USE DEF Inv, OwnerRemoves
  <1>1. DOMAIN box' = DOMAIN box OBVIOUS
  <1>2. Enrolled' = Enrolled BY <1>1, SameEnrolments
  <1>3. Types' BY <1>2 DEF Types
  <1>4. \A b : Live(b)' => Live(b) BY <1>2 DEF Live, Types
  <1>5. StoreOK(v)' BY <1>2 DEF StoreOK
  <1>6. InService(v)' BY <1>4 DEF InService
  <1>7. Newer(v)' BY DEF Newer, Busy
  <1>8. (\A c \in Callers : RequestOK(c))' BY <1>4 DEF RequestOK, Busy
  <1>9. CopyOK' BY <1>2, <1>4 DEF CopyOK, StoreOK, InService, Newer, Busy
  <1>10. QED BY <1>3, <1>5, <1>6, <1>7, <1>8, <1>9


LEMMA OwnerApprovesInv == ASSUME Inv, OwnerApproves PROVE Inv'
  <1> USE DEF Inv, OwnerApproves
  <1>1. Enrolled' = Enrolled BY SameEnrolments
  <1>2. QED
    BY <1>1 DEF Types, StoreOK, InService, Newer, RequestOK, CopyOK, Live, Busy

LEMMA SyncCredentialInv ==
  ASSUME Inv, NEW c \in Callers, SyncCredential(c)
  PROVE  Inv'
  <1> USE DEF Inv, SyncCredential, server
  <1> DEFINE r == [at |-> "sent", box |-> v.box, used |-> v.token,
                   token |-> Chosen(v.token), reply |-> "none"]
  <1>1. Enrolled' = Enrolled BY SameEnrolments
  <1>2. command = Free /\ command' = Free BY DEF Locked, Types, Free, Working
  <1>3. v \in Store /\ v.token \in Token BY DEF Types, Store
  <1>4. Chosen(v.token) \in Nat BY <1>3 DEF Chosen, Token
  <1>5. r \in Request BY <1>3, <1>4 DEF Request, Store
  <1>6. caller' = [caller EXCEPT ![c] = r] OBVIOUS
  <1> HIDE DEF r
  <1>7. /\ r.at = "sent" /\ r.box = v.box /\ r.used = v.token
        /\ r.token = Chosen(v.token) /\ r.reply = "none"
    BY DEF r
  <1>8. \A d \in Callers : caller'[d] = IF d = c THEN r ELSE caller[d]
    BY <1>6 DEF Types
  <1>9. Types' BY <1>1, <1>2, <1>5, <1>6 DEF Types
  <1>10. StoreOK(v)' BY <1>1 DEF StoreOK
  <1>11. InService(v)' BY <1>1, <1>7, <1>8 DEF InService, Live
  <1>12. Newer(v)'
    BY <1>3, <1>7, <1>8 DEF Newer, Busy, Types, Store, StoreOK
  <1>13. (\A d \in Callers : RequestOK(d))'
    <2> SUFFICES ASSUME NEW d \in Callers PROVE RequestOK(d)' OBVIOUS
    <2>1. CASE d = c
      BY <1>3, <1>7, <1>8, <2>1 DEF RequestOK, Busy, StoreOK, Token, Types
    <2>2. CASE d # c BY <1>1, <1>8, <2>2 DEF RequestOK, Busy, Live
    <2>3. QED BY <2>1, <2>2
  <1>14. CopyOK' BY <1>2 DEF CopyOK, Free
  <1>15. QED BY <1>9, <1>10, <1>11, <1>12, <1>13, <1>14

\* What the service does to a request leaves a credential in service.
LEMMA ServedInService ==
  ASSUME Inv, NEW c \in Callers, Served(c),
         NEW w \in Store, InService(w)
  PROVE  Live(w.box)' =>
           /\ ~w.needsLogin
           /\ Chosen(w.token) \in {current', successor'}
           /\ \A d \in Callers :
                  caller'[d].at = "sent" /\ caller'[d].box = w.box /\ caller'[d].token = successor'
                      => Chosen(w.token) = successor'
  <1> SUFFICES ASSUME Live(w.box)'
               PROVE  /\ ~w.needsLogin
                      /\ Chosen(w.token) \in {current', successor'}
                      /\ \A d \in Callers :
                             caller'[d].at = "sent" /\ caller'[d].box = w.box /\ caller'[d].token = successor'
                                 => Chosen(w.token) = successor'
    OBVIOUS
  <1> DEFINE b == caller[c].box
             t == caller[c].token
  <1> USE DEF Inv
  <1>1. DOMAIN box' = DOMAIN box BY DEF Served, Use
  <1>2. Enrolled' = Enrolled BY <1>1, SameEnrolments
  <1>3. w.box = Enrolled /\ box[w.box] = "live" /\ box' [w.box] = "live"
    BY <1>2 DEF Live, Served, Use, Types
  <1>4. ~w.needsLogin /\ Chosen(w.token) \in {current, successor}
    BY <1>3 DEF InService, Live
  <1>5. caller[c].at = "sent" /\ RequestOK(c) /\ Busy(c) BY DEF Served, Busy
  <1>6. t \in 1..minted /\ t # 0
    BY <1>5 DEF RequestOK, Chosen, Types, Request, Token, Idle, Served
  <1>7. \A d \in Callers : caller'[d].at = "sent" => caller'[d] = caller[d]
    BY DEF Served, Types
  <1>8. \A d \in Callers : caller[d].at = "sent" => caller[d].token # 0
    BY DEF RequestOK, Busy, Chosen, Types, Request, Token, Idle
  <1>9. CASE b = Enrolled /\ t = successor
    <2>1. Chosen(w.token) = successor
      BY <1>3, <1>5, <1>9 DEF InService, Live
    <2>2. current' = successor /\ successor' = 0
      BY <1>3, <1>9 DEF Served, Use
    <2>3. QED BY <1>4, <1>7, <1>8, <2>1, <2>2
  <1>10. CASE ~(b = Enrolled /\ t = successor)
    <2>1. current' = current /\ successor' = successor
      BY <1>10 DEF Served, Use
    <2>2. QED BY <1>3, <1>4, <1>7, <2>1 DEF InService, Live
  <1>11. QED BY <1>9, <1>10

LEMMA ServedInv ==
  ASSUME Inv, NEW c \in Callers, Served(c)
  PROVE  Inv'
  <1> USE DEF Inv
  <1>1. DOMAIN box' = DOMAIN box BY DEF Served, Use
  <1>2. Enrolled' = Enrolled BY <1>1, SameEnrolments
  <1>3. caller[c] \in Request /\ caller[c].at = "sent" /\ Busy(c) /\ RequestOK(c)
    BY DEF Served, Types, Idle, Busy
  <1>4. PICK reply \in {"ok", "removed", "unauthorized"} :
           reply = Reply(caller[c].box, caller[c].token)
    BY DEF Reply
  <1>5. caller[c].box \in 1..Enrolled
    BY <1>3 DEF Newer, StoreOK, Types, Request, Store
  <1>6. \A d \in Callers :
           caller'[d] = IF d = c THEN [caller[c] EXCEPT !.at = "replied", !.reply = reply] ELSE caller[d]
    BY <1>4 DEF Served, Types
  <1>7. \A d \in Callers :
           /\ caller'[d].at = (IF d = c THEN "replied" ELSE caller[d].at)
           /\ Busy(d) => caller'[d].box = caller[d].box /\ caller'[d].used = caller[d].used
                         /\ caller'[d].token = caller[d].token
           /\ caller'[d].reply = (IF d = c THEN reply ELSE caller[d].reply)
    <2>1. LET r == [caller[c] EXCEPT !.at = "replied", !.reply = reply] IN
          /\ r.at = "replied" /\ r.reply = reply /\ r.box = caller[c].box
          /\ r.used = caller[c].used /\ r.token = caller[c].token
      BY <1>3 DEF Request
    <2>2. QED BY <1>6, <2>1
  <1>8. \A d \in Callers : Busy(d)' <=> Busy(d) BY <1>3, <1>7 DEF Busy
  <1>9. Types'
    <2>1. caller' \in [Callers -> {Idle} \cup Request]
      <3>1. [caller[c] EXCEPT !.at = "replied", !.reply = reply] \in Request
        BY <1>3, <1>4 DEF Request
      <3>2. caller' = [caller EXCEPT ![c] = [caller[c] EXCEPT !.at = "replied", !.reply = reply]]
        BY <1>4 DEF Served
      <3>3. QED BY <3>1, <3>2 DEF Types
    <2>2. box' \in [1..Enrolled -> {"live", "removed", "revoked"}]
      BY <1>5 DEF Served, Use, Types
    <2>3. current' \in 1..minted /\ successor' \in 0..minted
      BY <1>3 DEF Served, Use, Types, RequestOK, Chosen, Request, Token
    <2>4. QED BY <1>2, <2>1, <2>2, <2>3 DEF Types, Served
  <1>10. v' = v /\ command' = command /\ minted' = minted BY DEF Served
  <1>11. \A b \in 1..Enrolled : Live(b)' => Live(b)
    BY <1>2, <1>5 DEF Live, Served, Use, Types
  <1>12. StoreOK(v)' BY <1>2, <1>10 DEF StoreOK
  <1>13. InService(v)'
    <2>1. v \in Store /\ InService(v) BY DEF Types
    <2>2. QED BY <1>10, <2>1, ServedInService DEF InService
  <1>14. Newer(v)' BY <1>7, <1>8, <1>10 DEF Newer
  <1>15. (\A d \in Callers : RequestOK(d))'
    <2> SUFFICES ASSUME NEW d \in Callers, Busy(d) PROVE RequestOK(d)' BY <1>8 DEF RequestOK
    <2>1. CASE d = c
      <3>1. reply \in {"removed", "unauthorized"} => ~Live(caller[c].box)'
        BY <1>2, <1>4, <1>5 DEF Reply, Served, Use, Live, Types
      <3>2. QED BY <1>3, <1>4, <1>7, <1>10, <2>1, <3>1 DEF RequestOK, Live
    <2>2. CASE d # c
      <3>1. caller[d].box \in 1..Enrolled
        BY DEF Newer, StoreOK, Types, Request, Store, Busy, Idle
      <3>2. QED BY <1>7, <1>10, <1>11, <2>2, <3>1 DEF RequestOK
    <2>3. QED BY <2>1, <2>2
  <1>16. CopyOK'
    <2>1. ASSUME command.at = "save"
          PROVE  (StoreOK(command.copy) /\ InService(command.copy) /\ Newer(command.copy))'
      <3>1. command.copy \in Store BY <2>1 DEF Types, Free, Working
      <3>2. StoreOK(command.copy)' BY <1>2, <1>10, <2>1 DEF CopyOK, StoreOK
      <3>3. InService(command.copy) BY <2>1 DEF CopyOK
      <3>4. InService(command.copy)' BY <1>10, <3>1, <3>3, ServedInService DEF InService
      <3>5. Newer(command.copy)' BY <1>7, <1>8, <1>10, <2>1 DEF CopyOK, Newer
      <3>6. QED BY <3>2, <3>4, <3>5
    <2>2. QED BY <1>10, <2>1 DEF CopyOK
  <1>17. QED BY <1>9, <1>12, <1>13, <1>14, <1>15, <1>16

\* A settlement writes to the store only what the reply was about.
LEMMA SettledStore ==
  ASSUME Inv, NEW c \in Callers, Settle(c)
  PROVE  /\ v' \in Store /\ v'.box = v.box
         /\ v'.removed => v'.needsLogin
         /\ ~v'.needsLogin =>
                /\ ~v.needsLogin
                /\ Chosen(v'.token) = Chosen(v.token) /\ v'.token.current # 0
         /\ Live(v.box) => v'.needsLogin = v.needsLogin
         /\ v'.token.pending # 0 => v'.token = v.token
         /\ v'.token.current # 0 => v'.token.current >= v.token.current /\ v.token.current # 0
         /\ v'.token.current <= minted
  <1> USE DEF Inv
  <1>1. caller[c] \in Request /\ caller[c].at = "replied" /\ Busy(c) /\ RequestOK(c)
    BY DEF Settle, Types, Idle, Busy
  <1>2. v \in Store /\ v.token \in Token /\ caller[c].used \in Token /\ StoreOK(v)
    BY <1>1 DEF Types, Store, Request
  <1>3. CASE v' = v BY <1>2, <1>3 DEF StoreOK, Token, Types
  <1>4. CASE v' = Removed(v) /\ caller[c].reply = "removed" /\ v.box = caller[c].box
    <2>1. /\ v'.box = v.box /\ v'.removed = TRUE /\ v'.needsLogin = TRUE
          /\ v'.token = NoToken /\ v' \in Store
      BY <1>2, <1>4 DEF Removed, Store, Token, NoToken
    <2>2. ~Live(v.box) BY <1>1, <1>4 DEF RequestOK
    <2>3. QED BY <2>1, <2>2 DEF NoToken, Types
  <1>5. CASE v' = [v EXCEPT !.needsLogin = TRUE] /\ v.token = caller[c].used /\ caller[c].reply = "unauthorized"
    <2>1. v' \in Store /\ v'.box = v.box /\ v'.needsLogin = TRUE /\ v'.token = v.token
      BY <1>2, <1>5 DEF Store
    <2>2. caller[c].box = v.box
      BY <1>1, <1>2, <1>5 DEF Newer, RequestOK, Token, Request, Store
    <2>3. ~Live(v.box) BY <1>1, <1>5, <2>2 DEF RequestOK
    <2>4. QED BY <1>2, <2>1, <2>3 DEF StoreOK, Token, Types
  <1>6. CASE /\ v' = [v EXCEPT !.token = [NoToken EXCEPT !.current = caller[c].used.pending]]
             /\ v.token = caller[c].used /\ caller[c].used.pending # 0
    <2>1. /\ v'.box = v.box /\ v'.needsLogin = v.needsLogin /\ v'.removed = v.removed
          /\ v'.token = [current |-> v.token.pending, pending |-> 0] /\ v' \in Store
      BY <1>2, <1>6 DEF Store, Token, NoToken
    <2>2. Chosen(v'.token) = Chosen(v.token) BY <1>6, <2>1 DEF Chosen
    <2>3. v.token.current # 0 BY <1>1, <1>6 DEF RequestOK, Types
    <2>4. QED BY <1>2, <1>6, <2>1, <2>2, <2>3 DEF StoreOK, Token, Types
  <1>7. v' = v \/ (v' = Removed(v) /\ caller[c].reply = "removed" /\ v.box = caller[c].box)
               \/ (c = "sync" /\ SettleSync(c))
    BY DEF Settle, SettleRemoved
  <1>8. QED BY <1>3, <1>4, <1>5, <1>6, <1>7 DEF SettleSync

LEMMA SettleInv ==
  ASSUME Inv, NEW c \in Callers, Settle(c)
  PROVE  Inv'
  <1> USE DEF Inv
  <1>1. UNCHANGED <<command, server, lost>> /\ command = Free
    BY DEF Settle, Locked, Types, Free, Working
  <1>2. Enrolled' = Enrolled BY <1>1, SameEnrolments DEF server
  <1>3. \A d \in Callers : caller'[d] = IF d = c THEN Idle ELSE caller[d] BY DEF Settle, Types
  <1>4. \A d \in Callers : Busy(d)' => Busy(d) /\ caller'[d] = caller[d] BY <1>3 DEF Busy, Idle
  <1>5. Types' BY <1>1, <1>2, SettledStore DEF Types, server, Settle
  <1>6. StoreOK(v)' BY <1>1, <1>2, SettledStore DEF StoreOK, server, Types
  <1>7. InService(v)'
    BY <1>1, <1>2, <1>4, SettledStore DEF InService, Live, server, Busy
  <1>8. Newer(v)'
    <2> SUFFICES ASSUME NEW d \in Callers, Busy(d)'
                 PROVE  /\ caller'[d].box \in 1..v'.box
                        /\ caller'[d].box < v'.box /\ v'.token.current # 0
                               => caller'[d].used.current < v'.token.current
      BY DEF Newer
    <2>1. caller[d] \in Request /\ Busy(d) /\ caller'[d] = caller[d]
      BY <1>4 DEF Types, Busy, Idle
    <2>2. caller[d].used.current \in Nat /\ v.token.current \in Nat /\ v'.token.current \in Nat
      BY <1>5, <2>1 DEF Types, Request, Token, Store
    <2>3. QED BY <2>1, <2>2, SettledStore DEF Newer
  <1>9. (\A d \in Callers : RequestOK(d))'
    BY <1>1, <1>2, <1>4 DEF RequestOK, Live, server
  <1>10. CopyOK' BY <1>1 DEF CopyOK, Free
  <1>11. QED BY <1>5, <1>6, <1>7, <1>8, <1>9, <1>10

LEMMA GiveUpInv ==
  ASSUME Inv, MaxLost \in Nat, NEW c \in Callers, GiveUp(c)
  PROVE  Inv'
  <1> USE DEF Inv
  <1>1. UNCHANGED <<v, command, server>> BY DEF GiveUp
  <1>2. Enrolled' = Enrolled BY <1>1, SameEnrolments DEF server
  <1>3. \A d \in Callers : caller'[d] = IF d = c THEN Idle ELSE caller[d] BY DEF GiveUp, Types
  <1>4. \A d \in Callers : Busy(d)' => Busy(d) /\ caller'[d] = caller[d] BY <1>3 DEF Busy, Idle
  <1>5. Types' BY <1>1, <1>2 DEF Types, server, GiveUp
  <1>6. StoreOK(v)' BY <1>1, <1>2 DEF StoreOK, server
  <1>7. InService(v)' BY <1>1, <1>2, <1>4 DEF InService, Live, server, Busy
  <1>8. Newer(v)' BY <1>1, <1>4 DEF Newer
  <1>9. (\A d \in Callers : RequestOK(d))'
    BY <1>1, <1>2, <1>4 DEF RequestOK, Live, server
  <1>10. CopyOK'
    BY <1>1, <1>2, <1>4 DEF CopyOK, StoreOK, InService, Newer, Live, server, Busy
  <1>11. QED BY <1>5, <1>6, <1>7, <1>8, <1>9, <1>10

LEMMA LoginBeginInv == ASSUME Inv, LoginBegin PROVE Inv'
  <1> USE DEF Inv, LoginBegin, Save
  <1>1. UNCHANGED <<caller, box, current, successor, minted, lost>> OBVIOUS
  <1>2. Enrolled' = Enrolled BY SameEnrolments
  <1>3. /\ v' \in Store /\ v'.box = v.box /\ v'.removed = v.removed
        /\ v'.needsLogin = TRUE /\ v'.token = v.token /\ ~Live(v.box)
    BY DEF Types, Store, InService
  <1>4. command' = [at |-> "login", copy |-> v'] OBVIOUS
  <1>5. Types' BY <1>1, <1>2, <1>3, <1>4 DEF Types, Working
  <1>6. StoreOK(v)' BY <1>2, <1>3 DEF StoreOK
  <1>7. InService(v)' BY <1>1, <1>2, <1>3 DEF InService, Live
  <1>8. Newer(v)' BY <1>1, <1>3 DEF Newer, Busy
  <1>9. (\A c \in Callers : RequestOK(c))' BY <1>1, <1>2 DEF RequestOK, Live, Busy
  <1>10. CopyOK' BY <1>3, <1>4 DEF CopyOK
  <1>11. QED BY <1>5, <1>6, <1>7, <1>8, <1>9, <1>10

\* A new enrolment: nothing under way is of it, and the one before is over.
LEMMA LoginPollInv == ASSUME Inv, LoginPoll PROVE Inv'
  <1> USE DEF Inv
  <1>1. /\ command \in Working /\ command.at = "login" /\ command.copy = v
        /\ v.needsLogin /\ v \in Store
    BY DEF LoginPoll, Types, Free, Working, CopyOK
  <1>2. UNCHANGED <<v, caller, lost>> BY DEF LoginPoll
  <1>3. CASE ceremony = "approved"
    <2> DEFINE w == [box |-> Enrolled + 1, removed |-> FALSE, needsLogin |-> FALSE,
                     token |-> [current |-> minted + 1, pending |-> 0], device |-> FALSE]
    <2>1. /\ box' = [b \in DOMAIN box \cup {Enrolled + 1} |-> IF b > Enrolled THEN "live" ELSE box[b]]
          /\ minted' = minted + 1 /\ current' = minted + 1 /\ successor' = 0
          /\ command' = [at |-> "save", copy |-> w]
      BY <1>3 DEF LoginPoll
    <2>2. DOMAIN box' = 1..(Enrolled + 1) /\ Enrolled + 1 \in Nat BY <2>1 DEF Types
    <2>3. Enrolled' = Enrolled + 1 BY <2>2, Counted DEF Enrolled
    <2>4. w \in Store BY DEF Store, Token, Types
    <2>6. /\ command'.at = "save" /\ command'.copy.box = Enrolled + 1
          /\ command'.copy.removed = FALSE /\ command'.copy.needsLogin = FALSE
          /\ command'.copy.token.current = minted + 1 /\ command'.copy.token.pending = 0
      BY <2>1
    <2> HIDE DEF w
    <2>7. \A b \in 1..Enrolled : ~Live(b)' BY <2>3 DEF Live, Types
    <2>8. Types'
      <3>1. command' \in Working BY <2>1, <2>4 DEF Working
      <3>2. box' \in [1..(Enrolled + 1) -> {"live", "removed", "revoked"}] BY <2>1, <2>2 DEF Types
      <3>3. QED BY <1>2, <2>1, <2>3, <3>1, <3>2 DEF Types
    <2>9. StoreOK(v)' BY <1>1, <1>2, <2>1, <2>3 DEF StoreOK, Types, Store, Token
    <2>10. InService(v)' BY <1>2, <2>7 DEF InService, StoreOK
    <2>11. Newer(v)' BY <1>2 DEF Newer, Busy
    <2>12. \A c \in Callers : Busy(c) =>
               /\ caller[c] \in Request /\ caller[c].box \in 1..Enrolled
               /\ caller[c].used.current \in 1..minted /\ caller[c].used.pending \in 0..minted
               /\ caller[c].token # 0
      BY DEF Types, Busy, Idle, Newer, StoreOK, RequestOK, Request, Store, Token, Chosen
    <2>13. (\A c \in Callers : RequestOK(c))'
      BY <1>2, <2>1, <2>7, <2>12 DEF RequestOK, Busy, Types
    <2>14. StoreOK(command.copy)' BY <2>1, <2>3, <2>6 DEF StoreOK, Types
    <2>15. InService(command.copy)' BY <1>2, <2>1, <2>6, <2>12 DEF InService, Chosen, Busy
    <2>16. Newer(command.copy)' BY <1>2, <2>6, <2>12 DEF Newer, Busy, Types
    <2>17. CopyOK' BY <2>6, <2>14, <2>15, <2>16 DEF CopyOK
    <2>18. QED BY <2>8, <2>9, <2>10, <2>11, <2>13, <2>17
  <1>4. CASE ceremony # "approved"
    <2>1. UNCHANGED server /\ command' = [at |-> "save", copy |-> [v EXCEPT !.device = FALSE]]
      BY <1>1, <1>4 DEF LoginPoll
    <2>2. Enrolled' = Enrolled BY <2>1, SameEnrolments DEF server
    <2>3. /\ command' \in Working /\ command'.at = "save" /\ command'.copy.box = v.box
          /\ command'.copy.removed = v.removed /\ command'.copy.needsLogin = v.needsLogin
          /\ command'.copy.token = v.token
      BY <1>1, <2>1 DEF Working, Store
    <2>4. Types' BY <1>2, <2>1, <2>2, <2>3 DEF Types, server
    <2>5. StoreOK(v)' /\ InService(v)' /\ Newer(v)'
      BY <1>2, <2>1, <2>2 DEF StoreOK, InService, Newer, Live, Busy, server
    <2>6. (\A c \in Callers : RequestOK(c))'
      BY <1>2, <2>1, <2>2 DEF RequestOK, Live, Busy, server
    <2>7. CopyOK'
      BY <2>3, <2>5, <1>2 DEF CopyOK, StoreOK, InService, Newer
    <2>8. QED BY <2>4, <2>5, <2>6, <2>7
  <1>5. QED BY <1>3, <1>4

LEMMA RotateBeginInv == ASSUME Inv, RotateBegin PROVE Inv'
  <1> USE DEF Inv, RotateBegin, server
  <1>1. Enrolled' = Enrolled BY SameEnrolments
  <1>2. command' \in Working /\ command'.at = "rotate" /\ command'.copy = v
    BY DEF Types, Working
  <1>3. Types' BY <1>1, <1>2 DEF Types
  <1>4. StoreOK(v)' /\ InService(v)' /\ Newer(v)'
    BY <1>1 DEF StoreOK, InService, Newer, Live, Busy
  <1>5. (\A c \in Callers : RequestOK(c))' BY <1>1 DEF RequestOK, Live, Busy
  <1>6. CopyOK' BY <1>2 DEF CopyOK
  <1>7. QED BY <1>3, <1>4, <1>5, <1>6

LEMMA CommandSavesInv == ASSUME Inv, CommandSaves PROVE Inv'
  <1> USE DEF Inv, CommandSaves, Save, Release, server
  <1>1. Enrolled' = Enrolled BY SameEnrolments
  <1>2. command \in Working BY DEF Types, Free
  <1>3. Types' BY <1>1, <1>2 DEF Types, Working
  <1>4. StoreOK(v)' /\ InService(v)' /\ Newer(v)'
    BY <1>1 DEF CopyOK, StoreOK, InService, Newer, Live, Busy
  <1>5. (\A c \in Callers : RequestOK(c))' BY <1>1 DEF RequestOK, Live, Busy
  <1>6. CopyOK' BY DEF CopyOK, Free
  <1>7. QED BY <1>3, <1>4, <1>5, <1>6

LEMMA CommandStopsInv == ASSUME Inv, MaxLost \in Nat, CommandStops PROVE Inv'
  <1> USE DEF Inv, CommandStops, Release, server
  <1>1. Enrolled' = Enrolled BY SameEnrolments
  <1>2. Types' BY <1>1 DEF Types
  <1>3. StoreOK(v)' /\ InService(v)' /\ Newer(v)'
    BY <1>1 DEF StoreOK, InService, Newer, Live, Busy
  <1>4. (\A c \in Callers : RequestOK(c))' BY <1>1 DEF RequestOK, Live, Busy
  <1>5. CopyOK' BY DEF CopyOK, Free
  <1>6. QED BY <1>2, <1>3, <1>4, <1>5

\* A rotation uses the next token of the store it copied: that token becomes
\* the current one, on the service and in the copy alike.
LEMMA RotateServedInv == ASSUME Inv, RotateServed PROVE Inv'
  <1> USE DEF Inv
  <1> DEFINE t == Chosen(v.token)
  <1>1. /\ command \in Working /\ command.copy = v /\ ~v.needsLogin
        /\ v \in Store /\ v.token \in Token /\ StoreOK(v)
    BY DEF RotateServed, Types, Free, CopyOK, Store
  <1>2. PICK reply \in {"ok", "removed", "unauthorized"} : reply = Reply(v.box, t) BY DEF Reply
  <1>3. /\ UNCHANGED <<v, caller, ceremony, lost>>
        /\ command' = [at |-> "save", copy |-> AfterUse(v, reply, minted + 1)]
        /\ IF reply = "ok"
           THEN current' = t /\ successor' = minted + 1 /\ minted' = minted + 1 /\ UNCHANGED box
           ELSE Use(v.box, t) /\ UNCHANGED minted
    BY <1>1, <1>2 DEF RotateServed
  <1>4. t \in 1..minted /\ (v.token.current <= t) /\ v.token.current # 0
    BY <1>1 DEF StoreOK, Chosen, Token, Types
  <1>5. v.box \in 1..Enrolled BY <1>1 DEF StoreOK
  <1>6. DOMAIN box' = DOMAIN box BY <1>3 DEF Use
  <1>7. Enrolled' = Enrolled BY <1>6, SameEnrolments
  <1>8. \A c \in Callers : Busy(c) =>
               /\ caller[c] \in Request /\ caller[c].box \in 1..Enrolled
               /\ caller[c].used.current \in 1..minted /\ caller[c].used.pending \in 0..minted
               /\ caller[c].token \in 1..minted
    BY DEF Types, Busy, Idle, Newer, StoreOK, RequestOK, Request, Store, Token, Chosen
  <1> HIDE DEF t
  <1>9. CASE reply = "ok"
    <2>1. /\ current' = t /\ successor' = minted + 1 /\ minted' = minted + 1 /\ box' = box
          /\ command' = [at |-> "save",
                         copy |-> [v EXCEPT !.token = [current |-> t, pending |-> minted + 1]]]
      BY <1>3, <1>9 DEF AfterUse, t
    <2>2. /\ command'.at = "save" /\ command'.copy \in Store /\ command' \in Working
          /\ command'.copy.box = v.box /\ command'.copy.removed = v.removed
          /\ command'.copy.needsLogin = v.needsLogin
          /\ command'.copy.token.current = t /\ command'.copy.token.pending = minted + 1
      <3>1. [current |-> t, pending |-> minted + 1] \in Token BY <1>4 DEF Token, Types
      <3>2. QED BY <1>1, <2>1, <3>1 DEF Store, Working
    <2>3. Types' BY <1>3, <1>4, <1>7, <2>1, <2>2 DEF Types
    <2>4. StoreOK(v)' BY <1>1, <1>3, <1>7, <2>1 DEF StoreOK, Token, Types
    <2>5. InService(v)' BY <1>1, <1>3, <1>7, <1>8, <2>1 DEF InService, Busy, t, Types
    <2>6. Newer(v)' BY <1>3 DEF Newer, Busy
    <2>7. (\A c \in Callers : RequestOK(c))'
      BY <1>3, <1>7, <1>8, <2>1 DEF RequestOK, Busy, Live, Types
    <2>8. StoreOK(command.copy)' BY <1>1, <1>4, <1>7, <2>1, <2>2 DEF StoreOK, Types
    <2>9. InService(command.copy)' BY <1>1, <1>3, <1>8, <2>1, <2>2 DEF InService, Busy, Chosen, Types
    <2>10. Newer(command.copy)'
      <3> SUFFICES ASSUME NEW c \in Callers, Busy(c)
                   PROVE  /\ caller[c].box \in 1..v.box
                          /\ caller[c].box < v.box => caller[c].used.current < t
        BY <1>3, <2>2 DEF Newer, Busy
      <3>1. /\ caller[c].box \in 1..v.box
            /\ caller[c].box < v.box => caller[c].used.current < v.token.current
        BY <1>4 DEF Newer
      <3>2. QED BY <1>1, <1>4, <1>8, <3>1 DEF Token
    <2>11. CopyOK' BY <2>2, <2>8, <2>9, <2>10 DEF CopyOK
    <2>12. QED BY <2>3, <2>4, <2>5, <2>6, <2>7, <2>11
  <1>10. CASE reply # "ok"
    <2>1. Use(v.box, t) /\ minted' = minted BY <1>3, <1>10
    <2>2. ~Live(v.box) BY <1>2, <1>10 DEF Reply, InService, Live, t
    <2>3. UNCHANGED <<current, successor, box>>
      BY <1>5, <2>1, <2>2 DEF Use, Live, Types
    <2>4. /\ command'.at = "save" /\ command'.copy \in Store /\ command' \in Working
          /\ command'.copy.box = v.box
          /\ command'.copy.needsLogin = TRUE
          /\ command'.copy.token \in {NoToken, v.token}
      BY <1>1, <1>2, <1>3, <1>10 DEF AfterUse, Removed, Store, Working, Token, NoToken
    <2>5. Types' BY <1>3, <1>7, <2>1, <2>3, <2>4 DEF Types
    <2>6. StoreOK(v)' /\ InService(v)' /\ Newer(v)'
      BY <1>3, <1>7, <2>1, <2>3 DEF StoreOK, InService, Newer, Live, Busy
    <2>7. (\A c \in Callers : RequestOK(c))'
      BY <1>3, <1>7, <2>1, <2>3 DEF RequestOK, Live, Busy
    <2>8. StoreOK(command.copy)' BY <1>1, <1>7, <2>1, <2>4 DEF StoreOK, NoToken, Types
    <2>9. InService(command.copy)' BY <1>7, <2>2, <2>3, <2>4 DEF InService, Live
    <2>10. Newer(command.copy)' BY <1>3, <2>4 DEF Newer, Busy, NoToken
    <2>11. CopyOK' BY <2>4, <2>8, <2>9, <2>10 DEF CopyOK
    <2>12. QED BY <2>5, <2>6, <2>7, <2>11
  <1>11. QED BY <1>9, <1>10

LEMMA NextInv == ASSUME MaxLost \in Nat, Inv, [Next]_vars PROVE Inv'
  BY StutterInv, OwnerRemovesInv, OwnerApprovesInv, SyncCredentialInv, ServedInv, SettleInv,
     GiveUpInv, LoginBeginInv, LoginPollInv, RotateBeginInv, RotateServedInv, CommandSavesInv,
     CommandStopsInv
  DEF Next

\* Within the bounds a rotation has room for the token it was given.
LEMMA BoundsInv ==
  ASSUME MaxLost \in Nat, MaxTokens \in Nat, Inv, Bounds, [Next]_vars
  PROVE  Bounds'
  <1> USE DEF Inv, Types, Bounds, server, Free
  <1>1. CASE UNCHANGED vars BY <1>1 DEF vars
  <1>2. CASE OwnerRemoves \/ OwnerApproves BY <1>2 DEF OwnerRemoves, OwnerApproves
  <1>3. ASSUME NEW c \in Callers, SyncCredential(c) \/ Served(c) \/ Settle(c) \/ GiveUp(c)
        PROVE  Bounds'
    BY <1>3 DEF SyncCredential, Served, Settle, GiveUp
  <1>4. CASE LoginBegin \/ RotateBegin \/ CommandSaves \/ CommandStops
    BY <1>4 DEF LoginBegin, RotateBegin, CommandSaves, CommandStops, Release
  <1>5. CASE LoginPoll BY <1>5 DEF LoginPoll
  <1>6. CASE RotateServed BY <1>6 DEF RotateServed
  <1>7. QED BY <1>1, <1>2, <1>3, <1>4, <1>5, <1>6 DEF Next

\* The two together, for whoever uses this component.
Sound == Inv /\ Bounds

LEMMA SoundInit == ASSUME MaxLost \in Nat, MaxTokens \in Nat \ {0}, Init PROVE Sound
  <1>1. Bounds BY DEF Init, Bounds, Free
  <1>2. QED BY <1>1, InitInv DEF Sound

LEMMA SoundNext == ASSUME MaxLost \in Nat, MaxTokens \in Nat PROVE Sound /\ [Next]_vars => Sound'
  BY NextInv, BoundsInv DEF Sound

LEMMA SoundSuffices == Sound => TypeOK /\ LiveStaysSignedIn /\ NextTokenIsTaken
  <1>1. Sound => TypeOK BY DEF Sound, Inv, Types, StoreOK, Bounds, TypeOK
  <1>2. Inv => LiveStaysSignedIn
    BY DEF Inv, Types, Store, InService, Live, StoreOK, LiveStaysSignedIn
  <1>3. Inv => NextTokenIsTaken BY DEF Inv, InService, Live, NextTokenIsTaken
  <1>4. QED BY <1>1, <1>2, <1>3 DEF Sound

\* The stored credential, what every request under way was made with, and the
\* copy a command holds fit together, for any number of enrolments and tokens.
THEOREM CredentialInvariant == ASSUME MaxLost \in Nat PROVE Spec => []Inv
  <1>1. Init => Inv BY InitInv
  <1>2. Inv /\ [Next]_vars => Inv' BY NextInv
  <1>3. QED BY <1>1, <1>2, PTL DEF Spec

\* The box never signs itself out (Settle against a login, a rotation or a
\* removal since): while the service holds the stored enrolment live, no late
\* reply has marked it removed or refused.
THEOREM NeverSignsItselfOut == ASSUME MaxLost \in Nat PROVE Spec => []LiveStaysSignedIn
  <1>1. Inv => LiveStaysSignedIn
    BY DEF Inv, Types, Store, InService, Live, StoreOK, LiveStaysSignedIn
  <1>2. QED BY <1>1, CredentialInvariant, PTL

\* Replies and saves lost in a rotation lose no token: of an enrolment the service
\* still holds live, the store's next token is one the service takes.  It says
\* nothing of one that is revoked; RevokedOnlyWhenOvertaken says how that happens.
THEOREM NextTokenOfLiveIsTaken == ASSUME MaxLost \in Nat PROVE Spec => []NextTokenIsTaken
  <1>1. Inv => NextTokenIsTaken BY DEF Inv, InService, Live, NextTokenIsTaken
  <1>2. QED BY <1>1, CredentialInvariant, PTL

\* Inv gives a live enrolment's store a token the service takes, so that a use
\* which revokes it is of another token, sent before the store's.
LEMMA RevokingStep == Inv /\ [Next]_vars => OnlyTheOvertakenRevoke
  <1> SUFFICES ASSUME Inv, [Next]_vars, NEW b \in DOMAIN box, box[b] = "live", box'[b] = "revoked"
               PROVE  Overtaken(b)
    BY DEF OnlyTheOvertakenRevoke
  <1> USE DEF Inv, Types, server
  <1>1. ASSUME NEW c \in Callers, Served(c) PROVE Overtaken(b)
    <2>1. /\ caller[c].at = "sent" /\ caller[c].box = b /\ Live(b)
          /\ caller[c].token \notin {current, successor}
      BY <1>1 DEF Served, Use, Live
    <2>2. v.box = b
      <3>1. v.box \in 1..Enrolled /\ Enrolled \in Nat BY DEF StoreOK
      <3>2. caller[c].box \in 1..v.box BY <2>1 DEF Newer, Busy
      <3> QED BY <3>1, <3>2, <2>1 DEF Live
    <2>3. Chosen(v.token) \in {current, successor} BY <2>1, <2>2 DEF InService
    <2> QED BY <2>1, <2>3 DEF Overtaken
  <1>2. ASSUME RotateServed PROVE FALSE
    <2>1. command.at = "rotate" /\ command.copy = v BY <1>2 DEF RotateServed, CopyOK
    <2>2. b = v.box /\ Live(b) /\ Chosen(v.token) \notin {current, successor}
      BY <1>2, <2>1 DEF RotateServed, Use, Live
    <2> QED BY <2>2 DEF InService
  <1>3. ASSUME LoginPoll PROVE FALSE BY <1>3 DEF LoginPoll
  <1>4. ASSUME OwnerRemoves PROVE FALSE BY <1>4 DEF OwnerRemoves
  <1>5. ASSUME \/ UNCHANGED vars \/ OwnerApproves \/ LoginBegin \/ RotateBegin \/ CommandSaves \/ CommandStops
               \/ \E c \in Callers : SyncCredential(c) \/ Settle(c) \/ GiveUp(c)
        PROVE FALSE
    BY <1>5 DEF vars, OwnerApproves, LoginBegin, RotateBegin, CommandSaves, CommandStops,
                SyncCredential, Settle, GiveUp
  <1> QED BY <1>1, <1>2, <1>3, <1>4, <1>5 DEF Next

\* No enrolment is revoked but by a request that was overtaken by a rotation
\* (the credential is read under the lock and used outside it): neither the
\* store's own next token nor a command can do it.
THEOREM RevokedOnlyWhenOvertaken == ASSUME MaxLost \in Nat PROVE Spec => [][OnlyTheOvertakenRevoke]_vars
  <1>1. Inv /\ [Next]_vars => [OnlyTheOvertakenRevoke]_vars BY RevokingStep
  <1>2. QED BY <1>1, CredentialInvariant, PTL DEF Spec

\* The store names an enrolment that exists, a removed box needs a login, and
\* the bounds hold.
THEOREM TypeCorrect ==
  ASSUME MaxLost \in Nat, MaxTokens \in Nat \ {0}
  PROVE  Spec => []TypeOK
  <1>1. Init => Sound BY SoundInit
  <1>2. Sound /\ [Next]_vars => Sound' BY SoundNext
  <1>3. Sound => TypeOK BY SoundSuffices
  <1>4. QED BY <1>1, <1>2, <1>3, PTL DEF Spec
===============================================================================
