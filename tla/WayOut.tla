------------------------------- MODULE WayOut -------------------------------
(***************************************************************************)
(* How a call leaves the house: trunks.toml and the lines' own trunk,      *)
(* number, caller id and failover (internal/policy), the phone plant       *)
(* `doorman render` writes from them (internal/render, cmd/doorman), the   *)
(* dialplan that reads it (asterisk/extensions.conf), the *4 console       *)
(* (internal/lobby), and `doorman numbers`, which asks a provider whether  *)
(* an account holds what the lines claim (internal/provider).              *)
(*                                                                         *)
(* The files are records that are edited a field at a time; a name of the  *)
(* wrong shape is "!".  A plant on the disk stays until the next render.   *)
(***************************************************************************)
EXTENDS Integers, FiniteSets, Sequences, SequencesExt

CONSTANTS
    Handsets,       \* ids of handsets.toml
    DefaultTrunk,   \* DEFAULT_TRUNK of extensions.conf
    Account,        \* numbers of the keyed account: [number, active, id, name]
    Connections,    \* its credential connections: [id, name, user]
    PageSize,
    MaxEdits        \* bound: edits

VARIABLES
    file,           \* trunks.toml, the lines and the secrets, as on the disk
    phones,         \* pjsip_handsets.conf: what each phone calls with
    endpoints,      \* pjsip_trunks.conf: the trunks registered
    plant,          \* extensions_trunks.conf
    render,         \* a render in progress: what is still to be written
    console,        \* a *4 call
    audit,          \* a run of `doorman numbers`
    edits

vars == <<file, phones, endpoints, plant, render, console, audit, edits>>

Items(list) == {list[i] : i \in DOMAIN list}
Ids(f) == {t.id : t \in Items(f.trunks)}
Trunk(f, id) == CHOOSE t \in Items(f.trunks) : t.id = id
Slice(list, from, to) == SubSeq(list, from, IF to < Len(list) THEN to ELSE Len(list))
First(list, P(_)) == list[CHOOSE i \in DOMAIN list : P(list[i]) /\ \A j \in 1..(i - 1) : ~P(list[j])]
Primary == "default"
-----------------------------------------------------------------------------
(* trunks.toml.                                                            *)

\* The names render derives from an id collide with those of another trunk.
Identity(f) ==
    /\ \A t \in Items(f.trunks) : t.id \notin {"", "!", "v_auth"}
    /\ \A i, j \in DOMAIN f.trunks : f.trunks[i].id = f.trunks[j].id => i = j
Registers(t) == t.host \notin {"", "!"} /\ t.user # "" /\ t.secret \notin {"", "!"}
BalanceConfigured(t) == t.api \in {"login", "key"}
ProviderAPIAuth(t) == CASE t.provider = "voipms" -> {"login"} [] t.provider = "telnyx" -> {"key"} [] OTHER -> {"login", "key"}

\* One way in, of the provider's own shape, and a threshold only beside it.
Credentials(t) ==
    /\ t.api \in {"none", "login", "key"}
    /\ BalanceConfigured(t) => t.api \in ProviderAPIAuth(t)
    /\ t.min >= 0 /\ (t.min > 0 => BalanceConfigured(t))
Context(t) == IF t.context = "" THEN <<"from", t.id>> ELSE <<t.context>>
OwnContext(f) == \A i, j \in DOMAIN f.trunks : Context(f.trunks[i]) = Context(f.trunks[j]) => i = j
Media(t) == Cardinality(Items(t.codecs)) = Len(t.codecs) /\ "!" \notin Items(t.codecs) /\ t.expiration \in {0} \cup 30..86400
CompileTrunks(f) ==
    /\ f.trunks # <<>> /\ Identity(f) /\ OwnContext(f)
    /\ \A t \in Items(f.trunks) : Registers(t) /\ Credentials(t) /\ t.context # "!" /\ Media(t)
    /\ f.emergency = "" \/ f.emergency \in Ids(f)

\* No trunks.toml is no inventory, and nothing is generated.
LoadTrunks(f) == f.present => CompileTrunks(f)
Inventory(f) == IF f.present THEN f.trunks ELSE <<>>
-----------------------------------------------------------------------------
(* The lines, primary first.                                               *)

CompileLine(f, l) ==
    /\ l.number # "!" /\ l.cid # "!"
    /\ l.trunk # "" => f.present /\ l.trunk \in Ids(f)
    /\ l.failover # <<>> => l.trunk # ""
    /\ \A i \in DOMAIN l.failover : l.failover[i] \in (IF f.present THEN Ids(f) ELSE {}) \ {l.trunk}
    /\ Cardinality(Items(l.failover)) = Len(l.failover)
    /\ l.handsets # {} => l.cid # ""
    /\ l.handsets \subseteq Handsets
RenderLines(f) == \A l \in Items(f.lines) : CompileLine(f, l)
PrimaryLine(f) == First(f.lines, LAMBDA l : l.name = Primary)

\* A phone calls as the first line that claims it, and as the primary one else.
Claimed(f, h) == \E l \in Items(f.lines) : h \in l.handsets
LineFor(f, h) == IF Claimed(f, h) THEN First(f.lines, LAMBDA l : h \in l.handsets) ELSE PrimaryLine(f)
Conflicts(f) == {h \in Handsets : Cardinality({i \in DOMAIN f.lines : h \in f.lines[i].handsets}) > 1}
Trio(l) == [cid |-> l.cid, trunk |-> l.trunk, failover |-> l.failover]
NoTrio == [cid |-> "", trunk |-> "", failover |-> <<>>]
Identities(f) == [h \in Handsets |-> Trio(LineFor(f, h))]

Owners(f, number) == {l \in Items(f.lines) : l.number = number}
WrongTrunk(f, l) ==
    /\ f.present /\ l.cid # "" /\ l.trunk # ""
    /\ Owners(f, l.cid) # {} /\ \A o \in Owners(f, l.cid) : o.trunk # l.trunk
WrongTrunkCIDs(f) == {l.name : l \in {x \in Items(f.lines) : WrongTrunk(f, x)}}
Owned(f) == {[trunk |-> l.trunk, number |-> l.number, line |-> l.name] : l \in {x \in Items(f.lines) : x.number # ""}}
Owns(list, id, number) == \E o \in list : o.trunk = id /\ o.number = number
-----------------------------------------------------------------------------
(* The plant.                                                              *)

ResolveEmergency(f) == IF f.emergency # "" THEN f.emergency ELSE PrimaryLine(f).trunk
E911Rank(t) == CASE t.e911 = "yes" -> 0 [] t.e911 = "unset" -> 1 [] OTHER -> 2

EmergencyOrder(f) ==
    LET d == ResolveEmergency(f)
        Rest(r) == SelectSeq(f.trunks, LAMBDA t : t.id # d /\ E911Rank(t) = r)
    IN  <<Trunk(f, d)>> \o Rest(0) \o Rest(1) \o Rest(2)

Routed(f, id) == {l \in Items(f.lines) : l.trunk = id /\ l.number # ""}
TrunkContext(f, id) == [n \in {l.number : l \in Routed(f, id)} |-> (CHOOSE l \in Routed(f, id) : l.number = n).name]

\* Mutant of FailoverCallerID: The number of the first line that has one.
AnyNumber(f, id) ==
    IF \E l \in Items(f.lines) : l.number # "" THEN First(f.lines, LAMBDA l : l.number # "").number ELSE ""

\* Never the failing line's own number: that of the first line at the trunk.
FailoverCallerID(f, id) ==
    IF Routed(f, id) = {} THEN "" ELSE First(f.lines, LAMBDA l : l.trunk = id /\ l.number # "").number

NoPlant == [contexts |-> <<>>, failover |-> <<>>, emergency |-> <<>>, rank |-> <<>>, owned |-> {}]
WriteTrunks(f) ==
    [contexts |-> [id \in Ids(f) |-> TrunkContext(f, id)],
     failover |-> [id \in Ids(f) |-> FailoverCallerID(f, id)],
     emergency |-> [i \in DOMAIN EmergencyOrder(f) |-> EmergencyOrder(f)[i].id],
     rank |-> [id \in Ids(f) |-> E911Rank(Trunk(f, id))], owned |-> Owned(f)]

\* One DID reaches one line, no endpoint has two owners, every secret is set.
BuildTrunks(f) ==
    /\ ResolveEmergency(f) \in Ids(f)
    /\ \A i, j \in DOMAIN f.lines :
        f.lines[i].number # "" /\ f.lines[i].trunk # "" /\ f.lines[i].number = f.lines[j].number /\ f.lines[i].trunk = f.lines[j].trunk => i = j
    /\ Ids(f) \cap Handsets = {}
    /\ \A t \in Items(f.trunks) : t.secret \in f.env
Renders(f) ==
    /\ LoadTrunks(f) /\ RenderLines(f) /\ Conflicts(f) = {} /\ WrongTrunkCIDs(f) = {}
    /\ f.present => BuildTrunks(f)
-----------------------------------------------------------------------------
(* What Asterisk does with a call: status is what each trunk answers.      *)

Status == {"answer", "busy", "down"}
Names == {"v", "t", "w"}
Outcome(status, id) == IF id \in endpoints THEN status[id] ELSE "down"

\* The trunk, then the ladder; only one that could not carry it is passed over.
CmmOutbound(v, status) ==
    LET first == IF v.trunk = "" THEN DefaultTrunk ELSE v.trunk
        ladder == <<first>> \o SelectSeq(v.failover, LAMBDA id : id \in DOMAIN plant.failover)
        taken == {i \in DOMAIN ladder : Outcome(status, ladder[i]) # "down"}
        i == CHOOSE k \in taken : \A j \in taken : k <= j
    IN  IF taken = {} THEN [trunk |-> "", cid |-> "", step |-> 0]
        ELSE [trunk |-> ladder[i], cid |-> IF i = 1 THEN v.cid ELSE plant.failover[ladder[i]], step |-> i]

Emergency911(status) ==
    LET order == IF plant = NoPlant THEN <<DefaultTrunk>> ELSE plant.emergency
        taken == {i \in DOMAIN order : Outcome(status, order[i]) = "answer"}
    IN  IF taken = {} THEN "" ELSE order[CHOOSE k \in taken : \A j \in taken : k <= j]

Inbound(id, number) == IF number \in DOMAIN plant.contexts[id] THEN plant.contexts[id][number] ELSE Primary
-----------------------------------------------------------------------------
(* The household.                                                          *)

Start ==
    [present |-> TRUE, emergency |-> "", env |-> {"V", "T"},
     trunks |-> <<[id |-> "v", host |-> "h", user |-> "sub", secret |-> "V", provider |-> "voipms", api |-> "none", min |-> 0,
                   context |-> "", codecs |-> <<>>, expiration |-> 0, e911 |-> "no"],
                  [id |-> "t", host |-> "h", user |-> "conn", secret |-> "T", provider |-> "telnyx", api |-> "key", min |-> 5,
                   context |-> "", codecs |-> <<"ulaw">>, expiration |-> 300, e911 |-> "unset"],
                  [id |-> "w", host |-> "h", user |-> "x", secret |-> "V", provider |-> "", api |-> "none", min |-> 0,
                   context |-> "", codecs |-> <<>>, expiration |-> 0, e911 |-> "no"]>>,
     lines |-> <<[name |-> "default", number |-> "1", trunk |-> "v", failover |-> <<"t", "w">>, cid |-> "", handsets |-> {}],
                 [name |-> "biz", number |-> "2", trunk |-> "t", failover |-> <<"v">>, cid |-> "2", handsets |-> {"b"}]>>]

Changes(f) ==
    {[f EXCEPT !.present = ~@]} \cup {[f EXCEPT !.emergency = x] : x \in {"v", "t", "k"}} \cup {[f EXCEPT !.env = {"V"}]}
    \cup {[f EXCEPT !.trunks = SubSeq(@, 1, 2)], [f EXCEPT !.trunks = SubSeq(@, 2, Len(@))], [f EXCEPT !.trunks = Reverse(@)]}
    \cup {[f EXCEPT !.trunks[1].id = x] : x \in {"t", "k", "v_auth", "!"}} \cup {[f EXCEPT !.trunks[1].e911 = x] : x \in {"yes", "unset"}}
    \cup {[f EXCEPT !.trunks[1].host = ""], [f EXCEPT !.trunks[1].secret = "!"], [f EXCEPT !.trunks[1].api = "key"], [f EXCEPT !.trunks[1].api = "login"],
          [f EXCEPT !.trunks[1].min = 5], [f EXCEPT !.trunks[1].context = "in"], [f EXCEPT !.trunks[2].context = "in"], [f EXCEPT !.trunks[2].api = "half"],
          [f EXCEPT !.trunks[2].codecs = <<"ulaw", "ulaw">>], [f EXCEPT !.trunks[2].expiration = 10]}
    \cup {[f EXCEPT !.lines[i].number = x] : i \in {1, 2}, x \in {"", "1", "2", "3"}} \cup {[f EXCEPT !.lines[i].trunk = x] : i \in {1, 2}, x \in {"", "t", "v", "w"}}
    \cup {[f EXCEPT !.lines[i].cid = x] : i \in {1, 2}, x \in {"", "1", "2", "3", "4", "!"}} \cup {[f EXCEPT !.lines[1].failover = x] : x \in {<<>>, <<"t">>, <<"w", "t">>, <<"t", "t">>}}
    \cup {[f EXCEPT !.lines[1].handsets = {"b"}], [f EXCEPT !.lines = <<@[1]>>]}

Idle == [at |-> "idle", menu |-> <<>>, line |-> 0, tries |-> 0, trio |-> NoTrio, dialled |-> ""]
NoAudit == [at |-> "idle", of |-> Start, page |-> 1, got |-> {}, conns |-> {}, failed |-> FALSE]
Quiet == render = <<>> /\ console.at = "idle" /\ audit.at = "idle"

Init ==
    /\ file = Start
    /\ phones = [trio |-> [h \in Handsets |-> NoTrio], owned |-> {}]
    /\ endpoints = {} /\ plant = NoPlant
    /\ render = <<>> /\ console = Idle /\ audit = NoAudit
    /\ edits = 0

Edit ==
    /\ edits < MaxEdits /\ edits' = edits + 1
    /\ file' \in Changes(file) \ {file}
    /\ UNCHANGED <<phones, endpoints, plant, render, console, audit>>
-----------------------------------------------------------------------------
(* `doorman render`: all is built, then the files are written one by one.  *)

Render ==
    /\ Quiet /\ Renders(file)
    /\ render' = <<[part |-> "phones", of |-> file]>>
        \o IF file.present THEN <<[part |-> "endpoints", of |-> file], [part |-> "dialplan", of |-> file]>> ELSE <<>>
    /\ UNCHANGED <<file, phones, endpoints, plant, console, audit, edits>>

Write ==
    /\ render # <<>>
    /\ LET w == Head(render) IN
        /\ phones' = IF w.part = "phones" THEN [trio |-> Identities(w.of), owned |-> Owned(w.of)] ELSE phones
        /\ endpoints' = IF w.part = "endpoints" THEN Ids(w.of) ELSE endpoints
        /\ plant' = IF w.part = "dialplan" THEN WriteTrunks(w.of) ELSE plant
    /\ render' = Tail(render)
    /\ UNCHANGED <<file, console, audit, edits>>

WriteFails ==
    /\ render # <<>> /\ render' = <<>>
    /\ UNCHANGED <<file, phones, endpoints, plant, console, audit, edits>>
-----------------------------------------------------------------------------
(* The *4 console: a line, a number, three channel variables, the dialplan. *)

consoleMaxLines == 9
consoleAttempts == 3
emergencyNumbers == {"911"}
Over == console' = Idle

StarFour ==
    /\ Quiet /\ RenderLines(file)
    /\ \E h \in Handsets :
        console' = [Idle EXCEPT !.at = "choose", !.tries = 1, !.trio = phones.trio[h],
                                !.menu = Slice(file.lines, 1, consoleMaxLines)]
    /\ UNCHANGED <<file, phones, endpoints, plant, render, audit, edits>>

\* A wrong key costs a try; nothing pressed, or the phone hung up, ends it.
ChooseLine ==
    /\ console.at = "choose"
    /\ \/ \E i \in DOMAIN console.menu : console' = [console EXCEPT !.at = "number", !.line = i, !.tries = 1]
       \/ IF console.tries < consoleAttempts THEN console' = [console EXCEPT !.tries = @ + 1] ELSE Over
       \/ Over
    /\ UNCHANGED <<file, phones, endpoints, plant, render, audit, edits>>

TakeNumber ==
    /\ console.at = "number"
    /\ \/ \E d \in {"call", "911"} :
            IF d \in emergencyNumbers THEN Over ELSE console' = [console EXCEPT !.at = "trunk", !.dialled = d]
       \/ IF console.tries < consoleAttempts THEN console' = [console EXCEPT !.tries = @ + 1] ELSE Over
       \/ Over
    /\ UNCHANGED <<file, phones, endpoints, plant, render, audit, edits>>

\* Each is set, to empty too, or the call is refused.
Place ==
    /\ console.at \in {"trunk", "cid", "failover"}
    /\ LET l == console.menu[console.line] IN
        \/ console.at = "trunk" /\ console' = [console EXCEPT !.at = "cid", !.trio.trunk = l.trunk]
        \/ console.at = "cid" /\ console' = [console EXCEPT !.at = "failover", !.trio.cid = l.cid]
        \/ console.at = "failover" /\ console' = [console EXCEPT !.at = "handoff", !.trio.failover = l.failover]
        \/ Over
    /\ UNCHANGED <<file, phones, endpoints, plant, render, audit, edits>>

\* The console is over once the channel is the dialplan's, or was refused there.
HandOff ==
    /\ console.at = "handoff"
    /\ console' = [console EXCEPT !.at = "placed"] \/ Over
    /\ UNCHANGED <<file, phones, endpoints, plant, render, audit, edits>>
CallEnds ==
    /\ console.at = "placed" /\ Over
    /\ UNCHANGED <<file, phones, endpoints, plant, render, audit, edits>>
-----------------------------------------------------------------------------
(* `doorman numbers`.                                                      *)

Lists(t) == t.provider = "telnyx"
Asked(f) == {t \in Items(Inventory(f)) : Lists(t) /\ t.api = "key"}
Claims(f, id) == {[number |-> n, answers |-> \E l \in Items(f.lines) : l.trunk = id /\ l.number = n] :
    n \in UNION {{l.number, l.cid} : l \in {x \in Items(f.lines) : x.trunk = id}} \ {""}}

RunNumbers ==
    /\ Quiet /\ LoadTrunks(file) /\ RenderLines(file) /\ Asked(file) # {}
    /\ audit' = [NoAudit EXCEPT !.at = "numbers", !.of = file]
    /\ UNCHANGED <<file, phones, endpoints, plant, render, console, edits>>

Page(list, p) == Slice(list, (p - 1) * PageSize + 1, p * PageSize)
Pages(list) == (Len(list) + PageSize - 1) \div PageSize

\* The pages of the numbers, then those of the connections; the last page is the
\* one the answer counts, or without a count a short one or an empty one.
Ask ==
    /\ audit.at \in {"numbers", "conns"}
    /\ LET list == IF audit.at = "numbers" THEN Account ELSE Connections
           more == Items(Page(list, audit.page))
           next == IF audit.at = "numbers" THEN "conns" ELSE "done"
           got == IF audit.at = "numbers" THEN [audit EXCEPT !.got = @ \cup more] ELSE [audit EXCEPT !.conns = @ \cup more]
       IN  \/ audit' = [audit EXCEPT !.at = "done", !.failed = TRUE]
           \/ \E counted \in BOOLEAN :
                audit' = IF more = {} \/ (counted /\ audit.page >= Pages(list)) \/ (~counted /\ Len(Page(list, audit.page)) < PageSize)
                         THEN [got EXCEPT !.at = next, !.page = 1] ELSE [got EXCEPT !.page = @ + 1]
    /\ UNCHANGED <<file, phones, endpoints, plant, render, console, edits>>

\* A number's connection by its id, or by a name that only one of them has.
Username(n) ==
    LET byId == {c \in audit.conns : c.id = n.id}
        byName == {c \in audit.conns : c.name = n.name}
    IN  IF n.id # "" /\ byId # {} THEN (CHOOSE c \in byId : TRUE).user
        ELSE IF n.name # "" /\ Cardinality(byName) = 1 THEN (CHOOSE c \in byName : TRUE).user
        ELSE ""
WeighClaim(t, c) ==
    LET held == {n \in audit.got : n.number = c.number}
        n == CHOOSE x \in held : TRUE
    IN  IF audit.failed THEN "unchecked"
        ELSE IF held = {} THEN "missing"
        ELSE IF ~n.active THEN "inactive"
        ELSE IF ~c.answers THEN "ok"
        ELSE IF n.id = "" /\ n.name = "" THEN "no_connection"
        ELSE IF Username(n) = "" THEN "unverified"
        ELSE IF Username(n) # t.user THEN "other_connection"
        ELSE "ok"
NumbersExit ==
    IF \E t \in Asked(audit.of) : \E c \in Claims(audit.of, t.id) : WeighClaim(t, c) \in {"missing", "inactive", "no_connection", "other_connection"} THEN 1
    ELSE IF audit.failed THEN 3 ELSE 0
Report ==
    /\ audit.at = "done" /\ audit' = NoAudit
    /\ UNCHANGED <<file, phones, endpoints, plant, render, console, edits>>
-----------------------------------------------------------------------------
Next ==
    \/ Edit \/ Render \/ Write \/ WriteFails
    \/ StarFour \/ ChooseLine \/ TakeNumber \/ Place \/ HandOff \/ CallEnds
    \/ RunNumbers \/ Ask \/ Report
Spec == Init /\ [][Next]_vars
-----------------------------------------------------------------------------
TypeOK ==
    /\ edits \in 0..MaxEdits /\ Len(render) <= 3
    /\ endpoints \subseteq Names /\ DOMAIN plant.failover \subseteq Names
    /\ console.tries \in 0..consoleAttempts /\ console.line \in 0..Len(console.menu)
    /\ audit.at \in {"idle", "numbers", "conns", "done"}

\* Whatever was edited since and wherever a render broke off: a 911 call is
\* carried by the trunk the plant was rendered for when it answers; else by one
\* with the best claim to an address among those that answer; and every number of
\* a line reaches that line on its own trunk.
EmergencyConnects ==
    plant # NoPlant =>
        /\ \A status \in [Names -> Status] :
            LET up == {id \in endpoints \cap DOMAIN plant.rank : status[id] = "answer"}
                by == Emergency911(status)
            IN  /\ up # {} => by \in up
                /\ plant.emergency[1] \in up => by = plant.emergency[1]
                /\ by \in up \ {plant.emergency[1]} => \A id \in up : plant.rank[by] <= plant.rank[id]
        /\ \A o \in plant.owned : o.trunk # "" => Inbound(o.trunk, o.number) = o.line

\* A call shows the trunk that carries it no number another trunk is known to
\* own: on its own trunk by the line's claim, on a fallback by that trunk's; a
\* fallback is reached only past trunks that could not carry the call; and what
\* the console places carries the trunk, number and ladder of one line, never 911.
CallsAreHonest ==
    /\ \A h \in Handsets, status \in [Names -> Status] :
        LET v == phones.trio[h]
            call == CmmOutbound(v, status)
        IN  /\ call.step = 1 /\ v.cid # "" /\ v.trunk # "" => \/ Owns(phones.owned, v.trunk, v.cid)
                                                               \/ \A o \in phones.owned : o.number # v.cid
            /\ call.step > 1 => /\ call.cid = "" \/ Owns(plant.owned, call.trunk, call.cid)
                                /\ v.trunk # call.trunk /\ Outcome(status, v.trunk) = "down"
    /\ console.at \in {"handoff", "placed"} =>
        /\ console.trio = Trio(console.menu[console.line])
        /\ console.dialled \notin emergencyNumbers

\* A report that does not say it could not check is the truth: it calls a number
\* missing only when the account has it not, and exits 0 only when every number
\* a line answers is there, live, and not known to be another connection's.
AuditIsTrue ==
    audit.at = "done" =>
        /\ \A t \in Asked(audit.of) : \A c \in Claims(audit.of, t.id) :
            WeighClaim(t, c) = "missing" => \A n \in Items(Account) : n.number # c.number
        /\ NumbersExit = 0 => \A t \in Asked(audit.of) : \A c \in Claims(audit.of, t.id) :
            \E n \in Items(Account) : n.number = c.number /\ n.active /\ (c.answers => n.id # "" \/ n.name # "")
=============================================================================
