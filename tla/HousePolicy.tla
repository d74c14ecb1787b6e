---------------------------- MODULE HousePolicy ----------------------------
(***************************************************************************)
(* The rules policy.toml and handsets.toml are held to (internal/policy),  *)
(* and what a caller finds behind a file they accept.  Somebody edits the  *)
(* files a field at a time; the daemon puts in service what compiles and   *)
(* keeps the last policy otherwise.                                        *)
(*                                                                         *)
(* A file is a record of its sections, each a sequence of entries in the   *)
(* order written, so that two entries may carry one id.  A name of the     *)
(* wrong shape is "!".                                                     *)
(***************************************************************************)
EXTENDS Naturals, FiniteSets, Sequences

CONSTANTS
    MaxEdits        \* bound: edits

VARIABLES
    file,           \* the two files and the trunk inventory, as on the disk
    policy,         \* what the daemon has in service
    edits

vars == <<file, policy, edits>>

MaxMenuDepth == 2
MinPINLength == 4
MaxStepRings == 20
MaxMenuRepeat == 5
-----------------------------------------------------------------------------
(* Helpers on lists of entries.                                            *)

Items(list) == {list[i] : i \in DOMAIN list}
Ids(list) == {e.id : e \in Items(list)}
Unique(list) == \A i, j \in DOMAIN list : list[i] = list[j] => i = j
UniqueIds(list) == \A i, j \in DOMAIN list : list[i].id = list[j].id /\ list[i].id # "" => i = j
NoPin == [digits |-> 0, weak |-> FALSE, which |-> 0]
Named(list) == Ids(list) \cap {"", "!"} = {}
With(list, id) == CHOOSE e \in Items(list) : e.id = id
-----------------------------------------------------------------------------
(* The entries.                                                            *)

Handset == [id : STRING, endpoint : STRING, number : Nat, mailbox : STRING, mac : STRING, model : STRING, curfew : Seq(STRING)]
Group == [id : STRING, handsets : SUBSET {"k", "b", "all", "x"}]
Schedule == [id : STRING, enabled : BOOLEAN, window : STRING]
Person == [id : STRING, numbers : SUBSET {"1", "2", "!"}]
Action == [id : STRING, does : BOOLEAN, people : SUBSET {"ann", "*"}]
Shelf == [id : STRING, titles : Seq(STRING)]
MenuChoice == [digit : Nat, kind : {"extension", "menu", "recording", "voicemail", "shelf", "story_of_the_day"}, target : STRING, then : STRING]
Menu == [id : STRING, repeat : Nat, choices : Seq(MenuChoice)]
Step == [handsets : SUBSET {"k", "b", "all", "x"}, rings : Nat]
PIN == [digits : Nat, weak : BOOLEAN, which : Nat]
Extension == [id : STRING, pin : PIN, enabled : BOOLEAN, voicemail : STRING, afterhours : Seq(STRING),
              afterhoursRing : SUBSET {"k", "b", "all", "x"}, steps : Seq(Step)]

-----------------------------------------------------------------------------
(* compileChecked, section by section.                                     *)

Inventory(f) ==
    /\ f.handsets # <<>> /\ Named(f.handsets) /\ UniqueIds(f.handsets)
    /\ \A h \in Items(f.handsets) : h.endpoint # "!"

\* A mailbox is looked at only where there is a number.
Numbers(f) == \A i \in DOMAIN f.handsets : LET h == f.handsets[i] IN
    h.number # 0 =>
        /\ h.number \in 100..199 /\ h.mailbox # "!"
        /\ \A j \in DOMAIN f.handsets : f.handsets[j].number = h.number => i = j
Provisioning(f) == \A i \in DOMAIN f.handsets : LET h == f.handsets[i] IN
    /\ (h.mac = "") <=> (h.model = "")
    /\ h.mac # "!" /\ h.model # "!"
    /\ h.mac # "" => \A j \in DOMAIN f.handsets : f.handsets[j].mac = h.mac => i = j

\* A schedule switched off is held to the same rules, and opens never.
Schedules(f) ==
    /\ Named(f.schedules) /\ UniqueIds(f.schedules)
    /\ \A s \in Items(f.schedules) : s.window # "!"
Windows(f, ids) == [i \in DOMAIN ids |-> [id |-> ids[i], live |-> With(f.schedules, ids[i]).enabled]]
Live(windows) == \E w \in Items(windows) : w.live
ScheduleList(f, ids) == Unique(ids) /\ Items(ids) \subseteq Ids(f.schedules)
Curfews(f) == \A h \in Items(f.handsets) : ScheduleList(f, h.curfew)

Groups(f) ==
    /\ Named(f.groups) /\ UniqueIds(f.groups) /\ Ids(f.groups) \cap Ids(f.handsets) = {}
    /\ \A g \in Items(f.groups) : g.handsets # {} /\ g.handsets \subseteq Ids(f.handsets)

RingTargetIDs(f) == Ids(f.handsets) \cup Ids(f.groups)
Expand(f, ids) == {With(f.handsets, h).endpoint :
    h \in (ids \cap Ids(f.handsets)) \cup UNION {With(f.groups, g).handsets : g \in ids \cap Ids(f.groups)}}

HouseRules(f) == f.house.handsets # {} /\ f.house.handsets \subseteq RingTargetIDs(f) /\ f.house.voicemail # "!"

Line(f) == LET l == f.line IN
    /\ l.silence \in {"dismiss", "ring-house", "voicemail"}
    /\ l.challenge => l.silence # "dismiss"
    /\ l.silence = "voicemail" => f.house.voicemail # ""
    /\ l.trunk # "" => l.trunk \in f.trunks
    /\ l.failover # <<>> => l.trunk # ""
    /\ Unique(l.failover) /\ Items(l.failover) \subseteq f.trunks \ {l.trunk}

People(f) ==
    /\ UniqueIds(f.people)
    /\ \A p \in Items(f.people) : p.id # "!" /\ p.numbers # {} /\ "!" \notin p.numbers
Actions(f) ==
    /\ Named(f.actions) /\ UniqueIds(f.actions)
    /\ \A a \in Items(f.actions) :
        a.does /\ a.people # {} /\ a.people \subseteq (Ids(f.people) \ {""}) \cup {"*"}

Shelves(f) ==
    /\ Named(f.shelves) /\ UniqueIds(f.shelves)
    /\ \A s \in Items(f.shelves) : s.titles # <<>> /\ Unique(s.titles) /\ "!" \notin Items(s.titles)
-----------------------------------------------------------------------------
(* The menus, and what a caller reaches through them.                      *)

\* Of two choices on one digit the file is refused.
Choice(f, id, c) ==
    /\ c.digit \in 0..9
    /\ CASE c.kind = "extension" -> c.target \in Ids(f.extensions) \ {""}
         [] c.kind = "menu" -> c.target # id /\ c.target \in Ids(f.menus)
         [] c.kind \in {"shelf", "story_of_the_day"} -> c.target \in Ids(f.shelves)
         [] OTHER -> c.target # "!"
    /\ c.then # "" => c.kind = "recording" /\ c.then \in {"menu", "goodbye"}
MenuRules(f) ==
    /\ Named(f.menus) /\ UniqueIds(f.menus)
    /\ \A m \in Items(f.menus) :
        /\ m.repeat \in 0..MaxMenuRepeat /\ m.choices # <<>>
        /\ \A i, j \in DOMAIN m.choices : m.choices[i].digit = m.choices[j].digit => i = j
        /\ \A c \in Items(m.choices) : Choice(f, m.id, c)
    /\ f.line.menu = "" \/ f.line.menu \in Ids(f.menus)

Led(menus, id, kinds) == {c.target : c \in {x \in Items(With(menus, id).choices) : x.kind \in kinds}}

\* The front menu and the levels below it, breadth first.
Walk(f) == [d \in 1..(MaxMenuDepth + 1) |->
    IF f.line.menu = "" THEN {}
    ELSE IF d = 1 THEN {f.line.menu}
    ELSE IF d = 2 THEN {f.line.menu} \cup Led(f.menus, f.line.menu, {"menu"})
    ELSE {f.line.menu} \cup Led(f.menus, f.line.menu, {"menu"})
            \cup UNION {Led(f.menus, m, {"menu"}) : m \in Led(f.menus, f.line.menu, {"menu"})}]
ShallowEnough(f) == Walk(f)[MaxMenuDepth + 1] = Walk(f)[MaxMenuDepth]
Reachable(f, kinds) == UNION {Led(f.menus, m, kinds) : m \in Walk(f)[MaxMenuDepth]}

ExtensionIds(f) == "!" \notin Ids(f.extensions) /\ UniqueIds(f.extensions)

\* Mutant of Pin: No PIN is needed by what any menu names.
PinOfAnyMenu(f, i) == LET e == f.extensions[i] IN
    IF e.pin = NoPin
    THEN e.id # "" /\ e.id \in UNION {Led(f.menus, m, {"extension"}) : m \in Ids(f.menus)}
    ELSE /\ e.pin.digits >= MinPINLength /\ ~e.pin.weak
         /\ \A j \in 1..(i - 1) : f.extensions[j].enabled => f.extensions[j].pin # e.pin

\* No PIN only where a reachable menu names the extension.  One that is switched
\* off takes no PIN from another.
Pin(f, i) == LET e == f.extensions[i] IN
    IF e.pin = NoPin
    THEN e.id # "" /\ e.id \in Reachable(f, {"extension"})
    ELSE /\ e.pin.digits >= MinPINLength /\ ~e.pin.weak
         /\ \A j \in 1..(i - 1) : f.extensions[j].enabled => f.extensions[j].pin # e.pin

\* A caller in the quiet hours goes somewhere.
Quiet(f, e) ==
    /\ ScheduleList(f, e.afterhours)
    /\ Live(Windows(f, e.afterhours)) => e.voicemail # "" \/ e.afterhoursRing # {}
    /\ e.afterhoursRing # {} => e.afterhours # <<>>
Ladder(f, e) ==
    /\ e.steps # <<>>
    /\ \A s \in Items(e.steps) : s.handsets # {} /\ s.handsets \subseteq RingTargetIDs(f) /\ s.rings \in 1..MaxStepRings
    /\ e.afterhoursRing \subseteq RingTargetIDs(f) /\ e.voicemail # "!"
Extensions(f) == \A i \in DOMAIN f.extensions : LET e == f.extensions[i] IN Pin(f, i) /\ Quiet(f, e) /\ Ladder(f, e)

\* A section in the wrong file is refused before any rule is asked; a key that
\* no section has is refused by those who author, and dropped by the daemon.
Compiles(f) ==
    /\ ~f.misplaced
    /\ Inventory(f) /\ Numbers(f) /\ Provisioning(f) /\ Schedules(f) /\ Groups(f)
    /\ Curfews(f) /\ HouseRules(f) /\ Line(f) /\ People(f) /\ Actions(f)
    /\ ExtensionIds(f) /\ Shelves(f) /\ MenuRules(f)
    /\ ShallowEnough(f) /\ Extensions(f)
-----------------------------------------------------------------------------
(* The compiled policy.                                                    *)

Plan(f, e) == [i \in DOMAIN e.steps |-> Expand(f, e.steps[i].handsets)]
Resolve(f, e) ==
    [id |-> e.id, pin |-> e.pin, plan |-> Plan(f, e), mailbox |-> e.voicemail,
     quiet |-> Windows(f, e.afterhours), quietPlan |-> Expand(f, e.afterhoursRing)]
Enabled(f) == {e \in Items(f.extensions) : e.enabled}
ExtensionPins(f) == {e.pin.digits : e \in {x \in Enabled(f) : x.pin # NoPin}}
Least(S) == IF S = {} THEN 0 ELSE CHOOSE x \in S : \A y \in S : x <= y
Most(S) == IF S = {} THEN 0 ELSE CHOOSE x \in S : \A y \in S : y <= x

\* The later of two people with one number has it.
Allow(f) == [n \in UNION {p.numbers : p \in Items(f.people)} |->
    f.people[Most({i \in DOMAIN f.people : n \in f.people[i].numbers})].id]

Warnings(f) ==
    {[menu |-> m] : m \in Ids(f.menus) \ Walk(f)[MaxMenuDepth]}
    \cup {[shelf |-> s] : s \in Ids(f.shelves) \ Reachable(f, {"shelf", "story_of_the_day"})}
    \cup {[pin |-> e.pin] : e \in {x \in Items(f.extensions) : x.pin # NoPin /\ f.line.menu # ""}}

Compiled(f) ==
    [exts |-> {Resolve(f, e) : e \in {x \in Enabled(f) : x.pin # NoPin}},
     byID |-> {Resolve(f, e) : e \in {x \in Enabled(f) : x.id # ""}},
     written |-> Ids(f.extensions), house |-> Expand(f, f.house.handsets), houseMailbox |-> f.house.voicemail,
     line |-> f.line, trunks |-> f.trunks, menus |-> f.menus, shelves |-> f.shelves, allow |-> Allow(f), actions |-> Items(f.actions),
     minPin |-> Least(ExtensionPins(f)), maxPin |-> Most(ExtensionPins(f)),
     handsets |-> {[id |-> h.id, endpoint |-> h.endpoint] : h \in Items(f.handsets)},
     warnings |-> Warnings(f)]
-----------------------------------------------------------------------------
(* The household and its edits.                                            *)

Pin1 == [digits |-> 6, weak |-> FALSE, which |-> 1]
Pin2 == [digits |-> 8, weak |-> FALSE, which |-> 2]
Weak == [digits |-> 6, weak |-> TRUE, which |-> 3]
Short == [digits |-> 3, weak |-> FALSE, which |-> 4]
Key(digit, kind, target) == [digit |-> digit, kind |-> kind, target |-> target, then |-> ""]

\* Two phones and a group of them; a front menu that leads to a second one, to an
\* extension without a PIN and to a shelf; an extension with a PIN, quiet at night.
Start ==
    [misplaced |-> FALSE, trunks |-> {"t", "u"},
     handsets |-> <<[id |-> "k", endpoint |-> "K", number |-> 101, mailbox |-> "", mac |-> "", model |-> "", curfew |-> <<"night">>],
                    [id |-> "b", endpoint |-> "B", number |-> 0, mailbox |-> "", mac |-> "b", model |-> "m", curfew |-> <<>>]>>,
     groups |-> <<[id |-> "all", handsets |-> {"k", "b"}]>>,
     schedules |-> <<[id |-> "night", enabled |-> TRUE, window |-> "w"]>>,
     house |-> [handsets |-> {"all"}, voicemail |-> "house"],
     line |-> [menu |-> "front", silence |-> "dismiss", challenge |-> FALSE, trunk |-> "t", failover |-> <<"u">>],
     people |-> <<[id |-> "ann", numbers |-> {"1"}], [id |-> "", numbers |-> {"2"}]>>,
     actions |-> <<[id |-> "gate", does |-> TRUE, people |-> {"ann"}]>>,
     shelves |-> <<[id |-> "s", titles |-> <<"x">>]>>,
     menus |-> <<[id |-> "front", repeat |-> 1, choices |-> <<Key(1, "extension", "shop"), Key(2, "menu", "more")>>],
                 [id |-> "more", repeat |-> 1, choices |-> <<Key(1, "shelf", "s")>>],
                 [id |-> "spare", repeat |-> 1, choices |-> <<Key(1, "extension", "kid")>>]>>,
     extensions |-> <<[id |-> "shop", pin |-> NoPin, enabled |-> TRUE, voicemail |-> "", afterhours |-> <<>>, afterhoursRing |-> {},
                       steps |-> <<[handsets |-> {"k"}, rings |-> 2], [handsets |-> {"all"}, rings |-> 4]>>],
                      [id |-> "kid", pin |-> Pin1, enabled |-> TRUE, voicemail |-> "kid", afterhours |-> <<"night">>, afterhoursRing |-> {},
                       steps |-> <<[handsets |-> {"b"}, rings |-> 2]>>]>>]

\* The files one edit away: an entry deleted, or one field of it changed.
Without(list, i) == SubSeq(list, 1, i - 1) \o SubSeq(list, i + 1, Len(list))
Changes(f) ==
    {[f EXCEPT !.handsets = Without(@, i)] : i \in DOMAIN f.handsets}
    \cup {[f EXCEPT !.handsets[i].id = x] : i \in DOMAIN f.handsets, x \in {"k", "all", "!"}}
    \cup {[f EXCEPT !.handsets[1].number = x] : x \in {0, 101, 250}} \cup {[f EXCEPT !.handsets[Len(f.handsets)].number = 101]}
    \cup {[f EXCEPT !.handsets[1].mac = "b"], [f EXCEPT !.handsets[1].model = "m"], [f EXCEPT !.handsets[1].mailbox = "!"]}
    \cup {[f EXCEPT !.groups[1].handsets = x] : x \in {{}, {"b"}, {"k", "x"}}}
    \cup {[f EXCEPT !.schedules[1].enabled = ~@], [f EXCEPT !.schedules[1].window = "!"], [f EXCEPT !.schedules[1].id = "day"]}
    \cup {[f EXCEPT !.house.handsets = x] : x \in {{}, {"b"}}} \cup {[f EXCEPT !.house.voicemail = ""]}
    \cup {[f EXCEPT !.line.menu = x] : x \in {"", "more", "none"}} \cup {[f EXCEPT !.line.silence = x] : x \in {"voicemail", "ring-house"}}
    \cup {[f EXCEPT !.line.challenge = ~@], [f EXCEPT !.line.trunk = "u"], [f EXCEPT !.trunks = {"t"}]}
    \cup {[f EXCEPT !.people[1].id = ""], [f EXCEPT !.people[2].numbers = {"1"}], [f EXCEPT !.people[2].id = "ann"], [f EXCEPT !.actions[1].people = {"*"}]}
    \cup {[f EXCEPT !.shelves[1].titles = x] : x \in {<<>>, <<"x", "x">>, <<"x", "y">>}}
    \cup {[f EXCEPT !.menus[i].choices[1] = Key(1, k[1], k[2])] : i \in {1, 2, 3},
            k \in {<<"extension", "kid">>, <<"menu", "spare">>, <<"menu", "front">>, <<"shelf", "s">>, <<"recording", "r">>}}
    \cup {[f EXCEPT !.menus[1].choices[2].digit = 1], [f EXCEPT !.menus[1].choices[1].then = "goodbye"], [f EXCEPT !.menus[2].id = "front"]}
    \cup {[f EXCEPT !.extensions[i].enabled = ~@] : i \in {1, 2}} \cup {[f EXCEPT !.extensions[i].id = ""] : i \in {1, 2}}
    \cup {[f EXCEPT !.extensions[i].pin = x] : i \in {1, 2}, x \in {NoPin, Pin1, Pin2, Weak, Short}}
    \cup {[f EXCEPT !.extensions[2].voicemail = ""], [f EXCEPT !.extensions[2].afterhours = <<>>], [f EXCEPT !.extensions[2].afterhoursRing = {"k"}],
           [f EXCEPT !.extensions[1].steps[1].handsets = {}], [f EXCEPT !.extensions[1].steps[1].rings = 0], [f EXCEPT !.misplaced = ~@]}
-----------------------------------------------------------------------------
Init ==
    /\ file = Start /\ Compiles(Start)
    /\ policy = Compiled(Start)
    /\ edits = 0

Edit ==
    /\ edits < MaxEdits /\ edits' = edits + 1
    /\ file' \in Changes(file) \ {file}
    /\ UNCHANGED policy
Reload ==
    /\ Compiles(file) /\ policy # Compiled(file)
    /\ policy' = Compiled(file)
    /\ UNCHANGED <<file, edits>>

Next == Edit \/ Reload
Spec == Init /\ [][Next]_vars
-----------------------------------------------------------------------------
(* What a caller and an author find.                                       *)

\* Policy.MenuDepth: the menus a caller can walk to, however deep.
Below(S) == S \cup UNION {Led(policy.menus, m, {"menu"}) : m \in S}
Walkable == IF policy.line.menu = "" THEN {} ELSE Below(Below(Below(Below({policy.line.menu}))))
ShelfReachable(s) == \E m \in Walkable : s \in Led(policy.menus, m, {"shelf", "story_of_the_day"})
LookupExtensionID(id) == \E e \in policy.byID : e.id = id
Endpoints == {h.endpoint : h \in policy.handsets}

TypeOK ==
    /\ edits \in 0..MaxEdits
    /\ Items(file.handsets) \subseteq Handset /\ Items(file.groups) \subseteq Group
    /\ Items(file.schedules) \subseteq Schedule /\ Items(file.people) \subseteq Person
    /\ Items(file.actions) \subseteq Action /\ Items(file.shelves) \subseteq Shelf
    /\ Items(file.menus) \subseteq Menu /\ Items(file.extensions) \subseteq Extension

\* Whatever edits led to it, a policy in service sends every caller somewhere:
\* each key of each menu that can be walked to leads to a menu, a shelf with
\* titles or an extension that was written; each extension rings phones of the
\* inventory at every step and is within the collector's lengths, or in a menu;
\* in the quiet hours it rings a phone or has a mailbox; and so has the silent
\* caller of a line that sends them to one.
NoDeadEnds ==
    /\ policy.house # {} /\ policy.house \subseteq Endpoints
    /\ policy.line.silence = "voicemail" => policy.houseMailbox # ""
    /\ \A m \in Walkable :
        /\ Led(policy.menus, m, {"menu"}) \subseteq Ids(policy.menus)
        /\ Led(policy.menus, m, {"extension"}) \subseteq policy.written
        /\ \A s \in Led(policy.menus, m, {"shelf", "story_of_the_day"}) : s \in Ids(policy.shelves) /\ With(policy.shelves, s).titles # <<>>
    /\ \A e \in policy.exts \cup policy.byID :
        /\ \A i \in DOMAIN e.plan : e.plan[i] # {} /\ e.plan[i] \subseteq Endpoints
        /\ Live(e.quiet) => e.mailbox # "" \/ e.quietPlan # {}
        /\ IF e.pin = NoPin THEN \E m \in Walkable : e.id \in Led(policy.menus, m, {"extension"})
           ELSE e.pin.digits \in policy.minPin..policy.maxPin
    /\ \A e1, e2 \in policy.exts : e1.pin = e2.pin => e1 = e2

\* What the compiler warns nobody hears is what the readers of the policy find
\* nobody can walk to: the two walks of the menus agree.
WarnsOfTheUnheard ==
    /\ \A m \in Ids(policy.menus) : [menu |-> m] \in policy.warnings <=> m \notin Walkable
    /\ \A s \in Ids(policy.shelves) : [shelf |-> s] \in policy.warnings <=> ~ShelfReachable(s)
=============================================================================
