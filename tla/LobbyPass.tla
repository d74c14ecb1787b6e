----------------------------- MODULE LobbyPass -----------------------------
(***************************************************************************)
(* Who rings straight through (cmd/doorman/lobbypass.go), read from the    *)
(* account books by the rules sync and the directory share                 *)
(* (internal/configcheck, internal/accountbook).  The daemon holds the one *)
(* book whose role is lobby-pass, looks at the books every second, keeps   *)
(* what it holds when they are refused, and starts on a copy of its own    *)
(* when they are refused then.                                             *)
(*                                                                         *)
(* The books are read at once, and the inventory after them.               *)
(***************************************************************************)
EXTENDS Naturals, FiniteSets

CONSTANTS
    MaxDepth,       \* the longest chain of includes
    MaxEdits,       \* bound: deliveries and edits
    MaxStops        \* bound: restarts

VARIABLES
    books,          \* the managed files
    selected,       \* the book a handset's directory selects
    copy,           \* .lobby-pass.last-good
    daemon,         \* where its reload is
    stamp,          \* the inputs last considered
    read,           \* the books as it read them
    set,            \* the book it admits from
    accepted,       \* every book some accepted set held as its pass
    raced,          \* what was last considered is not what was stamped
    edits, stops

inputs == <<books, selected>>
vars == <<books, selected, copy, daemon, stamp, read, set, accepted, raced, edits, stops>>

\* A book: its role, the holders or contacts, and what it includes.
Book(role, revision, includes) == [role |-> role, revision |-> revision, includes |-> includes]
Absent == Book("absent", 0, {})
Broken == Book("broken", 0, {})
Ids == {"p", "d", "e"}
Contents ==
    [p |-> {Absent, Broken, Book("lobby-pass", 1, {}), Book("lobby-pass", 2, {})},
     d |-> {Absent, Book("directory", 1, {}), Book("directory", 2, {"e"}), Book("directory", 3, {"p"}), Book("lobby-pass", 3, {})},
     e |-> {Book("directory", 1, {}), Book("directory", 2, {"d"})}]

Init ==
    /\ books = [p |-> Book("lobby-pass", 1, {}), d |-> Book("directory", 1, {}), e |-> Book("directory", 1, {})]
    /\ selected = "d"
    /\ copy = Absent /\ daemon = "down" /\ stamp = <<>> /\ read = <<>> /\ set = Absent
    /\ accepted = {} /\ raced = FALSE /\ edits = 0 /\ stops = 0
-----------------------------------------------------------------------------
(* The rules.                                                              *)

Held(b) == {i \in Ids : b[i] # Absent}
LobbyPass(b) == {i \in Held(b) : b[i].role = "lobby-pass"}

\* Book.Problems: a pass book includes nothing, no book includes itself.
Problems(b, i) == b[i].role = "broken" \/ i \in b[i].includes \/ (i \in LobbyPass(b) /\ b[i].includes # {})

\* The chains of n includes from a book.
Chains(b, n) == {c \in [1..(n + 1) -> Held(b)] : \A k \in 1..n : c[k + 1] \in b[c[k]].includes}
Cycle(b) == \E n \in 1..Cardinality(Ids) : \E c \in Chains(b, n) : c[1] = c[n + 1]
TooDeep(b) == Chains(b, MaxDepth + 1) # {}

Check(b) ==
    /\ Cardinality(LobbyPass(b)) <= 1
    /\ \A i \in Held(b) : b[i].includes \subseteq Held(b) \ LobbyPass(b)
    /\ ~Cycle(b) /\ ~TooDeep(b)

\* AccountBooks: each file, the set of them, and what handsets select.
Accepts(b, s) ==
    /\ \A i \in Held(b) : ~Problems(b, i)
    /\ Check(b)
    /\ s \in {"none"} \cup (Held(b) \ LobbyPass(b))

LobbyPassBook(b) == IF LobbyPass(b) = {} THEN Absent ELSE b[CHOOSE i \in LobbyPass(b) : TRUE]
-----------------------------------------------------------------------------
(* The daemon.                                                             *)

Consider(from) ==
    /\ daemon' = from /\ stamp' = inputs
    /\ UNCHANGED <<books, selected, copy, read, accepted, raced, edits, stops>>

OpenPasses == daemon = "down" /\ Consider("start") /\ set' = Absent
Watch == daemon = "up" /\ stamp # inputs /\ Consider("reload") /\ UNCHANGED set

ReadBooks ==
    /\ daemon \in {"start", "reload"} /\ read = <<>>
    /\ read' = books
    /\ UNCHANGED <<books, selected, copy, daemon, stamp, set, accepted, raced, edits, stops>>

\* The inventory is read for the verdict.
Verdict(to) ==
    /\ daemon \in {"start", "reload"} /\ read # <<>>
    /\ raced' = (stamp # <<read, selected>>)
    /\ read' = <<>> /\ daemon' = to
    /\ UNCHANGED <<books, selected, copy, edits, stops>>

Take ==
    /\ Verdict(IF LobbyPass(read) = {} THEN "up" ELSE "copy") /\ Accepts(read, selected)
    /\ set' = LobbyPassBook(read)
    /\ accepted' = accepted \cup {set'}

\* Mutant of Accept: The stamp is of what is there by now.
AcceptRestamped == Take /\ stamp' = inputs

\* The pass book goes into service; a set without one empties it, and leaves
\* the copy where it is.
Accept == Take /\ UNCHANGED stamp

\* writeLastGoodPass, by a rename; it may fail, which is only logged.
KeepCopy ==
    /\ daemon = "copy"
    /\ copy' \in {set, copy} /\ daemon' = "up"
    /\ UNCHANGED <<books, selected, stamp, read, set, accepted, raced, edits, stops>>

\* Refused: what is in service stays, and at a start the copy stands in.
Refused ==
    /\ Verdict("up") /\ ~Accepts(read, selected)
    /\ set' = IF daemon = "start" THEN copy ELSE set
    /\ UNCHANGED <<stamp, accepted>>

\* A delivery or an edit of one book, or of what a handset selects.
Edit ==
    /\ edits < MaxEdits /\ edits' = edits + 1
    /\ \/ \E i \in Ids : \E c \in Contents[i] \ {books[i]} : books' = [books EXCEPT ![i] = c] /\ UNCHANGED selected
       \/ selected' \in {"none", "d", "p"} \ {selected} /\ UNCHANGED books
    /\ UNCHANGED <<copy, daemon, stamp, read, set, accepted, raced, stops>>

Stop ==
    /\ daemon # "down" /\ stops < MaxStops /\ stops' = stops + 1
    /\ daemon' = "down" /\ set' = Absent /\ read' = <<>>
    /\ UNCHANGED <<books, selected, copy, stamp, accepted, raced, edits>>

Daemon == OpenPasses \/ Watch \/ ReadBooks \/ Accept \/ KeepCopy \/ Refused
Next == Daemon \/ Edit \/ Stop

Spec == Init /\ [][Next]_vars /\ WF_vars(Daemon)
-----------------------------------------------------------------------------
(* Properties.                                                             *)

TypeOK ==
    /\ \A i \in Ids : books[i] \in Contents[i]
    /\ daemon \in {"down", "start", "reload", "copy", "up"}
    /\ selected \in {"none", "d", "p"} /\ edits <= MaxEdits /\ stops <= MaxStops

\* Nobody rings straight through who was not, in some set the shared rules
\* accepted, a holder of a pass: whatever a refused set or a copy says.
AdmitsTheAccepted == set = Absent \/ set \in accepted

\* Valid books are what the daemon comes to admit from, whatever changed while
\* it looked, unless what changed was put back: read in between, it is held (or
\* refused) under the stamp of what is there, until something else changes.
AdmitsFromTheDisk ==
    []<>(daemon = "up" /\ Accepts(books, selected) =>
            set = LobbyPassBook(books) \/ (raced /\ stamp = inputs))
=============================================================================
