---------------------------- MODULE RecoverySheet ----------------------------
(***************************************************************************)
(* The printed phrase that opens the house's backups (cmd/doorman:         *)
(* recovery.go; internal/account: recovery.go; internal/backup:            *)
(* recovery.go, recovery_sheet.go).  The backup identity is sealed under a *)
(* phrase; the sealed copy is a generation at the service, and at most one *)
(* is current.  setup makes the first, restore fetches the newest bundle   *)
(* with the old phrase and makes the next; confirm asks for the new phrase *)
(* before the service is told, and then lays a restore's files out.  Each  *)
(* command may stop at any of its writes, and a reply may be lost.         *)
(***************************************************************************)
EXTENDS Naturals, FiniteSets

CONSTANTS
    Boxes,          \* the boxes signed in to the house
    Files,          \* what a bundle holds
    MaxGens,        \* bound: generations ever made
    MaxMishaps      \* bound: lost replies, refused calls, crashes

VARIABLES
    grant,          \* box -> the recovery grant: "none", "asked", "approved"
    op,             \* box -> recovery-operation.json
    sheets,         \* box -> the sheets on its disk
    cipher,         \* box -> recovery-bundle.age is there
    staging,        \* box -> the directory beside the inspection root
    root,           \* box -> the inspection root
    receipt,        \* box -> the generation of recovery-receipt.json
    cmd,            \* box -> the command that runs
    gens,           \* external: generation -> its state and predecessor
    bundles,        \* external: a stored backup exists
    held,           \* the phrases the owner has printed or saved
    mishaps

vars == <<grant, op, sheets, cipher, staging, root, receipt, cmd, gens, bundles, held, mishaps>>
files == <<op, sheets, cipher, staging, root, receipt>>
outside == <<gens, bundles, held>>

NoOp == [gen |-> 0, pred |-> 0, restores |-> FALSE]
Idle == [at |-> "idle", kind |-> "none", gen |-> 0, pred |-> 0]
Missing == {}
Ids == DOMAIN gens
Listed == {g \in Ids : gens[g].state \in {"pending", "current"}}
Current == {g \in Ids : gens[g].state = "current"}
Pred == IF Current = {} THEN 0 ELSE CHOOSE g \in Current : TRUE
Unused == {g \in 1 .. MaxGens : g \notin Ids /\ \A b \in Boxes : g \notin sheets[b] /\ g # cmd[b].gen}
Mishap == mishaps < MaxMishaps /\ mishaps' = mishaps + 1

Init ==
    /\ grant = [b \in Boxes |-> "none"] /\ op = [b \in Boxes |-> NoOp]
    /\ sheets = [b \in Boxes |-> {}] /\ cipher = [b \in Boxes |-> FALSE]
    /\ staging = [b \in Boxes |-> Missing] /\ root = [b \in Boxes |-> Missing]
    /\ receipt = [b \in Boxes |-> 0] /\ cmd = [b \in Boxes |-> Idle]
    /\ gens = <<>> /\ bundles \in BOOLEAN /\ held = {} /\ mishaps = 0

Step(b, from, to) == cmd[b].at = from /\ cmd' = [cmd EXCEPT ![b].at = to]
End(b) == cmd' = [cmd EXCEPT ![b] = Idle]
-----------------------------------------------------------------------------
(* The grant, and the calls made with it.                                  *)

\* The secret is saved before it is sent; the owner approves it with a passkey.
Ask(b) ==
    /\ grant[b] = "none" /\ grant' = [grant EXCEPT ![b] = "asked"]
    /\ UNCHANGED <<files, cmd, outside, mishaps>>

Approve(b) ==
    /\ grant[b] = "asked" /\ grant' = [grant EXCEPT ![b] = "approved"]
    /\ UNCHANGED <<files, cmd, outside, mishaps>>

\* The service refuses the grant (401), or it expires: it is forgotten.
Expire(b) ==
    /\ grant[b] = "approved" /\ Mishap
    /\ grant' = [grant EXCEPT ![b] = "none"] /\ End(b)
    /\ UNCHANGED <<files, outside>>

\* recoveryPost: a call with the grant; its reply comes, or is lost.
Call(b) == grant[b] = "approved"
Lost(b) == Mishap /\ End(b)
Replied(b, to) == cmd' = [cmd EXCEPT ![b].at = to] /\ UNCHANGED mishaps
-----------------------------------------------------------------------------
(* external: the service.  A compare-and-swap retires the predecessor.     *)

CanPrepare(g, p) == IF g \in Ids THEN gens[g].state \in {"pending", "current"} ELSE p = Pred
Prepared(g, p) == IF g \in Ids THEN gens ELSE
    [i \in Ids \cup {g} |-> IF i = g THEN [state |-> "pending", pred |-> p] ELSE gens[i]]
CanConfirm(g) ==
    g \in Ids /\ (gens[g].state = "current" \/ (gens[g].state = "pending" /\ gens[g].pred = Pred))
Confirmed(g) ==
    [i \in Ids |-> IF i = g THEN [gens[i] EXCEPT !.state = "current"]
                   ELSE IF gens[i].state = "current" THEN [gens[i] EXCEPT !.state = "retired"]
                   ELSE gens[i]]
CanCancel(g) == g \in Ids /\ gens[g].state \in {"pending", "cancelled"}
-----------------------------------------------------------------------------
(* setup and restore.                                                      *)

\* No generation is known yet, and the box has its own identity.
Setup(b) ==
    /\ cmd[b] = Idle /\ op[b] = NoOp /\ Call(b) /\ Listed = {}
    /\ cmd' = [cmd EXCEPT ![b] = [at |-> "sheet", kind |-> "setup", gen |-> 0, pred |-> 0]]
    /\ UNCHANGED <<grant, files, outside, mishaps>>

\* The current generation opens with the phrase the owner types, the newest
\* bundle opens with the identity inside, and holds no credentials.
Restore(b) ==
    /\ cmd[b] = Idle /\ op[b] = NoOp /\ root[b] = Missing /\ Call(b)
    /\ bundles /\ Current # {} /\ Current \subseteq held
    /\ cmd' = [cmd EXCEPT ![b] = [at |-> "sheet", kind |-> "restore", gen |-> 0, pred |-> Pred]]
    /\ UNCHANGED <<grant, files, outside, mishaps>>

\* A pending operation is taken up again, by the same command or by confirm.
Resume(b) ==
    /\ cmd[b] = Idle /\ op[b] # NoOp
    /\ cmd' = [cmd EXCEPT ![b] = [at |-> "prepare", kind |-> "resume", gen |-> op[b].gen,
                                  pred |-> op[b].pred]]
    /\ UNCHANGED <<grant, files, outside, mishaps>>

Fresh == CHOOSE g \in Unused : TRUE

\* A fresh phrase is drawn and the identity sealed under it; the printable
\* sheet is on the disk before anything else is.
SaveSheet(b) ==
    /\ cmd[b].at = "sheet" /\ Unused # {} /\ sheets' = [sheets EXCEPT ![b] = @ \cup {Fresh}]
    /\ cmd' = [cmd EXCEPT ![b].at = IF cmd[b].kind = "restore" THEN "cipher" ELSE "op", ![b].gen = Fresh]
    /\ UNCHANGED <<grant, op, cipher, staging, root, receipt, outside, mishaps>>

SaveCipher(b) ==
    /\ Step(b, "cipher", "op") /\ cipher' = [cipher EXCEPT ![b] = TRUE]
    /\ UNCHANGED <<grant, op, sheets, staging, root, receipt, outside, mishaps>>

SaveOp(b) ==
    /\ Step(b, "op", "prepare")
    /\ op' = [op EXCEPT ![b] = [gen |-> cmd[b].gen, pred |-> cmd[b].pred,
                                restores |-> cmd[b].kind = "restore"]]
    /\ UNCHANGED <<grant, sheets, cipher, staging, root, receipt, outside, mishaps>>

\* ensureRecoveryPrepared: what is current already needs no more.
Prepare(b) ==
    /\ cmd[b].at = "prepare" /\ Call(b)
    /\ IF CanPrepare(cmd[b].gen, cmd[b].pred)
          THEN /\ gens' = Prepared(cmd[b].gen, cmd[b].pred)
               /\ (Replied(b, "prepared") \/ Lost(b))
          ELSE gens' = gens /\ End(b) /\ UNCHANGED mishaps
    /\ UNCHANGED <<grant, files, bundles, held>>

\* setup and restore stop here; the owner prints the sheet and comes back.
Stop(b) ==
    /\ cmd[b].at = "prepared" /\ End(b)
    /\ UNCHANGED <<grant, files, outside, mishaps>>

PrintSheet(b) ==
    /\ \E g \in sheets[b] \ held : held' = held \cup {g}
    /\ UNCHANGED <<grant, files, cmd, gens, bundles, mishaps>>
-----------------------------------------------------------------------------
(* confirm and cancel.                                                     *)

\* The sealed copy is downloaded and opened with the phrase that was typed,
\* and a restore's bundle with the identity it held.
PhraseOpens(b) == cmd[b].gen \in held

\* The ciphertext on disk is the one the operation hashed, and all of it opens.
CipherOpens(b) == cipher[b]

\* Mutant of Open: the stored hash is enough.
OpenUnread(b) ==
    /\ cmd[b].at = "prepared" /\ cmd[b].kind = "resume" /\ Call(b)
    /\ cmd' = [cmd EXCEPT ![b].at = "confirm"]
    /\ UNCHANGED <<grant, files, outside, mishaps>>

Open(b) ==
    /\ cmd[b].at = "prepared" /\ cmd[b].kind = "resume" /\ Call(b)
    /\ PhraseOpens(b) /\ (op[b].restores => CipherOpens(b))
    /\ cmd' = [cmd EXCEPT ![b].at = "confirm"]
    /\ UNCHANGED <<grant, files, outside, mishaps>>

Confirm(b) ==
    /\ cmd[b].at = "confirm" /\ Call(b)
    /\ IF CanConfirm(cmd[b].gen)
          THEN /\ gens' = Confirmed(cmd[b].gen)
               /\ (Replied(b, IF op[b].restores THEN "stage" ELSE "receipt") \/ Lost(b))
          ELSE gens' = gens /\ End(b) /\ UNCHANGED mishaps
    /\ UNCHANGED <<grant, files, bundles, held>>

\* A new directory beside the root is filled file by file; it is removed again
\* when a write or an owner fails, and left behind by a crash.
StageFile(b) ==
    /\ cmd[b].at = "stage" /\ root[b] = Missing
    /\ \E f \in Files \ staging[b] : staging' = [staging EXCEPT ![b] = @ \cup {f}]
    /\ UNCHANGED <<grant, op, sheets, cipher, root, receipt, cmd, outside, mishaps>>

StageFails(b) ==
    /\ cmd[b].at = "stage" /\ root[b] = Missing /\ Lost(b)
    /\ staging' = [staging EXCEPT ![b] = Missing]
    /\ UNCHANGED <<grant, op, sheets, cipher, root, receipt, outside>>

\* Every file is read again and synced, and the directory renamed to the root.
Verified(b, where) == where = Files
Publish(b) ==
    /\ cmd[b].at = "stage" /\ root[b] = Missing /\ Verified(b, staging[b])
    /\ root' = [root EXCEPT ![b] = staging[b]] /\ staging' = [staging EXCEPT ![b] = Missing]
    /\ cmd' = [cmd EXCEPT ![b].at = "receipt"]
    /\ UNCHANGED <<grant, op, sheets, cipher, receipt, outside, mishaps>>

\* A root that is already there is checked and not written.
AlreadyThere(b) ==
    /\ cmd[b].at = "stage" /\ root[b] # Missing
    /\ IF Verified(b, root[b]) THEN cmd' = [cmd EXCEPT ![b].at = "receipt"] ELSE End(b)
    /\ UNCHANGED <<grant, files, outside, mishaps>>

SaveReceipt(b) ==
    /\ Step(b, "receipt", "done") /\ receipt' = [receipt EXCEPT ![b] = cmd[b].gen]
    /\ UNCHANGED <<grant, op, sheets, cipher, staging, root, outside, mishaps>>

RemoveOp(b) ==
    /\ cmd[b].at = "done" /\ End(b)
    /\ op' = [op EXCEPT ![b] = NoOp] /\ cipher' = [cipher EXCEPT ![b] = FALSE]
    /\ UNCHANGED <<grant, sheets, staging, root, receipt, outside, mishaps>>

Cancel(b) ==
    /\ cmd[b] = Idle /\ op[b] # NoOp /\ Call(b) /\ CanCancel(op[b].gen)
    /\ gens' = [gens EXCEPT ![op[b].gen].state = "cancelled"]
    /\ \/ Mishap /\ UNCHANGED <<op, cipher>>
       \/ /\ op' = [op EXCEPT ![b] = NoOp] /\ cipher' = [cipher EXCEPT ![b] = FALSE]
          /\ UNCHANGED mishaps
    /\ UNCHANGED <<grant, sheets, staging, root, receipt, cmd, bundles, held>>

\* A crash forgets the command; a staging directory stays and is never used
\* again: the next one has a name of its own.
Crash(b) ==
    /\ cmd[b] # Idle /\ Lost(b) /\ staging' = [staging EXCEPT ![b] = Missing]
    /\ UNCHANGED <<grant, op, sheets, cipher, root, receipt, outside>>

Next == \E b \in Boxes :
    \/ Ask(b) \/ Approve(b) \/ Expire(b)
    \/ Setup(b) \/ Restore(b) \/ Resume(b) \/ SaveSheet(b) \/ SaveCipher(b) \/ SaveOp(b)
    \/ Prepare(b) \/ Stop(b) \/ PrintSheet(b)
    \/ Open(b) \/ Confirm(b) \/ StageFile(b) \/ StageFails(b) \/ Publish(b) \/ AlreadyThere(b)
    \/ SaveReceipt(b) \/ RemoveOp(b) \/ Cancel(b) \/ Crash(b)

Spec == Init /\ [][Next]_vars

TypeOK ==
    /\ \A b \in Boxes :
        /\ grant[b] \in {"none", "asked", "approved"} /\ sheets[b] \subseteq 1 .. MaxGens
        /\ staging[b] \subseteq Files /\ root[b] \subseteq Files /\ receipt[b] \in 0 .. MaxGens
    /\ Ids \subseteq 1 .. MaxGens /\ held \subseteq 1 .. MaxGens /\ mishaps \in 0 .. MaxMishaps
-----------------------------------------------------------------------------
\* The phrase that opens the current generation is in the owner's hands, and a
\* pending one is on the disk of the box that made it; there is one current.
NobodyIsLockedOut ==
    /\ Current \subseteq held /\ Cardinality(Current) <= 1
    /\ \A g \in Listed : \E b \in Boxes : g \in sheets[b]

\* An inspection root is whole or not there, and the receipt of a restore says
\* so only then.
RootIsWhole == \A b \in Boxes : root[b] \in {Missing, Files}

\* An operation is forgotten when the service has cancelled it, or when it is
\* confirmed and its receipt is saved.
OpIsSettled ==
    \A b \in Boxes : (op[b] # NoOp /\ op'[b] = NoOp) =>
        LET g == op[b].gen
        IN  \/ gens'[g].state = "cancelled"
            \/ /\ gens[g].state \in {"current", "retired"} /\ receipt[b] = g
               /\ op[b].restores => root[b] = Files
=============================================================================
