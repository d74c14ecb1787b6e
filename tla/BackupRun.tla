------------------------------ MODULE BackupRun ------------------------------
(***************************************************************************)
(* The house as one sealed file, and a box from it (internal/backup:       *)
(* backup.go, dest.go, s3.go; cmd/doorman/backup.go).  A run collects the  *)
(* files, proves with the on-box key that the bundle opens, delivers it to *)
(* every destination in turn and prunes what is old there, reads each copy *)
(* back, and only then writes last.json.  A restore refuses a house that   *)
(* is already there, or keeps a copy of every file it replaces.  Either    *)
(* command may stop at any of its writes.                                  *)
(***************************************************************************)
EXTENDS Naturals, FiniteSets

CONSTANTS
    HouseFiles,     \* .env and the TOMLs
    OtherFiles,     \* the state directory, the journal, voicemail
    Credentials,    \* of those, the account's and the on-box key
    Enabled,        \* the sets of destinations a house may name
    Daily, Weekly,  \* BACKUP_KEEP_DAILY, BACKUP_KEEP_WEEKLY
    MaxTime,        \* bound: half days
    MaxEdits,       \* bound: versions of a file
    MaxMishaps      \* bound: failed, lost or truncated deliveries, crashes

VARIABLES
    now,            \* half days
    disk,           \* file -> version, 0 when absent
    kept,           \* the .bak copies: file and version
    ident,          \* the on-box copy of the private key
    enabled,        \* the destinations .env names
    enrolled,       \* external: the box is still in its account
    store,          \* destination -> the bundles it holds
    last,           \* last.json
    run,            \* the command that runs
    mishaps

vars == <<now, disk, kept, ident, enabled, enrolled, store, last, run, mishaps>>

Files == HouseFiles \cup OtherFiles
Dests == {"file", "s3", "cloud"}
WriteOnly(d) == d = "cloud"
Us == "us"
Never == [at |-> 0, dests |-> {}, failed |-> {}, unverified |-> {}, removed |-> {},
          verified |-> FALSE, rc |-> 0]
Idle == [at |-> "idle"]
Day == 2
Week == 4
Bundles == [host : {Us, "them"}, at : 0 .. MaxTime, files : [Files -> 0 .. MaxEdits],
            whole : BOOLEAN]
Mishap == mishaps < MaxMishaps /\ mishaps' = mishaps + 1

Init ==
    /\ now = 1 /\ disk = [f \in Files |-> 1] /\ kept = {}
    /\ ident \in {"none", "right", "bad"}
    /\ enabled \in Enabled /\ enrolled = TRUE
    /\ store = [d \in Dests |-> IF WriteOnly(d) THEN {} ELSE
                   {[host |-> "them", at |-> 0, files |-> [f \in Files |-> 1], whole |-> TRUE]}]
    /\ last = Never /\ run = Idle /\ mishaps = 0
-----------------------------------------------------------------------------
(* doorman backup run.                                                     *)

\* The bundle opens with the on-box key.
Opens(b) == b.whole

\* The account's credentials and the backup state are in no bundle: a
\* replacement signs in on its own.
Excluded(f) == f \in Credentials

\* An absent file is skipped; the journal's copy is a snapshot of its own.
Collect == [host |-> Us, at |-> now, files |-> [f \in Files |-> IF Excluded(f) THEN 0 ELSE disk[f]],
            whole |-> TRUE]

\* A key that is configured and cannot be read, or does not open what was
\* just made, fails the run before anything is delivered.
FirstProofFails ==
    /\ ident = "bad"
    /\ last' = [Never EXCEPT !.at = now, !.failed = {"verify"}, !.rc = 1]
    /\ UNCHANGED run

StartRun ==
    /\ run = Idle /\ last.at < now
    /\ \/ FirstProofFails
       \/ /\ ident \in {"none", "right"}
          /\ run' = [at |-> "deliver", todo |-> enabled, bundle |-> Collect,
                     answers |-> [d \in enabled |-> "none"]]
          /\ UNCHANGED last
    /\ UNCHANGED <<now, disk, kept, ident, enabled, enrolled, store, mishaps>>

\* The newest bundle of each of the last days, and of each of the last weeks;
\* another host's bundles are not counted and not touched.
NewestOf(S, unit) ==
    {b \in S : \A c \in S : c.at \div unit = b.at \div unit => c.at <= b.at}
LastUnits(S, unit, n) ==
    {b \in NewestOf(S, unit) :
        Cardinality({k \in {c.at \div unit : c \in S} : k > b.at \div unit}) < n}
Keep(names) ==
    LET ours == {b \in names : b.host = Us}
    IN  LastUnits(ours, Day, Daily) \cup LastUnits(ours, Week, Weekly)
Prune(names) == {b \in names : b.host = Us} \ Keep(names)

\* The destinations are tried in this order.
First(S) == IF "file" \in S THEN "file" ELSE IF "s3" \in S THEN "s3" ELSE "cloud"

\* A bundle under the name of this run takes the place of the one before.
Put(d, b) == {c \in store[d] : ~(c.host = b.host /\ c.at = b.at)} \cup {b}

\* What a put answers, and what the destination keeps: an error may hide a
\* stored bundle, and the bucket may keep a part of what it acknowledged.  The
\* upload credentials of a removed box are refused.
Outcomes(d) ==
    {o \in [answer : {"ok", "error", "removed"}, keeps : {"whole", "truncated", "nothing"}] :
        /\ (o.answer = "removed") <=> (d = "cloud" /\ ~enrolled)
        /\ (o.answer = "ok") => (o.keeps # "nothing")
        /\ (o.answer = "removed") => (o.keeps = "nothing")
        /\ (o.keeps = "truncated") => (d = "s3")}

\* One destination: the bundle is put; where the credentials can list, what is
\* old is deleted, and a delete that fails stops the pruning.
Deliver(d) ==
    /\ run.at = "deliver" /\ run.todo # {} /\ d = First(run.todo)
    /\ \E o \in Outcomes(d) :
          /\ IF o.answer = "error" \/ o.keeps = "truncated" THEN Mishap ELSE UNCHANGED mishaps
          /\ run' = [run EXCEPT !.todo = @ \ {d}, !.answers[d] = o.answer]
          /\ LET there == IF o.keeps = "nothing" THEN store[d]
                          ELSE Put(d, [run.bundle EXCEPT !.whole = (o.keeps = "whole")])
                 old == IF WriteOnly(d) THEN {} ELSE Prune(there)
             IN  \* an error before the list prunes nothing, one between two deletes some
                 \E gone \in SUBSET old :
                    /\ (o.answer = "ok") => (gone = old)
                    /\ (o.keeps = "nothing") => (gone = {})
                    /\ store' = [store EXCEPT ![d] = there \ gone]
    /\ UNCHANGED <<now, disk, kept, ident, enabled, enrolled, last>>

\* What the destination kept is fetched and opened with the on-box key.
ReadBack(d) == \E b \in store[d] : b.host = Us /\ b.at = run.bundle.at /\ Opens(b)
CanRead(d) == ident = "right" /\ ~WriteOnly(d)

Gone == {d \in enabled : run.answers[d] = "removed"}
Unread == {d \in enabled : run.answers[d] = "ok" /\ WriteOnly(d)}
\* Mutant of FailedAt: an acknowledged delivery counts as read back.
FailedByAnswer == {d \in enabled : run.answers[d] = "error"}

FailedAt == {d \in enabled : run.answers[d] = "error"
                              \/ (run.answers[d] = "ok" /\ CanRead(d) /\ ~ReadBack(d))}

\* The results, once every destination has been tried, and last.json.  A removal
\* alone is quiet only while another destination holds the copy.
Report ==
    /\ run.at = "deliver" /\ run.todo = {}
    /\ LET done == enabled \ (Gone \cup FailedAt)
           nothing == done = {} /\ Gone # {} /\ FailedAt = {}
       IN  last' = [at |-> run.bundle.at, dests |-> done, failed |-> FailedAt,
                       unverified |-> Unread, removed |-> Gone,
                       verified |-> ident = "right" /\ FailedAt \cup Unread = {} /\ done # {},
                       rc |-> IF FailedAt # {} \/ nothing THEN 1 ELSE 0]
    /\ run' = Idle
    /\ UNCHANGED <<now, disk, kept, ident, enabled, enrolled, store, mishaps>>

\* forgetRemovedBackup, once the box is enrolled again; the rest stays.
LogIn ==
    /\ ~enrolled /\ enrolled' = TRUE
    /\ last' = [last EXCEPT !.removed = {}]
    /\ UNCHANGED <<now, disk, kept, ident, enabled, store, run, mishaps>>
\* doorman check: the last run is fresh, nothing failed, and a destination that
\* stopped was not the only one.
CheckIsGreen ==
    /\ last.at # 0 /\ now - last.at <= 2 /\ last.failed = {}
    /\ (last.removed # {}) => (last.dests # {})
-----------------------------------------------------------------------------
(* doorman restore.                                                        *)

Latest(names) == {b \in names : \A c \in names : c.at <= b.at}

\* A bundle whose files do not match its manifest is refused whole.  Any
\* house file present means a house is here, and only --force goes on.
StartRestore ==
    /\ run = Idle
    /\ \E d \in Dests : \E b \in Latest(store[d]), force \in BOOLEAN :
          /\ ~WriteOnly(d) /\ Opens(b)
          /\ (\E f \in HouseFiles : b.files[f] # 0 /\ disk[f] # 0) => force
          /\ run' = [at |-> "restore", bundle |-> b, force |-> force,
                     copy |-> IF force THEN {f \in Files : b.files[f] # 0} ELSE {},
                     place |-> {f \in Files : b.files[f] # 0}]
    /\ UNCHANGED <<now, disk, kept, ident, enabled, enrolled, store, last, mishaps>>

\* setup.Backup: the file that will be replaced is renamed beside itself.
KeepCopy ==
    /\ run.at = "restore" /\ run.copy # {}
    /\ \E f \in run.copy :
          /\ run' = [run EXCEPT !.copy = @ \ {f}]
          /\ kept' = IF disk[f] = 0 THEN kept ELSE kept \cup {<<f, disk[f]>>}
          /\ disk' = [disk EXCEPT ![f] = 0]
    /\ UNCHANGED <<now, ident, enabled, enrolled, store, last, mishaps>>

\* One file of the bundle is written to its path.
Place ==
    /\ run.at = "restore" /\ run.copy = {} /\ run.place # {}
    /\ \E f \in run.place :
          /\ disk' = [disk EXCEPT ![f] = run.bundle.files[f]]
          /\ run' = [run EXCEPT !.place = @ \ {f}]
    /\ UNCHANGED <<now, kept, ident, enabled, enrolled, store, last, mishaps>>

Restored ==
    /\ run.at = "restore" /\ run.copy = {} /\ run.place = {}
    /\ run' = Idle
    /\ UNCHANGED <<now, disk, kept, ident, enabled, enrolled, store, last, mishaps>>
-----------------------------------------------------------------------------
(* The house around them.                                                  *)

\* The owner or the daemon changes a file; the box is lost with all its files.
\* Bounds: nobody edits while a command runs, and one file at a time; the credentials are another
\* module's (AccountStore).
Edit ==
    /\ run = Idle
    /\ \E f \in Files \ Credentials : (\A g \in Files : disk[g] < MaxEdits) /\ disk' = [disk EXCEPT ![f] = @ + 1]
    /\ UNCHANGED <<now, kept, ident, enabled, enrolled, store, last, run, mishaps>>

Lost ==
    /\ run = Idle /\ disk' = [f \in Files |-> 0] /\ kept' = {} /\ last' = Never /\ Mishap
    /\ UNCHANGED <<now, ident, enabled, enrolled, store, run>>

\* Bound: the clock does not go back.
Tick ==
    /\ now < MaxTime /\ now' = now + 1
    /\ UNCHANGED <<disk, kept, ident, enabled, enrolled, store, last, run, mishaps>>

OwnerRemovesBox ==
    /\ enrolled /\ "cloud" \in enabled /\ Mishap /\ enrolled' = FALSE
    /\ UNCHANGED <<now, disk, kept, ident, enabled, store, last, run>>

Crash ==
    /\ run # Idle /\ Mishap /\ run' = Idle
    /\ UNCHANGED <<now, disk, kept, ident, enabled, enrolled, store, last>>

Next ==
    \/ StartRun \/ (\E d \in enabled : Deliver(d)) \/ Report \/ LogIn
    \/ StartRestore \/ KeepCopy \/ Place \/ Restored
    \/ Edit \/ Lost \/ Tick \/ OwnerRemovesBox \/ Crash

Spec == Init /\ [][Next]_vars

TypeOK ==
    /\ now \in 1 .. MaxTime /\ disk \in [Files -> 0 .. MaxEdits]
    /\ kept \subseteq (Files \X (1 .. MaxEdits)) /\ enabled \subseteq Dests
    /\ enrolled \in BOOLEAN /\ \A d \in Dests : store[d] \subseteq Bundles
    /\ last.failed \subseteq (Dests \cup {"verify"}) /\ mishaps \in 0 .. MaxMishaps
-----------------------------------------------------------------------------
\* last.json and the exit code are true of the destinations: "verified" means
\* every destination that was not given up holds this run's bundle and it
\* opens; and a run that exits 0, or leaves the check green, left its bundle
\* somewhere.  backupRun.
Holds(d, at) == \E b \in store[d] : b.host = Us /\ b.at = at
HoldsWhole(d, at) == \E b \in store[d] : b.host = Us /\ b.at = at /\ Opens(b)
LastIsTrue ==
    (last'.at # last.at /\ run # Idle) =>
        /\ last'.verified => \A d \in enabled \ last'.removed : HoldsWhole(d, last'.at)
        /\ (last'.rc = 0 \/ CheckIsGreen') => \E d \in enabled : Holds(d, last'.at)

\* What a run deletes at a destination is its own and has a newer one of its
\* own beside it.
PruneIsOld ==
    \A d \in Dests : \A b \in store[d] \ store'[d] :
        b.host = Us /\ \E c \in store'[d] : c.host = Us /\ c.at >= b.at

\* A restore loses nothing of the house: every version of a house file, and with
\* --force of any file, is still on the disk, kept beside it, or in the bundle.
NothingIsLost ==
    (run # Idle /\ run.at = "restore") =>
        \A f \in Files :
            (disk[f] # 0 /\ disk'[f] # disk[f] /\ (run.force \/ f \in HouseFiles)) =>
                <<f, disk[f]>> \in kept' \cup {<<f, run.bundle.files[f]>>}
=============================================================================
