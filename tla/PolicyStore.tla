----------------------------- MODULE PolicyStore -----------------------------
(***************************************************************************)
(* The policy a line runs on (internal/policy: store.go, lastgood.go,      *)
(* rotate.go).  The daemon loads the files at start, polls their contents  *)
(* every second and takes an edit that passes the rules; a copy of what it *)
(* last accepted is kept for a start on files that do not.  The household  *)
(* edits the files at any moment, `doorman rotate` rewrites one, the power *)
(* fails, and an upgrade may bring stricter rules.                         *)
(*                                                                         *)
(* Two files stand for the three: the policy, with its handsets, and the   *)
(* trunk inventory one of its lines may name.  A file is read whole, and   *)
(* two files are read one after the other.                                 *)
(***************************************************************************)
EXTENDS Naturals, FiniteSets

CONSTANTS
    MaxEdits,       \* bound: edits by the household, and rotations
    MaxCrashes      \* bound: stops, restarts and upgrades

VARIABLES
    policy, trunks, \* on disk
    copies, link,   \* policy.last-good: the complete copies, and the one named
    release,        \* the rules of the installed release: 1, then stricter
    daemon,         \* where it is, and what it has read so far
    running,        \* the policy in service
    fallback,       \* it runs for want of the current files
    rotation,       \* doorman rotate: what it has read
    raced,          \* the copies whose trunks changed since the rules saw them,
                    \* and whether what was last refused is not what was stamped
    edits, crashes

disk == <<policy, trunks>>
kept == <<copies, link>>
vars == <<disk, kept, release, daemon, running, fallback, rotation, raced, edits, crashes>>

\* What the rules tell apart: a plain policy, one that names a trunk, one only
\* the old rules take, and a broken one; each with its generation of PINs.
Kinds == {"plain", "names trunk", "loose", "broken"}
File(kind) == [kind |-> kind, pins |-> 0]
None == [kind |-> "none", pins |-> 0]
NoCopy == [policy |-> None, trunks |-> "none"]
Down == [at |-> "down"]

Init ==
    /\ policy = File("plain") /\ trunks = "with"
    /\ copies = {} /\ link = NoCopy
    /\ release = 1
    /\ daemon = Down /\ running = None /\ fallback = FALSE
    /\ rotation = None /\ raced = [unchecked |-> {}, misread |-> FALSE] /\ edits = 0 /\ crashes = 0

\* LoadSplitWith under the rules of a release; under those of v0.15.
Valid(r, p, t) ==
    \/ p.kind = "plain"
    \/ p.kind = "names trunk" /\ t = "with"
    \/ p.kind = "loose" /\ r = 1
PreviousRules(p) == p.kind \notin {"broken", "none"}

Copy == [policy |-> daemon.policy, trunks |-> trunks]
-----------------------------------------------------------------------------
(* Start.                                                                  *)

\* The stamps of before, and then the files.
StartReads ==
    /\ daemon.at = "down"
    /\ daemon' = [at |-> "load", start |-> TRUE, before |-> <<policy, trunks>>, trunks |-> trunks]
    /\ running' = None /\ fallback' = FALSE
    /\ UNCHANGED <<disk, kept, release, rotation, raced, edits, crashes>>

StartLoads ==
    /\ daemon.at = "load" /\ daemon.start
    /\ IF Valid(release, policy, trunks)
       THEN /\ running' = policy
            /\ daemon' = [at |-> "check copy", start |-> TRUE, policy |-> policy, used |-> trunks,
                          last |-> <<policy, daemon.trunks>>]
            /\ raced' = [raced EXCEPT !.misread = FALSE]
       ELSE /\ daemon' = [at |-> "fall back", before |-> daemon.before]
            /\ raced' = [raced EXCEPT !.misread = daemon.before # <<policy, trunks>>]
            /\ UNCHANGED running
    /\ UNCHANGED <<disk, kept, release, fallback, rotation, edits, crashes>>

\* The last good copy, by the rules of today; else today's files by the rules
\* of the release before.  With neither, the daemon does not start.
FallBack ==
    /\ daemon.at = "fall back"
    /\ \/ /\ link \in copies /\ Valid(release, link.policy, link.trunks)
          /\ running' = link.policy /\ fallback' = TRUE
          /\ daemon' = [at |-> "poll", last |-> daemon.before]
       \/ /\ ~(link \in copies /\ Valid(release, link.policy, link.trunks))
          /\ PreviousRules(policy)
          /\ running' = policy /\ fallback' = TRUE
          /\ daemon' = [at |-> "poll", last |-> daemon.before]
       \/ /\ ~(link \in copies /\ Valid(release, link.policy, link.trunks))
          /\ ~PreviousRules(policy)
          /\ daemon' = Down /\ UNCHANGED <<running, fallback>>
    /\ UNCHANGED <<disk, kept, release, rotation, raced, edits, crashes>>
-----------------------------------------------------------------------------
(* The poll.                                                               *)

Poll ==
    /\ daemon.at = "poll" /\ daemon.last # <<policy, trunks>>
    /\ daemon' = [at |-> "load", start |-> FALSE, last |-> <<policy, trunks>>, trunks |-> trunks]
    /\ UNCHANGED <<disk, kept, release, running, fallback, rotation, raced, edits, crashes>>

\* A refused edit is not read again; the policy in service stays.
Load ==
    /\ daemon.at = "load" /\ ~daemon.start
    /\ daemon' = IF Valid(release, policy, trunks)
                 THEN [at |-> "recheck", policy |-> policy, used |-> trunks, trunks |-> daemon.trunks]
                 ELSE [at |-> "poll", last |-> daemon.last]
    /\ raced' = [raced EXCEPT !.misread = ~Valid(release, policy, trunks) /\ daemon.last # <<policy, trunks>>]
    /\ UNCHANGED <<disk, kept, release, running, fallback, rotation, edits, crashes>>

\* Files that changed during the compilation are compiled again.
Recheck ==
    /\ daemon.at = "recheck"
    /\ daemon' = IF <<policy, trunks>> # <<daemon.policy, daemon.trunks>>
                 THEN [at |-> "poll", last |-> <<>>]
                 ELSE [at |-> "check copy", start |-> FALSE, policy |-> policy, used |-> daemon.used,
                       last |-> <<policy, trunks>>]
    /\ UNCHANGED <<disk, kept, release, running, fallback, rotation, raced, edits, crashes>>

\* The new policy goes into service after its copy.
Serve ==
    /\ daemon.at = "serve"
    /\ daemon' = [at |-> "poll", last |-> daemon.last]
    /\ running' = daemon.policy /\ fallback' = FALSE
    /\ UNCHANGED <<disk, kept, release, rotation, raced, edits, crashes>>
-----------------------------------------------------------------------------
(* The last good copy.                                                     *)

\* Only the bytes that were compiled are copied.
CheckCopy ==
    /\ daemon.at = "check copy"
    /\ daemon' = [daemon EXCEPT !.at = IF policy = daemon.policy THEN "copy" ELSE "serve"]
    /\ UNCHANGED <<disk, kept, release, running, fallback, rotation, raced, edits, crashes>>

\* The trunks are read here, some time after those the policy was checked with.
FillCopy ==
    /\ daemon.at = "copy"
    /\ copies' = copies \cup {Copy}
    /\ raced' = [raced EXCEPT !.unchecked = IF trunks # daemon.used THEN @ \cup {Copy} ELSE @ \ {Copy}]
    /\ daemon' = [at |-> IF link = Copy THEN "serve" ELSE "link", policy |-> daemon.policy, last |-> daemon.last, copy |-> Copy]
    /\ UNCHANGED <<disk, link, release, running, fallback, rotation, edits, crashes>>

\* Mutant of LinkCopy: What is superseded is removed before the name is swapped.
LinkCopyLate ==
    /\ \/ daemon.at = "link" /\ copies' = {daemon.copy} /\ daemon' = [daemon EXCEPT !.at = "prune"] /\ UNCHANGED link
       \/ daemon.at = "prune" /\ link' = daemon.copy /\ daemon' = [daemon EXCEPT !.at = "serve"] /\ UNCHANGED copies
    /\ UNCHANGED <<disk, release, running, fallback, rotation, raced, edits, crashes>>

\* The name is swapped onto a copy that is complete.
LinkCopy ==
    /\ daemon.at = "link"
    /\ link' = daemon.copy
    /\ daemon' = [daemon EXCEPT !.at = "prune"]
    /\ UNCHANGED <<disk, copies, release, running, fallback, rotation, raced, edits, crashes>>

Prune ==
    /\ daemon.at = "prune"
    /\ copies' = {daemon.copy}
    /\ daemon' = [daemon EXCEPT !.at = "serve"]
    /\ UNCHANGED <<disk, link, release, running, fallback, rotation, raced, edits, crashes>>
-----------------------------------------------------------------------------
(* doorman rotate, and the world.                                          *)

RotateReads ==
    /\ rotation = None /\ edits < MaxEdits
    /\ Valid(release, policy, "with")
    /\ rotation' = policy
    /\ UNCHANGED <<disk, kept, release, daemon, running, fallback, raced, edits, crashes>>

\* Fresh PINs in what it read, checked again and renamed into place.
RotateWrites ==
    /\ rotation # None
    /\ policy' = [rotation EXCEPT !.pins = @ + 1] /\ rotation' = None
    /\ edits' = edits + 1
    /\ UNCHANGED <<trunks, kept, release, daemon, running, fallback, raced, crashes>>

Edit ==
    /\ edits < MaxEdits /\ edits' = edits + 1
    /\ \/ \E k \in Kinds : k # policy.kind /\ policy' = [policy EXCEPT !.kind = k] /\ UNCHANGED trunks
       \/ trunks' \in {"with", "without"} \ {trunks} /\ UNCHANGED policy
    /\ UNCHANGED <<kept, release, daemon, running, fallback, rotation, raced, crashes>>

\* Power fails, or the daemon is restarted, perhaps as a newer release.
Stop ==
    /\ daemon # Down /\ crashes < MaxCrashes /\ crashes' = crashes + 1
    /\ daemon' = Down /\ running' = None /\ fallback' = FALSE
    /\ release' \in {release, 2}
    /\ UNCHANGED <<disk, kept, rotation, raced, edits>>

Start == StartReads \/ StartLoads \/ FallBack
Reload == Poll \/ Load \/ Recheck \/ Serve
KeepLastGood == CheckCopy \/ FillCopy \/ LinkCopy \/ Prune

Next == Start \/ Reload \/ KeepLastGood \/ RotateReads \/ RotateWrites \/ Edit \/ Stop

Spec == Init /\ [][Next]_vars /\ WF_vars(Start \/ Reload \/ KeepLastGood)
-----------------------------------------------------------------------------
(* Properties.                                                             *)

TypeOK ==
    /\ policy.kind \in Kinds /\ trunks \in {"with", "without"}
    /\ running.kind \in Kinds \cup {"none"} /\ Cardinality(copies) <= MaxEdits + 2
    /\ raced.misread \in BOOLEAN /\ edits <= MaxEdits + 1 /\ crashes <= MaxCrashes

\* A copy the name leads to is whole wherever the power failed, holds a policy
\* the rules accepted, and is accepted as a whole unless its trunks were edited
\* between the compilation and the copy: those are copied unchecked.
LastGoodIsGood ==
    link # NoCopy =>
        /\ link \in copies
        /\ \E t \in {"with", "without"} : Valid(1, link.policy, t)
        /\ Valid(1, link.policy, link.trunks) \/ link \in raced.unchecked

\* What the household leaves on disk is what runs, once the daemon has had time
\* to look; a change while it compiles is not lost, unless files that are refused
\* came and went between the stamp and the read: the stamp is then of what is
\* there, which was never tried.
RunsTheDisk ==
    []<>(daemon.at = "poll" /\ Valid(release, policy, trunks) =>
            running = policy \/ (raced.misread /\ daemon.last = disk))
=============================================================================
