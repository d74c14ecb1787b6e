------------------------------ MODULE PackStore ------------------------------
(***************************************************************************)
(* Sound packs (internal/pack: install.go, activate.go, pack.go's Build;   *)
(* pack_install.go of cmd/doorman).  An install renders what is missing,   *)
(* takes each clip from a cache when it can, and puts a version that never *)
(* changes beside the ones before it; a separate command selects one in    *)
(* the environment file and restarts the service, or puts both back.  One  *)
(* lock serialises the two, and either may be killed anywhere.             *)
(*                                                                         *)
(* A rendering is a take: no two sound alike, and its checksum names it.   *)
(***************************************************************************)
EXTENDS Naturals, Sequences, TLC

CONSTANTS
    Archives,       \* releases of one pack, in order 1..n
    Clips,          \* how many clips need rendering
    MaxTakes,       \* bound: renderings
    MaxMishaps      \* bound: crashes, renderers and reloads that fail, damage
                    \* to the cache, restarts and edits by the operator

VARIABLES
    versions,       \* version name -> the takes in its directory
    registry,       \* id.installed.json: the version, or None
    progress,       \* id.progress.json
    cache,          \* <<archive, clip>> -> take; 0: none or damaged
    job,            \* the process that holds the lock
    env,            \* the environment file: its prefix, and an edit by hand
    service,        \* the prefix the running daemon plays
    told,           \* what the last `pack use` said
    takes, mishaps

store == <<versions, registry, progress, cache>>
using == <<env, service, told>>
vars == <<store, job, using, takes, mishaps>>

None == [archive |-> 0, takes |-> <<>>]
Free == [at |-> "free"]

Init ==
    /\ versions = (None :> <<>>) /\ registry = None /\ progress = "none"
    /\ cache = [k \in Archives \X (1..Clips) |-> 0]
    /\ job = Free
    /\ env = [prefix |-> None, text |-> 0] /\ service = None /\ told = "nothing"
    /\ takes = 0 /\ mishaps = 0

Mishap == mishaps < MaxMishaps /\ mishaps' = mishaps + 1
Go(place) == job' = [job EXCEPT !.at = place]
Failed == progress' = "failed" /\ job' = Free
-----------------------------------------------------------------------------
(* Install.                                                                *)

\* The kernel drops a dead process's lock.
Lock == job = Free

\* What would be rendered has its renderer checked before anything is paid for.
Begin ==
    /\ Lock
    /\ \E a \in Archives :
           /\ a >= registry.archive
           /\ job' = [at |-> "clips", archive |-> a, takes |-> <<>>]
    /\ progress' = "staged"
    /\ UNCHANGED <<versions, registry, cache, using, takes, mishaps>>

NoRenderer ==
    /\ job.at = "clips" /\ job.takes = <<>> /\ Mishap
    /\ \E c \in 1..Clips : cache[job.archive, c] = 0
    /\ Failed
    /\ UNCHANGED <<versions, registry, cache, using, takes>>

\* The next clip: the cached take if its checksums hold, else a new one, which
\* is in the cache before it is in the stage.
Clip ==
    /\ job.at = "clips" /\ Len(job.takes) < Clips
    /\ LET key == <<job.archive, Len(job.takes) + 1>> IN
       IF cache[key] # 0
       THEN /\ job' = [job EXCEPT !.takes = Append(@, cache[key])]
            /\ UNCHANGED <<cache, takes>>
       ELSE /\ takes < MaxTakes /\ takes' = takes + 1
            /\ cache' = [cache EXCEPT ![key] = takes']
            /\ job' = [job EXCEPT !.takes = Append(@, takes')]
    /\ progress' = "rendering"
    /\ UNCHANGED <<versions, registry, using, mishaps>>

RenderFails ==
    /\ job.at = "clips" /\ Len(job.takes) < Clips /\ Mishap
    /\ cache[job.archive, Len(job.takes) + 1] = 0
    /\ Failed
    /\ UNCHANGED <<versions, registry, cache, using, takes>>

\* The archive's digest and every clip's checksum.
VersionName(archive, ts) == [archive |-> archive, takes |-> ts]

\* The finished stage takes its name in one step; one that is there already,
\* left by a crash before its registry entry, is verified instead.
Place ==
    /\ job.at = "clips" /\ Len(job.takes) = Clips
    /\ LET name == VersionName(job.archive, job.takes) IN
       IF name \in DOMAIN versions
       THEN IF versions[name] = job.takes THEN Go("register") /\ UNCHANGED <<versions, progress>>
            ELSE Failed /\ UNCHANGED versions
       ELSE versions' = (name :> job.takes) @@ versions /\ Go("register") /\ UNCHANGED progress
    /\ UNCHANGED <<registry, cache, using, takes, mishaps>>

Register ==
    /\ job.at = "register"
    /\ registry' = VersionName(job.archive, job.takes) /\ Go("done")
    /\ UNCHANGED <<versions, progress, cache, using, takes, mishaps>>

Done ==
    /\ job.at = "done"
    /\ progress' = "installed" /\ job' = Free
    /\ UNCHANGED <<versions, registry, cache, using, takes, mishaps>>
-----------------------------------------------------------------------------
(* Use.                                                                    *)

\* The registered version is verified, and the file read.
Select ==
    /\ job = Free /\ registry # None
    /\ job' = [at |-> "write", archive |-> registry.archive, old |-> env,
               new |-> [env EXCEPT !.prefix = registry], stale |-> FALSE]
    /\ told' = "nothing"
    /\ UNCHANGED <<store, env, service, takes, mishaps>>

WriteEnv ==
    /\ job.at = "write"
    /\ env' = job.new /\ job' = [job EXCEPT !.at = "reload", !.stale = FALSE]
    /\ UNCHANGED <<store, service, told, takes, mishaps>>

\* systemctl try-restart; one that fails may have restarted all the same.
Reload ==
    /\ job.at = "reload"
    /\ \/ /\ service' = env.prefix
          /\ told' = "selected" /\ job' = Free
          /\ UNCHANGED mishaps
       \/ /\ Mishap
          /\ service' \in {service, env.prefix}
          /\ Go("restore") /\ UNCHANGED told
    /\ UNCHANGED <<store, env, takes>>

\* Mutant of Restore: The old file is put back without a look at the present one.
RestoreBlindly ==
    /\ job.at = "restore"
    /\ Go("put back")
    /\ UNCHANGED <<store, using, takes, mishaps>>

\* Only a file nobody has touched since is put back.
Restore ==
    /\ job.at = "restore"
    /\ IF env = job.new
       THEN Go("put back") /\ UNCHANGED told
       ELSE told' = "refused" /\ job' = Free
    /\ UNCHANGED <<store, env, service, takes, mishaps>>

PutBack ==
    /\ job.at = "put back"
    /\ env' = job.old /\ job' = [job EXCEPT !.at = "reload again", !.stale = FALSE]
    /\ UNCHANGED <<store, service, told, takes, mishaps>>

ReloadAgain ==
    /\ job.at = "reload again"
    /\ \/ service' = env.prefix /\ told' = "restored" /\ UNCHANGED mishaps
       \/ Mishap /\ told' = "needs attention" /\ service' \in {service, env.prefix}
    /\ job' = Free
    /\ UNCHANGED <<store, env, takes>>
-----------------------------------------------------------------------------
(* External: the operator, the disk, and kills.                            *)

Crash ==
    /\ job # Free /\ Mishap
    /\ job' = Free
    /\ UNCHANGED <<store, using, takes>>

DamageCache ==
    /\ Mishap
    /\ \E k \in DOMAIN cache : cache[k] # 0 /\ cache' = [cache EXCEPT ![k] = 0]
    /\ UNCHANGED <<versions, registry, progress, job, using, takes>>

\* At any moment: after the file was read and before it is written, too.
EditEnv ==
    /\ Mishap
    /\ env' = [env EXCEPT !.text = @ + 1]
    /\ job' = IF job.at \in {"write", "put back"} THEN [job EXCEPT !.stale = TRUE] ELSE job
    /\ UNCHANGED <<store, service, told, takes>>

ServiceRestarts ==
    /\ service # env.prefix /\ Mishap
    /\ service' = env.prefix
    /\ UNCHANGED <<store, job, env, told, takes>>

Install == Begin \/ NoRenderer \/ Clip \/ RenderFails \/ Place \/ Register \/ Done
Use == Select \/ WriteEnv \/ Reload \/ Restore \/ PutBack \/ ReloadAgain

Next == Install \/ Use \/ Crash \/ DamageCache \/ EditEnv \/ ServiceRestarts

Spec == Init /\ [][Next]_vars /\ SF_vars(Install) /\ WF_vars(Use)
-----------------------------------------------------------------------------
(* Properties.                                                             *)

TypeOK ==
    /\ {registry, env.prefix, service} \subseteq [archive : Archives \cup {0}, takes : Seq(1..MaxTakes)]
    /\ progress \in {"none", "staged", "rendering", "failed", "installed"}
    /\ takes <= MaxTakes /\ mishaps <= MaxMishaps

\* Whatever the registry, the configuration or the running daemon names is a
\* whole version on disk, through every crash: no call plays half a voice.
NamedIsWhole ==
    \A name \in {registry, env.prefix, service} :
        name \in DOMAIN versions /\ versions[name] = name.takes

\* A version left by a crash or by other takes of the same archive never stands
\* in the way of an install.
NothingInTheWay ==
    job.at = "clips" /\ Len(job.takes) = Clips =>
        LET name == VersionName(job.archive, job.takes)
        IN  name \in DOMAIN versions => versions[name] = job.takes

\* A switch that is reported done plays, and one reported undone is undone in
\* the file and in the daemon.
SaysWhatItDid ==
    /\ told' # told /\ told' = "selected" => service' = env'.prefix
    /\ told' # told /\ told' = "restored" =>
           service' = job.old.prefix /\ env'.prefix = job.old.prefix

\* A hand edit made while the service restarts is never rolled back; only one
\* made between a read of the file and the write that follows it is lost.
EditsStay == env'.text < env.text => job.stale

\* An install that was cut off does not stand in the way of the next.
InstallsAgain == []<>(progress = "installed" \/ takes = MaxTakes)
=============================================================================
