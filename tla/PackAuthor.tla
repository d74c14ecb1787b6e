----------------------------- MODULE PackAuthor -----------------------------
(***************************************************************************)
(* A sound pack from its author's directory to the household that installs *)
(* it (internal/pack: pack.go and archive.go).  An author edits scripts,   *)
(* records some clips and has the rest rendered into a build directory     *)
(* whose sidecars say which script each sound was made from; the archive   *)
(* carries both, and is checked before any of it is used.                  *)
(*                                                                         *)
(* A script, a sound and a hash are the number of the wording they are of; *)
(* 0 is none.                                                              *)
(***************************************************************************)
EXTENDS Naturals, FiniteSets

CONSTANTS
    Clips,
    Wordings,       \* 1..n
    MaxEdits,       \* bound: edits by the author
    MaxMishaps      \* bound: renders that fail, kills, altered archives

VARIABLES
    text,           \* [Clips -> wording or 0: a sound with no script]
    recording,      \* the author's directory: what was said into each file
    declared,       \* pack.json, audio: the source hash, or NotBundled
    built, sidecar, \* the build directory
    build,          \* Build: the clips still to do
    archive,        \* the file made last, or NoArchive
    heard,          \* the sounds a household accepted, with their scripts
    cut,            \* the built sounds a killed build left beside an older sidecar
    edits, mishaps

source == <<text, recording, declared>>
output == <<built, sidecar, build, cut>>
vars == <<source, output, archive, heard, edits, mishaps>>

NotBundled == "no"
NoArchive == [clips |-> {}]
Nothing == [c \in Clips |-> 0]

Init ==
    /\ text = [c \in Clips |-> 1] /\ recording = Nothing
    /\ declared = [c \in Clips |-> {}]
    /\ built = Nothing /\ sidecar = Nothing /\ build = {}
    /\ archive = NoArchive /\ heard = {} /\ cut = {}
    /\ edits = 0 /\ mishaps = 0

Mishap == mishaps < MaxMishaps /\ mishaps' = mishaps + 1
Edit == build = {} /\ edits < MaxEdits /\ edits' = edits + 1
Bundled(d, c) == d[c] # {}
-----------------------------------------------------------------------------
(* External: the author, who waits for a build that is running.            *)

Reword ==
    /\ Edit
    /\ \E c \in Clips, w \in Wordings \cup {0} : w # text[c] /\ text' = [text EXCEPT ![c] = w]
    /\ UNCHANGED <<recording, declared, output, archive, heard, mishaps>>

\* What is in front of the microphone is what the script says.
Record ==
    /\ Edit
    /\ \E c \in Clips, w \in Wordings :
           /\ text[c] \in {0, w} /\ recording[c] # w
           /\ recording' = [recording EXCEPT ![c] = w]
           /\ declared' = [declared EXCEPT ![c] = {text[c]}]
    /\ UNCHANGED <<text, output, archive, heard, mishaps>>

Withdraw ==
    /\ Edit
    /\ \E c \in Clips : Bundled(declared, c) /\ declared' = [declared EXCEPT ![c] = {}]
    /\ UNCHANGED <<text, recording, output, archive, heard, mishaps>>
-----------------------------------------------------------------------------
(* Load and Build.                                                         *)

\* A bundled sound is of the script beside it.
ValidateAudioSources(t, d) == \A c \in Clips : Bundled(d, c) => d[c] = {t[c]}

Current(c) == built[c] # 0 /\ sidecar[c] = text[c]
Copied(c) == Bundled(declared, c) \/ text[c] = 0

BuildBegins ==
    /\ build = {} /\ ValidateAudioSources(text, declared)
    /\ build' = Clips
    /\ UNCHANGED <<source, built, sidecar, cut, archive, heard, edits, mishaps>>

\* One clip: copied, current already, or rendered and then written down.
BuildClip(c) ==
    /\ c \in build /\ (Copied(c) => recording[c] # 0)
    /\ built' = [built EXCEPT ![c] = IF Copied(c) THEN recording[c] ELSE IF Current(c) THEN @ ELSE text[c]]
    /\ sidecar' = [sidecar EXCEPT ![c] = text[c]]
    /\ cut' = IF ~Copied(c) /\ Current(c) THEN cut ELSE cut \ {c}
    /\ build' = build \ {c}
    /\ UNCHANGED <<source, archive, heard, edits, mishaps>>

\* The renderer fails, or answers with silence.
RenderFails(c) ==
    /\ c \in build /\ ~Copied(c) /\ ~Current(c) /\ Mishap
    /\ build' = {}
    /\ UNCHANGED <<source, built, sidecar, cut, archive, heard, edits>>

\* Killed, or out of disk: the sound may be there and its sidecar not yet.
BuildCut ==
    /\ build # {} /\ Mishap
    /\ \/ UNCHANGED <<built, cut>>
       \/ \E c \in build : /\ IF Copied(c) THEN recording[c] # 0 ELSE ~Current(c)
                           /\ built' = [built EXCEPT ![c] = IF Copied(c) THEN recording[c] ELSE text[c]]
                           /\ cut' = cut \cup {c}
    /\ build' = {}
    /\ UNCHANGED <<source, sidecar, archive, heard, edits>>
-----------------------------------------------------------------------------
(* WriteArchive and OpenArchive.                                           *)

\* Where a clip's sound comes from: the author's recording, the build, or the
\* household's own renderer.
Origin(c, withBuild) ==
    IF Bundled(declared, c) \/ text[c] = 0 THEN "recording"
    ELSE IF withBuild THEN "build" ELSE "render"

Entry(c, withBuild) ==
    IF Bundled(declared, c) THEN [text |-> text[c], audio |-> recording[c], hash |-> declared[c], cut |-> FALSE]
    ELSE CASE Origin(c, withBuild) = "recording" -> [text |-> 0, audio |-> recording[c], hash |-> {0}, cut |-> FALSE]
           [] Origin(c, withBuild) = "build" -> [text |-> text[c], audio |-> built[c], hash |-> {text[c]}, cut |-> c \in cut]
           [] OTHER -> [text |-> text[c], audio |-> 0, hash |-> {}, cut |-> FALSE]

\* A build that is missing or stale is refused.
Writable(c, withBuild) ==
    CASE Origin(c, withBuild) = "recording" -> recording[c] # 0
      [] Origin(c, withBuild) = "build" -> sidecar[c] = text[c] /\ built[c] # 0
      [] OTHER -> TRUE

\* Declared source and sounds, each with its checksum.
WriteArchive ==
    /\ build = {} /\ ValidateAudioSources(text, declared)
    /\ \E withBuild \in BOOLEAN :
           /\ \A c \in Clips : Writable(c, withBuild)
           /\ LET files == [c \in Clips |-> Entry(c, withBuild)]
              IN  archive' = [clips |-> Clips, files |-> files, sums |-> files, extra |-> FALSE]
    /\ UNCHANGED <<source, output, heard, edits, mishaps>>

\* External: bytes that changed on the way, a file added or dropped.
Altered ==
    /\ archive # NoArchive /\ Mishap
    /\ \/ \E c \in Clips, w \in Wordings :
              /\ archive.files[c].audio \notin {0, w}
              /\ archive' = [archive EXCEPT !.files[c].audio = w]
       \/ ~archive.extra /\ archive' = [archive EXCEPT !.extra = TRUE]
       \/ \E c \in archive.clips : archive' = [archive EXCEPT !.clips = @ \ {c}]
    /\ UNCHANGED <<source, output, heard, edits>>

\* Every file has its checksum and every checksum its file; the scripts and
\* sounds agree; nothing without a script is left to render.
Accepted(a) ==
    /\ a.clips = Clips /\ ~a.extra
    /\ a.files = a.sums
    /\ \A c \in Clips : LET f == a.files[c] IN
           /\ f.hash # {} => f.hash = {f.text} /\ f.audio # 0
           /\ f.hash = {} => f.text # 0

OpenArchive ==
    /\ archive # NoArchive /\ Accepted(archive)
    /\ heard' = {archive.files[c] : c \in Clips}
    /\ UNCHANGED <<source, output, archive, edits, mishaps>>

Next ==
    \/ Reword \/ Record \/ Withdraw
    \/ BuildBegins \/ (\E c \in Clips : BuildClip(c) \/ RenderFails(c)) \/ BuildCut
    \/ WriteArchive \/ Altered \/ OpenArchive

Spec == Init /\ [][Next]_vars
-----------------------------------------------------------------------------
(* Properties.                                                             *)

TypeOK ==
    /\ {text, recording, built, sidecar} \subseteq [Clips -> Wordings \cup {0}]
    /\ build \cup cut \subseteq Clips /\ edits <= MaxEdits /\ mishaps <= MaxMishaps

\* An edited script never silently plays old audio: every sound a household
\* accepts was made from the script it came with. A build killed between a sound
\* and its sidecar is the exception: when the script goes back to the wording
\* the sidecar is of, that sound passes for current, is not rendered again and
\* is archived under the script it was not made from.
HeardAsWritten ==
    \A h \in heard : h.audio # 0 /\ h.text # 0 => h.audio = h.text \/ h.cut

\* What the packer writes the opener accepts, unless it was altered on the way.
WrittenIsAccepted ==
    archive' # archive /\ mishaps' = mishaps => Accepted(archive')
=============================================================================
