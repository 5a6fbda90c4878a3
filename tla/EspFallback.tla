---------------------------- MODULE EspFallback -----------------------------
(***************************************************************************)
(* write_esp_files and fallback_outcome (deploy.rs): the startup.nsh       *)
(* fallback on a freshly written ESP.  An image captured from a disk this  *)
(* inspector provisioned brings a script and markers of ours along.        *)
(*                                                                         *)
(* Every file operation is a step of its own and can fail.  Three failures *)
(* matter: a full file system refuses what allocates, a vfat remounted     *)
(* read-only (its errors=remount-ro default) refuses every later change,   *)
(* and an I/O error may strike any operation.                              *)
(*                                                                         *)
(* A rename or a removal changes the directory as the kernel holds it; the *)
(* unmount that follows every return writes it out.  When the power goes   *)
(* before that, only the flushes of sync_dirs say what is on the disk.     *)
(***************************************************************************)
EXTENDS Naturals, Sequences

CONSTANTS
  OldMarkers,   \* the markers an image may bring along
  Failures      \* the failures that may happen: a subset of FailureKinds

FailureKinds == {"full", "readOnly", "io"}

New == "new"    \* the marker of this deploy, fresh from /dev/urandom

ASSUME FailuresAssumption == Failures \subseteq FailureKinds
ASSUME MarkersAssumption  == /\ New \notin OldMarkers
                             /\ {"none", "image"} \cap OldMarkers = {}

\* STARTUP_NSH_DIRS: where the Shell looks for startup.nsh, in its order.
SearchOrder == <<"tools", "boot", "root">>
Dirs == {"tools", "boot", "root"}

VARIABLES
  pc,         \* the step of write_esp_files
  result,     \* the StartupNsh it ends with, or "failed" (EspWrite)
  scripts,    \* per directory: no script, the image's, or ours for a marker
  markers,    \* the *.id files in EFI/beskar7
  onDisk,     \* per directory: the scripts a power loss now may leave in it
  safe,       \* the markers that a power loss now leaves in EFI/beskar7
  tmpScript,  \* startup.nsh.tmp exists
  tmpMarker,  \* <marker>.id.tmp exists
  readOnly,   \* the kernel remounted the ESP read-only
  start       \* history: what the image came with, and the failures this ESP has

esp  == <<scripts, markers, onDisk, safe, tmpScript, tmpMarker>>
vars == <<pc, result, esp, readOnly, start>>

\* is_ours: the script carries our signature; it then looks for one marker.
Ours(content) == content \notin {"none", "image"}

ScriptsOfOurs == {d \in Dirs : Ours(scripts[d])}

\* The next of our scripts to remove from the directories in ds, in search order.
IsNextOf(d, ds) ==
  /\ d \in ds /\ Ours(scripts[d])
  /\ \A i, j \in 1 .. 3 : SearchOrder[i] \in ds \cap ScriptsOfOurs
                          /\ SearchOrder[j] = d => j <= i

-----------------------------------------------------------------------------
\* An operation that changes the file system goes through only on a writable one.
Works == ~readOnly

\* An operation fails with f; one that allocates nothing never finds it full.
FailsWith(f, allocates) ==
  /\ f \in start.failures
  /\ f = "full" => allocates
  /\ readOnly => f = "readOnly"
  /\ readOnly' = (readOnly \/ f = "readOnly")

\* Mutant: the error is passed on as it is.
OutcomeRaw(f) == f

\* fallback_outcome: ENOSPC and EROFS only skip the fallback.
Outcome(f) == IF f = "io" THEN "failed" ELSE "notWritten"

\* The ? operator: write_esp_files returns the error at once.
Abort(allocates) ==
  /\ \E f \in start.failures : FailsWith(f, allocates) /\ result' = Outcome(f)
  /\ pc' = "done"
  /\ UNCHANGED <<esp, start>>

\* An error of steps 2 and 3 goes through undo first.
AbortAndUndo ==
  /\ \E f \in start.failures : FailsWith(f, TRUE) /\ result' = Outcome(f)
  /\ pc' = "undo"
  /\ UNCHANGED <<esp, start>>

Proceed(next) == pc' = next /\ UNCHANGED <<result, readOnly, start>>

Finish(r) == pc' = "done" /\ result' = r /\ UNCHANGED <<readOnly, start>>

\* A change of a directory may be on the disk or not until it is flushed.
PutScript(d, content) ==
  /\ scripts' = [scripts EXCEPT ![d] = content]
  /\ onDisk' = [onDisk EXCEPT ![d] = @ \cup {content}]

PutMarkers(M) == markers' = M /\ safe' = safe \cap M

-----------------------------------------------------------------------------
\* Mutant: the root is not searched for an image's script.
ScanSubdirs ==
  /\ pc = "scan"
  /\ \/ /\ Proceed(IF \E d \in Dirs \ {"root"} : scripts[d] = "image"
                THEN "yieldScripts" ELSE "mkdir")
        /\ UNCHANGED esp
     \/ /\ "io" \in start.failures
        /\ Finish("failed") /\ UNCHANGED esp

\* 1. Read the directories and the scripts: only an I/O error can fail this.
Scan ==
  /\ pc = "scan"
  /\ \/ /\ Proceed(IF \E d \in Dirs : scripts[d] = "image" THEN "yieldScripts"
                                                           ELSE "mkdir")
        /\ UNCHANGED esp
     \/ /\ "io" \in start.failures
        /\ Finish("failed") /\ UNCHANGED esp

\* Removing one of our scripts in the directories ds, in order, or, when none is
\* left, going on.
RemoveScripts(step, ds, next) ==
  /\ pc = step
  /\ \/ \E d \in Dirs : /\ IsNextOf(d, ds)
                        /\ \/ /\ Works
                              /\ PutScript(d, "none")
                              /\ Proceed(step)
                              /\ UNCHANGED <<markers, safe, tmpScript, tmpMarker>>
                           \/ Abort(FALSE)
     \/ /\ ds \cap ScriptsOfOurs = {}
        /\ Proceed(next) /\ UNCHANGED esp

\* remove_markers, in whatever order the directory lists them.
RemoveMarkers(step, keep, next) ==
  /\ pc = step
  /\ \/ \E m \in markers \ keep : /\ Works
                                  /\ PutMarkers(markers \ {m})
                                  /\ Proceed(step)
                                  /\ UNCHANGED <<scripts, onDisk, tmpScript, tmpMarker>>
     \/ markers \ keep # {} /\ Abort(FALSE)
     \/ /\ markers \subseteq keep
        /\ Proceed(next) /\ UNCHANGED esp

\* sync_dirs, the last thing either branch does: the root first.
SyncRoot(step, next) ==
  /\ pc = step
  /\ \/ /\ onDisk' = [onDisk EXCEPT !["root"] = {scripts["root"]}]
        /\ Proceed(next)
        /\ UNCHANGED <<scripts, markers, safe, tmpScript, tmpMarker>>
     \/ Abort(FALSE)

\* Mutant: EFI/beskar7 is left out.
SyncEfiOnly(step, r) ==
  /\ pc = step
  /\ \/ Finish(r) /\ UNCHANGED esp
     \/ Abort(FALSE)

\* Then EFI and EFI/beskar7; EFI/tools and EFI/BOOT are not among the directories.
SyncMarkers(step, r) ==
  /\ pc = step
  /\ \/ /\ safe' = markers
        /\ Finish(r)
        /\ UNCHANGED <<scripts, markers, onDisk, tmpScript, tmpMarker>>
     \/ Abort(FALSE)

\* Mutant: our script at the root stays.
YieldSubdirs == RemoveScripts("yieldScripts", Dirs \ {"root"}, "yieldMarkers")

\* An image's own script: leave it alone, drop what is ours.
YieldScripts == RemoveScripts("yieldScripts", Dirs, "yieldMarkers")
YieldMarkers == RemoveMarkers("yieldMarkers", {}, "yieldSync")
YieldSync    == \/ SyncRoot("yieldSync", "yieldFlush")
                \/ SyncMarkers("yieldFlush", "leftInPlace")

\* 2. The marker directory, and both files under temporary names.
CreateMarkerDir ==
  /\ pc = "mkdir"
  /\ \/ /\ Works \/ markers # {}
        /\ Proceed("tmpMarker") /\ UNCHANGED esp
     \/ Abort(markers = {})

\* create, write and fsync: the temporary file may be left behind by a failure.
WriteTmpMarker ==
  /\ pc = "tmpMarker"
  /\ \/ /\ Works /\ tmpMarker' = TRUE
        /\ Proceed("tmpScript")
        /\ UNCHANGED <<scripts, markers, onDisk, safe, tmpScript>>
     \/ /\ Works /\ tmpMarker' = TRUE
        /\ \E f \in start.failures : FailsWith(f, TRUE) /\ result' = Outcome(f)
        /\ pc' = "undo"
        /\ UNCHANGED <<scripts, markers, onDisk, safe, tmpScript, start>>
     \/ AbortAndUndo

WriteTmpScript ==
  /\ pc = "tmpScript"
  /\ \/ /\ Works /\ tmpScript' = TRUE
        /\ Proceed("placeMarker")
        /\ UNCHANGED <<scripts, markers, onDisk, safe, tmpMarker>>
     \/ /\ Works /\ tmpScript' = TRUE
        /\ \E f \in start.failures : FailsWith(f, TRUE) /\ result' = Outcome(f)
        /\ pc' = "undo"
        /\ UNCHANGED <<scripts, markers, onDisk, safe, tmpMarker, start>>
     \/ AbortAndUndo

\* 3. Into place: the marker, then the script over ours at the root, if any.
PlaceMarker ==
  /\ pc = "placeMarker"
  /\ \/ /\ Works
        /\ PutMarkers(markers \cup {New}) /\ tmpMarker' = FALSE
        /\ Proceed("placeScript")
        /\ UNCHANGED <<scripts, onDisk, tmpScript>>
     \/ AbortAndUndo

PlaceScript ==
  /\ pc = "placeScript"
  /\ \/ /\ Works
        /\ PutScript("root", New) /\ tmpScript' = FALSE
        /\ Proceed("oldMarkers")
        /\ UNCHANGED <<markers, safe, tmpMarker>>
     \/ AbortAndUndo

\* Mutant: the marker already in place is not removed.
UndoTemporaries ==
  /\ pc = "undo"
  /\ tmpScript' = FALSE /\ tmpMarker' = FALSE
  /\ pc' = "done"
  /\ UNCHANGED <<result, scripts, markers, onDisk, safe, readOnly, start>>

\* The undo closure removes what this run wrote, each file as well as it can: on
\* a read-only ESP none, and an I/O error may keep any.
Undo ==
  /\ pc = "undo"
  /\ \/ /\ Works
        /\ tmpScript' = FALSE /\ tmpMarker' = FALSE
        /\ PutMarkers(markers \ {New})
     \/ /\ readOnly \/ "io" \in start.failures
        /\ tmpScript' \in IF readOnly THEN {tmpScript} ELSE {tmpScript, FALSE}
        /\ tmpMarker' \in IF readOnly THEN {tmpMarker} ELSE {tmpMarker, FALSE}
        /\ \E M \in IF readOnly THEN {markers} ELSE {markers, markers \ {New}} :
             PutMarkers(M)
  /\ pc' = "done"
  /\ UNCHANGED <<result, scripts, onDisk, readOnly, start>>

\* Mutant: the marker just written is not kept.
AllMarkersGo == RemoveMarkers("oldMarkers", {}, "oldScripts")

\* Mutant: the last directory before the root is forgotten.
ToolsScriptsGo == RemoveScripts("oldScripts", {"tools"}, "sync")

\* 4. Only then the older markers, and scripts of ours outside the root.
OldMarkersGo == RemoveMarkers("oldMarkers", {New}, "oldScripts")
OldScriptsGo == RemoveScripts("oldScripts", Dirs \ {"root"}, "sync")
SyncPair     == SyncRoot("sync", "flush") \/ SyncMarkers("flush", "written")

-----------------------------------------------------------------------------
Init ==
  /\ pc = "scan"
  /\ result = "none"
  /\ scripts \in [Dirs -> {"none", "image"} \cup OldMarkers]
  /\ markers \in SUBSET OldMarkers
  /\ onDisk = [d \in Dirs |-> {scripts[d]}]
  /\ safe = markers
  /\ tmpScript = FALSE
  /\ tmpMarker = FALSE
  /\ readOnly = FALSE
  /\ \E F \in SUBSET Failures :
       start = [scripts |-> scripts, markers |-> markers, failures |-> F]

Next ==
  \/ Scan
  \/ YieldScripts \/ YieldMarkers \/ YieldSync
  \/ CreateMarkerDir \/ WriteTmpMarker \/ WriteTmpScript
  \/ PlaceMarker \/ PlaceScript \/ Undo
  \/ OldMarkersGo \/ OldScriptsGo \/ SyncPair

Spec == Init /\ [][Next]_vars

-----------------------------------------------------------------------------
\* The script the EFI Shell runs: the first one in its search order.
ShellRuns ==
  LET found == {i \in 1 .. 3 : scripts[SearchOrder[i]] # "none"}
  IN  IF found = {} THEN "none"
      ELSE scripts[SearchOrder[CHOOSE i \in found : \A j \in found : i <= j]]

Contents == {"none", "image", New} \cup OldMarkers

DiskTypeOK == onDisk \in [Dirs -> SUBSET Contents] /\ safe \subseteq OldMarkers \cup {New}

FilesTypeOK ==
  /\ pc \in {"scan", "yieldScripts", "yieldMarkers", "yieldSync", "yieldFlush", "mkdir",
             "tmpMarker", "tmpScript", "placeMarker", "placeScript", "undo",
             "oldMarkers", "oldScripts", "sync", "flush", "done"}
  /\ result \in {"none", "leftInPlace", "written", "notWritten", "failed"}
  /\ scripts \in [Dirs -> Contents]
  /\ markers \subseteq OldMarkers \cup {New}
  /\ {tmpScript, tmpMarker, readOnly} \subseteq BOOLEAN
  /\ start.scripts \in [Dirs -> {"none", "image"} \cup OldMarkers]
  /\ start.markers \subseteq OldMarkers /\ start.failures \subseteq Failures

\* Type correctness of the ESP, of what is on its disk and of the function's progress.
TypeOK == FilesTypeOK /\ DiskTypeOK

\* The image's own scripts are as they were.
ImageScriptsStay == \A d \in Dirs : start.scripts[d] = "image" => scripts[d] = "image"

\* Written: the Shell runs this deploy's script, its marker is there, and no other marker
\* or temporary file is.  LeftInPlace: nothing of ours is there.
ResultHolds ==
  /\ result = "written" => /\ ShellRuns = New
                           /\ markers = {New}
                           /\ ~tmpScript /\ ~tmpMarker
  /\ result = "leftInPlace" => ScriptsOfOurs = {} /\ markers = {}

\* The result is true of the ESP.  Whatever scripts and markers of ours the image brought
\* along, in whichever directories: Written means that the fallback works
\* (deploy.rs:931-964), LeftInPlace that it is out of the way of the image's script
\* (deploy.rs:909-916); and on every path, the failing ones included, the image's own
\* scripts survive.
ResultIsTrue == ResultHolds /\ ImageScriptsStay

\* The order of the renames and removals: wherever the function stops, the root script
\* finds its marker if the image's did (deploy.rs:944-960).  A new script never
\* precedes its marker, and an old marker never goes before its root script.  This is
\* the ESP that the unmount after every return writes out, not what is on the disk
\* when the power goes: for that, see PowerLossFindsPair.
RootScriptHasMarker ==
  LET s == scripts["root"]
  IN  Ours(s) /\ (s \in OldMarkers => s \in start.markers) => s \in markers

\* What the power going can do.  Until the first change of the image's own pair, and
\* once the flush of the directories is over (deploy.rs:914, 961), the root script on
\* the disk finds its marker there, if the image's did.  From the rename of the script,
\* or the first removal of an old marker, to the end of the flush it may not: the root
\* is flushed before the marker directory.
PowerLossFindsPair ==
  \/ result \in {"written", "leftInPlace"}
  \/ scripts["root"] = start.scripts["root"] /\ start.markers \subseteq markers
  => \A s \in onDisk["root"] : Ours(s) /\ (s \in OldMarkers => s \in start.markers)
                               => s \in safe

\* Where the only failure is a full file system, a skipped fallback leaves the ESP
\* as it was: nothing of this run and everything the image brought, whichever of
\* the four writes and renames did not fit (deploy.rs:520-521).
NotWrittenRestores ==
  result = "notWritten" /\ pc = "done" /\ start.failures = {"full"} =>
    /\ scripts = start.scripts /\ markers = start.markers
    /\ ~tmpScript /\ ~tmpMarker
=============================================================================
