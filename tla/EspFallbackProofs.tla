-------------------------- MODULE EspFallbackProofs --------------------------
(***************************************************************************)
(* Proofs about EspFallback, for every set of old markers and of failures. *)
(*                                                                         *)
(* What a result says of the ESP is decided step by step: IInv says which  *)
(* scripts, markers and temporary files are on the ESP at each step of     *)
(* write_esp_files, compared with what the image came with, and DiskInv    *)
(* what of them is on the disk when the power goes.                        *)
(***************************************************************************)
EXTENDS EspFallback, TLAPS

\* The steps of the branch that yields to an image's script, those before the script is
\* in place, and those after.
Yielding  == {"yieldScripts", "yieldMarkers", "yieldSync", "yieldFlush"}
Preparing == {"mkdir", "tmpMarker", "tmpScript", "placeMarker", "placeScript", "undo"}
Placed    == {"oldMarkers", "oldScripts", "sync", "flush"}

\* Only a failure that this ESP has makes it read-only.
ReadOnlyHasCause == readOnly => "readOnly" \in start.failures

\* A result is known only at the end, and undo runs only after a failure.
ResultFitsStep ==
  /\ pc \notin {"undo", "done"} => result = "none"
  /\ pc = "undo" => result \in {"notWritten", "failed"}

\* The scripts are the image's until the new one is in place; the scan let only an ESP
\* without a foreign script get that far.
ScriptsFitStep ==
  /\ pc \in {"scan"} \cup Preparing => scripts = start.scripts
  /\ pc \in Preparing \cup Placed => \A d \in Dirs : scripts[d] # "image"
  /\ pc \in Yielding =>
       \A d \in Dirs : start.scripts[d] = "image" => scripts[d] = "image"
  /\ pc \in {"yieldMarkers", "yieldSync", "yieldFlush"} => \A d \in Dirs : ~Ours(scripts[d])
  /\ pc \in Placed => scripts["root"] = New
  /\ pc \in {"sync", "flush"} => \A d \in Dirs \ {"root"} : ~Ours(scripts[d])

\* The markers are the image's, then this deploy's too, and in the end this one's only.
MarkersFitStep ==
  /\ pc \in {"scan", "yieldScripts", "mkdir", "tmpMarker", "tmpScript", "placeMarker"} =>
       markers = start.markers
  /\ pc \in {"yieldSync", "yieldFlush"} => markers = {}
  /\ pc = "placeScript" => markers = start.markers \cup {New}
  /\ pc = "undo" => markers \in {start.markers, start.markers \cup {New}}
  /\ pc = "oldMarkers" => New \in markers
  /\ pc \in {"oldScripts", "sync", "flush"} => markers = {New}

\* Each temporary file exists between its creation and its rename.
TemporariesFitStep ==
  /\ pc \in {"scan", "mkdir", "tmpMarker"} \cup Yielding \cup Placed =>
       tmpMarker = FALSE /\ tmpScript = FALSE
  /\ pc = "placeScript" => tmpMarker = FALSE

\* The inductive invariant.
IInv == /\ FilesTypeOK
        /\ ReadOnlyHasCause
        /\ ResultFitsStep
        /\ ScriptsFitStep
        /\ MarkersFitStep
        /\ TemporariesFitStep
        /\ ResultHolds
        /\ RootScriptHasMarker
        /\ NotWrittenRestores

-----------------------------------------------------------------------------
\* What an error is classified as (fallback_outcome), and what it needs.
LEMMA FailureFacts ==
  ASSUME IInv, NEW allocates \in BOOLEAN, NEW f \in start.failures, FailsWith(f, allocates)
  PROVE  /\ Outcome(f) \in {"notWritten", "failed"}
         /\ readOnly' \in BOOLEAN /\ (readOnly' => "readOnly" \in start.failures)
         /\ start.failures = {"full"} => allocates
BY DEF IInv, FilesTypeOK, ReadOnlyHasCause, FailsWith, Outcome

\* A script in the root is ours for a marker or not ours at all, before and after a step
\* that leaves scripts and markers alone.
LEMMA SameEspKeepsRoot ==
  ASSUME IInv, UNCHANGED <<scripts, markers, start>>
  PROVE  RootScriptHasMarker'
BY DEF IInv, RootScriptHasMarker

\* An error returned at once leaves the ESP as it is; only the creation of the marker
\* directory can find a full one.
LEMMA AbortKeeps ==
  ASSUME IInv, NEW allocates \in BOOLEAN, Abort(allocates), allocates => pc = "mkdir"
  PROVE  IInv'
<1>1. PICK f \in start.failures : FailsWith(f, allocates) /\ result' = Outcome(f)
  BY DEF Abort
<1>2. /\ result' \in {"notWritten", "failed"}
      /\ readOnly' \in BOOLEAN /\ (readOnly' => "readOnly" \in start.failures)
      /\ start.failures = {"full"} => pc = "mkdir"
  BY <1>1, FailureFacts
<1>3. pc' = "done" /\ UNCHANGED <<scripts, markers, tmpScript, tmpMarker, start>>
  BY DEF Abort, esp
<1>4. FilesTypeOK'
  BY <1>2, <1>3 DEF IInv, FilesTypeOK
<1>5. ReadOnlyHasCause' /\ ResultFitsStep'
  BY <1>2, <1>3 DEF ReadOnlyHasCause, ResultFitsStep
<1>6. ScriptsFitStep' /\ MarkersFitStep' /\ TemporariesFitStep'
  BY <1>3 DEF ScriptsFitStep, MarkersFitStep, TemporariesFitStep, Yielding, Preparing, Placed
<1>7. ResultHolds'
  BY <1>2 DEF ResultHolds
<1>8. NotWrittenRestores'
  BY <1>2, <1>3 DEF IInv, NotWrittenRestores, ScriptsFitStep, MarkersFitStep,
                    TemporariesFitStep, Preparing
<1> QED
  BY <1>3, <1>4, <1>5, <1>6, <1>7, <1>8, SameEspKeepsRoot DEF IInv

\* An error of steps 2 and 3 goes on to undo, with what this run wrote still there.
LEMMA FailIntoUndoKeeps ==
  ASSUME IInv, pc \in {"tmpMarker", "tmpScript", "placeMarker", "placeScript"},
         NEW f \in start.failures, FailsWith(f, TRUE), result' = Outcome(f), pc' = "undo",
         UNCHANGED <<scripts, markers, start>>,
         tmpScript' \in BOOLEAN, tmpMarker' \in BOOLEAN
  PROVE  IInv'
<1>1. /\ result' \in {"notWritten", "failed"}
      /\ readOnly' \in BOOLEAN /\ (readOnly' => "readOnly" \in start.failures)
  BY FailureFacts
<1>2. FilesTypeOK'
  BY <1>1 DEF IInv, FilesTypeOK
<1>3. ReadOnlyHasCause' /\ ResultFitsStep'
  BY <1>1 DEF ReadOnlyHasCause, ResultFitsStep
<1>4. ScriptsFitStep' /\ MarkersFitStep' /\ TemporariesFitStep'
  BY DEF IInv, ScriptsFitStep, MarkersFitStep, TemporariesFitStep, Yielding, Preparing,
         Placed
<1>5. ResultHolds' /\ NotWrittenRestores'
  BY <1>1 DEF ResultHolds, NotWrittenRestores
<1> QED
  BY <1>2, <1>3, <1>4, <1>5, SameEspKeepsRoot DEF IInv

\* The invariant holds of the ESP as the image brings it.
LEMMA InitIInv == Init => IInv
<1> SUFFICES ASSUME Init PROVE IInv
  OBVIOUS
<1>0. PICK F \in SUBSET Failures :
        start = [scripts |-> scripts, markers |-> markers, failures |-> F]
  BY DEF Init
<1>1. FilesTypeOK
  BY <1>0 DEF Init, FilesTypeOK, Contents
<1>2. ReadOnlyHasCause /\ ResultFitsStep /\ TemporariesFitStep
  BY DEF Init, ReadOnlyHasCause, ResultFitsStep, TemporariesFitStep
<1>3. ScriptsFitStep /\ MarkersFitStep
  BY <1>0 DEF Init, ScriptsFitStep, MarkersFitStep, Yielding, Preparing, Placed
<1>4. ResultHolds /\ NotWrittenRestores
  BY DEF Init, ResultHolds, NotWrittenRestores
<1>5. RootScriptHasMarker
  BY <1>0, MarkersAssumption DEF Init, RootScriptHasMarker, Ours, Dirs
<1> QED
  BY <1>1, <1>2, <1>3, <1>4, <1>5 DEF IInv

-----------------------------------------------------------------------------
\* 1. The scan decides between the two branches.
LEMMA ScanKeeps == IInv /\ Scan => IInv'
<1> SUFFICES ASSUME IInv, Scan PROVE IInv'
  OBVIOUS
<1> USE DEF IInv, Scan
<1>1. UNCHANGED <<scripts, markers, tmpScript, tmpMarker, readOnly, start>>
  BY DEF Proceed, Finish, esp
<1>2. \/ /\ pc' = "yieldScripts" /\ result' = "none"
      \/ /\ pc' = "mkdir" /\ result' = "none"
         /\ \A d \in Dirs : scripts[d] # "image"
      \/ pc' = "done" /\ result' = "failed"
  BY DEF Proceed, Finish, ResultFitsStep
<1>3. FilesTypeOK'
  BY <1>1, <1>2 DEF FilesTypeOK
<1>4. ReadOnlyHasCause' /\ ResultFitsStep' /\ TemporariesFitStep'
  BY <1>1, <1>2 DEF ReadOnlyHasCause, ResultFitsStep, TemporariesFitStep, Yielding, Placed
<1>5. ScriptsFitStep' /\ MarkersFitStep'
  BY <1>1, <1>2 DEF ScriptsFitStep, MarkersFitStep, Yielding, Preparing, Placed
<1>6. ResultHolds' /\ NotWrittenRestores'
  BY <1>2 DEF ResultHolds, NotWrittenRestores
<1> QED
  BY <1>1, <1>3, <1>4, <1>5, <1>6, SameEspKeepsRoot

\* Yielding to an image's script: ours go, its own stay.
LEMMA YieldScriptsKeeps == IInv /\ YieldScripts => IInv'
<1> SUFFICES ASSUME IInv, YieldScripts PROVE IInv'
  OBVIOUS
<1> USE DEF IInv, YieldScripts, RemoveScripts, PutScript
<1>1. CASE Abort(FALSE)
  BY <1>1, AbortKeeps
<1>2. ASSUME NEW d \in Dirs, IsNextOf(d, Dirs),
             scripts' = [scripts EXCEPT ![d] = "none"], Proceed("yieldScripts"),
             UNCHANGED <<markers, tmpScript, tmpMarker>>
      PROVE  IInv'
  <2>1. Ours(scripts[d]) /\ pc = "yieldScripts"
    BY <1>2 DEF IsNextOf
  <2>2. FilesTypeOK'
    BY <1>2 DEF FilesTypeOK, Contents, Proceed
  <2>3. ReadOnlyHasCause' /\ ResultFitsStep' /\ TemporariesFitStep' /\ MarkersFitStep'
    BY <1>2, <2>1 DEF ReadOnlyHasCause, ResultFitsStep, TemporariesFitStep, MarkersFitStep,
                      Proceed
  <2>4. ScriptsFitStep'
    BY <1>2, <2>1 DEF ScriptsFitStep, Proceed, Ours, FilesTypeOK, Yielding, Preparing, Placed
  <2>5. ResultHolds' /\ NotWrittenRestores'
    BY <1>2, <2>1 DEF ResultHolds, NotWrittenRestores, Proceed, ResultFitsStep
  <2>6. RootScriptHasMarker'
    BY <1>2, <2>1 DEF RootScriptHasMarker, Proceed, Ours, FilesTypeOK, Dirs
  <2> QED
    BY <2>2, <2>3, <2>4, <2>5, <2>6
<1>3. ASSUME Dirs \cap ScriptsOfOurs = {}, Proceed("yieldMarkers"), UNCHANGED esp,
             pc = "yieldScripts"
      PROVE  IInv'
  <2>1. UNCHANGED <<scripts, markers, tmpScript, tmpMarker, readOnly, start, result>>
    BY <1>3 DEF esp, Proceed
  <2>2. FilesTypeOK' /\ ReadOnlyHasCause' /\ ResultFitsStep' /\ TemporariesFitStep'
    BY <1>3, <2>1 DEF FilesTypeOK, ReadOnlyHasCause, ResultFitsStep, TemporariesFitStep,
                      Proceed,
                      Yielding, Placed
  <2>3. ScriptsFitStep' /\ MarkersFitStep'
    BY <1>3, <2>1 DEF ScriptsFitStep, MarkersFitStep, Proceed, ScriptsOfOurs,
                      Yielding, Preparing, Placed
  <2>4. ResultHolds' /\ NotWrittenRestores'
    BY <1>3, <2>1 DEF ResultHolds, NotWrittenRestores, Proceed, ResultFitsStep
  <2> QED
    BY <2>1, <2>2, <2>3, <2>4, SameEspKeepsRoot
<1> QED
  BY <1>1, <1>2, <1>3

\* The markers go only when none of our scripts is left to look for them.
LEMMA YieldMarkersKeeps == IInv /\ YieldMarkers => IInv'
<1> SUFFICES ASSUME IInv, YieldMarkers PROVE IInv'
  OBVIOUS
<1> USE DEF IInv, YieldMarkers, RemoveMarkers, PutMarkers
<1>1. CASE Abort(FALSE)
  BY <1>1, AbortKeeps
<1>2. ASSUME markers' \subseteq markers, pc = "yieldMarkers",
             pc' \in {"yieldMarkers", "yieldSync"}, pc' = "yieldSync" => markers' = {},
             UNCHANGED <<scripts, tmpScript, tmpMarker, result, readOnly, start>>
      PROVE  IInv'
  <2>1. FilesTypeOK' /\ ReadOnlyHasCause' /\ ResultFitsStep' /\ TemporariesFitStep'
    BY <1>2 DEF FilesTypeOK, ReadOnlyHasCause, ResultFitsStep, TemporariesFitStep, Yielding,
                Placed
  <2>2. ScriptsFitStep' /\ MarkersFitStep'
    BY <1>2 DEF ScriptsFitStep, MarkersFitStep, Yielding, Preparing, Placed
  <2>3. ResultHolds' /\ NotWrittenRestores'
    BY <1>2 DEF ResultHolds, NotWrittenRestores, ResultFitsStep
  <2>4. ~Ours(scripts'["root"])
    BY <1>2 DEF ScriptsFitStep, Dirs
  <2>5. RootScriptHasMarker'
    BY <2>4 DEF RootScriptHasMarker, Ours
  <2> QED
    BY <2>1, <2>2, <2>3, <2>5
<1> QED
  BY <1>1, <1>2 DEF Proceed, esp

\* Flushing the root changes what a power loss leaves, not the ESP as the kernel holds it.
LEMMA SyncRootKeeps ==
  ASSUME IInv, \/ SyncRoot("yieldSync", "yieldFlush")
               \/ SyncRoot("sync", "flush")
  PROVE  IInv'
<1> USE DEF IInv, SyncRoot
<1>1. CASE Abort(FALSE)
  BY <1>1, AbortKeeps
<1>2. CASE ~Abort(FALSE)
  <2>1. /\ \/ pc = "yieldSync" /\ pc' = "yieldFlush"
           \/ pc = "sync" /\ pc' = "flush"
        /\ UNCHANGED <<scripts, markers, tmpScript, tmpMarker, result, readOnly, start>>
    BY <1>2 DEF Proceed
  <2>2. FilesTypeOK' /\ ReadOnlyHasCause' /\ ResultFitsStep' /\ TemporariesFitStep'
    BY <2>1 DEF FilesTypeOK, ReadOnlyHasCause, ResultFitsStep, TemporariesFitStep, Yielding,
                Placed
  <2>3. ScriptsFitStep' /\ MarkersFitStep' /\ NotWrittenRestores'
    BY <2>1 DEF ScriptsFitStep, MarkersFitStep, NotWrittenRestores, Yielding, Preparing,
                Placed
  <2>4. ResultHolds'
    BY <2>1 DEF ResultHolds, ResultFitsStep
  <2> QED
    BY <2>1, <2>2, <2>3, <2>4, SameEspKeepsRoot
<1> QED
  BY <1>1, <1>2

\* The end of the yielding branch: nothing of ours is left.
LEMMA YieldSyncKeeps == IInv /\ YieldSync => IInv'
<1> SUFFICES ASSUME IInv, SyncMarkers("yieldFlush", "leftInPlace") PROVE IInv'
  BY SyncRootKeeps DEF YieldSync
<1> USE DEF IInv, SyncMarkers
<1>1. CASE Abort(FALSE)
  BY <1>1, AbortKeeps
<1>2. CASE ~Abort(FALSE)
  <2>1. /\ pc' = "done" /\ result' = "leftInPlace" /\ pc = "yieldFlush"
        /\ UNCHANGED <<scripts, markers, tmpScript, tmpMarker, readOnly, start>>
    BY <1>2 DEF Finish
  <2>2. FilesTypeOK' /\ ReadOnlyHasCause' /\ ResultFitsStep' /\ TemporariesFitStep'
    BY <2>1 DEF FilesTypeOK, ReadOnlyHasCause, ResultFitsStep, TemporariesFitStep, Yielding,
                Placed
  <2>3. ScriptsFitStep' /\ MarkersFitStep' /\ NotWrittenRestores'
    BY <2>1 DEF ScriptsFitStep, MarkersFitStep, NotWrittenRestores, Yielding, Preparing,
                Placed
  <2>4. ScriptsOfOurs' = {} /\ markers = {}
    BY <2>1 DEF ScriptsFitStep, MarkersFitStep, ScriptsOfOurs
  <2>5. ResultHolds'
    BY <2>1, <2>4 DEF ResultHolds, ScriptsFitStep, Yielding
  <2> QED
    BY <2>1, <2>2, <2>3, <2>5, SameEspKeepsRoot
<1> QED
  BY <1>1, <1>2

-----------------------------------------------------------------------------
\* 2. The marker directory and the two temporary files.
LEMMA PrepareKeeps ==
  IInv /\ (CreateMarkerDir \/ WriteTmpMarker \/ WriteTmpScript) => IInv'
<1> SUFFICES ASSUME IInv, CreateMarkerDir \/ WriteTmpMarker \/ WriteTmpScript PROVE IInv'
  OBVIOUS
<1> USE DEF IInv
<1>1. CASE CreateMarkerDir /\ Abort(markers = {})
  BY <1>1, AbortKeeps DEF CreateMarkerDir
<1>2. CASE AbortAndUndo /\ pc \in {"tmpMarker", "tmpScript"}
  BY <1>2, FailIntoUndoKeeps DEF AbortAndUndo, esp, FilesTypeOK
<1>3. ASSUME NEW f \in start.failures, FailsWith(f, TRUE), result' = Outcome(f), pc' = "undo",
             pc \in {"tmpMarker", "tmpScript"}, UNCHANGED <<scripts, markers, start>>,
             tmpScript' \in {tmpScript, TRUE}, tmpMarker' \in {tmpMarker, TRUE}
      PROVE  IInv'
  <2>1. tmpScript' \in BOOLEAN /\ tmpMarker' \in BOOLEAN
    BY <1>3 DEF FilesTypeOK
  <2> QED
    BY <1>3, <2>1, FailIntoUndoKeeps
<1>4. ASSUME UNCHANGED <<scripts, markers, result, readOnly, start>>,
             \/ /\ pc = "mkdir" /\ pc' = "tmpMarker"
                /\ UNCHANGED <<tmpMarker, tmpScript>>
             \/ pc = "tmpMarker" /\ pc' = "tmpScript" /\ tmpMarker' = TRUE /\ tmpScript' = tmpScript
             \/ pc = "tmpScript" /\ pc' = "placeMarker" /\ tmpScript' = TRUE /\ tmpMarker' = tmpMarker
      PROVE  IInv'
  <2>1. tmpScript' \in BOOLEAN /\ tmpMarker' \in BOOLEAN
    BY <1>4 DEF FilesTypeOK
  <2>2. FilesTypeOK' /\ ReadOnlyHasCause' /\ ResultFitsStep'
    BY <1>4, <2>1 DEF FilesTypeOK, ReadOnlyHasCause, ResultFitsStep
  <2>3. ScriptsFitStep' /\ MarkersFitStep' /\ TemporariesFitStep'
    BY <1>4 DEF ScriptsFitStep, MarkersFitStep, TemporariesFitStep, Yielding, Preparing,
                Placed
  <2>4. ResultHolds' /\ NotWrittenRestores'
    BY <1>4 DEF ResultHolds, NotWrittenRestores, ResultFitsStep
  <2> QED
    BY <1>4, <2>2, <2>3, <2>4, SameEspKeepsRoot
<1> QED
  BY <1>1, <1>2, <1>3, <1>4
     DEF CreateMarkerDir, WriteTmpMarker, WriteTmpScript, Proceed, esp

\* 3. The marker goes into place before the script that looks for it.
LEMMA PlaceMarkerKeeps == IInv /\ PlaceMarker => IInv'
<1> SUFFICES ASSUME IInv, PlaceMarker PROVE IInv'
  OBVIOUS
<1> USE DEF IInv, PlaceMarker, PutMarkers
<1>1. CASE AbortAndUndo
  BY <1>1, FailIntoUndoKeeps DEF AbortAndUndo, esp, FilesTypeOK
<1>2. CASE ~AbortAndUndo
  <2>1. /\ pc' = "placeScript" /\ markers' = markers \cup {New} /\ tmpMarker' = FALSE
        /\ UNCHANGED <<scripts, tmpScript, result, readOnly, start>>
    BY <1>2 DEF Proceed
  <2>2. FilesTypeOK' /\ ReadOnlyHasCause' /\ ResultFitsStep'
    BY <2>1 DEF FilesTypeOK, ReadOnlyHasCause, ResultFitsStep
  <2>3. ScriptsFitStep' /\ MarkersFitStep' /\ TemporariesFitStep'
    BY <2>1 DEF ScriptsFitStep, MarkersFitStep, TemporariesFitStep, Yielding, Preparing,
                Placed
  <2>4. ResultHolds' /\ NotWrittenRestores' /\ RootScriptHasMarker'
    BY <2>1 DEF ResultHolds, NotWrittenRestores, RootScriptHasMarker, ResultFitsStep
  <2> QED
    BY <2>2, <2>3, <2>4
<1> QED
  BY <1>1, <1>2

\* The script replaces ours at the root; its marker is there.
LEMMA PlaceScriptKeeps == IInv /\ PlaceScript => IInv'
<1> SUFFICES ASSUME IInv, PlaceScript PROVE IInv'
  OBVIOUS
<1> USE DEF IInv, PlaceScript, PutScript
<1>1. CASE AbortAndUndo
  BY <1>1, FailIntoUndoKeeps DEF AbortAndUndo, esp, FilesTypeOK
<1>2. CASE ~AbortAndUndo
  <2>1. /\ pc' = "oldMarkers" /\ tmpScript' = FALSE
        /\ scripts' = [scripts EXCEPT !["root"] = New]
        /\ UNCHANGED <<markers, tmpMarker, result, readOnly, start>>
    BY <1>2 DEF Proceed
  <2>2. /\ scripts'["root"] = New
        /\ \A d \in Dirs \ {"root"} : scripts'[d] = scripts[d]
        /\ New # "image"
    BY <2>1 DEF FilesTypeOK, Dirs, New
  <2>3. FilesTypeOK' /\ ReadOnlyHasCause' /\ ResultFitsStep'
    BY <2>1 DEF FilesTypeOK, Contents, ReadOnlyHasCause, ResultFitsStep
  <2>4. ScriptsFitStep' /\ MarkersFitStep' /\ TemporariesFitStep'
    BY <2>1, <2>2 DEF ScriptsFitStep, MarkersFitStep, TemporariesFitStep,
                      Yielding, Preparing, Placed
  <2>5. New \in markers'
    BY <2>1 DEF MarkersFitStep
  <2>6. ResultHolds' /\ NotWrittenRestores' /\ RootScriptHasMarker'
    BY <2>1, <2>2, <2>5 DEF ResultHolds, NotWrittenRestores, RootScriptHasMarker,
                            ResultFitsStep
  <2> QED
    BY <2>3, <2>4, <2>6
<1> QED
  BY <1>1, <1>2

\* Undo takes back what it can: the script was never in place, so its marker may go.
LEMMA UndoKeeps == IInv /\ Undo => IInv'
<1> SUFFICES ASSUME IInv, Undo PROVE IInv'
  OBVIOUS
<1> USE DEF IInv, Undo, PutMarkers
<1>1. /\ markers' \in {start.markers, start.markers \cup {New}}
      /\ start.markers \subseteq markers'
  <2>1. New \notin start.markers
    BY MarkersAssumption DEF FilesTypeOK
  <2>2. markers = start.markers \/ markers = start.markers \cup {New}
    BY DEF MarkersFitStep
  <2>3. markers \ {New} = start.markers
    BY <2>1, <2>2
  <2>4. markers' = markers \/ markers' = markers \ {New}
    OBVIOUS
  <2> QED
    BY <2>2, <2>3, <2>4
<1>2. tmpScript' \in BOOLEAN /\ tmpMarker' \in BOOLEAN
  BY DEF FilesTypeOK
<1>3. start.failures = {"full"} =>
        markers' = start.markers /\ tmpScript' = FALSE /\ tmpMarker' = FALSE
  <2>1. start.failures = {"full"} => ~readOnly /\ "io" \notin start.failures
    BY DEF ReadOnlyHasCause
  <2>2. New \notin start.markers
    BY MarkersAssumption DEF FilesTypeOK
  <2>3. markers \ {New} = start.markers
    BY <2>2 DEF MarkersFitStep
  <2> QED
    BY <2>1, <2>3
<1>4. FilesTypeOK'
  BY <1>1, <1>2 DEF FilesTypeOK
<1>5. ReadOnlyHasCause' /\ ResultFitsStep'
  BY DEF ReadOnlyHasCause, ResultFitsStep
<1>6. ScriptsFitStep' /\ MarkersFitStep' /\ TemporariesFitStep'
  BY DEF ScriptsFitStep, MarkersFitStep, TemporariesFitStep, Yielding, Preparing, Placed
<1>7. ResultHolds' /\ NotWrittenRestores'
  BY <1>3 DEF ResultHolds, NotWrittenRestores, ResultFitsStep, ScriptsFitStep, Preparing
<1>8. scripts["root"] \in {"none", "image"} \cup OldMarkers /\ scripts = start.scripts
  BY DEF ScriptsFitStep, FilesTypeOK, Preparing, Dirs
<1>9. RootScriptHasMarker'
  BY <1>1, <1>8, MarkersAssumption DEF RootScriptHasMarker, Ours, MarkersFitStep
<1> QED
  BY <1>4, <1>5, <1>6, <1>7, <1>9

-----------------------------------------------------------------------------
\* 4. The older markers go when the script at the root is the new one.
LEMMA OldMarkersGoKeeps == IInv /\ OldMarkersGo => IInv'
<1> SUFFICES ASSUME IInv, OldMarkersGo PROVE IInv'
  OBVIOUS
<1> USE DEF IInv, OldMarkersGo, RemoveMarkers, PutMarkers
<1>1. CASE Abort(FALSE)
  BY <1>1, AbortKeeps
<1>2. CASE ~Abort(FALSE)
  <2>1. /\ New \in markers' /\ markers' \subseteq markers /\ pc = "oldMarkers"
        /\ pc' \in {"oldMarkers", "oldScripts"} /\ (pc' = "oldScripts" => markers' = {New})
        /\ UNCHANGED <<scripts, tmpScript, tmpMarker, result, readOnly, start>>
    BY <1>2 DEF MarkersFitStep, Proceed, esp
  <2>2. FilesTypeOK' /\ ReadOnlyHasCause' /\ ResultFitsStep' /\ TemporariesFitStep'
    BY <2>1 DEF FilesTypeOK, ReadOnlyHasCause, ResultFitsStep, TemporariesFitStep, Yielding,
                Placed
  <2>3. ScriptsFitStep' /\ MarkersFitStep'
    BY <2>1 DEF ScriptsFitStep, MarkersFitStep, Yielding, Preparing, Placed
  <2>4. ResultHolds' /\ NotWrittenRestores'
    BY <2>1 DEF ResultHolds, NotWrittenRestores, ResultFitsStep
  <2>5. scripts["root"] = New
    BY <2>1 DEF ScriptsFitStep, Placed
  <2>6. RootScriptHasMarker'
    BY <2>1, <2>5 DEF RootScriptHasMarker
  <2> QED
    BY <2>2, <2>3, <2>4, <2>6
<1> QED
  BY <1>1, <1>2

\* Scripts of ours outside the root would hide the new one, and go too.
LEMMA OldScriptsGoKeeps == IInv /\ OldScriptsGo => IInv'
<1> SUFFICES ASSUME IInv, OldScriptsGo PROVE IInv'
  OBVIOUS
<1> USE DEF IInv, OldScriptsGo, RemoveScripts, PutScript
<1>1. CASE Abort(FALSE)
  BY <1>1, AbortKeeps
<1>2. CASE ~Abort(FALSE)
  <2>1. /\ pc = "oldScripts" /\ pc' \in {"oldScripts", "sync"}
        /\ UNCHANGED <<markers, tmpScript, tmpMarker, result, readOnly, start>>
    BY <1>2 DEF Proceed, esp
  <2>2. \/ \E d \in Dirs \ {"root"} : scripts' = [scripts EXCEPT ![d] = "none"]
        \/ scripts' = scripts
    BY <1>2 DEF IsNextOf, esp
  <2>3. /\ \A d \in Dirs : scripts'[d] # "image"
        /\ scripts'["root"] = New
    BY <2>1, <2>2 DEF ScriptsFitStep, Placed, FilesTypeOK, Dirs
  <2>4. pc' = "sync" => \A d \in Dirs \ {"root"} : ~Ours(scripts'[d])
    BY <1>2, <2>1 DEF ScriptsOfOurs, Proceed, esp
  <2>5. FilesTypeOK'
    BY <2>1, <2>2 DEF FilesTypeOK, Contents
  <2>6. ReadOnlyHasCause' /\ ResultFitsStep' /\ TemporariesFitStep' /\ MarkersFitStep'
    BY <2>1 DEF ReadOnlyHasCause, ResultFitsStep, TemporariesFitStep, MarkersFitStep,
                Yielding, Placed
  <2>7. ScriptsFitStep'
    BY <2>1, <2>3, <2>4 DEF ScriptsFitStep, Yielding, Preparing, Placed
  <2>8. ResultHolds' /\ NotWrittenRestores'
    BY <2>1 DEF ResultHolds, NotWrittenRestores, ResultFitsStep
  <2>9. New \in markers
    BY <2>1 DEF MarkersFitStep
  <2>10. RootScriptHasMarker'
    BY <2>1, <2>3, <2>9 DEF RootScriptHasMarker
  <2> QED
    BY <2>5, <2>6, <2>7, <2>8, <2>10
<1> QED
  BY <1>1, <1>2

\* With the new script at the root and no other, the Shell runs it.
LEMMA ShellFindsRootScript ==
  ASSUME IInv, pc = "flush"
  PROVE  ShellRuns = New
<1>1. scripts["root"] = New /\ scripts["tools"] = "none" /\ scripts["boot"] = "none"
  BY DEF IInv, ScriptsFitStep, Ours, Placed, Dirs
<1>2. /\ SearchOrder[1] = "tools" /\ SearchOrder[2] = "boot" /\ SearchOrder[3] = "root"
      /\ New # "none"
  BY DEF SearchOrder, New
<1> DEFINE found == {i \in 1 .. 3 : scripts[SearchOrder[i]] # "none"}
<1>3. found = {3}
  BY <1>1, <1>2
<1>4. (CHOOSE i \in found : \A j \in found : i <= j) = 3
  BY <1>3
<1> QED
  BY <1>1, <1>2, <1>3, <1>4 DEF ShellRuns

\* The result "written": the Shell runs this deploy's script.
LEMMA SyncPairKeeps == IInv /\ SyncPair => IInv'
<1> SUFFICES ASSUME IInv, SyncMarkers("flush", "written") PROVE IInv'
  BY SyncRootKeeps DEF SyncPair
<1> USE DEF IInv, SyncMarkers
<1>1. CASE Abort(FALSE)
  BY <1>1, AbortKeeps
<1>2. CASE ~Abort(FALSE)
  <2>1. /\ pc' = "done" /\ result' = "written" /\ pc = "flush"
        /\ UNCHANGED <<scripts, markers, tmpScript, tmpMarker, readOnly, start>>
    BY <1>2 DEF Finish
  <2>2. FilesTypeOK' /\ ReadOnlyHasCause' /\ ResultFitsStep' /\ TemporariesFitStep'
    BY <2>1 DEF FilesTypeOK, ReadOnlyHasCause, ResultFitsStep, TemporariesFitStep, Yielding,
                Placed
  <2>3. ScriptsFitStep' /\ MarkersFitStep' /\ NotWrittenRestores'
    BY <2>1 DEF ScriptsFitStep, MarkersFitStep, NotWrittenRestores, Yielding, Preparing,
                Placed
  <2>4. ShellRuns' = ShellRuns
    BY <2>1 DEF ShellRuns
  <2>5. ShellRuns = New /\ markers = {New} /\ tmpScript = FALSE /\ tmpMarker = FALSE
    BY <2>1, ShellFindsRootScript DEF MarkersFitStep, TemporariesFitStep, Placed
  <2>6. ResultHolds'
    BY <2>1, <2>4, <2>5 DEF ResultHolds
  <2> QED
    BY <2>1, <2>2, <2>3, <2>6, SameEspKeepsRoot
<1> QED
  BY <1>1, <1>2

-----------------------------------------------------------------------------
\* Every step keeps the invariant.
LEMMA NextKeeps == IInv /\ [Next]_vars => IInv'
<1> SUFFICES ASSUME IInv, [Next]_vars PROVE IInv'
  OBVIOUS
<1>1. CASE Next
  BY <1>1, ScanKeeps, YieldScriptsKeeps, YieldMarkersKeeps, YieldSyncKeeps, PrepareKeeps,
     PlaceMarkerKeeps, PlaceScriptKeeps, UndoKeeps, OldMarkersGoKeeps, OldScriptsGoKeeps,
     SyncPairKeeps DEF Next
<1>2. CASE UNCHANGED vars
  BY <1>2 DEF vars, esp, IInv, FilesTypeOK, ReadOnlyHasCause, ResultFitsStep, ScriptsFitStep,
         MarkersFitStep, TemporariesFitStep, ResultHolds, RootScriptHasMarker,
         NotWrittenRestores, ShellRuns, ScriptsOfOurs
<1> QED
  BY <1>1, <1>2

-----------------------------------------------------------------------------
\* What is on the disk.  A marker of the image is there as long as it is on the ESP; the
\* root script is, until it is first changed and again once the root is flushed.
DiskFitsStep ==
  /\ markers \cap start.markers \subseteq safe
  /\ pc \in Yielding /\ Ours(scripts["root"]) => scripts["root"] = start.scripts["root"]
  /\ \/ scripts["root"] = start.scripts["root"]
     \/ pc \in {"yieldFlush", "flush"}
     \/ result \in {"written", "leftInPlace"}
     => onDisk["root"] = {scripts["root"]}
  /\ result \in {"written", "leftInPlace"} => safe = markers

DiskInv == DiskTypeOK /\ DiskFitsStep

\* On the disk that the image came on, nothing is pending.
LEMMA InitDiskInv == Init => DiskInv
<1> SUFFICES ASSUME Init PROVE DiskInv
  OBVIOUS
<1>1. PICK F \in SUBSET Failures :
        start = [scripts |-> scripts, markers |-> markers, failures |-> F]
  BY DEF Init
<1>2. DiskTypeOK
  BY DEF Init, DiskTypeOK, Contents
<1>3. DiskFitsStep
  BY <1>1 DEF Init, DiskFitsStep, Yielding, Dirs
<1> QED
  BY <1>2, <1>3 DEF DiskInv

\* A step that changes nothing on the ESP, with or without an error, up to the flushes.
LEMMA SameFilesKeepDisk ==
  ASSUME IInv, DiskInv, UNCHANGED <<scripts, markers, onDisk, safe, start>>,
         pc' \in Yielding => pc \in Yielding \cup {"scan"},
         pc' \in {"yieldFlush", "flush"} => pc' = pc,
         result' \in {"written", "leftInPlace"} => result' = result
  PROVE  DiskInv'
<1>1. DiskTypeOK'
  BY DEF DiskInv, DiskTypeOK
<1>2. pc = "scan" => scripts["root"] = start.scripts["root"]
  BY DEF IInv, ScriptsFitStep
<1>3. DiskFitsStep'
  BY <1>2 DEF DiskInv, DiskFitsStep
<1> QED
  BY <1>1, <1>3 DEF DiskInv

\* An error changes nothing on the ESP.
LEMMA ErrorKeepsDisk ==
  ASSUME IInv, DiskInv, NEW allocates \in BOOLEAN, Abort(allocates) \/ AbortAndUndo
  PROVE  DiskInv'
<1>1. /\ pc' \in {"done", "undo"} /\ result' \in {"notWritten", "failed"}
      /\ UNCHANGED <<scripts, markers, onDisk, safe, start>>
  BY DEF Abort, AbortAndUndo, Outcome, esp
<1> QED
  BY <1>1, SameFilesKeepDisk DEF Yielding

\* Removing a script of ours: at the root it is the first change of the image's pair.
LEMMA RemoveScriptKeepsDisk ==
  ASSUME IInv, DiskInv, YieldScripts \/ OldScriptsGo
  PROVE  DiskInv'
<1> USE DEF IInv, DiskInv
<1>1. CASE Abort(FALSE)
  BY <1>1, ErrorKeepsDisk
<1>2. ASSUME NEW d \in Dirs, Ours(scripts[d]), PutScript(d, "none"), pc' = pc, result = "none",
             \/ pc = "yieldScripts"
             \/ pc = "oldScripts" /\ d # "root",
             UNCHANGED <<markers, safe, start, result>>
      PROVE  DiskInv'
  <2>1. /\ \A e \in Dirs : scripts'[e] = IF e = d THEN "none" ELSE scripts[e]
        /\ \A e \in Dirs : onDisk'[e] = IF e = d THEN onDisk[e] \cup {"none"} ELSE onDisk[e]
    BY <1>2 DEF PutScript, FilesTypeOK, DiskTypeOK
  <2>2. DiskTypeOK'
    BY <1>2 DEF PutScript, DiskTypeOK, Contents
  <2>3. d = "root" => start.scripts["root"] # "none"
    BY <1>2 DEF DiskFitsStep, Yielding, Ours
  <2>4. "root" \in Dirs /\ ~Ours("none")
    BY DEF Dirs, Ours
  <2>5. DiskFitsStep'
    BY <1>2, <2>1, <2>3, <2>4 DEF DiskFitsStep, Yielding
  <2> QED
    BY <2>2, <2>5
<1>3. ASSUME pc' \in {"yieldMarkers", "sync"}, pc' \in Yielding => pc \in Yielding,
             UNCHANGED <<scripts, markers, onDisk, safe, start, result>>
      PROVE  DiskInv'
  BY <1>3, SameFilesKeepDisk
<1> QED
  BY <1>1, <1>2, <1>3 DEF YieldScripts, OldScriptsGo, RemoveScripts, IsNextOf, Proceed,
                          ResultFitsStep, Yielding, esp

\* Markers that go are no longer sure to be on the disk; those that stay are.
LEMMA MarkersKeepDisk ==
  ASSUME IInv, DiskInv, YieldMarkers \/ OldMarkersGo \/ PlaceMarker \/ Undo
  PROVE  DiskInv'
<1> USE DEF IInv, DiskInv
<1>1. CASE Abort(FALSE) \/ AbortAndUndo
  BY <1>1, ErrorKeepsDisk
<1>2. ASSUME NEW M, M \subseteq markers \cup {New}, PutMarkers(M),
             pc' \notin {"yieldFlush", "flush"}, pc' \in Yielding => pc \in Yielding,
             result' \notin {"written", "leftInPlace"},
             UNCHANGED <<scripts, onDisk, start>>
      PROVE  DiskInv'
  <2>1. DiskTypeOK'
    BY <1>2 DEF PutMarkers, DiskTypeOK
  <2>2. New \notin start.markers
    BY MarkersAssumption DEF FilesTypeOK
  <2>3. markers' \cap start'.markers \subseteq safe'
    BY <1>2, <2>2 DEF PutMarkers, DiskFitsStep
  <2>4. DiskFitsStep'
    BY <1>2, <2>3 DEF DiskFitsStep
  <2> QED
    BY <2>1, <2>4
<1>3. ASSUME pc' \in {"yieldSync", "oldScripts"}, pc' \in Yielding => pc \in Yielding,
             UNCHANGED <<scripts, markers, onDisk, safe, start, result>>
      PROVE  DiskInv'
  BY <1>3, SameFilesKeepDisk
<1>4. CASE YieldMarkers
  BY <1>1, <1>2, <1>3, <1>4 DEF YieldMarkers, RemoveMarkers, Proceed, ResultFitsStep,
                                Yielding,
                                esp
<1>5. CASE OldMarkersGo
  BY <1>1, <1>2, <1>3, <1>5 DEF OldMarkersGo, RemoveMarkers, Proceed, ResultFitsStep,
                                Yielding,
                                esp
<1>6. CASE PlaceMarker
  BY <1>1, <1>2, <1>6 DEF PlaceMarker, Proceed, ResultFitsStep, Yielding
<1>7. CASE Undo
  <2>1. PICK M : M \subseteq markers /\ PutMarkers(M)
    BY <1>7 DEF Undo
  <2> QED
    BY <1>2, <1>7, <2>1 DEF Undo, ResultFitsStep, Yielding
<1> QED
  BY <1>4, <1>5, <1>6, <1>7

\* The new script is not the image's, so what is on the disk is open until the flush.
LEMMA PlaceScriptKeepsDisk == IInv /\ DiskInv /\ PlaceScript => DiskInv'
<1> SUFFICES ASSUME IInv, DiskInv, PlaceScript PROVE DiskInv'
  OBVIOUS
<1> USE DEF IInv, DiskInv, PlaceScript
<1>1. CASE AbortAndUndo
  BY <1>1, ErrorKeepsDisk
<1>2. CASE ~AbortAndUndo
  <2>1. /\ pc' = "oldMarkers" /\ result' = "none" /\ PutScript("root", New)
        /\ UNCHANGED <<markers, safe, start>>
    BY <1>2 DEF Proceed, ResultFitsStep
  <2>2. DiskTypeOK'
    BY <2>1 DEF PutScript, DiskTypeOK, Contents
  <2>3. scripts'["root"] = New /\ start.scripts["root"] # New
    BY <2>1, MarkersAssumption DEF PutScript, FilesTypeOK, Dirs, New
  <2>4. DiskFitsStep'
    BY <2>1, <2>3 DEF DiskFitsStep, Yielding
  <2> QED
    BY <2>2, <2>4
<1> QED
  BY <1>1, <1>2

\* The two flushes: first the root script is on the disk, then the markers.
LEMMA SyncKeepsDisk == IInv /\ DiskInv /\ (YieldSync \/ SyncPair) => DiskInv'
<1> SUFFICES ASSUME IInv, DiskInv, YieldSync \/ SyncPair PROVE DiskInv'
  OBVIOUS
<1> USE DEF IInv, DiskInv
<1>1. CASE Abort(FALSE)
  BY <1>1, ErrorKeepsDisk
<1>2. ASSUME onDisk' = [onDisk EXCEPT !["root"] = {scripts["root"]}],
             pc' \in Yielding => pc \in Yielding, result' = "none",
             UNCHANGED <<scripts, markers, safe, start>>
      PROVE  DiskInv'
  <2>1. DiskTypeOK'
    BY <1>2 DEF DiskTypeOK, FilesTypeOK, Dirs
  <2>2. onDisk'["root"] = {scripts["root"]}
    BY <1>2 DEF DiskTypeOK, Dirs
  <2>3. DiskFitsStep'
    BY <1>2, <2>2 DEF DiskFitsStep
  <2> QED
    BY <2>1, <2>3
<1>3. ASSUME safe' = markers, pc \in {"yieldFlush", "flush"}, pc' = "done",
             UNCHANGED <<scripts, markers, onDisk, start>>
      PROVE  DiskInv'
  <2>1. DiskTypeOK'
    BY <1>3 DEF DiskTypeOK, FilesTypeOK
  <2>2. DiskFitsStep'
    BY <1>3 DEF DiskFitsStep, Yielding
  <2> QED
    BY <2>1, <2>2
<1> QED
  BY <1>1, <1>2, <1>3 DEF YieldSync, SyncPair, SyncRoot, SyncMarkers, Proceed, Finish,
                          ResultFitsStep, Yielding

\* Every step keeps what is known of the disk.
LEMMA NextKeepsDisk == IInv /\ DiskInv /\ [Next]_vars => DiskInv'
<1> SUFFICES ASSUME IInv, DiskInv, [Next]_vars PROVE DiskInv'
  OBVIOUS
<1>1. CASE Scan
  <2>1. /\ pc' \in {"yieldScripts", "mkdir", "done"} /\ result' \in {"none", "failed"}
        /\ pc = "scan" /\ UNCHANGED <<scripts, markers, onDisk, safe, start>>
    BY <1>1 DEF Scan, Proceed, Finish, esp, IInv, ResultFitsStep
  <2> QED
    BY <2>1, SameFilesKeepDisk
<1>2. CASE CreateMarkerDir \/ WriteTmpMarker \/ WriteTmpScript
  <2>1. CASE Abort(markers = {}) \/ AbortAndUndo
    BY <2>1, ErrorKeepsDisk
  <2>2. CASE ~(Abort(markers = {}) \/ AbortAndUndo)
    <3>1. /\ pc' \in Preparing /\ result' \in {"none", "notWritten", "failed"}
          /\ UNCHANGED <<scripts, markers, onDisk, safe, start>>
      BY <1>2, <2>2 DEF CreateMarkerDir, WriteTmpMarker, WriteTmpScript, Proceed, Outcome,
                        Preparing, esp, IInv, ResultFitsStep
    <3> QED
      BY <3>1, SameFilesKeepDisk DEF Preparing, Yielding
  <2> QED
    BY <2>1, <2>2
<1>3. CASE UNCHANGED vars
  BY <1>3, SameFilesKeepDisk DEF vars, esp
<1> QED
  BY <1>1, <1>2, <1>3, RemoveScriptKeepsDisk, MarkersKeepDisk, PlaceScriptKeepsDisk,
     SyncKeepsDisk DEF Next

\* From the two invariants: a root script that a power loss leaves is the one on the ESP,
\* which finds its marker, and that marker is on the disk.
LEMMA DiskHasPair == IInv /\ DiskInv => PowerLossFindsPair
<1> SUFFICES ASSUME IInv, DiskInv,
                    \/ result \in {"written", "leftInPlace"}
                    \/ /\ scripts["root"] = start.scripts["root"]
                       /\ start.markers \subseteq markers,
                    NEW s \in onDisk["root"], Ours(s), s \in OldMarkers => s \in start.markers
             PROVE  s \in safe
  BY DEF PowerLossFindsPair
<1>1. s = scripts["root"]
  BY DEF DiskInv, DiskFitsStep
<1>2. s \in markers
  BY <1>1 DEF IInv, RootScriptHasMarker
<1>3. CASE result \in {"written", "leftInPlace"}
  BY <1>2, <1>3 DEF DiskInv, DiskFitsStep
<1>4. CASE scripts["root"] = start.scripts["root"]
  <2>1. s \in OldMarkers
    BY <1>1, <1>4 DEF IInv, FilesTypeOK, Dirs, Ours
  <2> QED
    BY <1>2, <2>1 DEF DiskInv, DiskFitsStep
<1> QED
  BY <1>3, <1>4
-----------------------------------------------------------------------------
\* No step touches a script of the image: those that are removed are ours, and the root
\* has none of the image's when the new script is put there.
LEMMA NextSparesImage ==
  ASSUME IInv, ImageScriptsStay, [Next]_vars
  PROVE  ImageScriptsStay'
<1>1. CASE UNCHANGED vars
  BY <1>1 DEF vars, esp, ImageScriptsStay
<1>2. CASE Next
  <2>1. start' = start
    BY <1>2 DEF Next, Scan, YieldScripts, YieldMarkers, YieldSync, RemoveScripts,
       RemoveMarkers, SyncRoot, SyncMarkers, CreateMarkerDir, WriteTmpMarker, WriteTmpScript,
       PlaceMarker, PlaceScript, Undo, OldMarkersGo, OldScriptsGo, SyncPair, Abort,
       AbortAndUndo, Proceed, Finish
  <2>2. SUFFICES ASSUME NEW e \in Dirs, start.scripts[e] = "image"
                 PROVE  scripts'[e] = "image"
    BY <2>1 DEF ImageScriptsStay
  <2>3. scripts[e] = "image"
    BY <2>2 DEF ImageScriptsStay
  <2>4. ASSUME NEW d \in Dirs, NEW ds, IsNextOf(d, ds),
               scripts' = [scripts EXCEPT ![d] = "none"]
        PROVE  scripts'[e] = "image"
    BY <2>3, <2>4 DEF IsNextOf, Ours, IInv, FilesTypeOK
  <2>5. CASE YieldScripts \/ OldScriptsGo
    BY <2>3, <2>4, <2>5 DEF YieldScripts, OldScriptsGo, RemoveScripts, PutScript, Abort, esp
  <2>6. ~PlaceScript \/ AbortAndUndo
    BY <2>3 DEF PlaceScript, IInv, ScriptsFitStep, Preparing
  <2>7. CASE ~(YieldScripts \/ OldScriptsGo)
    BY <1>2, <2>3, <2>6, <2>7 DEF Next, Scan, YieldMarkers, YieldSync, RemoveMarkers, SyncRoot,
       SyncMarkers, CreateMarkerDir, WriteTmpMarker, WriteTmpScript, PlaceMarker, Undo,
       OldMarkersGo, SyncPair, Abort, AbortAndUndo, Proceed, Finish, esp
  <2> QED
    BY <2>5, <2>7
<1> QED
  BY <1>1, <1>2

-----------------------------------------------------------------------------
\* Whatever fails and wherever write_esp_files stops, scripts, markers and temporary files
\* fit the step it is at and what the image came with, so does what is on the disk, and
\* the image's own scripts are there.
THEOREM EspFallbackInductive == Spec => [](IInv /\ DiskInv /\ ImageScriptsStay)
<1>1. Init => IInv /\ DiskInv /\ ImageScriptsStay
  BY InitIInv, InitDiskInv DEF Init, ImageScriptsStay
<1>2. IInv /\ DiskInv /\ ImageScriptsStay /\ [Next]_vars
        => IInv' /\ DiskInv' /\ ImageScriptsStay'
  BY NextKeeps, NextKeepsDisk, NextSparesImage
<1> QED
  BY <1>1, <1>2, PTL DEF Spec

\* Type correctness of the ESP and of the progress of the function.
THEOREM EspTypeCorrect == Spec => []TypeOK
<1>1. IInv /\ DiskInv => TypeOK
  BY DEF IInv, DiskInv, TypeOK
<1> QED
  BY <1>1, EspFallbackInductive, PTL

\* Written means that the Shell runs this deploy's script and finds its marker, and
\* LeftInPlace that nothing of ours is left beside the image's scripts; those survive
\* every path (deploy.rs:909-964).
THEOREM ResultsAreTrue == Spec => []ResultIsTrue
<1>1. IInv /\ ImageScriptsStay => ResultIsTrue
  BY DEF IInv, ResultIsTrue
<1> QED
  BY <1>1, EspFallbackInductive, PTL

\* Wherever write_esp_files stops, the root script finds its marker if the image's did, on
\* the ESP as the unmount writes it out (deploy.rs:944-960).
THEOREM RootScriptsHaveMarkers == Spec => []RootScriptHasMarker
<1>1. IInv => RootScriptHasMarker
  BY DEF IInv
<1> QED
  BY <1>1, EspFallbackInductive, PTL

\* Before the first change of the image's pair, and once sync_dirs has flushed the
\* directories, a power loss leaves no root script of ours without its marker, for every
\* order of removals and every failure (deploy.rs:914, 961).
THEOREM PowerLossLeavesPairs == Spec => []PowerLossFindsPair
<1>1. IInv /\ DiskInv => PowerLossFindsPair
  BY DiskHasPair
<1> QED
  BY <1>1, EspFallbackInductive, PTL

\* Where the ESP can only be full, a skipped fallback leaves it as it was
\* (deploy.rs:520-521).
THEOREM SkippedFallbackRestores == Spec => []NotWrittenRestores
<1>1. IInv => NotWrittenRestores
  BY DEF IInv
<1> QED
  BY <1>1, EspFallbackInductive, PTL
=============================================================================
