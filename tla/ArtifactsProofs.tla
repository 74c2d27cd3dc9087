--------------------------- MODULE ArtifactsProofs ---------------------------
(***************************************************************************)
(* Proofs about the installation of the model files, for any number of      *)
(* files and workers.                                                       *)
(***************************************************************************)
EXTENDS Artifacts, TLAPS

\* What a run has behind it is done, what it has in hand is not installed yet,
\* and what was verified stays so until it is installed.
Progress ==
    /\ script \in Running => \A f \in 1..(item - 1) : dest[f] = "pinned"
    /\ script \in {"fetch", "verify", "install"} => dest[item] # "pinned"
    /\ script = "install" => temp[item] = "pinned"

\* Temporary files are left only where the file itself is missing or wrong.
TempsAreNeeded ==
    \A f \in Files : dest[f] = "pinned" => temp[f] = "absent"

\* A worker that loads has found its two files.
FilesFound ==
    \A w \in Workers : worker[w] \in {"tokenizer", "onnx"} =>
        dest[Tokenizer] # "absent" /\ dest[Onnx] # "absent"

\* Nothing that was not verified gets a final name.
NamedAreWhole ==
    \A f \in Files : dest[f] \in {"absent", "pinned", "foreign"}

Inv ==
    /\ TypeOK
    /\ Progress
    /\ TempsAreNeeded
    /\ FilesFound
    /\ NamedAreWhole
    /\ ExitMeansComplete
    /\ WorkersReadWholeFiles

USE DEF Files, Contents, Running, Ended, Verified

LEMMA InvInit == Init => Inv
BY ArtifactsAssumption
   DEF Init, Inv, TypeOK, Progress, TempsAreNeeded, FilesFound, NamedAreWhole,
       ExitMeansComplete, WorkersReadWholeFiles

\* The script moves to the next file, or exits because it was the last.
LEMMA NextItemStep ==
    ASSUME Inv, NextItem, TypeOK', TempsAreNeeded', FilesFound',
           NamedAreWhole', WorkersReadWholeFiles', script \in Running,
           \A f \in 1..item : dest'[f] = "pinned"
    PROVE  Inv'
<1>1. CASE item < Last
  BY <1>1 DEF NextItem, Inv, TypeOK, Progress, ExitMeansComplete
<1>2. CASE item = Last
  <2>1. script' = "exited"
    BY <1>2, ArtifactsAssumption DEF NextItem
  <2>2. Progress'
    BY <2>1 DEF Progress
  <2>3. \A f \in Files : dest'[f] = "pinned"
    BY <1>2
  <2>4. ExitMeansComplete'
    BY <2>3 DEF ExitMeansComplete, TempsAreNeeded
  <2> QED BY <2>2, <2>4 DEF Inv
<1>3. item < Last \/ item = Last
  BY ArtifactsAssumption DEF Inv, TypeOK
<1> QED BY <1>1, <1>2, <1>3

LEMMA InvStep ==
    ASSUME Inv, [Next]_vars PROVE Inv'
<1> USE ArtifactsAssumption
<1>1. CASE Run
  BY <1>1 DEF Run, fileVars, workerVars, Inv, TypeOK, Progress, TempsAreNeeded,
              FilesFound, NamedAreWhole, ExitMeansComplete, WorkersReadWholeFiles
<1>2. CASE CheckPresent
  <2>1. CASE UpToDate /\ NextItem
    <3>1. TypeOK'
      BY <1>2, <2>1 DEF CheckPresent, NextItem, fileVars, workerVars, Inv, TypeOK
    <3>2. TempsAreNeeded' /\ FilesFound' /\ NamedAreWhole' /\ WorkersReadWholeFiles'
      BY <1>2 DEF CheckPresent, fileVars, workerVars, Inv, TempsAreNeeded,
                  FilesFound, NamedAreWhole, WorkersReadWholeFiles
    <3>3. \A f \in 1..item : dest'[f] = "pinned"
      BY <1>2, <2>1 DEF CheckPresent, UpToDate, fileVars, Inv, TypeOK, Progress
    <3> QED BY <1>2, <2>1, <3>1, <3>2, <3>3, NextItemStep DEF CheckPresent
  <2>2. CASE ~UpToDate /\ script' = "fetch" /\ UNCHANGED item
    BY <1>2, <2>2 DEF CheckPresent, UpToDate, fileVars, workerVars, Inv, TypeOK,
                      Progress, TempsAreNeeded, FilesFound,
                      NamedAreWhole, ExitMeansComplete, WorkersReadWholeFiles
  <2> QED BY <1>2, <2>1, <2>2 DEF CheckPresent
<1>3. CASE Fetched
  BY <1>3 DEF Fetched, workerVars, Inv, TypeOK, Progress, TempsAreNeeded,
              FilesFound, NamedAreWhole, ExitMeansComplete, WorkersReadWholeFiles
<1>4. CASE FetchFails
  BY <1>4 DEF FetchFails, workerVars, Inv, TypeOK, Progress, TempsAreNeeded,
              FilesFound, NamedAreWhole, ExitMeansComplete, WorkersReadWholeFiles
<1>5. CASE CheckDownload
  BY <1>5 DEF CheckDownload, DownloadVerified, workerVars, Inv, TypeOK, Progress,
              TempsAreNeeded, FilesFound,
              NamedAreWhole, ExitMeansComplete, WorkersReadWholeFiles
<1>6. CASE Install
  <2>1. TypeOK'
    BY <1>6 DEF Install, Replaced, NextItem, workerVars, Inv, TypeOK, Progress
  <2>2. TempsAreNeeded' /\ FilesFound' /\ NamedAreWhole' /\ WorkersReadWholeFiles'
    BY <1>6 DEF Install, Replaced, workerVars, Inv, TypeOK, Progress,
                TempsAreNeeded, FilesFound, NamedAreWhole, WorkersReadWholeFiles
  <2>3. \A f \in 1..item : dest'[f] = "pinned"
    BY <1>6 DEF Install, Replaced, Inv, TypeOK, Progress
  <2> QED BY <1>6, <2>1, <2>2, <2>3, NextItemStep DEF Install
<1>7. CASE Killed
  BY <1>7 DEF Killed, workerVars, Inv, TypeOK, Progress, TempsAreNeeded,
              FilesFound, NamedAreWhole, ExitMeansComplete, WorkersReadWholeFiles
<1>8. ASSUME NEW w \in Workers, FindFiles(w) PROVE Inv'
  BY <1>8 DEF FindFiles, fileVars, scriptVars, Inv, TypeOK, Progress,
              TempsAreNeeded, FilesFound,
              NamedAreWhole, ExitMeansComplete, WorkersReadWholeFiles
<1>9. ASSUME NEW w \in Workers, LoadTokenizer(w) \/ LoadOnnx(w) PROVE Inv'
  <2>1. dest[Tokenizer] \in {"pinned", "foreign"} /\ dest[Onnx] \in {"pinned", "foreign"}
    BY <1>9 DEF LoadTokenizer, LoadOnnx, Load, Inv, TypeOK, FilesFound, NamedAreWhole
  <2>2. /\ UNCHANGED <<dest, temp, script, item>>
        /\ \E step \in {"onnx", "ready", "failed"} :
              worker' = [worker EXCEPT ![w] = step]
        /\ worker[w] \in {"tokenizer", "onnx"}
        /\ \E f \in {Tokenizer, Onnx} :
              loaded' = [loaded EXCEPT ![w] = @ \cup {dest[f]}]
    BY <1>9 DEF LoadTokenizer, LoadOnnx, Load, fileVars, scriptVars
  <2>3. TypeOK'
    <3>1. worker' \in [Workers -> {"new", "tokenizer", "onnx", "ready", "failed"}]
      BY <2>2 DEF Inv, TypeOK
    <3>2. loaded' \in [Workers -> SUBSET Contents]
      BY <2>1, <2>2 DEF Inv, TypeOK, Contents
    <3> QED BY <2>2, <3>1, <3>2 DEF Inv, TypeOK
  <2>4. FilesFound'
    BY <2>2 DEF Inv, TypeOK, FilesFound
  <2>5. WorkersReadWholeFiles'
    BY <2>1, <2>2 DEF Inv, TypeOK, WorkersReadWholeFiles
  <2>6. Progress' /\ TempsAreNeeded' /\ NamedAreWhole' /\ ExitMeansComplete'
    BY <2>2 DEF Inv, Progress, TempsAreNeeded, NamedAreWhole, ExitMeansComplete
  <2> QED BY <2>3, <2>4, <2>5, <2>6 DEF Inv
<1>10. ASSUME NEW w \in Workers, Restart(w) PROVE Inv'
  BY <1>10 DEF Restart, fileVars, scriptVars, Inv, TypeOK, Progress,
               TempsAreNeeded, FilesFound,
               NamedAreWhole, ExitMeansComplete, WorkersReadWholeFiles
<1>11. CASE UNCHANGED vars
  BY <1>11 DEF vars, fileVars, scriptVars, workerVars, Inv, TypeOK, Progress,
               TempsAreNeeded, FilesFound,
               NamedAreWhole, ExitMeansComplete, WorkersReadWholeFiles
<1> QED BY <1>1, <1>2, <1>3, <1>4, <1>5, <1>6, <1>7, <1>8, <1>9, <1>10, <1>11
        DEF Next

LEMMA InvHolds == Spec => []Inv
BY InvInit, InvStep, PTL DEF Spec

-----------------------------------------------------------------------------

\* The type invariant: in particular the script never runs past its files.
THEOREM Typing == Spec => []TypeOK
<1>1. Inv => TypeOK
  BY DEF Inv
<1> QED BY <1>1, InvHolds, PTL

\* A run that ends well has installed every file and left no temporary one,
\* whatever happened to the runs before it.
THEOREM ExitComplete == Spec => []ExitMeansComplete
<1>1. Inv => ExitMeansComplete
  BY DEF Inv
<1> QED BY <1>1, InvHolds, PTL

\* A worker reads whole files only, whenever it starts.
THEOREM WholeFiles == Spec => []WorkersReadWholeFiles
<1>1. Inv => WorkersReadWholeFiles
  BY DEF Inv
<1> QED BY <1>1, InvHolds, PTL
=============================================================================
