------------------------------ MODULE Artifacts ------------------------------
(***************************************************************************)
(* The model files: scripts/download_model.py, which fetches, verifies and  *)
(* installs them one after the other, and the workers that load two of      *)
(* them at startup (worker/model.py), from the directory the script writes  *)
(* to (compose.yaml mounts it).                                             *)
(*                                                                         *)
(* The script may fail or be killed anywhere and be run again; workers may  *)
(* start at any moment.  Two runs do not overlap: they would share their    *)
(* temporary files.  A content is                                          *)
(*   "absent"   no such file,                                              *)
(*   "pinned"   the bytes whose checksum the script knows,                 *)
(*   "foreign"  other bytes that were installed before,                    *)
(*   "partial"  a download that was cut off, or                            *)
(*   "altered"  a complete download of the wrong bytes.                    *)
(***************************************************************************)
EXTENDS Naturals, FiniteSets

CONSTANTS
    Last,       \* the files are 1..Last, in the order of FILES
    Tokenizer,  \* tokenizer.json
    Onnx,       \* model.onnx
    Workers     \* the worker processes

Files == 1..Last

ASSUME ArtifactsAssumption ==
    /\ Last \in Nat \ {0}
    /\ Tokenizer \in Files
    /\ Onnx \in Files

VARIABLES
    dest,    \* dest[f]: content under the final name
    temp,    \* temp[f]: content under the temporary name
    script,  \* where the script stands
    item,    \* the file it is at
    worker,  \* worker[w]: where ONNXModel.__init__ stands
    loaded   \* loaded[w]: what it read

fileVars == <<dest, temp>>
scriptVars == <<script, item>>
workerVars == <<worker, loaded>>
vars == <<fileVars, scriptVars, workerVars>>

Init ==
    /\ dest \in [Files -> {"absent", "pinned", "foreign"}]
    /\ temp = [f \in Files |-> "absent"]
    /\ script = "idle"
    /\ item = 1
    /\ worker = [w \in Workers |-> "new"]
    /\ loaded = [w \in Workers |-> {}]

Contents == {"absent", "pinned", "foreign", "partial", "altered"}
Running == {"check", "fetch", "verify", "install"}
Ended == {"idle", "exited", "failed"}

\* verify_sha256()
Verified(content) == content = "pinned"

-----------------------------------------------------------------------------
(* The script.                                                              *)

Run ==
    /\ script \in Ended
    /\ script' = "check"
    /\ item' = 1
    /\ UNCHANGED <<fileVars, workerVars>>

\* Mutant: off by one at the end of FILES.
NextUpToLast ==
    IF item <= Last THEN script' = "check" /\ item' = item + 1
                    ELSE script' = "exited" /\ UNCHANGED item

\* The next file, or the end of main().
NextItem ==
    IF item < Last THEN script' = "check" /\ item' = item + 1
                   ELSE script' = "exited" /\ UNCHANGED item

\* Mutant: a file that exists is taken for the right one.
PresentIsEnough == dest[item] # "absent"

\* download_file() returns early for a file that has the right checksum.
UpToDate == Verified(dest[item])

CheckPresent ==
    /\ script = "check"
    /\ \/ UpToDate /\ NextItem
       \/ ~UpToDate /\ script' = "fetch" /\ UNCHANGED item
    /\ UNCHANGED <<fileVars, workerVars>>

\* urlretrieve() returns.  Where the server declares no length it cannot tell
\* that the connection was cut.
Fetched ==
    /\ script = "fetch"
    /\ \E content \in {"pinned", "partial", "altered"} :
         temp' = [temp EXCEPT ![item] = content]
    /\ script' = "verify"
    /\ UNCHANGED <<dest, item, workerVars>>

\* urlretrieve() raises, before it opens its file or amid the transfer.
FetchFails ==
    /\ script = "fetch"
    /\ temp' \in {temp, [temp EXCEPT ![item] = "partial"]}
    /\ script' = "failed"
    /\ UNCHANGED <<dest, item, workerVars>>

\* Mutant: the download is not verified.
TakenAsIs == TRUE

DownloadVerified == Verified(temp[item])

CheckDownload ==
    /\ script = "verify"
    /\ \/ DownloadVerified /\ script' = "install" /\ UNCHANGED temp
       \/ /\ ~DownloadVerified
          /\ temp' = [temp EXCEPT ![item] = "absent"]
          /\ script' = "failed"
    /\ UNCHANGED <<dest, item, workerVars>>

\* os.replace() is atomic.
Replaced ==
    /\ dest' = [dest EXCEPT ![item] = temp[item]]
    /\ temp' = [temp EXCEPT ![item] = "absent"]

Install ==
    /\ script = "install"
    /\ Replaced
    /\ NextItem
    /\ UNCHANGED workerVars

\* The script is killed.  A transfer under way leaves what it has written.
Killed ==
    /\ script \in Running
    /\ script' = "failed"
    /\ \/ UNCHANGED temp
       \/ script = "fetch" /\ temp' = [temp EXCEPT ![item] = "partial"]
    /\ UNCHANGED <<dest, item, workerVars>>

-----------------------------------------------------------------------------
(* A worker that starts.                                                    *)

\* Both files must exist; their checksums are not looked at.
FindFiles(w) ==
    /\ worker[w] = "new"
    /\ worker' = [worker EXCEPT ![w] =
                    IF dest[Tokenizer] = "absent" \/ dest[Onnx] = "absent"
                    THEN "failed" ELSE "tokenizer"]
    /\ UNCHANGED <<fileVars, scriptVars, loaded>>

\* Tokenizer.from_file(), then InferenceSession().  Either may reject a file
\* that is not the one it should be.
Load(w, f, from, to) ==
    /\ worker[w] = from
    /\ loaded' = [loaded EXCEPT ![w] = @ \cup {dest[f]}]
    /\ \/ worker' = [worker EXCEPT ![w] = to]
       \/ dest[f] # "pinned" /\ worker' = [worker EXCEPT ![w] = "failed"]
    /\ UNCHANGED <<fileVars, scriptVars>>

LoadTokenizer(w) == Load(w, Tokenizer, "tokenizer", "onnx")
LoadOnnx(w) == Load(w, Onnx, "onnx", "ready")

\* The process ends, and is started again.
Restart(w) ==
    /\ worker[w] \in {"failed", "ready"}
    /\ worker' = [worker EXCEPT ![w] = "new"]
    /\ loaded' = [loaded EXCEPT ![w] = {}]
    /\ UNCHANGED <<fileVars, scriptVars>>

-----------------------------------------------------------------------------

Next ==
    \/ Run \/ CheckPresent \/ Fetched \/ FetchFails \/ CheckDownload
    \/ Install \/ Killed
    \/ \E w \in Workers :
         FindFiles(w) \/ LoadTokenizer(w) \/ LoadOnnx(w) \/ Restart(w)

Spec == Init /\ [][Next]_vars

-----------------------------------------------------------------------------
(* Properties.                                                              *)

TypeOK ==
    /\ dest \in [Files -> Contents]
    /\ temp \in [Files -> Contents]
    /\ script \in Running \cup Ended
    /\ item \in Files
    /\ worker \in [Workers -> {"new", "tokenizer", "onnx", "ready", "failed"}]
    /\ loaded \in [Workers -> SUBSET Contents]

\* A run that ends well leaves all files as pinned and no temporary one,
\* whatever the runs before it left behind and wherever they were stopped.
ExitMeansComplete ==
    script = "exited" =>
        \A f \in Files : dest[f] = "pinned" /\ temp[f] = "absent"

\* A worker that starts while the script runs, or after it was killed, reads
\* no file that is cut off or was not verified, and one that found its files
\* finds them until it has read them.
WorkersReadWholeFiles ==
    \A w \in Workers : loaded[w] \subseteq {"pinned", "foreign"}
=============================================================================
