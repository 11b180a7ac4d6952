---------------------------- MODULE SupportBundle ----------------------------
(***************************************************************************)
(* The diagnostic support bundle: the view model, busy from the command to *)
(* the result, and the worker of CreateSupportBundle, which lists the log  *)
(* files, prepares the destination, adds the files one at a time to the    *)
(* archive, and commits it.  The application goes on logging meanwhile, so *)
(* a rotation may move the files that were listed.                         *)
(*                                                                         *)
(* The archive is written beside the destination and committed as          *)
(* LocalFile describes; here preparing and committing succeed or fail, and *)
(* what other programs do to the destination is left to that module.  The  *)
(* directory is iterated a name at a time, in any order, so that a file    *)
(* that a rotation renames meanwhile may be missed, or met twice.          *)
(***************************************************************************)
EXTENDS ApplicationLogs

CONSTANTS
    Foreign,            \* a file of another program at the destination
    Bundle              \* an archive published there

VARIABLES
    worker,             \* the worker of SupportBundleWorkflow
    busy,               \* SupportBundleViewModel: busy_
    destination         \* the destination file: Missing, Foreign or an archive

bundleVars == <<worker, busy, destination>>

(* The iteration has still to come to the names of unmet, and found a file *)
(* at those of met.  rotated and before are history: whether a file moved  *)
(* since the directory was opened, and the messages the files held then.   *)
Idle == [stage |-> "idle", replace |-> FALSE, unmet |-> {}, met |-> {},
         listed |-> <<>>, count |-> 0, archive |-> <<>>, rotated |-> FALSE,
         before |-> {}]

Ended(result) == [Idle EXCEPT !.stage = result]

Results == {"succeeded", "destinationExists", "readLogsFailed",
            "writeBundleFailed", "commitFailed"}

(* SupportBundleViewModel::Start of the front end and Export of the        *)
(* presentation: a destination that exists is written over only when the   *)
(* user authorised it.                                                     *)
StartBundle(replace) ==
    /\ ~ busy
    /\ destination = Missing \/ replace
    /\ busy' = TRUE
    /\ worker' = [Idle EXCEPT !.stage = "list", !.replace = replace]
    /\ UNCHANGED <<destination, logVars>>

(* ApplicationLogFiles: the directory is opened.                           *)
OpenLogDirectory ==
    /\ worker.stage = "list"
    /\ \/ worker' = [worker EXCEPT !.stage = "iterate", !.unmet = Slots,
                                   !.before = Stored]
       \/ worker' = Ended("readLogsFailed")
    /\ UNCHANGED <<busy, destination, logVars>>

(* The iteration comes to a name; what is there is looked at, which may    *)
(* fail.                                                                   *)
MeetLog ==
    /\ worker.stage = "iterate"
    /\ \E slot \in worker.unmet :
          \/ worker' = [worker EXCEPT !.unmet = @ \ {slot},
                                      !.met = IF logs[slot] = Missing
                                              THEN @ ELSE @ \cup {slot}]
          \/ worker' = Ended("readLogsFailed")
    /\ UNCHANGED <<busy, destination, logVars>>

(* The files that were met, sorted by name: the rotations in order, then   *)
(* the active file.  Slip: the rotations only.                             *)
Sorted(names, met) ==
    FoldLeft(LAMBDA files, slot :
                IF slot \in met THEN Append(files, slot) ELSE files,
             <<>>, names)

Rotations == [i \in 1 .. MaximumFiles |-> i]

RotationsOnly(met) == Sorted(Rotations, met)

LogFiles(met) == Sorted(Append(Rotations, 0), met)

ListLogs ==
    /\ worker.stage = "iterate"
    /\ worker.unmet = {}
    /\ worker' = [worker EXCEPT !.stage = "prepare", !.met = {},
                                !.listed = LogFiles(worker.met),
                                !.count = Len(LogFiles(worker.met))]
    /\ UNCHANGED <<busy, destination, logVars>>

(* PrepareAtomicFile, and the archive opened with its environment entry.   *)
PrepareBundle ==
    /\ worker.stage = "prepare"
    /\ \/ /\ destination = Missing \/ worker.replace
          /\ worker' = [worker EXCEPT !.stage = "read"]
       \/ /\ destination # Missing /\ ~ worker.replace
          /\ worker' = Ended("destinationExists")
       \/ worker' = Ended("writeBundleFailed")
    /\ UNCHANGED <<busy, destination, logVars>>

(* WriteLogFile, for the next file listed: the first failure ends it all.  *)
ReadLog ==
    /\ worker.stage = "read"
    /\ worker.listed # <<>>
    /\ LET slot == Head(worker.listed)
       IN  \/ /\ logs[slot] # Missing
              /\ worker' = [worker EXCEPT !.listed = Tail(@),
                                          !.archive = Append(@, logs[slot])]
           \/ worker' = Ended("readLogsFailed")
           \/ worker' = Ended("writeBundleFailed")
    /\ UNCHANGED <<busy, destination, logVars>>

(* The archive is closed, and committed when nothing failed.               *)
CommitBundle ==
    /\ worker.stage = "read"
    /\ worker.listed = <<>>
    /\ \/ /\ destination = Missing \/ worker.replace
          /\ destination' = Bundle
          /\ worker' = [worker EXCEPT !.stage = "succeeded"]
       \/ /\ \E result \in Results \ {"succeeded", "readLogsFailed"} :
                worker' = Ended(result)
          /\ UNCHANGED destination
    /\ UNCHANGED <<busy, logVars>>

(* handleFinished, on the thread of the interface.                         *)
FinishBundle ==
    /\ worker.stage \in Results
    /\ busy' = FALSE
    /\ worker' = Idle
    /\ UNCHANGED <<destination, logVars>>

BundleWorker ==
    \/ OpenLogDirectory
    \/ MeetLog
    \/ ListLogs
    \/ PrepareBundle
    \/ ReadLog
    \/ CommitBundle

(* A step of the sink while the worker lists the files or has listed them. *)
Watched(rotation) ==
    /\ rotation
    /\ worker' = IF worker.stage \in {"iterate", "prepare", "read"}
                 THEN [worker EXCEPT !.rotated = TRUE]
                 ELSE worker
    /\ UNCHANGED <<busy, destination>>

-----------------------------------------------------------------------------
(* A published bundle has an entry for each log file its receipt counts,   *)
(* and, unless a rotation moved the files under it, every message that was *)
(* in the files when the directory was opened, each once.                  *)
BundleIsComplete ==
    worker.stage = "succeeded" =>
       /\ Len(worker.archive) = worker.count
       /\ ~ worker.rotated =>
             /\ \A m \in worker.before :
                   \E i \in DOMAIN worker.archive :
                      m \in Messages(worker.archive[i])
             /\ \A i, j \in DOMAIN worker.archive :
                   i # j => Messages(worker.archive[i])
                               \cap Messages(worker.archive[j]) = {}
=============================================================================
