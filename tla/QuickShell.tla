----------------------------- MODULE QuickShell -----------------------------
(***************************************************************************)
(* The shell of the Quick front end over the life of its processes: it     *)
(* opens timelines, asks for a missing frame rate, exports spreadsheets,   *)
(* creates support bundles, and refuses to close while any of them runs.   *)
(* The application logs all along, on any thread, and may be killed at any *)
(* point and launched again over the files it left.                        *)
(*                                                                         *)
(* What an import or an export does is the matter of DocumentSession; here *)
(* it runs and ends.                                                       *)
(***************************************************************************)
EXTENDS SupportBundle

VARIABLES
    running,            \* a process runs
    document,           \* TimelineDocumentViewModel: the state of the document
    requested,          \* requested_frame_rate_ has a value
    question,           \* the question about the frame rate is open
    exporting           \* TimelineDocumentViewModel: an export runs

shellVars == <<running, document, requested, question, exporting>>

vars == <<logVars, bundleVars, shellVars>>

IsDocumentBusy == document = "importing" \/ exporting

(* Slip: only the document is asked.                                       *)
IsBusyWithDocument == IsDocumentBusy

IsBusy == IsDocumentBusy \/ busy

(* The log directory is empty, or full, with a file in a slot that is no   *)
(* longer used: messages of earlier processes are numbered from 0 down.    *)
Init ==
    /\ running = FALSE
    /\ document = "empty"
    /\ requested = FALSE
    /\ question = FALSE
    /\ exporting = FALSE
    /\ worker = Idle
    /\ busy = FALSE
    /\ destination \in {Missing, Foreign}
    /\ logs \in {[slot \in Slots |-> Missing],
                 [slot \in Slots |-> <<[id |-> -slot, size |-> 1]>>]}
    /\ sink = Off
    /\ written = 0

(* main: logging is initialised before the window is made.                 *)
Launch ==
    /\ ~ running
    /\ InitializeLogging
    /\ running' = TRUE
    /\ UNCHANGED <<document, requested, question, exporting,
                   bundleVars>>

(* The process ends: the sink and the worker go with it, the files stay.   *)
End ==
    /\ running' = FALSE
    /\ sink' = Off
    /\ worker' = Idle
    /\ busy' = FALSE
    /\ document' = "empty"
    /\ requested' = FALSE
    /\ question' = FALSE
    /\ exporting' = FALSE
    /\ UNCHANGED <<logs, written, destination>>

(* RequestClose, asked by the window before it closes.                     *)
Close ==
    /\ running
    /\ ~ IsBusy
    /\ End

Crash == running /\ End

-----------------------------------------------------------------------------
(* StartImport: what was asked for is remembered once the import runs.     *)
StartImport(rate) ==
    /\ document' = "importing"
    /\ requested' = rate
    /\ question' = FALSE
    /\ UNCHANGED <<running, exporting, logVars, bundleVars>>

OpenPath ==
    /\ running
    /\ ~ IsBusy
    /\ StartImport(FALSE)

(* RetryWithFrameRate, with the path of the import that failed.            *)
RetryWithFrameRate ==
    /\ running
    /\ document = "failed"
    /\ question
    /\ ~ IsBusy
    /\ StartImport(TRUE)

DismissQuestion ==
    /\ question
    /\ question' = FALSE
    /\ UNCHANGED <<running, document, requested, exporting,
                   logVars, bundleVars>>

(* handleDocumentStateChanged: the frame rate is asked for only when the   *)
(* import failed for want of one and none was given.                       *)
FinishImport ==
    /\ running
    /\ document = "importing"
    /\ \/ document' = "ready" /\ UNCHANGED question
       \/ \E missing \in BOOLEAN :
             /\ document' = "failed"
             /\ question' = (missing /\ ~ requested)
    /\ UNCHANGED <<running, requested, exporting, logVars, bundleVars>>

StartExport ==
    /\ running
    /\ document = "ready"
    /\ ~ IsDocumentBusy
    /\ exporting' = TRUE
    /\ UNCHANGED <<running, document, requested, question,
                   logVars, bundleVars>>

FinishExport ==
    /\ running
    /\ exporting
    /\ exporting' = FALSE
    /\ UNCHANGED <<running, document, requested, question,
                   logVars, bundleVars>>

-----------------------------------------------------------------------------
(* Any thread logs, at any time; one message at a time goes to the sink.   *)
LogMessage ==
    /\ running
    /\ \E size \in Sizes : Log(size)
    /\ UNCHANGED <<bundleVars, shellVars>>

RotateStep ==
    /\ running
    /\ Watched(RemoveLast \/ Shift \/ OpenActive)
    /\ UNCHANGED shellVars

BundleCommand ==
    /\ running
    /\ \E replace \in BOOLEAN : StartBundle(replace)
    /\ UNCHANGED shellVars

BundleStep ==
    /\ running
    /\ BundleWorker \/ FinishBundle
    /\ UNCHANGED shellVars

Next ==
    \/ Launch
    \/ Close
    \/ Crash
    \/ OpenPath
    \/ RetryWithFrameRate
    \/ DismissQuestion
    \/ FinishImport
    \/ StartExport
    \/ FinishExport
    \/ LogMessage
    \/ RotateStep
    \/ BundleCommand
    \/ BundleStep

Spec == Init /\ [][Next]_vars

-----------------------------------------------------------------------------
(* A window that closes at the user's request leaves nothing behind that   *)
(* was still running: no import, no export, and no worker writing a bundle *)
(* whose archive would be cut short.                                       *)
CloseLeavesNothingRunning ==
    [][Close => document # "importing" /\ ~ exporting /\ worker.stage = "idle"]_vars

(* Whatever fails on the way, the log files never lose a message while an  *)
(* older one is kept: a rotation, or a rotation that failed and is tried   *)
(* again, gives up the oldest messages only.  Pruning at launch is the     *)
(* exception: it removes what is expired, file by file, and may fail after *)
(* any of them.                                                            *)
OnlyTheOldestIsLost ==
    [][\/ Launch
       \/ \A lost \in Stored \ Stored', kept \in Stored' : lost < kept]_vars
=============================================================================
