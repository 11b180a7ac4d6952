-------------------------- MODULE DocumentSession --------------------------
(***************************************************************************)
(* One document window: TimelineDocumentViewModel and the workflow it owns *)
(* (src/presentation).  Imports and exports run on worker threads; every   *)
(* other step runs on the GUI thread, which takes events one at a time     *)
(* from its queue.  A worker talks to the GUI thread through that queue    *)
(* alone: the progress calls it posts and, last, the watcher's finished    *)
(* event.  Its future stops being "running" when that event is posted, not *)
(* when it is handled.                                                     *)
(*                                                                         *)
(* The frontends may call any public operation between two events.  What   *)
(* a worker reads or decodes is nondeterministic here; FrameExtraction     *)
(* models the export worker's own loop.                                    *)
(***************************************************************************)
EXTENDS Naturals, Sequences, FiniteSets

CONSTANTS
  Documents,      \* timelines that can be imported, named by their path
  Events,         \* the events of the documents
  Queries,        \* filter queries
  InvalidQueries, \* those whose regular expression does not compile
  DefaultQuery,   \* the empty query
  Matching,       \* the events of a document that satisfy a valid query
  Projections,    \* valid export projections
  ImageProjections, \* those with the Initial Frame column
  DefaultProjection,
  MaxExports,     \* bound: exports started by one window
  None

ASSUME DocumentSessionAssumption ==
  /\ Matching \in [Documents -> [Queries -> SUBSET Events]]
  /\ IsFiniteSet(Events)
  /\ InvalidQueries \subseteq Queries
  /\ DefaultQuery \in Queries \ InvalidQueries
  /\ ImageProjections \subseteq Projections
  /\ DefaultProjection \in Projections
  /\ MaxExports \in Nat
  /\ None \notin Documents

VARIABLES
  docState,      \* document_state_
  document,      \* document_, or None
  failure,       \* the path in import_failure_, or None
  query,         \* filter_query_
  selection,     \* event_selection_
  filterError,   \* whether filter_error_ is set
  projection,    \* event_projection_
  exportState,   \* export_state_
  exportResult,  \* export_result_, or None
  extracted,     \* extracted_frame_count_
  total,         \* total_frame_count_
  importTask,    \* the future of import_watcher_
  exportTask,    \* the future of rendered_video_export_watcher_
  stopSource,    \* rendered_video_export_stop_source_, numbered
  stopped,       \* the stop sources a stop was requested on
  queue,         \* the GUI thread's pending events
  window,        \* "open", "closing" (in the destructor) or "closed"
  cancelAsked    \* history: CancelExport was called during the current export

docVars == <<docState, document, failure>>
filterVars == <<query, selection, filterError>>
countVars == <<extracted, total>>
exportVars == <<exportState, exportResult, extracted, total>>
stopVars == <<stopSource, stopped, cancelAsked>>
vars == <<docVars, filterVars, projection, exportVars, importTask, exportTask,
          stopVars, queue, window>>

NoImport == [state |-> "idle", path |-> None, outcome |-> "none"]

NoExport == [state |-> "idle", document |-> None, selection |-> {},
             images |-> FALSE, token |-> 0, done |-> 0, outcome |-> "none"]

ImportRunning == importTask.state = "running"

ExportRunning == exportTask.state \notin {"idle", "finished"}

(* TimelineDocumentWorkflow::IsBusy asks the futures. *)
WorkflowBusy == ImportRunning \/ ExportRunning

(* Mutation: only the futures are asked. *)
IsBusyByFutures == WorkflowBusy

IsBusy ==
  \/ docState = "kImporting"
  \/ exportState = "kExporting"
  \/ WorkflowBusy

CanExport == docState = "kReady" /\ ~IsBusy /\ ~filterError

(* FilterTimelineEvents. *)
FilterFails(q) == q \in InvalidQueries

(* What ApplyFilter stores for a document, or for none. *)
Selected(d, q) == IF d = None \/ FilterFails(q) THEN {} ELSE Matching[d][q]

Rejected(d, q) == d # None /\ FilterFails(q)

Init ==
  /\ docState = "kEmpty" /\ document = None /\ failure = None
  /\ query = DefaultQuery /\ selection = {} /\ filterError = FALSE
  /\ projection = DefaultProjection
  /\ exportState = "kIdle" /\ exportResult = None
  /\ extracted = 0 /\ total = 0
  /\ importTask = NoImport /\ exportTask = NoExport
  /\ stopSource = 0 /\ stopped = {} /\ cancelAsked = FALSE
  /\ queue = <<>>
  /\ window = "open"

-----------------------------------------------------------------------------
(* The GUI thread. *)

(* Mutation: a query that does not compile leaves the last selection. *)
ApplyFilterIfValid(d, q) ==
  /\ selection' = IF Rejected(d, q) THEN selection ELSE Selected(d, q)
  /\ filterError' = Rejected(d, q)

ApplyFilter(d, q) ==
  /\ selection' = Selected(d, q)
  /\ filterError' = Rejected(d, q)

(* Mutations: a member that is not reset. *)
KeepFailure == UNCHANGED failure
KeepResult == UNCHANGED exportResult
KeepCounts == UNCHANGED countVars

ForgetFailure == failure' = None
ForgetResult == exportResult' = None
ResetCounts == extracted' = 0 /\ total' = 0

ResetDocument ==
  /\ document' = None /\ ForgetFailure
  /\ query' = DefaultQuery /\ selection' = {} /\ filterError' = FALSE
  /\ ForgetResult /\ ResetCounts

(* A watcher given a new future forgets the events of the one it had. *)
Forget(type) ==
  IF \E i \in 1..Len(queue) : queue[i].type = type
    THEN SelectSeq(queue, LAMBDA e : e.type # type)
    ELSE queue

Import(path) ==
  /\ window = "open" /\ ~IsBusy
  /\ ResetDocument
  /\ docState' = "kImporting"
  /\ importTask' = [state |-> "running", path |-> path, outcome |-> "none"]
  /\ queue' = Forget("importFinished")
  /\ UNCHANGED <<projection, exportState, exportTask, stopVars, window>>

Clear ==
  /\ window = "open" /\ ~IsBusy
  /\ ResetDocument
  /\ docState' = "kEmpty"
  /\ UNCHANGED <<projection, exportState, importTask, exportTask, stopVars,
                 queue, window>>

(* Allowed at any time: during an import the query waits for the document, *)
(* during an export the request already holds its own selection.           *)
SetFilterQuery(q) ==
  /\ window = "open" /\ query # q
  /\ query' = q
  /\ ApplyFilter(document, q)
  /\ UNCHANGED <<docVars, projection, exportVars, importTask, exportTask,
                 stopVars, queue, window>>

SetEventProjection(p) ==
  /\ window = "open" /\ projection # p
  /\ projection' = p
  /\ UNCHANGED <<docVars, filterVars, exportVars, importTask, exportTask,
                 stopVars, queue, window>>

(* Mutation: the stop source of the previous export is used again. *)
SameStopSource == stopSource' = IF stopSource = 0 THEN 1 ELSE stopSource

NextStopSource == stopSource' = stopSource + 1

(* ExportWithRenderedVideo replaces the stop source: the token of the new  *)
(* job is nobody else's.                                                   *)
StartExportTask ==
  /\ stopSource < MaxExports
  /\ NextStopSource
  /\ UNCHANGED stopped
  /\ exportTask' = [state |-> "starting", document |-> document,
                    selection |-> selection,
                    images |-> projection \in ImageProjections,
                    token |-> stopSource', done |-> 0, outcome |-> "none"]
  /\ queue' = Forget("exportFinished")

Export ==
  /\ window = "open"
  /\ ~IsBusy /\ document # None /\ ~filterError
  /\ ForgetResult /\ ResetCounts
  /\ exportState' = "kExporting"
  /\ cancelAsked' = FALSE
  /\ StartExportTask
  /\ UNCHANGED <<docVars, filterVars, projection, importTask, window>>

(* Mutation: the request goes to a copy of the stop source. *)
RequestNoStop == UNCHANGED stopped

RequestStop == stopped' = stopped \cup {stopSource}

(* May come with no export under way: closing the progress dialog of a     *)
(* finished export calls it too.                                           *)
CancelExport ==
  /\ window = "open"
  /\ RequestStop
  /\ cancelAsked' = (cancelAsked \/ ExportRunning)
  /\ UNCHANGED <<docVars, filterVars, projection, exportVars, importTask,
                 exportTask, stopSource, queue, window>>

HandleImportFinished ==
  /\ window = "open" /\ queue # <<>> /\ Head(queue).type = "importFinished"
  /\ queue' = Tail(queue)
  /\ \/ /\ importTask.outcome = "failed"
        /\ failure' = importTask.path
        /\ docState' = "kImportFailed"
        /\ UNCHANGED <<document, selection, filterError>>
     \/ /\ importTask.outcome = "imported"
        /\ document' = importTask.path
        /\ ApplyFilter(importTask.path, query)
        /\ docState' = "kReady"
        /\ UNCHANGED failure
  /\ UNCHANGED <<query, projection, exportVars, importTask, exportTask,
                 stopVars, window>>

HandleProgress ==
  /\ window = "open" /\ queue # <<>> /\ Head(queue).type = "progress"
  /\ queue' = Tail(queue)
  /\ extracted' = Head(queue).completed
  /\ total' = Head(queue).total
  /\ UNCHANGED <<docVars, filterVars, projection, exportState, exportResult,
                 importTask, exportTask, stopVars, window>>

(* Mutation: the result of a cancelled export does not end it. *)
EndUncancelledExport ==
  exportState' = IF exportTask.outcome = "cancelled" THEN "kExporting"
                                                    ELSE "kIdle"

EndExport == exportState' = "kIdle"

HandleExportFinished ==
  /\ window = "open" /\ queue # <<>> /\ Head(queue).type = "exportFinished"
  /\ queue' = Tail(queue)
  /\ exportResult' = [kind |-> exportTask.outcome,
                      document |-> exportTask.document,
                      selection |-> exportTask.selection]
  /\ EndExport
  /\ UNCHANGED <<docVars, filterVars, projection, countVars, importTask,
                 exportTask, stopVars, window>>

(* The window is destroyed: the workflow's destructor stops the export and *)
(* blocks the GUI thread until the workers have returned.                  *)
BeginDestruction ==
  /\ window = "open"
  /\ window' = "closing"
  /\ RequestStop
  /\ UNCHANGED <<docVars, filterVars, projection, exportVars, importTask,
                 exportTask, stopSource, cancelAsked, queue>>

(* Mutation: the destructor waits for states that its own thread would set. *)
WindowIsIdle == ~IsBusy

WorkersReturned == ~WorkflowBusy

EndDestruction ==
  /\ window = "closing" /\ WorkersReturned
  /\ window' = "closed"
  /\ queue' = <<>>
  /\ UNCHANGED <<docVars, filterVars, projection, exportVars, importTask,
                 exportTask, stopVars>>

-----------------------------------------------------------------------------
(* The worker threads. *)

guiVars == <<docVars, filterVars, projection, exportVars, stopVars, window>>

Post(e) == queue' = Append(queue, e)

ImportWorkerReturns ==
  /\ ImportRunning
  /\ \E o \in {"imported", "failed"} :
       importTask' = [importTask EXCEPT !.state = "finished", !.outcome = o]
  /\ Post([type |-> "importFinished"])
  /\ UNCHANGED <<guiVars, exportTask>>

StopRequested == exportTask.token \in stopped

ExportReturns(o) ==
  /\ exportTask' = [exportTask EXCEPT !.state = "finished", !.outcome = o]
  /\ Post([type |-> "exportFinished"])
  /\ UNCHANGED <<guiVars, importTask>>

ExportGoesTo(s) ==
  /\ exportTask' = [exportTask EXCEPT !.state = s]
  /\ UNCHANGED <<guiVars, importTask, queue>>

Progress(completed) ==
  [type |-> "progress", completed |-> completed,
   total |-> Cardinality(exportTask.selection)]

(* Without the Initial Frame column the worker goes straight to writing;   *)
(* with it, it polls the token, inspects the video and reports no frames.  *)
ExportWorkerStarts ==
  /\ exportTask.state = "starting"
  /\ \/ ~exportTask.images /\ ExportGoesTo("writing")
     \/ /\ exportTask.images /\ ~StopRequested
        /\ ExportGoesTo("inspecting")

ExportWorkerInspects ==
  /\ exportTask.state = "inspecting"
  /\ exportTask' = [exportTask EXCEPT !.state = "extracting"]
  /\ Post(Progress(0))
  /\ UNCHANGED <<guiVars, importTask>>

(* The token is polled before each frame, and once more after the last. *)
ExportWorkerPolls ==
  /\ exportTask.state = "extracting" /\ ~StopRequested
  /\ ExportGoesTo(IF exportTask.done = Cardinality(exportTask.selection)
                  THEN "writing" ELSE "reading")

(* One frame serves every event that starts on it. *)
ExportWorkerReads ==
  /\ exportTask.state = "reading"
  /\ \E done \in 1..Cardinality(exportTask.selection) :
       /\ done > exportTask.done
       /\ exportTask' = [exportTask EXCEPT !.done = done, !.state = "extracting"]
       /\ Post(Progress(done))
  /\ UNCHANGED <<guiVars, importTask>>

ExportWorkerIsCancelled ==
  /\ exportTask.images /\ StopRequested
  /\ exportTask.state \in {"starting", "extracting", "reading"}
  /\ ExportReturns("cancelled")

ExportWorkerFails ==
  /\ ExportRunning
  /\ ExportReturns("failed")

ExportWorkerWrites ==
  /\ exportTask.state = "writing"
  /\ ExportReturns("receipt")

-----------------------------------------------------------------------------

UserStep ==
  \/ \E path \in Documents : Import(path)
  \/ Clear
  \/ \E q \in Queries : SetFilterQuery(q)
  \/ \E p \in Projections : SetEventProjection(p)
  \/ Export
  \/ CancelExport
  \/ BeginDestruction

GuiStep ==
  \/ HandleImportFinished
  \/ HandleProgress
  \/ HandleExportFinished
  \/ EndDestruction

ExportWorkerStep ==
  \/ ExportWorkerStarts
  \/ ExportWorkerInspects
  \/ ExportWorkerPolls
  \/ ExportWorkerReads
  \/ ExportWorkerIsCancelled
  \/ ExportWorkerFails
  \/ ExportWorkerWrites

Next == UserStep \/ GuiStep \/ ImportWorkerReturns \/ ExportWorkerStep

Spec == Init /\ [][Next]_vars

(* The event loop runs and so do the pool's threads; nobody has to press a *)
(* button.                                                                 *)
FairSpec ==
  /\ Spec
  /\ WF_vars(GuiStep)
  /\ WF_vars(ImportWorkerReturns)
  /\ WF_vars(ExportWorkerStep)

-----------------------------------------------------------------------------

ExportStates == {"idle", "starting", "inspecting", "extracting", "reading",
                 "writing", "finished"}

Outcomes == {"none", "receipt", "failed", "cancelled"}

GuiEvents ==
  [type : {"importFinished", "exportFinished"}]
    \cup [type : {"progress"}, completed : Nat, total : Nat]

ExportResults ==
  [kind : Outcomes, document : Documents \cup {None}, selection : SUBSET Events]

ImportTasks ==
  [state : {"idle", "running", "finished"}, path : Documents \cup {None},
   outcome : {"none", "imported", "failed"}]

ExportTasks ==
  [state : ExportStates, document : Documents \cup {None},
   selection : SUBSET Events, images : BOOLEAN, token : Nat, done : Nat,
   outcome : Outcomes]

(* Every variable has its type. (TimelineDocumentViewModel and             *)
(* TimelineDocumentWorkflow members)                                       *)
TypeOK ==
  /\ docState \in {"kEmpty", "kImporting", "kReady", "kImportFailed"}
  /\ document \in Documents \cup {None}
  /\ failure \in Documents \cup {None}
  /\ query \in Queries
  /\ selection \in SUBSET Events
  /\ filterError \in BOOLEAN
  /\ projection \in Projections
  /\ exportState \in {"kIdle", "kExporting"}
  /\ exportResult \in ExportResults \cup {None}
  /\ extracted \in Nat /\ total \in Nat
  /\ importTask \in ImportTasks
  /\ exportTask \in ExportTasks
  /\ stopSource \in 0..MaxExports
  /\ stopped \subseteq Nat
  /\ queue \in Seq(GuiEvents)
  /\ window \in {"open", "closing", "closed"}
  /\ cancelAsked \in BOOLEAN

(* At most one operation is in flight, and the window knows it: a window   *)
(* that shows an import or an export as under way has either its worker    *)
(* running or exactly that worker's finished event still to handle, and    *)
(* one that shows neither has nothing left to hear of.  The gap between a  *)
(* future that has finished and its event is where a second operation      *)
(* would slip in. (IsBusy and the two finished handlers)                   *)
CompletionIsPending ==
  window # "closed" =>
    /\ ~(docState = "kImporting" /\ exportState = "kExporting")
    /\ docState = "kImporting" =>
         \/ ImportRunning /\ queue = <<>>
         \/ ~ImportRunning /\ queue = << [type |-> "importFinished"] >>
    /\ exportState = "kExporting" =>
         /\ ExportRunning \/ queue # <<>>
         /\ \A i \in 1..Len(queue) :
              queue[i].type = IF i = Len(queue) /\ ~ExportRunning
                              THEN "exportFinished" ELSE "progress"
    /\ ~IsBusy => queue = <<>>

(* The counts shown are those of the export under way, and never go back:  *)
(* the shown count, the counts still queued and the worker's own count     *)
(* are in order, and the total is the size of the exported selection.      *)
(* (the queued progress calls against Export's reset)                      *)
ProgressIsCurrent ==
  window # "closed" /\ exportState = "kExporting" =>
    /\ \A i \in 1..Len(queue) :
         queue[i].type = "progress" =>
           /\ extracted <= queue[i].completed
           /\ queue[i].completed <= exportTask.done
           /\ queue[i].total = Cardinality(exportTask.selection)
           /\ \A j \in 1..i :
                queue[j].type = "progress" =>
                  queue[j].completed <= queue[i].completed
    /\ extracted <= exportTask.done
    /\ total \in {0, Cardinality(exportTask.selection)}

(* What the window shows is what its query selects in its document, even   *)
(* when the query was edited while the document was being imported.        *)
(* (SetFilterQuery, handleImportFinished, ResetDocument)                   *)
SelectionMatchesQuery ==
  /\ selection = Selected(document, query)
  /\ filterError = Rejected(document, query)

(* The document, the failure and the state agree between two events, so    *)
(* the commands the frontends enable by CanExport are never refused.       *)
(* (CanExport against the guards of Export)                                *)
StateMatchesDocument ==
  /\ docState = "kReady" <=> document # None
  /\ docState = "kImportFailed" <=> failure # None
  /\ CanExport => document # None

(* A result on show is about the document on show: importing or clearing   *)
(* forgets it, and nothing replaces the document while an export is under  *)
(* way. (ResetDocument, handleExportFinished)                              *)
ResultBelongsToDocument ==
  /\ exportResult # None =>
       exportState = "kIdle" /\ exportResult.document = document
  /\ exportState = "kExporting" => exportTask.document = document

(* An export ends as cancelled only if it was cancelled itself: a request  *)
(* that came after the previous export, or between the two, is not         *)
(* inherited. (the stop source of ExportWithRenderedVideo)                 *)
CancelReachesItsExport ==
  window = "open" /\ exportTask.outcome = "cancelled" => cancelAsked

(* What makes them inductive: a task runs only for a window that shows it, *)
(* has its outcome when it has finished, and holds the token of the        *)
(* current stop source; no result is on show during an import.             *)
TasksFitTheWindow ==
  /\ ImportRunning => docState = "kImporting"
  /\ ExportRunning => exportState = "kExporting"
  /\ docState = "kImporting" =>
       /\ importTask.path \in Documents
       /\ importTask.state # "idle"
       /\ ~ImportRunning => importTask.outcome # "none"
       /\ exportResult = None /\ exportState = "kIdle"
  /\ exportState = "kExporting" => docState = "kReady"
  /\ window = "closed" => ~WorkflowBusy

TokenIsCurrent ==
  /\ \A n \in stopped : n <= stopSource
  /\ ExportRunning => exportTask.token = stopSource
  /\ window = "open" /\ ExportRunning /\ stopSource \in stopped => cancelAsked
  /\ ExportRunning => exportTask.outcome = "none"

IInv ==
  /\ TypeOK
  /\ CompletionIsPending
  /\ SelectionMatchesQuery
  /\ StateMatchesDocument
  /\ ResultBelongsToDocument
  /\ CancelReachesItsExport
  /\ TasksFitTheWindow
  /\ TokenIsCurrent

(* Closing the window abandons an extraction: no workbook is written by an *)
(* export that had still frames to read. (~TimelineDocumentWorkflow)       *)
ClosingStopsExtraction ==
  [][window = "closing" /\ exportTask.images
       /\ exportTask.state \in {"starting", "extracting"} =>
         exportTask'.state \notin {"reading", "writing"}]_vars

(* Every import and every export is eventually over for its window.        *)
OperationsEnd ==
  (docState = "kImporting" \/ exportState = "kExporting") ~>
    (window # "open" \/ (docState # "kImporting" /\ exportState = "kIdle"))

(* The destructor returns. *)
DestructionEnds == window = "closing" ~> window = "closed"
=============================================================================
