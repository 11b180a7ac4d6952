---------------------- MODULE FrameExtractionRefinement ----------------------
(***************************************************************************)
(* The detailed export worker does nothing that the worker of              *)
(* DocumentSession does not: seen through the window that started it, with *)
(* its document and its selection, every step of the extraction is a step  *)
(* of the session's export worker, a CancelExport, or invisible, and posts *)
(* the same events in the same order.  The GUI thread takes none of them   *)
(* here, so the queue keeps all the reports.                               *)
(***************************************************************************)
EXTENDS FrameExtraction

WorkerState ==
  IF pc = "grouping" THEN "inspecting" ELSE pc

WorkerOutcome ==
  CASE outcome \in {"none", "receipt"} -> outcome
    [] outcome = "kCancelled" -> "cancelled"
    [] outcome \notin {"none", "receipt", "kCancelled"} -> "failed"

Worker ==
  [state |-> WorkerState, document |-> reference, selection |-> selection,
   images |-> images, token |-> 1, done |-> Cardinality(DOMAIN frames),
   outcome |-> WorkerOutcome]

PostedReport(r) ==
  [type |-> "progress", completed |-> r.events, total |-> r.totalEvents]

Posted ==
  [i \in 1..Len(reports) |-> PostedReport(reports[i])]
    \o (IF Running THEN <<>> ELSE << [type |-> "exportFinished"] >>)

Session == INSTANCE DocumentSession WITH
  Documents <- Timelines, Events <- UNION {DOMAIN t : t \in Timelines},
  Queries <- {"all"}, InvalidQueries <- {}, DefaultQuery <- "all",
  Matching <- [t \in Timelines |-> [q \in {"all"} |-> DOMAIN t]],
  Projections <- {"plain", "framed"}, ImageProjections <- {"framed"},
  DefaultProjection <- "plain", MaxExports <- 1, None <- NoVideo,
  docState <- "kReady", document <- reference, failure <- NoVideo,
  query <- "all", filterError <- FALSE,
  projection <- IF images THEN "framed" ELSE "plain",
  exportState <- "kExporting", exportResult <- NoVideo,
  extracted <- 0, total <- 0,
  importTask <- [state |-> "finished", path |-> reference,
                 outcome |-> "imported"],
  exportTask <- Worker, stopSource <- 1,
  stopped <- IF stop THEN {1} ELSE {}, cancelAsked <- stop,
  queue <- Posted, window <- "open"

(* The session's coarser worker allows every step of the extraction: the   *)
(* order of its polls, its progress calls and its return.                  *)
(* (TimelineDocumentWorkflow::ExportWithRenderedVideo runs Export.)        *)
ImplementsSessionWorker == [][Session!Next]_(Session!vars)
=============================================================================
