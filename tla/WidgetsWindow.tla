---------------------------- MODULE WidgetsWindow ----------------------------
(***************************************************************************)
(* The window of the Widgets front end: TimelineDocumentController and     *)
(* TimelineTemplateController, which listen to the view models and write   *)
(* to one view (TimelineDocumentView with its TimelineFilterWidget) and to *)
(* the menu bar, and MainWindow, which hands the busy state of either      *)
(* controller to all of them.  No flag stops a listener here: each writes  *)
(* what it was told, and the copies must agree when the last one returns.  *)
(*                                                                         *)
(* A question to the user is a nested event loop inside a handler.  It is  *)
(* modal, so that only its answer, and other programs, act while it is     *)
(* open.  A step is one event of the main loop; the two questions during   *)
(* which something else changes, or whose handler goes on afterwards, are  *)
(* steps of their own, the others are part of the command that asks.       *)
(*                                                                         *)
(* The workers of the document and of the support bundle run and end; what *)
(* they do is the matter of DocumentSession and of SupportBundle.          *)
(***************************************************************************)
EXTENDS Configuration

CONSTANTS
    Projections,        \* the columns the user may choose
    MaxRows,            \* bound: the conditions the user may add
    MaxCommands         \* bound: the template commands the service accepts

VARIABLES
    window,             \* view models, view and menu, see Init
    dialog,             \* the question that is open, with what was read before
    export,             \* the export that runs, with what authorised it
    bundle,             \* a support bundle is being written
    file,               \* a file exists at the destination
    commands            \* accepted template commands, only to bound the runs

vars == <<window, dialog, export, bundle, file, commands>>

Ignored(w) == w

Templates == INSTANCE TemplateViewModel WITH
                FilterStateChanged <- Ignored, EventProjectionChanged <- Ignored

Query(w) == QueryOf(w.rows, w.combination)

-----------------------------------------------------------------------------
(* The view.                                                               *)

(* TimelineFilterWidget::SetTemplates: what the template panel shows.      *)
SetTemplates(catalog, active, modified) ==
    [identifiers |-> {i \in DOMAIN catalog : catalog[i] # NoTemplate},
     active      |-> IF active # NoTemplate /\ catalog[active] # NoTemplate
                     THEN active ELSE NoTemplate,
     modified    |-> modified]

RefreshTemplateState(w) ==
    [w EXCEPT !.panel = SetTemplates(w.catalog, w.active, w.modified)]

(* The count of the events in all is read from the document the view was   *)
(* given.  readGone is history: it was, after that document was reset.     *)
SetVisibleEventCount(w) ==
    [w EXCEPT !.readGone = @ \/ (w.timeline /\ ~ w.document.loaded)]

(* Listener of filterChanged: the document's error and query go to the     *)
(* view, the menu and the template view model.                             *)
HandleFilterChanged(w) ==
    LET valid == ~ w.document.error
        seen == SetVisibleEventCount([w EXCEPT !.filterValid = valid,
                                               !.menu.export = valid])
    IN  RefreshTemplateState(
            Templates!SetFilterState(seen, seen.document.query, valid))

Document == INSTANCE DocumentFilter WITH FilterChanged <- HandleFilterChanged

(* Listener of the filter widget's queryChanged.                           *)
applyFilter(w) == Document!SetFilterQuery(w, Query(w))

(* The rows of the filter model change, and the row widgets follow its     *)
(* signals: all are built again, or the ones concerned added, removed or   *)
(* filled.  What is read from them is applied when it changed.             *)
EditRows(w, rows, combination) ==
    [w EXCEPT !.rows = rows, !.combination = combination,
              !.editors = [i \in DOMAIN rows |->
                              IF i \in DOMAIN w.editors /\ w.rows[i] = rows[i]
                              THEN w.editors[i] ELSE rows[i]]]

Edited(w, rows, combination) ==
    LET edited == EditRows(w, rows, combination)
    IN  IF Query(edited) = Query(w) THEN edited ELSE applyFilter(edited)

SetFilterQuery(w, query) == Edited(w, RowsOf(query), query.combination)

(* TimelineDocumentView::Clear: the widget's signals are blocked while its *)
(* filter is cleared.                                                      *)
ClearView(w) ==
    [EditRows(w, <<DefaultRow>>, "all") EXCEPT
        !.timeline = FALSE, !.filterValid = TRUE, !.page = "empty"]

SetBusy(w, busy) == [w EXCEPT !.busy = busy]

(* UpdateControls, and the widgets it enables.                             *)
FilterIsEnabled(w) == ~ w.busy /\ w.timeline

-----------------------------------------------------------------------------
(* The handlers of the two controllers.                                    *)

RestoreForTimeline(w) ==
    LET restored == Templates!RestoreForTimeline(w)
    IN  RefreshTemplateState(SetFilterQuery(restored, restored.filter))

ClearTimeline(w) ==
    RestoreForTimeline(ClearView([w EXCEPT !.menu = [document |-> FALSE,
                                                     export |-> TRUE]]))

(* What was asked for is remembered once the import runs.                  *)
StartImport(w, rate) ==
    [SetBusy(ClearTimeline([Document!Import(w) EXCEPT !.requested = rate]), TRUE)
        EXCEPT !.page = "loading"]

ShowImportFailure(w) == [w EXCEPT !.timeline = FALSE, !.page = "failure"]

ShowTimeline(w) == [w EXCEPT !.timeline = TRUE, !.page = "timeline"]

(* handleDocumentStateChanged for a document that is ready.                *)
DocumentReady(w) ==
    [HandleFilterChanged(ShowTimeline(SetBusy(w, FALSE)))
        EXCEPT !.menu.document = TRUE]

(* Slip: the rows being edited are left as they are.                       *)
ApplyToModelsOnly(w, identifier) ==
    RefreshTemplateState(
        IF identifier = NoTemplate
        THEN Templates!SelectNoTemplate(w)
        ELSE Templates!SelectTemplate(w, identifier))

applyTemplate(w, identifier) ==
    LET applied == IF identifier = NoTemplate
                   THEN Templates!SelectNoTemplate(w)
                   ELSE Templates!SelectTemplate(w, identifier)
    IN  RefreshTemplateState(SetFilterQuery(applied, applied.filter))

SetEventProjection(w, projection) ==
    RefreshTemplateState(Templates!SetEventProjection(w, projection))

-----------------------------------------------------------------------------
(* changes, asked and written are history: what other programs did to the  *)
(* destination between the two looks at it, whether the user was asked,    *)
(* and what the worker did to it.                                          *)
NoDialog == [kind |-> "none", replace |-> FALSE, changes |-> {}]

NoExport == [runs |-> FALSE, replace |-> FALSE, changes |-> {},
             asked |-> FALSE, written |-> "nothing"]

(* The main loop serves the user only while no question is open.           *)
Idle == dialog = NoDialog

Init ==
    /\ \E catalog \in InitialCatalogs :
          window = RefreshTemplateState(Templates!RefreshTemplateModel(
             [catalog     |-> catalog,
              active      |-> NoTemplate,
              filter      |-> NoFilter,
              valid       |-> TRUE,
              projection  |-> DefaultEventProjection,
              modified    |-> FALSE,
              shown       |-> NoTemplate,
              rows        |-> <<DefaultRow>>,
              combination |-> "all",
              editors     |-> <<DefaultRow>>,
              document    |-> Document!EmptyDocument,
              panel       |-> NoTemplate,
              timeline    |-> FALSE,
              filterValid |-> TRUE,
              page        |-> "empty",
              menu        |-> [document |-> FALSE, export |-> TRUE],
              busy        |-> FALSE,
              requested   |-> FALSE,
              readGone    |-> FALSE]))
    /\ dialog = NoDialog
    /\ export = NoExport
    /\ bundle = FALSE
    /\ file \in BOOLEAN
    /\ commands = 0

UNCHANGEDButWindow == UNCHANGED <<dialog, export, bundle, file, commands>>

(* The user edits the filter of the timeline shown.                        *)
EditFilter ==
    /\ Idle
    /\ FilterIsEnabled(window)
    /\ \/ \E row \in DOMAIN window.rows :
             \E value \in SetData(window.rows[row]) :
                window' = Edited(window, [window.rows EXCEPT ![row] = value],
                                 window.combination)
       \/ /\ Len(window.rows) < MaxRows
          /\ window' = Edited(window, Append(window.rows, DefaultRow),
                              window.combination)
       \/ \E row \in DOMAIN window.rows :
             /\ Len(window.rows) > 1
             /\ window' = Edited(window, RemoveAt(window.rows, row),
                                 window.combination)
       \/ \E combination \in {"all", "any"} :
             window' = Edited(window, window.rows, combination)
       \/ window' = Edited(window, <<DefaultRow>>, "all")
    /\ UNCHANGEDButWindow

SelectTemplate ==
    /\ Idle
    /\ FilterIsEnabled(window)
    /\ \E identifier \in window.panel.identifiers \cup {NoTemplate} :
          /\ identifier # window.panel.active
          /\ window' = applyTemplate(window, identifier)
    /\ UNCHANGEDButWindow

(* A command on templates: what the panel shows decides which can be given. *)
Command(results) ==
    /\ commands < MaxCommands
    /\ commands' = commands + 1
    /\ \E result \in results : window' = RefreshTemplateState(result)
    /\ UNCHANGED <<dialog, export, bundle, file>>

saveTemplate == \E name \in Names : Command(Templates!Created(window, name))

updateTemplate ==
    /\ window.panel.active # NoTemplate
    /\ window.panel.modified
    /\ Command(Templates!ActiveUpdated(window))

renameTemplate ==
    /\ window.panel.active # NoTemplate
    /\ \E name \in Names \ {Templates!ActiveTemplate(window).name} :
          Command(Templates!ActiveRenamed(window, name))

duplicateTemplate ==
    /\ window.panel.active # NoTemplate
    /\ \E name \in Names : Command(Templates!ActiveDuplicated(window, name))

deleteTemplate ==
    /\ window.panel.active # NoTemplate
    /\ Command({SetFilterQuery(result, result.filter) :
                  result \in Templates!ActiveRemoved(window)})

TemplateCommand ==
    /\ Idle
    /\ FilterIsEnabled(window)
    /\ \/ saveTemplate
       \/ updateTemplate
       \/ renameTemplate
       \/ duplicateTemplate
       \/ deleteTemplate

(* The columns are the template's; the document takes them at an export.   *)
editExportColumns ==
    /\ Idle
    /\ FilterIsEnabled(window)
    /\ \E projection \in Projections :
          window' = SetEventProjection(window, projection)
    /\ UNCHANGEDButWindow

-----------------------------------------------------------------------------
(* Opening a timeline.                                                     *)
OpenTimeline ==
    /\ Idle
    /\ ~ window.busy
    /\ ~ export.runs /\ window.document.state # "importing"
    /\ window' = StartImport(window, FALSE)
    /\ UNCHANGEDButWindow

(* The import ends.  A failure for want of a frame rate, when none was     *)
(* given, is asked about before it is shown.                               *)
FinishImport ==
    /\ Idle
    /\ window.document.state = "importing"
    /\ \/ /\ window' = DocumentReady(Document!Imported(window))
          /\ UNCHANGED dialog
       \/ /\ window' = ShowImportFailure(
                          SetBusy(Document!NotImported(window), FALSE))
          /\ UNCHANGED dialog
       \/ /\ ~ window.requested
          /\ window' = SetBusy(Document!NotImported(window), FALSE)
          /\ dialog' = [NoDialog EXCEPT !.kind = "frameRate"]
    /\ UNCHANGED <<export, bundle, file, commands>>

(* The handler goes on: it imports the failure's path again, or shows it.  *)
AnswerFrameRate ==
    /\ dialog.kind = "frameRate"
    /\ \/ window' = StartImport(window, TRUE)
       \/ window' = ShowImportFailure(window)
    /\ dialog' = NoDialog
    /\ UNCHANGED <<export, bundle, file, commands>>

(* The application's language changes, also while something runs.          *)
SetLanguage ==
    /\ Idle
    /\ window' = HandleFilterChanged(window)
    /\ UNCHANGEDButWindow

-----------------------------------------------------------------------------
(* Exporting a spreadsheet.                                                *)
CanExport(w) ==
    /\ w.document.state = "ready"
    /\ ~ export.runs
    /\ ~ w.document.error

(* exportSpreadsheet, to the end of the options: the columns go to the     *)
(* template and to the document.  The file dialog comes next.              *)
exportSpreadsheet ==
    /\ Idle
    /\ ~ window.busy
    /\ CanExport(window)
    /\ \E projection \in Projections :
          LET chosen == SetEventProjection(window, projection)
          IN  window' = Document!SetEventProjection(chosen, chosen.projection)
    /\ dialog' = [NoDialog EXCEPT !.kind = "destination"]
    /\ UNCHANGED <<export, bundle, file, commands>>

(* Slip: what was found at the destination is not asked for.               *)
AlwaysReplaces(exists) == TRUE

Replaces(exists) == exists

(* A destination is chosen, and whether it exists is read.                 *)
ChooseDestination ==
    /\ dialog.kind = "destination"
    /\ dialog' = [dialog EXCEPT !.kind = "overwrite", !.replace = Replaces(file)]
    /\ UNCHANGED <<window, export, bundle, file, commands>>

MustAsk(exists) == exists

(* ConfirmSpreadsheetOverwrite reads it again, and asks.  The export then  *)
(* runs with what was read first.                                          *)
ConfirmSpreadsheetOverwrite ==
    /\ dialog.kind = "overwrite"
    /\ dialog' = NoDialog
    /\ export' = [runs |-> TRUE, replace |-> dialog.replace,
                  changes |-> dialog.changes, asked |-> MustAsk(file),
                  written |-> "nothing"]
    /\ window' = SetBusy(window, TRUE)
    /\ UNCHANGED <<bundle, file, commands>>

(* The file dialog, the question, or the options are dismissed.            *)
DismissExport ==
    /\ dialog.kind \in {"destination", "overwrite"}
    /\ dialog' = NoDialog
    /\ UNCHANGED <<window, export, bundle, file, commands>>

(* The worker publishes the workbook: a file that is there is replaced     *)
(* only with authority.                                                    *)
PublishSpreadsheet ==
    /\ export.runs /\ export.written = "nothing"
    /\ ~ file \/ export.replace
    /\ file' = TRUE
    /\ export' = [export EXCEPT !.written = IF file THEN "replaced" ELSE "created"]
    /\ UNCHANGED <<window, dialog, bundle, commands>>

(* handleExportFinished, also for a worker that published nothing.         *)
FinishExport ==
    /\ Idle
    /\ export.runs
    /\ export' = NoExport
    /\ window' = SetBusy(window, FALSE)
    /\ UNCHANGED <<dialog, bundle, file, commands>>

(* Another program creates or removes the destination.                     *)
OtherProgram ==
    /\ dialog.kind \in {"destination", "overwrite"} \/ export.runs
    /\ file' = ~ file
    /\ dialog' = IF dialog.kind = "overwrite"
                 THEN [dialog EXCEPT !.changes =
                          @ \cup {IF file THEN "removed" ELSE "created"}]
                 ELSE dialog
    /\ UNCHANGED <<window, export, bundle, commands>>

-----------------------------------------------------------------------------
(* SupportBundleController: the same busy state.                           *)
exportDiagnosticLogs ==
    /\ Idle
    /\ ~ window.busy
    /\ bundle' = TRUE
    /\ window' = SetBusy(window, TRUE)
    /\ UNCHANGED <<dialog, export, file, commands>>

FinishBundle ==
    /\ Idle
    /\ bundle
    /\ bundle' = FALSE
    /\ window' = SetBusy(window, FALSE)
    /\ UNCHANGED <<dialog, export, file, commands>>

Next ==
    \/ EditFilter
    \/ SelectTemplate
    \/ TemplateCommand
    \/ editExportColumns
    \/ OpenTimeline
    \/ FinishImport
    \/ AnswerFrameRate
    \/ SetLanguage
    \/ exportSpreadsheet
    \/ ChooseDestination
    \/ ConfirmSpreadsheetOverwrite
    \/ DismissExport
    \/ PublishSpreadsheet
    \/ FinishExport
    \/ OtherProgram
    \/ exportDiagnosticLogs
    \/ FinishBundle

Spec == Init /\ [][Next]_vars

-----------------------------------------------------------------------------
(* When the main loop is idle, every copy the two controllers keep agrees: *)
(* the conditions on screen, the query read from them, the template view   *)
(* model's and the document's; the template panel with the list and the    *)
(* active template; the page, the menu and the filter's error with the     *)
(* document.  The window is busy exactly while a worker runs, though two   *)
(* controllers write that one state; and an export runs with the columns   *)
(* the user chose, though templates and documents keep them apart.         *)
WindowAgrees ==
    LET w == window
    IN  /\ w.editors = w.rows
        /\ Query(w) = w.filter
        /\ w.document.query = w.filter
        /\ w.panel = SetTemplates(w.catalog, w.active, w.modified)
        /\ w.modified = (/\ w.active # NoTemplate
                         /\ Templates!Differs(w, w.catalog[w.active]))
        /\ w.timeline = w.document.loaded
        /\ w.menu = [document |-> w.document.loaded,
                     export |-> ~ w.document.error]
        /\ w.filterValid = ~ w.document.error
        /\ w.busy = (\/ export.runs \/ bundle
                     \/ w.document.state = "importing")
        /\ dialog.kind = "frameRate" => w.document.state = "failed"
        /\ export.runs => w.document.projection = w.projection

(* The user guide on exporting: "An existing destination is never replaced *)
(* without confirmation."  (exportSpreadsheet and the export's worker)     *)
ReplacementIsConfirmed == export.written = "replaced" => export.asked

(* What the code does promise, with two looks at the destination of which  *)
(* one decides the question and the other the authority: a file is         *)
(* replaced unasked only if another program removed it between the two and *)
(* it came back, and a replacement the user agreed to lacks authority only *)
(* if another program created the file between the two.                    *)
OnlyAFileThatLeftIsReplacedUnasked ==
    /\ export.written = "replaced" =>
          export.asked \/ "removed" \in export.changes
    /\ export.asked => export.replace \/ "created" \in export.changes

(* The view reads the document it was given only while the view model has  *)
(* it available: TimelineDocumentViewModel::Document is null when none is. *)
ViewReadsAvailableDocument == ~ window.readGone

-----------------------------------------------------------------------------
(* The inductive invariant, by its parts.                                  *)

IsWindow(w) ==
    /\ DOMAIN w = {"catalog", "active", "filter", "valid", "projection",
                   "modified", "shown", "rows", "combination", "editors",
                   "document", "panel", "timeline", "filterValid", "page",
                   "menu", "busy", "requested", "readGone"}
    /\ DOMAIN w.document = {"state", "loaded", "query", "error", "projection"}
    /\ DOMAIN w.menu = {"document", "export"}
    /\ w.catalog \in [DOMAIN w.catalog -> SavedTemplates \cup {NoTemplate}]
    /\ NoTemplate \notin DOMAIN w.catalog
    /\ w.filter \in Queries
    /\ w.valid \in BOOLEAN
    /\ w.projection \in ValidProjections
    /\ w.rows \in Seq(Rows)
    /\ w.combination \in {"all", "any"}
    /\ w.document.loaded \in BOOLEAN
    /\ w.document.query \in Queries
    /\ w.document.error \in BOOLEAN

(* The active template is one of the list, and modified when it differs.   *)
IsActiveListed(w) ==
    w.active # NoTemplate =>
       w.active \in DOMAIN w.catalog /\ w.catalog[w.active] # NoTemplate

IsModifiedTrue(w) ==
    w.modified = (/\ w.active # NoTemplate
                  /\ Templates!Differs(w, w.catalog[w.active]))

IsPanelTrue(w) == w.panel = SetTemplates(w.catalog, w.active, w.modified)

(* The rows on screen are those that were read for the document's query.   *)
IsFilterShown(w) == w.editors = w.rows /\ Query(w) = w.document.query

(* The page, the menu and the filter's error are those of the document.    *)
IsDocumentShown(w) ==
    /\ w.timeline = w.document.loaded
    /\ w.menu = [document |-> w.document.loaded, export |-> ~ w.document.error]
    /\ w.filterValid = ~ w.document.error

IsConsistent(w) ==
    /\ IsWindow(w)
    /\ IsActiveListed(w)
    /\ IsModifiedTrue(w)
    /\ IsPanelTrue(w)
    /\ IsFilterShown(w)
    /\ IsDocumentShown(w)
    /\ w.filter = w.document.query
    /\ w.document.state \in {"importing", "failed"} => ~ w.document.loaded

(* One worker at a time, and none while a question is open.                *)
OneWorker ==
    /\ DOMAIN export = {"runs", "replace", "changes", "asked", "written"}
    /\ export.runs \in BOOLEAN /\ bundle \in BOOLEAN
    /\ window.busy = (\/ export.runs \/ bundle
                      \/ window.document.state = "importing")
    /\ ~ (export.runs /\ bundle)
    /\ window.document.state = "importing" => ~ export.runs /\ ~ bundle

QuestionsWait ==
    /\ DOMAIN dialog = {"kind", "replace", "changes"}
    /\ dialog # NoDialog => ~ window.busy
    /\ dialog.kind = "frameRate" => window.document.state = "failed"
    /\ dialog.kind \in {"destination", "overwrite"} \/ export.runs =>
          window.document.projection = window.projection

IInv == IsConsistent(window) /\ OneWorker /\ QuestionsWait

(* What was read of the destination is true but for the changes since.     *)
DestinationIsWatched ==
    /\ file \in BOOLEAN
    /\ dialog.kind = "overwrite" =>
          /\ dialog.replace => file \/ "removed" \in dialog.changes
          /\ file => dialog.replace \/ "created" \in dialog.changes
    /\ export.replace => export.asked \/ "removed" \in export.changes
    /\ export.asked => export.replace \/ "created" \in export.changes
    /\ export.written = "replaced" => export.replace
=============================================================================
