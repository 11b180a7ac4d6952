------------------------- MODULE QuickConfiguration -------------------------
(***************************************************************************)
(* The filter, the columns and the templates of the Quick front end:       *)
(* TimelineConfigurationViewModel, which keeps four copies of one          *)
(* configuration equal by listening to their signals (the rows and the     *)
(* columns being edited, the template view model, the document).  Each     *)
(* listener writes to the other copies, whose signals would call it back:  *)
(* the flag synchronizing_template_state_ makes it return at once.  Here   *)
(* the copies a handler writes while it holds the flag are the instances   *)
(* without listeners, Quiet and Silent.                                    *)
(*                                                                         *)
(* One action is one call from the interface, or the end of an import.     *)
(* The text of a refused command is left out: a refused command changes    *)
(* nothing else.                                                           *)
(***************************************************************************)
EXTENDS Configuration

CONSTANTS
    MaxRows,            \* bound: the conditions the user may add
    MaxCommands,        \* bound: the template commands the service accepts
    MaxSaved            \* bound: the conditions of a filter the user saves

VARIABLES
    window,             \* the copies, see Init
    commands            \* accepted template commands, only to bound the runs

vars == <<window, commands>>

-----------------------------------------------------------------------------
(* While the flag is held the listeners return at once.                    *)
Ignored(w) == w

Quiet == INSTANCE DocumentFilter WITH FilterChanged <- Ignored
Silent == INSTANCE TemplateViewModel WITH
             FilterStateChanged <- Ignored, EventProjectionChanged <- Ignored

(* Slip: the document is not given the template's filter.                  *)
SynchronizeEditors(w) ==
    LET edited == [w EXCEPT !.rows = RowsOf(w.filter),
                            !.combination = w.filter.combination,
                            !.columns = ColumnsOf(w.projection)]
    IN  Quiet!SetEventProjection(edited, Projection(edited.columns))

(* The editors and the document take what the template view model holds.   *)
SynchronizeTemplateState(w) ==
    LET edited == [w EXCEPT
                     !.rows = RowsOf(w.filter),
                     !.combination = w.filter.combination,
                     !.columns = ColumnsOf(w.projection)]
        filtered == Quiet!SetFilterQuery(edited, edited.filter)
    IN  Quiet!SetEventProjection(filtered, Projection(filtered.columns))

Templates == INSTANCE TemplateViewModel WITH
                FilterStateChanged <- SynchronizeTemplateState,
                EventProjectionChanged <- SynchronizeTemplateState

Query(w) == QueryOf(w.rows, w.combination)

(* The listener of the document's filterChanged when the flag is not held. *)
handleFilterChanged(w) ==
    Templates!SetFilterState(w, Query(w), ~ w.document.error)

Document == INSTANCE DocumentFilter WITH FilterChanged <- handleFilterChanged

-----------------------------------------------------------------------------
(* Slip: the error is read before the document filters by the new query.   *)
ErrorReadFirst(w) ==
    Silent!SetFilterState(Quiet!SetFilterQuery(w, Query(w)), Query(w),
                          ~ w.document.error)

(* Slip: the flag is not held while the other copies are written.          *)
UnguardedFilterQueryChanged(w) ==
    LET filtered == Quiet!SetFilterQuery(w, Query(w))
    IN  Templates!SetFilterState(filtered, Query(w), ~ filtered.document.error)

(* The rows changed: the document and the template view model follow, and  *)
(* their signals do not come back.                                         *)
handleFilterQueryChanged(w) ==
    LET filtered == Quiet!SetFilterQuery(w, Query(w))
    IN  Silent!SetFilterState(filtered, Query(w), ~ filtered.document.error)

(* queryChanged is emitted only when what is read from the rows changed.   *)
Edited(w, rows, combination) ==
    LET edited == [w EXCEPT !.rows = rows, !.combination = combination]
    IN  IF Query(edited) = Query(w)
        THEN edited
        ELSE handleFilterQueryChanged(edited)

(* With no column selected the other copies keep the last valid columns.   *)
handleEventProjectionChanged(w) ==
    LET projection == Projection(w.columns)
    IN  IF IsValidProjection(projection)
        THEN Silent!SetEventProjection(
                Quiet!SetEventProjection(w, projection), projection)
        ELSE w

IsEventProjectionValid(w) == IsValidProjection(Projection(w.columns))

(* Slip: only the copy in the template view model is compared.             *)
IsViewModelModified(w) == w.active # NoTemplate /\ w.modified

IsTemplateModified(w) ==
    /\ w.active # NoTemplate
    /\ w.modified \/ Projection(w.columns) # w.projection

-----------------------------------------------------------------------------
(* The constructor loads the templates and brings the copies together.     *)
Init ==
    /\ \E catalog \in InitialCatalogs :
          window = SynchronizeTemplateState(
             Silent!RefreshTemplateModel(
                [catalog     |-> catalog,
                 active      |-> NoTemplate,
                 filter      |-> NoFilter,
                 valid       |-> TRUE,
                 projection  |-> DefaultEventProjection,
                 modified    |-> FALSE,
                 shown       |-> NoTemplate,
                 rows        |-> <<DefaultRow>>,
                 combination |-> "all",
                 columns     |-> ColumnsOf(DefaultEventProjection),
                 document    |-> Quiet!EmptyDocument]))
    /\ commands = 0

(* The user edits the filter.                                              *)
EditCondition ==
    /\ \E row \in DOMAIN window.rows : \E edited \in SetData(window.rows[row]) :
          window' = Edited(window, [window.rows EXCEPT ![row] = edited],
                           window.combination)
    /\ UNCHANGED commands

AddFilterCondition ==
    /\ Len(window.rows) < MaxRows
    /\ window' = [window EXCEPT !.rows = Append(@, DefaultRow)]
    /\ UNCHANGED commands

RemoveFilterCondition ==
    /\ Len(window.rows) > 1
    /\ \E row \in DOMAIN window.rows :
          window' = Edited(window, RemoveAt(window.rows, row),
                           window.combination)
    /\ UNCHANGED commands

ClearFilter ==
    /\ window' = Edited(window, <<DefaultRow>>, "all")
    /\ UNCHANGED commands

SetFilterCombination ==
    /\ \E combination \in {"all", "any"} :
          window' = Edited(window, window.rows, combination)
    /\ UNCHANGED commands

(* The user edits the columns.                                             *)
SetEventProjectionSelected ==
    /\ \E row \in DOMAIN window.columns :
          window' = handleEventProjectionChanged(
                       [window EXCEPT !.columns = SetSelected(@, row)])
    /\ UNCHANGED commands

MoveEventProjection ==
    /\ \E source, destination \in DOMAIN window.columns :
          /\ source # destination
          /\ window' = handleEventProjectionChanged(
                          [window EXCEPT !.columns =
                              Move(@, source, destination)])
    /\ UNCHANGED commands

(* The user chooses a row of the template list, the first being no         *)
(* template.                                                               *)
SelectTemplateRow ==
    /\ \/ window' = Templates!SelectNoTemplate(window)
       \/ \E identifier \in DOMAIN window.shown.names :
             window' = Templates!SelectTemplate(window, identifier)
    /\ UNCHANGED commands

(* A template command, refused by the editor when no column is selected.   *)
Command(results) ==
    /\ commands < MaxCommands
    /\ window' \in results
    /\ commands' = commands + 1

CreateTemplate ==
    /\ IsEventProjectionValid(window)
    /\ Len(window.filter.conditions) <= MaxSaved
    /\ \E name \in Names : Command(Templates!Created(window, name))

UpdateActiveTemplate ==
    /\ IsEventProjectionValid(window)
    /\ Len(window.filter.conditions) <= MaxSaved
    /\ Command(Templates!ActiveUpdated(window))

RenameActiveTemplate ==
    \E name \in Names : Command(Templates!ActiveRenamed(window, name))

DuplicateActiveTemplate ==
    \E name \in Names : Command(Templates!ActiveDuplicated(window, name))

RemoveActiveTemplate == Command(Templates!ActiveRemoved(window))

(* ApplicationShellViewModel::StartImport, when nothing is running.        *)
StartImport ==
    /\ window.document.state # "importing"
    /\ window' = SynchronizeTemplateState(
                    Templates!RestoreForTimeline(Document!Import(window)))
    /\ UNCHANGED commands

FinishImport ==
    /\ window.document.state = "importing"
    /\ \/ window' = Document!Imported(window)
       \/ window' = Document!NotImported(window)
    /\ UNCHANGED commands

EditFilter ==
    \/ EditCondition
    \/ AddFilterCondition
    \/ SetFilterCombination

Next ==
    \/ EditFilter
    \/ RemoveFilterCondition
    \/ ClearFilter
    \/ SetEventProjectionSelected
    \/ MoveEventProjection
    \/ SelectTemplateRow
    \/ CreateTemplate
    \/ UpdateActiveTemplate
    \/ RenameActiveTemplate
    \/ DuplicateActiveTemplate
    \/ RemoveActiveTemplate
    \/ StartImport
    \/ FinishImport

Spec == Init /\ [][Next]_vars

-----------------------------------------------------------------------------
(* Between two calls the four copies agree: the query read from the rows   *)
(* being edited is the template view model's and the document's, and, when *)
(* a column is selected, so are the columns.  Not one listener lost an     *)
(* edit, applied a template to some of the copies only, or left the        *)
(* document filtered by the previous timeline's query.                     *)
CopiesAgree ==
    /\ Query(window) = window.filter
    /\ window.document.query = window.filter
    /\ window.document.projection = window.projection
    /\ IsEventProjectionValid(window) =>
          Projection(window.columns) = window.projection

(* The interface says of the active template what is true of it: it is     *)
(* marked as modified exactly when what the user has on screen, the rows   *)
(* and the columns, is not what is saved, and the list of templates shown  *)
(* is the service's, with the active one in it.                            *)
TemplateListIsTrue ==
    LET active == Silent!ActiveTemplate(window)
    IN  /\ IsTemplateModified(window) =
              (active # NoTemplate
               /\ \/ active.filter # Query(window)
                  \/ active.projection # Projection(window.columns))
        /\ window.shown = Silent!SetTemplates(window.catalog, window.active,
                                              window.modified)
        /\ window.active # NoTemplate => window.shown.active = window.active

(* A filter is declared invalid only while the document refuses it, so a   *)
(* template is never refused for a filter that compiles, nor after the     *)
(* document whose filter did not is gone.                                  *)
NoFalseRefusal == window.valid \/ window.document.error

(* A condition the user has begun and not finished makes no query, so only *)
(* the rows hold it: neither editing another condition nor changing the    *)
(* columns, a template command or a timeline that takes the filter may     *)
(* make the rows be read back from the query.  The user's edit of the      *)
(* filter writes one row, adds one or removes one, and leaves every other  *)
(* row as it is; all of them go only when the user clears them, when a     *)
(* template is chosen or removed, when a timeline is opened, and when the  *)
(* timeline opened refuses the filter.                                     *)
OnlyTheRowsChange ==
    /\ window'.combination = window.combination
    /\ window'.columns = window.columns
    /\ window'.document.state = window.document.state
    /\ UNCHANGED commands

OneRowChanges ==
    \/ \E row \in DOMAIN window.rows :
          \/ /\ DOMAIN window'.rows = DOMAIN window.rows
             /\ \A other \in DOMAIN window.rows \ {row} :
                   window'.rows[other] = window.rows[other]
          \/ window'.rows = RemoveAt(window.rows, row)
    \/ window'.rows = Append(window.rows, DefaultRow)

UnfinishedConditionsSurvive ==
    [][\/ window'.rows = window.rows
       \/ OnlyTheRowsChange /\ OneRowChanges
       \/ ClearFilter \/ StartImport
       \/ FinishImport /\ window'.document.error
       \/ SelectTemplateRow \/ RemoveActiveTemplate]_vars

-----------------------------------------------------------------------------
(* The inductive invariant, by its parts.                                  *)

IsWindow(w) ==
    /\ DOMAIN w = {"catalog", "active", "filter", "valid", "projection",
                   "modified", "shown", "rows", "combination", "columns",
                   "document"}
    /\ DOMAIN w.document = {"state", "loaded", "query", "error", "projection"}
    /\ w.catalog \in [DOMAIN w.catalog -> SavedTemplates \cup {NoTemplate}]
    /\ NoTemplate \notin DOMAIN w.catalog
    /\ w.filter \in Queries
    /\ w.valid \in BOOLEAN
    /\ w.projection \in ValidProjections
    /\ w.rows \in Seq(Rows)
    /\ w.combination \in {"all", "any"}
    /\ w.columns \in Seq(Columns)
    /\ w.document.loaded \in BOOLEAN
    /\ w.document.query \in Queries
    /\ w.document.error \in BOOLEAN

AreEqual(w) ==
    /\ Query(w) = w.filter
    /\ w.document.query = w.filter
    /\ w.document.projection = w.projection
    /\ IsEventProjectionValid(w) => Projection(w.columns) = w.projection

(* The active template is one of the list, and modified when it differs.   *)
IsActiveListed(w) ==
    w.active # NoTemplate =>
       w.active \in DOMAIN w.catalog /\ w.catalog[w.active] # NoTemplate

IsModifiedTrue(w) ==
    w.modified = (/\ w.active # NoTemplate
                  /\ Silent!Differs(w, w.catalog[w.active]))

IsListTrue(w) ==
    w.shown = Silent!SetTemplates(w.catalog, w.active, w.modified)

(* There is no error without a document, and none during an import.        *)
ErrorNeedsDocument(w) ==
    /\ w.document.error => w.document.loaded
    /\ w.document.state = "importing" => ~ w.document.loaded

IsConsistent(w) ==
    /\ IsWindow(w)
    /\ AreEqual(w)
    /\ IsActiveListed(w)
    /\ IsModifiedTrue(w)
    /\ IsListTrue(w)
    /\ ErrorNeedsDocument(w)
    /\ w.valid \/ w.document.error

IInv == IsConsistent(window)
=============================================================================
