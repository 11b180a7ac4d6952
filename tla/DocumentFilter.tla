--------------------------- MODULE DocumentFilter ---------------------------
(***************************************************************************)
(* What TimelineDocumentViewModel keeps of the document shown and of the   *)
(* query and the projection applied to it, as operators on the record of a *)
(* window.  A query that does not compile is an error only while there is  *)
(* a document to filter: without one the error is reset.  filterChanged    *)
(* runs the window's listener before the view model goes on.               *)
(*                                                                         *)
(* Field used here: document = [state, loaded, query, error, projection].  *)
(* The worker that imports, and exports, are the matter of                 *)
(* DocumentSession.                                                        *)
(***************************************************************************)
EXTENDS FilterModel

CONSTANT FilterChanged(_)             \* the listeners of filterChanged

EmptyDocument ==
    [state |-> "empty", loaded |-> FALSE, query |-> NoFilter, error |-> FALSE,
     projection |-> DefaultEventProjection]

ApplyFilter(w) ==
    FilterChanged([w EXCEPT !.document.error =
                      w.document.loaded /\ ~ Compiles(w.document.query)])

SetFilterQuery(w, query) ==
    IF w.document.query = query
    THEN w
    ELSE ApplyFilter([w EXCEPT !.document.query = query])

SetEventProjection(w, projection) ==
    IF IsValidProjection(projection)
    THEN [w EXCEPT !.document.projection = projection]
    ELSE w

(* ResetDocument: the query goes with the document, the projection stays.  *)
ResetDocument(w) ==
    FilterChanged([w EXCEPT !.document.loaded = FALSE,
                            !.document.query = NoFilter,
                            !.document.error = FALSE])

Import(w) == [ResetDocument(w) EXCEPT !.document.state = "importing"]

ClearDocument(w) == [ResetDocument(w) EXCEPT !.document.state = "empty"]

(* handleImportFinished: the filter is applied before the state changes.   *)
Imported(w) ==
    [ApplyFilter([w EXCEPT !.document.loaded = TRUE])
        EXCEPT !.document.state = "ready"]

NotImported(w) == [w EXCEPT !.document.state = "failed"]
=============================================================================
