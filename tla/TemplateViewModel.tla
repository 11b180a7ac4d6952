-------------------------- MODULE TemplateViewModel --------------------------
(***************************************************************************)
(* TimelineTemplateViewModel, as operators on the record of a window.  Its *)
(* signals run their listeners before the handler that emits them goes on, *)
(* so an emission is the application of an operator of the front end: what *)
(* a window connects to filterStateChanged and to eventProjectionChanged.  *)
(* The template list shown is its own listener.                            *)
(*                                                                         *)
(* Fields of the window used here: catalog (the service's list), active,   *)
(* filter, valid, projection, modified, and shown, the list of templates   *)
(* as the interface last received it.  That the list in memory is what is  *)
(* on disk is the matter of TemplateCatalog; here a service call either    *)
(* fails and changes nothing, or changes the list.                         *)
(***************************************************************************)
EXTENDS FilterModel

CONSTANTS
    NoTemplate,                       \* no template, and no active identifier
    FilterStateChanged(_),            \* the listeners of filterStateChanged
    EventProjectionChanged(_)         \* the listeners of eventProjectionChanged

ActiveTemplate(w) ==
    IF w.active = NoTemplate THEN NoTemplate ELSE w.catalog[w.active]

(* SetTemplates: the names listed, and an active template only if listed.  *)
SetTemplates(catalog, active, modified) ==
    LET listed == {identifier \in DOMAIN catalog :
                      catalog[identifier] # NoTemplate}
    IN  [names    |-> [identifier \in listed |-> catalog[identifier].name],
         active   |-> IF active \in listed THEN active ELSE NoTemplate,
         modified |-> modified /\ active \in listed]

RefreshTemplateModel(w) ==
    [w EXCEPT !.shown = SetTemplates(w.catalog, w.active, w.modified)]

SetActiveIdentifier(w, identifier) ==
    IF w.active = identifier
    THEN w
    ELSE RefreshTemplateModel([w EXCEPT !.active = identifier])

Differs(w, template) ==
    template.filter # w.filter \/ template.projection # w.projection

RefreshModified(w) ==
    LET modified == /\ ActiveTemplate(w) # NoTemplate
                    /\ Differs(w, ActiveTemplate(w))
    IN  IF w.modified = modified
        THEN w
        ELSE RefreshTemplateModel([w EXCEPT !.modified = modified])

(* Both values are in place before either signal is emitted.               *)
Emit(w, filterChanged, projectionChanged) ==
    LET first == IF filterChanged THEN FilterStateChanged(w) ELSE w
    IN  IF projectionChanged THEN EventProjectionChanged(first) ELSE first

Apply(w, filter, projection) ==
    RefreshModified(
        Emit([w EXCEPT !.filter = filter, !.valid = TRUE,
                       !.projection = projection],
             w.filter # filter \/ ~ w.valid, w.projection # projection))

ApplyTemplate(w, template) == Apply(w, template.filter, template.projection)

-----------------------------------------------------------------------------
(* The operations.                                                         *)

(* No template keeps the projection, and resets the filter.                *)
SelectNoTemplate(w) == Apply(SetActiveIdentifier(w, NoTemplate), NoFilter, w.projection)

SelectTemplate(w, identifier) ==
    IF w.catalog[identifier] = NoTemplate
    THEN SelectNoTemplate(w)
    ELSE ApplyTemplate(SetActiveIdentifier(w, identifier), w.catalog[identifier])

RestoreForTimeline(w) ==
    IF ActiveTemplate(w) # NoTemplate
    THEN ApplyTemplate(w, ActiveTemplate(w))
    ELSE Apply(SetActiveIdentifier(w, NoTemplate), NoFilter,
               DefaultEventProjection)

SetFilterState(w, filter, valid) ==
    IF w.filter = filter /\ w.valid = valid
    THEN w
    ELSE RefreshModified(FilterStateChanged(
             [w EXCEPT !.filter = filter, !.valid = valid]))

SetEventProjection(w, projection) ==
    IF ~ IsValidProjection(projection) \/ w.projection = projection
    THEN w
    ELSE RefreshModified(EventProjectionChanged(
             [w EXCEPT !.projection = projection]))

(* What is checked before the state is written, ValidateWritableState.     *)
IsWritable(w) == w.valid /\ IsValidProjection(w.projection)

(* The service stored the template under the identifier, which becomes or  *)
(* stays the active one.                                                   *)
Stored(w, identifier, template) ==
    RefreshModified(RefreshTemplateModel(SetActiveIdentifier(
        [w EXCEPT !.catalog[identifier] = template], identifier)))

(* The identifiers the service may give to a new template, and the names   *)
(* it accepts for a template: those no other template has.                 *)
FreshIdentifiers(w) ==
    {identifier \in DOMAIN w.catalog : w.catalog[identifier] = NoTemplate}

IsFree(w, name, except) ==
    \A identifier \in DOMAIN w.catalog \ ({except} \cup FreshIdentifiers(w)) :
       w.catalog[identifier].name # name

(* The results of the commands the service accepts.                        *)
Created(w, name) ==
    IF IsWritable(w) /\ IsFree(w, name, NoTemplate)
    THEN {Stored(w, identifier, [name |-> name, filter |-> w.filter,
                                 projection |-> w.projection]) :
            identifier \in FreshIdentifiers(w)}
    ELSE {}

ActiveUpdated(w) ==
    IF ActiveTemplate(w) # NoTemplate /\ IsWritable(w)
    THEN {Stored(w, w.active, [ActiveTemplate(w) EXCEPT
                                 !.filter = w.filter,
                                 !.projection = w.projection])}
    ELSE {}

ActiveRenamed(w, name) ==
    IF ActiveTemplate(w) # NoTemplate /\ IsFree(w, name, w.active)
    THEN {Stored(w, w.active, [ActiveTemplate(w) EXCEPT !.name = name])}
    ELSE {}

ActiveDuplicated(w, name) ==
    IF ActiveTemplate(w) # NoTemplate /\ IsFree(w, name, NoTemplate)
    THEN {Stored(w, identifier, [ActiveTemplate(w) EXCEPT !.name = name]) :
            identifier \in FreshIdentifiers(w)}
    ELSE {}

ActiveRemoved(w) ==
    IF ActiveTemplate(w) # NoTemplate
    THEN {RefreshTemplateModel(
             SelectNoTemplate([w EXCEPT !.catalog[w.active] = NoTemplate]))}
    ELSE {}
=============================================================================
