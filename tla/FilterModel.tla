---------------------------- MODULE FilterModel ----------------------------
(***************************************************************************)
(* The two editors of a timeline's presentation, as values: the rows of    *)
(* TimelineFilterModel, from which a filter query is read and which a      *)
(* query fills, and the columns of TimelineEventProjectionModel.  Both     *)
(* front ends keep one of each, and both hold more than what is read from  *)
(* them: a row still being written makes no condition, and every column    *)
(* may be unselected.                                                      *)
(*                                                                         *)
(* The three toggles of a text row are one set, and a number is one of the *)
(* texts that reads as it.                                                 *)
(***************************************************************************)
EXTENDS Naturals, Sequences, SequencesExt

CONSTANTS
    Fields,          \* the filter fields the user can choose
    Texts,           \* what can be typed in a row
    EmptyText,       \* the empty text
    Frames,          \* the texts that read as a number, and its canonical text
    Broken,          \* the texts that are not a regular expression
    Toggles,         \* the toggles of a text row
    TrackKinds,      \* the kinds of track, the default one first
    EditTypes,       \* the types of edit, the default one first
    EventFields      \* the event fields, in the order of the default projection

ASSUME FilterModelAssumption ==
    /\ Fields \subseteq {"reel", "clip", "trackKind", "editType", "sourceIn",
                         "recordIn", "duration"}
    /\ "reel" \in Fields
    /\ EmptyText \in Texts \ DOMAIN Frames
    /\ DOMAIN Frames \subseteq Texts
    /\ \A text \in DOMAIN Frames :
          Frames[text] \in DOMAIN Frames /\ Frames[Frames[text]] = Frames[text]
    /\ Broken \subseteq Texts \ {EmptyText}
    /\ Toggles \subseteq {"case", "word", "regex"}
    /\ TrackKinds \in Seq(ToSet(TrackKinds)) \ {<<>>}
    /\ EditTypes \in Seq(ToSet(EditTypes)) \ {<<>>}
    /\ EventFields \in Seq(ToSet(EventFields))
    /\ \E i \in DOMAIN EventFields : EventFields[i] # "initialFrame"

-----------------------------------------------------------------------------
(* The rows of a filter.                                                   *)

EditorForField(field) ==
    CASE field = "trackKind"              -> "trackKind"
      [] field = "editType"               -> "editType"
      [] field \in {"sourceIn", "recordIn"} -> "timecode"
      [] field = "duration"               -> "duration"
      [] OTHER                            -> "text"

Rows == [field : Fields, text : Texts, options : SUBSET Toggles,
         trackKind : ToSet(TrackKinds), editType : ToSet(EditTypes)]

DefaultRow ==
    [field |-> "reel", text |-> EmptyText, options |-> {},
     trackKind |-> Head(TrackKinds), editType |-> Head(EditTypes)]

(* setData changes one role of a row, to another legal value; the choice   *)
(* in a selection goes to the kind or the type, whichever the row shows.   *)
SetData(row) ==
    ({[row EXCEPT !.field = field] : field \in Fields}
     \cup {[row EXCEPT !.text = text] : text \in Texts}
     \cup {[row EXCEPT !.options = IF toggle \in @ THEN @ \ {toggle}
                                                   ELSE @ \cup {toggle}] :
              toggle \in Toggles}
     \cup (IF row.field = "trackKind"
           THEN {[row EXCEPT !.trackKind = kind] : kind \in ToSet(TrackKinds)}
           ELSE {})
     \cup (IF row.field = "editType"
           THEN {[row EXCEPT !.editType = type] : type \in ToSet(EditTypes)}
           ELSE {}))
    \ {row}

Condition(field, value, options) ==
    [field |-> field, value |-> value, options |-> options]

(* The condition a row makes, as a sequence of one; none from a row whose  *)
(* text is empty or is not the number its field asks for.                  *)
ConditionOf(row) ==
    LET editor == EditorForField(row.field)
    IN  CASE editor = "trackKind" -> <<Condition(row.field, row.trackKind, {})>>
          [] editor = "editType"  -> <<Condition(row.field, row.editType, {})>>
          [] editor = "duration" /\ row.text \in DOMAIN Frames ->
                <<Condition(row.field, Frames[row.text], {})>>
          [] editor = "timecode" /\ row.text # EmptyText ->
                <<Condition(row.field, row.text, {})>>
          [] editor = "text" /\ row.text # EmptyText ->
                <<Condition(row.field, row.text, row.options)>>
          [] OTHER -> <<>>

QueryOf(rows, combination) ==
    [combination |-> combination,
     conditions |-> FlattenSeq([i \in DOMAIN rows |-> ConditionOf(rows[i])])]

(* The queries the program makes: their conditions are those of some rows. *)
Conditions == UNION {ToSet(ConditionOf(row)) : row \in Rows}

Queries == [combination : {"all", "any"}, conditions : Seq(Conditions)]

(* The empty query, TimelineFilterQuery{}.                                 *)
NoFilter == [combination |-> "all", conditions |-> <<>>]

RowOf(condition) ==
    LET row == [DefaultRow EXCEPT !.field = condition.field]
    IN  CASE EditorForField(condition.field) = "trackKind" ->
                [row EXCEPT !.trackKind = condition.value]
          [] EditorForField(condition.field) = "editType" ->
                [row EXCEPT !.editType = condition.value]
          [] OTHER -> [row EXCEPT !.text = condition.value,
                                  !.options = condition.options]

(* SetQuery: one row for each condition, and never no row at all.          *)
RowsOf(query) ==
    IF query.conditions = <<>>
    THEN <<DefaultRow>>
    ELSE [i \in DOMAIN query.conditions |-> RowOf(query.conditions[i])]

(* Whether the query compiles: only a text that was to be a regular        *)
(* expression can fail to.                                                 *)
Compiles(query) ==
    \A i \in DOMAIN query.conditions :
       LET condition == query.conditions[i]
       IN  ~ /\ EditorForField(condition.field) = "text"
             /\ "regex" \in condition.options
             /\ condition.value \in Broken

-----------------------------------------------------------------------------
(* The columns of an export.                                               *)

Column(field, selected) == [field |-> field, selected |-> selected]

Columns == [field : ToSet(EventFields), selected : BOOLEAN]

Projection(columns) ==
    FlattenSeq([i \in DOMAIN columns |->
                   IF columns[i].selected THEN <<columns[i].field>> ELSE <<>>])

(* The event fields but those excluded, in the default order.              *)
FieldsWithout(excluded) ==
    FlattenSeq([i \in DOMAIN EventFields |->
                   IF EventFields[i] \in excluded
                   THEN <<>> ELSE <<EventFields[i]>>])

(* SetProjection: the projection's fields first, then the others in the    *)
(* default order, unselected.                                              *)
ColumnsOf(projection) ==
    LET others == FieldsWithout(ToSet(projection))
    IN  [i \in DOMAIN projection |-> Column(projection[i], TRUE)]
        \o [i \in DOMAIN others |-> Column(others[i], FALSE)]

DefaultEventProjection == FieldsWithout({"initialFrame"})

IsValidProjection(projection) == projection # <<>>

ValidProjections ==
    {projection \in Seq(ToSet(EventFields)) : IsValidProjection(projection)}

SetSelected(columns, row) ==
    [columns EXCEPT ![row].selected = ~ @]

(* Move: the row leaves its place and is inserted at the other.            *)
Move(columns, source, destination) ==
    InsertAt(RemoveAt(columns, source), destination, columns[source])
=============================================================================
