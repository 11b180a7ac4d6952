------------------------ MODULE TemplateCatalogProofs ------------------------
(***************************************************************************)
(* Theorems about TemplateFile and TemplateCatalog.  What the service      *)
(* writes is accepted when it is read, so no catalogue can hold a template *)
(* whose file it would skip.                                               *)
(***************************************************************************)
EXTENDS TemplateCatalog, TLAPS

(* What SerializeTemplate needs of a template for DeserializeTemplate to   *)
(* accept the file: weaker than Templates, for a loaded template holds     *)
(* whatever strings its file had.                                          *)
IsWritable(t) ==
  /\ DOMAIN t = {"identifier", "name", "filter", "event_projection"}
  /\ t.identifier \in Identifiers
  /\ t.name # EmptyText
  /\ t.filter.combination \in DOMAIN CombinationIdentifier
  /\ \A i \in DOMAIN t.filter.conditions :
       AcceptsCondition(SerializeCondition(t.filter.conditions[i]))
  /\ t.event_projection =
       [i \in DOMAIN t.event_projection |-> t.event_projection[i]]
  /\ \A i \in DOMAIN t.event_projection : t.event_projection[i] \in EventFields
  /\ IsValidTimelineEventProjection(t.event_projection)

LEMMA FieldIdentifiersDiffer ==
  ASSUME NEW v \in EventFields
  PROVE  /\ IsKnown(TimelineEventFieldIdentifier, TimelineEventFieldIdentifier[v])
         /\ FromIdentifier(TimelineEventFieldIdentifier,
                           TimelineEventFieldIdentifier[v]) = v
<1>1. IsKnown(TimelineEventFieldIdentifier, TimelineEventFieldIdentifier[v])
  BY DEF IsKnown, EventFields
<1>2. \A u \in EventFields :
        TimelineEventFieldIdentifier[u] = TimelineEventFieldIdentifier[v] => u = v
  BY SMTT(60) DEF EventFields, TimelineEventFieldIdentifier
<1> QED BY <1>1, <1>2 DEF FromIdentifier, EventFields

LEMMA SerializedIsAccepted ==
  ASSUME NEW t, IsWritable(t)
  PROVE  IsTemplateFile(t.identifier, SerializeTemplate(t))
<1> DEFINE json == SerializeTemplate(t)
<1>1. /\ Kind(json) = "object"
      /\ DOMAIN Content(json) =
           {"schema_version", "identifier", "name", "filter", "event_columns"}
      /\ Content(json).schema_version = Integer(1)
      /\ Content(json).identifier = String(t.identifier)
      /\ Content(json).name = String(t.name)
      /\ Content(json).filter = Object(
           [combination |-> String(CombinationIdentifier[t.filter.combination]),
            conditions |-> Array([i \in DOMAIN t.filter.conditions |->
                              SerializeCondition(t.filter.conditions[i])])])
      /\ Content(json).event_columns = Array([i \in DOMAIN t.event_projection |->
           String(TimelineEventFieldIdentifier[t.event_projection[i]])])
  BY DEF SerializeTemplate, Object, Kind, Content
<1>2. /\ DOMAIN ConditionsOf(json) = DOMAIN t.filter.conditions
      /\ \A i \in DOMAIN ConditionsOf(json) :
           ConditionsOf(json)[i] = SerializeCondition(t.filter.conditions[i])
  BY <1>1 DEF ConditionsOf, FilterOf, Field, Content, Object, Array
<1>3. /\ DOMAIN ColumnsOf(json) = DOMAIN t.event_projection
      /\ \A i \in DOMAIN ColumnsOf(json) :
           ColumnsOf(json)[i] =
             String(TimelineEventFieldIdentifier[t.event_projection[i]])
  BY <1>1 DEF ColumnsOf, Field, Content, Array
<1>4. \A i \in DOMAIN ColumnsOf(json) :
        /\ Kind(ColumnsOf(json)[i]) = "string"
        /\ IsKnown(TimelineEventFieldIdentifier, Content(ColumnsOf(json)[i]))
        /\ FromIdentifier(TimelineEventFieldIdentifier, Content(ColumnsOf(json)[i]))
             = t.event_projection[i]
  BY <1>3, FieldIdentifiersDiffer DEF IsWritable, Kind, Content, String
<1>5. ProjectionOf(json) = t.event_projection
  BY <1>3, <1>4 DEF ProjectionOf, IsWritable
<1>6. ValidateObject(json,
        [schema_version |-> "integer", identifier |-> "string", name |-> "string",
         filter |-> "object", event_columns |-> "array"])
  BY <1>1 DEF ValidateObject, Kind, Integer, String, Object, Array
<1>7. /\ Field(json, "schema_version") = 1
      /\ Field(json, "identifier") = t.identifier
      /\ Field(json, "name") = t.name
  BY <1>1 DEF Field, Content, Integer, String
<1>8. /\ ValidateObject(FilterOf(json), [combination |-> "string", conditions |-> "array"])
      /\ IsKnown(CombinationIdentifier, Field(FilterOf(json), "combination"))
  BY <1>1 DEF ValidateObject, FilterOf, Field, Kind, Content, String, Object,
              Array, IsKnown, IsWritable
<1>9. AcceptsTemplate(json)
  BY <1>2, <1>4, <1>5, <1>6, <1>7, <1>8 DEF AcceptsTemplate, IsWritable
<1>10. json # Malformed
  BY <1>1 DEF Malformed, Kind
<1>11. DeserializeTemplate(json).identifier = t.identifier
  BY <1>7 DEF DeserializeTemplate
<1> QED BY <1>9, <1>10, <1>11 DEF IsTemplateFile

(* A condition that was read is written so that it is read again, and so   *)
(* is every condition that a user can save.                                *)
LEMMA ReadConditionIsAccepted ==
  ASSUME NEW json, AcceptsCondition(json)
  PROVE  AcceptsCondition(SerializeCondition(DeserializeCondition(json)))
<1> DEFINE c == DeserializeCondition(json)
<1>1. CASE Content(json).type = String("text")
  <2>1. /\ c.type = "text"
        /\ c.field = FromIdentifier(TextFieldIdentifier, Field(json, "field"))
        /\ IsKnown(TextFieldIdentifier, Field(json, "field"))
    BY <1>1 DEF DeserializeCondition, AcceptsCondition, Field, Content, String
  <2>2. IsKnown(TextFieldIdentifier, TextFieldIdentifier[c.field])
    BY <2>1 DEF IsKnown, FromIdentifier
  <2>3. SerializeCondition(c) = Object(
         [type |-> String("text"),
          field |-> String(TextFieldIdentifier[c.field]),
          text |-> String(c.text),
          match_case |-> Boolean(c.match_case),
          match_whole_word |-> Boolean(c.match_whole_word),
          regular_expression |-> Boolean(c.regular_expression)])
    BY <2>1 DEF SerializeCondition
  <2> QED BY <2>2, <2>3 DEF AcceptsCondition, ValidateObject, Field, Kind,
                Content, String, Boolean, Object
<1>2. CASE Content(json).type = String("track-kind")
  <2>1. /\ c.type = "track-kind"
        /\ c.value = FromIdentifier(TrackKindIdentifier, Field(json, "value"))
        /\ IsKnown(TrackKindIdentifier, Field(json, "value"))
    BY <1>2 DEF DeserializeCondition, AcceptsCondition, Field, Content, String
  <2>2. IsKnown(TrackKindIdentifier, TrackKindIdentifier[c.value])
    BY <2>1 DEF IsKnown, FromIdentifier
  <2>3. SerializeCondition(c) = Object(
          [type |-> String("track-kind"),
           value |-> String(TrackKindIdentifier[c.value])])
    BY <2>1 DEF SerializeCondition
  <2> QED BY <2>2, <2>3 DEF AcceptsCondition, ValidateObject, Field, Kind,
                Content, String, Object
<1>3. CASE Content(json).type = String("edit-type")
  <2>1. /\ c.type = "edit-type"
        /\ c.value = FromIdentifier(EditTypeIdentifier, Field(json, "value"))
        /\ IsKnown(EditTypeIdentifier, Field(json, "value"))
    BY <1>3 DEF DeserializeCondition, AcceptsCondition, Field, Content, String
  <2>2. IsKnown(EditTypeIdentifier, EditTypeIdentifier[c.value])
    BY <2>1 DEF IsKnown, FromIdentifier
  <2>3. SerializeCondition(c) = Object(
          [type |-> String("edit-type"),
           value |-> String(EditTypeIdentifier[c.value])])
    BY <2>1 DEF SerializeCondition
  <2> QED BY <2>2, <2>3 DEF AcceptsCondition, ValidateObject, Field, Kind,
                Content, String, Object
<1>4. CASE Content(json).type = String("timecode")
  <2>1. /\ c.type = "timecode"
        /\ c.field = FromIdentifier(TimecodeFieldIdentifier, Field(json, "field"))
        /\ IsKnown(TimecodeFieldIdentifier, Field(json, "field"))
    BY <1>4 DEF DeserializeCondition, AcceptsCondition, Field, Content, String
  <2>2. IsKnown(TimecodeFieldIdentifier, TimecodeFieldIdentifier[c.field])
    BY <2>1 DEF IsKnown, FromIdentifier
  <2>3. SerializeCondition(c) = Object(
          [type |-> String("timecode"),
           field |-> String(TimecodeFieldIdentifier[c.field]),
           value |-> String(c.value)])
    BY <2>1 DEF SerializeCondition
  <2> QED BY <2>2, <2>3 DEF AcceptsCondition, ValidateObject, Field, Kind,
                Content, String, Object
<1>5. CASE Content(json).type = String("duration")
  <2>1. /\ c.type = "duration"
        /\ c.frames = Content(json).frames
        /\ \/ Kind(c.frames) = "null"
           \/ Kind(c.frames) = "integer" /\ Content(c.frames) <= MaxInt64
    BY <1>5 DEF DeserializeCondition, AcceptsCondition, ValidateObject, Field,
                Kind, Content, String
  <2>2. SerializeCondition(c) =
          Object([type |-> String("duration"), frames |-> c.frames])
    BY <2>1 DEF SerializeCondition
  <2> QED BY <2>1, <2>2 DEF AcceptsCondition, ValidateObject, Field, Kind,
                Content, String, Object
<1> QED BY <1>1, <1>2, <1>3, <1>4, <1>5 DEF AcceptsCondition

LEMMA SavedConditionIsAccepted ==
  ASSUME NEW c \in Conditions
  PROVE  AcceptsCondition(SerializeCondition(c))
<1>1. CASE c \in [type : {"text"}, field : DOMAIN TextFieldIdentifier, text : Texts,
                  match_case : BOOLEAN, match_whole_word : BOOLEAN,
                  regular_expression : BOOLEAN]
  BY <1>1 DEF SerializeCondition, AcceptsCondition, ValidateObject, IsKnown, Field,
              Kind, Content, String, Boolean, Object
<1>2. CASE c \in [type : {"track-kind"}, value : DOMAIN TrackKindIdentifier]
  BY <1>2 DEF SerializeCondition, AcceptsCondition, ValidateObject, IsKnown, Field,
              Kind, Content, String, Object
<1>3. CASE c \in [type : {"edit-type"}, value : DOMAIN EditTypeIdentifier]
  BY <1>3 DEF SerializeCondition, AcceptsCondition, ValidateObject, IsKnown, Field,
              Kind, Content, String, Object
<1>4. CASE c \in [type : {"timecode"}, field : DOMAIN TimecodeFieldIdentifier,
                  value : Texts]
  BY <1>4 DEF SerializeCondition, AcceptsCondition, ValidateObject, IsKnown, Field,
              Kind, Content, String, Object
<1>5. CASE c \in [type : {"duration"},
                  frames : {Null} \union {Integer(n) : n \in -MaxInt64 - 1 .. MaxInt64}]
  <2>1. \/ Kind(c.frames) = "null"
        \/ Kind(c.frames) = "integer" /\ Content(c.frames) <= MaxInt64
    BY <1>5, TemplateFileAssumption DEF Null, Integer, Kind, Content
  <2>2. SerializeCondition(c) =
          Object([type |-> String("duration"), frames |-> c.frames])
    BY <1>5 DEF SerializeCondition
  <2> QED BY <2>1, <2>2 DEF AcceptsCondition, ValidateObject, Field, Kind,
                Content, String, Object
<1> QED BY <1>1, <1>2, <1>3, <1>4, <1>5 DEF Conditions

(* A template that was read can be written again.                          *)
LEMMA ReadIsWritable ==
  ASSUME NEW json, AcceptsTemplate(json)
  PROVE  IsWritable(DeserializeTemplate(json))
<1> DEFINE t == DeserializeTemplate(json)
<1>1. /\ DOMAIN t = {"identifier", "name", "filter", "event_projection"}
      /\ t.identifier = Field(json, "identifier")
      /\ t.name = Field(json, "name")
      /\ t.filter.combination =
           FromIdentifier(CombinationIdentifier, Field(FilterOf(json), "combination"))
      /\ t.filter.conditions = [i \in DOMAIN ConditionsOf(json) |->
                                  DeserializeCondition(ConditionsOf(json)[i])]
      /\ t.event_projection = ProjectionOf(json)
  BY DEF DeserializeTemplate
<1> HIDE DEF t
<1>2. t.filter.combination \in DOMAIN CombinationIdentifier
  BY <1>1 DEF AcceptsTemplate, IsKnown, FromIdentifier
<1>3. \A i \in DOMAIN t.filter.conditions :
        AcceptsCondition(SerializeCondition(t.filter.conditions[i]))
  BY <1>1, ReadConditionIsAccepted DEF AcceptsTemplate
<1>4. /\ t.event_projection =
           [i \in DOMAIN t.event_projection |-> t.event_projection[i]]
      /\ \A i \in DOMAIN t.event_projection : t.event_projection[i] \in EventFields
  BY <1>1 DEF ProjectionOf, AcceptsTemplate, IsKnown, FromIdentifier, EventFields
<1>5. t.identifier \in Identifiers /\ t.name # EmptyText
      /\ IsValidTimelineEventProjection(t.event_projection)
  BY <1>1 DEF AcceptsTemplate
<1> QED BY <1>1, <1>2, <1>3, <1>4, <1>5 DEF IsWritable, t

-----------------------------------------------------------------------------
(* A file that is read and written again is the same file: nothing that    *)
(* DeserializeTemplate accepts is lost in the template.                    *)
LEMMA KnownNames ==
  ASSUME NEW names, NEW text, IsKnown(names, text)
  PROVE  names[FromIdentifier(names, text)] = text
  BY DEF IsKnown, FromIdentifier

LEMMA ReadConditionIsWhole ==
  ASSUME NEW json, AcceptsCondition(json), IsFlat(json)
  PROVE  SerializeCondition(DeserializeCondition(json)) = json
<1> DEFINE c == DeserializeCondition(json)
           f == Content(json)
<1>1. /\ json = <<"object", f>>
      /\ f = [name \in DOMAIN f |-> f[name]]
      /\ \A name \in DOMAIN f : f[name] = <<Kind(f[name]), Content(f[name])>>
      /\ \A name \in DOMAIN f : Kind(f[name]) = "null" => f[name] = Null
  BY DEF AcceptsCondition, IsFlat, IsWhole, IsContainer, Parts, IsValue
<1>2. CASE f.type = String("text")
  <2>1. /\ DOMAIN f = {"type", "field", "text", "match_case", "match_whole_word",
                       "regular_expression"}
        /\ f.field = String(Content(f.field)) /\ f.text = String(Content(f.text))
        /\ f.match_case = Boolean(Content(f.match_case))
        /\ f.match_whole_word = Boolean(Content(f.match_whole_word))
        /\ f.regular_expression = Boolean(Content(f.regular_expression))
        /\ IsKnown(TextFieldIdentifier, Content(f.field))
    BY <1>1, <1>2 DEF AcceptsCondition, ValidateObject, Field, Content, String, Boolean
  <2>2. c = [type |-> "text",
             field |-> FromIdentifier(TextFieldIdentifier, Content(f.field)),
             text |-> Content(f.text),
             match_case |-> Content(f.match_case),
             match_whole_word |-> Content(f.match_whole_word),
             regular_expression |-> Content(f.regular_expression)]
    BY <1>2 DEF DeserializeCondition, Field, Content, String
  <2>3. SerializeCondition(c) = Object(
         [type |-> f.type, field |-> f.field, text |-> f.text,
          match_case |-> f.match_case, match_whole_word |-> f.match_whole_word,
          regular_expression |-> f.regular_expression])
    BY <1>2, <2>1, <2>2, KnownNames DEF SerializeCondition
  <2>4. f = [type |-> f.type, field |-> f.field, text |-> f.text,
             match_case |-> f.match_case, match_whole_word |-> f.match_whole_word,
             regular_expression |-> f.regular_expression]
    BY <1>1, <2>1
  <2> QED BY <1>1, <2>3, <2>4 DEF Object
<1>3. CASE f.type = String("track-kind")
  <2>1. /\ DOMAIN f = {"type", "value"}
        /\ f.value = String(Content(f.value))
        /\ IsKnown(TrackKindIdentifier, Content(f.value))
    BY <1>1, <1>3 DEF AcceptsCondition, ValidateObject, Field, Content, String
  <2>2. c = [type |-> "track-kind",
             value |-> FromIdentifier(TrackKindIdentifier, Content(f.value))]
    BY <1>3 DEF DeserializeCondition, Field, Content, String
  <2>3. SerializeCondition(c) = Object([type |-> f.type, value |-> f.value])
    BY <1>3, <2>1, <2>2, KnownNames DEF SerializeCondition
  <2>4. f = [type |-> f.type, value |-> f.value]
    BY <1>1, <2>1
  <2> QED BY <1>1, <2>3, <2>4 DEF Object
<1>4. CASE f.type = String("edit-type")
  <2>1. /\ DOMAIN f = {"type", "value"}
        /\ f.value = String(Content(f.value))
        /\ IsKnown(EditTypeIdentifier, Content(f.value))
    BY <1>1, <1>4 DEF AcceptsCondition, ValidateObject, Field, Content, String
  <2>2. c = [type |-> "edit-type",
             value |-> FromIdentifier(EditTypeIdentifier, Content(f.value))]
    BY <1>4 DEF DeserializeCondition, Field, Content, String
  <2>3. SerializeCondition(c) = Object([type |-> f.type, value |-> f.value])
    BY <1>4, <2>1, <2>2, KnownNames DEF SerializeCondition
  <2>4. f = [type |-> f.type, value |-> f.value]
    BY <1>1, <2>1
  <2> QED BY <1>1, <2>3, <2>4 DEF Object
<1>5. CASE f.type = String("timecode")
  <2>1. /\ DOMAIN f = {"type", "field", "value"}
        /\ f.field = String(Content(f.field)) /\ f.value = String(Content(f.value))
        /\ IsKnown(TimecodeFieldIdentifier, Content(f.field))
    BY <1>1, <1>5 DEF AcceptsCondition, ValidateObject, Field, Content, String
  <2>2. c = [type |-> "timecode",
             field |-> FromIdentifier(TimecodeFieldIdentifier, Content(f.field)),
             value |-> Content(f.value)]
    BY <1>5 DEF DeserializeCondition, Field, Content, String
  <2>3. SerializeCondition(c) =
          Object([type |-> f.type, field |-> f.field, value |-> f.value])
    BY <1>5, <2>1, <2>2, KnownNames DEF SerializeCondition
  <2>4. f = [type |-> f.type, field |-> f.field, value |-> f.value]
    BY <1>1, <2>1
  <2> QED BY <1>1, <2>3, <2>4 DEF Object
<1>6. CASE f.type = String("duration")
  <2>1. DOMAIN f = {"type", "frames"}
    BY <1>1, <1>6 DEF AcceptsCondition, ValidateObject, Field, Content, String
  <2>2. c = [type |-> "duration", frames |-> f.frames]
    BY <1>6 DEF DeserializeCondition, Field, Content, String
  <2>3. SerializeCondition(c) = Object([type |-> f.type, frames |-> f.frames])
    BY <1>6, <2>2 DEF SerializeCondition
  <2>4. f = [type |-> f.type, frames |-> f.frames]
    BY <1>1, <2>1
  <2> QED BY <1>1, <2>3, <2>4 DEF Object
<1> QED BY <1>2, <1>3, <1>4, <1>5, <1>6 DEF AcceptsCondition

LEMMA ReadTemplateIsWhole ==
  ASSUME NEW json, AcceptsTemplate(json), IsJson(json)
  PROVE  SerializeTemplate(DeserializeTemplate(json)) = json
<1> DEFINE t == DeserializeTemplate(json)
           f == Content(json)
           g == Content(f.filter)
<1>1. /\ json = <<"object", f>>
      /\ f = [name \in DOMAIN f |-> f[name]]
      /\ \A name \in DOMAIN f : IsNested(f[name])
      /\ DOMAIN f = {"schema_version", "identifier", "name", "filter", "event_columns"}
      /\ Kind(f.schema_version) = "integer" /\ Kind(f.identifier) = "string"
      /\ Kind(f.name) = "string" /\ Kind(f.filter) = "object"
      /\ Kind(f.event_columns) = "array"
      /\ Content(f.schema_version) = 1
  BY DEF AcceptsTemplate, ValidateObject, Field, IsJson, IsWhole, IsContainer, Parts, IsValue
<1>2. /\ f.schema_version = Integer(1)
      /\ f.identifier = String(Content(f.identifier))
      /\ f.name = String(Content(f.name))
      /\ f.filter = Object(g)
      /\ f.event_columns = Array(Content(f.event_columns))
  BY <1>1 DEF IsNested, IsWhole, IsContainer, Parts, IsValue, Integer, String, Object, Array
<1>3. /\ g = [name \in DOMAIN g |-> g[name]]
      /\ \A name \in DOMAIN g : IsList(g[name])
      /\ DOMAIN g = {"combination", "conditions"}
      /\ Kind(g.combination) = "string" /\ Kind(g.conditions) = "array"
  <2>1. /\ IsWhole(f.filter) /\ IsContainer(f.filter)
        /\ \A part \in Parts(f.filter) : IsList(part)
    BY <1>1 DEF IsNested, IsContainer
  <2>2. /\ g = [name \in DOMAIN g |-> g[name]]
        /\ \A name \in DOMAIN g : IsList(g[name])
    BY <2>1 DEF IsWhole, Parts
  <2>3. /\ DOMAIN g = {"combination", "conditions"}
        /\ Kind(g.combination) = "string" /\ Kind(g.conditions) = "array"
    BY DEF AcceptsTemplate, ValidateObject, FilterOf
  <2> QED BY <2>2, <2>3
<1>4. /\ g.combination = String(Content(g.combination))
      /\ g.conditions = Array(Content(g.conditions))
      /\ Content(g.conditions) =
           [i \in DOMAIN Content(g.conditions) |-> Content(g.conditions)[i]]
      /\ \A i \in DOMAIN Content(g.conditions) : IsFlat(Content(g.conditions)[i])
  BY <1>3 DEF IsList, IsWhole, IsContainer, Parts, IsValue, String, Array
<1>5. ConditionsOf(json) = Content(g.conditions)
  BY DEF ConditionsOf, FilterOf, Field
<1>6. \A i \in DOMAIN ConditionsOf(json) :
        SerializeCondition(DeserializeCondition(ConditionsOf(json)[i]))
          = ConditionsOf(json)[i]
  BY <1>4, <1>5, ReadConditionIsWhole DEF AcceptsTemplate
<1>7. /\ t.filter.combination =
           FromIdentifier(CombinationIdentifier, Content(g.combination))
      /\ t.filter.conditions = [i \in DOMAIN ConditionsOf(json) |->
                                  DeserializeCondition(ConditionsOf(json)[i])]
      /\ t.identifier = Content(f.identifier) /\ t.name = Content(f.name)
      /\ t.event_projection = ProjectionOf(json)
  BY DEF DeserializeTemplate, Field, FilterOf
<1>8. CombinationIdentifier[t.filter.combination] = Content(g.combination)
  BY <1>7, KnownNames DEF AcceptsTemplate, Field, FilterOf
<1>9. [i \in DOMAIN t.filter.conditions |->
         SerializeCondition(t.filter.conditions[i])] = Content(g.conditions)
  BY <1>4, <1>5, <1>6, <1>7
<1> DEFINE columns == Content(f.event_columns)
<1>10. /\ columns = [i \in DOMAIN columns |-> columns[i]]
       /\ \A i \in DOMAIN columns : columns[i] = String(Content(columns[i]))
       /\ \A i \in DOMAIN columns :
            IsKnown(TimelineEventFieldIdentifier, Content(columns[i]))
       /\ t.event_projection = [i \in DOMAIN columns |->
            FromIdentifier(TimelineEventFieldIdentifier, Content(columns[i]))]
  BY <1>1, <1>7 DEF AcceptsTemplate, ColumnsOf, ProjectionOf, Field, IsNested, IsList,
                IsWhole, IsContainer, Parts, IsFlat, IsValue, String
<1> HIDE DEF t, g, columns
<1>11. [i \in DOMAIN t.event_projection |->
          String(TimelineEventFieldIdentifier[t.event_projection[i]])] = columns
  BY <1>10, KnownNames
<1>12. SerializeTemplate(t) = Object(
         [schema_version |-> f.schema_version, identifier |-> f.identifier,
          name |-> f.name,
          filter |-> Object([combination |-> g.combination,
                             conditions |-> g.conditions]),
          event_columns |-> f.event_columns])
  BY <1>2, <1>4, <1>7, <1>8, <1>9, <1>11 DEF SerializeTemplate, columns
<1>13. g = [combination |-> g.combination, conditions |-> g.conditions]
  BY <1>3
<1>14. f = [schema_version |-> f.schema_version, identifier |-> f.identifier,
            name |-> f.name, filter |-> f.filter, event_columns |-> f.event_columns]
  BY <1>1
<1> QED BY <1>1, <1>2, <1>12, <1>13, <1>14 DEF Object, t

-----------------------------------------------------------------------------
(* The inductive invariant.  ValidateName keeps the names of a list apart  *)
(* only if identifiers do not repeat either, in a list and in what a load  *)
(* has found; and a file is written or removed only in the place of a      *)
(* template, which is no damaged file.                                     *)
Shapes ==
  /\ DOMAIN files = Identifiers
  /\ DOMAIN templates = Processes
  /\ DOMAIN load = Processes
  /\ \A p \in Processes : DOMAIN load[p] = {"listed", "seen", "found", "active"}

HasFile(t) ==
  \/ files[t.identifier] = Absent
  \/ IsTemplateFile(t.identifier, files[t.identifier])

TemplatesHaveFiles ==
  \A p \in Processes : \A t \in templates[p] \union load[p].found :
    IsWritable(t) /\ HasFile(t)

FoundAreSeen ==
  \A p \in Processes : \A t \in load[p].found :
    /\ t.identifier \in load[p].seen
    /\ \A u \in load[p].found : t.identifier = u.identifier => t = u

IInv == Shapes /\ TemplatesHaveFiles /\ FoundAreSeen /\ NamesAreUnique

LEMMA InitHolds == Init => IInv
  BY TemplateCatalogAssumption
     DEF Init, IInv, Shapes, TemplatesHaveFiles, FoundAreSeen, NamesAreUnique, Idle

LEMMA StartLoadKeeps ==
  ASSUME IInv, NEW p \in Processes, StartLoad(p)
  PROVE  IInv'
  BY DEF StartLoad, IInv, Shapes, TemplatesHaveFiles, HasFile, FoundAreSeen,
         NamesAreUnique, Idle

LEMMA FailLoadKeeps ==
  ASSUME IInv, NEW p \in Processes, FailLoad(p)
  PROVE  IInv'
  BY DEF FailLoad, IInv, Shapes, TemplatesHaveFiles, HasFile, FoundAreSeen,
         NamesAreUnique, Idle

LEMMA RestartKeeps ==
  ASSUME IInv, NEW p \in Processes, Restart(p)
  PROVE  IInv'
  BY DEF Restart, IInv, Shapes, TemplatesHaveFiles, HasFile, FoundAreSeen,
         NamesAreUnique, Idle

LEMMA SkipFileKeeps ==
  ASSUME IInv, NEW p \in Processes, NEW id \in Identifiers, SkipFile(p, id)
  PROVE  IInv'
  BY DEF SkipFile, IInv, Shapes, TemplatesHaveFiles, HasFile, FoundAreSeen,
         NamesAreUnique

LEMMA LoadFileKeeps ==
  ASSUME IInv, NEW p \in Processes, NEW id \in Identifiers, LoadFile(p, id)
  PROVE  IInv'
<1> DEFINE t == DeserializeTemplate(files[id])
<1>1. IsWritable(t) /\ t.identifier = id /\ HasFile(t)
  BY ReadIsWritable DEF LoadFile, IsTemplateFile, HasFile
<1> HIDE DEF t
<1>2. /\ load' = [load EXCEPT ![p].seen = @ \union {id}, ![p].found = @ \union {t}]
      /\ id \notin load[p].seen
      /\ UNCHANGED <<files, templates>>
  BY DEF LoadFile, t
<1>3. /\ load'[p].seen = load[p].seen \union {id}
      /\ load'[p].found = load[p].found \union {t}
      /\ \A q \in Processes : q # p => load'[q] = load[q]
      /\ DOMAIN load' = Processes
      /\ \A q \in Processes : DOMAIN load'[q] = {"listed", "seen", "found", "active"}
  BY <1>2 DEF IInv, Shapes
<1>4. TemplatesHaveFiles'
  BY <1>1, <1>2, <1>3 DEF IInv, TemplatesHaveFiles, HasFile
<1>5. FoundAreSeen'
  BY <1>1, <1>2, <1>3 DEF IInv, FoundAreSeen
<1> QED BY <1>2, <1>3, <1>4, <1>5 DEF IInv, Shapes, NamesAreUnique

LEMMA FinishLoadKeeps ==
  ASSUME IInv, NEW p \in Processes, FinishLoad(p)
  PROVE  IInv'
<1>1. PICK chosen \in OnePerName(load[p].found) :
        templates' = [templates EXCEPT ![p] = chosen]
  BY DEF FinishLoad
<1>2. /\ chosen \subseteq load[p].found
      /\ \A t, u \in chosen : t.name = u.name \/ t.identifier = u.identifier => t = u
  BY DEF OnePerName, IInv, FoundAreSeen
<1> QED BY <1>1, <1>2 DEF FinishLoad, IInv, Shapes, TemplatesHaveFiles, HasFile,
               FoundAreSeen, NamesAreUnique, Idle

(* Every mutation but Remove saves one template of which it may be said:   *)
SaveIsSound(p, t) ==
  /\ IsWritable(t)
  /\ \A u \in templates[p] : u.identifier # t.identifier => u.name # t.name

LEMMA SaveKeeps ==
  ASSUME IInv, NEW p \in Processes, NEW t, SaveIsSound(p, t), Save(p, t),
         UNCHANGED load
  PROVE  IInv'
<1>1. IsTemplateFile(t.identifier, SerializeTemplate(t)) /\ t.identifier \in Identifiers
  BY SerializedIsAccepted DEF SaveIsSound, IsWritable
<1>2. /\ files'[t.identifier] = SerializeTemplate(t)
      /\ \A id \in Identifiers : id # t.identifier => files'[id] = files[id]
      /\ DOMAIN files' = Identifiers
  BY <1>1 DEF Save, IInv, Shapes
<1>3. /\ templates'[p] = (templates[p] \ Find(p, t.identifier)) \union {t}
      /\ \A q \in Processes : q # p => templates'[q] = templates[q]
      /\ DOMAIN templates' = Processes
  BY DEF Save, IInv, Shapes
<1>4. ASSUME NEW u, IsWritable(u), HasFile(u) \/ u = t
      PROVE  HasFile(u)'
  BY <1>1, <1>2, <1>4 DEF HasFile, IsWritable
<1>5. TemplatesHaveFiles'
  BY <1>3, <1>4 DEF IInv, TemplatesHaveFiles, SaveIsSound
<1>6. NamesAreUnique'
  BY <1>3 DEF IInv, NamesAreUnique, SaveIsSound, Find
<1> QED BY <1>2, <1>3, <1>5, <1>6 DEF IInv, Shapes, FoundAreSeen

LEMMA NewFilterIsWritable ==
  ASSUME NEW t, NEW filter \in FilterQueries, NEW projection \in Seq(EventFields),
         IsValidTimelineEventProjection(projection),
         DOMAIN t = {"identifier", "name", "filter", "event_projection"},
         t.identifier \in Identifiers, t.name # EmptyText,
         t.filter = filter, t.event_projection = projection
  PROVE  IsWritable(t)
<1>1. /\ filter.combination \in DOMAIN CombinationIdentifier
      /\ \A i \in DOMAIN filter.conditions : filter.conditions[i] \in Conditions
  BY DEF FilterQueries
<1>2. /\ projection = [i \in DOMAIN projection |-> projection[i]]
      /\ \A i \in DOMAIN projection : projection[i] \in EventFields
  OBVIOUS
<1> QED BY <1>1, <1>2, SavedConditionIsAccepted DEF IsWritable

LEMMA CreateKeeps ==
  ASSUME IInv, NEW p \in Processes, NEW name \in Texts \ {EmptyText},
         NEW filter, NEW projection, Create(p, name, filter, projection),
         \A id \in Identifiers :
           IsWritable([identifier |-> id, name |-> name, filter |-> filter,
                       event_projection |-> projection])
  PROVE  IInv'
<1>1. PICK id \in FreshIdentifiers :
        Save(p, [identifier |-> id, name |-> name, filter |-> filter,
                 event_projection |-> projection])
  BY DEF Create
<1> DEFINE t == [identifier |-> id, name |-> name, filter |-> filter,
                 event_projection |-> projection]
<1>2. IsWritable(t) /\ t.name = name
  BY <1>1 DEF FreshIdentifiers
<1>3. \A u \in templates[p] : u.name # t.name
  BY <1>2, TemplateFileAssumption
     DEF Create, ValidateName, IInv, TemplatesHaveFiles, IsWritable
<1> HIDE DEF t
<1>4. SaveIsSound(p, t)
  BY <1>2, <1>3 DEF SaveIsSound
<1>5. Save(p, t) /\ UNCHANGED load
  BY <1>1 DEF Create, t
<1> QED BY <1>4, <1>5, SaveKeeps

LEMMA UpdateKeeps ==
  ASSUME IInv, NEW p \in Processes, NEW id \in Identifiers,
         NEW filter \in FilterQueries, NEW projection \in Seq(EventFields),
         Update(p, id, filter, projection)
  PROVE  IInv'
<1>1. PICK t \in Find(p, id) :
        Save(p, [t EXCEPT !.filter = filter, !.event_projection = projection])
  BY DEF Update
<1> DEFINE u == [t EXCEPT !.filter = filter, !.event_projection = projection]
<1>2. t \in templates[p] /\ IsWritable(t)
  BY <1>1 DEF Find, IInv, TemplatesHaveFiles
<1>3. /\ DOMAIN u = {"identifier", "name", "filter", "event_projection"}
      /\ u.identifier = t.identifier /\ u.name = t.name
      /\ u.filter = filter /\ u.event_projection = projection
  BY <1>2 DEF IsWritable
<1> HIDE DEF u
<1>4. IsWritable(u)
  BY <1>2, <1>3, NewFilterIsWritable DEF Update, IsWritable
<1>5. \A v \in templates[p] : v.identifier # u.identifier => v.name # u.name
  BY <1>2, <1>3 DEF IInv, NamesAreUnique
<1>6. Save(p, u) /\ UNCHANGED load
  BY <1>1 DEF Update, u
<1> QED BY <1>4, <1>5, <1>6, SaveKeeps DEF SaveIsSound

LEMMA RenameKeeps ==
  ASSUME IInv, NEW p \in Processes, NEW id \in Identifiers,
         NEW name \in Texts \ {EmptyText}, Rename(p, id, name)
  PROVE  IInv'
<1>1. PICK t \in Find(p, id) : Save(p, [t EXCEPT !.name = name])
  BY DEF Rename
<1> DEFINE u == [t EXCEPT !.name = name]
<1>2. t \in templates[p] /\ IsWritable(t) /\ t.identifier = id
  BY <1>1 DEF Find, IInv, TemplatesHaveFiles
<1>3. /\ DOMAIN u = {"identifier", "name", "filter", "event_projection"}
      /\ u.identifier = id /\ u.name = name
      /\ u.filter = t.filter /\ u.event_projection = t.event_projection
  BY <1>2 DEF IsWritable
<1> HIDE DEF u
<1>4. IsWritable(u)
  BY <1>2, <1>3 DEF IsWritable
<1>5. \A v \in templates[p] : v.identifier # u.identifier => v.name # u.name
  BY <1>3 DEF Rename, ValidateName
<1>6. Save(p, u) /\ UNCHANGED load
  BY <1>1 DEF Rename, u
<1> QED BY <1>4, <1>5, <1>6, SaveKeeps DEF SaveIsSound

LEMMA DuplicateKeeps ==
  ASSUME IInv, NEW p \in Processes, NEW id \in Identifiers,
         NEW name \in Texts \ {EmptyText}, Duplicate(p, id, name)
  PROVE  IInv'
<1>1. PICK t \in Find(p, id) : Create(p, name, t.filter, t.event_projection)
  BY DEF Duplicate
<1>2. IsWritable(t)
  BY <1>1 DEF Find, IInv, TemplatesHaveFiles
<1>3. \A i \in Identifiers :
        IsWritable([identifier |-> i, name |-> name, filter |-> t.filter,
                    event_projection |-> t.event_projection])
  BY <1>2 DEF IsWritable
<1> QED BY <1>1, <1>3, CreateKeeps

LEMMA RemoveKeeps ==
  ASSUME IInv, NEW p \in Processes, NEW id \in Identifiers, Remove(p, id)
  PROVE  IInv'
<1>1. /\ files' = [files EXCEPT ![id] = Absent]
      /\ templates' = [templates EXCEPT ![p] = @ \ Find(p, id)]
      /\ UNCHANGED load
  BY DEF Remove, RemoveFile
<1>2. ASSUME NEW t, IsWritable(t), HasFile(t) PROVE HasFile(t)'
  BY <1>1, <1>2 DEF HasFile, IInv, Shapes, IsWritable
<1>3. TemplatesHaveFiles'
  BY <1>1, <1>2 DEF IInv, Shapes, TemplatesHaveFiles
<1> QED BY <1>1, <1>3 DEF IInv, Shapes, FoundAreSeen, NamesAreUnique

LEMMA StepKeeps == IInv /\ [Next]_vars => IInv'
<1> SUFFICES ASSUME IInv, [Next]_vars PROVE IInv'
  OBVIOUS
<1>1. CASE UNCHANGED vars
  BY <1>1 DEF vars, IInv, Shapes, TemplatesHaveFiles, HasFile, FoundAreSeen,
              NamesAreUnique
<1>2. ASSUME NEW p \in Processes,
             StartLoad(p) \/ FailLoad(p) \/ FinishLoad(p) \/ Restart(p)
      PROVE  IInv'
  BY <1>2, StartLoadKeeps, FailLoadKeeps, FinishLoadKeeps, RestartKeeps
<1>3. ASSUME NEW p \in Processes, NEW id \in Identifiers,
             LoadFile(p, id) \/ SkipFile(p, id) \/ Remove(p, id)
      PROVE  IInv'
  BY <1>3, LoadFileKeeps, SkipFileKeeps, RemoveKeeps
<1>4. ASSUME NEW p \in Processes, NEW name \in Names, NEW filter \in Filters,
             NEW projection \in Projections, Create(p, name, filter, projection)
      PROVE  IInv'
  <2>1. /\ name \in Texts \ {EmptyText}
        /\ filter \in FilterQueries /\ projection \in Seq(EventFields)
        /\ IsValidTimelineEventProjection(projection)
    BY <1>4, TemplateCatalogAssumption DEF Create
  <2>2. ASSUME NEW id \in Identifiers
        PROVE  IsWritable([identifier |-> id, name |-> name, filter |-> filter,
                           event_projection |-> projection])
    <3> DEFINE t == [identifier |-> id, name |-> name, filter |-> filter,
                     event_projection |-> projection]
    <3>1. /\ DOMAIN t = {"identifier", "name", "filter", "event_projection"}
          /\ t.identifier \in Identifiers /\ t.name # EmptyText
          /\ t.filter = filter /\ t.event_projection = projection
      BY <2>1
    <3> HIDE DEF t
    <3> QED BY <2>1, <3>1, NewFilterIsWritable DEF t
  <2> QED BY <1>4, <2>1, <2>2, CreateKeeps
<1>5. ASSUME NEW p \in Processes, NEW id \in Identifiers, NEW filter \in Filters,
             NEW projection \in Projections, Update(p, id, filter, projection)
      PROVE  IInv'
  BY <1>5, UpdateKeeps, TemplateCatalogAssumption
<1>6. ASSUME NEW p \in Processes, NEW id \in Identifiers, NEW name \in Names,
             Rename(p, id, name) \/ Duplicate(p, id, name)
      PROVE  IInv'
  BY <1>6, RenameKeeps, DuplicateKeeps, TemplateCatalogAssumption
<1> QED BY <1>1, <1>2, <1>3, <1>4, <1>5, <1>6 DEF Next

(* The inductive invariant of the catalogues, for any number of processes, *)
(* identifiers, names, filters and columns, and whatever the directory     *)
(* held before.                                                            *)
THEOREM Invariance == Spec => []IInv
  BY InitHolds, StepKeeps, PTL DEF Spec

(* No list ever holds two templates of one name or of one identifier.      *)
THEOREM UniqueNames == Spec => []NamesAreUnique
<1>1. IInv => NamesAreUnique
  BY DEF IInv
<1> QED BY <1>1, Invariance, PTL

(* Only the file of a template, or no file, is ever written or removed.    *)
LEMMA StepSparesDamaged ==
  ASSUME IInv, [Next]_vars, NEW id \in Existing, ~IsTemplateFile(id, files[id])
  PROVE  files'[id] = files[id]
<1>1. id \in Identifiers /\ files[id] # Absent
  BY DEF Existing
<1>2. ASSUME NEW p \in Processes, NEW t \in templates[p]
      PROVE  t.identifier # id
  BY <1>1, <1>2 DEF IInv, TemplatesHaveFiles, HasFile
<1>3. ASSUME NEW p \in Processes, NEW t, Save(p, t), t.identifier # id
      PROVE  files'[id] = files[id]
  BY <1>1, <1>3 DEF Save, IInv, Shapes
<1>4. ASSUME NEW p \in Processes, NEW name, NEW filter, NEW projection,
             Create(p, name, filter, projection)
      PROVE  files'[id] = files[id]
  <2>1. PICK fresh \in FreshIdentifiers :
          Save(p, [identifier |-> fresh, name |-> name, filter |-> filter,
                   event_projection |-> projection])
    BY <1>4 DEF Create
  <2>2. fresh # id
    BY <1>1, <2>1 DEF FreshIdentifiers
  <2> QED BY <1>3, <2>1, <2>2
<1>5. ASSUME NEW p \in Processes, NEW i \in Identifiers, NEW filter, NEW projection,
             Update(p, i, filter, projection)
      PROVE  files'[id] = files[id]
  <2>1. PICK t \in Find(p, i) :
          Save(p, [t EXCEPT !.filter = filter, !.event_projection = projection])
    BY <1>5 DEF Update
  <2>2. t \in templates[p] /\ IsWritable(t)
    BY <2>1 DEF Find, IInv, TemplatesHaveFiles
  <2>3. [t EXCEPT !.filter = filter, !.event_projection = projection].identifier
          = t.identifier
    BY <2>2 DEF IsWritable
  <2> QED BY <1>2, <1>3, <2>1, <2>2, <2>3
<1>6. ASSUME NEW p \in Processes, NEW i \in Identifiers, NEW name, Rename(p, i, name)
      PROVE  files'[id] = files[id]
  <2>1. PICK t \in Find(p, i) : Save(p, [t EXCEPT !.name = name])
    BY <1>6 DEF Rename
  <2>2. t \in templates[p] /\ IsWritable(t)
    BY <2>1 DEF Find, IInv, TemplatesHaveFiles
  <2>3. [t EXCEPT !.name = name].identifier = t.identifier
    BY <2>2 DEF IsWritable
  <2> QED BY <1>2, <1>3, <2>1, <2>2, <2>3
<1>7. ASSUME NEW p \in Processes, NEW i \in Identifiers, Remove(p, i)
      PROVE  files'[id] = files[id]
  <2>1. PICK t \in templates[p] : t.identifier = i
    BY <1>7 DEF Remove, Find
  <2>2. i # id
    BY <1>2, <2>1
  <2> QED BY <1>1, <1>7, <2>2 DEF Remove, RemoveFile, IInv, Shapes
<1>8. ASSUME NEW p \in Processes, NEW i \in Identifiers, NEW name, Duplicate(p, i, name)
      PROVE  files'[id] = files[id]
  BY <1>4, <1>8 DEF Duplicate
<1>9. ASSUME NEW p \in Processes, NEW i \in Identifiers,
             \/ StartLoad(p) \/ FailLoad(p) \/ FinishLoad(p) \/ Restart(p)
             \/ LoadFile(p, i) \/ SkipFile(p, i)
      PROVE  files'[id] = files[id]
  BY <1>9 DEF StartLoad, FailLoad, FinishLoad, Restart, LoadFile, SkipFile
<1>10. CASE UNCHANGED vars
  BY <1>10 DEF vars
<1> QED BY <1>1, <1>4, <1>5, <1>6, <1>7, <1>8, <1>9, <1>10 DEF Next

(* A file that is no template of this version stays as it is.              *)
THEOREM DamagedFilesKept == Spec => DamagedFilesSurvive
<1>1. IInv /\ [Next]_vars =>
        [\A id \in Existing :
           ~IsTemplateFile(id, files[id]) => files'[id] = files[id]]_vars
  BY StepSparesDamaged
<1> QED BY <1>1, Invariance, PTL DEF Spec, DamagedFilesSurvive

-----------------------------------------------------------------------------
(* What the service writes is JSON, to the depth that is read.             *)
IsPlain(t) ==
  \A i \in DOMAIN t.filter.conditions :
    IsFlat(SerializeCondition(t.filter.conditions[i]))

LEMMA SavedConditionIsFlat ==
  ASSUME NEW c \in Conditions
  PROVE  IsFlat(SerializeCondition(c))
<1>1. CASE c.type = "text"
  BY <1>1 DEF SerializeCondition, IsFlat, IsWhole, IsContainer, Parts, IsValue, Kind,
              Content, String, Boolean, Object
<1>2. CASE c.type = "track-kind"
  BY <1>2 DEF SerializeCondition, IsFlat, IsWhole, IsContainer, Parts, IsValue, Kind,
              Content, String, Object
<1>3. CASE c.type = "edit-type"
  BY <1>3 DEF SerializeCondition, IsFlat, IsWhole, IsContainer, Parts, IsValue, Kind,
              Content, String, Object
<1>4. CASE c.type = "timecode"
  BY <1>4 DEF SerializeCondition, IsFlat, IsWhole, IsContainer, Parts, IsValue, Kind,
              Content, String, Object
<1>5. CASE c.type = "duration"
  <2>1. IsValue(c.frames)
    BY <1>5 DEF Conditions, IsValue, Null, Integer, Kind, Content
  <2> QED BY <1>5, <2>1 DEF SerializeCondition, IsFlat, IsWhole, IsContainer, Parts,
                IsValue, Kind, Content, String, Object
<1> QED BY <1>1, <1>2, <1>3, <1>4, <1>5 DEF Conditions

LEMMA ReadIsPlain ==
  ASSUME NEW json, AcceptsTemplate(json), IsJson(json)
  PROVE  IsPlain(DeserializeTemplate(json))
<1> DEFINE conditions == ConditionsOf(json)
<1>1. /\ IsNested(FilterOf(json))
      /\ Kind(FilterOf(json)) = "object"
      /\ "conditions" \in DOMAIN Content(FilterOf(json))
      /\ Kind(Content(FilterOf(json)).conditions) = "array"
  BY DEF AcceptsTemplate, ValidateObject, FilterOf, IsJson, IsContainer, Parts
<1>2. IsList(Content(FilterOf(json)).conditions)
  BY <1>1 DEF IsNested, IsContainer, Parts
<1>3. \A i \in DOMAIN conditions : IsFlat(conditions[i])
  BY <1>1, <1>2 DEF IsList, IsContainer, Parts, ConditionsOf, Field
<1>4. \A i \in DOMAIN conditions :
        SerializeCondition(DeserializeCondition(conditions[i])) = conditions[i]
  BY <1>3, ReadConditionIsWhole DEF AcceptsTemplate
<1> QED BY <1>3, <1>4 DEF IsPlain, DeserializeTemplate

LEMMA SerializedIsJson ==
  ASSUME NEW t, IsPlain(t)
  PROVE  IsJson(SerializeTemplate(t))
<1> DEFINE conditions == [i \in DOMAIN t.filter.conditions |->
                            SerializeCondition(t.filter.conditions[i])]
           columns == [i \in DOMAIN t.event_projection |->
             String(TimelineEventFieldIdentifier[t.event_projection[i]])]
           filter == [combination |-> String(CombinationIdentifier[t.filter.combination]),
                      conditions |-> Array(conditions)]
<1>1. \A s : IsValue(String(s)) /\ IsFlat(String(s)) /\ IsList(String(s))
             /\ IsNested(String(s))
  BY DEF IsNested, IsList, IsFlat, IsWhole, IsContainer, IsValue, Kind, Content, String
<1>2. IsNested(Integer(1))
  BY DEF IsNested, IsWhole, IsContainer, IsValue, Kind, Content, Integer
<1>3. IsList(Array(conditions))
  BY DEF IsPlain, IsList, IsWhole, IsContainer, Parts, IsValue, Kind, Content, Array
<1>4. IsNested(Array(columns))
  <2>1. \A part \in Parts(Array(columns)) : IsList(part)
    BY <1>1 DEF Parts, Content, Array
  <2>2. IsWhole(Array(columns))
    BY DEF IsWhole, IsValue, Kind, Content, Array
  <2> QED BY <2>1, <2>2 DEF IsNested
<1> HIDE DEF conditions, columns
<1>5. IsNested(Object(filter))
  <2>1. \A part \in Parts(Object(filter)) : IsList(part)
    BY <1>1, <1>3 DEF Parts, Content, Object
  <2>2. IsWhole(Object(filter))
    BY DEF IsWhole, IsValue, Kind, Content, Object
  <2> QED BY <2>1, <2>2 DEF IsNested
<1> HIDE DEF filter
<1>6. SerializeTemplate(t) = Object(
        [schema_version |-> Integer(1), identifier |-> String(t.identifier),
         name |-> String(t.name), filter |-> Object(filter),
         event_columns |-> Array(columns)])
  BY DEF SerializeTemplate, filter, conditions, columns
<1> QED BY <1>1, <1>2, <1>4, <1>5, <1>6
           DEF IsJson, IsWhole, IsContainer, Parts, IsValue, Kind, Content, Object

(* The invariant under which a list agrees with the files: a service has   *)
(* templates only once loaded and a scan under way only before, so that a  *)
(* file it reads or writes is held in one place only.                      *)
Phases ==
  /\ DOMAIN outdated = Processes
  /\ DOMAIN loaded = Processes
  /\ \A p \in Processes :
       /\ load[p].active => ~loaded[p]
       /\ ~load[p].active => load[p].found = {}
       /\ ~loaded[p] => templates[p] = {}

FilesAreJson == \A id \in Identifiers : files[id] = Absent \/ IsJson(files[id])

Agrees(p, t) ==
  /\ IsPlain(t)
  /\ t.identifier \notin outdated[p] => files[t.identifier] = SerializeTemplate(t)

ListsAgree ==
  \A p \in Processes : \A t \in templates[p] \union load[p].found : Agrees(p, t)

MInv == Phases /\ FilesAreJson /\ ListsAgree

LEMMA MInitHolds == Init => MInv
  BY TemplateCatalogAssumption
     DEF Init, MInv, Phases, FilesAreJson, ListsAgree, Idle

LEMMA ScanKeepsMInv ==
  ASSUME IInv, MInv, NEW p \in Processes,
         \/ StartLoad(p) \/ FailLoad(p) \/ Restart(p)
         \/ \E id \in Identifiers : SkipFile(p, id)
  PROVE  MInv'
<1>1. UNCHANGED <<files, outdated>> /\ DOMAIN load' = Processes
      /\ \A q \in Processes : q # p =>
           load'[q] = load[q] /\ templates'[q] = templates[q] /\ loaded'[q] = loaded[q]
  BY DEF StartLoad, FailLoad, Restart, SkipFile, IInv, Shapes, MInv, Phases
<1>2. /\ templates'[p] \subseteq templates[p]
      /\ load'[p].found \subseteq load[p].found
      /\ load'[p].active => ~loaded'[p]
      /\ ~load'[p].active => load'[p].found = {}
      /\ ~loaded'[p] => templates'[p] = {}
      /\ DOMAIN loaded' = Processes
  <2>1. CASE StartLoad(p)
    BY <2>1 DEF StartLoad, IInv, Shapes, MInv, Phases, Idle
  <2>2. CASE FailLoad(p)
    BY <2>2 DEF FailLoad, IInv, Shapes, MInv, Phases, Idle
  <2>3. CASE Restart(p)
    BY <2>3 DEF Restart, IInv, Shapes, MInv, Phases, Idle
  <2>4. ASSUME NEW id \in Identifiers, SkipFile(p, id)
        PROVE  /\ templates' = templates /\ loaded' = loaded
               /\ load'[p].found = load[p].found
               /\ load'[p].active = load[p].active
    BY <2>4 DEF SkipFile, IInv, Shapes
  <2> QED BY <2>1, <2>2, <2>3, <2>4 DEF MInv, Phases
<1>3. Phases'
  BY <1>1, <1>2 DEF MInv, Phases
<1>4. ListsAgree'
  BY <1>1, <1>2 DEF MInv, ListsAgree, Agrees
<1> QED BY <1>1, <1>3, <1>4 DEF MInv, FilesAreJson

LEMMA LoadFileKeepsMInv ==
  ASSUME IInv, MInv, NEW p \in Processes, NEW id \in Identifiers, LoadFile(p, id)
  PROVE  MInv'
<1> DEFINE t == DeserializeTemplate(files[id])
<1>1. /\ AcceptsTemplate(files[id]) /\ IsJson(files[id]) /\ t.identifier = id
  BY DEF LoadFile, Existing, IsTemplateFile, MInv, FilesAreJson
<1>2. IsPlain(t) /\ SerializeTemplate(t) = files[id]
  BY <1>1, ReadIsPlain, ReadTemplateIsWhole
<1> HIDE DEF t
<1>3. /\ load' = [load EXCEPT ![p].seen = @ \union {id}, ![p].found = @ \union {t}]
      /\ outdated' = [outdated EXCEPT ![p] = @ \ {id}]
      /\ load[p].active /\ id \notin load[p].seen
      /\ UNCHANGED <<files, templates, loaded>>
  BY DEF LoadFile, t
<1>4. /\ load'[p].found = load[p].found \union {t}
      /\ load'[p].active = load[p].active
      /\ \A q \in Processes : q # p => load'[q] = load[q] /\ outdated'[q] = outdated[q]
      /\ outdated'[p] = outdated[p] \ {id}
      /\ DOMAIN outdated' = Processes
  BY <1>3 DEF IInv, Shapes, MInv, Phases
<1>5. Phases'
  BY <1>3, <1>4 DEF MInv, Phases
<1>6. templates[p] = {}
  BY <1>3 DEF MInv, Phases
<1>7. \A u \in load[p].found : u.identifier # id /\ Agrees(p, u)
  BY <1>3 DEF IInv, FoundAreSeen, MInv, ListsAgree
<1>8. \A u \in load'[p].found : Agrees(p, u)'
  BY <1>1, <1>2, <1>3, <1>4, <1>7 DEF Agrees
<1>9. \A q \in Processes : q # p =>
        \A u \in templates'[q] \union load'[q].found : Agrees(q, u)'
  BY <1>3, <1>4 DEF MInv, ListsAgree, Agrees
<1> QED BY <1>3, <1>5, <1>6, <1>8, <1>9 DEF MInv, ListsAgree, FilesAreJson

LEMMA FinishLoadKeepsMInv ==
  ASSUME IInv, MInv, NEW p \in Processes, FinishLoad(p)
  PROVE  MInv'
<1>1. PICK chosen \in OnePerName(load[p].found) :
        templates' = [templates EXCEPT ![p] = chosen]
  BY DEF FinishLoad
<1>2. /\ templates'[p] \subseteq load[p].found
      /\ load'[p] = Idle /\ loaded'[p] = TRUE /\ DOMAIN loaded' = Processes
      /\ \A q \in Processes : q # p =>
           load'[q] = load[q] /\ templates'[q] = templates[q] /\ loaded'[q] = loaded[q]
      /\ UNCHANGED <<files, outdated>>
  BY <1>1 DEF FinishLoad, OnePerName, IInv, Shapes, MInv, Phases
<1>3. Phases'
  BY <1>2 DEF MInv, Phases, Idle
<1>4. ListsAgree'
  BY <1>2 DEF MInv, ListsAgree, Agrees, Idle
<1> QED BY <1>2, <1>3, <1>4 DEF MInv, FilesAreJson

LEMMA SaveKeepsMInv ==
  ASSUME IInv, MInv, NEW p \in Processes, loaded[p], NEW t,
         IsWritable(t), IsPlain(t), Save(p, t), UNCHANGED <<loaded, load>>
  PROVE  MInv'
<1>1. t.identifier \in Identifiers /\ IsJson(SerializeTemplate(t))
  BY SerializedIsJson DEF IsWritable
<1>2. /\ files'[t.identifier] = SerializeTemplate(t)
      /\ \A id \in Identifiers : id # t.identifier => files'[id] = files[id]
  BY <1>1 DEF Save, IInv, Shapes
<1>3. /\ templates'[p] = {u \in templates[p] : u.identifier # t.identifier} \union {t}
      /\ \A q \in Processes : q # p => templates'[q] = templates[q]
      /\ \A q \in Processes : q # p => outdated'[q] = outdated[q] \union {t.identifier}
      /\ outdated'[p] = outdated[p] \ {t.identifier}
      /\ DOMAIN outdated' = Processes
  BY DEF Save, Touch, Find, IInv, Shapes
<1>4. Phases'
  BY <1>3 DEF MInv, Phases
<1>5. load[p].found = {}
  BY DEF MInv, Phases
<1>6. ASSUME NEW u \in templates'[p] PROVE Agrees(p, u)'
  <2>1. CASE u = t
    BY <1>2, <2>1 DEF Agrees
  <2>2. CASE u \in templates[p] /\ u.identifier # t.identifier
    BY <1>2, <1>3, <2>2 DEF IInv, TemplatesHaveFiles, IsWritable, MInv, ListsAgree, Agrees
  <2> QED BY <1>3, <1>6, <2>1, <2>2
<1>7. ASSUME NEW q \in Processes, q # p, NEW u \in templates'[q] \union load'[q].found
      PROVE  Agrees(q, u)'
  <2>1. IsWritable(u) /\ Agrees(q, u)
    BY <1>3, <1>7 DEF IInv, TemplatesHaveFiles, MInv, ListsAgree
  <2> QED BY <1>2, <1>3, <1>7, <2>1 DEF IsWritable, Agrees
<1>8. ListsAgree'
  BY <1>5, <1>6, <1>7 DEF ListsAgree
<1>9. FilesAreJson'
  BY <1>1, <1>2 DEF MInv, FilesAreJson
<1> QED BY <1>4, <1>8, <1>9 DEF MInv

LEMMA CreateKeepsMInv ==
  ASSUME IInv, MInv, NEW p \in Processes, NEW name, NEW filter, NEW projection,
         Create(p, name, filter, projection),
         \A id \in Identifiers :
           LET t == [identifier |-> id, name |-> name, filter |-> filter,
                     event_projection |-> projection]
           IN  IsWritable(t) /\ IsPlain(t)
  PROVE  MInv'
<1>1. PICK id \in FreshIdentifiers :
        Save(p, [identifier |-> id, name |-> name, filter |-> filter,
                 event_projection |-> projection])
  BY DEF Create
<1> QED BY <1>1, SaveKeepsMInv DEF Create, ValidateName, FreshIdentifiers

LEMMA SavedIsPlain ==
  ASSUME NEW t, NEW filter \in FilterQueries, t.filter = filter
  PROVE  IsPlain(t)
<1>1. \A i \in DOMAIN filter.conditions : filter.conditions[i] \in Conditions
  BY DEF FilterQueries
<1> QED BY <1>1, SavedConditionIsFlat DEF IsPlain

LEMMA UpdateKeepsMInv ==
  ASSUME IInv, MInv, NEW p \in Processes, NEW id \in Identifiers,
         NEW filter \in FilterQueries, NEW projection \in Seq(EventFields),
         Update(p, id, filter, projection)
  PROVE  MInv'
<1>1. PICK t \in Find(p, id) :
        Save(p, [t EXCEPT !.filter = filter, !.event_projection = projection])
  BY DEF Update
<1> DEFINE u == [t EXCEPT !.filter = filter, !.event_projection = projection]
<1>2. t \in templates[p] /\ IsWritable(t)
  BY <1>1 DEF Find, IInv, TemplatesHaveFiles
<1>3. /\ DOMAIN u = {"identifier", "name", "filter", "event_projection"}
      /\ u.identifier = t.identifier /\ u.name = t.name
      /\ u.filter = filter /\ u.event_projection = projection
  BY <1>2 DEF IsWritable
<1>4. Save(p, u) /\ UNCHANGED <<loaded, load>> /\ loaded[p]
  BY <1>1 DEF Update
<1> HIDE DEF u
<1>5. IsWritable(u)
  BY <1>2, <1>3, NewFilterIsWritable DEF Update, IsWritable
<1>6. IsPlain(u)
  BY <1>3, SavedIsPlain
<1> QED BY <1>4, <1>5, <1>6, SaveKeepsMInv

LEMMA RenameKeepsMInv ==
  ASSUME IInv, MInv, NEW p \in Processes, NEW id \in Identifiers,
         NEW name \in Texts \ {EmptyText}, Rename(p, id, name)
  PROVE  MInv'
<1>1. PICK t \in Find(p, id) : Save(p, [t EXCEPT !.name = name])
  BY DEF Rename
<1> DEFINE u == [t EXCEPT !.name = name]
<1>2. t \in templates[p] /\ IsWritable(t) /\ IsPlain(t)
  BY <1>1 DEF Find, IInv, TemplatesHaveFiles, MInv, ListsAgree, Agrees
<1>3. /\ DOMAIN u = {"identifier", "name", "filter", "event_projection"}
      /\ u.identifier = t.identifier /\ u.name = name
      /\ u.filter = t.filter /\ u.event_projection = t.event_projection
  BY <1>2 DEF IsWritable
<1>4. Save(p, u) /\ UNCHANGED <<loaded, load>> /\ loaded[p]
  BY <1>1 DEF Rename, ValidateName
<1> HIDE DEF u
<1>5. IsWritable(u) /\ IsPlain(u)
  BY <1>2, <1>3 DEF IsWritable, IsPlain
<1> QED BY <1>4, <1>5, SaveKeepsMInv

LEMMA DuplicateKeepsMInv ==
  ASSUME IInv, MInv, NEW p \in Processes, NEW id \in Identifiers,
         NEW name \in Texts \ {EmptyText}, Duplicate(p, id, name)
  PROVE  MInv'
<1>1. PICK t \in Find(p, id) : Create(p, name, t.filter, t.event_projection)
  BY DEF Duplicate
<1>2. IsWritable(t) /\ IsPlain(t)
  BY <1>1 DEF Find, IInv, TemplatesHaveFiles, MInv, ListsAgree, Agrees
<1>3. \A i \in Identifiers :
        LET u == [identifier |-> i, name |-> name, filter |-> t.filter,
                  event_projection |-> t.event_projection]
        IN  IsWritable(u) /\ IsPlain(u)
  BY <1>2 DEF IsWritable, IsPlain
<1> QED BY <1>1, <1>3, CreateKeepsMInv

LEMMA RemoveKeepsMInv ==
  ASSUME IInv, MInv, NEW p \in Processes, NEW id \in Identifiers, Remove(p, id)
  PROVE  MInv'
<1>1. /\ files'[id] = Absent
      /\ \A i \in Identifiers : i # id => files'[i] = files[i]
      /\ templates'[p] = {t \in templates[p] : t.identifier # id}
      /\ \A q \in Processes : q # p => templates'[q] = templates[q]
      /\ \A q \in Processes : q # p => outdated'[q] = outdated[q] \union {id}
      /\ outdated'[p] = outdated[p] \ {id}
      /\ DOMAIN outdated' = Processes
      /\ loaded[p] /\ UNCHANGED <<loaded, load>>
  BY DEF Remove, RemoveFile, Touch, Find, IInv, Shapes
<1>2. Phases'
  BY <1>1 DEF MInv, Phases
<1>3. ASSUME NEW q \in Processes, NEW u \in templates'[q] \union load'[q].found
      PROVE  Agrees(q, u)'
  <2>1. IsWritable(u) /\ Agrees(q, u)
    BY <1>1, <1>3 DEF IInv, TemplatesHaveFiles, MInv, ListsAgree
  <2>2. CASE q = p
    BY <1>1, <1>3, <2>1, <2>2 DEF IsWritable, Agrees, MInv, Phases
  <2>3. CASE q # p
    BY <1>1, <2>1, <2>3 DEF IsWritable, Agrees
  <2> QED BY <2>2, <2>3
<1> QED BY <1>1, <1>2, <1>3 DEF MInv, ListsAgree, FilesAreJson

LEMMA StepKeepsMInv == IInv /\ MInv /\ [Next]_vars => MInv'
<1> SUFFICES ASSUME IInv, MInv, [Next]_vars PROVE MInv'
  OBVIOUS
<1>1. CASE UNCHANGED vars
  BY <1>1 DEF vars, MInv, Phases, FilesAreJson, ListsAgree, Agrees
<1>2. ASSUME NEW p \in Processes,
             StartLoad(p) \/ FailLoad(p) \/ FinishLoad(p) \/ Restart(p)
      PROVE  MInv'
  BY <1>2, ScanKeepsMInv, FinishLoadKeepsMInv
<1>3. ASSUME NEW p \in Processes, NEW id \in Identifiers,
             LoadFile(p, id) \/ SkipFile(p, id) \/ Remove(p, id)
      PROVE  MInv'
  BY <1>3, LoadFileKeepsMInv, ScanKeepsMInv, RemoveKeepsMInv
<1>4. ASSUME NEW p \in Processes, NEW name \in Names, NEW filter \in Filters,
             NEW projection \in Projections, Create(p, name, filter, projection)
      PROVE  MInv'
  <2>1. /\ name \in Texts \ {EmptyText} /\ filter \in FilterQueries
        /\ projection \in Seq(EventFields)
    BY TemplateCatalogAssumption
  <2>2. \A id \in Identifiers :
          LET t == [identifier |-> id, name |-> name, filter |-> filter,
                    event_projection |-> projection]
          IN  IsWritable(t) /\ IsPlain(t)
    BY <1>4, <2>1, NewFilterIsWritable, SavedIsPlain DEF Create
  <2> QED BY <1>4, <2>2, CreateKeepsMInv
<1>5. ASSUME NEW p \in Processes, NEW id \in Identifiers, NEW filter \in Filters,
             NEW projection \in Projections, Update(p, id, filter, projection)
      PROVE  MInv'
  BY <1>5, UpdateKeepsMInv, TemplateCatalogAssumption
<1>6. ASSUME NEW p \in Processes, NEW id \in Identifiers, NEW name \in Names,
             Rename(p, id, name) \/ Duplicate(p, id, name)
      PROVE  MInv'
  BY <1>6, RenameKeepsMInv, DuplicateKeepsMInv, TemplateCatalogAssumption
<1> QED BY <1>1, <1>2, <1>3, <1>4, <1>5, <1>6 DEF Next

(* A list says what its files say, unless another process changed them.    *)
THEOREM ListsAreOnDisk == Spec => []MemoryIsOnDisk
<1>1. Init => MInv
  BY MInitHolds
<1>2. IInv /\ MInv /\ [Next]_vars => MInv'
  BY StepKeepsMInv
<1>3. MInv => MemoryIsOnDisk
  BY DEF MInv, ListsAgree, Agrees, MemoryIsOnDisk
<1> QED BY <1>1, <1>2, <1>3, Invariance, PTL DEF Spec
=============================================================================
