---------------------------- MODULE TemplateFile ----------------------------
(***************************************************************************)
(* The JSON form of a template (src/services/timeline_template_store.cpp): *)
(* what SerializeTemplate writes and what DeserializeTemplate accepts.  A  *)
(* JSON value is a pair <<kind, content>>; an object's content is a        *)
(* function from field names, an array's a sequence.  A file that is not   *)
(* JSON is Malformed.  A template in memory is a record whose conditions   *)
(* carry the variant alternative as "type".                                *)
(***************************************************************************)
EXTENDS Integers, Sequences

CONSTANTS
  Texts,        \* strings
  Identifiers,  \* those that IsValidIdentifier accepts
  EmptyText,
  MaxInt64

ASSUME TemplateFileAssumption ==
  /\ Identifiers \subseteq Texts
  /\ EmptyText \in Texts \ Identifiers
  /\ MaxInt64 \in Nat

String(s)  == <<"string", s>>
Boolean(b) == <<"boolean", b>>
Integer(n) == <<"integer", n>>
Null       == <<"null", 0>>
Array(s)   == <<"array", s>>
Object(f)  == <<"object", f>>
Malformed  == <<"discarded", 0>>

Kind(json) == json[1]
Content(json) == json[2]
Field(json, name) == Content(Content(json)[name])

(* What the JSON library makes of a file, as deep as a template goes.  A    *)
(* value is a pair, and the parts of an object or an array are values.     *)
IsValue(json) ==
  /\ json = <<Kind(json), Content(json)>>
  /\ Kind(json) = "null" => json = Null

Parts(json) == {Content(json)[name] : name \in DOMAIN Content(json)}

IsContainer(json) == Kind(json) \in {"object", "array"}

IsWhole(json) ==
  /\ IsValue(json)
  /\ IsContainer(json) =>
       Content(json) = [name \in DOMAIN Content(json) |-> Content(json)[name]]

IsFlat(json) ==
  IsWhole(json) /\ (IsContainer(json) => \A part \in Parts(json) : IsValue(part))

IsList(json) ==
  IsWhole(json) /\ (IsContainer(json) => \A part \in Parts(json) : IsFlat(part))

IsNested(json) ==
  IsWhole(json) /\ (IsContainer(json) => \A part \in Parts(json) : IsList(part))

IsJson(json) ==
  IsWhole(json) /\ (IsContainer(json) => \A part \in Parts(json) : IsNested(part))

(* The stable names of the enumerations; a name belongs to one value. *)
TextFieldIdentifier ==
  [kEventIdentifier |-> "event", kReel |-> "reel", kTrackIdentifier |-> "track",
   kClip |-> "clip", kComments |-> "comments"]

TimecodeFieldIdentifier ==
  [kSourceIn |-> "source-in", kSourceOut |-> "source-out",
   kRecordIn |-> "record-in", kRecordOut |-> "record-out"]

TrackKindIdentifier ==
  [kVideo |-> "video", kAudio |-> "audio", kData |-> "data", kOther |-> "other"]

EditTypeIdentifier ==
  [kCut |-> "cut", kDissolve |-> "dissolve", kWipe |-> "wipe", kKey |-> "key",
   kOther |-> "other"]

CombinationIdentifier == [kAll |-> "all", kAny |-> "any"]

TimelineEventFieldIdentifier ==
  [kEventIdentifier |-> "event", kInitialFrame |-> "initial-frame",
   kReel |-> "reel", kTrackKind |-> "track-kind", kTrackIdentifier |-> "track",
   kEditType |-> "edit-type", kTransitionIdentifier |-> "transition",
   kTransitionDuration |-> "transition-frames", kSourceIn |-> "source-in",
   kSourceOut |-> "source-out", kRecordIn |-> "record-in",
   kRecordOut |-> "record-out", kDuration |-> "duration",
   kDurationFrames |-> "duration-frames", kClipName |-> "clip-name",
   kSourceFile |-> "source-file", kComments |-> "comments",
   kSourceLine |-> "source-line"]

EventFields == DOMAIN TimelineEventFieldIdentifier

IsKnown(names, text) == \E value \in DOMAIN names : names[value] = text

FromIdentifier(names, text) == CHOOSE value \in DOMAIN names : names[value] = text

(* The values in memory. *)
Conditions ==
  [type : {"text"}, field : DOMAIN TextFieldIdentifier, text : Texts,
   match_case : BOOLEAN, match_whole_word : BOOLEAN, regular_expression : BOOLEAN]
    \union
  [type : {"track-kind"}, value : DOMAIN TrackKindIdentifier]
    \union
  [type : {"edit-type"}, value : DOMAIN EditTypeIdentifier]
    \union
  [type : {"timecode"}, field : DOMAIN TimecodeFieldIdentifier, value : Texts]
    \union
  [type : {"duration"}, frames : {Null} \union {Integer(n) : n \in -MaxInt64 - 1 .. MaxInt64}]

FilterQueries ==
  [combination : DOMAIN CombinationIdentifier, conditions : Seq(Conditions)]

IsValidTimelineEventProjection(projection) ==
  /\ projection # <<>>
  /\ \A i, j \in DOMAIN projection : projection[i] = projection[j] => i = j

Templates ==
  {t \in [identifier : Identifiers, name : Texts \ {EmptyText},
          filter : FilterQueries, event_projection : Seq(EventFields)] :
     IsValidTimelineEventProjection(t.event_projection)}

SerializeCondition(c) == Object(
  CASE c.type = "text" ->
         [type |-> String("text"),
          field |-> String(TextFieldIdentifier[c.field]),
          text |-> String(c.text),
          match_case |-> Boolean(c.match_case),
          match_whole_word |-> Boolean(c.match_whole_word),
          regular_expression |-> Boolean(c.regular_expression)]
    [] c.type = "track-kind" ->
         [type |-> String("track-kind"), value |-> String(TrackKindIdentifier[c.value])]
    [] c.type = "edit-type" ->
         [type |-> String("edit-type"), value |-> String(EditTypeIdentifier[c.value])]
    [] c.type = "timecode" ->
         [type |-> String("timecode"),
          field |-> String(TimecodeFieldIdentifier[c.field]),
          value |-> String(c.value)]
    [] c.type = "duration" ->
         [type |-> String("duration"), frames |-> c.frames])

SerializeTemplate(t) == Object(
  [schema_version |-> Integer(1),
   identifier |-> String(t.identifier),
   name |-> String(t.name),
   filter |-> Object(
     [combination |-> String(CombinationIdentifier[t.filter.combination]),
      conditions |-> Array([i \in DOMAIN t.filter.conditions |->
                              SerializeCondition(t.filter.conditions[i])])]),
   event_columns |-> Array([i \in DOMAIN t.event_projection |->
     String(TimelineEventFieldIdentifier[t.event_projection[i]])])])

(* Mutation: fields the program does not know are overlooked. *)
ValidateKnownFields(json, kinds) ==
  /\ Kind(json) = "object"
  /\ DOMAIN kinds \subseteq DOMAIN Content(json)
  /\ \A name \in DOMAIN kinds : Kind(Content(json)[name]) = kinds[name]

(* Exactly the listed fields, each of its kind. *)
ValidateObject(json, kinds) ==
  /\ Kind(json) = "object"
  /\ DOMAIN Content(json) = DOMAIN kinds
  /\ \A name \in DOMAIN kinds : Kind(Content(json)[name]) = kinds[name]

AcceptsCondition(json) ==
  /\ Kind(json) = "object"
  /\ "type" \in DOMAIN Content(json)
  /\ \/ /\ Content(json).type = String("text")
        /\ ValidateObject(json,
             [type |-> "string", field |-> "string", text |-> "string",
              match_case |-> "boolean", match_whole_word |-> "boolean",
              regular_expression |-> "boolean"])
        /\ IsKnown(TextFieldIdentifier, Field(json, "field"))
     \/ /\ Content(json).type = String("track-kind")
        /\ ValidateObject(json, [type |-> "string", value |-> "string"])
        /\ IsKnown(TrackKindIdentifier, Field(json, "value"))
     \/ /\ Content(json).type = String("edit-type")
        /\ ValidateObject(json, [type |-> "string", value |-> "string"])
        /\ IsKnown(EditTypeIdentifier, Field(json, "value"))
     \/ /\ Content(json).type = String("timecode")
        /\ ValidateObject(json, [type |-> "string", field |-> "string", value |-> "string"])
        /\ IsKnown(TimecodeFieldIdentifier, Field(json, "field"))
     \/ /\ Content(json).type = String("duration")
        /\ \/ ValidateObject(json, [type |-> "string", frames |-> "null"])
           \/ /\ ValidateObject(json, [type |-> "string", frames |-> "integer"])
              /\ Field(json, "frames") <= MaxInt64

DeserializeCondition(json) ==
  CASE Field(json, "type") = "text" ->
         [type |-> "text",
          field |-> FromIdentifier(TextFieldIdentifier, Field(json, "field")),
          text |-> Field(json, "text"),
          match_case |-> Field(json, "match_case"),
          match_whole_word |-> Field(json, "match_whole_word"),
          regular_expression |-> Field(json, "regular_expression")]
    [] Field(json, "type") = "track-kind" ->
         [type |-> "track-kind",
          value |-> FromIdentifier(TrackKindIdentifier, Field(json, "value"))]
    [] Field(json, "type") = "edit-type" ->
         [type |-> "edit-type",
          value |-> FromIdentifier(EditTypeIdentifier, Field(json, "value"))]
    [] Field(json, "type") = "timecode" ->
         [type |-> "timecode",
          field |-> FromIdentifier(TimecodeFieldIdentifier, Field(json, "field")),
          value |-> Field(json, "value")]
    [] Field(json, "type") = "duration" ->
         [type |-> "duration", frames |-> Content(json).frames]

FilterOf(json) == Content(json).filter

ConditionsOf(json) == Field(FilterOf(json), "conditions")

ColumnsOf(json) == Field(json, "event_columns")

ProjectionOf(json) ==
  [i \in DOMAIN ColumnsOf(json) |->
     FromIdentifier(TimelineEventFieldIdentifier, Content(ColumnsOf(json)[i]))]

AcceptsTemplate(json) ==
  /\ ValidateObject(json,
       [schema_version |-> "integer", identifier |-> "string", name |-> "string",
        filter |-> "object", event_columns |-> "array"])
  /\ Field(json, "schema_version") = 1
  /\ Field(json, "identifier") \in Identifiers
  /\ Field(json, "name") # EmptyText
  /\ ValidateObject(FilterOf(json), [combination |-> "string", conditions |-> "array"])
  /\ IsKnown(CombinationIdentifier, Field(FilterOf(json), "combination"))
  /\ \A i \in DOMAIN ConditionsOf(json) : AcceptsCondition(ConditionsOf(json)[i])
  /\ \A i \in DOMAIN ColumnsOf(json) :
       /\ Kind(ColumnsOf(json)[i]) = "string"
       /\ IsKnown(TimelineEventFieldIdentifier, Content(ColumnsOf(json)[i]))
  /\ IsValidTimelineEventProjection(ProjectionOf(json))

DeserializeTemplate(json) ==
  [identifier |-> Field(json, "identifier"),
   name |-> Field(json, "name"),
   filter |->
     [combination |-> FromIdentifier(CombinationIdentifier,
                                     Field(FilterOf(json), "combination")),
      conditions |-> [i \in DOMAIN ConditionsOf(json) |->
                        DeserializeCondition(ConditionsOf(json)[i])]],
   event_projection |-> ProjectionOf(json)]

(* LoadTemplateFile: readable, accepted, and named after its identifier. *)
IsTemplateFile(stem, json) ==
  /\ json # Malformed
  /\ AcceptsTemplate(json)
  /\ DeserializeTemplate(json).identifier = stem

=============================================================================
