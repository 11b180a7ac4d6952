------------------------- MODULE MCTemplateCatalog -------------------------
(***************************************************************************)
(* Two processes over two files.  The directories they find hold         *)
(* templates, two of one name, and files the program did not write.        *)
(***************************************************************************)
EXTENDS TemplateCatalog, TLC

MCIdentifiers == {"1a", "2b"}

MCNames == {"Cuts", "Reels"}

MCTexts == MCIdentifiers \union MCNames \union {"", "A[", "01:00:00:00"}

(* One condition of every kind. *)
EveryCondition ==
  <<[type |-> "text", field |-> "kClip", text |-> "A[", match_case |-> TRUE,
     match_whole_word |-> FALSE, regular_expression |-> TRUE],
    [type |-> "track-kind", value |-> "kAudio"],
    [type |-> "edit-type", value |-> "kWipe"],
    [type |-> "timecode", field |-> "kRecordOut", value |-> "01:00:00:00"],
    [type |-> "duration", frames |-> Null],
    [type |-> "duration", frames |-> Integer(-1)]>>

MCFilters == {[combination |-> "kAll", conditions |-> EveryCondition]}

MCProjections == {<<"kReel", "kComments">>, <<"kReel", "kReel">>, <<>>}

File(id, name) == SerializeTemplate(
  [identifier |-> id, name |-> name,
   filter |-> [combination |-> "kAny", conditions |-> <<>>],
   event_projection |-> <<"kSourceLine">>])

Newer(id) == Object([Content(File(id, "Cuts")) EXCEPT !.schema_version = Integer(2)])

Annotated(id) == Object(Content(File(id, "Cuts")) @@ [note |-> String("Cuts")])

MCAbsent == <<"absent", 0>>

MCInitialFiles ==
  {[id \in MCIdentifiers |-> MCAbsent],
   [id \in MCIdentifiers |-> File(id, "Cuts")],
   [id \in MCIdentifiers |-> IF id = "1a" THEN Newer(id) ELSE MCAbsent],
   [id \in MCIdentifiers |-> IF id = "1a" THEN Annotated(id) ELSE Malformed],
   [id \in MCIdentifiers |-> File("1a", "Reels")]}

ProcessSymmetry == Permutations(Processes)

(* Every sample survives the file, and what the file loses is refused. *)
ASSUME SamplesRoundTrip ==
  \A name \in MCNames, filter \in MCFilters, projection \in {<<"kReel", "kComments">>} :
    LET t == [identifier |-> "1a", name |-> name, filter |-> filter,
              event_projection |-> projection]
    IN /\ AcceptsTemplate(SerializeTemplate(t))
       /\ DeserializeTemplate(SerializeTemplate(t)) = t

=============================================================================
