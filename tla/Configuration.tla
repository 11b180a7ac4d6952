--------------------------- MODULE Configuration ---------------------------
(***************************************************************************)
(* The templates that the windows of the two front ends work with: those   *)
(* found at start, and those the user saves.                               *)
(***************************************************************************)
EXTENDS FilterModel

CONSTANTS
    NoTemplate,
    Names,              \* the names the user may give to a template
    InitialCatalogs     \* the lists of templates found at start

SavedTemplates ==
    [name : Names, filter : Queries, projection : ValidProjections]

(* The templates found at start are some this program saved.               *)
ASSUME ConfigurationAssumption ==
    /\ NoTemplate \notin SavedTemplates
    /\ \A catalog \in InitialCatalogs :
          /\ catalog \in [DOMAIN catalog -> SavedTemplates \cup {NoTemplate}]
          /\ NoTemplate \notin DOMAIN catalog
=============================================================================
