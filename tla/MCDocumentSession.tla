------------------------- MODULE MCDocumentSession -------------------------
(***************************************************************************)
(* Two documents, one of which the second query leaves empty; one query    *)
(* does not compile.                                                       *)
(***************************************************************************)
EXTENDS DocumentSession

CONSTANTS d1, d2, e1, e2, all, some, bad

MCMatching ==
  [d \in Documents |->
     [q \in Queries |->
        IF q = all THEN Events ELSE IF q = some /\ d = d1 THEN {e1} ELSE {}]]
=============================================================================
