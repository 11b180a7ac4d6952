---------------------------- MODULE MCLocalFile ----------------------------
(***************************************************************************)
(* Small instances of LocalFile, and the mapping under which it implements *)
(* AtomicPublication.                                                      *)
(***************************************************************************)
EXTENDS LocalFileRefinement

CONSTANTS w1, w2, r1

(* The second writer's content is shorter than what it may replace. *)
MCSize == [c \in Writers \cup {Original} |-> IF c = w2 THEN 1 ELSE 2]
=============================================================================
