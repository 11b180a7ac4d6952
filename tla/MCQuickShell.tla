----------------------------- MODULE MCQuickShell -----------------------------
(* Three files of two units each, empty or full at first, and two more     *)
(* messages of one or two units: enough for a rotation that fails half-way *)
(* to be tried again, with a kill, a launch or a bundle anywhere between.  *)
EXTENDS QuickShell
=============================================================================
