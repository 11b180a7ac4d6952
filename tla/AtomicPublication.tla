------------------------- MODULE AtomicPublication -------------------------
(***************************************************************************)
(* What an atomic write promises its caller (the contract in               *)
(* src/storage/include/edit_atlas/storage/local_file.hpp): the destination *)
(* goes from one complete content to another in a single instant, once per *)
(* successful call and never for a failed one; a preserving call finds     *)
(* nothing to replace.  A caller whose process dies learns nothing.        *)
(***************************************************************************)
CONSTANTS Writers, Original, None

VARIABLES
  policy,     \* what each call was asked to do with an existing file
  file,       \* the content of the destination, or None
  published,  \* the calls whose content has been the destination's
  settled     \* what each call has told its caller so far

avars == <<policy, file, published, settled>>

AInit ==
  /\ policy \in [Writers -> {"preserve", "replace"}]
  /\ file \in {None, Original}
  /\ published = {}
  /\ settled = [w \in Writers |-> "pending"]

Publish(w) ==
  /\ settled[w] = "pending" /\ w \notin published
  /\ policy[w] = "preserve" => file = None
  /\ file' = w
  /\ published' = published \cup {w}
  /\ \/ settled' = [settled EXCEPT ![w] = "ok"]
     \/ UNCHANGED settled
  /\ UNCHANGED policy

Settle(w) ==
  /\ settled[w] = "pending"
  /\ settled' = [settled EXCEPT ![w] = IF w \in published THEN "ok" ELSE "failed"]
  /\ UNCHANGED <<policy, file, published>>

Die(w) ==
  /\ settled[w] = "pending"
  /\ settled' = [settled EXCEPT ![w] = "dead"]
  /\ UNCHANGED <<policy, file, published>>

ANext == \E w \in Writers : Publish(w) \/ Settle(w) \/ Die(w)

ASpec == AInit /\ [][ANext]_avars
=============================================================================
