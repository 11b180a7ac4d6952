------------------------ MODULE LocalFileRefinement ------------------------
(***************************************************************************)
(* LocalFile implements AtomicPublication.  The published content is the   *)
(* data of the inode the destination names; a call has published once its  *)
(* link or its rename happened, even if it dies before it returns.  A      *)
(* failed call has settled when it has its result, before its destructor.  *)
(***************************************************************************)
EXTENDS LocalFile

PublishedFile == IF Exists(Dest) THEN data[dir[Dest]] ELSE None

HasPublished == {w \in Writers : pc[w] = "linked" \/ outcome[w] = "ok"}

Settlement(w) ==
  CASE outcome[w] = "ok" -> "ok"
    [] outcome[w] \notin {"ok", "none"} -> "failed"
    [] outcome[w] = "none" /\ w \in crashed -> "dead"
    [] outcome[w] = "none" /\ w \notin crashed -> "pending"

Settled == [w \in Writers |-> Settlement(w)]

Abstract == INSTANCE AtomicPublication WITH
  file <- PublishedFile, published <- HasPublished, settled <- Settled

(* Each filesystem step of every call is a step of the atomic write's      *)
(* contract or invisible to it: a call that fails has not touched the      *)
(* destination, one that succeeds replaced it exactly once, and only a     *)
(* call that was killed leaves its caller in doubt.                        *)
ImplementsAtomicPublication == Abstract!ASpec
=============================================================================
