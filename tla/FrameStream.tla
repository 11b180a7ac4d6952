----------------------------- MODULE FrameStream -----------------------------
(***************************************************************************)
(* What a caller of VideoDecoder (src/media) relies on: the video is a row *)
(* of pictures in presentation order.  A seek goes to some place in the    *)
(* row, and from there the pictures come one by one, each of them once and *)
(* none left out, until the row ends or a call fails.                      *)
(***************************************************************************)
EXTENDS Naturals

CONSTANT Failures  \* the kinds of what a call may return instead

VARIABLES
  length,   \* the number of pictures
  place,    \* the picture to come next
  returned  \* what the last call returned

Result(kind, picture) == [kind |-> kind, picture |-> picture]

Init ==
  /\ length \in Nat
  /\ place = 1
  /\ returned = Result("opened", 0)

Seek ==
  /\ returned.kind \notin Failures
  /\ place' \in 1..length
  /\ returned' = Result("sought", 0)

Deliver ==
  /\ returned.kind \notin Failures
  /\ place <= length
  /\ returned' = Result("picture", place)
  /\ place' = place + 1

End ==
  /\ returned.kind \notin Failures
  /\ place = length + 1
  /\ returned' = Result("end", 0)
  /\ UNCHANGED place

(* After a failure the caller gives the decoder up. *)
Fail ==
  /\ returned.kind \notin Failures
  /\ \E failure \in Failures : returned' = Result(failure, 0)
  /\ place' \in 1..length + 1

Next ==
  /\ Seek \/ Deliver \/ End \/ Fail
  /\ UNCHANGED length

Spec == Init /\ [][Next]_<<length, place, returned>>
=============================================================================
