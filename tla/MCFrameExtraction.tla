------------------------- MODULE MCFrameExtraction -------------------------
(***************************************************************************)
(* Timelines with a gap, with two events on one frame, with an empty event *)
(* at the end, with only one, and with none; videos that are exact, a frame short or a    *)
(* frame long, and streams that skip or repeat a frame or lose an index.   *)
(***************************************************************************)
EXTENDS FrameExtractionRefinement

MCTimelines ==
  { <<>>,
    << [start |-> 5, end |-> 6], [start |-> 7, end |-> 8] >>,
    << [start |-> 6, end |-> 8], [start |-> 5, end |-> 7],
       [start |-> 5, end |-> 6] >>,
    << [start |-> 5, end |-> 7], [start |-> 7, end |-> 7] >>,
    << [start |-> 5, end |-> 5] >> }

MCVideos ==
  [start : {5}, duration : {1, 2, 3, 4},
   frames : { <<0, 1, 2, 3>>, <<0, 1, 1, 2>>, <<0, 2, 3>>,
              <<0, NoIndex, 1, 2>>, <<1, 2>>, <<>> }]
=============================================================================
