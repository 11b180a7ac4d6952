---------------------------- MODULE RenderedVideo ----------------------------
(***************************************************************************)
(* A rendered video from its opening to the pictures the caller gets: the  *)
(* inspection (VideoInspection) judges the file by what its container says *)
(* and hands on the decoder (VideoDecoder) in its initial state, together  *)
(* with the mapping from record frames to frames of the video              *)
(* (TimelineVideoInspectionReceipt in src/services).                       *)
(***************************************************************************)
EXTENDS VideoDecoder

CONSTANTS
  Timelines, Recordings, Writers, Tolerance, PerSecond, Absent, Unreadable,
  Packing  \* [codec -> [delay, packets : [number of pictures -> packets]]]

VARIABLES timeline, recording, writer, stage, information, mapping, diagnostics

Inspection == INSTANCE VideoInspection

inspected == <<timeline, recording, writer, stage, information, mapping, diagnostics>>

ASSUME RenderedVideoAssumption ==
  /\ Tolerance \in Nat /\ PerSecond \in Nat \ {0}
  /\ Absent \notin Int /\ Absent \notin Inspection!Ratios
  /\ \A t \in Timelines : Inspection!IsUsual(t.rate)
  /\ \A r \in Recordings : Inspection!IsRecording(r)
  /\ \A w \in Writers : Inspection!IsWriter(w)
  /\ \A r \in Recordings, w \in Writers :
       /\ Inspection!Embedded(r) # Unreadable
       /\ Absent # {Inspection!Embedded(r)}
       /\ \A base \in Inspection!Bases(w) : Inspection!IsPrecise(r, w, base)

(* A frame may be missing at each end, and durations are not too long.     *)
ASSUME AcceptanceAssumption ==
  /\ Tolerance >= 1
  /\ \A r \in Recordings, w \in Writers :
       \A base \in Inspection!Bases(w) : Inspection!IsCountable(r, base)

-----------------------------------------------------------------------------
(* The file that a writer makes of a recording. *)

Timestamps(r, w) ==
  [p \in DOMAIN r.shown |->
     IF p \in w.unstamped THEN NoTimestamp
     ELSE StreamStart(w) + Rescaled(r.shown[p], Inverted(r.rate), w.timeBase)]

Stated(rate) == IF rate = Absent THEN Rate(0, 0) ELSE rate

File(r, w) ==
  [stream |-> [rate |-> Stated(Inspection!Information(r, w).nominal),
               average |-> Stated(Inspection!Information(r, w).average),
               timeBase |-> w.timeBase, start |-> w.start],
   packets |-> Packing[w.codec].packets[Len(r.shown)],
   timestamps |-> Timestamps(r, w),
   delay |-> Packing[w.codec].delay]

-----------------------------------------------------------------------------

ReceiptInit ==
  /\ Inspection!Init
  /\ file = File(recording, writer)
  /\ Init

(* Inspect. *)
Inspect == Inspection!Next /\ UNCHANGED vars

(* The caller of Inspect has the decoder only if the video is accepted. *)
UseDecoder ==
  /\ stage = "accepted"
  /\ Next
  /\ UNCHANGED inspected

ReceiptNext == Inspect \/ UseDecoder

(* A read under way goes on. *)
ReceiptSpec ==
  /\ ReceiptInit /\ [][ReceiptNext]_<<vars, inspected>>
  /\ WF_<<vars, inspected>>(UseDecoder /\ ReadStep)

-----------------------------------------------------------------------------

(* A picture of an accepted video that has the number of a record frame,   *)
(* less the mapping's start, shows that frame of the timeline, and neither *)
(* the pictures nor the time they fill is off by more than the tolerance.  *)
(* (Validate and FrameIndex: the extraction looks at nothing else)         *)
AcceptedVideoShowsTheTimeline ==
  stage = "accepted" =>
    /\ recording.mode = timeline.mode
    /\ \A p \in DOMAIN recording.shown :
         LET index == FrameIndex(file.timestamps[p], file.stream) IN
           index # NoIndex =>
             Inspection!FirstFrame(recording) + recording.shown[p] + mapping.offset
               = index
    /\ \E frames \in {recording.span, Len(recording.shown)} :
         frames - (mapping.end - mapping.start) \in - Tolerance .. Tolerance
    /\ recording.span - Len(recording.shown) <= Tolerance

(* No faithful render is refused for the way its container rounds rates    *)
(* and durations: what kRenderedVideoInputContract asks for is enough.     *)
(* (Validate, FramesInDuration, IsConstantFrameRate, FrameRatesMatch)      *)
FaithfulRendersAreAccepted == Inspection!FaithfulRendersAreAccepted
=============================================================================
