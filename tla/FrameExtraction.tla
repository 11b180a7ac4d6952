--------------------------- MODULE FrameExtraction ---------------------------
(***************************************************************************)
(* The worker of one spreadsheet export:                                   *)
(* TimelineRenderedVideoExportService::Export, the inspection it asks for  *)
(* and TimelineFrameExtractionService::Extract (src/services), reading     *)
(* through FfmpegVideoDecoder (src/media).  A stop may be requested from   *)
(* another thread between any two steps; the worker polls for it.          *)
(*                                                                         *)
(* The decoder reads a stream of frames in presentation order.  Where a    *)
(* seek lands is FFmpeg's choice, so it is anywhere; a frame's index is    *)
(* what FrameIndex derives from its timestamp, or NoIndex.                 *)
(***************************************************************************)
EXTENDS Integers, Sequences, FiniteSets, FiniteSetsExt

CONSTANTS
  FramesPerDay,  \* the number of timecodes of the frame rate
  Timelines,  \* documents: sequences of events [start, end], in record frames
  Videos,     \* rendered videos: [start, duration, frames]
  NoVideo,    \* no video was given
  NoIndex,    \* a decoded frame without a presentation index
  Tolerance   \* kVideoDurationToleranceFrames

ASSUME FrameExtractionAssumption ==
  /\ FramesPerDay \in Nat \ {0}
  /\ \A t \in Timelines :
       /\ t \in Seq([start : 0..FramesPerDay - 1, end : 0..FramesPerDay - 1])
       /\ \A e \in DOMAIN t : t[e].start <= t[e].end
  /\ Videos \subseteq [start : Nat, duration : Nat \ {0},
                       frames : Seq(Nat \cup {NoIndex})]
  /\ NoVideo \notin Videos /\ NoIndex \notin Nat
  /\ Tolerance \in Nat

VARIABLES
  reference,  \* the imported timeline
  selection,  \* the events of it that the request exports
  images,     \* RequiresInitialFrames: the projection has the Initial Frame
  video,      \* the video of the request, or NoVideo
  pc,         \* where the worker is
  stop,       \* a stop was requested
  mapping,    \* TimelineVideoMapping
  pending,    \* the video frames of events_by_frame still to extract
  target,     \* the frame being looked for
  position,   \* the decoder's place in the stream
  frames,     \* the image of each event, named by its place in the stream
  reports,    \* the progress reported so far
  outcome     \* what Export returned

request == <<reference, selection, images, video>>
decoding == <<pending, target, position, frames, reports>>
vars == <<request, pc, stop, mapping, decoding, outcome>>

NoMapping == [start |-> 0, end |-> 0, duration |-> 0]

Init ==
  /\ reference \in Timelines
  /\ selection \in SUBSET (DOMAIN reference)
  /\ images \in BOOLEAN
  /\ video \in Videos \cup {NoVideo}
  /\ pc = "starting"
  /\ stop = FALSE
  /\ mapping = NoMapping
  /\ pending = {} /\ target = 0 /\ position = 1
  /\ frames = <<>>
  /\ reports = <<>>
  /\ outcome = "none"

Running == pc # "finished"

Return(o) ==
  /\ outcome' = o
  /\ pc' = "finished"

RequestStop ==
  /\ Running /\ ~stop
  /\ stop' = TRUE
  /\ UNCHANGED <<request, pc, mapping, decoding, outcome>>

-----------------------------------------------------------------------------
(* TimelineRenderedVideoExportService::Export up to the inspection. *)

Start ==
  /\ pc = "starting"
  /\ \/ /\ ~images
        /\ pc' = "writing"
        /\ UNCHANGED outcome
     \/ /\ images /\ video = NoVideo
        /\ Return("kVideoRequired")
     \/ /\ images /\ video # NoVideo /\ stop
        /\ Return("kCancelled")
     \/ /\ images /\ video # NoVideo /\ ~stop
        /\ pc' = "inspecting"
        /\ UNCHANGED outcome
  /\ UNCHANGED <<request, stop, mapping, decoding>>

(* RecordTimelineSpan. *)
SpanStart(t) == Min({t[e].start : e \in DOMAIN t})
SpanEnd(t) == Max({t[e].end : e \in DOMAIN t})

(* The conditions of Validate that involve the timeline; those on the      *)
(* container, the rates and the timecode's form fail by themselves.        *)
VideoFits(v, t) ==
  /\ t # <<>>
  /\ v.start = SpanStart(t)
  /\ v.duration - (SpanEnd(t) - SpanStart(t)) \in (- Tolerance)..Tolerance

Inspect ==
  /\ pc = "inspecting"
  /\ \/ /\ Return("kInspectionFailed")
        /\ UNCHANGED mapping
     \/ /\ VideoFits(video, reference)
        /\ mapping' = [start |-> SpanStart(reference), end |-> SpanEnd(reference),
                       duration |-> video.duration]
        /\ pc' = "grouping"
        /\ UNCHANGED outcome
  /\ UNCHANGED <<request, stop, decoding>>

-----------------------------------------------------------------------------
(* TimelineFrameExtractionService::Extract. *)

VideoFrame(e) == reference[e].start - mapping.start

(* Mutation: the exclusive end is taken for an inclusive one. *)
InMappingInclusive(e) ==
  /\ reference[e].start >= mapping.start
  /\ reference[e].end < mapping.end
  /\ VideoFrame(e) \in 0..mapping.duration - 1

InMapping(e) ==
  /\ reference[e].start >= mapping.start
  /\ reference[e].end <= mapping.end
  /\ VideoFrame(e) \in 0..mapping.duration - 1

(* Mutation: a frame counts for one event. *)
ReportPerFrame(resolved, left) ==
  [events |-> IF reports = <<>> THEN 0 ELSE reports[Len(reports)].events + 1,
   totalEvents |-> Cardinality(selection),
   frames |-> Cardinality({VideoFrame(e) : e \in selection} \ left),
   totalFrames |-> Cardinality({VideoFrame(e) : e \in selection})]

(* TimelineFrameExtractionProgress once `resolved` events have their image *)
(* and the frames in `left` are still to extract.                          *)
Report(resolved, left) ==
  [events |-> Cardinality(resolved),
   totalEvents |-> Cardinality(selection),
   frames |-> Cardinality({VideoFrame(e) : e \in selection} \ left),
   totalFrames |-> Cardinality({VideoFrame(e) : e \in selection})]

(* A mapping without extent, that of a timeline of empty events, fails the *)
(* export, and so does an event outside it.                                *)
ValidMapping == mapping.start < mapping.end

Refused == ~ValidMapping \/ \E e \in selection : ~InMapping(e)

(* Events are grouped by frame.  The callback may throw. *)
Group ==
  /\ pc = "grouping"
  /\ \/ /\ Refused
        /\ Return("kInvalidMapping")
        /\ UNCHANGED <<pending, reports>>
     \/ /\ ~Refused
        /\ Return("kProgressCallbackFailed")
        /\ UNCHANGED <<pending, reports>>
     \/ /\ ~Refused
        /\ pending' = {VideoFrame(e) : e \in selection}
        /\ reports' = <<Report({}, pending')>>
        /\ pc' = "extracting"
        /\ UNCHANGED outcome
  /\ UNCHANGED <<request, stop, mapping, target, position, frames>>

(* The head of the loop over events_by_frame, whose frames ascend.         *)
(* SeekToFrame may land anywhere, before or after the frame.               *)
Seek ==
  /\ pc = "extracting" /\ pending # {}
  /\ \/ /\ stop
        /\ Return("kCancelled")
        /\ UNCHANGED <<target, position>>
     \/ /\ ~stop
        /\ Return("kSeekFailed")
        /\ UNCHANGED <<target, position>>
     \/ /\ ~stop
        /\ target' = Min(pending)
        /\ position' \in 1..Len(video.frames) + 1
        /\ pc' = "reading"
        /\ UNCHANGED outcome
  /\ UNCHANGED <<request, stop, mapping, pending, frames, reports>>

(* Mutation: the first frame at or after the requested one is taken. *)
IsRequestedOrLater(i) == i >= target

IsRequested(i) == i = target

AtEnd == position > Len(video.frames)

Current == video.frames[position]

(* The frame read does not lie beyond the requested one. *)
InReach == ~AtEnd /\ Current # NoIndex /\ Current <= target

(* Mutation: a frame that is too early makes the decoder seek again. *)
SkipFrameSeeking ==
  /\ pc = "reading" /\ ~stop
  /\ InReach /\ Current # target
  /\ position' \in 1..Len(video.frames) + 1
  /\ UNCHANGED <<request, pc, stop, mapping, pending, target, frames, reports,
                 outcome>>

(* ReadFrame delivers a frame before the requested one: read on. *)
SkipFrame ==
  /\ pc = "reading" /\ ~stop
  /\ InReach /\ Current # target
  /\ position' = position + 1
  /\ UNCHANGED <<request, pc, stop, mapping, pending, target, frames, reports,
                 outcome>>

EventsOn(f) == {e \in selection : VideoFrame(e) = f}

(* It delivers the requested frame: every event that starts on it shares   *)
(* the image.                                                              *)
TakeFrame ==
  /\ pc = "reading" /\ ~stop
  /\ ~AtEnd /\ Current # NoIndex /\ IsRequested(Current)
  /\ \/ /\ Return("kInvalidFrame")
        /\ UNCHANGED <<pending, frames, reports>>
     \/ /\ Return("kProgressCallbackFailed")
        /\ UNCHANGED <<pending, frames, reports>>
     \/ /\ frames' = [e \in DOMAIN frames \cup EventsOn(target) |->
                        IF e \in EventsOn(target) THEN position ELSE frames[e]]
        /\ pending' = pending \ {target}
        /\ reports' = Append(reports, Report(DOMAIN frames', pending'))
        /\ pc' = "extracting"
        /\ UNCHANGED outcome
  /\ UNCHANGED <<request, stop, mapping, target, position>>

(* It delivers nothing usable, or decoding fails. *)
LoseFrame ==
  /\ pc = "reading"
  /\ \/ /\ stop
        /\ Return("kCancelled")
     \/ /\ ~stop
        /\ Return("kDecodeFailed")
     \/ /\ ~stop /\ ~InReach
        /\ Return("kFrameUnavailable")
  /\ UNCHANGED <<request, stop, mapping, decoding>>

(* Mutation: the token is not polled after the last frame. *)
FinishUnpolled ==
  /\ pc = "extracting" /\ pending = {}
  /\ pc' = "writing"
  /\ UNCHANGED <<request, stop, mapping, decoding, outcome>>

(* Every frame was extracted: the last poll before the workbook. *)
Finish ==
  /\ pc = "extracting" /\ pending = {}
  /\ \/ /\ stop
        /\ Return("kCancelled")
     \/ /\ ~stop
        /\ pc' = "writing"
        /\ UNCHANGED outcome
  /\ UNCHANGED <<request, stop, mapping, decoding>>

(* TimelineDocumentExportService::Export renders and commits the workbook  *)
(* with the images; no stop reaches it.                                    *)
Write ==
  /\ pc = "writing"
  /\ \E o \in {"kDocumentExportFailed", "receipt"} : Return(o)
  /\ UNCHANGED <<request, stop, mapping, decoding>>

Work ==
  \/ Start
  \/ Inspect
  \/ Group
  \/ Seek
  \/ SkipFrame
  \/ TakeFrame
  \/ LoseFrame
  \/ Finish
  \/ Write

Next == Work \/ RequestStop

Spec == Init /\ [][Next]_vars

(* The pool's thread keeps running; nobody has to cancel. *)
FairSpec == Spec /\ WF_vars(Work)

-----------------------------------------------------------------------------

Labels == {"starting", "inspecting", "grouping", "extracting", "reading",
           "writing", "finished"}

Outcomes == {"none", "kVideoRequired", "kCancelled", "kInspectionFailed",
             "kInvalidMapping", "kProgressCallbackFailed", "kSeekFailed",
             "kInvalidFrame", "kDecodeFailed", "kFrameUnavailable",
             "kDocumentExportFailed", "receipt"}

Progress == [events : Nat, totalEvents : Nat, frames : Nat, totalFrames : Nat]

(* Every variable has its type. (the locals of Export and Extract)         *)
TypeOK ==
  /\ reference \in Timelines
  /\ selection \subseteq DOMAIN reference
  /\ images \in BOOLEAN
  /\ video \in Videos \cup {NoVideo}
  /\ pc \in Labels
  /\ stop \in BOOLEAN
  /\ mapping \in [start : Nat, end : Nat, duration : Nat]
  /\ pending \subseteq Nat
  /\ target \in Nat
  /\ position \in Nat \ {0}
  /\ DOMAIN frames \subseteq selection
  /\ \A e \in DOMAIN frames : frames[e] \in Nat \ {0}
  /\ reports \in Seq(Progress)
  /\ outcome \in Outcomes

(* A workbook with images is written only when every exported event has    *)
(* the frame at its own Record In: whatever frame a seek lands on, however *)
(* the stream is indexed and however many events share a frame, no event   *)
(* goes without and none gets a neighbour's.                               *)
(* ("extracts every event's Record In frame")                              *)
WorkbookIsIllustrated ==
  images /\ pc = "writing" =>
    /\ DOMAIN frames = selection
    /\ \A e \in selection :
         video.frames[frames[e]] = reference[e].start - SpanStart(reference)

(* A cancelled extraction writes no workbook, however late the request     *)
(* came. (the poll after Extract)                                          *)
StoppedExtractionWritesNothing ==
  [][images /\ stop /\ pc # "writing" => pc' # "writing"]_vars

(* The progress adds up: counts never go back, an event is counted when    *)
(* its image is there, and the last report of an extraction that completes *)
(* is of all its events and all its frames. (ReportProgress in Extract)    *)
ProgressAddsUp ==
  /\ \A i \in 1..Len(reports), j \in 1..Len(reports) :
       i < j => /\ reports[i].events < reports[j].events
                /\ reports[i].frames < reports[j].frames
  /\ reports # <<>> =>
       reports[Len(reports)].events = Cardinality(DOMAIN frames)
  /\ images /\ pc = "writing" =>
       LET last == reports[Len(reports)] IN
       /\ last.events = last.totalEvents
       /\ last.frames = last.totalFrames

(* The inspection measures the whole imported timeline, so no selection of *)
(* it is refused as outside the mapping, except for an event that starts   *)
(* beyond the end of a video that is within the tolerance but too short,   *)
(* or in a timeline that has no extent at all.                             *)
(* (RecordTimelineSpan and Validate against Extract's range checks)        *)
OnlyMissingFramesAreRefused ==
  outcome = "kInvalidMapping" =>
    \/ SpanStart(reference) = SpanEnd(reference)
    \/ \E e \in selection :
         reference[e].start - SpanStart(reference) >= video.duration

(* What makes them inductive: the mapping is the span of the timeline, the *)
(* pending frames are those of the events without an image, and an image   *)
(* an event has is that of its frame.                                      *)
MappingIsTheSpan ==
  images /\ (pc \in {"grouping", "extracting", "reading", "writing"}
               \/ outcome = "kInvalidMapping") =>
    /\ video \in Videos /\ VideoFits(video, reference)
    /\ mapping = [start |-> SpanStart(reference), end |-> SpanEnd(reference),
                  duration |-> video.duration]

PendingIsTheRest ==
  /\ pc \in {"inspecting", "grouping", "extracting", "reading"} =>
       images /\ video \in Videos
  /\ pc \in {"extracting", "reading"} =>
       /\ \A e \in selection : InMapping(e)
       /\ pending = {VideoFrame(e) : e \in selection \ DOMAIN frames}
       /\ \A e \in DOMAIN frames : VideoFrame(e) \notin pending
  /\ pc = "reading" => target \in pending
  /\ images /\ pc = "writing" => DOMAIN frames = selection

ImagesAreOwn ==
  \A e \in DOMAIN frames :
    /\ frames[e] \in 1..Len(video.frames)
    /\ video.frames[frames[e]] = VideoFrame(e)
    /\ images /\ (pc \in {"extracting", "reading", "writing", "finished"})

RefusalHasACause ==
  /\ Running => outcome = "none"
  /\ outcome = "kInvalidMapping" => images /\ Refused

IInv ==
  /\ TypeOK
  /\ MappingIsTheSpan
  /\ PendingIsTheRest
  /\ ImagesAreOwn
  /\ RefusalHasACause

(* The export ends. *)
ExportEnds == <>(pc = "finished")
=============================================================================
