------------------------ MODULE FrameExtractionProofs ------------------------
(***************************************************************************)
(* Theorems about the export worker, for any timelines, any videos and any *)
(* choice of the decoder; at the end the step simulation of                *)
(* FrameExtractionRefinement: whatever the worker does is a step of the    *)
(* worker of DocumentSession, its CancelExport, or invisible.              *)
(***************************************************************************)
EXTENDS FrameExtractionRefinement, FiniteSetTheorems, WellFoundedInduction, TLAPS

LEMMA NatOrderIsWellFounded ==
  IsWellFoundedOn({ss \in Nat \X Nat : ss[1] < ss[2]}, Nat)
  BY NatLessThanWellFounded DEF OpToRel

(* A set of naturals that is not empty has its minimum. *)
LEMMA MinOfNaturals ==
  ASSUME NEW S \in SUBSET Nat, S # {}
  PROVE  Min(S) \in S /\ \A y \in S : Min(S) <= y
<1> DEFINE R == {ss \in Nat \X Nat : ss[1] < ss[2]}
<1>1. PICK x \in S : \A y \in S : ~ (<<y, x>> \in R)
  <2> HIDE DEF R
  <2> QED
    BY NatOrderIsWellFounded, WFMin DEF R
<1>2. ASSUME NEW y \in S
      PROVE  x <= y
  <2>1. ~ (<<y, x>> \in R)
    BY <1>1
  <2>2. x \in Nat /\ y \in Nat
    OBVIOUS
  <2> QED
    BY <2>1, <2>2
<1> QED
  BY <1>2 DEF Min

(* One that is bounded has its maximum. *)
LEMMA MaxOfBounded ==
  ASSUME NEW B \in Nat, NEW S \in SUBSET (0..B), S # {}
  PROVE  Max(S) \in S /\ \A y \in S : Max(S) >= y
<1> DEFINE T == {B - x : x \in S}
<1>1. T \in SUBSET Nat /\ T # {}
  <2>1. \A x \in S : x \in 0..B
    OBVIOUS
  <2>2. \A x \in S : B - x \in Nat
    BY <2>1
  <2>3. PICK x \in S : TRUE
    OBVIOUS
  <2>4. B - x \in T
    BY <2>3
  <2> QED
    BY <2>2, <2>4
<1>2. Min(T) \in T /\ \A y \in T : Min(T) <= y
  <2> HIDE DEF T
  <2> QED
    BY <1>1, MinOfNaturals
<1>3. PICK m \in S : Min(T) = B - m
  BY <1>2
<1>4. ASSUME NEW y \in S
      PROVE  m >= y
  <2>1. B - y \in T
    OBVIOUS
  <2>2. B - m <= B - y
    BY <1>2, <1>3, <2>1
  <2>3. m \in Nat /\ y \in Nat
    OBVIOUS
  <2> QED
    BY <2>2, <2>3
<1> QED
  BY <1>4 DEF Max

(* The span of a timeline with events holds every event. *)
LEMMA SpanHoldsEvents ==
  ASSUME NEW t \in Timelines, t # <<>>
  PROVE  /\ DOMAIN t # {}
         /\ SpanStart(t) \in Nat /\ SpanEnd(t) \in Nat
         /\ \A e \in DOMAIN t :
              /\ t[e].start \in Nat /\ t[e].end \in Nat
              /\ SpanStart(t) <= t[e].start
              /\ t[e].end <= SpanEnd(t)
<1> DEFINE S == {t[e].start : e \in DOMAIN t}
           E == {t[e].end : e \in DOMAIN t}
           Event == [start : 0..FramesPerDay - 1, end : 0..FramesPerDay - 1]
<1>1. FramesPerDay \in Nat \ {0} /\ t \in Seq(Event)
  BY FrameExtractionAssumption
<1>2. DOMAIN t # {} /\ \A e \in DOMAIN t : t[e] \in Event
  <2> HIDE DEF Event
  <2>1. Len(t) \in Nat /\ DOMAIN t = 1..Len(t) /\ Len(t) # 0
    BY <1>1
  <2>2. 1 \in DOMAIN t
    BY <2>1
  <2> QED
    BY <1>1, <2>1, <2>2
<1>3. \A e \in DOMAIN t : t[e].start \in 0..FramesPerDay - 1
                          /\ t[e].end \in 0..FramesPerDay - 1
  BY <1>2
<1>4. S \in SUBSET Nat /\ S # {}
  BY <1>1, <1>2, <1>3
<1>5. E \in SUBSET (0..FramesPerDay - 1) /\ E # {} /\ FramesPerDay - 1 \in Nat
  BY <1>1, <1>2, <1>3
<1>6. Min(S) \in S /\ \A y \in S : Min(S) <= y
  <2> HIDE DEF S
  <2> QED
    BY <1>4, MinOfNaturals
<1>7. Max(E) \in E /\ \A y \in E : Max(E) >= y
  <2> HIDE DEF E
  <2> QED
    BY <1>5, MaxOfBounded
<1>8. \A e \in DOMAIN t : t[e].start \in S /\ t[e].end \in E
  OBVIOUS
<1>9. Min(S) \in Nat /\ Max(E) \in Nat
  BY <1>4, <1>5, <1>6, <1>7
<1>10. Min(S) = SpanStart(t) /\ Max(E) = SpanEnd(t)
  BY DEF SpanStart, SpanEnd
<1> HIDE DEF S, E
<1>11. ASSUME NEW e \in DOMAIN t
       PROVE  /\ t[e].start \in Nat /\ t[e].end \in Nat
              /\ Min(S) <= t[e].start /\ t[e].end <= Max(E)
  <2>1. t[e].start \in Nat /\ t[e].end \in Nat
    BY <1>1, <1>3
  <2>2. Min(S) <= t[e].start
    BY <1>6, <1>8
  <2>3. Max(E) >= t[e].end
    BY <1>7, <1>8
  <2> QED
    BY <1>9, <2>1, <2>2, <2>3
<1> QED
  BY <1>2, <1>9, <1>10, <1>11

-----------------------------------------------------------------------------
(* What the types say of the request. *)
LEMMA RequestTypes ==
  ASSUME TypeOK
  PROVE  /\ IsFiniteSet(selection)
         /\ selection \subseteq DOMAIN reference
         /\ \A e \in selection : reference[e].start \in Nat
         /\ images /\ video # NoVideo => video \in Videos
         /\ video \in Videos => /\ video.frames \in Seq(Nat \cup {NoIndex})
                                /\ video.start \in Nat
                                /\ video.duration \in Nat \ {0}
                                /\ Len(video.frames) \in Nat
<1> USE FrameExtractionAssumption DEF TypeOK
<1>1. DOMAIN reference = 1..Len(reference) /\ Len(reference) \in Nat
  OBVIOUS
<1>2. IsFiniteSet(selection)
  <2>1. IsFiniteSet(DOMAIN reference)
    BY <1>1, FS_Interval
  <2>2. selection \in SUBSET DOMAIN reference
    OBVIOUS
  <2> QED
    BY <2>1, <2>2, FS_Subset
<1>3. ASSUME NEW e \in selection
      PROVE  reference[e].start \in Nat
  <2>1. reference # <<>>
    BY <1>1
  <2> QED
    BY <2>1, SpanHoldsEvents
<1>4. video \in Videos \cup {NoVideo}
  OBVIOUS
<1>5. video \in Videos => video \in [start : Nat, duration : Nat \ {0},
                                     frames : Seq(Nat \cup {NoIndex})]
  OBVIOUS
<1>6. video \in Videos => /\ video.frames \in Seq(Nat \cup {NoIndex})
                          /\ video.start \in Nat
                          /\ video.duration \in Nat \ {0}
  BY <1>5
<1>7. video \in Videos => Len(video.frames) \in Nat
  BY <1>6
<1>8. selection \subseteq DOMAIN reference
  OBVIOUS
<1> QED
  BY <1>2, <1>3, <1>4, <1>6, <1>7, <1>8

LEMMA ReportType ==
  ASSUME TypeOK, NEW resolved \in SUBSET selection, NEW left
  PROVE  Report(resolved, left) \in Progress
<1> DEFINE F == [e \in selection |-> VideoFrame(e)]
           Frames == {VideoFrame(e) : e \in selection}
<1>1. IsFiniteSet(selection)
  BY RequestTypes
<1>2. IsFiniteSet(resolved)
  BY <1>1, FS_Subset
<1>3. IsFiniteSet(Frames)
  <2>1. F \in Surjection(selection, Frames)
    BY DEF Surjection
  <2> HIDE DEF F, Frames
  <2> QED
    BY <1>1, <2>1, FS_Surjection
<1>4. IsFiniteSet(Frames \ left)
  BY <1>3, FS_Subset
<1>5. /\ Cardinality(selection) \in Nat /\ Cardinality(resolved) \in Nat
      /\ Cardinality(Frames) \in Nat /\ Cardinality(Frames \ left) \in Nat
  BY <1>1, <1>2, <1>3, <1>4, FS_CardinalityType
<1> QED
  BY <1>5 DEF Report, Progress

LEMMA InitInvariant == Init => IInv
<1> SUFFICES ASSUME Init PROVE IInv
    OBVIOUS
<1> USE FrameExtractionAssumption DEF Init
<1>1. TypeOK
  <2>1. mapping \in [start : Nat, end : Nat, duration : Nat]
    BY DEF NoMapping
  <2>2. DOMAIN frames = {} /\ reports \in Seq(Progress)
    OBVIOUS
  <2>3. pc \in Labels /\ outcome \in Outcomes
    BY DEF Labels, Outcomes
  <2>4. DOMAIN frames \subseteq selection
        /\ \A e \in DOMAIN frames : frames[e] \in Nat \ {0}
    BY <2>2
  <2>5. /\ reference \in Timelines /\ selection \subseteq DOMAIN reference
        /\ images \in BOOLEAN /\ video \in Videos \cup {NoVideo}
        /\ stop \in BOOLEAN
    OBVIOUS
  <2>6. pending \subseteq Nat /\ target \in Nat /\ position \in Nat \ {0}
    OBVIOUS
  <2> HIDE DEF Init
  <2> QED
    BY <2>1, <2>2, <2>3, <2>4, <2>5, <2>6 DEF TypeOK
<1>2. MappingIsTheSpan /\ PendingIsTheRest /\ ImagesAreOwn /\ RefusalHasACause
  BY DEF MappingIsTheSpan, PendingIsTheRest, ImagesAreOwn, RefusalHasACause,
         Running
<1> QED
  BY <1>1, <1>2 DEF IInv

LEMMA RequestStopInvariant == IInv /\ RequestStop => IInv'
<1> SUFFICES ASSUME IInv, RequestStop PROVE IInv'
    OBVIOUS
<1> USE DEF RequestStop, request, decoding
<1>1. TypeOK'
  BY DEF IInv, TypeOK
<1>2. MappingIsTheSpan'
  BY DEF IInv, MappingIsTheSpan
<1>3. PendingIsTheRest'
  BY DEF IInv, PendingIsTheRest, InMapping, VideoFrame
<1>4. ImagesAreOwn'
  BY DEF IInv, ImagesAreOwn, VideoFrame
<1>5. RefusalHasACause'
  BY DEF IInv, RefusalHasACause, Refused, ValidMapping, InMapping,
         VideoFrame, Running
<1> QED
  BY <1>1, <1>2, <1>3, <1>4, <1>5 DEF IInv

LEMMA StartInvariant == IInv /\ Start => IInv'
<1> SUFFICES ASSUME IInv, Start PROVE IInv'
    OBVIOUS
<1> USE DEF Start, Return, request, decoding
<1>1. TypeOK'
  BY DEF IInv, TypeOK, Labels, Outcomes
<1>2. MappingIsTheSpan'
  BY DEF IInv, MappingIsTheSpan
<1>3. PendingIsTheRest'
  BY DEF IInv, PendingIsTheRest, ImagesAreOwn, TypeOK
<1>4. ImagesAreOwn'
  BY DEF IInv, ImagesAreOwn
<1>5. RefusalHasACause'
  BY DEF IInv, RefusalHasACause, Refused, ValidMapping, InMapping,
         VideoFrame, Running
<1> QED
  BY <1>1, <1>2, <1>3, <1>4, <1>5 DEF IInv

LEMMA InspectInvariant == IInv /\ Inspect => IInv'
<1> SUFFICES ASSUME IInv, Inspect PROVE IInv'
    OBVIOUS
<1> USE DEF Inspect, Return, request, decoding
<1>1. mapping' \in [start : Nat, end : Nat, duration : Nat]
  <2>1. CASE UNCHANGED mapping
    BY <2>1 DEF IInv, TypeOK
  <2>2. CASE VideoFits(video, reference)
             /\ mapping' = [start |-> SpanStart(reference),
                            end |-> SpanEnd(reference),
                            duration |-> video.duration]
    <3>1. SpanStart(reference) \in Nat /\ SpanEnd(reference) \in Nat
      BY <2>2, SpanHoldsEvents DEF IInv, TypeOK, VideoFits
    <3>2. video \in Videos
      BY DEF IInv, PendingIsTheRest
    <3>3. video.duration \in Nat
      BY <3>2, RequestTypes DEF IInv
    <3> QED
      BY <2>2, <3>1, <3>3
  <2> QED
    BY <2>1, <2>2
<1>2. TypeOK'
  BY <1>1 DEF IInv, TypeOK, Labels, Outcomes
<1>3. MappingIsTheSpan'
  BY DEF IInv, MappingIsTheSpan, PendingIsTheRest
<1>4. PendingIsTheRest'
  BY DEF IInv, PendingIsTheRest, ImagesAreOwn
<1>5. ImagesAreOwn'
  BY DEF IInv, ImagesAreOwn
<1>6. RefusalHasACause'
  BY DEF IInv, RefusalHasACause, Running
<1> QED
  BY <1>2, <1>3, <1>4, <1>5, <1>6 DEF IInv

(* No event has an image before the extraction begins. *)
LEMMA NoImagesYet ==
  ASSUME IInv, pc = "grouping"
  PROVE  DOMAIN frames = {}
  BY DEF IInv, ImagesAreOwn

LEMMA GroupInvariant == IInv /\ Group => IInv'
<1> SUFFICES ASSUME IInv, Group PROVE IInv'
    OBVIOUS
<1> USE DEF Group, Return, request
<1>1. pending' \subseteq Nat
  <2>1. CASE UNCHANGED pending
    BY <2>1 DEF IInv, TypeOK
  <2>2. CASE /\ ~Refused
             /\ pending' = {VideoFrame(e) : e \in selection}
    <3>1. ASSUME NEW e \in selection
          PROVE  VideoFrame(e) \in Nat
      <4>1. VideoFrame(e) \in 0..mapping.duration - 1
        BY <2>2 DEF Refused, InMapping
      <4>2. mapping.duration \in Nat
        BY DEF IInv, TypeOK
      <4> QED
        BY <4>1, <4>2
    <3> QED
      BY <2>2, <3>1
  <2> QED
    BY <2>1, <2>2
<1>2. reports' \in Seq(Progress)
  <2>1. Report({}, pending') \in Progress
    BY ReportType DEF IInv
  <2>2. CASE UNCHANGED reports
    BY <2>2 DEF IInv, TypeOK
  <2>3. CASE reports' = <<Report({}, pending')>>
    BY <2>1, <2>3
  <2> QED
    BY <2>2, <2>3
<1>3. TypeOK'
  BY <1>1, <1>2 DEF IInv, TypeOK, Labels, Outcomes
<1>4. MappingIsTheSpan'
  BY DEF IInv, MappingIsTheSpan, PendingIsTheRest
<1>5. PendingIsTheRest'
  <2>1. selection \ DOMAIN frames = selection
    BY NoImagesYet
  <2>2. CASE pc' = "extracting"
    <3>1. /\ \A e \in selection : InMapping(e)'
          /\ pending' = {VideoFrame(e)' : e \in selection}
      BY <2>2 DEF Refused, InMapping, VideoFrame
    <3>2. \A e \in DOMAIN frames' : VideoFrame(e)' \notin pending'
      BY NoImagesYet
    <3> QED
      BY <2>1, <2>2, <3>1, <3>2 DEF IInv, PendingIsTheRest
  <2>3. CASE pc' = "finished"
    BY <2>3 DEF PendingIsTheRest
  <2> QED
    BY <2>2, <2>3
<1>6. ImagesAreOwn'
  BY NoImagesYet DEF ImagesAreOwn
<1>7. RefusalHasACause'
  BY DEF IInv, RefusalHasACause, PendingIsTheRest, Running, Refused,
         ValidMapping, InMapping, VideoFrame
<1> QED
  BY <1>3, <1>4, <1>5, <1>6, <1>7 DEF IInv

LEMMA SeekInvariant == IInv /\ Seek => IInv'
<1> SUFFICES ASSUME IInv, Seek PROVE IInv'
    OBVIOUS
<1> USE DEF Seek, Return, request
<1>1. pending \subseteq Nat /\ pending # {}
  BY DEF IInv, TypeOK
<1>2. Min(pending) \in pending
  BY <1>1, MinOfNaturals
<1>3. Len(video.frames) \in Nat
  BY RequestTypes DEF IInv, PendingIsTheRest
<1>4. target' \in Nat /\ position' \in Nat \ {0}
  <2>1. CASE UNCHANGED <<target, position>>
    BY <2>1 DEF IInv, TypeOK
  <2>2. CASE target' = Min(pending) /\ position' \in 1..Len(video.frames) + 1
    <3>1. target' \in Nat
      BY <1>1, <1>2, <2>2
    <3>2. \A n \in Nat : \A i \in 1..n + 1 : i \in Nat \ {0}
      OBVIOUS
    <3>3. position' \in Nat \ {0}
      BY <1>3, <2>2, <3>2
    <3> QED
      BY <3>1, <3>3
  <2> QED
    BY <2>1, <2>2
<1>5. TypeOK'
  BY <1>4 DEF IInv, TypeOK, Labels, Outcomes
<1>6. MappingIsTheSpan'
  BY DEF IInv, MappingIsTheSpan, PendingIsTheRest
<1>7. PendingIsTheRest'
  BY <1>2 DEF IInv, PendingIsTheRest, InMapping, VideoFrame
<1>8. ImagesAreOwn'
  BY DEF IInv, ImagesAreOwn, VideoFrame
<1>9. RefusalHasACause'
  BY DEF IInv, RefusalHasACause, Running
<1> QED
  BY <1>5, <1>6, <1>7, <1>8, <1>9 DEF IInv

LEMMA SkipFrameInvariant == IInv /\ SkipFrame => IInv'
<1> SUFFICES ASSUME IInv, SkipFrame PROVE IInv'
    OBVIOUS
<1> USE DEF SkipFrame, request
<1>1. position' \in Nat \ {0}
  BY DEF IInv, TypeOK
<1>2. TypeOK'
  BY <1>1 DEF IInv, TypeOK
<1>3. MappingIsTheSpan'
  BY DEF IInv, MappingIsTheSpan
<1>4. PendingIsTheRest'
  BY DEF IInv, PendingIsTheRest, InMapping, VideoFrame
<1>5. ImagesAreOwn'
  BY DEF IInv, ImagesAreOwn, VideoFrame
<1>6. RefusalHasACause'
  BY DEF IInv, RefusalHasACause, Running, Refused, ValidMapping, InMapping,
         VideoFrame
<1> QED
  BY <1>2, <1>3, <1>4, <1>5, <1>6 DEF IInv

LEMMA LoseFrameInvariant == IInv /\ LoseFrame => IInv'
<1> SUFFICES ASSUME IInv, LoseFrame PROVE IInv'
    OBVIOUS
<1> USE DEF LoseFrame, Return, request, decoding
<1>1. TypeOK'
  BY DEF IInv, TypeOK, Labels, Outcomes
<1>2. MappingIsTheSpan'
  BY DEF IInv, MappingIsTheSpan
<1>3. PendingIsTheRest'
  BY DEF IInv, PendingIsTheRest
<1>4. ImagesAreOwn'
  BY DEF IInv, ImagesAreOwn, VideoFrame
<1>5. RefusalHasACause'
  BY DEF IInv, RefusalHasACause, Running
<1> QED
  BY <1>1, <1>2, <1>3, <1>4, <1>5 DEF IInv

LEMMA FinishInvariant == IInv /\ Finish => IInv'
<1> SUFFICES ASSUME IInv, Finish PROVE IInv'
    OBVIOUS
<1> USE DEF Finish, Return, request, decoding
<1>1. TypeOK'
  BY DEF IInv, TypeOK, Labels, Outcomes
<1>2. MappingIsTheSpan'
  BY DEF IInv, MappingIsTheSpan
<1>3. PendingIsTheRest'
  <2>1. DOMAIN frames \subseteq selection
    BY DEF IInv, TypeOK
  <2>2. selection \ DOMAIN frames = {}
    BY DEF IInv, PendingIsTheRest
  <2> QED
    BY <2>1, <2>2 DEF PendingIsTheRest
<1>4. ImagesAreOwn'
  BY DEF IInv, ImagesAreOwn, VideoFrame
<1>5. RefusalHasACause'
  BY DEF IInv, RefusalHasACause, Running
<1> QED
  BY <1>1, <1>2, <1>3, <1>4, <1>5 DEF IInv

LEMMA WriteInvariant == IInv /\ Write => IInv'
<1> SUFFICES ASSUME IInv, Write PROVE IInv'
    OBVIOUS
<1> USE DEF Write, Return, request, decoding
<1>1. TypeOK'
  BY DEF IInv, TypeOK, Labels, Outcomes
<1>2. MappingIsTheSpan'
  BY DEF IInv, MappingIsTheSpan
<1>3. PendingIsTheRest'
  BY DEF IInv, PendingIsTheRest
<1>4. ImagesAreOwn'
  BY DEF IInv, ImagesAreOwn, VideoFrame
<1>5. RefusalHasACause'
  BY DEF IInv, RefusalHasACause, Running
<1> QED
  BY <1>1, <1>2, <1>3, <1>4, <1>5 DEF IInv

(* What is true when the requested frame is delivered. *)
LEMMA FrameDelivered ==
  ASSUME IInv, pc = "reading", ~AtEnd, IsRequested(Current)
  PROVE  /\ position \in 1..Len(video.frames)
         /\ video.frames[position] = target
         /\ target \in pending
         /\ EventsOn(target) \subseteq selection \ DOMAIN frames
         /\ pending \ {target} =
              {VideoFrame(e) : e \in selection
                                 \ (DOMAIN frames \cup EventsOn(target))}
<1>1. /\ pending = {VideoFrame(e) : e \in selection \ DOMAIN frames}
      /\ \A e \in DOMAIN frames : VideoFrame(e) \notin pending
      /\ target \in pending
  BY DEF IInv, PendingIsTheRest
<1>2. position \in 1..Len(video.frames)
  <2>1. Len(video.frames) \in Nat
    BY RequestTypes DEF IInv, PendingIsTheRest
  <2>2. position \in Nat \ {0} /\ ~(position > Len(video.frames))
    BY DEF IInv, TypeOK, AtEnd
  <2>3. \A n \in Nat : \A i \in Nat \ {0} : ~(i > n) => i \in 1..n
    OBVIOUS
  <2> QED
    BY <2>1, <2>2, <2>3
<1>3. video.frames[position] = target
  BY DEF IsRequested, Current
<1>4. EventsOn(target) \subseteq selection \ DOMAIN frames
  BY <1>1 DEF EventsOn
<1>5. pending \ {target} =
        {VideoFrame(e) : e \in selection \ (DOMAIN frames \cup EventsOn(target))}
  BY <1>1 DEF EventsOn
<1> QED
  BY <1>1, <1>2, <1>3, <1>4, <1>5

LEMMA TakeFrameInvariant == IInv /\ TakeFrame => IInv'
<1> SUFFICES ASSUME IInv, TakeFrame PROVE IInv'
    OBVIOUS
<1> DEFINE Taken == /\ frames' = [e \in DOMAIN frames \cup EventsOn(target) |->
                                    IF e \in EventsOn(target) THEN position
                                                              ELSE frames[e]]
                    /\ pending' = pending \ {target}
                    /\ reports' = Append(reports, Report(DOMAIN frames', pending'))
                    /\ pc' = "extracting"
                    /\ UNCHANGED outcome
           Failed == /\ UNCHANGED <<pending, frames, reports>>
                     /\ pc' = "finished"
                     /\ outcome' \in {"kInvalidFrame", "kProgressCallbackFailed"}
<1>1. /\ pc = "reading" /\ ~AtEnd /\ IsRequested(Current)
      /\ UNCHANGED <<reference, selection, images, video, stop, mapping, target,
                     position>>
  BY DEF TakeFrame, request
<1>2. Taken \/ Failed
  BY DEF TakeFrame, Return
<1>3. /\ position \in 1..Len(video.frames)
      /\ video.frames[position] = target
      /\ target \in pending
      /\ EventsOn(target) \subseteq selection \ DOMAIN frames
      /\ pending \ {target} =
           {VideoFrame(e) : e \in selection
                              \ (DOMAIN frames \cup EventsOn(target))}
  BY <1>1, FrameDelivered
<1>4. CASE Failed
  <2> USE <1>1, <1>4
  <2>1. TypeOK'
    BY DEF IInv, TypeOK, Labels, Outcomes
  <2>2. MappingIsTheSpan'
    BY DEF IInv, MappingIsTheSpan
  <2>3. PendingIsTheRest'
    BY DEF IInv, PendingIsTheRest
  <2>4. ImagesAreOwn'
    BY DEF IInv, ImagesAreOwn, VideoFrame
  <2>5. RefusalHasACause'
    BY DEF IInv, RefusalHasACause, Running
  <2> QED
    BY <2>1, <2>2, <2>3, <2>4, <2>5 DEF IInv
<1>5. CASE Taken
  <2>1. /\ DOMAIN frames' = DOMAIN frames \cup EventsOn(target)
        /\ \A e \in EventsOn(target) : frames'[e] = position
        /\ \A e \in DOMAIN frames \ EventsOn(target) : frames'[e] = frames[e]
    BY <1>5
  <2>2. DOMAIN frames' \subseteq selection
    BY <1>3, <2>1 DEF IInv, TypeOK
  <2>3. reports' \in Seq(Progress)
    <3>1. Report(DOMAIN frames', pending') \in Progress
      BY <2>2, ReportType DEF IInv
    <3>2. reports \in Seq(Progress)
      BY DEF IInv, TypeOK
    <3> QED
      BY <1>5, <3>1, <3>2
  <2>4. \A e \in DOMAIN frames' : frames'[e] \in Nat \ {0}
    BY <2>1 DEF IInv, TypeOK
  <2>5. pending' \subseteq Nat /\ pc' \in Labels /\ outcome' \in Outcomes
    BY <1>5 DEF IInv, TypeOK, Labels
  <2>6. TypeOK'
    BY <1>1, <2>2, <2>3, <2>4, <2>5 DEF IInv, TypeOK
  <2>7. MappingIsTheSpan'
    BY <1>1, <1>5 DEF IInv, MappingIsTheSpan
  <2>8. PendingIsTheRest'
    <3>1. /\ \A e \in selection : InMapping(e)
          /\ \A e \in DOMAIN frames : VideoFrame(e) \notin pending
          /\ images /\ video \in Videos
      BY <1>1 DEF IInv, PendingIsTheRest
    <3>2. \A e \in selection' : InMapping(e)'
      BY <1>1, <3>1 DEF InMapping, VideoFrame
    <3>3. pending' = {VideoFrame(e)' : e \in selection' \ DOMAIN frames'}
      BY <1>1, <1>3, <1>5, <2>1 DEF VideoFrame
    <3>4. \A e \in DOMAIN frames' : VideoFrame(e)' \notin pending'
      BY <1>1, <1>5, <2>1, <3>1 DEF VideoFrame, EventsOn
    <3> QED
      BY <1>1, <1>5, <3>1, <3>2, <3>3, <3>4 DEF PendingIsTheRest
  <2>9. ImagesAreOwn'
    <3>1. images /\ pc' = "extracting"
      BY <1>1, <1>5 DEF IInv, PendingIsTheRest
    <3>2. ASSUME NEW e \in DOMAIN frames'
          PROVE  /\ frames'[e] \in 1..Len(video.frames)
                 /\ video.frames[frames'[e]] = VideoFrame(e)
      BY <1>3, <2>1 DEF IInv, ImagesAreOwn, EventsOn
    <3> QED
      BY <1>1, <3>1, <3>2 DEF ImagesAreOwn, VideoFrame
  <2>10. RefusalHasACause'
    BY <1>1, <1>5 DEF IInv, RefusalHasACause, Running
  <2> QED
    BY <2>6, <2>7, <2>8, <2>9, <2>10 DEF IInv
<1> QED
  BY <1>2, <1>4, <1>5

LEMMA StepInvariant == IInv /\ [Next]_vars => IInv'
<1> SUFFICES ASSUME IInv, [Next]_vars PROVE IInv'
    OBVIOUS
<1>1. CASE Work
  BY <1>1, StartInvariant, InspectInvariant, GroupInvariant, SeekInvariant,
     SkipFrameInvariant, TakeFrameInvariant, LoseFrameInvariant,
     FinishInvariant, WriteInvariant DEF Work
<1>2. CASE RequestStop
  BY <1>2, RequestStopInvariant
<1>3. CASE UNCHANGED vars
  <2> USE <1>3 DEF vars, request, decoding
  <2>1. TypeOK'
    BY DEF IInv, TypeOK
  <2>2. MappingIsTheSpan'
    BY DEF IInv, MappingIsTheSpan
  <2>3. PendingIsTheRest'
    BY DEF IInv, PendingIsTheRest, InMapping, VideoFrame
  <2>4. ImagesAreOwn'
    BY DEF IInv, ImagesAreOwn, VideoFrame
  <2>5. RefusalHasACause'
    BY DEF IInv, RefusalHasACause, Running, Refused, ValidMapping, InMapping,
         VideoFrame
  <2> QED
    BY <2>1, <2>2, <2>3, <2>4, <2>5 DEF IInv
<1> QED
  BY <1>1, <1>2, <1>3 DEF Next

-----------------------------------------------------------------------------
(* The mapping, the pending frames and the images agree in every state of  *)
(* an export. (Extract's loop over events_by_frame)                        *)
THEOREM Invariance == Spec => []IInv
<1>1. IInv /\ [Next]_vars => IInv'
  BY StepInvariant
<1> QED
  BY InitInvariant, <1>1, PTL DEF Spec

(* Every variable of the worker keeps its type. (Export's locals)          *)
THEOREM TypeCorrect == Spec => []TypeOK
<1>1. IInv => TypeOK
  BY DEF IInv
<1> QED
  BY Invariance, <1>1, PTL

(* Whatever frames the decoder delivers and wherever its seeks land, a     *)
(* workbook with images has every exported event's own Record In frame.    *)
(* (Extract's comparison with the requested frame)                         *)
THEOREM WorkbookIllustrated == Spec => []WorkbookIsIllustrated
<1>1. IInv => WorkbookIsIllustrated
  <2> SUFFICES ASSUME IInv, images, pc = "writing"
               PROVE  /\ DOMAIN frames = selection
                      /\ \A e \in selection :
                           video.frames[frames[e]] =
                             reference[e].start - SpanStart(reference)
      BY DEF WorkbookIsIllustrated
  <2>1. DOMAIN frames = selection
    BY DEF IInv, PendingIsTheRest
  <2>2. mapping.start = SpanStart(reference)
    BY DEF IInv, MappingIsTheSpan
  <2> QED
    BY <2>1, <2>2 DEF IInv, ImagesAreOwn, VideoFrame
<1> QED
  BY Invariance, <1>1, PTL

(* No selection of the inspected timeline is refused as outside the        *)
(* mapping, but for an event on a frame the video lacks.                   *)
(* (RecordTimelineSpan against Extract's range checks)                     *)
THEOREM OnlyMissingRefused == Spec => []OnlyMissingFramesAreRefused
<1>1. IInv => OnlyMissingFramesAreRefused
  <2> SUFFICES ASSUME IInv, outcome = "kInvalidMapping",
                      SpanStart(reference) # SpanEnd(reference)
               PROVE  \E e \in selection :
                        reference[e].start - SpanStart(reference)
                          >= video.duration
      BY DEF OnlyMissingFramesAreRefused
  <2>1. /\ mapping.start = SpanStart(reference)
        /\ mapping.end = SpanEnd(reference)
        /\ mapping.duration = video.duration
        /\ video \in Videos /\ reference # <<>>
    BY DEF IInv, MappingIsTheSpan, RefusalHasACause, VideoFits
  <2>2. /\ SpanStart(reference) \in Nat /\ SpanEnd(reference) \in Nat
        /\ \A e \in DOMAIN reference :
             /\ reference[e].start \in Nat /\ reference[e].end \in Nat
             /\ SpanStart(reference) <= reference[e].start
             /\ reference[e].end <= SpanEnd(reference)
    BY <2>1, SpanHoldsEvents DEF IInv, TypeOK
  <2>3. ValidMapping
    <3>1. PICK e \in DOMAIN reference : TRUE
      BY <2>1, SpanHoldsEvents DEF IInv, TypeOK
    <3>2. reference[e].start <= reference[e].end
      BY FrameExtractionAssumption DEF IInv, TypeOK
    <3> QED
      BY <2>1, <2>2, <3>2 DEF ValidMapping
  <2>4. PICK e \in selection : ~InMapping(e)
    BY <2>3 DEF IInv, RefusalHasACause, Refused
  <2>5. e \in DOMAIN reference
    BY DEF IInv, TypeOK
  <2>6. video.duration \in Nat
    BY <2>1, RequestTypes DEF IInv
  <2>7. VideoFrame(e) \notin 0..mapping.duration - 1
    BY <2>1, <2>2, <2>4, <2>5 DEF InMapping
  <2>8. reference[e].start - SpanStart(reference) >= video.duration
    BY <2>1, <2>2, <2>5, <2>6, <2>7 DEF VideoFrame
  <2> QED
    BY <2>8
<1> QED
  BY Invariance, <1>1, PTL

(* Once a stop is requested, an extraction writes no workbook, whatever it *)
(* was doing. (the poll after Extract)                                     *)
THEOREM StoppedWritesNothing == Spec => StoppedExtractionWritesNothing
<1>1. [Next]_vars => [images /\ stop /\ pc # "writing" => pc' # "writing"]_vars
  BY DEF Next, Work, Start, Inspect, Group, Seek, SkipFrame, TakeFrame,
         LoseFrame, Finish, Write, RequestStop, Return, vars, request, decoding
<1> QED
  BY <1>1, PTL DEF Spec, StoppedExtractionWritesNothing

-----------------------------------------------------------------------------
(* Progress.  While frames are extracted, the last report is of the images *)
(* there are and the frames that are left, so that the next one, with one  *)
(* frame less and at least one image more, exceeds it in both counts.      *)
LastReport == reports[Len(reports)]

Ascending ==
  \A i, j \in 1..Len(reports) :
    i < j => /\ reports[i].events < reports[j].events
             /\ reports[i].frames < reports[j].frames

LastIsCurrent ==
  /\ pc \in {"starting", "inspecting", "grouping"} => reports = <<>>
  /\ reports # <<>> => LastReport.events = Cardinality(DOMAIN frames)
  /\ pc \in {"extracting", "reading"} =>
       reports # <<>> /\ LastReport = Report(DOMAIN frames, pending)
  /\ images /\ pc = "writing" =>
       /\ LastReport.events = LastReport.totalEvents
       /\ LastReport.frames = LastReport.totalFrames

PInv == Ascending /\ LastIsCurrent

VideoFrames == {VideoFrame(e) : e \in selection}

LEMMA FiniteCounts ==
  ASSUME TypeOK
  PROVE  IsFiniteSet(selection) /\ IsFiniteSet(VideoFrames)
<1> DEFINE F == [e \in selection |-> VideoFrame(e)]
<1>1. IsFiniteSet(selection)
  BY RequestTypes
<1>2. F \in Surjection(selection, VideoFrames)
  BY DEF Surjection, VideoFrames
<1> HIDE DEF F
<1> QED
  BY <1>1, <1>2, FS_Surjection

SameReports ==
  /\ reports' = reports /\ frames' = frames /\ pending' = pending
  /\ selection' = selection /\ reference' = reference /\ mapping' = mapping
  /\ images' = images

LEMMA SameReportsKeep ==
  ASSUME PInv, SameReports,
         \/ pc' = pc
         \/ pc' = "finished"
         \/ pc \in {"extracting", "reading"} /\ pc' \in {"extracting", "reading"}
  PROVE  PInv'
<1>1. Report(DOMAIN frames, pending)' = Report(DOMAIN frames, pending)
  BY DEF SameReports, Report, VideoFrame
<1> QED
  BY <1>1 DEF SameReports, PInv, Ascending, LastIsCurrent, LastReport

LEMMA StartingStepsKeep ==
  ASSUME IInv, PInv, Start \/ Inspect
  PROVE  PInv'
<1>1. reports = <<>> /\ UNCHANGED <<reports, frames>>
  BY DEF PInv, LastIsCurrent, Start, Inspect, decoding
<1>2. pc' \in {"inspecting", "grouping", "finished"} \/ (pc' = "writing" /\ ~images')
  BY DEF Start, Inspect, Return, request
<1> QED
  BY <1>1, <1>2 DEF PInv, Ascending, LastIsCurrent

LEMMA GroupKeeps ==
  ASSUME IInv, PInv, Group
  PROVE  PInv'
<1>1. CASE UNCHANGED <<pending, reports>> /\ pc' = "finished"
  <2>1. SameReports
    BY <1>1 DEF Group, request, SameReports
  <2> QED
    BY <1>1, <2>1, SameReportsKeep
<1>2. CASE /\ reports' = <<Report({}, pending')>> /\ pc' = "extracting"
  <2>1. /\ UNCHANGED <<selection, reference, mapping, frames>> /\ DOMAIN frames = {}
    BY NoImagesYet DEF Group, request
  <2>2. Report(DOMAIN frames, pending)' = Report({}, pending')
    BY <2>1 DEF Report, VideoFrame
  <2>3. LastReport' = Report({}, pending') /\ Len(reports') = 1 /\ reports' # <<>>
    BY <1>2 DEF LastReport
  <2>4. LastReport'.events = Cardinality(DOMAIN frames')
    BY <2>1, <2>3 DEF Report
  <2>5. Ascending'
    BY <2>3 DEF Ascending
  <2> QED
    BY <1>2, <2>2, <2>3, <2>4, <2>5 DEF PInv, LastIsCurrent
<1> QED
  BY <1>1, <1>2 DEF Group, Return

(* The frame taken was left, and at least one event starts on it.          *)
LEMMA CountsGrow ==
  ASSUME IInv, pc = "reading", ~AtEnd, IsRequested(Current)
  PROVE  /\ Cardinality(DOMAIN frames) < Cardinality(DOMAIN frames \cup EventsOn(target))
         /\ Cardinality(VideoFrames \ pending)
              < Cardinality(VideoFrames \ (pending \ {target}))
         /\ Cardinality(DOMAIN frames) \in Nat
         /\ Cardinality(VideoFrames \ pending) \in Nat
         /\ Cardinality(DOMAIN frames \cup EventsOn(target)) \in Nat
         /\ Cardinality(VideoFrames \ (pending \ {target})) \in Nat
<1>1. /\ IsFiniteSet(selection) /\ IsFiniteSet(VideoFrames)
      /\ DOMAIN frames \subseteq selection
  BY FiniteCounts DEF IInv, TypeOK
<1>2. /\ target \in pending /\ EventsOn(target) \subseteq selection \ DOMAIN frames
      /\ pending = {VideoFrame(e) : e \in selection \ DOMAIN frames}
  BY FrameDelivered DEF IInv, PendingIsTheRest
<1> DEFINE Larger == DOMAIN frames \cup EventsOn(target)
           Done == VideoFrames \ pending
           MoreDone == VideoFrames \ (pending \ {target})
<1>3. PICK e \in selection \ DOMAIN frames : VideoFrame(e) = target
  BY <1>2
<1>4. e \in Larger /\ e \notin DOMAIN frames /\ Larger \subseteq selection
  BY <1>1, <1>2, <1>3 DEF EventsOn
<1>5. IsFiniteSet(Larger) /\ DOMAIN frames \in SUBSET Larger /\ DOMAIN frames # Larger
  BY <1>1, <1>4, FS_Subset
<1>6. target \in VideoFrames
  BY <1>3 DEF VideoFrames
<1>7. MoreDone = Done \cup {target} /\ target \notin Done
  BY <1>2, <1>6
<1> HIDE DEF Larger, Done, MoreDone
<1>8. /\ IsFiniteSet(DOMAIN frames)
      /\ Cardinality(DOMAIN frames) <= Cardinality(Larger)
      /\ Cardinality(DOMAIN frames) # Cardinality(Larger)
  BY <1>5, FS_Subset
<1>9. IsFiniteSet(Done)
  BY <1>1, FS_Subset DEF Done
<1>10. IsFiniteSet(MoreDone) /\ Cardinality(MoreDone) = Cardinality(Done) + 1
  BY <1>7, <1>9, FS_AddElement
<1>11. /\ Cardinality(DOMAIN frames) \in Nat /\ Cardinality(Larger) \in Nat
       /\ Cardinality(Done) \in Nat /\ Cardinality(MoreDone) \in Nat
  BY <1>5, <1>8, <1>9, <1>10, FS_CardinalityType
<1> QED
  BY <1>8, <1>10, <1>11 DEF Larger, Done, MoreDone

LEMMA TakeFrameKeeps ==
  ASSUME IInv, PInv, TakeFrame
  PROVE  PInv'
<1>1. CASE UNCHANGED <<pending, frames, reports>> /\ pc' = "finished"
  <2>1. SameReports
    BY <1>1 DEF TakeFrame, request, SameReports
  <2> QED
    BY <1>1, <2>1, SameReportsKeep
<1>2. CASE /\ frames' = [e \in DOMAIN frames \cup EventsOn(target) |->
                           IF e \in EventsOn(target) THEN position ELSE frames[e]]
           /\ pending' = pending \ {target}
           /\ reports' = Append(reports, Report(DOMAIN frames', pending'))
           /\ pc' = "extracting"
  <2> DEFINE new == Report(DOMAIN frames', pending')
  <2>1. /\ UNCHANGED <<selection, reference, mapping, images>>
        /\ DOMAIN frames' = DOMAIN frames \cup EventsOn(target)
        /\ pc = "reading" /\ ~AtEnd /\ IsRequested(Current)
    BY <1>2 DEF TakeFrame, request
  <2>2. LastReport = Report(DOMAIN frames, pending) /\ reports # <<>>
    BY <2>1 DEF PInv, LastIsCurrent
  <2>3. /\ new.events = Cardinality(DOMAIN frames \cup EventsOn(target))
        /\ new.frames = Cardinality(VideoFrames \ (pending \ {target}))
        /\ LastReport.events = Cardinality(DOMAIN frames)
        /\ LastReport.frames = Cardinality(VideoFrames \ pending)
    BY <1>2, <2>1, <2>2 DEF Report, VideoFrames
  <2>4. /\ LastReport.events < new.events /\ LastReport.frames < new.frames
        /\ LastReport.events \in Nat /\ new.events \in Nat
        /\ LastReport.frames \in Nat /\ new.frames \in Nat
    BY <2>1, <2>3, CountsGrow
  <2>5. Report(DOMAIN frames, pending)' = new
    BY <2>1 DEF Report, VideoFrame
  <2> DEFINE n == Len(reports)
  <2>6. /\ n \in Nat /\ n \in 1..n /\ Len(reports') = n + 1
        /\ \A i \in 1..n : reports'[i] = reports[i] /\ reports[i] \in Progress
        /\ reports'[n + 1] = new /\ reports' # <<>>
    BY <1>2, <2>2 DEF IInv, TypeOK
  <2> HIDE DEF new
  <2>7. LastReport' = new /\ LastReport = reports[n]
    BY <2>6 DEF LastReport
  <2> HIDE DEF n
  <2>8. ASSUME NEW i \in 1..n
        PROVE  reports[i].events < new.events /\ reports[i].frames < new.frames
    <3>1. /\ reports[i].events \in Nat /\ reports[i].frames \in Nat
          /\ reports[n].events \in Nat /\ reports[n].frames \in Nat
      BY <2>6 DEF Progress
    <3>2. CASE i = n
      BY <2>4, <2>7, <3>2
    <3>3. CASE i < n
      <4>1. reports[i].events < reports[n].events /\ reports[i].frames < reports[n].frames
        BY <2>6, <3>3 DEF PInv, Ascending, n
      <4> QED
        BY <2>4, <2>7, <3>1, <4>1
    <3> QED
      BY <2>6, <3>2, <3>3
  <2>9. Ascending'
    <3> SUFFICES ASSUME NEW i \in 1..n + 1, NEW j \in 1..n + 1, i < j
                 PROVE  /\ reports'[i].events < reports'[j].events
                        /\ reports'[i].frames < reports'[j].frames
      BY <2>6 DEF Ascending
    <3>1. i \in 1..n
      BY <2>6
    <3>2. CASE j = n + 1
      BY <2>6, <2>8, <3>1, <3>2
    <3>3. CASE j \in 1..n
      BY <2>6, <3>1, <3>3 DEF PInv, Ascending, n
    <3> QED
      BY <2>6, <3>2, <3>3
  <2>10. LastIsCurrent'
    BY <1>2, <2>1, <2>3, <2>5, <2>6, <2>7 DEF LastIsCurrent
  <2> QED
    BY <2>9, <2>10 DEF PInv
<1> QED
  BY <1>1, <1>2 DEF TakeFrame, Return

LEMMA FinishKeeps ==
  ASSUME IInv, PInv, Finish
  PROVE  PInv'
<1>1. /\ UNCHANGED <<reports, frames, pending, selection, reference, mapping, images>>
      /\ pc = "extracting" /\ pending = {}
      /\ pc' \in {"finished", "writing"}
  BY DEF Finish, Return, request, decoding
<1>2. DOMAIN frames = selection
  <2>1. selection \ DOMAIN frames = {} /\ DOMAIN frames \subseteq selection
    BY <1>1 DEF IInv, PendingIsTheRest, TypeOK
  <2> QED
    BY <2>1
<1>3. LastReport = Report(selection, {}) /\ reports # <<>>
  BY <1>1, <1>2 DEF PInv, LastIsCurrent
<1>4. VideoFrames \ {} = VideoFrames
  OBVIOUS
<1>5. /\ LastReport.events = LastReport.totalEvents
      /\ LastReport.frames = LastReport.totalFrames
  BY <1>3, <1>4 DEF Report, VideoFrames
<1>6. LastReport' = LastReport
  BY <1>1 DEF LastReport
<1>7. Ascending'
  BY <1>1 DEF PInv, Ascending
<1> QED
  BY <1>1, <1>5, <1>6, <1>7 DEF PInv, LastIsCurrent

LEMMA StepKeepsProgress == IInv /\ PInv /\ [Next]_vars => PInv'
<1> SUFFICES ASSUME IInv, PInv, [Next]_vars PROVE PInv'
    OBVIOUS
<1>1. CASE Seek \/ SkipFrame \/ LoseFrame \/ Write \/ RequestStop \/ UNCHANGED vars
  <2>1. SameReports
    BY <1>1 DEF Seek, SkipFrame, LoseFrame, Write, RequestStop, vars, request, decoding,
                SameReports
  <2>2. \/ pc' = pc \/ pc' = "finished"
        \/ pc \in {"extracting", "reading"} /\ pc' \in {"extracting", "reading"}
    BY <1>1 DEF Seek, SkipFrame, LoseFrame, Write, RequestStop, Return, vars
  <2> QED
    BY <2>1, <2>2, SameReportsKeep
<1> QED
  BY <1>1, StartingStepsKeep, GroupKeeps, TakeFrameKeeps,
     FinishKeeps DEF Next, Work

(* Counts rise with every report and end at the totals, for every timeline *)
(* and every video. (ReportProgress in Extract)                            *)
THEOREM ProgressCounts == Spec => []ProgressAddsUp
<1>1. Init => PInv
  BY DEF Init, PInv, Ascending, LastIsCurrent
<1>2. PInv => ProgressAddsUp
  BY DEF PInv, Ascending, LastIsCurrent, LastReport, ProgressAddsUp
<1> QED
  BY Invariance, <1>1, <1>2, StepKeepsProgress, PTL DEF Spec

-----------------------------------------------------------------------------
(* The simulation of the session's worker.                                 *)

Finished == [type |-> "exportFinished"]

Sent == [i \in 1..Len(reports) |-> PostedReport(reports[i])]

LEMMA PostedSoFar ==
  ASSUME TypeOK
  PROVE  /\ Running => Posted = Sent
         /\ ~Running => Posted = Append(Sent, Finished)
<1>1. Len(reports) \in Nat
  BY DEF TypeOK
<1>2. /\ DOMAIN Sent = 1..Len(reports) /\ Len(Sent) = Len(reports)
      /\ Sent \in Seq({Sent[i] : i \in 1..Len(reports)})
  BY <1>1 DEF Sent
<1>3. Sent \o <<>> = Sent
  BY <1>2
<1>4. Sent \o <<Finished>> = Append(Sent, Finished)
  BY <1>2
<1> QED
  BY <1>3, <1>4 DEF Posted, Sent, Finished

LEMMA PostedNext ==
  ASSUME TypeOK'
  PROVE  /\ Running' => Posted' = Sent'
         /\ ~Running' => Posted' = Append(Sent', Finished)
<1>1. Len(reports') \in Nat
  BY DEF TypeOK
<1>2. /\ DOMAIN Sent' = 1..Len(reports') /\ Len(Sent') = Len(reports')
      /\ Sent' \in Seq({Sent'[i] : i \in 1..Len(reports')})
  BY <1>1 DEF Sent
<1>3. Sent' \o <<>> = Sent'
  BY <1>2
<1>4. Sent' \o <<Finished>> = Append(Sent', Finished)
  BY <1>2
<1> QED
  BY <1>3, <1>4 DEF Posted, Sent, Finished

(* A step that leaves the request and the token alone leaves what the      *)
(* window shows alone.                                                     *)
LEMMA WindowUnmoved ==
  ASSUME UNCHANGED request, UNCHANGED stop
  PROVE  UNCHANGED Session!guiVars
         /\ UNCHANGED [state |-> "finished", path |-> reference, outcome |-> "imported"]
  BY DEF request, Session!guiVars, Session!docVars, Session!filterVars,
         Session!exportVars, Session!stopVars

LEMMA InvisibleStep ==
  ASSUME UNCHANGED request, UNCHANGED stop, UNCHANGED frames, UNCHANGED outcome,
         UNCHANGED reports, WorkerState' = WorkerState, Running' <=> Running
  PROVE  UNCHANGED Session!vars
<1>1. UNCHANGED Worker /\ UNCHANGED Posted
  BY DEF Worker, WorkerOutcome, Posted, PostedReport, request
<1> QED
  BY <1>1 DEF request, Session!vars, Session!docVars, Session!filterVars,
         Session!exportVars, Session!stopVars


(* The session's worker with another state, count and outcome.             *)
WorkerWith(state, done, result) ==
  [state |-> state, document |-> reference, selection |-> selection,
   images |-> images, token |-> 1, done |-> done, outcome |-> result]

Fields == {"state", "document", "selection", "images", "token", "done", "outcome"}

Done == Cardinality(DOMAIN frames)

(* What the session's EXCEPTs make of it. *)
LEMMA WorkerReturns ==
  ASSUME NEW o
  PROVE  [Worker EXCEPT !.state = "finished", !.outcome = o] = WorkerWith("finished", Done, o)
<1> DEFINE N == [Worker EXCEPT !.state = "finished", !.outcome = o]
           M == WorkerWith("finished", Done, o)
<1>1. DOMAIN N = Fields /\ N = [x \in Fields |-> N[x]]
  BY DEF Worker, Fields
<1>2. /\ N.state = "finished" /\ N.document = reference /\ N.selection = selection
      /\ N.images = images /\ N.token = 1 /\ N.done = Done /\ N.outcome = o
  BY DEF Worker, Done
<1>3. DOMAIN M = Fields /\ M = [x \in DOMAIN M |-> M[x]]
  BY DEF WorkerWith, Fields
<1>4. /\ M.state = "finished" /\ M.document = reference /\ M.selection = selection
      /\ M.images = images /\ M.token = 1 /\ M.done = Done /\ M.outcome = o
  BY DEF WorkerWith
<1>5. M = [x \in Fields |-> M[x]]
  BY <1>3
<1>6. \A x \in Fields : N[x] = M[x]
  BY <1>2, <1>4 DEF Fields
<1> HIDE DEF N, M
<1>7. [x \in Fields |-> N[x]] = [x \in Fields |-> M[x]]
  BY <1>6
<1> QED
  BY <1>1, <1>5, <1>7 DEF N, M

LEMMA WorkerGoes ==
  ASSUME NEW s
  PROVE  [Worker EXCEPT !.state = s] = WorkerWith(s, Done, WorkerOutcome)
<1> DEFINE N == [Worker EXCEPT !.state = s]
           M == WorkerWith(s, Done, WorkerOutcome)
<1>1. DOMAIN N = Fields /\ N = [x \in Fields |-> N[x]]
  BY DEF Worker, Fields
<1>2. /\ N.state = s /\ N.document = reference /\ N.selection = selection
      /\ N.images = images /\ N.token = 1 /\ N.done = Done /\ N.outcome = WorkerOutcome
  BY DEF Worker, Done
<1>3. DOMAIN M = Fields /\ M = [x \in DOMAIN M |-> M[x]]
  BY DEF WorkerWith, Fields
<1>4. /\ M.state = s /\ M.document = reference /\ M.selection = selection
      /\ M.images = images /\ M.token = 1 /\ M.done = Done /\ M.outcome = WorkerOutcome
  BY DEF WorkerWith
<1>5. M = [x \in Fields |-> M[x]]
  BY <1>3
<1>6. \A x \in Fields : N[x] = M[x]
  BY <1>2, <1>4 DEF Fields
<1> HIDE DEF N, M
<1>7. [x \in Fields |-> N[x]] = [x \in Fields |-> M[x]]
  BY <1>6
<1> QED
  BY <1>1, <1>5, <1>7 DEF N, M

LEMMA WorkerReads ==
  ASSUME NEW d
  PROVE  [Worker EXCEPT !.done = d, !.state = "extracting"] = WorkerWith("extracting", d, WorkerOutcome)
<1> DEFINE N == [Worker EXCEPT !.done = d, !.state = "extracting"]
           M == WorkerWith("extracting", d, WorkerOutcome)
<1>1. DOMAIN N = Fields /\ N = [x \in Fields |-> N[x]]
  BY DEF Worker, Fields
<1>2. /\ N.state = "extracting" /\ N.document = reference /\ N.selection = selection
      /\ N.images = images /\ N.token = 1 /\ N.done = d /\ N.outcome = WorkerOutcome
  BY DEF Worker
<1>3. DOMAIN M = Fields /\ M = [x \in DOMAIN M |-> M[x]]
  BY DEF WorkerWith, Fields
<1>4. /\ M.state = "extracting" /\ M.document = reference /\ M.selection = selection
      /\ M.images = images /\ M.token = 1 /\ M.done = d /\ M.outcome = WorkerOutcome
  BY DEF WorkerWith
<1>5. M = [x \in Fields |-> M[x]]
  BY <1>3
<1>6. \A x \in Fields : N[x] = M[x]
  BY <1>2, <1>4 DEF Fields
<1> HIDE DEF N, M
<1>7. [x \in Fields |-> N[x]] = [x \in Fields |-> M[x]]
  BY <1>6
<1> QED
  BY <1>1, <1>5, <1>7 DEF N, M

LEMMA WorkerNext ==
  ASSUME UNCHANGED request, NEW s, WorkerState' = s,
         NEW d, Done' = d, NEW o, WorkerOutcome' = o
  PROVE  Worker' = WorkerWith(s, d, o)
<1>1. reference' = reference /\ selection' = selection /\ images' = images
  BY DEF request
<1> QED
  BY <1>1 DEF Worker, WorkerWith, Done

(* The worker returns with the outcome o of the session. *)
LEMMA ReturnStep ==
  ASSUME IInv, Running, UNCHANGED request, UNCHANGED stop, UNCHANGED frames,
         UNCHANGED reports, pc' = "finished", TypeOK',
         NEW o, WorkerOutcome' = o
  PROVE  Session!ExportReturns(o)
<1>1. WorkerState' = "finished" /\ Done' = Done
  BY DEF WorkerState, Done
<1>2. Worker' = [Worker EXCEPT !.state = "finished", !.outcome = o]
  <2>1. Worker' = WorkerWith("finished", Done, o)
    BY <1>1, WorkerNext
  <2>2. [Worker EXCEPT !.state = "finished", !.outcome = o] = WorkerWith("finished", Done, o)
    BY WorkerReturns
  <2> QED
    BY <2>1, <2>2
<1>3. Sent' = Sent
  BY DEF Sent, PostedReport
<1>4. Posted' = Append(Posted, Finished)
  BY <1>3, PostedSoFar, PostedNext DEF IInv, Running
<1> QED
  BY <1>2, <1>4, WindowUnmoved DEF Session!ExportReturns, Session!Post, Finished

(* It goes from one of the session's states to another. *)
LEMMA GoesStep ==
  ASSUME TypeOK, TypeOK', Running, Running', UNCHANGED request, UNCHANGED stop,
         UNCHANGED frames, UNCHANGED reports, UNCHANGED outcome,
         NEW s, WorkerState' = s
  PROVE  Session!ExportGoesTo(s)
<1>1. Done' = Done /\ WorkerOutcome' = WorkerOutcome
  BY DEF Done, WorkerOutcome
<1>2. Worker' = [Worker EXCEPT !.state = s]
  BY <1>1, WorkerNext, WorkerGoes
<1>3. Sent' = Sent
  BY DEF Sent, PostedReport
<1>4. Posted' = Posted
  BY <1>3, PostedSoFar, PostedNext
<1> QED
  BY <1>2, <1>4, WindowUnmoved DEF Session!ExportGoesTo

(* It reports: what the GUI thread gets is one more event. *)
LEMMA ReportStep ==
  ASSUME TypeOK, TypeOK', Running, Running',
         NEW r, reports' = Append(reports, r)
  PROVE  Posted' = Append(Posted, PostedReport(r))
<1> DEFINE n == Len(reports)
<1>1. /\ n \in Nat /\ Len(reports') = n + 1
      /\ \A i \in 1..n : reports'[i] = reports[i]
      /\ reports'[n + 1] = r
  BY DEF TypeOK
<1>2. Sent = [i \in 1..n |-> PostedReport(reports[i])]
  BY DEF Sent
<1>3. Sent' = [i \in 1..n + 1 |-> PostedReport(reports'[i])]
  BY <1>1 DEF Sent, PostedReport
<1> DEFINE P(x) == PostedReport(x)
<1> HIDE DEF n, P
<1>4. Sent' = [i \in 1..n + 1 |-> P(reports'[i])] /\ Sent = [i \in 1..n |-> P(reports[i])]
  BY <1>2, <1>3 DEF P
<1>5. Sent \in Seq({Sent[i] : i \in 1..n}) /\ Len(Sent) = n
  BY <1>1, <1>4
<1>6. /\ DOMAIN Append(Sent, P(r)) = 1..n + 1
      /\ \A i \in 1..n + 1 :
           Append(Sent, P(r))[i] = IF i = n + 1 THEN P(r) ELSE Sent[i]
      /\ Append(Sent, P(r)) = [i \in 1..n + 1 |-> Append(Sent, P(r))[i]]
  <2> DEFINE S == {Sent[i] : i \in 1..n} \cup {P(r)}
  <2>1. Sent \in Seq(S) /\ P(r) \in S
    BY <1>1, <1>4, <1>5
  <2> HIDE DEF S
  <2>2. /\ Append(Sent, P(r)) \in Seq(S) /\ Len(Append(Sent, P(r))) = n + 1
        /\ \A i \in 1..n : Append(Sent, P(r))[i] = Sent[i]
        /\ Append(Sent, P(r))[n + 1] = P(r)
    BY <1>5, <2>1
  <2> DEFINE X == Append(Sent, P(r))
  <2> HIDE DEF X
  <2>3. X \in Seq(S) /\ Len(X) = n + 1
    BY <2>2 DEF X
  <2>4. DOMAIN X = 1..n + 1
    BY <2>3
  <2>5. X = [i \in 1..n + 1 |-> X[i]]
    BY <2>3, <2>4
  <2>6. \A i \in 1..n + 1 : X[i] = IF i = n + 1 THEN P(r) ELSE Sent[i]
    BY <1>1, <2>2 DEF X
  <2> QED
    BY <2>4, <2>5, <2>6 DEF X
<1>7. \A i \in 1..n + 1 : P(reports'[i]) = IF i = n + 1 THEN P(r) ELSE Sent[i]
  BY <1>1, <1>4
<1>8. Sent' = Append(Sent, P(r))
  BY <1>4, <1>6, <1>7
<1> QED
  BY <1>8, PostedSoFar, PostedNext DEF P

-----------------------------------------------------------------------------
(* The steps, each a step of the session's worker or invisible to it. *)

WorkerStep == Session!ExportWorkerStep \/ UNCHANGED Session!vars

LEMMA FailureStep ==
  ASSUME IInv, IInv', Running, UNCHANGED request, UNCHANGED stop, UNCHANGED frames,
         UNCHANGED reports, pc' = "finished",
         outcome' \notin {"none", "receipt", "kCancelled"}
  PROVE  WorkerStep
<1>1. WorkerOutcome' = "failed"
  BY DEF WorkerOutcome
<1>2. Session!ExportReturns("failed")
  BY <1>1, ReturnStep DEF IInv
<1>3. Worker.state = WorkerState /\ WorkerState \notin {"idle", "finished"}
  BY DEF Worker, WorkerState, Running, IInv, TypeOK, Labels
<1> QED
  BY <1>2, <1>3 DEF WorkerStep, Session!ExportWorkerStep, Session!ExportWorkerFails,
                    Session!ExportRunning

LEMMA CancelledStep ==
  ASSUME IInv, IInv', images, stop, pc \in {"starting", "extracting", "reading"},
         UNCHANGED request, UNCHANGED stop, UNCHANGED frames, UNCHANGED reports,
         pc' = "finished", outcome' = "kCancelled"
  PROVE  WorkerStep
<1>1. WorkerOutcome' = "cancelled"
  BY DEF WorkerOutcome
<1>2. Session!ExportReturns("cancelled")
  BY <1>1, ReturnStep DEF IInv, Running
<1>3. Worker.state = pc /\ Worker.images /\ Worker.token = 1
  BY DEF Worker, WorkerState
<1> QED
  BY <1>2, <1>3 DEF WorkerStep, Session!ExportWorkerStep,
                    Session!ExportWorkerIsCancelled, Session!StopRequested

LEMMA StartStep ==
  ASSUME IInv, IInv', Start
  PROVE  WorkerStep
<1> USE DEF Start, decoding
<1>1. Worker.state = "starting" /\ Worker.images = images /\ Worker.token = 1
  BY DEF Worker, WorkerState
<1>2. CASE ~images
  <2>1. Session!ExportGoesTo("writing")
    BY <1>2, GoesStep DEF IInv, Running, WorkerState
  <2> QED
    BY <1>1, <1>2, <2>1 DEF WorkerStep, Session!ExportWorkerStep,
                            Session!ExportWorkerStarts
<1>3. CASE images /\ video = NoVideo
  BY <1>3, FailureStep DEF Return, Running
<1>4. CASE images /\ video # NoVideo /\ stop
  BY <1>4, CancelledStep DEF Return
<1>5. CASE images /\ video # NoVideo /\ ~stop
  <2>1. Session!ExportGoesTo("inspecting")
    BY <1>5, GoesStep DEF IInv, Running, WorkerState
  <2> QED
    BY <1>1, <1>5, <2>1 DEF WorkerStep, Session!ExportWorkerStep,
                            Session!ExportWorkerStarts, Session!StopRequested
<1> QED
  BY <1>2, <1>3, <1>4, <1>5

LEMMA InspectStep ==
  ASSUME IInv, IInv', Inspect
  PROVE  WorkerStep
<1> USE DEF Inspect, decoding
<1>1. CASE outcome' = "kInspectionFailed" /\ pc' = "finished"
  BY <1>1, FailureStep DEF Running
<1>2. CASE pc' = "grouping" /\ UNCHANGED outcome
  BY <1>2, InvisibleStep DEF WorkerStep, WorkerState, Running
<1> QED
  BY <1>1, <1>2 DEF Return

(* The two instances of FiniteSets count alike. *)
LEMMA SameCount ==
  ASSUME NEW S
  PROVE  Session!Cardinality(S) = Cardinality(S)
  BY DEF Session!Cardinality, Cardinality

LEMMA GroupStep ==
  ASSUME IInv, PInv, IInv', Group
  PROVE  WorkerStep
<1> USE DEF Group
<1>1. CASE pc' = "finished"
  BY <1>1, FailureStep DEF Return, Running
<1>2. CASE /\ pending' = {VideoFrame(e) : e \in selection}
           /\ reports' = <<Report({}, pending')>>
           /\ pc' = "extracting" /\ UNCHANGED outcome
  <2> DEFINE r == Report({}, pending')
  <2>1. DOMAIN frames = {} /\ reports = <<>>
    BY NoImagesYet DEF PInv, LastIsCurrent
  <2>2. reports' = Append(reports, r)
    BY <1>2, <2>1
  <2>3. PostedReport(r) = [type |-> "progress", completed |-> 0,
                           total |-> Cardinality(Worker.selection)]
    BY FS_EmptySet DEF Report, PostedReport, Worker
  <2> HIDE DEF r
  <2>4. Posted' = Append(Posted, PostedReport(r))
    BY <1>2, <2>2, ReportStep DEF Running, IInv
  <2>5. Worker' = [Worker EXCEPT !.state = "extracting"]
    <3>1. Done' = Done /\ WorkerOutcome' = WorkerOutcome /\ WorkerState' = "extracting"
      BY <1>2 DEF Done, WorkerOutcome, WorkerState
    <3> QED
      BY <3>1, WorkerNext, WorkerGoes
  <2>6. Worker.state = "inspecting"
    BY DEF Worker, WorkerState
  <2>7. Session!Progress(0) = PostedReport(r)
    BY <2>3, SameCount DEF Session!Progress
  <2>8. Session!Post(Session!Progress(0))
    BY <2>4, <2>7 DEF Session!Post
  <2>9. Session!ExportWorkerInspects
    BY <2>5, <2>6, <2>8, WindowUnmoved DEF Session!ExportWorkerInspects
  <2> QED
    BY <2>9 DEF WorkerStep, Session!ExportWorkerStep
<1> QED
  BY <1>1, <1>2 DEF Return

(* The session's worker ends its loop when every event is counted: that is *)
(* when no frame is left.                                                  *)
LEMMA CountedWhenNoneIsLeft ==
  ASSUME IInv, pc = "extracting"
  PROVE  pending = {} <=> Done = Cardinality(selection)
<1>1. /\ IsFiniteSet(selection) /\ DOMAIN frames \subseteq selection
      /\ pending = {VideoFrame(e) : e \in selection \ DOMAIN frames}
  BY FiniteCounts DEF IInv, TypeOK, PendingIsTheRest
<1>2. pending = {} <=> DOMAIN frames = selection
  BY <1>1
<1>3. Cardinality(DOMAIN frames) = Cardinality(selection) <=> DOMAIN frames = selection
  BY <1>1, FS_Subset
<1> QED
  BY <1>2, <1>3 DEF Done

LEMMA PollStep ==
  ASSUME IInv, IInv', pc = "extracting", ~stop, UNCHANGED request, UNCHANGED stop,
         UNCHANGED frames, UNCHANGED reports, UNCHANGED outcome,
         pc' = IF pending = {} THEN "writing" ELSE "reading"
  PROVE  WorkerStep
<1>1. /\ Worker.state = "extracting" /\ Worker.token = 1
      /\ Worker.done = Done /\ Worker.selection = selection
  BY DEF Worker, WorkerState, Done
<1>2. WorkerState' = pc'
  BY DEF WorkerState
<1>3. Session!ExportGoesTo(pc')
  BY <1>2, GoesStep DEF IInv, Running
<1>4. Session!ExportGoesTo(IF Worker.done = Session!Cardinality(Worker.selection)
                           THEN "writing" ELSE "reading")
  BY <1>1, <1>3, CountedWhenNoneIsLeft, SameCount
<1>5. Session!ExportWorkerPolls
  BY <1>1, <1>4 DEF Session!ExportWorkerPolls, Session!StopRequested
<1> QED
  BY <1>5 DEF WorkerStep, Session!ExportWorkerStep

LEMMA LoopHeadStep ==
  ASSUME IInv, IInv', Seek \/ Finish
  PROVE  WorkerStep
<1> USE DEF Seek, Finish, decoding
<1>1. images /\ pc = "extracting"
  BY DEF IInv, PendingIsTheRest
<1>2. CASE stop
  BY <1>1, <1>2, CancelledStep DEF Return
<1>3. CASE ~stop /\ outcome' = "kSeekFailed" /\ pc' = "finished"
  BY <1>1, <1>3, FailureStep DEF Running
<1>4. CASE /\ ~stop /\ UNCHANGED outcome
           /\ pc' = IF pending = {} THEN "writing" ELSE "reading"
  BY <1>1, <1>4, PollStep
<1> QED
  BY <1>2, <1>3, <1>4 DEF Return

LEMMA SkipStep ==
  ASSUME IInv, IInv', SkipFrame
  PROVE  WorkerStep
  BY InvisibleStep DEF SkipFrame, WorkerStep, WorkerState, Running

LEMMA TakeStep ==
  ASSUME IInv, IInv', TakeFrame
  PROVE  WorkerStep
<1> USE DEF TakeFrame
<1>1. CASE pc' = "finished"
  BY <1>1, FailureStep DEF Return, Running
<1>2. CASE /\ DOMAIN frames' = DOMAIN frames \cup EventsOn(target)
           /\ reports' = Append(reports, Report(DOMAIN frames', pending'))
           /\ pc' = "extracting" /\ UNCHANGED outcome
  <2> DEFINE r == Report(DOMAIN frames', pending')
             d == Cardinality(DOMAIN frames')
  <2>1. d \in Nat /\ Done \in Nat /\ Done < d
    BY <1>2, CountsGrow DEF Done
  <2>2. d <= Cardinality(selection) /\ Cardinality(selection) \in Nat
    <3>1. IsFiniteSet(selection) /\ DOMAIN frames' \subseteq selection
      BY FiniteCounts DEF IInv, TypeOK, request
    <3> QED
      BY <3>1, FS_Subset, FS_CardinalityType
  <2>3. PostedReport(r) = [type |-> "progress", completed |-> d,
                           total |-> Cardinality(Worker.selection)]
    BY DEF Report, PostedReport, Worker, request
  <2>4. reports' = Append(reports, r)
    BY <1>2
  <2>5. Done' = d /\ WorkerOutcome' = WorkerOutcome /\ WorkerState' = "extracting"
    BY <1>2 DEF Done, WorkerOutcome, WorkerState
  <2> HIDE DEF r, d
  <2>6. Posted' = Append(Posted, PostedReport(r))
    BY <1>2, <2>4, ReportStep DEF Running, IInv
  <2>7. Worker' = [Worker EXCEPT !.done = d, !.state = "extracting"]
    <3>1. Worker' = WorkerWith("extracting", d, WorkerOutcome)
      BY <2>5, WorkerNext
    <3> QED
      BY <3>1, WorkerReads
  <2>8. /\ Worker.state = "reading" /\ Worker.done = Done
        /\ Worker.selection = selection
    BY DEF Worker, WorkerState, Done
  <2>9. Session!Post(Session!Progress(d))
    BY <2>3, <2>6, SameCount DEF Session!Post, Session!Progress
  <2>10. d \in 1..Session!Cardinality(Worker.selection) /\ d > Worker.done
    BY <2>1, <2>2, <2>8, SameCount
  <2>11. Session!ExportWorkerReads
    BY <2>7, <2>8, <2>9, <2>10, WindowUnmoved DEF Session!ExportWorkerReads
  <2> QED
    BY <2>11 DEF WorkerStep, Session!ExportWorkerStep
<1> QED
  BY <1>1, <1>2 DEF Return

LEMMA LoseStep ==
  ASSUME IInv, IInv', LoseFrame
  PROVE  WorkerStep
<1> USE DEF LoseFrame, decoding, Return
<1>1. images
  BY DEF IInv, PendingIsTheRest
<1>2. CASE stop
  BY <1>1, <1>2, CancelledStep
<1>3. CASE ~stop
  BY <1>3, FailureStep DEF Running
<1> QED
  BY <1>2, <1>3

LEMMA WriteStep ==
  ASSUME IInv, IInv', Write
  PROVE  WorkerStep
<1> USE DEF Write, decoding, Return
<1>1. CASE outcome' = "kDocumentExportFailed"
  BY <1>1, FailureStep DEF Running
<1>2. CASE outcome' = "receipt"
  <2>1. WorkerOutcome' = "receipt"
    BY <1>2 DEF WorkerOutcome
  <2>2. Session!ExportReturns("receipt")
    BY <2>1, ReturnStep DEF IInv, Running
  <2>3. Worker.state = "writing"
    BY DEF Worker, WorkerState
  <2> QED
    BY <2>2, <2>3 DEF WorkerStep, Session!ExportWorkerStep,
                      Session!ExportWorkerWrites
<1> QED
  BY <1>1, <1>2

LEMMA StopStep ==
  ASSUME IInv, RequestStop
  PROVE  Session!CancelExport
<1>1. UNCHANGED Worker /\ UNCHANGED Posted /\ UNCHANGED request
  BY DEF RequestStop, Worker, WorkerOutcome, WorkerState, Posted, PostedReport,
         request, decoding, Running
<1>2. Worker.state = WorkerState /\ WorkerState \notin {"idle", "finished"}
  BY DEF Worker, WorkerState, Running, IInv, TypeOK, Labels, RequestStop
<1>3. Session!ExportRunning
  BY <1>2 DEF Session!ExportRunning
<1>4. stop' = TRUE /\ ~stop
  BY DEF RequestStop
<1> QED
  BY <1>1, <1>3, <1>4
     DEF Session!CancelExport, Session!RequestStop, Session!docVars,
         Session!filterVars, Session!exportVars, request

LEMMA SimulatedStep ==
  ASSUME IInv, PInv, IInv', [Next]_vars
  PROVE  [Session!Next]_(Session!vars)
<1>1. CASE Work
  BY <1>1, StartStep, InspectStep, GroupStep, LoopHeadStep, SkipStep, TakeStep,
     LoseStep, WriteStep DEF Work, WorkerStep, Session!Next
<1>2. CASE RequestStop
  BY <1>2, StopStep DEF Session!Next, Session!UserStep
<1>3. CASE UNCHANGED vars
  <2>1. UNCHANGED Session!vars
    BY <1>3, InvisibleStep DEF vars, decoding, WorkerState, Running
  <2> QED
    BY <2>1
<1> QED
  BY <1>1, <1>2, <1>3 DEF Next

(* Whatever the timelines, the selection, the video and what the decoder   *)
(* does, an export that extracts frames steps as the export worker of the  *)
(* session does, and posts the same events.                                *)
(* (TimelineRenderedVideoExportService::Export as the future of            *)
(* TimelineDocumentWorkflow)                                               *)
THEOREM Simulation == Spec => ImplementsSessionWorker
<1>1. IInv /\ PInv /\ IInv' /\ [Next]_vars => [Session!Next]_(Session!vars)
  BY SimulatedStep
<1>2. Init => PInv
  BY DEF Init, PInv, Ascending, LastIsCurrent
<1>3. Spec => []IInv
  BY Invariance
<1> QED
  BY <1>1, <1>2, <1>3, StepKeepsProgress, PTL DEF Spec, ImplementsSessionWorker

=============================================================================
