--------------------------- MODULE VideoInspection ---------------------------
(***************************************************************************)
(* TimelineVideoInspectionService (src/services) and the opening of a file *)
(* below it: whether a video is a render of the timeline, judged by what   *)
(* its container says.  What that is depends on the program that wrote it: *)
(* a recording is what was rendered, a writer how a program describes it.  *)
(* The pictures of a recording show its first frame + shown[1], and so on; *)
(* the last of them ends after `span` frames.                              *)
(***************************************************************************)
EXTENDS FrameTiming, Sequences, FiniteSets, FiniteSetsExt

CONSTANTS
  Timelines,   \* imported timelines: [rate, mode, events]
  Recordings,  \* what was rendered: [rate, mode, label, span, shown]
  Writers,     \* [format, brand, codec, timeBase, states, timecodes, ...]
  Tolerance,   \* kVideoDurationToleranceFrames
  PerSecond,   \* kMicrosecondsPerSecond
  Absent,      \* an optional without a value
  Unreadable   \* a text that is no timecode

VARIABLES timeline, recording, writer, stage, information, mapping, diagnostics

vars == <<timeline, recording, writer, stage, information, mapping, diagnostics>>

request == <<timeline, recording, writer>>

Init ==
  /\ timeline \in Timelines
  /\ recording \in Recordings
  /\ writer \in Writers
  /\ stage = "opening"
  /\ information = Absent /\ mapping = Absent
  /\ diagnostics = <<>>

-----------------------------------------------------------------------------
(* What a container says. *)

Quotients == [numerator : Nat, denominator : Nat \ {0}]

Floor(q) == q.numerator \div q.denominator

IsWhole(q) == q.numerator % q.denominator = 0

(* What is inverted for the next step: 1 / (q - Floor(q)). *)
Rest(q) == Rate(q.denominator, q.numerator % q.denominator)

(* av_cmp_q: q is less than r, by the continued fractions. *)
IsLess[q \in Quotients] ==
  [r \in Quotients |->
     \/ Floor(q) < Floor(r)
     \/ /\ Floor(q) = Floor(r) /\ ~ IsWhole(r)
        /\ IsWhole(q) \/ IsLess[Rest(r)][Rest(q)]]

(* Some writers store the NTSC rates as a decimal fraction. *)
Approximation(rate) ==
  CASE rate = Rate(24000, 1001) -> Rate(2997, 125)
    [] rate = Rate(30000, 1001) -> Rate(2997, 100)
    [] OTHER -> rate

Says(w, field, value) == IF field \in w.states THEN value ELSE Absent

(* The timecode a writer embeds: the label of the first frame. *)
Embedded(r) == [mode |-> r.mode, label |-> r.label]

FirstFrame(r) == ToFrameCount(r.label, r.rate, r.mode)

(* ContainerType. *)
Container(w) ==
  CASE w.format = "mxf" -> "kMxf"
    [] w.format = "mov" /\ w.brand \in {Absent, "qt"} -> "kMov"
    [] w.format = "mov" /\ w.brand \notin {Absent, "qt"} -> "kMp4"
    [] OTHER -> "kOther"

(* StreamInformation and Open: what the file says, without zeros. *)
Information(r, w) ==
  [container |-> Container(w),
   average |-> Says(w, "average",
                    CreateRate(r.rate.numerator * Len(r.shown),
                               r.rate.denominator * r.span)),
   nominal |-> Says(w, "nominal",
                    IF "approximate" \in w.states
                    THEN Approximation(r.rate) ELSE r.rate),
   timeBase |-> w.timeBase,
   duration |-> Says(w, "duration", Rescaled(r.span, Inverted(r.rate), w.timeBase)),
   frameCount |-> Says(w, "frameCount", Len(r.shown)),
   microseconds |-> Says(w, "microseconds",
                         Rescaled(r.span, Inverted(r.rate), Rate(1, PerSecond))),
   timecodes |-> Says(w, "timecode", {Embedded(r)}),
   others |-> w.timecodes]

SupportedCodecs == {"H.264", "HEVC", "ProRes", "DNxHD", "MPEG-2", "MJPEG"}

-----------------------------------------------------------------------------
(* Validate. *)

Events(t) == {t.events[i] : i \in DOMAIN t.events}

(* RecordTimelineSpan. *)
IsConsistent(t) == \A e \in Events(t) : e.rate = t.rate /\ e.mode = t.mode

SpanStart(t) == Min({e.start : e \in Events(t)})

SpanEnd(t) == Max({e.end : e \in Events(t)})

(* SelectedStreamDuration: of the stream, or else of the container. *)
HasStreamDuration(v) ==
  v.duration # Absent /\ v.duration > 0 /\ IsPositive(v.timeBase)

HasDuration(v) ==
  HasStreamDuration(v) \/ (v.microseconds # Absent /\ v.microseconds > 0)

FramesOfDuration(v, rate) ==
  IF HasStreamDuration(v)
  THEN FramesInDuration(v.duration, v.timeBase, rate)
  ELSE FramesInDuration(v.microseconds, Rate(1, PerSecond), rate)

(* DurationFrames: the stated number of frames, or those of the duration.  *)
DurationFrames(v, rate) ==
  IF v.frameCount # Absent /\ v.frameCount > 0 THEN v.frameCount
  ELSE IF HasDuration(v) /\ FramesOfDuration(v, rate) # NoIndex
  THEN FramesOfDuration(v, rate) ELSE 0

(* Mutation: only a video that is too long is refused. *)
IsNotLonger(difference) == difference <= Tolerance

IsTolerated(difference) == difference \in (- Tolerance) .. Tolerance

IsConstantFrameRate(v) ==
  \/ v.average = v.nominal
  \/ /\ HasDuration(v)
     /\ NoIndex \notin {FramesOfDuration(v, v.average), FramesOfDuration(v, v.nominal)}
     /\ IsTolerated(FramesOfDuration(v, v.average) - FramesOfDuration(v, v.nominal))

Midpoint(q, r) ==
  Rate(q.numerator * r.denominator + r.numerator * q.denominator,
       2 * q.denominator * r.denominator)

(* NearestStandardFrameRate, as a set of at most one rate: the nearest,    *)
(* the lower of two, if the rate is strictly within a hundredth of it.     *)
NearestStandardFrameRate(rate) ==
  {s \in StandardRates :
     /\ \A t \in StandardRates :
          /\ IsLess[s][t] => ~ IsLess[Midpoint(s, t)][rate]
          /\ IsLess[t][s] => IsLess[Midpoint(s, t)][rate]
     /\ LET ratio == Rate(rate.numerator * s.denominator,
                          rate.denominator * s.numerator)
        IN IsLess[Rate(99, 100)][ratio] /\ IsLess[ratio][Rate(101, 100)]}

FrameRatesMatch(videoRate, timelineRate) ==
  \/ videoRate = timelineRate
  \/ /\ NearestStandardFrameRate(videoRate) # {}
     /\ NearestStandardFrameRate(videoRate) = NearestStandardFrameRate(timelineRate)

(* EmbeddedTimecodeValues: of the stream, the container and other streams. *)
EmbeddedTimecodes(v) ==
  (IF v.timecodes = Absent THEN {} ELSE v.timecodes) \cup v.others

TheTimecode(v) == CHOOSE value \in EmbeddedTimecodes(v) : TRUE

IsReadable(value, rate) ==
  value # Unreadable /\ IsTimecode(value.label, rate, value.mode)

HasOneTimecode(v, rate) ==
  Cardinality(EmbeddedTimecodes(v)) = 1 /\ IsReadable(TheTimecode(v), rate)

Conditions ==
  <<"unsupported_container", "empty_timeline", "inconsistent_timeline",
    "missing_frame_rate", "variable_frame_rate", "frame_rate_mismatch",
    "missing_timecode", "invalid_timecode", "timecode_mode_mismatch",
    "timeline_start_mismatch", "missing_duration", "duration_mismatch">>

(* A condition presumes that none of those before it holds. *)
Holds(condition, v, t) ==
  CASE condition = "unsupported_container" -> v.container = "kOther"
    [] condition = "empty_timeline" -> Events(t) = {}
    [] condition = "inconsistent_timeline" -> ~ IsConsistent(t)
    [] condition = "missing_frame_rate" -> Absent \in {v.average, v.nominal}
    [] condition = "variable_frame_rate" -> ~ IsConstantFrameRate(v)
    [] condition = "frame_rate_mismatch" -> ~ FrameRatesMatch(v.nominal, t.rate)
    [] condition = "missing_timecode" -> EmbeddedTimecodes(v) = {}
    [] condition = "invalid_timecode" -> ~ HasOneTimecode(v, t.rate)
    [] condition = "timecode_mode_mismatch" -> TheTimecode(v).mode # t.mode
    [] condition = "timeline_start_mismatch" ->
         ToFrameCount(TheTimecode(v).label, t.rate, TheTimecode(v).mode) # SpanStart(t)
    [] condition = "missing_duration" -> DurationFrames(v, t.rate) <= 0
    [] condition = "duration_mismatch" ->
         ~ IsTolerated(DurationFrames(v, t.rate) - (SpanEnd(t) - SpanStart(t)))

Refuse(codes) ==
  /\ stage' = "refused"
  /\ diagnostics' = codes
  /\ UNCHANGED mapping

(* Validate gets to its nth check. *)
Reaches[n \in 1 .. Len(Conditions) + 1] ==
  n > 1 => Reaches[n - 1] /\ ~ Holds(Conditions[n - 1], information, timeline)

(* The first condition that holds is the only one reported. *)
Validate ==
  /\ stage = "validating"
  /\ \/ \E n \in DOMAIN Conditions :
          /\ Reaches[n] /\ Holds(Conditions[n], information, timeline)
          /\ Refuse(<<Conditions[n]>>)
     \/ /\ Reaches[Len(Conditions) + 1]
        /\ mapping' = [offset |-> - SpanStart(timeline),
                       start |-> SpanStart(timeline), end |-> SpanEnd(timeline),
                       duration |-> DurationFrames(information, timeline.rate)]
        /\ stage' = "accepted"
        /\ UNCHANGED diagnostics
  /\ UNCHANGED <<request, information>>

-----------------------------------------------------------------------------
(* Inspect: Open, then Validate. *)

(* Open fails by the file system, by the container and by the codec. *)
FailToOpen ==
  /\ stage = "opening"
  /\ \/ Refuse(<<"kOpenInput">>)
     \/ Refuse(<<"kReadStreamInformation">>)
     \/ Container(writer) = "kOther" /\ Refuse(<<"kUnsupportedContainer">>)
     \/ /\ Container(writer) # "kOther"
        /\ \/ writer.codec = Absent /\ Refuse(<<"kNoVideoStream">>)
           \/ /\ writer.codec # Absent
              /\ \/ /\ writer.codec \notin SupportedCodecs
                    /\ Refuse(<<"kUnsupportedCodec">>)
                 \/ /\ writer.codec \in SupportedCodecs
                    /\ Refuse(<<"kOpenDecoder">>)
  /\ UNCHANGED <<request, information>>

Open ==
  /\ stage = "opening"
  /\ Container(writer) # "kOther" /\ writer.codec \in SupportedCodecs
  /\ information' = Information(recording, writer)
  /\ stage' = "validating"
  /\ UNCHANGED <<request, mapping, diagnostics>>

Next == FailToOpen \/ Open \/ Validate

Spec == Init /\ [][Next]_vars

-----------------------------------------------------------------------------
(* What the properties ask of the recordings and the writers.              *)

Ratios == [numerator : 1 .. Int32Max, denominator : 1 .. Int32Max]

(* A rate in lowest terms that is a standard one or none that is nearly    *)
(* standard: between 60 and 60.6 a label may count 60 or 61 frames.        *)
IsUsual(rate) ==
  /\ rate \in Ratios
  /\ CreateRate(rate.numerator, rate.denominator) = rate
  /\ rate \in StandardRates \/ NearestStandardFrameRate(rate) = {}

(* No frame is shown twice. *)
IsRecording(r) ==
  /\ IsUsual(r.rate)
  /\ r.mode \in Modes /\ IsTimecode(r.label, r.rate, r.mode)
  /\ r.span \in Nat
  /\ r.shown \in Seq(0 .. r.span - 1)
  /\ Len(r.shown) \in 1 .. r.span

(* Its only true timecode is the one it embeds. *)
IsWriter(w) ==
  /\ w.timeBase \in Ratios
  /\ w.start \in Int \cup {NoTimestamp}
  /\ w.timecodes \subseteq {Unreadable}

(* What a writer counts durations in. *)
Bases(w) ==
  {w.timeBase} \cup (IF "microseconds" \in w.states THEN {Rate(1, PerSecond)} ELSE {})

(* One in so many frames is lost to an approximation. *)
Drift == 1000000

(* No tick is longer than a frame; and if the rate is approximated, what   *)
(* is lost in all is less than what the ticks leave of half a frame.       *)
IsPrecise(r, w, base) ==
  LET tick == base.numerator * r.rate.numerator
      frame == base.denominator * r.rate.denominator
      approximated == "approximate" \in w.states /\ Approximation(r.rate) # r.rate
  IN /\ tick <= frame
     /\ approximated => 2 * r.span < Drift
     /\ approximated /\ tick < frame =>
          2 * r.span * (frame \div (frame - tick) + 1) <= Drift

(* Counting the frames of the duration exceeds no integer. *)
IsCountable(r, base) ==
  LET ticks == Rescaled(r.span, Inverted(r.rate), base)
  IN /\ ticks >= 0
     /\ \A rate \in {r.rate, Approximation(r.rate)} :
          ticks * (base.numerator * rate.numerator)
            + base.denominator * rate.denominator <= Int64Max

(* A render that lasts as long as the timeline, but for one frame, and     *)
(* whose every frame has a picture.                                        *)
IsRender(r, t) ==
  /\ Events(t) # {} /\ IsConsistent(t)
  /\ r.rate = t.rate /\ r.mode = t.mode
  /\ FirstFrame(r) = SpanStart(t)
  /\ Len(r.shown) = r.span
  /\ r.span - (SpanEnd(t) - SpanStart(t)) \in -1 .. 1

(* A writer that says what the inspection asks for, in some form. *)
SaysEnough(w) ==
  /\ {"average", "nominal", "timecode"} \subseteq w.states
  /\ w.states \cap {"duration", "frameCount", "microseconds"} # {}
  /\ w.timecodes = {}
  /\ "approximate" \in w.states => w.states \cap {"duration", "microseconds"} # {}

(* No faithful render is refused for the way its container rounds rates    *)
(* and durations: what kRenderedVideoInputContract asks for is enough.     *)
(* (Validate, FramesInDuration, IsConstantFrameRate, FrameRatesMatch)      *)
FaithfulRendersAreAccepted ==
  /\ stage = "refused"
  /\ information # Absent
  => ~ (IsRender(recording, timeline) /\ SaysEnough(writer))
=============================================================================
