----------------------------- MODULE FrameTiming -----------------------------
(***************************************************************************)
(* The arithmetic between the timestamps of a video stream and its frame   *)
(* numbers (FfmpegVideoDecoder in src/media/ffmpeg_video_decoder.cpp).  A  *)
(* ratio is a Rate of Timecode; Rate(0, 0) is one the container does not   *)
(* give.  Timestamps are in units of the stream's time base.               *)
(***************************************************************************)
EXTENDS Timecode

CONSTANTS
  Int64Max,     \* the largest value of int64_t
  NoTimestamp,  \* AV_NOPTS_VALUE
  NoIndex       \* a frame without a presentation index

ASSUME FrameTimingAssumption ==
  /\ Int64Max \in Nat
  /\ NoTimestamp \notin Int
  /\ NoIndex \notin Nat

Int64Min == - Int64Max - 1

IsPositive(ratio) == ratio.numerator > 0 /\ ratio.denominator > 0

Inverted(ratio) == Rate(ratio.denominator, ratio.numerator)

(* av_rescale_q of a value that is not negative: the nearest integer, or   *)
(* INT64_MIN when that does not fit.                                       *)
Rescaled(value, from, to) ==
  LET divisor == from.denominator * to.numerator
      nearest == (value * (from.numerator * to.denominator) + divisor \div 2)
                   \div divisor
  IN IF nearest <= Int64Max THEN nearest ELSE Int64Min

(* A stream is a record [rate, average, timeBase, start]. *)
IsTimed(stream) == IsPositive(stream.rate) /\ IsPositive(stream.timeBase)

StreamStart(stream) == IF stream.start = NoTimestamp THEN 0 ELSE stream.start

(* Mutation: the rate averaged over the file instead of the nominal one. *)
AverageTimestamp(index, stream) ==
  StreamStart(stream)
    + Rescaled(index, Inverted(stream.average), stream.timeBase)

FrameOffset(index, stream) ==
  Rescaled(index, Inverted(stream.rate), stream.timeBase)

(* Where SeekToFrame seeks to. *)
FrameTimestamp(index, stream) == StreamStart(stream) + FrameOffset(index, stream)

(* SeekToFrame refuses what has no timestamp. *)
HasTimestamp(index, stream) ==
  /\ index >= 0 /\ IsTimed(stream)
  /\ FrameOffset(index, stream) >= 0
  /\ StreamStart(stream) <= Int64Max - FrameOffset(index, stream)

(* FrameIndex gives none for a timestamp before the start, one that is     *)
(* unknown or one too far from the start.                                  *)
IsIndexed(timestamp, stream) ==
  /\ timestamp # NoTimestamp /\ IsTimed(stream)
  /\ StreamStart(stream) > 0 => timestamp >= Int64Min + StreamStart(stream)
  /\ StreamStart(stream) < 0 => timestamp <= Int64Max + StreamStart(stream)
  /\ timestamp - StreamStart(stream) >= 0
  /\ Rescaled(timestamp - StreamStart(stream), stream.timeBase,
              Inverted(stream.rate)) >= 0

FrameIndex(timestamp, stream) ==
  IF IsIndexed(timestamp, stream)
  THEN Rescaled(timestamp - StreamStart(stream), stream.timeBase,
                Inverted(stream.rate))
  ELSE NoIndex

-----------------------------------------------------------------------------
(* TimelineVideoInspectionService: durations in frames, with every step in *)
(* the range of int64_t or no result (src/services).                       *)

ProductFits(left, right) == right # 0 => left <= Int64Max \div right

SumFits(left, right) == left <= Int64Max - right

(* Mutation: frames that are not complete do not count. *)
WholeFramesInDuration(ticks, timeBase, rate) ==
  (ticks * (timeBase.numerator * rate.numerator))
    \div (timeBase.denominator * rate.denominator)

(* The whole of the quotient and its rest are scaled apart. *)
FramesInDuration(ticks, timeBase, rate) ==
  LET scale == timeBase.numerator * rate.numerator
      divisor == timeBase.denominator * rate.denominator
      whole == (ticks \div divisor) * scale
      part == (ticks % divisor) * scale
      rounded == (part + divisor \div 2) \div divisor
  IN IF /\ ProductFits(ticks \div divisor, scale)
        /\ ProductFits(ticks % divisor, scale)
        /\ SumFits(part, divisor \div 2)
        /\ SumFits(whole, rounded)
     THEN whole + rounded ELSE NoIndex
=============================================================================
