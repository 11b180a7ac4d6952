------------------------------ MODULE Timecode ------------------------------
(***************************************************************************)
(* Frame rates, timecode labels and the arithmetic between labels and      *)
(* frame counts (src/core/timecode.cpp).  A label is valid for a rate and  *)
(* a mode; drop-frame numbering skips the first labels of every minute     *)
(* that is not a multiple of ten.                                          *)
(*                                                                         *)
(* The counts are far below 2^63 for every label of a day, so the 64-bit   *)
(* arithmetic of the code is the integers'.                                *)
(***************************************************************************)
EXTENDS Integers

Int32Max == 2147483647

Modes == {"drop", "nonDrop"}

Rate(numerator, denominator) ==
    [numerator |-> numerator, denominator |-> denominator]

Gcd[a \in Nat] == [b \in Nat |-> IF b = 0 THEN a ELSE Gcd[b][a % b]]

IsFrameRate(numerator, denominator) ==
    /\ numerator \in 1 .. Int32Max
    /\ denominator \in 1 .. Int32Max

(* FrameRate::Create of an accepted ratio: in lowest terms. *)
CreateRate(numerator, denominator) ==
    LET divisor == Gcd[numerator][denominator]
    IN Rate(numerator \div divisor, denominator \div divisor)

StandardRates ==
    {Rate(24000, 1001), Rate(24, 1), Rate(25, 1), Rate(30000, 1001),
     Rate(30, 1), Rate(50, 1), Rate(60000, 1001), Rate(60, 1)}

NominalFramesPerSecond(rate) ==
    rate.numerator \div rate.denominator
      + (IF rate.numerator % rate.denominator >= (rate.denominator + 1) \div 2
         THEN 1 ELSE 0)

IsSupportedDropFrameRate(rate) ==
    rate \in {Rate(30000, 1001), Rate(60000, 1001)}

DroppedFramesPerMinute(rate) == NominalFramesPerSecond(rate) \div 15

(* What Timecode::Create asks of the rate and the mode alone. *)
IsSupported(rate, mode) ==
    /\ NominalFramesPerSecond(rate) \in 1 .. Int32Max
    /\ mode = "drop" => IsSupportedDropFrameRate(rate)

FramesPerDay(rate, mode) ==
    NominalFramesPerSecond(rate) * 86400
      - (IF mode = "drop"
         THEN DroppedFramesPerMinute(rate) * (1440 - 1440 \div 10) ELSE 0)

Label(hours, minutes, seconds, frames) ==
    [hours |-> hours, minutes |-> minutes, seconds |-> seconds,
     frames |-> frames]

IsDroppedLabel(label, rate) ==
    /\ label.minutes % 10 # 0 /\ label.seconds = 0
    /\ label.frames < DroppedFramesPerMinute(rate)

(* Timecode::Create accepts the label. *)
IsTimecode(label, rate, mode) ==
    /\ IsSupported(rate, mode)
    /\ label.hours \in 0 .. 23
    /\ label.minutes \in 0 .. 59
    /\ label.seconds \in 0 .. 59
    /\ label.frames \in 0 .. NominalFramesPerSecond(rate) - 1
    /\ mode = "drop" => ~ IsDroppedLabel(label, rate)

(* The frame the label would name if no label were skipped. *)
LabeledFrame(label, rate) ==
    ((label.hours * 60 + label.minutes) * 60 + label.seconds)
      * NominalFramesPerSecond(rate) + label.frames

ToFrameCount(label, rate, mode) ==
    LET minutes == label.hours * 60 + label.minutes
    IN LabeledFrame(label, rate)
         - (IF mode = "drop"
            THEN DroppedFramesPerMinute(rate) * (minutes - minutes \div 10)
            ELSE 0)

(* The labels skipped before the given frame. *)
SkippedLabels(count, rate) ==
    LET dropped == DroppedFramesPerMinute(rate)
        perMinute == NominalFramesPerSecond(rate) * 60 - dropped
        perTenMinutes == NominalFramesPerSecond(rate) * 600 - dropped * 9
        remaining == count % perTenMinutes
    IN dropped * 9 * (count \div perTenMinutes)
         + (IF remaining > dropped
            THEN dropped * ((remaining - dropped) \div perMinute) ELSE 0)

(* The fields of a frame number in which every label is used. *)
LabelOf(labeled, rate) ==
    LET perSecond == NominalFramesPerSecond(rate)
        perMinute == perSecond * 60
        perHour == perSecond * 3600
        inHour == labeled % perHour
        inMinute == inHour % perMinute
    IN Label(labeled \div perHour, inHour \div perMinute,
             inMinute \div perSecond, inMinute % perSecond)

(* Timecode::FromFrameCount of 0 .. FramesPerDay - 1. *)
FromFrameCount(count, rate, mode) ==
    LabelOf(count + (IF mode = "drop" THEN SkippedLabels(count, rate) ELSE 0),
            rate)

(* TimecodeRange: two timecodes of one rate and mode, in order. *)
IsRange(range, rate, mode) ==
    /\ IsTimecode(range.start, rate, mode)
    /\ IsTimecode(range.end, rate, mode)
    /\ ToFrameCount(range.start, rate, mode) <= ToFrameCount(range.end, rate, mode)

DurationInFrames(range, rate, mode) ==
    ToFrameCount(range.end, rate, mode) - ToFrameCount(range.start, rate, mode)

(* TimecodeRange::Duration: the number of frames, written as a label.  It  *)
(* repeats the arithmetic of FromFrameCount without its bounds.            *)
Duration(range, rate, mode) ==
    LET frames == DurationInFrames(range, rate, mode)
    IN LabelOf(frames + (IF mode = "drop" THEN SkippedLabels(frames, rate) ELSE 0),
               rate)
=============================================================================
