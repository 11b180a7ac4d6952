-------------------------- MODULE ConversionProofs --------------------------
(***************************************************************************)
(* What one conversion promises, proved for every set of command lines and *)
(* of input files.                                                         *)
(*                                                                         *)
(* The argument goes from the arithmetic up: labels and frame counts       *)
(* determine each other at every supported rate; the importer, line by     *)
(* line, turns the accepted records into events with the comments up to    *)
(* the next one and tells of everything it refused or did not understand;  *)
(* and the exporter's rows are those events as long as no cell failed.     *)
(***************************************************************************)
EXTENDS Conversion, FiniteSetTheorems, SequenceTheorems, TLAPS

(* Induction, from the order of the naturals being well-founded.           *)
LEMMA LeastNatural ==
    ASSUME NEW T, T \subseteq Nat, T # {}
    PROVE  \E n \in T : \A m \in T : n <= m
<1> DEFINE Less == {pair \in Nat \X Nat : pair[1] < pair[2]}
<1>1. IsWellFoundedOn(Less, Nat)
    BY NatLessThanWellFounded DEF OpToRel
<1>2. \E n \in T : \A m \in T : <<m, n>> \notin Less
    <2> HIDE DEF Less
    <2> QED BY <1>1, WFMin
<1>3. PICK n \in T : \A m \in T : <<m, n>> \notin Less
    BY <1>2
<1>4. \A m \in T : ~ m < n
    BY <1>3
<1> QED BY <1>4

LEMMA Induction ==
    ASSUME NEW T, 0 \in T, \A n \in Nat : n \in T => n + 1 \in T
    PROVE  Nat \subseteq T
<1> SUFFICES ASSUME Nat \ T # {} PROVE FALSE
    OBVIOUS
<1>1. PICK n \in Nat \ T : \A m \in Nat \ T : n <= m
    <2>1. Nat \ T \subseteq Nat
        OBVIOUS
    <2> QED BY <2>1, LeastNatural
<1>2. n - 1 \in T /\ n - 1 \in Nat
    BY <1>1
<1> QED BY <1>1, <1>2

LEMMA MaxOfSubset ==
  ASSUME NEW n \in Nat, NEW s \in SUBSET (1 .. n), s # {}
  PROVE  Max(s) \in s /\ \A y \in s : Max(s) >= y
<1> DEFINE T == {k \in Nat : \E x \in s : x = n - k}
<1>1. T \subseteq Nat /\ T # {}
  <2>1. PICK x \in s : TRUE
    OBVIOUS
  <2>2. n - x \in Nat /\ n - (n - x) = x
    BY <2>1
  <2> QED BY <2>1, <2>2
<1>2. PICK k \in T : \A j \in T : k <= j
  BY <1>1, LeastNatural
<1>3. n - k \in s /\ k \in Nat
  BY <1>2
<1>4. ASSUME NEW y \in s PROVE n - k >= y
  <2>1. n - y \in T
    OBVIOUS
  <2> QED BY <1>2, <1>3, <2>1
<1> QED BY <1>3, <1>4 DEF Max

LEMMA MaxOfFirst ==
  ASSUME NEW n \in Nat
  PROVE  Max(1 .. n + 1) = n + 1 /\ (1 .. n + 1) \ {n + 1} = 1 .. n
<1> DEFINE top == n + 1
           all == 1 .. top
<1>1. top \in Nat /\ all \in SUBSET all /\ all # {} /\ top \in all
      /\ \A x \in all : x >= top => x = top
  OBVIOUS
<1>2. Max(all) \in all /\ Max(all) >= top
  <2> HIDE DEF top
  <2> QED BY <1>1, MaxOfSubset
<1>3. Max(all) = top
  BY <1>1, <1>2
<1>4. all \ {top} = 1 .. n
  OBVIOUS
<1> QED BY <1>3, <1>4


-----------------------------------------------------------------------------
(* Labels and frame counts.  The arithmetic is proved first, on numbers: n *)
(* stands for the nominal rate and d for the labels dropped a minute.      *)
Labels == [hours : Int, minutes : Int, seconds : Int, frames : Int]

(* The nominal rates that drop labels. *)
LEMMA DropRates ==
    ASSUME NEW rate, IsSupportedDropFrameRate(rate)
    PROVE  \/ NominalFramesPerSecond(rate) = 30 /\ DroppedFramesPerMinute(rate) = 2
           \/ NominalFramesPerSecond(rate) = 60 /\ DroppedFramesPerMinute(rate) = 4
  BY SMT DEF IsSupportedDropFrameRate, Rate, NominalFramesPerSecond,
         DroppedFramesPerMinute

(* Multiplication by a positive number keeps the order. *)
LEMMA AtLeastOne ==
    ASSUME NEW d \in Nat, NEW k \in Int, k >= 1
    PROVE  d * k >= d
<1>1. d * (k - 1) >= 0
  OBVIOUS
<1>2. d * k = d * (k - 1) + d
  OBVIOUS
<1> QED BY <1>1, <1>2

LEMMA DivisionIsUnique ==
    ASSUME NEW d \in Nat \ {0}, NEW q \in Int, NEW r \in 0 .. d - 1,
           NEW number \in Int, number = d * q + r
    PROVE  number \div d = q /\ number % d = r
<1> DEFINE p == number \div d
           s == number % d
<1>1. p \in Int /\ s \in 0 .. d - 1 /\ number = d * p + s
  OBVIOUS
<1> HIDE DEF p, s
<1>2. d * (q - p) = s - r
  <2>1. d * (q - p) = d * q - d * p
    BY <1>1
  <2>2. d * q + r = d * p + s
    BY <1>1
  <2>3. d * q \in Int /\ d * p \in Int
    BY <1>1
  <2> QED BY <1>1, <2>1, <2>2, <2>3
<1>3. ~ q - p >= 1
  <2> SUFFICES ASSUME q - p >= 1 PROVE FALSE
    OBVIOUS
  <2>1. d * (q - p) >= d
    BY <1>1, AtLeastOne
  <2> QED BY <1>1, <1>2, <2>1
<1>4. ~ p - q >= 1
  <2> SUFFICES ASSUME p - q >= 1 PROVE FALSE
    OBVIOUS
  <2>1. d * (p - q) >= d
    BY <1>1, AtLeastOne
  <2>2. d * (p - q) = - (d * (q - p))
    BY <1>1
  <2> QED BY <1>1, <1>2, <2>1, <2>2
<1>5. p = q
  BY <1>1, <1>3, <1>4
<1>6. s = r
  BY <1>1, <1>5
<1> QED BY <1>5, <1>6 DEF p, s

(* Division of a number given as a multiple of n and a rest. *)
Divides(n, c, a, f) ==
    /\ (a * n + f) \div (n * c) = a \div c
    /\ (a * n + f) % (n * c) = (a % c) * n + f

LEMMA ScaledDivision ==
    ASSUME NEW n \in Nat \ {0}, NEW c \in {60, 3600}, NEW a \in Nat, NEW f \in 0 .. n - 1
    PROVE  Divides(n, c, a, f)
<1> DEFINE q == a \div c
           r == a % c
           d == n * c
           rest == r * n + f
<1>1. q \in Nat /\ r \in 0 .. c - 1 /\ a = q * c + r /\ c \in Nat \ {0}
  OBVIOUS
<1> HIDE DEF q, r
<1>2. d \in Nat \ {0}
  OBVIOUS
<1>3. rest \in 0 .. d - 1
  <2>1. r * n \in Nat /\ (c - 1 - r) * n \in Nat
    BY <1>1
  <2>2. (c - 1 - r) * n = n * c - n - r * n
    BY <1>1
  <2> QED BY <2>1, <2>2
<1>4. a * n + f = d * q + rest
  <2>1. a * n = (q * c) * n + r * n
    BY <1>1
  <2>2. (q * c) * n = (n * c) * q
    BY <1>1
  <2> QED BY <1>1, <2>1, <2>2
<1>5. a * n + f \in Int
  OBVIOUS
<1> DEFINE number == a * n + f
<1> HIDE DEF d, rest, number
<1>6. number \div d = q /\ number % d = rest
  BY <1>1, <1>2, <1>3, <1>4, <1>5, DivisionIsUnique DEF number
<1> QED BY <1>6 DEF Divides, number, d, rest, q, r

Splits(n, a, f) ==
    /\ (a * n + f) \div (n * 60) = a \div 60
    /\ (a * n + f) % (n * 60) = (a % 60) * n + f
    /\ (a * n + f) \div (n * 3600) = a \div 3600
    /\ (a * n + f) % (n * 3600) = (a % 3600) * n + f

LEMMA MinutesAndHours ==
    ASSUME NEW n \in Nat \ {0}, NEW a \in Nat, NEW f \in 0 .. n - 1
    PROVE  Splits(n, a, f)
<1>1. 60 \in {60, 3600} /\ 3600 \in {60, 3600}
  OBVIOUS
<1>2. Divides(n, 60, a, f) /\ Divides(n, 3600, a, f)
  BY <1>1, ScaledDivision
<1> QED BY <1>2 DEF Divides, Splits

(* A number of a day and the fields of its label. *)
HasFields(n, number, h, m, s, f) ==
    /\ h \in 0 .. 23 /\ m \in 0 .. 59 /\ s \in 0 .. 59 /\ f \in 0 .. (n - 1)
    /\ number \in Int /\ 0 <= number /\ number < n * 86400
    /\ ((h * 60 + m) * 60 + s) * n + f = number
    /\ number \div (n * 3600) = h
    /\ (number % (n * 3600)) \div (n * 60) = m
    /\ ((number % (n * 3600)) % (n * 60)) \div n = s
    /\ ((number % (n * 3600)) % (n * 60)) % n = f
    /\ number \div (n * 60) = h * 60 + m
    /\ number % (n * 60) = s * n + f

LEMMA FieldsOfNumber ==
    ASSUME NEW n \in Nat \ {0}, NEW number \in Int,
           0 <= number, number < n * 86400
    PROVE  HasFields(n, number, number \div (n * 3600),
                     (number % (n * 3600)) \div (n * 60),
                     ((number % (n * 3600)) % (n * 60)) \div n,
                     ((number % (n * 3600)) % (n * 60)) % n)
<1> DEFINE total == number \div n
           f0 == number % n
<1>1. total \in Nat /\ f0 \in 0 .. n - 1 /\ number = total * n + f0 /\ total < 86400
  <2>1. total \in Int /\ f0 \in 0 .. n - 1 /\ number = n * total + f0
    OBVIOUS
  <2> HIDE DEF total, f0
  <2>2. total >= 0
    <3> SUFFICES ASSUME total <= -1 PROVE FALSE
      BY <2>1
    <3>1. n * (- total) >= n
      BY <2>1, AtLeastOne
    <3>2. n * (- total) = - (n * total)
      BY <2>1
    <3> QED BY <2>1, <3>1, <3>2
  <2>3. total < 86400
    <3> SUFFICES ASSUME total - 86399 >= 1 PROVE FALSE
      BY <2>1
    <3>1. n * (total - 86399) >= n
      BY <2>1, AtLeastOne
    <3>2. n * (total - 86399) = n * total - n * 86399
      BY <2>1
    <3> QED BY <2>1, <3>1, <3>2
  <2>4. n * total = total * n
    BY <2>1
  <2> QED BY <2>1, <2>2, <2>3, <2>4
<1> HIDE DEF total, f0
<1> DEFINE inHour == total % 3600
           inMinute == inHour % 60
<1>2. /\ number \div (n * 3600) = total \div 3600
      /\ number % (n * 3600) = inHour * n + f0
      /\ number \div (n * 60) = total \div 60
      /\ number % (n * 60) = (total % 60) * n + f0
  BY <1>1, MinutesAndHours DEF Splits
<1>3. inHour \in Nat /\ inMinute \in Nat
  BY <1>1
<1>4. /\ (inHour * n + f0) \div (n * 60) = inHour \div 60
      /\ (inHour * n + f0) % (n * 60) = inMinute * n + f0
  <2> HIDE DEF inHour
  <2> QED BY <1>1, <1>3, MinutesAndHours DEF Splits
<1>5. (inMinute * n + f0) \div n = inMinute /\ (inMinute * n + f0) % n = f0
  <2> DEFINE least == inMinute * n + f0
  <2> HIDE DEF inMinute
  <2>1. least \in Int /\ least = n * inMinute + f0 /\ inMinute \in Int
    BY <1>1, <1>3
  <2> HIDE DEF least
  <2>2. least \div n = inMinute /\ least % n = f0
    BY <1>1, <2>1, DivisionIsUnique
  <2> QED BY <2>2 DEF least
<1>6. /\ total \div 3600 \in 0 .. 23 /\ inHour \div 60 \in 0 .. 59 /\ inMinute \in 0 .. 59
      /\ total = ((total \div 3600) * 60 + inHour \div 60) * 60 + inMinute
      /\ total \div 60 = (total \div 3600) * 60 + inHour \div 60
      /\ total % 60 = inMinute
  BY <1>1, SMTT(30)
<1> DEFINE h == number \div (n * 3600)
           m == (number % (n * 3600)) \div (n * 60)
           s == ((number % (n * 3600)) % (n * 60)) \div n
           f == ((number % (n * 3600)) % (n * 60)) % n
           H == total \div 3600
           M == inHour \div 60
<1> HIDE DEF inHour, inMinute
<1>7. h = H /\ m = M /\ s = inMinute /\ f = f0
  BY <1>2, <1>4, <1>5
<1>8. /\ H \in 0 .. 23 /\ M \in 0 .. 59 /\ inMinute \in 0 .. 59
      /\ total = (H * 60 + M) * 60 + inMinute
      /\ number \div (n * 60) = H * 60 + M
      /\ number % (n * 60) = inMinute * n + f0
  BY <1>2, <1>6
<1> HIDE DEF H, M
<1>9. HasFields(n, number, H, M, inMinute, f0)
  <2>1. /\ number \div (n * 3600) = H /\ (number % (n * 3600)) \div (n * 60) = M
        /\ ((number % (n * 3600)) % (n * 60)) \div n = inMinute
        /\ ((number % (n * 3600)) % (n * 60)) % n = f0
    BY <1>7
  <2>2. ((H * 60 + M) * 60 + inMinute) * n + f0 = number
    BY <1>1, <1>8
  <2> QED BY <1>1, <1>8, <2>1, <2>2 DEF HasFields
<1> HIDE DEF h, m, s, f
<1>10. HasFields(n, number, h, m, s, f)
  BY <1>7, <1>9
<1> QED BY <1>10 DEF h, m, s, f

LEMMA NumberOfFields ==
    ASSUME NEW n \in Nat \ {0}, NEW h \in 0 .. 23, NEW m \in 0 .. 59, NEW s \in 0 .. 59,
           NEW f \in 0 .. n - 1
    PROVE  HasFields(n, ((h * 60 + m) * 60 + s) * n + f, h, m, s, f)
<1> DEFINE total == (h * 60 + m) * 60 + s
           number == total * n + f
           inHour == total % 3600
           inMinute == inHour % 60
<1>1. /\ total \in Nat /\ total < 86400 /\ total \div 3600 = h /\ inHour \div 60 = m
      /\ inMinute = s /\ total \div 60 = h * 60 + m /\ total % 60 = s
      /\ inHour \in Nat /\ inMinute \in Nat
  BY SMTT(30)
<1> HIDE DEF total
<1>0. total \in Nat /\ inHour \in Nat
  BY <1>1
<1>2. Splits(n, total, f) /\ Splits(n, inHour, f)
  <2> HIDE DEF inHour
  <2> QED BY <1>0, MinutesAndHours
<1>3. /\ number \div (n * 3600) = total \div 3600
      /\ number % (n * 3600) = inHour * n + f
      /\ number \div (n * 60) = total \div 60
      /\ number % (n * 60) = (total % 60) * n + f
      /\ (inHour * n + f) \div (n * 60) = inHour \div 60
      /\ (inHour * n + f) % (n * 60) = inMinute * n + f
  BY <1>2 DEF Splits
<1>4. (s * n + f) \div n = s /\ (s * n + f) % n = f
  <2> DEFINE least == s * n + f
  <2>1. least \in Int /\ least = n * s + f /\ s \in Int
    OBVIOUS
  <2> HIDE DEF least
  <2>2. least \div n = s /\ least % n = f
    BY <2>1, DivisionIsUnique
  <2> QED BY <2>2 DEF least
<1>5. number \in Int /\ 0 <= number /\ number < n * 86400
  <2>1. total * n \in Nat /\ (86399 - total) * n \in Nat
    BY <1>1
  <2>2. (86399 - total) * n = n * 86399 - total * n
    BY <1>1
  <2> QED BY <2>1, <2>2
<1>6. /\ number \div (n * 3600) = h
      /\ (number % (n * 3600)) \div (n * 60) = m
      /\ ((number % (n * 3600)) % (n * 60)) \div n = s
      /\ ((number % (n * 3600)) % (n * 60)) % n = f
      /\ number \div (n * 60) = h * 60 + m
      /\ number % (n * 60) = s * n + f
  <2> HIDE DEF number, inHour, inMinute
  <2> QED BY <1>1, <1>3, <1>4
<1>7. ((h * 60 + m) * 60 + s) * n + f = number
  BY DEF total
<1> HIDE DEF number
<1>8. HasFields(n, number, h, m, s, f)
  BY <1>5, <1>6, <1>7 DEF HasFields
<1> QED BY <1>7, <1>8

(* Counting in the labels that are not skipped: from a count to the number *)
(* of its label, and back.                                                 *)
Skipped(n, d, count) ==
    LET remaining == count % ((n * 600) - (d * 9))
    IN ((d * 9) * (count \div ((n * 600) - (d * 9))))
         + (IF remaining > d THEN d * ((remaining - d) \div ((n * 60) - d)) ELSE 0)

CountOf(n, d, number) ==
    LET minutes == number \div (n * 60)
    IN number - (d * (minutes - (minutes \div 10)))

IsUsed(n, d, number) ==
    ((number \div (n * 60)) % 10) # 0 => (number % (n * 60)) >= d

LEMMA MinuteOfHour ==
    ASSUME NEW h \in 0 .. 23, NEW m \in 0 .. 59
    PROVE  (h * 60 + m) % 10 = m % 10
<1> DEFINE tens == m \div 10
           r == m % 10
           number == h * 60 + m
           q == h * 6 + tens
<1>1. m = 10 * tens + r /\ tens \in Int /\ r \in 0 .. 10 - 1
  OBVIOUS
<1> HIDE DEF tens, r
<1>2. number = 10 * q + r /\ q \in Int /\ number \in Int
  BY <1>1
<1> HIDE DEF number, q
<1>3. number % 10 = r
  BY <1>1, <1>2, DivisionIsUnique
<1> QED BY <1>3 DEF number, r

LEMMA NumberOfCount ==
    ASSUME NEW n, NEW d, (n = 30 /\ d = 2) \/ (n = 60 /\ d = 4),
           NEW count \in Int, 0 <= count, count < n * 86400 - d * 1296
    PROVE  LET number == count + Skipped(n, d, count)
           IN /\ number \in Int /\ 0 <= number /\ number < n * 86400
              /\ CountOf(n, d, number) = count
              /\ IsUsed(n, d, number)
<1>1. CASE n = 30 /\ d = 2 BY <1>1, SMTT(60) DEF Skipped, CountOf, IsUsed
<1>2. CASE n = 60 /\ d = 4 BY <1>2, SMTT(60) DEF Skipped, CountOf, IsUsed
<1> QED BY <1>1, <1>2

LEMMA CountOfNumber ==
    ASSUME NEW n, NEW d, (n = 30 /\ d = 2) \/ (n = 60 /\ d = 4),
           NEW number \in Int, 0 <= number, number < n * 86400,
           IsUsed(n, d, number)
    PROVE  LET count == CountOf(n, d, number)
           IN /\ count \in Int /\ 0 <= count /\ count < n * 86400 - d * 1296
              /\ count + Skipped(n, d, count) = number
<1>1. CASE n = 30 /\ d = 2 BY <1>1, SMTT(60) DEF Skipped, CountOf, IsUsed
<1>2. CASE n = 60 /\ d = 4 BY <1>2, SMTT(60) DEF Skipped, CountOf, IsUsed
<1> QED BY <1>1, <1>2

----------------------------------------------------------------------------
(* The label of a number in which no label is skipped. *)
LEMMA LabelOfNumber ==
    ASSUME NEW rate, NominalFramesPerSecond(rate) \in Nat \ {0},
           NEW number \in Int, 0 <= number,
           number < NominalFramesPerSecond(rate) * 86400
    PROVE  LET n == NominalFramesPerSecond(rate)
               label == LabelOf(number, rate)
           IN /\ label \in Labels
              /\ label.hours \in 0 .. 23 /\ label.minutes \in 0 .. 59
              /\ label.seconds \in 0 .. 59 /\ label.frames \in 0 .. (n - 1)
              /\ LabeledFrame(label, rate) = number
              /\ number \div (n * 60) = label.hours * 60 + label.minutes
              /\ number % (n * 60) = label.seconds * n + label.frames
<1> DEFINE n == NominalFramesPerSecond(rate)
           inHour == number % (n * 3600)
           inMinute == inHour % (n * 60)
           h == number \div (n * 3600)
           m == inHour \div (n * 60)
           s == inMinute \div n
           f == inMinute % n
<1>1. LabelOf(number, rate) = Label(h, m, s, f)
  BY DEF LabelOf
<1>2. n \in Nat \ {0} /\ number < n * 86400
  OBVIOUS
<1> HIDE DEF n
<1>0. HasFields(n, number, h, m, s, f)
  BY <1>2, FieldsOfNumber
<1>3. /\ h \in 0 .. 23 /\ m \in 0 .. 59 /\ s \in 0 .. 59
      /\ f \in 0 .. (n - 1)
      /\ ((h * 60 + m) * 60 + s) * n + f = number
      /\ number \div (n * 60) = h * 60 + m
      /\ number % (n * 60) = s * n + f
  BY <1>0 DEF HasFields
<1> HIDE DEF h, m, s, f
<1>4. LabeledFrame(LabelOf(number, rate), rate) = number
  BY <1>1, <1>3 DEF LabeledFrame, Label, n
<1> QED BY <1>1, <1>2, <1>3, <1>4 DEF Label, Labels, n

(* What a valid label says of its fields. *)
LEMMA NumberOfLabel ==
    ASSUME NEW rate, NominalFramesPerSecond(rate) \in Nat \ {0},
           NEW mode, NEW label, IsTimecode(label, rate, mode)
    PROVE  LET n == NominalFramesPerSecond(rate)
               number == LabeledFrame(label, rate)
           IN /\ number \in Int /\ 0 <= number /\ number < n * 86400
              /\ LabelOf(number, rate)
                   = Label(label.hours, label.minutes, label.seconds, label.frames)
              /\ number \div (n * 60) = label.hours * 60 + label.minutes
              /\ number % (n * 60) = label.seconds * n + label.frames
<1> DEFINE n == NominalFramesPerSecond(rate)
           number == LabeledFrame(label, rate)
<1>1. /\ label.hours \in 0 .. 23 /\ label.minutes \in 0 .. 59
      /\ label.seconds \in 0 .. 59 /\ label.frames \in 0 .. (n - 1)
  BY DEF IsTimecode
<1>2. n \in Nat \ {0}
  OBVIOUS
<1>3. number = ((label.hours * 60 + label.minutes) * 60 + label.seconds) * n
                 + label.frames
  BY DEF LabeledFrame
<1> HIDE DEF n, number
<1>5. /\ number \in Int /\ 0 <= number /\ number < n * 86400
      /\ number \div (n * 3600) = label.hours
      /\ (number % (n * 3600)) \div (n * 60) = label.minutes
      /\ ((number % (n * 3600)) % (n * 60)) \div n = label.seconds
      /\ ((number % (n * 3600)) % (n * 60)) % n = label.frames
      /\ number \div (n * 60) = label.hours * 60 + label.minutes
      /\ number % (n * 60) = label.seconds * n + label.frames
  <2> DEFINE h == label.hours
             m == label.minutes
             s == label.seconds
             f == label.frames
  <2>1. number = ((h * 60 + m) * 60 + s) * n + f
    BY <1>3
  <2>2. h \in 0 .. 23 /\ m \in 0 .. 59 /\ s \in 0 .. 59 /\ f \in 0 .. (n - 1)
    BY <1>1
  <2> HIDE DEF h, m, s, f
  <2>3. /\ number \in Int /\ 0 <= number /\ number < n * 86400
        /\ number \div (n * 3600) = h
        /\ (number % (n * 3600)) \div (n * 60) = m
        /\ ((number % (n * 3600)) % (n * 60)) \div n = s
        /\ ((number % (n * 3600)) % (n * 60)) % n = f
        /\ number \div (n * 60) = h * 60 + m
        /\ number % (n * 60) = s * n + f
    <3>1. HasFields(n, ((h * 60 + m) * 60 + s) * n + f, h, m, s, f)
      BY <1>2, <2>2, NumberOfFields
    <3>2. HasFields(n, number, h, m, s, f)
      BY <2>1, <3>1
    <3> QED BY <3>2 DEF HasFields
  <2> QED BY <2>3 DEF h, m, s, f
<1>6. LabelOf(number, rate)
        = Label(label.hours, label.minutes, label.seconds, label.frames)
  BY <1>5 DEF LabelOf, n
<1> QED BY <1>5, <1>6 DEF n, number

----------------------------------------------------------------------------
(* Every frame of a day has a label: FromFrameCount gives one that         *)
(* Timecode::Create accepts, and ToFrameCount gives the frame back.        *)
THEOREM CountsAreLabels ==
    ASSUME NEW rate, NEW mode \in Modes, IsSupported(rate, mode),
           NEW count \in Int, 0 <= count, count < FramesPerDay(rate, mode)
    PROVE  /\ FromFrameCount(count, rate, mode) \in Labels
           /\ IsTimecode(FromFrameCount(count, rate, mode), rate, mode)
           /\ ToFrameCount(FromFrameCount(count, rate, mode), rate, mode) = count
<1> DEFINE n == NominalFramesPerSecond(rate)
           d == DroppedFramesPerMinute(rate)
<1>1. n \in Nat \ {0}
  BY DEF IsSupported, IsTimecode
<1>2. CASE mode = "nonDrop"
  <2>1. count < n * 86400 /\ FromFrameCount(count, rate, mode) = LabelOf(count, rate)
    BY <1>1, <1>2 DEF FramesPerDay, FromFrameCount
  <2> QED BY <1>1, <1>2, <2>1, LabelOfNumber DEF IsTimecode, ToFrameCount
<1>3. CASE mode = "drop"
  <2> DEFINE number == count + Skipped(n, d, count)
             label == LabelOf(number, rate)
             minutes == number \div (n * 60)
  <2>1. (n = 30 /\ d = 2) \/ (n = 60 /\ d = 4)
    BY <1>3, DropRates DEF IsSupported
  <2>2. count < n * 86400 - d * 1296
    BY <1>3, <2>1 DEF FramesPerDay
  <2>3. SkippedLabels(count, rate) = Skipped(n, d, count)
    BY DEF SkippedLabels, Skipped
  <2>5. /\ number \in Int /\ 0 <= number /\ number < n * 86400
        /\ CountOf(n, d, number) = count
        /\ IsUsed(n, d, number)
    <3> HIDE DEF n, d
    <3> QED BY <2>1, <2>2, NumberOfCount
  <2>6. FromFrameCount(count, rate, mode) = label
    BY <1>3, <2>3 DEF FromFrameCount
  <2>7. /\ label \in Labels
        /\ label.hours \in 0 .. 23 /\ label.minutes \in 0 .. 59
        /\ label.seconds \in 0 .. 59 /\ label.frames \in 0 .. (n - 1)
        /\ LabeledFrame(label, rate) = number
        /\ minutes = label.hours * 60 + label.minutes
        /\ number % (n * 60) = label.seconds * n + label.frames
    <3> HIDE DEF number
    <3> QED BY <1>1, <2>5, LabelOfNumber
  <2> HIDE DEF n, d, number, label, minutes
  <2>8. ~ IsDroppedLabel(label, rate)
    <3>0. label.hours \in 0 .. 23 /\ label.minutes \in 0 .. 59
          /\ minutes = label.hours * 60 + label.minutes
      BY <2>7
    <3>1. minutes % 10 = label.minutes % 10
      BY <3>0, MinuteOfHour
    <3> QED BY <2>1, <2>5, <2>7, <3>1 DEF IsDroppedLabel, IsUsed, minutes, d
  <2>9. ToFrameCount(label, rate, mode) = count
    BY <1>3, <2>5, <2>7 DEF ToFrameCount, CountOf, minutes, d
  <2> QED BY <2>6, <2>7, <2>8, <2>9 DEF IsTimecode, n
<1> QED BY <1>2, <1>3 DEF Modes

(* A label that is not skipped names a frame of the day. *)
LEMMA CountOfLabel ==
    ASSUME NEW rate, NEW mode \in Modes,
           NEW label, IsTimecode(label, rate, mode)
    PROVE  /\ ToFrameCount(label, rate, mode) \in Int
           /\ 0 <= ToFrameCount(label, rate, mode)
           /\ ToFrameCount(label, rate, mode) < FramesPerDay(rate, mode)
           /\ FromFrameCount(ToFrameCount(label, rate, mode), rate, mode)
                = Label(label.hours, label.minutes, label.seconds, label.frames)
<1> DEFINE fields == Label(label.hours, label.minutes, label.seconds, label.frames)
           n == NominalFramesPerSecond(rate)
           d == DroppedFramesPerMinute(rate)
           number == LabeledFrame(label, rate)
           minutes == label.hours * 60 + label.minutes
           count == ToFrameCount(label, rate, mode)
<1>1. n \in Nat \ {0}
  BY DEF IsSupported, IsTimecode
<1>2. /\ number \in Int /\ 0 <= number /\ number < n * 86400
      /\ LabelOf(number, rate) = fields
      /\ number \div (n * 60) = minutes
      /\ number % (n * 60) = label.seconds * n + label.frames
  BY <1>1, NumberOfLabel
<1>3. /\ label.hours \in 0 .. 23 /\ label.minutes \in 0 .. 59
      /\ label.seconds \in 0 .. 59 /\ label.frames \in 0 .. (n - 1)
  BY DEF IsTimecode
<1>4. CASE mode = "nonDrop"
  <2>1. count = number /\ FromFrameCount(count, rate, mode) = LabelOf(number, rate)
    BY <1>2, <1>4 DEF ToFrameCount, FromFrameCount
  <2>2. FramesPerDay(rate, mode) = n * 86400
    BY <1>1, <1>4 DEF FramesPerDay
  <2> QED BY <1>2, <2>1, <2>2
<1>5. CASE mode = "drop"
  <2>1. (n = 30 /\ d = 2) \/ (n = 60 /\ d = 4)
    BY <1>5, DropRates DEF IsTimecode, IsSupported
  <2>2. count = CountOf(n, d, number)
    BY <1>2, <1>5 DEF ToFrameCount, CountOf
  <2>3. ~ IsDroppedLabel(label, rate)
    BY <1>5 DEF IsTimecode
  <2> HIDE DEF n, number, count, fields
  <2>4. IsUsed(n, d, number)
    <3>1. minutes % 10 = label.minutes % 10
      BY <1>3, MinuteOfHour
    <3>2. CASE label.seconds = 0
      BY <1>2, <1>3, <2>1, <2>3, <3>1, <3>2 DEF IsDroppedLabel, IsUsed
    <3>3. CASE label.seconds # 0
      BY <1>2, <1>3, <2>1, <3>3 DEF IsUsed
    <3> QED BY <1>3, <3>2, <3>3
  <2>6. /\ count \in Int /\ 0 <= count /\ count < n * 86400 - d * 1296
        /\ count + Skipped(n, d, count) = number
    <3> HIDE DEF d
    <3> QED BY <1>2, <2>1, <2>2, <2>4, CountOfNumber
  <2>7. SkippedLabels(count, rate) = Skipped(n, d, count)
    BY DEF SkippedLabels, Skipped, n
  <2>8. FromFrameCount(count, rate, mode) = fields
    BY <1>2, <1>5, <2>6, <2>7 DEF FromFrameCount
  <2>9. FramesPerDay(rate, mode) = n * 86400 - d * 1296
    BY <1>5, <2>1 DEF FramesPerDay, n
  <2> QED BY <2>6, <2>8, <2>9 DEF count, fields
<1> QED BY <1>4, <1>5 DEF Modes

(* Every label that is not skipped names a frame of the day, and           *)
(* FromFrameCount gives the label back: no two labels name one frame.      *)
THEOREM LabelsAreCounts ==
    ASSUME NEW rate, NEW mode \in Modes,
           NEW label \in Labels, IsTimecode(label, rate, mode)
    PROVE  /\ ToFrameCount(label, rate, mode) \in Int
           /\ 0 <= ToFrameCount(label, rate, mode)
           /\ ToFrameCount(label, rate, mode) < FramesPerDay(rate, mode)
           /\ FromFrameCount(ToFrameCount(label, rate, mode), rate, mode) = label
<1>1. Label(label.hours, label.minutes, label.seconds, label.frames) = label
  BY DEF Label, Labels
<1> QED BY <1>1, CountOfLabel

(* The duration a workbook shows as a label denotes exactly the number of  *)
(* frames it shows beside it.                                              *)
THEOREM DurationsAreExact ==
    ASSUME NEW rate, NEW mode \in Modes,
           NEW range, IsRange(range, rate, mode)
    PROVE  /\ Duration(range, rate, mode) \in Labels
           /\ DurationInFrames(range, rate, mode) \in Int
           /\ IsTimecode(Duration(range, rate, mode), rate, mode)
           /\ ToFrameCount(Duration(range, rate, mode), rate, mode)
                = DurationInFrames(range, rate, mode)
<1> DEFINE frames == DurationInFrames(range, rate, mode)
           start == ToFrameCount(range.start, rate, mode)
           end == ToFrameCount(range.end, rate, mode)
<1>1. /\ start \in Int /\ 0 <= start /\ end \in Int
      /\ end < FramesPerDay(rate, mode)
  BY CountOfLabel DEF IsRange
<1>2. start <= end /\ frames = end - start
  BY DEF IsRange, DurationInFrames
<1>3. FramesPerDay(rate, mode) \in Int
  <2>1. NominalFramesPerSecond(rate) \in Int
    BY DEF IsRange, IsTimecode, IsSupported
  <2> QED BY <2>1 DEF FramesPerDay, DroppedFramesPerMinute
<1>4. frames \in Int /\ 0 <= frames /\ frames < FramesPerDay(rate, mode)
  <2> HIDE DEF frames, start, end
  <2> QED BY <1>1, <1>2, <1>3
<1>5. IsSupported(rate, mode)
  BY DEF IsRange, IsTimecode
<1>6. Duration(range, rate, mode) = FromFrameCount(frames, rate, mode)
  BY DEF Duration, FromFrameCount
<1> QED
  <2> HIDE DEF frames
  <2> QED BY <1>4, <1>5, <1>6, CountsAreLabels DEF frames
-----------------------------------------------------------------------------
(* The pass over the lines.  FoldLeft recurs over the sets of indices; on  *)
(* the first indices it reads the first lines.                             *)
Reads(iter, n, lines, empty) ==
  iter = [s \in SUBSET (1 .. n) |->
            IF s = {} THEN empty
            ELSE LET x == Max(s)
                     numbers == [number \in 1 .. n |-> number]
                 IN ReadLine(iter[s \ {x}], lines[numbers[x]], numbers[x])]

LEMMA ReadLinesIsFold ==
  ASSUME NEW n \in Nat, NEW lines, DOMAIN lines = 1 .. n, NEW empty
  PROVE  ReadLines(lines, empty) = (CHOOSE iter : Reads(iter, n, lines, empty))[1 .. n]
  BY DEF ReadLines, FoldLeft, MapThenFoldSet, Reads

Readable(n, lines, empty) ==
  \E iter : /\ DOMAIN iter = SUBSET (1 .. n)
            /\ \A s \in SUBSET (1 .. n) :
                 iter[s] = IF s = {} THEN empty
                           ELSE ReadLine(iter[s \ {Max(s)}], lines[Max(s)], Max(s))

LEMMA ReadableAll ==
  ASSUME NEW n \in Nat, NEW lines, NEW empty
  PROVE  Readable(n, lines, empty)
<1> DEFINE T == {k \in Nat : Readable(k, lines, empty)}
<1>1. 0 \in T
  <2> DEFINE iter == [s \in SUBSET (1 .. 0) |-> empty]
  <2>1. \A s \in SUBSET (1 .. 0) : s = {}
    OBVIOUS
  <2>2. DOMAIN iter = SUBSET (1 .. 0) /\ \A s \in SUBSET (1 .. 0) : iter[s] = empty
    OBVIOUS
  <2> HIDE DEF iter
  <2> QED BY <2>1, <2>2 DEF Readable
<1>2. ASSUME NEW k \in Nat, k \in T PROVE k + 1 \in T
  <2>1. PICK less : /\ DOMAIN less = SUBSET (1 .. k)
                    /\ \A s \in SUBSET (1 .. k) :
                         less[s] = IF s = {} THEN empty
                                   ELSE ReadLine(less[s \ {Max(s)}], lines[Max(s)], Max(s))
    BY <1>2 DEF Readable
  <2> HIDE DEF T
  <2> DEFINE iter == [s \in SUBSET (1 .. k + 1) |->
                        IF k + 1 \in s
                        THEN ReadLine(less[s \ {k + 1}], lines[k + 1], k + 1)
                        ELSE less[s]]
  <2>2. ASSUME NEW s \in SUBSET (1 .. k + 1)
        PROVE  iter[s] = IF s = {} THEN empty
                         ELSE ReadLine(iter[s \ {Max(s)}], lines[Max(s)], Max(s))
    <3>1. CASE k + 1 \in s
      <4>1. s \ {k + 1} \in SUBSET (1 .. k + 1) /\ k + 1 \notin s \ {k + 1}
        OBVIOUS
      <4>2. Max(s) = k + 1
        <5> DEFINE top == k + 1
        <5>1. top \in Nat /\ s \in SUBSET (1 .. top) /\ s # {} /\ top \in s
              /\ \A x \in s : x >= top => x = top
          BY <3>1
        <5>2. Max(s) \in s /\ Max(s) >= top
          <6> HIDE DEF top
          <6> QED BY <5>1, MaxOfSubset
        <5> QED BY <5>1, <5>2
      <4>3. iter[s] = ReadLine(less[s \ {k + 1}], lines[k + 1], k + 1)
            /\ iter[s \ {k + 1}] = less[s \ {k + 1}]
        BY <3>1, <4>1
      <4> HIDE DEF iter
      <4> QED BY <3>1, <4>2, <4>3
    <3>2. CASE k + 1 \notin s
      <4>1. s \in SUBSET (1 .. k)
        BY <3>2
      <4>2. iter[s] = less[s]
        BY <3>2
      <4>3. less[s] = IF s = {} THEN empty
                      ELSE ReadLine(less[s \ {Max(s)}], lines[Max(s)], Max(s))
        BY <2>1, <4>1
      <4>4. \A x : s \ {x} \in SUBSET (1 .. k + 1) /\ k + 1 \notin s \ {x}
        BY <3>2
      <4>5. \A x : iter[s \ {x}] = less[s \ {x}]
        BY <4>4
      <4> HIDE DEF iter
      <4> QED BY <4>2, <4>3, <4>5
    <3> QED BY <3>1, <3>2
  <2>3. DOMAIN iter = SUBSET (1 .. k + 1)
    OBVIOUS
  <2> HIDE DEF iter
  <2>4. Readable(k + 1, lines, empty)
    BY <2>2, <2>3 DEF Readable
  <2> QED BY <2>4 DEF T
<1>3. n \in T
  <2> HIDE DEF T
  <2> QED BY <1>1, <1>2, Induction
<1> QED BY <1>3

(* What the importer holds after each line.                                *)
Passes(documents, n, lines, empty) ==
  /\ documents[0] = empty
  /\ \A k \in 1 .. n : documents[k] = ReadLine(documents[k - 1], lines[k], k)

LEMMA LinesArePassed ==
  ASSUME NEW n \in Nat, NEW lines, DOMAIN lines = 1 .. n, NEW empty
  PROVE  \E documents : /\ Passes(documents, n, lines, empty)
                        /\ ReadLines(lines, empty) = documents[n]
<1>0. Readable(n, lines, empty)
  BY ReadableAll
<1>1. PICK iter : /\ DOMAIN iter = SUBSET (1 .. n)
                  /\ \A s \in SUBSET (1 .. n) :
                       iter[s] = IF s = {} THEN empty
                                 ELSE ReadLine(iter[s \ {Max(s)}], lines[Max(s)], Max(s))
  BY <1>0 DEF Readable
<1>2. \E c : Reads(c, n, lines, empty)
  <2> DEFINE c == [s \in SUBSET (1 .. n) |-> iter[s]]
             numbers == [number \in 1 .. n |-> number]
  <2>1. ASSUME NEW s \in SUBSET (1 .. n)
        PROVE  c[s] = IF s = {} THEN empty
                      ELSE LET x == Max(s)
                           IN ReadLine(c[s \ {x}], lines[numbers[x]], numbers[x])
    <3>1. CASE s # {}
      <4>1. Max(s) \in 1 .. n
        BY <3>1, MaxOfSubset
      <4>2. numbers[Max(s)] = Max(s) /\ c[s] = iter[s]
            /\ c[s \ {Max(s)}] = iter[s \ {Max(s)}]
        BY <4>1
      <4> HIDE DEF c, numbers
      <4> QED BY <1>1, <3>1, <4>2
    <3> QED BY <1>1, <3>1
  <2>2. c = [s \in SUBSET (1 .. n) |-> c[s]]
    OBVIOUS
  <2> HIDE DEF c
  <2>3. Reads(c, n, lines, empty)
    BY <2>1, <2>2 DEF Reads
  <2> QED BY <2>3
<1> DEFINE chosen == CHOOSE c : Reads(c, n, lines, empty)
<1>3. Reads(chosen, n, lines, empty)
  BY <1>2
<1>4. ReadLines(lines, empty) = chosen[1 .. n]
  BY ReadLinesIsFold
<1> HIDE DEF chosen
<1> DEFINE documents == [k \in 0 .. n |-> chosen[1 .. k]]
<1>5. documents[0] = empty /\ documents[n] = chosen[1 .. n]
  <2>1. chosen[1 .. 0] = empty
    BY <1>3 DEF Reads
  <2> QED BY <2>1
<1>6. ASSUME NEW i \in Nat, i + 1 <= n
      PROVE  chosen[1 .. i + 1] = ReadLine(chosen[1 .. i], lines[i + 1], i + 1)
  <2> DEFINE s == 1 .. i + 1
             numbers == [number \in 1 .. n |-> number]
  <2>1. s \in SUBSET (1 .. n) /\ s # {}
    <3>1. \A x \in s : x \in 1 .. n
      BY <1>6
    <3>2. 1 \in s
      OBVIOUS
    <3> QED BY <3>1, <3>2
  <2>2. Max(s) = i + 1 /\ s \ {i + 1} = 1 .. i
    BY MaxOfFirst
  <2>3. numbers[i + 1] = i + 1
    BY <1>6
  <2> HIDE DEF s
  <2>4. chosen[s] = ReadLine(chosen[s \ {Max(s)}], lines[numbers[Max(s)]], numbers[Max(s)])
    BY <1>3, <2>1 DEF Reads
  <2> HIDE DEF numbers
  <2> QED BY <2>2, <2>3, <2>4 DEF s
<1>7. ASSUME NEW k \in 1 .. n PROVE documents[k] = ReadLine(documents[k - 1], lines[k], k)
  <2> DEFINE j == k - 1
  <2>1. j \in Nat /\ j + 1 <= n /\ j + 1 = k
        /\ documents[k] = chosen[1 .. k] /\ documents[j] = chosen[1 .. j]
    OBVIOUS
  <2>2. chosen[1 .. j + 1] = ReadLine(chosen[1 .. j], lines[j + 1], j + 1)
    <3> HIDE DEF j
    <3> QED BY <1>6, <2>1
  <2> HIDE DEF documents
  <2> QED BY <2>1, <2>2
<1> HIDE DEF documents
<1>8. Passes(documents, n, lines, empty) /\ ReadLines(lines, empty) = documents[n]
  BY <1>4, <1>5, <1>7 DEF Passes
<1> QED BY <1>8

-----------------------------------------------------------------------------
(* The document after some of the lines: everything refused or not         *)
(* understood has been told, and the accepted records are its events, each *)
(* with the comments up to the next.                                       *)
Notes == [severity : {"warning", "error"}, line : Nat]

EventsOf(lines) ==
  [line : Nat, edit : KnownEdits \union {"other"},
   duration : {lines[i].duration : i \in DOMAIN lines} \union {0},
   source : {lines[i].source : i \in DOMAIN lines},
   record : {lines[i].record : i \in DOMAIN lines},
   comments : Seq(Nat), clipNames : Seq(Nat), effects : Seq(Nat)]

Tells(notes, severities) == \E i \in DOMAIN notes : notes[i].severity \in severities

Problems == {"warning", "error"}

Accepted(d, lines, i) == lines[i].kind = "event" /\ ~ Rejected(lines[i], d.rate, d.mode)

Understood(lines, i) ==
  /\ lines[i].kind # "unknown"
  /\ lines[i].kind = "motionEffect" => \E j \in 1 .. i - 1 : lines[j].kind = "event"
  /\ lines[i].kind = "event" =>
       /\ lines[i].edit \in KnownEdits
       /\ (lines[i].edit = "cut" \/ lines[i].duration # None)

IsDocument(d, lines, rate, mode) ==
  /\ DOMAIN d = {"rate", "mode", "events", "metadata", "diagnostics"}
  /\ d.rate = rate /\ d.mode = mode
  /\ d.events \in Seq(EventsOf(lines))
  /\ d.diagnostics \in Seq(Notes)

IsTold(d, k, lines, fallback) ==
  /\ fallback => Tells(d.diagnostics, Problems)
  /\ \A j \in 1 .. k :
       /\ lines[j].kind = "event" /\ Rejected(lines[j], d.rate, d.mode) =>
            Tells(d.diagnostics, {"error"})
       /\ ~ Understood(lines, j) => Tells(d.diagnostics, Problems)
  /\ d.events # <<>> => \E j \in 1 .. k : lines[j].kind = "event"

(* The comments, and the clip names among them, of the event of a line.    *)
CommentsSoFar(d, k, lines, number) ==
  {i \in 1 .. k : /\ lines[i].kind \in {"comment", "clipName"}
                  /\ i > number
                  /\ \A j \in 1 .. k : Accepted(d, lines, j) /\ j > number => j > i}

ClipNamesSoFar(d, k, lines, number) ==
  {i \in CommentsSoFar(d, k, lines, number) :
     lines[i].kind = "clipName" /\ ~ lines[i].indented}

HasEvents(d, k, lines) ==
  /\ \A i \in DOMAIN d.events :
       /\ d.events[i].line \in 1 .. k
       /\ Accepted(d, lines, d.events[i].line)
       /\ d.events[i].record = lines[d.events[i].line].record
       /\ Lists(d.events[i].comments, CommentsSoFar(d, k, lines, d.events[i].line))
       /\ Lists(d.events[i].clipNames, ClipNamesSoFar(d, k, lines, d.events[i].line))
  /\ \A i, j \in DOMAIN d.events : i < j => d.events[i].line < d.events[j].line
  /\ \A j \in 1 .. k : Accepted(d, lines, j) => \E i \in DOMAIN d.events : d.events[i].line = j

ReadSoFar(d, k, lines, rate, mode, fallback) ==
  /\ IsDocument(d, lines, rate, mode)
  /\ IsTold(d, k, lines, fallback)
  /\ HasEvents(d, k, lines)

LEMMA ToldNote ==
  ASSUME NEW notes \in Seq(Notes), NEW severity \in Problems, NEW number \in Nat
  PROVE  LET more == Append(notes, [severity |-> severity, line |-> number])
         IN /\ more \in Seq(Notes)
            /\ \A some \in SUBSET Problems : Tells(notes, some) => Tells(more, some)
            /\ Tells(more, {severity})
            /\ Tells(more, Problems)
<1> DEFINE note == [severity |-> severity, line |-> number]
           more == Append(notes, note)
           n == Len(notes)
<1>1. note \in Notes /\ note.severity = severity
  BY DEF Notes, Problems
<1> HIDE DEF note
<1>2. /\ more \in Seq(Notes) /\ n \in Nat /\ DOMAIN more = 1 .. n + 1
      /\ DOMAIN notes = 1 .. n /\ more[n + 1] = note
      /\ \A i \in 1 .. n : more[i] = notes[i]
      /\ n + 1 \in 1 .. n + 1 /\ 1 .. n \subseteq 1 .. n + 1
  BY <1>1
<1> HIDE DEF more, n
<1>3. \A some \in SUBSET Problems : Tells(notes, some) => Tells(more, some)
  BY <1>2 DEF Tells
<1>4. Tells(more, {severity}) /\ Tells(more, Problems)
  BY <1>1, <1>2 DEF Tells
<1> QED BY <1>2, <1>3, <1>4 DEF more, note

(* What reading one line does to the events and to the diagnostics.        *)
Kept(d, e) == e.events = d.events

Changed(d, e, comment, clipName, number) ==
  LET m == Len(d.events)
      last == d.events[m]
  IN /\ d.events # <<>>
     /\ DOMAIN e.events = DOMAIN d.events
     /\ \A i \in DOMAIN d.events : i # m => e.events[i] = d.events[i]
     /\ e.events[m].line = last.line /\ e.events[m].record = last.record
     /\ e.events[m].comments = IF comment THEN Append(last.comments, number)
                               ELSE last.comments
     /\ e.events[m].clipNames = IF clipName THEN Append(last.clipNames, number)
                                ELSE last.clipNames

Added(d, e, line, number) == e.events = Append(d.events, Event(line, number))

TellsMore(d, e) ==
  \A some \in SUBSET Problems : Tells(d.diagnostics, some) => Tells(e.diagnostics, some)

LEMMA NotedDocument ==
  ASSUME NEW d, NEW lines, NEW rate, NEW mode, IsDocument(d, lines, rate, mode), NEW number
  PROVE  /\ IsDocument(Noted(d, number), lines, rate, mode)
         /\ Kept(d, Noted(d, number))
         /\ Noted(d, number).diagnostics = d.diagnostics
  BY DEF IsDocument, Noted, Kept

LEMMA DiagnosedDocument ==
  ASSUME NEW d, NEW lines, NEW rate, NEW mode, IsDocument(d, lines, rate, mode),
         NEW number \in Nat, NEW severity \in Problems
  PROVE  LET e == Diagnosed(d, severity, number)
         IN /\ IsDocument(e, lines, rate, mode)
            /\ Kept(d, e)
            /\ TellsMore(d, e)
            /\ Tells(e.diagnostics, {severity}) /\ Tells(e.diagnostics, Problems)
<1> DEFINE e == Diagnosed(d, severity, number)
           more == Append(d.diagnostics, [severity |-> severity, line |-> number])
<1>1. /\ more \in Seq(Notes)
      /\ \A some \in SUBSET Problems : Tells(d.diagnostics, some) => Tells(more, some)
      /\ Tells(more, {severity})
      /\ Tells(more, Problems)
  BY ToldNote DEF IsDocument
<1> HIDE DEF more
<1>2. e = [d EXCEPT !.diagnostics = more]
  BY DEF Diagnosed, more
<1> HIDE DEF e
<1>3. /\ e.diagnostics = more /\ e.events = d.events /\ e.rate = d.rate /\ e.mode = d.mode
      /\ DOMAIN e = DOMAIN d
  BY <1>2 DEF IsDocument
<1> QED BY <1>1, <1>3 DEF IsDocument, Kept, TellsMore, e

LEMMA EventIsOne ==
  ASSUME NEW lines, NEW number \in DOMAIN lines, number \in Nat
  PROVE  /\ Event(lines[number], number) \in EventsOf(lines)
         /\ Event(lines[number], number).line = number
         /\ Event(lines[number], number).record = lines[number].record
         /\ Event(lines[number], number).comments = <<>>
         /\ Event(lines[number], number).clipNames = <<>>
<1> DEFINE line == lines[number]
           edit == IF line.edit \in KnownEdits THEN line.edit ELSE "other"
           duration == IF line.edit # "cut" /\ line.duration # None THEN line.duration ELSE 0
           numbers == Seq(Nat)
<1>1. /\ edit \in KnownEdits \union {"other"}
      /\ duration \in {lines[i].duration : i \in DOMAIN lines} \union {0}
      /\ line.source \in {lines[i].source : i \in DOMAIN lines}
      /\ line.record \in {lines[i].record : i \in DOMAIN lines}
      /\ <<>> \in numbers
  OBVIOUS
<1>2. Event(line, number) =
        [line |-> number, edit |-> edit, duration |-> duration,
         source |-> line.source, record |-> line.record,
         comments |-> <<>>, clipNames |-> <<>>, effects |-> <<>>]
  BY DEF Event
<1>3. EventsOf(lines) =
        [line : Nat, edit : KnownEdits \union {"other"},
         duration : {lines[i].duration : i \in DOMAIN lines} \union {0},
         source : {lines[i].source : i \in DOMAIN lines},
         record : {lines[i].record : i \in DOMAIN lines},
         comments : numbers, clipNames : numbers, effects : numbers]
  BY DEF EventsOf
<1> HIDE DEF line, edit, duration, numbers
<1>4. Event(line, number) \in EventsOf(lines)
  BY <1>1, <1>2, <1>3
<1>5. /\ Event(line, number).line = number /\ Event(line, number).record = line.record
      /\ Event(line, number).comments = <<>> /\ Event(line, number).clipNames = <<>>
  BY <1>2
<1> QED BY <1>4, <1>5 DEF line

LEMMA LastChanged ==
  ASSUME NEW d, NEW lines, NEW rate, NEW mode, IsDocument(d, lines, rate, mode),
         d.events # <<>>, NEW event \in EventsOf(lines)
  PROVE  LET e == OnLastEvent(d, event)
         IN /\ IsDocument(e, lines, rate, mode)
            /\ e.diagnostics = d.diagnostics
            /\ e.events = [d.events EXCEPT ![Len(d.events)] = event]
            /\ Len(d.events) \in DOMAIN d.events
            /\ DOMAIN d.events = 1 .. Len(d.events)
            /\ d.events[Len(d.events)] \in EventsOf(lines)
            /\ d.events[Len(d.events)] = Last(d.events)
<1> DEFINE S == EventsOf(lines)
           m == Len(d.events)
           e == OnLastEvent(d, event)
           changed == [d.events EXCEPT ![m] = event]
<1>1. d.events \in Seq(S) /\ event \in S
  BY DEF IsDocument
<1> HIDE DEF S
<1>2. /\ m \in DOMAIN d.events /\ changed \in Seq(S) /\ d.events[m] \in S
      /\ DOMAIN d.events = 1 .. m
  BY <1>1
<1>3. /\ e.events = changed /\ e.diagnostics = d.diagnostics /\ e.rate = d.rate
      /\ e.mode = d.mode /\ DOMAIN e = DOMAIN d
  BY DEF IsDocument, OnLastEvent
<1> HIDE DEF e, changed
<1>4. IsDocument(e, lines, rate, mode)
  BY <1>2, <1>3 DEF IsDocument, S
<1>5. d.events[m] = Last(d.events)
  BY DEF Last
<1> QED BY <1>2, <1>3, <1>4, <1>5 DEF e, changed, S

LEMMA CommentRead ==
  ASSUME NEW d, NEW lines, NEW rate, NEW mode, IsDocument(d, lines, rate, mode),
         NEW number \in Nat, NEW line
  PROVE  LET e == ReadComment(d, line, number)
         IN /\ IsDocument(e, lines, rate, mode)
            /\ e.diagnostics = d.diagnostics
            /\ d.events = <<>> => Kept(d, e)
            /\ d.events # <<>> =>
                 Changed(d, e, TRUE, line.kind = "clipName" /\ ~ line.indented, number)
<1> DEFINE e == ReadComment(d, line, number)
<1>1. CASE d.events = <<>>
  BY <1>1, NotedDocument DEF ReadComment
<1>2. CASE d.events # <<>>
  <2> DEFINE last == Last(d.events)
             event == AddComment(last, line, number)
             S == Seq(Nat)
  <2>1. last \in EventsOf(lines)
    <3>1. Last(d.events) = d.events[Len(d.events)]
      BY DEF Last
    <3>2. Len(d.events) \in DOMAIN d.events
      BY <1>2 DEF IsDocument
    <3> QED BY <3>1, <3>2 DEF IsDocument
  <2>2. /\ last.comments \in S /\ last.clipNames \in S
        /\ DOMAIN last = {"line", "edit", "duration", "source", "record", "comments",
                          "clipNames", "effects"}
    BY <2>1 DEF EventsOf
  <2>3. Append(last.comments, number) \in S /\ Append(last.clipNames, number) \in S
    BY <2>2
  <2> HIDE DEF last, S
  <2>4. /\ event.line = last.line /\ event.record = last.record
        /\ event.comments = Append(last.comments, number)
        /\ event.clipNames = IF line.kind = "clipName" /\ ~ line.indented
                             THEN Append(last.clipNames, number) ELSE last.clipNames
    BY <2>2 DEF AddComment
  <2>5. event \in EventsOf(lines)
    <3>1. \A comments \in S, clipNames \in S :
            [last EXCEPT !.comments = comments, !.clipNames = clipNames] \in EventsOf(lines)
      BY <2>1 DEF EventsOf, S
    <3> QED BY <2>2, <2>3, <3>1 DEF AddComment
  <2> HIDE DEF event
  <2>6. e = OnLastEvent(d, event)
    BY <1>2 DEF ReadComment, event, last
  <2> HIDE DEF e
  <2>7. /\ IsDocument(e, lines, rate, mode)
        /\ e.diagnostics = d.diagnostics
        /\ e.events = [d.events EXCEPT ![Len(d.events)] = event]
        /\ Len(d.events) \in DOMAIN d.events
        /\ d.events[Len(d.events)] = last
    BY <1>2, <2>5, <2>6, LastChanged DEF last
  <2>8. Changed(d, e, TRUE, line.kind = "clipName" /\ ~ line.indented, number)
    <3>1. /\ DOMAIN e.events = DOMAIN d.events /\ e.events[Len(d.events)] = event
          /\ \A i \in DOMAIN d.events : i # Len(d.events) => e.events[i] = d.events[i]
      BY <2>7
    <3> QED BY <1>2, <2>4, <2>7, <3>1 DEF Changed
  <2> QED BY <1>2, <2>7, <2>8 DEF e
<1> QED BY <1>1, <1>2

LEMMA EffectRead ==
  ASSUME NEW d, NEW lines, NEW rate, NEW mode, IsDocument(d, lines, rate, mode),
         NEW number \in Nat, NEW line
  PROVE  LET e == ReadEffect(d, line, number)
         IN /\ IsDocument(e, lines, rate, mode)
            /\ TellsMore(d, e)
            /\ d.events = <<>> => Kept(d, e) /\ Tells(e.diagnostics, Problems)
            /\ d.events # <<>> => Changed(d, e, FALSE, FALSE, number)
<1> DEFINE e == ReadEffect(d, line, number)
<1>1. CASE d.events = <<>>
  <2>1. e = Diagnosed(d, "warning", number)
    BY <1>1 DEF ReadEffect
  <2> HIDE DEF e
  <2>2. "warning" \in Problems
    BY DEF Problems
  <2> QED BY <1>1, <2>1, <2>2, DiagnosedDocument DEF e
<1>2. CASE d.events # <<>>
  <2> DEFINE last == Last(d.events)
             event == AddEffect(last, line, number)
             S == Seq(Nat)
  <2>1. last \in EventsOf(lines)
    <3>1. Last(d.events) = d.events[Len(d.events)]
      BY DEF Last
    <3>2. Len(d.events) \in DOMAIN d.events
      BY <1>2 DEF IsDocument
    <3> QED BY <3>1, <3>2 DEF IsDocument
  <2>2. /\ last.effects \in S
        /\ DOMAIN last = {"line", "edit", "duration", "source", "record", "comments",
                          "clipNames", "effects"}
    BY <2>1 DEF EventsOf
  <2>3. Append(last.effects, number) \in S
    BY <2>2
  <2> HIDE DEF last, S
  <2>4. /\ event.line = last.line /\ event.record = last.record
        /\ event.comments = last.comments /\ event.clipNames = last.clipNames
    BY <2>2 DEF AddEffect
  <2>5. event \in EventsOf(lines)
    <3>1. \A effects \in S : [last EXCEPT !.effects = effects] \in EventsOf(lines)
      BY <2>1 DEF EventsOf, S
    <3> QED BY <2>2, <2>3, <3>1 DEF AddEffect
  <2> HIDE DEF event
  <2>6. e = OnLastEvent(d, event)
    BY <1>2 DEF ReadEffect, event, last
  <2> HIDE DEF e
  <2>7. /\ IsDocument(e, lines, rate, mode)
        /\ e.diagnostics = d.diagnostics
        /\ e.events = [d.events EXCEPT ![Len(d.events)] = event]
        /\ Len(d.events) \in DOMAIN d.events
        /\ d.events[Len(d.events)] = last
    BY <1>2, <2>5, <2>6, LastChanged DEF last
  <2>8. Changed(d, e, FALSE, FALSE, number)
    <3>1. /\ DOMAIN e.events = DOMAIN d.events /\ e.events[Len(d.events)] = event
          /\ \A i \in DOMAIN d.events : i # Len(d.events) => e.events[i] = d.events[i]
      BY <2>7
    <3> QED BY <1>2, <2>4, <2>7, <3>1 DEF Changed
  <2> QED BY <1>2, <2>7, <2>8 DEF e, TellsMore
<1> QED BY <1>1, <1>2

LEMMA AcceptedEventRead ==
  ASSUME NEW d, NEW lines, NEW rate, NEW mode, IsDocument(d, lines, rate, mode),
         NEW number \in DOMAIN lines, number \in Nat
  PROVE  LET line == lines[number]
             e == ReadAcceptedEvent(d, line, number)
         IN /\ IsDocument(e, lines, rate, mode)
            /\ TellsMore(d, e)
            /\ Added(d, e, line, number)
            /\ LacksDuration(line) \/ HasUnknownEdit(line) => Tells(e.diagnostics, Problems)
<1> DEFINE line == lines[number]
           warned == IF LacksDuration(line) THEN Diagnosed(d, "warning", number) ELSE d
           added == [warned EXCEPT !.events = Append(@, Event(line, number))]
           e == ReadAcceptedEvent(d, line, number)
<1>0. "warning" \in Problems
  BY DEF Problems
<1>1. /\ IsDocument(warned, lines, rate, mode) /\ TellsMore(d, warned) /\ Kept(d, warned)
      /\ LacksDuration(line) => Tells(warned.diagnostics, Problems)
  <2>1. CASE LacksDuration(line)
    BY <1>0, <2>1, DiagnosedDocument
  <2>2. CASE ~ LacksDuration(line)
    BY <2>2 DEF TellsMore, Kept
  <2> QED BY <2>1, <2>2
<1> HIDE DEF warned
<1>2. /\ IsDocument(added, lines, rate, mode) /\ added.diagnostics = warned.diagnostics
      /\ Added(d, added, line, number)
  <2> DEFINE S == EventsOf(lines)
             more == Append(warned.events, Event(line, number))
  <2>1. more \in Seq(S)
    <3>1. warned.events \in Seq(S) /\ Event(line, number) \in S
      BY <1>1, EventIsOne DEF IsDocument
    <3> HIDE DEF S
    <3> QED BY <3>1
  <2> HIDE DEF more
  <2>2. /\ added.events = more /\ added.diagnostics = warned.diagnostics
        /\ added.rate = warned.rate /\ added.mode = warned.mode
        /\ DOMAIN added = DOMAIN warned
    BY <1>1 DEF IsDocument, more
  <2> HIDE DEF added
  <2> QED BY <1>1, <2>1, <2>2 DEF IsDocument, Added, Kept, more
<1> HIDE DEF added
<1>3. e = IF HasUnknownEdit(line) THEN Diagnosed(added, "warning", number) ELSE added
  BY DEF ReadAcceptedEvent, added, warned
<1> HIDE DEF e
<1>4. /\ IsDocument(e, lines, rate, mode) /\ TellsMore(added, e) /\ Kept(added, e)
      /\ HasUnknownEdit(line) => Tells(e.diagnostics, Problems)
  <2>1. CASE HasUnknownEdit(line)
    BY <1>0, <1>2, <1>3, <2>1, DiagnosedDocument
  <2>2. CASE ~ HasUnknownEdit(line)
    BY <1>2, <1>3, <2>2 DEF TellsMore, Kept
  <2> QED BY <2>1, <2>2
<1>5. TellsMore(d, e) /\ (LacksDuration(line) => Tells(e.diagnostics, Problems))
  <2>1. Problems \in SUBSET Problems
    OBVIOUS
  <2> QED BY <1>1, <1>2, <1>4, <2>1 DEF TellsMore
<1> QED BY <1>2, <1>4, <1>5 DEF e, Kept, Added

-----------------------------------------------------------------------------
(* One more line.                                                          *)
LEMMA ListsGrow ==
  ASSUME NEW k \in Nat, NEW numbers \in Seq(Nat), NEW set \in SUBSET (1 .. k),
         Lists(numbers, set)
  PROVE  Lists(Append(numbers, k + 1), set \union {k + 1})
<1> DEFINE n == Len(numbers)
           more == Append(numbers, k + 1)
<1>1. /\ n \in Nat /\ DOMAIN numbers = 1 .. n /\ DOMAIN more = 1 .. n + 1
      /\ more[n + 1] = k + 1 /\ \A i \in 1 .. n : more[i] = numbers[i]
  OBVIOUS
<1>2. /\ {numbers[i] : i \in 1 .. n} = set
      /\ \A i, j \in 1 .. n : i < j => numbers[i] < numbers[j]
  BY <1>1 DEF Lists, ToSet
<1> HIDE DEF more, n
<1>3. \A i \in 1 .. n : numbers[i] \in 1 .. k
  BY <1>2
<1>4. {more[i] : i \in 1 .. n + 1} = set \union {k + 1}
  <2>1. \A i \in 1 .. n + 1 : i \in 1 .. n \/ i = n + 1
    BY <1>1
  <2>2. 1 .. n \subseteq 1 .. n + 1 /\ n + 1 \in 1 .. n + 1
    BY <1>1
  <2> QED BY <1>1, <1>2, <2>1, <2>2
<1>5. \A i, j \in 1 .. n + 1 : i < j => more[i] < more[j]
  <2> SUFFICES ASSUME NEW i \in 1 .. n + 1, NEW j \in 1 .. n + 1, i < j
               PROVE  more[i] < more[j]
    OBVIOUS
  <2>1. i \in 1 .. n
    BY <1>1
  <2>2. CASE j = n + 1
    BY <1>1, <1>3, <2>1, <2>2
  <2>3. CASE j \in 1 .. n
    BY <1>1, <1>2, <2>1, <2>3
  <2> QED BY <1>1, <2>2, <2>3
<1> QED BY <1>1, <1>4, <1>5 DEF Lists, ToSet, more

LEMMA CommentsStay ==
  ASSUME NEW k \in Nat, NEW d, NEW e, NEW lines, NEW number \in 1 .. k,
         e.rate = d.rate, e.mode = d.mode,
         \/ lines[k + 1].kind \notin {"comment", "clipName"}
         \/ \E j \in 1 .. k : Accepted(d, lines, j) /\ j > number
  PROVE  /\ CommentsSoFar(e, k + 1, lines, number) = CommentsSoFar(d, k, lines, number)
         /\ ClipNamesSoFar(e, k + 1, lines, number) = ClipNamesSoFar(d, k, lines, number)
<1>1. \A j : Accepted(e, lines, j) <=> Accepted(d, lines, j)
  BY DEF Accepted
<1>2. \A i : i \in CommentsSoFar(e, k + 1, lines, number)
             <=> i \in CommentsSoFar(d, k, lines, number)
  <2> TAKE i
  <2>1. ASSUME i \in CommentsSoFar(e, k + 1, lines, number)
        PROVE  i \in CommentsSoFar(d, k, lines, number)
    <3>1. /\ i \in 1 .. k + 1 /\ lines[i].kind \in {"comment", "clipName"} /\ i > number
          /\ \A j \in 1 .. k + 1 : Accepted(d, lines, j) /\ j > number => j > i
      BY <1>1, <2>1 DEF CommentsSoFar
    <3>2. i # k + 1
      BY <3>1
    <3> QED BY <3>1, <3>2 DEF CommentsSoFar
  <2>2. ASSUME i \in CommentsSoFar(d, k, lines, number)
        PROVE  i \in CommentsSoFar(e, k + 1, lines, number)
    <3>1. /\ i \in 1 .. k /\ lines[i].kind \in {"comment", "clipName"} /\ i > number
          /\ \A j \in 1 .. k : Accepted(d, lines, j) /\ j > number => j > i
      BY <2>2 DEF CommentsSoFar
    <3>2. \A j \in 1 .. k + 1 : Accepted(e, lines, j) /\ j > number => j > i
      BY <1>1, <3>1
    <3> QED BY <3>1, <3>2 DEF CommentsSoFar
  <2> QED BY <2>1, <2>2
<1>3. CommentsSoFar(e, k + 1, lines, number) = CommentsSoFar(d, k, lines, number)
  BY <1>2 DEF CommentsSoFar
<1> QED BY <1>3 DEF ClipNamesSoFar

(* No record after this line has been accepted yet.                        *)
IsLastRecord(d, k, lines, number) ==
  \A j \in 1 .. k : Accepted(d, lines, j) => j <= number

LEMMA CommentsGrow ==
  ASSUME NEW k \in Nat, NEW d, NEW e, NEW lines, NEW number \in 1 .. k,
         e.rate = d.rate, e.mode = d.mode,
         lines[k + 1].kind \in {"comment", "clipName"},
         IsLastRecord(d, k, lines, number)
  PROVE  /\ CommentsSoFar(e, k + 1, lines, number)
            = CommentsSoFar(d, k, lines, number) \union {k + 1}
         /\ lines[k + 1].kind = "clipName" /\ ~ lines[k + 1].indented =>
              ClipNamesSoFar(e, k + 1, lines, number)
              = ClipNamesSoFar(d, k, lines, number) \union {k + 1}
         /\ ~ (lines[k + 1].kind = "clipName" /\ ~ lines[k + 1].indented) =>
              ClipNamesSoFar(e, k + 1, lines, number) = ClipNamesSoFar(d, k, lines, number)
<1>1. \A j : Accepted(e, lines, j) <=> Accepted(d, lines, j)
  BY DEF Accepted
<1>2. \A j \in 1 .. k + 1 : Accepted(e, lines, j) => j <= number
  <2>1. ~ Accepted(e, lines, k + 1)
    BY DEF Accepted
  <2> QED BY <1>1, <2>1 DEF IsLastRecord
<1>3. \A i : i \in CommentsSoFar(e, k + 1, lines, number)
             <=> i \in CommentsSoFar(d, k, lines, number) \union {k + 1}
  <2> TAKE i
  <2>1. ASSUME i \in CommentsSoFar(e, k + 1, lines, number), i # k + 1
        PROVE  i \in CommentsSoFar(d, k, lines, number)
    <3>1. /\ i \in 1 .. k + 1 /\ lines[i].kind \in {"comment", "clipName"} /\ i > number
      BY <2>1 DEF CommentsSoFar
    <3>2. i \in 1 .. k
      BY <2>1, <3>1
    <3> QED BY <3>1, <3>2 DEF CommentsSoFar, IsLastRecord
  <2>2. ASSUME i \in CommentsSoFar(d, k, lines, number) \/ i = k + 1
        PROVE  i \in CommentsSoFar(e, k + 1, lines, number)
    <3>1. i \in 1 .. k + 1 /\ lines[i].kind \in {"comment", "clipName"} /\ i > number
      BY <2>2 DEF CommentsSoFar
    <3> QED BY <1>2, <3>1 DEF CommentsSoFar
  <2> QED BY <2>1, <2>2
<1>4. CommentsSoFar(e, k + 1, lines, number) = CommentsSoFar(d, k, lines, number) \union {k + 1}
  BY <1>3 DEF CommentsSoFar
<1>5. ASSUME lines[k + 1].kind = "clipName" /\ ~ lines[k + 1].indented
      PROVE  ClipNamesSoFar(e, k + 1, lines, number)
             = ClipNamesSoFar(d, k, lines, number) \union {k + 1}
  BY <1>4, <1>5 DEF ClipNamesSoFar
<1>6. ASSUME ~ (lines[k + 1].kind = "clipName" /\ ~ lines[k + 1].indented)
      PROVE  ClipNamesSoFar(e, k + 1, lines, number) = ClipNamesSoFar(d, k, lines, number)
  BY <1>4, <1>6 DEF ClipNamesSoFar
<1> QED BY <1>4, <1>5, <1>6

(* A line that makes no event and is no comment of one.                    *)
LEMMA EventsKept ==
  ASSUME NEW k \in Nat, NEW d, NEW e, NEW lines, HasEvents(d, k, lines), Kept(d, e),
         e.rate = d.rate, e.mode = d.mode,
         ~ Accepted(d, lines, k + 1),
         lines[k + 1].kind \notin {"comment", "clipName"} \/ d.events = <<>>
  PROVE  HasEvents(e, k + 1, lines)
<1>1. \A j : Accepted(e, lines, j) <=> Accepted(d, lines, j)
  BY DEF Accepted
<1>2. e.events = d.events
  BY DEF Kept
<1>3. ASSUME NEW i \in DOMAIN d.events
      PROVE  /\ d.events[i].line \in 1 .. k + 1
             /\ Accepted(e, lines, d.events[i].line)
             /\ d.events[i].record = lines[d.events[i].line].record
             /\ Lists(d.events[i].comments, CommentsSoFar(e, k + 1, lines, d.events[i].line))
             /\ Lists(d.events[i].clipNames, ClipNamesSoFar(e, k + 1, lines, d.events[i].line))
  <2>1. /\ d.events[i].line \in 1 .. k
        /\ Accepted(d, lines, d.events[i].line)
        /\ d.events[i].record = lines[d.events[i].line].record
        /\ Lists(d.events[i].comments, CommentsSoFar(d, k, lines, d.events[i].line))
        /\ Lists(d.events[i].clipNames, ClipNamesSoFar(d, k, lines, d.events[i].line))
    BY <1>3 DEF HasEvents
  <2>2. d.events # <<>>
    BY <1>3
  <2>3. lines[k + 1].kind \notin {"comment", "clipName"}
    BY <2>2
  <2>4. /\ CommentsSoFar(e, k + 1, lines, d.events[i].line)
           = CommentsSoFar(d, k, lines, d.events[i].line)
        /\ ClipNamesSoFar(e, k + 1, lines, d.events[i].line)
           = ClipNamesSoFar(d, k, lines, d.events[i].line)
    BY <2>1, <2>3, CommentsStay
  <2>5. d.events[i].line \in 1 .. k + 1
    BY <2>1
  <2> QED BY <1>1, <2>1, <2>4, <2>5
<1>4. \A j \in 1 .. k + 1 : Accepted(e, lines, j) => \E i \in DOMAIN d.events : d.events[i].line = j
  <2> SUFFICES ASSUME NEW j \in 1 .. k + 1, Accepted(e, lines, j)
               PROVE  \E i \in DOMAIN d.events : d.events[i].line = j
    OBVIOUS
  <2>1. j \in 1 .. k
    BY <1>1
  <2> QED BY <1>1, <2>1 DEF HasEvents
<1>5. \A i, j \in DOMAIN d.events : i < j => d.events[i].line < d.events[j].line
  BY DEF HasEvents
<1> QED BY <1>2, <1>3, <1>4, <1>5 DEF HasEvents

(* A comment, or a line that leaves the comments alone, of the last event. *)
LEMMA EventsChanged ==
  ASSUME NEW k \in Nat, NEW d, NEW e, NEW lines, NEW rate, NEW mode,
         IsDocument(d, lines, rate, mode), HasEvents(d, k, lines),
         e.rate = d.rate, e.mode = d.mode, ~ Accepted(d, lines, k + 1),
         Changed(d, e, lines[k + 1].kind \in {"comment", "clipName"},
                 lines[k + 1].kind = "clipName" /\ ~ lines[k + 1].indented, k + 1)
  PROVE  HasEvents(e, k + 1, lines)
<1> DEFINE m == Len(d.events)
           comment == lines[k + 1].kind \in {"comment", "clipName"}
           clipName == lines[k + 1].kind = "clipName" /\ ~ lines[k + 1].indented
<1>1. \A j : Accepted(e, lines, j) <=> Accepted(d, lines, j)
  BY DEF Accepted
<1>2. /\ m \in Nat /\ DOMAIN d.events = 1 .. m /\ m \in 1 .. m
      /\ DOMAIN e.events = 1 .. m
      /\ \A i \in 1 .. m : d.events[i].comments \in Seq(Nat) /\ d.events[i].clipNames \in Seq(Nat)
  <2>1. /\ d.events \in Seq(EventsOf(lines)) /\ d.events # <<>>
        /\ DOMAIN e.events = DOMAIN d.events
    BY DEF IsDocument, Changed
  <2>2. \A event \in EventsOf(lines) : event.comments \in Seq(Nat) /\ event.clipNames \in Seq(Nat)
    BY DEF EventsOf
  <2> QED BY <2>1, <2>2
<1>3. /\ \A i \in 1 .. m : i # m => e.events[i] = d.events[i]
      /\ e.events[m].line = d.events[m].line /\ e.events[m].record = d.events[m].record
      /\ e.events[m].comments = IF comment THEN Append(d.events[m].comments, k + 1)
                                ELSE d.events[m].comments
      /\ e.events[m].clipNames = IF clipName THEN Append(d.events[m].clipNames, k + 1)
                                 ELSE d.events[m].clipNames
  BY <1>2 DEF Changed
<1>4. \A i \in 1 .. m :
        /\ d.events[i].line \in 1 .. k
        /\ Accepted(d, lines, d.events[i].line)
        /\ d.events[i].record = lines[d.events[i].line].record
        /\ Lists(d.events[i].comments, CommentsSoFar(d, k, lines, d.events[i].line))
        /\ Lists(d.events[i].clipNames, ClipNamesSoFar(d, k, lines, d.events[i].line))
  BY <1>2 DEF HasEvents
<1>5. /\ \A i, j \in 1 .. m : i < j => d.events[i].line < d.events[j].line
      /\ \A j \in 1 .. k : Accepted(d, lines, j) => \E i \in 1 .. m : d.events[i].line = j
  BY <1>2 DEF HasEvents
<1> HIDE DEF m
<1>6. \A i \in 1 .. m : e.events[i].line = d.events[i].line /\ e.events[i].record = d.events[i].record
  BY <1>3
<1>7. ASSUME NEW i \in 1 .. m, i # m
      PROVE  /\ Lists(e.events[i].comments, CommentsSoFar(e, k + 1, lines, e.events[i].line))
             /\ Lists(e.events[i].clipNames, ClipNamesSoFar(e, k + 1, lines, e.events[i].line))
  <2>1. i < m
    BY <1>2, <1>7
  <2>2. d.events[i].line < d.events[m].line
    BY <1>2, <1>5, <2>1
  <2>3. \E j \in 1 .. k : Accepted(d, lines, j) /\ j > d.events[i].line
    BY <1>2, <1>4, <2>2
  <2>4. /\ CommentsSoFar(e, k + 1, lines, d.events[i].line)
           = CommentsSoFar(d, k, lines, d.events[i].line)
        /\ ClipNamesSoFar(e, k + 1, lines, d.events[i].line)
           = ClipNamesSoFar(d, k, lines, d.events[i].line)
    BY <1>4, <2>3, CommentsStay
  <2>5. e.events[i] = d.events[i]
    BY <1>3, <1>7
  <2> QED BY <1>4, <2>4, <2>5
<1>8. /\ Lists(e.events[m].comments, CommentsSoFar(e, k + 1, lines, e.events[m].line))
      /\ Lists(e.events[m].clipNames, ClipNamesSoFar(e, k + 1, lines, e.events[m].line))
  <2> DEFINE number == d.events[m].line
             C == CommentsSoFar(d, k, lines, number)
             N == ClipNamesSoFar(d, k, lines, number)
  <2>0. number \in 1 .. k /\ e.events[m].line = number
    BY <1>2, <1>3, <1>4
  <2>1. CASE comment
    <3>1. IsLastRecord(d, k, lines, number)
      <4> SUFFICES ASSUME NEW j \in 1 .. k, Accepted(d, lines, j) PROVE j <= number
        BY DEF IsLastRecord
      <4>1. PICK i \in 1 .. m : d.events[i].line = j
        BY <1>5
      <4>2. i = m \/ i < m
        BY <1>2
      <4> QED BY <1>2, <1>4, <1>5, <4>1, <4>2
    <3>2. /\ CommentsSoFar(e, k + 1, lines, number) = C \union {k + 1}
          /\ clipName => ClipNamesSoFar(e, k + 1, lines, number) = N \union {k + 1}
          /\ ~ clipName => ClipNamesSoFar(e, k + 1, lines, number) = N
      <4>1. lines[k + 1].kind \in {"comment", "clipName"} /\ number \in 1 .. k
        BY <2>0, <2>1
      <4> HIDE DEF number
      <4>2. e.rate = d.rate /\ e.mode = d.mode
        OBVIOUS
      <4>3. CommentsSoFar(e, k + 1, lines, number)
               = CommentsSoFar(d, k, lines, number) \union {k + 1}
        BY <3>1, <4>1, <4>2, CommentsGrow
      <4>4. clipName => ClipNamesSoFar(e, k + 1, lines, number) = N \union {k + 1}
        BY <3>1, <4>1, <4>2, CommentsGrow
      <4>5. ~ clipName => ClipNamesSoFar(e, k + 1, lines, number) = N
        BY <3>1, <4>1, <4>2, CommentsGrow
      <4> QED BY <4>3, <4>4, <4>5
    <3>3. C \in SUBSET (1 .. k) /\ N \in SUBSET (1 .. k)
      BY DEF CommentsSoFar, ClipNamesSoFar
    <3>4. /\ d.events[m].comments \in Seq(Nat) /\ d.events[m].clipNames \in Seq(Nat)
          /\ Lists(d.events[m].comments, C) /\ Lists(d.events[m].clipNames, N)
      BY <1>2, <1>4
    <3> HIDE DEF C, N, number
    <3>5. Lists(Append(d.events[m].comments, k + 1), C \union {k + 1})
      BY <3>3, <3>4, ListsGrow
    <3>6. Lists(Append(d.events[m].clipNames, k + 1), N \union {k + 1})
      BY <3>3, <3>4, ListsGrow
    <3>8. Lists(e.events[m].comments, CommentsSoFar(e, k + 1, lines, number))
      BY <1>3, <2>1, <3>2, <3>5
    <3>9. Lists(e.events[m].clipNames, ClipNamesSoFar(e, k + 1, lines, number))
      <4>1. CASE clipName
        BY <1>3, <3>2, <3>6, <4>1
      <4>2. CASE ~ clipName
        BY <1>3, <3>2, <3>4, <4>2
      <4> QED BY <4>1, <4>2
    <3> QED BY <2>0, <3>8, <3>9
  <2>2. CASE ~ comment
    <3>1. CommentsSoFar(e, k + 1, lines, number) = C /\ ClipNamesSoFar(e, k + 1, lines, number) = N
      BY <2>0, <2>2, CommentsStay
    <3>2. e.events[m].comments = d.events[m].comments /\ e.events[m].clipNames = d.events[m].clipNames
      BY <1>3, <2>2
    <3>3. Lists(d.events[m].comments, C) /\ Lists(d.events[m].clipNames, N)
      BY <1>2, <1>4
    <3> QED BY <2>0, <3>1, <3>2, <3>3
  <2> QED BY <2>1, <2>2
<1>9. \A i \in 1 .. m :
        /\ e.events[i].line \in 1 .. k + 1
        /\ Accepted(e, lines, e.events[i].line)
        /\ e.events[i].record = lines[e.events[i].line].record
        /\ Lists(e.events[i].comments, CommentsSoFar(e, k + 1, lines, e.events[i].line))
        /\ Lists(e.events[i].clipNames, ClipNamesSoFar(e, k + 1, lines, e.events[i].line))
  <2> TAKE i \in 1 .. m
  <2>1. /\ e.events[i].line \in 1 .. k + 1
        /\ Accepted(e, lines, e.events[i].line)
        /\ e.events[i].record = lines[e.events[i].line].record
    BY <1>1, <1>4, <1>6
  <2> QED BY <1>7, <1>8, <2>1
<1>10. \A j \in 1 .. k + 1 : Accepted(e, lines, j) => \E i \in 1 .. m : e.events[i].line = j
  <2> SUFFICES ASSUME NEW j \in 1 .. k + 1, Accepted(e, lines, j)
               PROVE  \E i \in 1 .. m : e.events[i].line = j
    OBVIOUS
  <2>1. j \in 1 .. k
    BY <1>1
  <2> QED BY <1>1, <1>5, <1>6, <2>1
<1>11. \A i, j \in 1 .. m : i < j => e.events[i].line < e.events[j].line
  BY <1>5, <1>6
<1> QED BY <1>2, <1>9, <1>10, <1>11 DEF HasEvents

LEMMA EventsAdded ==
  ASSUME NEW k \in Nat, NEW d, NEW e, NEW lines, NEW rate, NEW mode,
         IsDocument(d, lines, rate, mode), HasEvents(d, k, lines),
         e.rate = d.rate, e.mode = d.mode, k + 1 \in DOMAIN lines,
         Accepted(d, lines, k + 1), Added(d, e, lines[k + 1], k + 1)
  PROVE  HasEvents(e, k + 1, lines)
<1> DEFINE m == Len(d.events)
           event == Event(lines[k + 1], k + 1)
           number == k + 1
<1>1. \A j : Accepted(e, lines, j) <=> Accepted(d, lines, j)
  BY DEF Accepted
<1>2. /\ m \in Nat /\ DOMAIN d.events = 1 .. m /\ DOMAIN e.events = 1 .. m + 1
      /\ e.events[m + 1] = event /\ \A i \in 1 .. m : e.events[i] = d.events[i]
  <2>1. d.events \in Seq(EventsOf(lines)) /\ event \in EventsOf(lines)
        /\ e.events = Append(d.events, event)
    BY EventIsOne DEF IsDocument, Added
  <2> HIDE DEF event
  <2> QED BY <2>1
<1>3. /\ event.line = k + 1 /\ event.record = lines[k + 1].record
      /\ event.comments = <<>> /\ event.clipNames = <<>>
  BY EventIsOne
<1>4. \A i \in 1 .. m :
        /\ d.events[i].line \in 1 .. k
        /\ Accepted(d, lines, d.events[i].line)
        /\ d.events[i].record = lines[d.events[i].line].record
        /\ Lists(d.events[i].comments, CommentsSoFar(d, k, lines, d.events[i].line))
        /\ Lists(d.events[i].clipNames, ClipNamesSoFar(d, k, lines, d.events[i].line))
  BY <1>2 DEF HasEvents
<1>5. /\ \A i, j \in 1 .. m : i < j => d.events[i].line < d.events[j].line
      /\ \A j \in 1 .. k : Accepted(d, lines, j) => \E i \in 1 .. m : d.events[i].line = j
  BY <1>2 DEF HasEvents
<1> HIDE DEF m, event
<1>6. ASSUME NEW i \in 1 .. m
      PROVE  /\ e.events[i].line \in 1 .. k + 1
             /\ Accepted(e, lines, e.events[i].line)
             /\ e.events[i].record = lines[e.events[i].line].record
             /\ Lists(e.events[i].comments, CommentsSoFar(e, k + 1, lines, e.events[i].line))
             /\ Lists(e.events[i].clipNames, ClipNamesSoFar(e, k + 1, lines, e.events[i].line))
  <2>1. lines[k + 1].kind \notin {"comment", "clipName"}
    BY DEF Accepted
  <2>2. /\ CommentsSoFar(e, k + 1, lines, d.events[i].line)
           = CommentsSoFar(d, k, lines, d.events[i].line)
        /\ ClipNamesSoFar(e, k + 1, lines, d.events[i].line)
           = ClipNamesSoFar(d, k, lines, d.events[i].line)
    BY <1>4, <2>1, CommentsStay
  <2>3. d.events[i].line \in 1 .. k + 1
    BY <1>4
  <2>4. e.events[i] = d.events[i]
    BY <1>2
  <2> QED BY <1>1, <1>4, <2>2, <2>3, <2>4
<1>7. /\ e.events[m + 1].line \in 1 .. k + 1
      /\ Accepted(e, lines, e.events[m + 1].line)
      /\ e.events[m + 1].record = lines[e.events[m + 1].line].record
      /\ Lists(e.events[m + 1].comments, CommentsSoFar(e, k + 1, lines, e.events[m + 1].line))
      /\ Lists(e.events[m + 1].clipNames, ClipNamesSoFar(e, k + 1, lines, e.events[m + 1].line))
  <2>1. CommentsSoFar(e, k + 1, lines, k + 1) = {}
    BY DEF CommentsSoFar
  <2>2. ClipNamesSoFar(e, k + 1, lines, k + 1) = {}
    BY <2>1 DEF ClipNamesSoFar
  <2>3. Lists(<<>>, {})
    BY DEF Lists, ToSet
  <2>4. k + 1 \in 1 .. k + 1
    OBVIOUS
  <2> QED BY <1>1, <1>2, <1>3, <2>1, <2>2, <2>3, <2>4
<1>8. \A i \in 1 .. m + 1 : i \in 1 .. m \/ i = m + 1
  BY <1>2
<1>9. \A j \in 1 .. k + 1 : Accepted(e, lines, j) => \E i \in 1 .. m + 1 : e.events[i].line = j
  <2> SUFFICES ASSUME NEW j \in 1 .. k + 1, Accepted(e, lines, j)
               PROVE  \E i \in 1 .. m + 1 : e.events[i].line = j
    OBVIOUS
  <2>1. CASE j = k + 1
    BY <1>2, <1>3, <2>1
  <2>2. CASE j \in 1 .. k
    <3>1. PICK i \in 1 .. m : d.events[i].line = j
      BY <1>1, <1>5, <2>2
    <3>2. i \in 1 .. m + 1 /\ e.events[i].line = j
      BY <1>2, <3>1
    <3> QED BY <3>2
  <2> QED BY <2>1, <2>2
<1>10. \A i, j \in 1 .. m + 1 : i < j => e.events[i].line < e.events[j].line
  <2> SUFFICES ASSUME NEW i \in 1 .. m + 1, NEW j \in 1 .. m + 1, i < j
               PROVE  e.events[i].line < e.events[j].line
    OBVIOUS
  <2>1. i \in 1 .. m
    BY <1>2
  <2>2. CASE j = m + 1
    BY <1>2, <1>3, <1>4, <2>1, <2>2
  <2>3. CASE j \in 1 .. m
    BY <1>2, <1>5, <2>1, <2>3
  <2> QED BY <1>8, <2>2, <2>3
<1>11. \A i \in 1 .. m + 1 :
        /\ e.events[i].line \in 1 .. k + 1
        /\ Accepted(e, lines, e.events[i].line)
        /\ e.events[i].record = lines[e.events[i].line].record
        /\ Lists(e.events[i].comments, CommentsSoFar(e, k + 1, lines, e.events[i].line))
        /\ Lists(e.events[i].clipNames, ClipNamesSoFar(e, k + 1, lines, e.events[i].line))
  BY <1>6, <1>7, <1>8
<1> QED BY <1>2, <1>9, <1>10, <1>11 DEF HasEvents

LEMMA OneMoreTold ==
  ASSUME NEW k \in Nat, NEW d, NEW e, NEW lines, NEW fallback,
         IsTold(d, k, lines, fallback), TellsMore(d, e), e.rate = d.rate, e.mode = d.mode,
         (lines[k + 1].kind = "event" /\ Rejected(lines[k + 1], d.rate, d.mode)) =>
           Tells(e.diagnostics, {"error"}),
         (~ Understood(lines, k + 1)) => Tells(e.diagnostics, Problems),
         (e.events # <<>>) => (d.events # <<>> \/ lines[k + 1].kind = "event")
  PROVE  IsTold(e, k + 1, lines, fallback)
<1>1. Problems \in SUBSET Problems /\ {"error"} \in SUBSET Problems
  BY DEF Problems
<1>2. /\ Tells(d.diagnostics, Problems) => Tells(e.diagnostics, Problems)
      /\ Tells(d.diagnostics, {"error"}) => Tells(e.diagnostics, {"error"})
  BY <1>1 DEF TellsMore
<1>3. ASSUME NEW j \in 1 .. k + 1
      PROVE  /\ lines[j].kind = "event" /\ Rejected(lines[j], e.rate, e.mode) =>
                  Tells(e.diagnostics, {"error"})
             /\ ~ Understood(lines, j) => Tells(e.diagnostics, Problems)
  <2>1. CASE j = k + 1
    BY <2>1
  <2>2. CASE j \in 1 .. k
    BY <1>2, <2>2 DEF IsTold
  <2> QED BY <2>1, <2>2
<1>4. e.events # <<>> => \E j \in 1 .. k + 1 : lines[j].kind = "event"
  BY DEF IsTold
<1>5. fallback => Tells(e.diagnostics, Problems)
  BY <1>2 DEF IsTold
<1> QED BY <1>3, <1>4, <1>5 DEF IsTold

LEMMA LineRead ==
  ASSUME NEW k \in Nat, NEW d, NEW lines, NEW rate, NEW mode, NEW fallback,
         k + 1 \in DOMAIN lines, ReadSoFar(d, k, lines, rate, mode, fallback)
  PROVE  ReadSoFar(ReadLine(d, lines[k + 1], k + 1), k + 1, lines, rate, mode, fallback)
<1> DEFINE line == lines[k + 1]
           number == k + 1
           e == ReadLine(d, line, number)
<1>0. /\ IsDocument(d, lines, rate, mode) /\ IsTold(d, k, lines, fallback)
      /\ HasEvents(d, k, lines)
      /\ number \in Nat /\ number \in DOMAIN lines
      /\ "warning" \in Problems /\ "error" \in Problems
  BY DEF ReadSoFar, Problems
<1>1. \A f : IsDocument(f, lines, rate, mode) => f.rate = d.rate /\ f.mode = d.mode
  BY <1>0 DEF IsDocument
<1>2. CASE line.kind \in {"blank", "title", "fcmDrop", "fcmNonDrop"}
  <2>1. e = d
    BY <1>2 DEF ReadLine
  <2>2. Kept(d, d) /\ TellsMore(d, d) /\ ~ Accepted(d, lines, k + 1) /\ Understood(lines, k + 1)
    BY <1>2 DEF Kept, TellsMore, Accepted, Understood
  <2>3. line.kind \notin {"comment", "clipName"} /\ line.kind # "event"
    BY <1>2
  <2>4. HasEvents(d, k + 1, lines)
    BY <1>0, <2>2, <2>3, EventsKept
  <2>5. IsTold(d, k + 1, lines, fallback)
    BY <1>0, <2>2, <2>3, OneMoreTold
  <2> QED BY <1>0, <2>1, <2>4, <2>5 DEF ReadSoFar
<1>3. CASE line.kind \in {"comment", "clipName"}
  <2>1. e = ReadComment(d, line, number)
    BY <1>3 DEF ReadLine
  <2>2. ~ Accepted(d, lines, k + 1) /\ Understood(lines, k + 1) /\ line.kind # "event"
    BY <1>3 DEF Accepted, Understood
  <2> HIDE DEF e
  <2>3. /\ IsDocument(e, lines, rate, mode) /\ e.diagnostics = d.diagnostics
        /\ d.events = <<>> => Kept(d, e)
        /\ d.events # <<>> =>
             Changed(d, e, TRUE, line.kind = "clipName" /\ ~ line.indented, number)
    BY <1>0, <2>1, CommentRead
  <2>4. e.rate = d.rate /\ e.mode = d.mode /\ TellsMore(d, e)
    BY <1>1, <2>3 DEF TellsMore
  <2>5. HasEvents(e, k + 1, lines)
    <3>1. CASE d.events = <<>>
      BY <1>0, <2>2, <2>3, <2>4, <3>1, EventsKept
    <3>2. CASE d.events # <<>>
      <4>1. Changed(d, e, lines[k + 1].kind \in {"comment", "clipName"},
                    lines[k + 1].kind = "clipName" /\ ~ lines[k + 1].indented, k + 1)
        BY <1>3, <2>3, <3>2 DEF Changed
      <4> QED BY <1>0, <2>2, <2>4, <4>1, EventsChanged
    <3> QED BY <3>1, <3>2
  <2>6. IsTold(e, k + 1, lines, fallback)
    <3>1. e.events # <<>> => d.events # <<>>
      BY <2>3 DEF Kept
    <3> QED BY <1>0, <2>2, <2>4, <3>1, OneMoreTold
  <2> QED BY <2>3, <2>5, <2>6 DEF ReadSoFar, e
<1>4. CASE line.kind = "motionEffect"
  <2>1. e = ReadEffect(d, line, number)
    BY <1>4 DEF ReadLine
  <2>2. ~ Accepted(d, lines, k + 1) /\ line.kind # "event"
        /\ line.kind \notin {"comment", "clipName"} /\ line.kind # "clipName"
    BY <1>4 DEF Accepted
  <2> HIDE DEF e
  <2>3. /\ IsDocument(e, lines, rate, mode) /\ TellsMore(d, e)
        /\ d.events = <<>> => Kept(d, e) /\ Tells(e.diagnostics, Problems)
        /\ d.events # <<>> => Changed(d, e, FALSE, FALSE, number)
    BY <1>0, <2>1, EffectRead
  <2>4. e.rate = d.rate /\ e.mode = d.mode
    BY <1>1, <2>3
  <2>5. HasEvents(e, k + 1, lines)
    <3>1. CASE d.events = <<>>
      BY <1>0, <2>2, <2>3, <2>4, <3>1, EventsKept
    <3>2. CASE d.events # <<>>
      <4>1. Changed(d, e, lines[k + 1].kind \in {"comment", "clipName"},
                    lines[k + 1].kind = "clipName" /\ ~ lines[k + 1].indented, k + 1)
        BY <2>2, <2>3, <3>2 DEF Changed
      <4> QED BY <1>0, <2>2, <2>4, <4>1, EventsChanged
    <3> QED BY <3>1, <3>2
  <2>6. (~ Understood(lines, k + 1)) => Tells(e.diagnostics, Problems)
    <3> SUFFICES ASSUME ~ Understood(lines, k + 1) PROVE Tells(e.diagnostics, Problems)
      OBVIOUS
    <3>1. ~ \E j \in 1 .. k : lines[j].kind = "event"
      BY <1>4 DEF Understood
    <3>2. d.events = <<>>
      BY <1>0, <3>1 DEF IsTold
    <3> QED BY <2>3, <3>2
  <2>7. IsTold(e, k + 1, lines, fallback)
    <3>1. e.events # <<>> => d.events # <<>>
      BY <2>3 DEF Kept
    <3> QED BY <1>0, <2>2, <2>3, <2>4, <2>6, <3>1, OneMoreTold
  <2> QED BY <2>3, <2>5, <2>7 DEF ReadSoFar, e
<1>5. CASE line.kind = "event"
  <2>1. e = ReadEvent(d, line, number)
    BY <1>5 DEF ReadLine
  <2>2. CASE Rejected(line, d.rate, d.mode)
    <3>1. e = Diagnosed(d, "error", number)
      BY <2>1, <2>2 DEF ReadEvent
    <3>2. ~ Accepted(d, lines, k + 1) /\ line.kind \notin {"comment", "clipName"}
      BY <1>5, <2>2 DEF Accepted
    <3> HIDE DEF e
    <3>3. /\ IsDocument(e, lines, rate, mode) /\ Kept(d, e) /\ TellsMore(d, e)
          /\ Tells(e.diagnostics, {"error"}) /\ Tells(e.diagnostics, Problems)
      BY <1>0, <3>1, DiagnosedDocument
    <3>4. e.rate = d.rate /\ e.mode = d.mode
      BY <1>1, <3>3
    <3>5. HasEvents(e, k + 1, lines)
      BY <1>0, <3>2, <3>3, <3>4, EventsKept
    <3>6. IsTold(e, k + 1, lines, fallback)
      BY <1>0, <1>5, <3>3, <3>4, OneMoreTold
    <3> QED BY <3>3, <3>5, <3>6 DEF ReadSoFar, e
  <2>3. CASE ~ Rejected(line, d.rate, d.mode)
    <3>1. e = ReadAcceptedEvent(d, line, number)
      BY <2>1, <2>3 DEF ReadEvent
    <3>2. Accepted(d, lines, k + 1)
      BY <1>5, <2>3 DEF Accepted
    <3> HIDE DEF e
    <3>3. /\ IsDocument(e, lines, rate, mode) /\ TellsMore(d, e) /\ Added(d, e, line, number)
          /\ LacksDuration(line) \/ HasUnknownEdit(line) => Tells(e.diagnostics, Problems)
      BY <1>0, <3>1, AcceptedEventRead
    <3>4. e.rate = d.rate /\ e.mode = d.mode
      BY <1>1, <3>3
    <3>5. HasEvents(e, k + 1, lines)
      BY <1>0, <3>2, <3>3, <3>4, EventsAdded
    <3>6. (~ Understood(lines, k + 1)) => Tells(e.diagnostics, Problems)
      BY <1>5, <3>3 DEF Understood, LacksDuration, HasUnknownEdit
    <3>7. IsTold(e, k + 1, lines, fallback)
      BY <1>0, <1>5, <2>3, <3>3, <3>4, <3>6, OneMoreTold
    <3> QED BY <3>3, <3>5, <3>7 DEF ReadSoFar, e
  <2> QED BY <2>2, <2>3
<1>6. CASE line.kind \notin {"blank", "title", "fcmDrop", "fcmNonDrop", "comment", "clipName",
                             "motionEffect", "event"}
  <2> DEFINE f == Noted(d, number)
  <2>1. e = Diagnosed(f, "warning", number)
    BY <1>6 DEF ReadLine
  <2>2. ~ Accepted(d, lines, k + 1) /\ line.kind # "event"
        /\ line.kind \notin {"comment", "clipName"}
    BY <1>6 DEF Accepted
  <2> HIDE DEF e, f
  <2>3. IsDocument(f, lines, rate, mode) /\ Kept(d, f) /\ f.diagnostics = d.diagnostics
    BY <1>0, NotedDocument DEF f
  <2>4. /\ IsDocument(e, lines, rate, mode) /\ Kept(f, e) /\ TellsMore(f, e)
        /\ Tells(e.diagnostics, Problems)
    BY <1>0, <2>1, <2>3, DiagnosedDocument
  <2>5. Kept(d, e) /\ TellsMore(d, e) /\ e.rate = d.rate /\ e.mode = d.mode
    BY <1>1, <2>3, <2>4 DEF Kept, TellsMore
  <2>6. HasEvents(e, k + 1, lines)
    BY <1>0, <2>2, <2>5, EventsKept
  <2>7. IsTold(e, k + 1, lines, fallback)
    <3>1. e.events # <<>> => d.events # <<>>
      BY <2>5 DEF Kept
    <3> QED BY <1>0, <2>2, <2>4, <2>5, <3>1, OneMoreTold
  <2> QED BY <2>4, <2>6, <2>7 DEF ReadSoFar, e
<1> QED BY <1>2, <1>3, <1>4, <1>5, <1>6

-----------------------------------------------------------------------------
(* The whole file.                                                         *)
LEMMA NewDocumentRead ==
  ASSUME NEW lines, NEW rate, NEW mode, NEW fallback
  PROVE  ReadSoFar(NewDocument(rate, mode, fallback), 0, lines, rate, mode, fallback)
<1> DEFINE d == NewDocument(rate, mode, fallback)
           note == [severity |-> "warning", line |-> 0]
           notes == IF fallback THEN <<note>> ELSE <<>>
<1>1. /\ d.rate = rate /\ d.mode = mode /\ d.events = <<>> /\ d.diagnostics = notes
      /\ DOMAIN d = {"rate", "mode", "events", "metadata", "diagnostics"}
  BY DEF NewDocument
<1>2. note \in Notes /\ note.severity \in Problems
  BY DEF Notes, Problems
<1> HIDE DEF d, note
<1>3. notes \in Seq(Notes) /\ (fallback => Tells(notes, Problems))
  <2>1. CASE fallback
    <3>1. notes = <<note>>
      BY <2>1
    <3>2. <<note>> \in Seq(Notes) /\ Tells(<<note>>, Problems)
      BY <1>2 DEF Tells
    <3> QED BY <3>1, <3>2
  <2>2. CASE ~ fallback
    BY <2>2
  <2> QED BY <2>1, <2>2
<1> HIDE DEF notes
<1>4. <<>> \in Seq(EventsOf(lines))
  OBVIOUS
<1>5. IsDocument(d, lines, rate, mode)
  BY <1>1, <1>3, <1>4 DEF IsDocument
<1>6. IsTold(d, 0, lines, fallback)
  BY <1>1, <1>3 DEF IsTold
<1>7. HasEvents(d, 0, lines)
  BY <1>1 DEF HasEvents
<1> QED BY <1>5, <1>6, <1>7 DEF ReadSoFar, d

LEMMA AllLinesRead ==
  ASSUME NEW n \in Nat, NEW lines, DOMAIN lines = 1 .. n, NEW rate, NEW mode, NEW fallback
  PROVE  ReadSoFar(ReadLines(lines, NewDocument(rate, mode, fallback)), n,
                   lines, rate, mode, fallback)
<1> DEFINE empty == NewDocument(rate, mode, fallback)
<1>1. PICK documents : /\ Passes(documents, n, lines, empty)
                       /\ ReadLines(lines, empty) = documents[n]
  <2> HIDE DEF empty
  <2> QED BY LinesArePassed
<1> DEFINE T == {k \in Nat : k <= n => ReadSoFar(documents[k], k, lines, rate, mode, fallback)}
<1>2. 0 \in T
  BY <1>1, NewDocumentRead DEF Passes
<1>3. ASSUME NEW k \in Nat, k \in T PROVE k + 1 \in T
  <2> SUFFICES ASSUME k + 1 <= n
               PROVE  ReadSoFar(documents[k + 1], k + 1, lines, rate, mode, fallback)
    OBVIOUS
  <2>1. ReadSoFar(documents[k], k, lines, rate, mode, fallback)
    BY <1>3
  <2>2. k + 1 \in 1 .. n /\ (k + 1) - 1 = k
    OBVIOUS
  <2>3. documents[k + 1] = ReadLine(documents[k], lines[k + 1], k + 1)
    BY <1>1, <2>2 DEF Passes
  <2>4. ReadSoFar(ReadLine(documents[k], lines[k + 1], k + 1), k + 1, lines, rate, mode, fallback)
    BY <2>1, <2>2, LineRead
  <2> QED BY <2>3, <2>4
<1>4. n \in T
  <2> HIDE DEF T
  <2> QED BY <1>2, <1>3, Induction
<1>5. ReadSoFar(documents[n], n, lines, rate, mode, fallback)
  BY <1>4
<1> QED BY <1>1, <1>5

(* What an import that is available has read.                              *)
IsReading(document, input) ==
  /\ document.mode \in Modes
  /\ IsSupported(document.rate, document.mode)
  /\ ReadSoFar(document, Len(input.lines), input.lines, document.rate, document.mode,
               UsesFallback(input.bytes))

LEMMA ImportReads ==
  ASSUME NEW input \in Files, NEW option, Import(input, option).available
  PROVE  /\ IsReading(Import(input, option).document, input)
         /\ Import(input, option).diagnostics = Import(input, option).document.diagnostics
<1> DEFINE mode == ModeOf(input.lines)
           rate == RateOf(option, mode)
           fallback == UsesFallback(input.bytes)
           empty == NewDocument(rate, mode, fallback)
           document == ReadLines(input.lines, empty)
<1>1. \A d : NoDocument(d).available = FALSE
  BY DEF NoDocument
<1>2. mode \in Modes
  BY DEF ModeOf, Modes
<1>3. /\ Import(input, option)
           = [available |-> TRUE, document |-> document, diagnostics |-> document.diagnostics]
      /\ IsSupported(rate, mode)
  BY <1>1 DEF Import
<1>4. Len(input.lines) \in Nat /\ DOMAIN input.lines = 1 .. Len(input.lines)
  <2>1. input.lines \in Seq(ToSet(input.lines))
    BY ConversionAssumption
  <2> DEFINE S == ToSet(input.lines)
             lines == input.lines
  <2> HIDE DEF S, lines
  <2>2. lines \in Seq(S)
    BY <2>1 DEF S, lines
  <2>3. Len(lines) \in Nat /\ DOMAIN lines = 1 .. Len(lines)
    BY <2>2
  <2> QED BY <2>3 DEF lines
<1> HIDE DEF mode, rate, fallback
<1>5. ReadSoFar(document, Len(input.lines), input.lines, rate, mode, fallback)
  <2> DEFINE lines == input.lines
             n == Len(input.lines)
  <2>1. n \in Nat /\ DOMAIN lines = 1 .. n
    BY <1>4
  <2> HIDE DEF lines, n
  <2>2. ReadSoFar(ReadLines(lines, empty), n, lines, rate, mode, fallback)
    BY <2>1, AllLinesRead
  <2> QED BY <2>2 DEF lines, n
<1>6. document.rate = rate /\ document.mode = mode
  BY <1>5 DEF ReadSoFar, IsDocument
<1> HIDE DEF document
<1>7. IsReading(document, input)
  BY <1>2, <1>3, <1>5, <1>6 DEF IsReading, fallback
<1> QED BY <1>3, <1>7

-----------------------------------------------------------------------------
(* What is written is what was read.                                       *)
IsRead ==
  /\ file \in Files
  /\ IsReading(timeline, file)
  /\ diagnostics = SeveritiesOf(timeline.diagnostics)
  /\ ~ Contains(diagnostics, "error")

RowOf(document, pictures, number) ==
  LET event == document.events[number]
  IN [line |-> event.line,
      duration |-> Duration(event.record, document.rate, document.mode),
      durationFrames |-> DurationInFrames(event.record, document.rate, document.mode),
      clipName |-> ClipName(event),
      comments |-> event.comments,
      image |-> IF number \in pictures THEN number ELSE None]

Pictures == images = IF UsesInitialFrames THEN DOMAIN timeline.events ELSE {}

RowsAreWritten ==
  status.error = None =>
    \A k \in DOMAIN workbook.rows : workbook.rows[k] = RowOf(timeline, images, k)

Workbooks ==
  [content : {"workbook"}, rows : Seq(Rows \union {None}), timelineSheet : BOOLEAN,
   diagnosticsSheet : BOOLEAN]

BookIsTrue(book) ==
  /\ None \notin ToSet(book.rows)
  /\ Lists([k \in DOMAIN book.rows |-> book.rows[k].line], EventRecords)
  /\ \A k \in DOMAIN book.rows : RowIsTrue(book.rows[k], k)
  /\ book.timelineSheet = command.timelineSheet
  /\ book.diagnosticsSheet = command.diagnosticsSheet

(* The severities reported are those of the notes.                         *)
LEMMA SeveritiesAreTold ==
  ASSUME NEW notes \in Seq(Notes), NEW severity
  PROVE  /\ DOMAIN SeveritiesOf(notes) = DOMAIN notes
         /\ Contains(SeveritiesOf(notes), severity) <=> Tells(notes, {severity})
         /\ {SeveritiesOf(notes)[i] : i \in DOMAIN SeveritiesOf(notes)}
              = {notes[i].severity : i \in DOMAIN notes}
<1> DEFINE severities == SeveritiesOf(notes)
           n == Len(notes)
<1>1. /\ DOMAIN severities = 1 .. n /\ DOMAIN notes = 1 .. n /\ n \in Nat
      /\ \A i \in 1 .. n : severities[i] = notes[i].severity
  BY DEF SeveritiesOf
<1>2. Len(severities) = n
  BY <1>1 DEF SeveritiesOf
<1> HIDE DEF severities, n
<1>3. Contains(severities, severity) <=> Tells(notes, {severity})
  BY <1>1, <1>2 DEF Contains, Tells
<1> QED BY <1>1, <1>3 DEF severities

LEMMA NoRecordIsRefused ==
  ASSUME IsRead
  PROVE  /\ Len(file.lines) \in Nat /\ DOMAIN file.lines = 1 .. Len(file.lines)
         /\ IsTold(timeline, Len(file.lines), file.lines, UsesFallback(file.bytes))
         /\ HasEvents(timeline, Len(file.lines), file.lines)
         /\ IsDocument(timeline, file.lines, timeline.rate, timeline.mode)
         /\ \A i \in DOMAIN file.lines :
              file.lines[i].kind = "event" => ~ Rejected(file.lines[i], timeline.rate, timeline.mode)
         /\ \A i \in DOMAIN file.lines :
              Accepted(timeline, file.lines, i) <=> i \in EventRecords
<1>1. Len(file.lines) \in Nat /\ DOMAIN file.lines = 1 .. Len(file.lines)
  <2>1. file.lines \in Seq(ToSet(file.lines))
    BY ConversionAssumption DEF IsRead
  <2> DEFINE S == ToSet(file.lines)
             lines == file.lines
  <2> HIDE DEF S, lines
  <2>2. lines \in Seq(S)
    BY <2>1 DEF S, lines
  <2>3. Len(lines) \in Nat /\ DOMAIN lines = 1 .. Len(lines)
    BY <2>2
  <2> QED BY <2>3 DEF lines
<1>2. /\ IsTold(timeline, Len(file.lines), file.lines, UsesFallback(file.bytes))
      /\ HasEvents(timeline, Len(file.lines), file.lines)
      /\ IsDocument(timeline, file.lines, timeline.rate, timeline.mode)
  BY DEF IsRead, IsReading, ReadSoFar
<1>3. ~ Tells(timeline.diagnostics, {"error"})
  <2>1. timeline.diagnostics \in Seq(Notes)
    BY <1>2 DEF IsDocument
  <2> QED BY <2>1, SeveritiesAreTold DEF IsRead
<1>4. \A i \in DOMAIN file.lines :
        file.lines[i].kind = "event" => ~ Rejected(file.lines[i], timeline.rate, timeline.mode)
  BY <1>1, <1>2, <1>3 DEF IsTold
<1> QED BY <1>1, <1>2, <1>4 DEF Accepted, EventRecords

LEMMA CommentsAreRead ==
  ASSUME IsRead, NEW number
  PROVE  /\ CommentsSoFar(timeline, Len(file.lines), file.lines, number) = CommentsOf(number)
         /\ ClipNamesSoFar(timeline, Len(file.lines), file.lines, number) = ClipNamesOf(number)
<1>1. /\ DOMAIN file.lines = 1 .. Len(file.lines)
      /\ \A i \in DOMAIN file.lines : Accepted(timeline, file.lines, i) <=> i \in EventRecords
      /\ EventRecords \subseteq DOMAIN file.lines
  BY NoRecordIsRefused DEF EventRecords
<1>2. CommentsSoFar(timeline, Len(file.lines), file.lines, number) = CommentsOf(number)
  BY <1>1 DEF CommentsSoFar, CommentsOf
<1> QED BY <1>2 DEF ClipNamesSoFar, ClipNamesOf

LEMMA HeadIsLeast ==
  ASSUME NEW set \in SUBSET Nat, NEW numbers \in Seq(Nat), Lists(numbers, set)
  PROVE  /\ numbers = <<>> <=> set = {}
         /\ numbers # <<>> => Head(numbers) = Min(set)
<1> DEFINE n == Len(numbers)
<1>1. n \in Nat /\ DOMAIN numbers = 1 .. n /\ \A i \in 1 .. n : numbers[i] \in Nat
  OBVIOUS
<1>2. /\ {numbers[i] : i \in 1 .. n} = set
      /\ \A i, j \in 1 .. n : i < j => numbers[i] < numbers[j]
  BY <1>1 DEF Lists, ToSet
<1>3. numbers = <<>> <=> set = {}
  <2>1. numbers = <<>> <=> n = 0
    OBVIOUS
  <2>2. n = 0 => set = {}
    BY <1>2
  <2>3. n # 0 => numbers[1] \in set
    BY <1>1, <1>2
  <2> QED BY <2>1, <2>2, <2>3
<1>4. ASSUME numbers # <<>> PROVE Head(numbers) = Min(set)
  <2>1. n >= 1 /\ Head(numbers) = numbers[1]
    BY <1>4
  <2> DEFINE least == numbers[1]
  <2>2. least \in set /\ \A y \in set : least <= y
    BY <1>1, <1>2, <2>1
  <2> HIDE DEF least
  <2>3. \E x \in set : \A y \in set : x <= y
    BY <2>2
  <2> DEFINE chosen == CHOOSE x \in set : \A y \in set : x <= y
  <2>4. chosen \in set /\ \A y \in set : chosen <= y
    BY <2>3
  <2>5. Min(set) = chosen
    BY DEF Min
  <2> HIDE DEF chosen
  <2>6. chosen = least
    BY <2>2, <2>4
  <2> QED BY <2>1, <2>5, <2>6 DEF least
<1> QED BY <1>3, <1>4

LEMMA EventIsRead ==
  ASSUME IsRead, NEW k \in DOMAIN timeline.events
  PROVE  /\ timeline.events[k].line \in EventRecords
         /\ timeline.events[k].line \in Nat
         /\ timeline.events[k].record = file.lines[timeline.events[k].line].record
         /\ IsRange(timeline.events[k].record, timeline.rate, timeline.mode)
         /\ Lists(timeline.events[k].comments, CommentsOf(timeline.events[k].line))
         /\ timeline.events[k].comments \in Seq(Nat)
         /\ ClipName(timeline.events[k])
              = IF ClipNamesOf(timeline.events[k].line) = {} THEN None
                ELSE Min(ClipNamesOf(timeline.events[k].line))
         /\ ClipName(timeline.events[k]) \in Nat \union {None}
<1> DEFINE event == timeline.events[k]
           n == Len(file.lines)
           number == event.line
<1>1. /\ n \in Nat /\ DOMAIN file.lines = 1 .. n
      /\ HasEvents(timeline, n, file.lines)
      /\ IsDocument(timeline, file.lines, timeline.rate, timeline.mode)
      /\ \A i \in DOMAIN file.lines : Accepted(timeline, file.lines, i) <=> i \in EventRecords
  BY NoRecordIsRefused
<1>2. /\ event.line \in 1 .. n /\ Accepted(timeline, file.lines, event.line)
      /\ event.record = file.lines[event.line].record
      /\ Lists(event.comments, CommentsSoFar(timeline, n, file.lines, event.line))
      /\ Lists(event.clipNames, ClipNamesSoFar(timeline, n, file.lines, event.line))
  BY <1>1 DEF HasEvents
<1>3. event.comments \in Seq(Nat) /\ event.clipNames \in Seq(Nat)
  <2>1. event \in EventsOf(file.lines)
    BY <1>1 DEF IsDocument
  <2> HIDE DEF event
  <2> QED BY <2>1 DEF EventsOf
<1>4. IsRange(event.record, timeline.rate, timeline.mode)
  BY <1>2 DEF Accepted, Rejected
<1>5. /\ Lists(event.comments, CommentsOf(number)) /\ Lists(event.clipNames, ClipNamesOf(number))
  BY <1>2, CommentsAreRead
<1>6. ClipNamesOf(number) \in SUBSET Nat
  BY <1>1 DEF ClipNamesOf, CommentsOf
<1>7. number \in EventRecords /\ number \in Nat
  BY <1>1, <1>2
<1> HIDE DEF event, number
<1> DEFINE names == event.clipNames
           set == ClipNamesOf(number)
<1> HIDE DEF names, set
<1>8. (names = <<>> <=> set = {}) /\ (names # <<>> => Head(names) = Min(set))
  BY <1>3, <1>5, <1>6, HeadIsLeast DEF names, set
<1>9. ClipName(event) = IF set = {} THEN None ELSE Min(set)
  BY <1>8 DEF ClipName, names
<1>10. ClipName(event) \in Nat \union {None}
  <2>1. names # <<>> => Head(names) \in Nat
    BY <1>3 DEF names
  <2> QED BY <2>1 DEF ClipName, names
<1> QED BY <1>2, <1>3, <1>4, <1>5, <1>7, <1>9, <1>10 DEF event, number, set

LEMMA RowIsRead ==
  ASSUME IsRead, Pictures, NEW k \in DOMAIN timeline.events, k \in Nat
  PROVE  /\ RowOf(timeline, images, k) \in Rows
         /\ RowOf(timeline, images, k).line = timeline.events[k].line
         /\ RowIsTrue(RowOf(timeline, images, k), k)
<1> DEFINE event == timeline.events[k]
           row == RowOf(timeline, images, k)
           duration == Duration(event.record, timeline.rate, timeline.mode)
           frames == DurationInFrames(event.record, timeline.rate, timeline.mode)
           image == IF k \in images THEN k ELSE None
<1>1. /\ row.line = event.line /\ row.duration = duration /\ row.durationFrames = frames
      /\ row.clipName = ClipName(event) /\ row.comments = event.comments /\ row.image = image
      /\ row = [line |-> event.line, duration |-> duration, durationFrames |-> frames,
                clipName |-> ClipName(event), comments |-> event.comments, image |-> image]
  BY DEF RowOf
<1>2. /\ event.line \in Nat
      /\ event.record = file.lines[event.line].record
      /\ IsRange(event.record, timeline.rate, timeline.mode)
      /\ Lists(event.comments, CommentsOf(event.line))
      /\ event.comments \in Seq(Nat)
      /\ ClipName(event) = IF ClipNamesOf(event.line) = {} THEN None
                           ELSE Min(ClipNamesOf(event.line))
      /\ ClipName(event) \in Nat \union {None}
  BY EventIsRead
<1>3. timeline.mode \in Modes
  BY DEF IsRead, IsReading
<1>4. /\ duration \in Labels /\ frames \in Int
      /\ IsTimecode(duration, timeline.rate, timeline.mode)
      /\ ToFrameCount(duration, timeline.rate, timeline.mode) = frames
  BY <1>2, <1>3, DurationsAreExact
<1>5. image = IF UsesInitialFrames THEN k ELSE None
  BY DEF Pictures
<1>6. image \in Nat \union {None}
  OBVIOUS
<1> DEFINE numbers == Seq(Nat)
<1> HIDE DEF row, duration, frames, image, event, numbers
<1>7. row \in Rows
  <2>1. Rows = [line : Nat, duration : Labels, durationFrames : Int,
                clipName : Nat \union {None}, comments : numbers,
                image : Nat \union {None}]
    BY DEF Rows, Labels, numbers
  <2>2. event.comments \in numbers
    BY <1>2 DEF numbers
  <2> QED BY <1>1, <1>2, <1>4, <1>6, <2>1, <2>2
<1>8. RowIsTrue(row, k)
  BY <1>1, <1>2, <1>4, <1>5 DEF RowIsTrue, frames, event
<1> QED BY <1>1, <1>7, <1>8 DEF row, event

(* A workbook all of whose rows were written shows the file.               *)
LEMMA BookIsRead ==
  ASSUME IsRead, Pictures, NEW book \in Workbooks,
         DOMAIN book.rows = DOMAIN timeline.events,
         \A k \in DOMAIN book.rows : book.rows[k] = RowOf(timeline, images, k),
         book.timelineSheet = command.timelineSheet,
         book.diagnosticsSheet = command.diagnosticsSheet
  PROVE  BookIsTrue(book)
<1> DEFINE rows == book.rows
           numbers == [k \in DOMAIN rows |-> rows[k].line]
           n == Len(file.lines)
<1>1. DOMAIN rows \subseteq Nat
  <2>1. book.rows \in Seq(Rows \union {None})
    BY DEF Workbooks
  <2> DEFINE S == Rows \union {None}
  <2> HIDE DEF rows, S
  <2>2. rows \in Seq(S)
    BY <2>1 DEF rows, S
  <2> QED BY <2>2
<1>2. \A k \in DOMAIN rows :
        /\ rows[k] \in Rows /\ rows[k].line = timeline.events[k].line
        /\ RowIsTrue(rows[k], k)
  <2> SUFFICES ASSUME NEW k \in DOMAIN rows
               PROVE  /\ rows[k] \in Rows /\ rows[k].line = timeline.events[k].line
                      /\ RowIsTrue(rows[k], k)
    OBVIOUS
  <2>1. /\ RowOf(timeline, images, k) \in Rows
        /\ RowOf(timeline, images, k).line = timeline.events[k].line
        /\ RowIsTrue(RowOf(timeline, images, k), k)
    BY <1>1, RowIsRead
  <2>2. rows[k] = RowOf(timeline, images, k)
    OBVIOUS
  <2> HIDE DEF rows
  <2> QED BY <2>1, <2>2, Zenon
<1>3. None \notin ToSet(rows)
  BY <1>2, ConversionAssumption DEF ToSet
<1>4. Lists(numbers, EventRecords)
  <2>1. /\ HasEvents(timeline, n, file.lines) /\ DOMAIN file.lines = 1 .. n
        /\ \A i \in DOMAIN file.lines : Accepted(timeline, file.lines, i) <=> i \in EventRecords
        /\ EventRecords \subseteq DOMAIN file.lines
    BY NoRecordIsRefused DEF EventRecords
  <2>2. /\ \A k \in DOMAIN rows : timeline.events[k].line \in EventRecords
        /\ \A i, j \in DOMAIN rows : i < j => timeline.events[i].line < timeline.events[j].line
        /\ \A j \in EventRecords : \E i \in DOMAIN rows : timeline.events[i].line = j
    BY <2>1, EventIsRead DEF HasEvents
  <2>3. DOMAIN numbers = DOMAIN rows
        /\ \A k \in DOMAIN rows : numbers[k] = timeline.events[k].line
    BY <1>2
  <2> HIDE DEF numbers, rows
  <2>4. {numbers[k] : k \in DOMAIN numbers} = EventRecords
    BY <2>2, <2>3
  <2> QED BY <2>2, <2>3, <2>4 DEF Lists, ToSet
<1> QED BY <1>2, <1>3, <1>4 DEF BookIsTrue

-----------------------------------------------------------------------------
(* The invariant.  While the command works, the document is the file's,    *)
(* the rows are the document's as long as no cell was refused, and the     *)
(* destination is not this program's; at the end both outcomes hold.       *)
Working == {"frames", "workbook", "eventsSheet", "close", "publish"}

ReadInv ==
  /\ stage \in {"command", "read"} => diagnostics = <<>>
  /\ stage \in Working => IsRead

WorkbookInv ==
  /\ command \in Commands
  /\ workbook \in Workbooks
  /\ stage \in {"command", "read", "frames", "workbook"} => workbook.rows = <<>>
  /\ stage \in {"workbook", "eventsSheet", "close", "publish"} => Pictures
  /\ stage \in {"workbook", "eventsSheet", "close", "publish"} => RowsAreWritten
  /\ stage = "eventsSheet" => Len(workbook.rows) <= Len(timeline.events)
  /\ stage \in {"close", "publish"} =>
       /\ Len(workbook.rows) = Len(timeline.events)
       /\ status.error = None =>
            /\ workbook.timelineSheet = command.timelineSheet
            /\ workbook.diagnosticsSheet = command.diagnosticsSheet
  /\ stage = "publish" => status.error = None

OutcomeInv ==
  IF stage = "done"
  THEN WorkbookHoldsTheTimeline /\ ExitCodeTellsTheOutcome
  ELSE exit = None /\ destination \in {Missing, Foreign}

ConversionInv == ReadInv /\ WorkbookInv /\ OutcomeInv

LEMMA WorkbookIsNew == EmptyWorkbook \in Workbooks /\ EmptyWorkbook.rows = <<>>
<1> DEFINE S == Rows \union {None}
<1>1. <<>> \in Seq(S)
  OBVIOUS
<1> HIDE DEF S
<1> QED BY <1>1 DEF EmptyWorkbook, Workbooks, S

LEMMA WorkbookIsOurs ==
  ASSUME NEW book \in Workbooks
  PROVE  book \notin {Missing, Foreign} /\ Missing # Foreign
<1>1. /\ Missing.content = "missing" /\ Foreign.content = "foreign"
      /\ book.content = "workbook"
  BY DEF Missing, Foreign, Workbooks
<1> QED BY <1>1

LEMMA ConversionStarts == Init => ConversionInv
<1> SUFFICES ASSUME Init PROVE ConversionInv
  OBVIOUS
<1>1. workbook \in Workbooks /\ workbook.rows = <<>>
  BY WorkbookIsNew DEF Init
<1> QED BY <1>1 DEF Init, ConversionInv, ReadInv, WorkbookInv, OutcomeInv, Working

(* A command that ends without a workbook.                                 *)
LEMMA EndsWithout ==
  ASSUME ConversionInv, stage # "done", stage' = "done", destination' = destination,
         UNCHANGED <<command, images, workbook>>,
         \/ exit' \in {2, 5}
         \/ exit' = 3 /\ file' # None /\ (timeline' = None \/ "error" \in Severities')
         \/ exit' = 4 /\ destination = Foreign /\ ~ command.force
  PROVE  ConversionInv'
<1>1. destination' \in {Missing, Foreign} /\ (exit' = 4 => destination' = Foreign)
  BY DEF ConversionInv, OutcomeInv
<1>2. exit' \notin {0, 1}
  OBVIOUS
<1>3. WorkbookHoldsTheTimeline'
  BY <1>1 DEF WorkbookHoldsTheTimeline, Missing, Foreign
<1>4. ExitCodeTellsTheOutcome'
  <2>1. ~ (exit' \in {0, 1}) /\ ~ (exit' = 0)
    BY <1>2
  <2>2. ~ (destination' \notin {Missing, Foreign})
    BY <1>1
  <2>3. exit' = 4 => destination' = Foreign /\ ~ command'.force
    BY <1>1
  <2>4. exit' = 3 => file' # None /\ (timeline' = None \/ "error" \in Severities')
    OBVIOUS
  <2> QED BY <2>1, <2>2, <2>3, <2>4 DEF ExitCodeTellsTheOutcome, Missing, Foreign
<1>5. WorkbookInv'
  BY DEF ConversionInv, WorkbookInv, Workbooks
<1>6. ReadInv'
  BY DEF ReadInv, Working
<1> QED BY <1>3, <1>4, <1>5, <1>6 DEF ConversionInv, OutcomeInv

(* A step of the command that leaves what was read alone.                  *)
LEMMA ReadStays ==
  ASSUME IsRead, UNCHANGED <<file, timeline, diagnostics>>
  PROVE  IsRead'
  BY DEF IsRead

LEMMA StepsQuietly ==
  ASSUME ConversionInv, NEW next \in {"read", "workbook", "eventsSheet"}, stage' = next,
         stage # "done",
         UNCHANGED <<command, file, timeline, diagnostics, workbook, status, destination, exit>>,
         next \in Working => stage \in Working,
         stage \in {"command", "read", "frames", "workbook"},
         next = "read" => stage = "command",
         next \in {"workbook", "eventsSheet"} => Pictures'
  PROVE  ConversionInv'
<1>1. ReadInv'
  BY ReadStays DEF ConversionInv, ReadInv
<1>2. workbook.rows = <<>> /\ workbook' = workbook /\ timeline' = timeline
  BY DEF ConversionInv, WorkbookInv
<1>3. RowsAreWritten'
  BY <1>2 DEF RowsAreWritten
<1>4. next = "eventsSheet" => Len(workbook'.rows) <= Len(timeline'.events)
  <2> SUFFICES ASSUME next = "eventsSheet"
               PROVE  Len(workbook'.rows) <= Len(timeline'.events)
    OBVIOUS
  <2>1. IsRead
    BY DEF ConversionInv, ReadInv, Working
  <2>2. timeline.events \in Seq(EventsOf(file.lines))
    BY <2>1, NoRecordIsRefused DEF IsDocument
  <2>3. Len(timeline.events) \in Nat
    BY <2>2
  <2> QED BY <1>2, <2>3
<1>5. WorkbookInv'
  <2>1. next \notin {"close", "publish", "done", "command", "frames"}
    OBVIOUS
  <2> QED BY <1>2, <1>3, <1>4, <2>1 DEF ConversionInv, WorkbookInv
<1>6. OutcomeInv'
  BY DEF ConversionInv, OutcomeInv, Missing, Foreign
<1> QED BY <1>1, <1>5, <1>6 DEF ConversionInv

LEMMA ImportStep ==
  ASSUME ConversionInv, ImportDocument
  PROVE  ConversionInv'
<1>0. stage = "read"
  BY DEF ImportDocument
<1> PICK input \in Files :
      LET result == Imported(input)
          severities == SeveritiesOf(result.diagnostics)
      IN /\ file' = input
         /\ Reported(severities)
         /\ timeline' = IF result.available THEN result.document ELSE None
         /\ IF ~ result.available \/ Contains(severities, "error")
            THEN Exit(3)
            ELSE stage' = "frames" /\ UNCHANGED exit
  BY DEF ImportDocument
<1> DEFINE result == Imported(input)
           severities == SeveritiesOf(result.diagnostics)
<1>1. input # None /\ file' = input /\ diagnostics = <<>>
  BY <1>0, ConversionAssumption DEF ConversionInv, ReadInv
<1>2. UNCHANGED <<command, images, workbook, status, destination>>
  BY DEF ImportDocument
<1>3. CASE ~ result.available
  <2>1. timeline' = None /\ stage' = "done" /\ exit' = 3
    BY <1>3 DEF Exit
  <2> QED BY <1>0, <1>1, <1>2, <2>1, EndsWithout
<1>4. CASE result.available
  <2>0. result = Import(input, command.rate) /\ Import(input, command.rate).available
    <3>1. result = Import(input, command.rate)
      BY <1>4 DEF Imported, NoDocument
    <3> QED BY <1>4, <3>1
  <2>1. IsReading(result.document, input) /\ result.diagnostics = result.document.diagnostics
    BY <2>0, ImportReads
  <2>2. result.diagnostics \in Seq(Notes)
    BY <2>1 DEF IsReading, ReadSoFar, IsDocument
  <2>3. timeline' = result.document
    BY <1>4
  <2>4. /\ diagnostics' = severities /\ DOMAIN severities = DOMAIN result.diagnostics
        /\ Contains(severities, "error") <=> Tells(result.diagnostics, {"error"})
        /\ {severities[i] : i \in DOMAIN severities}
             = {result.diagnostics[i].severity : i \in DOMAIN result.diagnostics}
    <3>1. severities \in Seq({"warning", "error"})
      <4> DEFINE notes == result.diagnostics
      <4> HIDE DEF result
      <4>1. notes \in Seq(Notes)
        BY <2>2
      <4>2. \A note \in Notes : note.severity \in {"warning", "error"}
        BY DEF Notes
      <4> QED BY <4>1, <4>2 DEF SeveritiesOf
    <3>2. diagnostics' = <<>> \o severities
      BY <1>1 DEF Reported
    <3> DEFINE S == {"warning", "error"}
    <3> HIDE DEF severities, S
    <3>3. severities \in Seq(S)
      BY <3>1 DEF S
    <3>4. diagnostics' = severities
      BY <3>2, <3>3
    <3> QED BY <2>2, <3>4, SeveritiesAreTold DEF severities
  <2> HIDE DEF severities, result
  <2>5. CASE Contains(severities, "error")
    <3>1. stage' = "done" /\ exit' = 3
      BY <2>5 DEF Exit, severities, result
    <3>2. "error" \in Severities'
      <4>1. "error" \in {result.diagnostics[i].severity : i \in DOMAIN result.diagnostics}
        <5>1. Tells(result.diagnostics, {"error"})
          BY <2>4, <2>5
        <5> QED BY <5>1 DEF Tells
      <4>2. diagnostics' = severities
            /\ "error" \in {severities[i] : i \in DOMAIN severities}
        BY <2>4, <4>1
      <4> QED BY <4>2 DEF Severities
    <3> QED BY <1>0, <1>1, <1>2, <3>1, <3>2, EndsWithout
  <2>6. CASE ~ Contains(severities, "error")
    <3>1. stage' = "frames" /\ exit' = exit
      BY <1>4, <2>6 DEF severities, result
    <3>2. IsRead'
      <4>1. diagnostics' = SeveritiesOf(timeline'.diagnostics)
        BY <2>1, <2>3, <2>4 DEF severities
      <4>2. ~ Contains(diagnostics', "error")
        BY <2>4, <2>6
      <4>3. IsReading(timeline', file') /\ file' \in Files
        BY <1>1, <2>1, <2>3
      <4> QED BY <4>1, <4>2, <4>3 DEF IsRead
    <3>3. ReadInv'
      BY <3>1, <3>2 DEF ReadInv
    <3>4. WorkbookInv'
      BY <1>0, <1>2, <3>1 DEF ConversionInv, WorkbookInv
    <3>5. OutcomeInv'
      BY <1>0, <1>2, <3>1 DEF ConversionInv, OutcomeInv, Missing, Foreign
    <3> QED BY <3>3, <3>4, <3>5 DEF ConversionInv
  <2> QED BY <2>5, <2>6
<1> QED BY <1>3, <1>4

LEMMA WriteEventStep ==
  ASSUME ConversionInv, WriteEvent
  PROVE  ConversionInv'
<1> PICK failure \in Failures("events") :
      LET number == Len(workbook.rows) + 1
      IN /\ status' = Recorded(failure)
         /\ workbook' = [workbook EXCEPT !.rows = Append(@,
              IF failure = None THEN Row(timeline.events[number], number) ELSE None)]
  BY DEF WriteEvent
<1> DEFINE n == Len(workbook.rows)
           row == IF failure = None THEN Row(timeline.events[n + 1], n + 1) ELSE None
           rows == workbook.rows
           more == Append(rows, row)
           S == Rows \union {None}
<1>1. /\ stage = "eventsSheet" /\ stage' = stage /\ n < Len(timeline.events)
      /\ UNCHANGED <<command, file, timeline, diagnostics, images, destination, exit>>
  BY DEF WriteEvent
<1>2. IsRead /\ Pictures /\ workbook \in Workbooks /\ command \in Commands /\ RowsAreWritten
  BY <1>1 DEF ConversionInv, ReadInv, WorkbookInv, Working
<1>3. Len(timeline.events) \in Nat /\ DOMAIN timeline.events = 1 .. Len(timeline.events)
  <2>1. timeline.events \in Seq(EventsOf(file.lines))
    BY <1>2, NoRecordIsRefused DEF IsDocument
  <2> QED BY <2>1
<1>4. rows \in Seq(S)
  BY <1>2 DEF Workbooks
<1>5. n \in Nat /\ DOMAIN rows = 1 .. n
  <2> HIDE DEF S
  <2> QED BY <1>4
<1>6. n + 1 \in DOMAIN timeline.events
  BY <1>1, <1>3, <1>5
<1>7. Row(timeline.events[n + 1], n + 1) = RowOf(timeline, images, n + 1)
  BY DEF Row, RowOf
<1>8. row \in S
  BY <1>2, <1>5, <1>6, <1>7, RowIsRead
<1> HIDE DEF S
<1>9. /\ more \in Seq(S) /\ Len(more) = n + 1 /\ DOMAIN more = 1 .. n + 1
      /\ more[n + 1] = row /\ \A k \in 1 .. n : more[k] = rows[k]
  <2> HIDE DEF row, rows
  <2>1. rows \in Seq(S) /\ n = Len(rows)
    BY <1>4 DEF rows
  <2> HIDE DEF n
  <2> QED BY <1>8, <2>1
<1>10. workbook' \in Workbooks /\ workbook'.rows = more
       /\ workbook'.timelineSheet = workbook.timelineSheet
  <2>1. workbook' = [workbook EXCEPT !.rows = more]
    OBVIOUS
  <2> HIDE DEF more
  <2> QED BY <1>2, <1>9, <2>1 DEF Workbooks, S
<1>11. status'.error = IF status.error = None THEN failure ELSE status.error
  BY DEF Recorded
<1>12. RowsAreWritten'
  <2> SUFFICES ASSUME status'.error = None, NEW k \in 1 .. n + 1
               PROVE  more[k] = RowOf(timeline, images, k)
    BY <1>1, <1>9, <1>10 DEF RowsAreWritten
  <2>1. status.error = None /\ failure = None
    BY <1>11
  <2>2. CASE k = n + 1
    BY <1>7, <1>9, <2>1, <2>2
  <2>3. CASE k \in 1 .. n
    BY <1>2, <1>5, <1>9, <2>1, <2>3 DEF RowsAreWritten
  <2> QED BY <1>5, <2>2, <2>3
<1>13. Len(workbook'.rows) <= Len(timeline'.events)
  BY <1>1, <1>3, <1>5, <1>9, <1>10
<1>14. Pictures'
  BY <1>1, <1>2 DEF Pictures, UsesInitialFrames
<1>15. WorkbookInv'
  BY <1>1, <1>2, <1>10, <1>12, <1>13, <1>14 DEF WorkbookInv
<1>16. ReadInv' /\ OutcomeInv'
  BY <1>1, <1>2, ReadStays DEF ConversionInv, ReadInv, OutcomeInv, Missing, Foreign
<1> QED BY <1>15, <1>16 DEF ConversionInv

LEMMA WriteOtherSheetsStep ==
  ASSUME ConversionInv, WriteOtherSheets
  PROVE  ConversionInv'
<1> PICK failure \in Failures("other") :
      /\ status' = Recorded(failure)
      /\ workbook' = [workbook EXCEPT
           !.timelineSheet = command.timelineSheet /\ failure = None,
           !.diagnosticsSheet = command.diagnosticsSheet /\ failure = None]
  BY DEF WriteOtherSheets
<1>1. /\ stage = "eventsSheet" /\ stage' = "close"
      /\ Len(workbook.rows) = Len(timeline.events)
      /\ UNCHANGED <<command, file, timeline, diagnostics, images, destination, exit>>
  BY DEF WriteOtherSheets
<1>2. IsRead /\ Pictures /\ workbook \in Workbooks /\ command \in Commands /\ RowsAreWritten
  BY <1>1 DEF ConversionInv, ReadInv, WorkbookInv, Working
<1>3. command.timelineSheet \in BOOLEAN /\ command.diagnosticsSheet \in BOOLEAN
  BY <1>2, ConversionAssumption
<1> DEFINE first == command.timelineSheet /\ failure = None
           second == command.diagnosticsSheet /\ failure = None
<1>4. /\ first \in BOOLEAN /\ second \in BOOLEAN
      /\ failure = None => first = command.timelineSheet /\ second = command.diagnosticsSheet
  BY <1>3
<1> HIDE DEF first, second
<1>5. /\ workbook' \in Workbooks /\ workbook'.rows = workbook.rows
      /\ workbook'.timelineSheet = first /\ workbook'.diagnosticsSheet = second
  <2>1. workbook' = [workbook EXCEPT !.timelineSheet = first, !.diagnosticsSheet = second]
    BY DEF first, second
  <2> QED BY <1>2, <1>4, <2>1 DEF Workbooks
<1>6. status'.error = IF status.error = None THEN failure ELSE status.error
  BY DEF Recorded
<1>7. status'.error = None => status.error = None /\ failure = None
  BY <1>6
<1>8. RowsAreWritten'
  BY <1>1, <1>2, <1>5, <1>7 DEF RowsAreWritten
<1>9. Pictures'
  BY <1>1, <1>2 DEF Pictures, UsesInitialFrames
<1>10. WorkbookInv'
  BY <1>1, <1>2, <1>4, <1>5, <1>7, <1>8, <1>9 DEF WorkbookInv
<1>11. ReadInv' /\ OutcomeInv'
  BY <1>1, <1>2, ReadStays DEF ConversionInv, ReadInv, OutcomeInv, Missing, Foreign
<1> QED BY <1>10, <1>11 DEF ConversionInv

LEMMA CloseWorkbookStep ==
  ASSUME ConversionInv, CloseWorkbook
  PROVE  ConversionInv'
<1> PICK failure \in {None, "close"} :
      LET final == Recorded(failure)
      IN /\ status' = final
         /\ IF final.error = None
            THEN stage' = "publish" /\ UNCHANGED <<diagnostics, exit>>
            ELSE Reported(<<"error">>) /\ Exit(5)
  BY DEF CloseWorkbook
<1>1. /\ stage = "close"
      /\ UNCHANGED <<command, file, timeline, images, workbook, destination>>
  BY DEF CloseWorkbook
<1>2. status'.error = IF status.error = None THEN failure ELSE status.error
  BY DEF Recorded
<1>3. CASE status'.error = None
  <2>1. stage' = "publish" /\ diagnostics' = diagnostics /\ exit' = exit /\ status.error = None
    BY <1>2, <1>3
  <2>2. /\ IsRead /\ Pictures /\ workbook \in Workbooks /\ command \in Commands
        /\ RowsAreWritten /\ Len(workbook.rows) = Len(timeline.events)
        /\ workbook.timelineSheet = command.timelineSheet
        /\ workbook.diagnosticsSheet = command.diagnosticsSheet
    BY <1>1, <2>1 DEF ConversionInv, ReadInv, WorkbookInv, Working
  <2>3. RowsAreWritten'
    BY <1>1, <2>1, <2>2 DEF RowsAreWritten
  <2>4. Pictures'
    BY <1>1, <2>2 DEF Pictures, UsesInitialFrames
  <2>5. WorkbookInv'
    BY <1>1, <1>3, <2>1, <2>2, <2>3, <2>4 DEF WorkbookInv
  <2>6. ReadInv' /\ OutcomeInv'
    BY <1>1, <2>1, <2>2, ReadStays DEF ConversionInv, ReadInv, OutcomeInv, Missing, Foreign
  <2> QED BY <2>5, <2>6 DEF ConversionInv
<1>4. CASE status'.error # None
  <2>1. stage' = "done" /\ exit' = 5
    BY <1>4 DEF Exit
  <2> QED BY <1>1, <2>1, EndsWithout
<1> QED BY <1>3, <1>4

(* What a row is held against stays as long as the file does.              *)
LEMMA FileStays ==
  ASSUME UNCHANGED <<command, file, timeline>>
  PROVE  /\ EventRecords' = EventRecords
         /\ \A row, k : RowIsTrue(row, k) => RowIsTrue(row, k)'
<1>1. EventRecords' = EventRecords
  BY DEF EventRecords
<1>2. \A number : CommentsOf(number)' = CommentsOf(number)
  BY <1>1 DEF CommentsOf
<1>3. \A number : ClipNamesOf(number)' = ClipNamesOf(number)
  BY <1>2 DEF ClipNamesOf
<1>4. ASSUME NEW row, NEW k, RowIsTrue(row, k) PROVE RowIsTrue(row, k)'
  <2> DEFINE frames == DurationInFrames(file.lines[row.line].record,
                                        timeline.rate, timeline.mode)
  <2>1. frames' = frames
    OBVIOUS
  <2>2. CommentsOf(row.line)' = CommentsOf(row.line)
        /\ ClipNamesOf(row.line)' = ClipNamesOf(row.line)
    BY <1>2, <1>3
  <2>3. UsesInitialFrames' <=> UsesInitialFrames
    BY DEF UsesInitialFrames
  <2> QED BY <1>4, <2>1, <2>2, <2>3 DEF RowIsTrue
<1> QED BY <1>1, <1>4

LEMMA PublishStep ==
  ASSUME ConversionInv, Publish
  PROVE  ConversionInv'
<1> DEFINE n == Len(file.lines)
<1>1. /\ stage = "publish" /\ stage' = "done" /\ destination' = workbook /\ exit' = Completion
      /\ UNCHANGED <<command, file, timeline, diagnostics, images, workbook, status>>
  BY DEF Publish, Exit
<1>2. /\ IsRead /\ Pictures /\ workbook \in Workbooks /\ command \in Commands
      /\ RowsAreWritten /\ Len(workbook.rows) = Len(timeline.events)
      /\ workbook.timelineSheet = command.timelineSheet
      /\ workbook.diagnosticsSheet = command.diagnosticsSheet
      /\ status.error = None
  BY <1>1 DEF ConversionInv, ReadInv, WorkbookInv, Working
<1>3. DOMAIN workbook.rows = DOMAIN timeline.events
  <2>1. timeline.events \in Seq(EventsOf(file.lines))
    BY <1>2, NoRecordIsRefused DEF IsDocument
  <2>2. workbook.rows \in Seq(Rows \union {None})
    BY <1>2 DEF Workbooks
  <2>3. DOMAIN timeline.events = 1 .. Len(timeline.events)
    BY <2>1
  <2> DEFINE S == Rows \union {None}
             rows == workbook.rows
  <2> HIDE DEF S, rows
  <2>4. rows \in Seq(S)
    BY <2>2 DEF S, rows
  <2>5. DOMAIN rows = 1 .. Len(rows)
    BY <2>4
  <2> QED BY <1>2, <2>3, <2>5 DEF rows
<1>4. BookIsTrue(workbook)
  BY <1>2, <1>3, BookIsRead DEF RowsAreWritten
<1>5. BookIsTrue(workbook)'
  <2>1. /\ EventRecords' = EventRecords
        /\ \A row, k : RowIsTrue(row, k) => RowIsTrue(row, k)'
    BY <1>1, FileStays
  <2> QED BY <1>1, <1>4, <2>1 DEF BookIsTrue
<1>6. WorkbookHoldsTheTimeline'
  BY <1>1, <1>5 DEF WorkbookHoldsTheTimeline, BookIsTrue
<1>7. /\ n \in Nat /\ DOMAIN file.lines = 1 .. n
      /\ IsTold(timeline, n, file.lines, UsesFallback(file.bytes))
      /\ \A i \in DOMAIN file.lines :
           file.lines[i].kind = "event" => ~ Rejected(file.lines[i], timeline.rate, timeline.mode)
  BY <1>2, NoRecordIsRefused
<1>8. /\ "error" \notin Severities
      /\ Tells(timeline.diagnostics, Problems) => "warning" \in Severities
  <2>1. timeline.diagnostics \in Seq(Notes) /\ diagnostics = SeveritiesOf(timeline.diagnostics)
    BY <1>2, NoRecordIsRefused DEF IsDocument, IsRead
  <2>2. Severities = {timeline.diagnostics[i].severity : i \in DOMAIN timeline.diagnostics}
    BY <2>1, SeveritiesAreTold DEF Severities
  <2>3. ~ Tells(timeline.diagnostics, {"error"})
    BY <1>2, <2>1, SeveritiesAreTold DEF IsRead
  <2> QED BY <2>2, <2>3 DEF Tells, Problems
<1>9. exit' = IF "warning" \in Severities THEN 1 ELSE 0
  BY <1>1, <1>8 DEF Completion
<1>10. exit' = 0 => /\ ~ UsesFallback(file.bytes)
                   /\ \A i \in DOMAIN file.lines : IsUnderstood(i)
  <2> SUFFICES ASSUME exit' = 0
               PROVE  /\ ~ UsesFallback(file.bytes)
                      /\ \A i \in DOMAIN file.lines : IsUnderstood(i)
    OBVIOUS
  <2>1. ~ Tells(timeline.diagnostics, Problems)
    BY <1>8, <1>9
  <2>2. ~ UsesFallback(file.bytes) /\ \A i \in DOMAIN file.lines : Understood(file.lines, i)
    BY <1>7, <2>1 DEF IsTold
  <2> QED BY <2>2 DEF Understood, IsUnderstood
<1>11. destination' \notin {Missing, Foreign}
  BY <1>1, <1>2, WorkbookIsOurs
<1>12. ExitCodeTellsTheOutcome'
  <2>1. exit' \in {0, 1} /\ exit' # 4 /\ exit' # 3
    BY <1>9
  <2>2. (\A i \in DOMAIN file.lines : IsUnderstood(i))
        => (\A i \in DOMAIN file.lines : IsUnderstood(i))'
    BY <1>1 DEF IsUnderstood
  <2> QED BY <1>1, <1>7, <1>10, <1>11, <2>1, <2>2
       DEF ExitCodeTellsTheOutcome, Missing, Foreign
<1>13. WorkbookInv' /\ ReadInv'
  <2>1. workbook' = workbook /\ command' = command
    BY <1>1
  <2> QED BY <1>1, <1>2, <2>1 DEF WorkbookInv, ReadInv, Working
<1> QED BY <1>1, <1>6, <1>12, <1>13 DEF ConversionInv, OutcomeInv

LEMMA OtherProgramStep ==
  ASSUME ConversionInv, OtherProgramActs
  PROVE  ConversionInv'
<1>1. /\ stage # "done" /\ destination' \in {Missing, Foreign}
      /\ UNCHANGED <<command, stage, file, timeline, diagnostics, images,
                     workbook, status, exit>>
  BY DEF OtherProgramActs
<1>2. OutcomeInv'
  BY <1>1 DEF ConversionInv, OutcomeInv, Missing, Foreign
<1>3. ReadInv'
  BY <1>1, ReadStays DEF ConversionInv, ReadInv
<1>4. WorkbookInv'
  BY <1>1 DEF ConversionInv, WorkbookInv, Pictures, UsesInitialFrames, RowsAreWritten
<1> QED BY <1>2, <1>3, <1>4 DEF ConversionInv

LEMMA NothingMoves ==
  ASSUME ConversionInv, UNCHANGED vars
  PROVE  ConversionInv'
<1>1. UNCHANGED <<command, stage, file, timeline, diagnostics, images, workbook,
                  status, destination, exit>>
  BY DEF vars
<1>2. ReadInv' /\ WorkbookInv'
  <2>1. ReadInv'
    BY <1>1, ReadStays DEF ConversionInv, ReadInv
  <2>2. WorkbookInv'
    BY <1>1 DEF ConversionInv, WorkbookInv, Pictures, UsesInitialFrames, RowsAreWritten
  <2> QED BY <2>1, <2>2
<1>3. CASE stage # "done"
  <2>1. OutcomeInv'
    BY <1>1, <1>3 DEF ConversionInv, OutcomeInv, Missing, Foreign
  <2> QED BY <1>2, <2>1 DEF ConversionInv
<1>4. CASE stage = "done"
  <2>1. WorkbookHoldsTheTimeline /\ ExitCodeTellsTheOutcome
    BY <1>4 DEF ConversionInv, OutcomeInv
  <2>2. /\ EventRecords' = EventRecords
        /\ \A row, k : RowIsTrue(row, k) => RowIsTrue(row, k)'
    BY <1>1, FileStays
  <2>3. WorkbookHoldsTheTimeline'
    BY <1>1, <2>1, <2>2 DEF WorkbookHoldsTheTimeline, Missing, Foreign
  <2>4. (\A i \in DOMAIN file.lines : IsUnderstood(i))
        => (\A i \in DOMAIN file.lines : IsUnderstood(i))'
    BY <1>1 DEF IsUnderstood
  <2>5. Severities' = Severities
    BY <1>1 DEF Severities
  <2>6. ExitCodeTellsTheOutcome'
    BY <1>1, <2>1, <2>4, <2>5 DEF ExitCodeTellsTheOutcome, Missing, Foreign
  <2> QED BY <1>1, <1>2, <1>4, <2>3, <2>6 DEF ConversionInv, OutcomeInv
<1> QED BY <1>3, <1>4

LEMMA ConversionStep == ConversionInv /\ [Next]_vars => ConversionInv'
<1> SUFFICES ASSUME ConversionInv, [Next]_vars PROVE ConversionInv'
  OBVIOUS
<1>1. CASE RefuseCommand
  BY <1>1, EndsWithout DEF RefuseCommand, Exit
<1>2. CASE AcceptCommand
  BY <1>2, StepsQuietly DEF AcceptCommand, Working
<1>3. CASE CannotRead
  BY <1>3, EndsWithout DEF CannotRead, Exit
<1>4. CASE ImportDocument
  BY <1>4, ImportStep
<1>5. CASE ExtractFrames
  <2>1. /\ stage = "frames" /\ stage' = "workbook"
        /\ UNCHANGED <<command, file, timeline, diagnostics, workbook, status,
                       destination, exit>>
        /\ images' = IF UsesInitialFrames THEN DOMAIN timeline.events ELSE {}
    BY <1>5 DEF ExtractFrames
  <2>2. Pictures'
    BY <2>1 DEF Pictures, UsesInitialFrames
  <2> QED BY <2>1, <2>2, StepsQuietly DEF Working
<1>6. CASE CannotExtractFrames
  BY <1>6, EndsWithout DEF CannotExtractFrames, Exit
<1>7. CASE CreateWorkbook
  <2>1. /\ stage = "workbook" /\ stage' = "eventsSheet"
        /\ UNCHANGED <<command, file, timeline, diagnostics, images, workbook,
                       status, destination, exit>>
    BY <1>7 DEF CreateWorkbook
  <2>2. Pictures
    BY <2>1 DEF ConversionInv, WorkbookInv
  <2>3. Pictures'
    BY <2>1, <2>2 DEF Pictures, UsesInitialFrames
  <2> QED BY <2>1, <2>3, StepsQuietly DEF Working
<1>8. CASE CannotCreateWorkbook
  BY <1>8, EndsWithout DEF CannotCreateWorkbook, Exit
<1>9. CASE WriteEvent
  BY <1>9, WriteEventStep
<1>10. CASE WriteOtherSheets
  BY <1>10, WriteOtherSheetsStep
<1>11. CASE CloseWorkbook
  BY <1>11, CloseWorkbookStep
<1>12. CASE Publish
  BY <1>12, PublishStep
<1>13. CASE DestinationExists
  <2>1. /\ stage = "publish" /\ stage' = "done" /\ exit' = 4
        /\ ~ command.force /\ destination # Missing
        /\ UNCHANGED <<command, file, timeline, images, workbook, status, destination>>
    BY <1>13 DEF DestinationExists, Exit, MayReplace
  <2>2. destination = Foreign
    BY <2>1 DEF ConversionInv, OutcomeInv
  <2> QED BY <2>1, <2>2, EndsWithout
<1>14. CASE CannotPublish
  BY <1>14, EndsWithout DEF CannotPublish, Exit
<1>15. CASE OtherProgramActs
  BY <1>15, OtherProgramStep
<1>16. CASE Ended
  BY <1>16, NothingMoves DEF Ended
<1>17. CASE UNCHANGED vars
  BY <1>17, NothingMoves
<1> QED BY <1>1, <1>2, <1>3, <1>4, <1>5, <1>6, <1>7, <1>8, <1>9, <1>10, <1>11, <1>12,
           <1>13, <1>14, <1>15, <1>16, <1>17 DEF Next

(* For every file, command and failure of the libraries: a workbook that   *)
(* is published has a true row for every event record of the file, in      *)
(* order, and the sheets that were asked for (XlsxExporter::Export after   *)
(* the import, and nothing else, feeds the artifact that is written).      *)
THEOREM WorkbooksAreTrue == Spec => []WorkbookHoldsTheTimeline
<1>1. ConversionInv => WorkbookHoldsTheTimeline
  BY DEF ConversionInv, OutcomeInv, WorkbookHoldsTheTimeline
<1> QED BY <1>1, ConversionStarts, ConversionStep, PTL DEF Spec

(* The exit code always tells the outcome: a workbook was written for 0    *)
(* and 1 only, for 0 every line was understood, no record was refused for  *)
(* either, 4 leaves the file of the other program, and 3 is an input that  *)
(* could not be used.                                                      *)
THEOREM ExitCodesAreTrue == Spec => []ExitCodeTellsTheOutcome
<1>1. ConversionInv => ExitCodeTellsTheOutcome
  BY DEF ConversionInv, OutcomeInv, ExitCodeTellsTheOutcome
<1> QED BY <1>1, ConversionStarts, ConversionStep, PTL DEF Spec
=============================================================================
