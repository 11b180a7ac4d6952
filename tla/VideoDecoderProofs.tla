-------------------------- MODULE VideoDecoderProofs --------------------------
(***************************************************************************)
(* VideoDecoder keeps the codec's protocol, is the row of pictures that    *)
(* FrameStream describes, and seeks no further than the frame asked for,   *)
(* also when RenderedVideo hands it on after an inspection.  What that     *)
(* inspection accepts shows the timeline, and it accepts every faithful    *)
(* render: counting the frames of a duration back from the ticks it was    *)
(* rounded to, at a rate that may itself be rounded, loses none.           *)
(***************************************************************************)
EXTENDS RenderedVideo, FiniteSetTheorems, WellFoundedInduction, TLAPS

-----------------------------------------------------------------------------
(* Rounding.  With b <= a, rounding f * a / b and the result times b / a   *)
(* gives f again: the half unit lost first is at most half a unit then.    *)

(* What \div by a positive number is. *)
LEMMA Quotient ==
    ASSUME NEW n \in Int, NEW d \in Int, d > 0
    PROVE  /\ n \div d \in Int
           /\ (n \div d) * d <= n
           /\ n < (n \div d) * d + d
<1>1. n = d * (n \div d) + (n % d) /\ n \div d \in Int /\ n % d \in 0 .. (d - 1)
  BY SMT
<1> DEFINE q == n \div d
<1>2. q * d = d * q
  BY <1>1, SMT
<1> HIDE DEF q
<1>3. n = d * q + (n % d) /\ n % d \in 0 .. (d - 1)
  BY <1>1 DEF q
<1> QED BY <1>1, <1>2, <1>3, SMT DEF q

(* The only number whose multiple is that near. *)
LEMMA QuotientIs ==
    ASSUME NEW n \in Int, NEW d \in Int, d > 0, NEW q \in Int,
           q * d <= n, n < q * d + d
    PROVE  n \div d = q
<1> DEFINE p == n \div d
<1>1. p \in Int /\ p * d <= n /\ n < p * d + d
  BY Quotient
<1> SUFFICES p = q
  OBVIOUS
<1> HIDE DEF p
<1>2. ASSUME NEW x \in Int, NEW y \in Int, x > y
      PROVE  x * d >= y * d + d
  <2>1. (x - y - 1) * d >= 0
    BY <1>2, SMT
  <2>2. (x - y - 1) * d = x * d - y * d - d
    BY SMT
  <2>3. x * d \in Int /\ y * d \in Int
    BY SMT
  <2> QED BY <2>1, <2>2, <2>3, SMT
<1>3. p * d \in Int /\ q * d \in Int
  BY <1>1, SMT
<1>4. ~(p > q)
  BY <1>1, <1>2, <1>3, SMT
<1>5. ~(q > p)
  BY <1>1, <1>2, <1>3, SMT
<1> QED BY <1>1, <1>4, <1>5, SMT

LEMMA QuotientGrows ==
    ASSUME NEW n \in Int, NEW o \in Int, n <= o, NEW d \in Int, d > 0
    PROVE  n \div d <= o \div d
<1> DEFINE p == n \div d
           q == o \div d
<1>1. p \in Int /\ p * d <= n /\ n < p * d + d
  BY Quotient
<1>2. q \in Int /\ q * d <= o /\ o < q * d + d
  BY Quotient
<1> SUFFICES p <= q
  OBVIOUS
<1> HIDE DEF p, q
<1>3. CASE p > q
  <2>1. (p - q - 1) * d >= 0
    BY <1>1, <1>2, <1>3, SMT
  <2>2. (p - q - 1) * d = p * d - q * d - d
    BY <1>1, <1>2, SMT
  <2>3. p * d \in Int /\ q * d \in Int
    BY <1>1, <1>2, SMT
  <2> QED BY <1>1, <1>2, <2>1, <2>2, <2>3, SMT
<1> QED BY <1>1, <1>2, <1>3, SMT

(* Scaling the whole of a quotient and its rest apart loses nothing: the   *)
(* frames of a duration are the nearest number to the exact one, or none.  *)
(* (FramesInDuration of the video's inspection)                            *)
THEOREM FramesAreExact ==
    ASSUME NEW ticks \in Nat,
           NEW timeBase \in [numerator : Nat \ {0}, denominator : Nat \ {0}],
           NEW rate \in [numerator : Nat \ {0}, denominator : Nat \ {0}],
           FramesInDuration(ticks, timeBase, rate) # NoIndex
    PROVE  FramesInDuration(ticks, timeBase, rate)
             = (ticks * (timeBase.numerator * rate.numerator)
                  + (timeBase.denominator * rate.denominator) \div 2)
                 \div (timeBase.denominator * rate.denominator)
<1> DEFINE c == timeBase.numerator * rate.numerator
           d == timeBase.denominator * rate.denominator
           h == d \div 2
           q == ticks \div d
           r == ticks % d
           p == (r * c + h) \div d
<1>1. c \in Nat /\ d \in Nat /\ d > 0
  <2>1. /\ timeBase.numerator \in Nat /\ rate.numerator \in Nat
        /\ timeBase.denominator \in Nat /\ timeBase.denominator > 0
        /\ rate.denominator \in Nat /\ rate.denominator > 0
    OBVIOUS
  <2>2. ASSUME NEW a \in Nat, NEW b \in Nat
        PROVE  a * b \in Nat /\ (a > 0 /\ b > 0 => a * b > 0)
    BY SMT
  <2> QED BY <2>1, <2>2
<1>2. FramesInDuration(ticks, timeBase, rate) = q * c + p
  BY DEF FramesInDuration
<1> HIDE DEF c, d
<1>3. h \in Int
  BY <1>1, SMT
<1> HIDE DEF h
<1>4. q \in Int /\ r \in Int /\ ticks = q * d + r
  BY <1>1, SMT
<1> HIDE DEF q, r
<1>5. ticks * c + h = (q * c) * d + (r * c + h)
  <2>1. ticks * c = (q * d + r) * c
    BY <1>4
  <2>2. (q * d + r) * c = (q * c) * d + r * c
    BY <1>1, <1>4, SMT
  <2>3. ticks * c \in Int /\ (q * c) * d \in Int /\ r * c \in Int
    BY <1>1, <1>4, SMT
  <2> QED BY <2>1, <2>2, <2>3, <1>3, SMT
<1>6. q * c \in Int /\ r * c + h \in Int /\ ticks * c + h \in Int
  BY <1>1, <1>3, <1>4, SMT
<1>7. p \in Int /\ p * d <= r * c + h /\ r * c + h < p * d + d
  BY <1>1, <1>6, Quotient
<1> HIDE DEF p
<1>8. (q * c + p) * d = (q * c) * d + p * d
  BY <1>1, <1>6, <1>7, SMT
<1>9. /\ (q * c + p) * d <= ticks * c + h
      /\ ticks * c + h < (q * c + p) * d + d
  <2> DEFINE x == (q * c) * d
             y == p * d
             z == r * c + h
             w == (q * c + p) * d
  <2>1. x \in Int /\ y \in Int /\ z \in Int /\ y <= z /\ z < y + d
    BY <1>1, <1>6, <1>7, SMT
  <2>2. w = x + y /\ ticks * c + h = x + z
    BY <1>5, <1>8
  <2> HIDE DEF x, y, z, w
  <2>3. w <= x + z /\ x + z < w + d
    BY <2>1, <2>2, <1>1, SMT
  <2> QED BY <2>2, <2>3 DEF w
<1>10. (ticks * c + h) \div d = q * c + p
  <2> DEFINE n == ticks * c + h
             m == q * c
  <2>1. n \in Int /\ m \in Int
    BY <1>6
  <2>2. (m + p) * d <= n /\ n < (m + p) * d + d
    BY <1>9
  <2> HIDE DEF n, m
  <2>3. m + p \in Int
    BY <1>7, <2>1, SMT
  <2>4. n \div d = m + p
    BY <1>1, <2>1, <2>2, <2>3, QuotientIs
  <2> QED BY <2>4 DEF n, m
<1> QED BY <1>2, <1>10 DEF c, d, h

LEMMA RoundTrip ==
    ASSUME NEW f \in Nat, NEW a \in Nat, NEW b \in Nat, 0 < b, b <= a
    PROVE  ((((f * a + b \div 2) \div b) * b) + a \div 2) \div a = f
<1> DEFINE o == (f * a + b \div 2) \div b
           w == o * b
           v == f * a
           s == a \div 2
           t == b \div 2
<1>1. v \in Int /\ s \in Int /\ t \in Int
  BY SMT
<1>2. o \in Int /\ w <= v + t /\ v + t < w + b
  BY <1>1, Quotient
<1>3. w \in Int
  BY <1>2, SMT
<1>4. t <= s /\ 2 * t <= b /\ b <= 2 * t + 1 /\ 2 * s <= a /\ a <= 2 * s + 1
  BY SMT
<1>5. v <= w + s
  <2> HIDE DEF w, v, s, t, o
  <2> QED BY <1>1, <1>2, <1>3, <1>4, SMT
<1>6. w + s < v + a
  <2>1. CASE b = a
    <3>1. o * a = w /\ (o - f) * a = w - v
      BY <1>2, <2>1, SMT
    <3>2. CASE o <= f
      <4>1. (f - o) * a >= 0 /\ (f - o) * a = v - w
        BY <1>2, <2>1, <3>2, SMT
      <4> HIDE DEF w, v, s, t, o
      <4> QED BY <4>1, <1>1, <1>3, <1>4, SMT
    <3>3. CASE o > f
      <4>1. (o - f - 1) * a >= 0 /\ (o - f - 1) * a = w - v - a
        BY <1>2, <2>1, <3>3, SMT
      <4> HIDE DEF w, v, s, t, o
      <4> QED BY <4>1, <1>1, <1>2, <1>3, <1>4, SMT
    <3> QED BY <1>2, <3>2, <3>3, SMT
  <2>2. CASE b < a
    <3> HIDE DEF w, v, s, t, o
    <3> QED BY <2>2, <1>1, <1>2, <1>3, <1>4, SMT
  <2> QED BY <2>1, <2>2, SMT
<1>7. w + s \in Int
  BY <1>1, <1>3, SMT
<1> QED BY <1>5, <1>6, <1>7, QuotientIs, SMT

-----------------------------------------------------------------------------
(* Timestamps. *)

Ratios == [numerator : Nat, denominator : Nat]

Unit(stream) == stream.rate.denominator * stream.timeBase.denominator

Half(n) == n \div 2

Step(stream) == stream.rate.numerator * stream.timeBase.numerator

Known(stream) == stream.rate \in Ratios /\ stream.timeBase \in Ratios
                   /\ stream.start \in Int \cup {NoTimestamp}
                   /\ Step(stream) <= Unit(stream)

LEMMA Units ==
    ASSUME NEW stream, Known(stream), IsTimed(stream)
    PROVE  /\ Unit(stream) \in Nat /\ Step(stream) \in Nat
           /\ 0 < Step(stream) /\ Step(stream) <= Unit(stream)
           /\ StreamStart(stream) \in Int
<1> DEFINE a == stream.rate.numerator
           b == stream.timeBase.numerator
<1>1. a \in Nat /\ b \in Nat /\ a > 0 /\ b > 0
  BY DEF Known, Ratios, IsTimed, IsPositive
<1>2. /\ stream.rate.denominator \in Nat /\ stream.timeBase.denominator \in Nat
      /\ Step(stream) <= Unit(stream)
  BY DEF Known, Ratios
<1>3. a * b > 0 /\ a * b \in Nat
  <2> HIDE DEF a, b
  <2> QED BY <1>1, SMT
<1>4. Unit(stream) \in Nat
  BY <1>2, SMT DEF Unit
<1>5. StreamStart(stream) \in Int
  BY DEF StreamStart, Known
<1> QED BY <1>2, <1>3, <1>4, <1>5 DEF Step

(* What the two conversions compute, where they compute something. *)
LEMMA Conversions ==
    ASSUME NEW stream, Known(stream), IsTimed(stream), NEW n \in Int
    PROVE  LET there == (n * Unit(stream) + Half(Step(stream))) \div Step(stream)
               back == (n * Step(stream) + Half(Unit(stream))) \div Unit(stream)
           IN /\ FrameOffset(n, stream)
                   = IF there <= Int64Max THEN there ELSE Int64Min
              /\ Rescaled(n, stream.timeBase, Inverted(stream.rate))
                   = IF back <= Int64Max THEN back ELSE Int64Min
<1> DEFINE rn == stream.rate.numerator
           rd == stream.rate.denominator
           tn == stream.timeBase.numerator
           td == stream.timeBase.denominator
<1>1. rn \in Nat /\ rd \in Nat /\ tn \in Nat /\ td \in Nat
  BY DEF Known, Ratios
<1>2. td * rd = rd * td /\ tn * rn = rn * tn
  <2> HIDE DEF rn, rd, tn, td
  <2> QED BY <1>1, SMT
<1>3. /\ Inverted(stream.rate).numerator = rd
      /\ Inverted(stream.rate).denominator = rn
  BY DEF Inverted, Rate
<1> QED BY <1>2, <1>3 DEF FrameOffset, Rescaled, Unit, Step, Half

(* A timestamp between one that has an index and that of a frame has an    *)
(* index between theirs.                                                   *)
LEMMA IndexBetween ==
    ASSUME NEW stream, Known(stream),
           NEW frame \in Int, HasTimestamp(frame, stream),
           NEW low \in Int, FrameIndex(low, stream) = frame,
           NEW high \in Int, low <= high, high <= FrameTimestamp(frame, stream)
    PROVE  FrameIndex(high, stream) = frame
<1> DEFINE u == Unit(stream)
           s == Step(stream)
           start == StreamStart(stream)
           offset == FrameOffset(frame, stream)
           Back(n) == (n * s + Half(u)) \div u
<1>1. IsTimed(stream) /\ frame >= 0 /\ offset >= 0
  BY DEF HasTimestamp
<1>2. u \in Nat /\ s \in Nat /\ 0 < s /\ s <= u /\ start \in Int
  BY <1>1, Units
<1>3. Int64Max \in Nat /\ Int64Min \in Int /\ Int64Min < 0
  BY FrameTimingAssumption, SMT DEF Int64Min
<1>4. offset = (frame * u + Half(s)) \div s /\ offset <= Int64Max
  BY <1>1, <1>3, Conversions, SMT
<1>5. Half(u) \in Int /\ Half(s) \in Int
  BY <1>2, SMT DEF Half
<1>6. offset \in Int
  <2>1. frame * u + Half(s) \in Int
    BY <1>2, <1>5, SMT
  <2> QED BY <1>2, <1>4, <2>1, Quotient
<1>7. Back(offset) = frame
  <2>1. frame \in Nat
    BY <1>1, SMT
  <2>2. (((frame * u + Half(s)) \div s) * s + Half(u)) \div u = frame
    <3> HIDE DEF u, s
    <3> QED BY <1>2, <2>1, RoundTrip DEF Half
  <2> QED BY <1>4, <2>2
<1>8. /\ IsIndexed(low, stream)
      /\ frame = Rescaled(low - start, stream.timeBase, Inverted(stream.rate))
  BY <1>1, FrameTimingAssumption, SMT DEF FrameIndex
<1>9. low - start \in Int /\ high - start \in Int /\ offset \in Int
  BY <1>2, <1>6, SMT
<1>10. low - start >= 0
  BY <1>8 DEF IsIndexed
<1>11. low - start <= high - start /\ high - start <= offset
  BY <1>2, <1>6, SMT DEF FrameTimestamp
<1>12. frame = Back(low - start) /\ frame <= Int64Max
  BY <1>1, <1>3, <1>8, <1>9, Conversions, SMT
<1>13. ASSUME NEW x \in Int, NEW y \in Int, x <= y
       PROVE  Back(x) <= Back(y)
  <2>1. x * s <= y * s /\ x * s \in Int /\ y * s \in Int
    <3>1. (y - x) * s >= 0 /\ (y - x) * s = y * s - x * s
      BY <1>2, <1>13, SMT
    <3> QED BY <1>2, <3>1, SMT
  <2>2. /\ x * s + Half(u) \in Int /\ y * s + Half(u) \in Int
        /\ x * s + Half(u) <= y * s + Half(u)
    BY <1>5, <2>1, SMT
  <2> QED BY <1>2, <2>2, QuotientGrows
<1>14. Back(high - start) \in Int
  <2>1. (high - start) * s + Half(u) \in Int
    BY <1>2, <1>5, <1>9, SMT
  <2> QED BY <1>2, <2>1, Quotient
<1>15. Back(high - start) = frame
  <2>1. frame <= Back(high - start) /\ Back(high - start) <= frame
    BY <1>7, <1>9, <1>11, <1>12, <1>13
  <2> HIDE DEF Back
  <2> QED BY <1>14, <2>1, SMT
<1>16. Rescaled(high - start, stream.timeBase, Inverted(stream.rate)) = frame
  BY <1>1, <1>9, <1>12, <1>15, Conversions
<1>17. IsIndexed(high, stream)
  <2>1. high # NoTimestamp
    BY FrameTimingAssumption
  <2>2. start > 0 => high >= Int64Min + start
    BY <1>2, <1>3, <1>8, SMT DEF IsIndexed
  <2>3. start < 0 => high <= Int64Max + start
    <3> HIDE DEF offset, start
    <3> QED BY <1>2, <1>3, <1>4, <1>6, <1>9, <1>11, SMT
  <2>4. high - start >= 0
    <3> HIDE DEF offset, start
    <3> QED BY <1>2, <1>9, <1>10, <1>11, SMT
  <2> QED BY <1>1, <1>16, <2>1, <2>2, <2>3, <2>4 DEF IsIndexed
<1> QED BY <1>16, <1>17 DEF FrameIndex

-----------------------------------------------------------------------------
(* The row of pictures. *)

Picture(m, i) == m.packets[i].picture

LEMMA PlayableFile ==
    ASSUME NEW m \in Media
    PROVE  /\ Len(m.timestamps) \in Nat
           /\ DOMAIN m.timestamps = 1 .. Len(m.timestamps)
           /\ Len(m.packets) \in Nat
           /\ DOMAIN m.packets = 1 .. Len(m.packets)
           /\ VideoPackets(m) \subseteq 1 .. Len(m.packets)
           /\ \A i \in 1 .. Len(m.packets) : m.packets[i].video <=> i \in VideoPackets(m)
           /\ \A i \in VideoPackets(m) : Picture(m, i) \in 1 .. Len(m.timestamps)
           /\ m.delay \in Nat
<1>1. m.packets \in Seq(Packets) /\ m.timestamps \in Seq(Int \cup {NoTimestamp})
      /\ m.delay \in Nat
      /\ \A i \in VideoPackets(m) : m.packets[i].picture \in DOMAIN m.timestamps
  BY VideoDecoderAssumption DEF IsPlayable
<1>2. /\ Len(m.timestamps) \in Nat /\ DOMAIN m.timestamps = 1 .. Len(m.timestamps)
      /\ Len(m.packets) \in Nat /\ DOMAIN m.packets = 1 .. Len(m.packets)
  BY <1>1
<1> QED BY <1>1, <1>2 DEF VideoPackets, Picture

LEMMA PlayableOrder ==
    ASSUME NEW m \in Media
    PROVE  /\ \A p \in 1 .. Len(m.timestamps) :
                \E i \in VideoPackets(m) : Picture(m, i) = p
           /\ \A i, j \in VideoPackets(m) : Picture(m, i) = Picture(m, j) => i = j
           /\ \A i, j \in VideoPackets(m) :
                m.packets[i].key /\ j < i => Picture(m, j) < Picture(m, i)
           /\ \A i, j \in VideoPackets(m) :
                m.packets[i].key /\ i < j => Picture(m, i) < Picture(m, j)
           /\ \A i \in VideoPackets(m) :
                Cardinality({j \in VideoPackets(m) :
                               j < i /\ Picture(m, j) > Picture(m, i)}) <= m.delay
<1>1. /\ \A p \in DOMAIN m.timestamps :
           \E i \in VideoPackets(m) : m.packets[i].picture = p
      /\ \A i, j \in VideoPackets(m) :
           /\ m.packets[i].picture = m.packets[j].picture => i = j
           /\ m.packets[i].key /\ j < i => m.packets[j].picture < m.packets[i].picture
           /\ m.packets[i].key /\ i < j => m.packets[i].picture < m.packets[j].picture
  BY VideoDecoderAssumption DEF IsPlayable
<1>2. \A i \in VideoPackets(m) :
        Cardinality({j \in VideoPackets(m) :
                       j < i /\ m.packets[j].picture > m.packets[i].picture})
          <= m.delay
  BY VideoDecoderAssumption DEF IsPlayable
<1> QED BY <1>1, <1>2, PlayableFile DEF Picture

(* Where a row that ends with the last picture starts. *)
LEMMA RowStart ==
    ASSUME NEW l \in Nat, NEW k \in 1 .. l + 1
    PROVE  /\ (k .. l = {}) <=> k = l + 1
           /\ k # l + 1 => Min(k .. l) = k
           /\ (IF k .. l = {} THEN l + 1 ELSE Min(k .. l)) = k
<1>1. CASE k = l + 1
  <2>1. k .. l = {}
    BY <1>1, SMT
  <2> QED BY <1>1, <2>1
<1>2. CASE k # l + 1
  <2>1. k \in k .. l /\ \A y \in k .. l : k =< y
    BY <1>2, SMT
  <2>2. Min(k .. l) \in k .. l /\ \A y \in k .. l : Min(k .. l) =< y
    <3> HIDE DEF Min
    <3>1. \E x \in k .. l : \A y \in k .. l : x =< y
      BY <2>1
    <3> QED BY <3>1 DEF Min
  <2>3. Min(k .. l) = k
    <3>1. Min(k .. l) =< k /\ k =< Min(k .. l) /\ Min(k .. l) \in Int
      BY <2>1, <2>2, SMT
    <3> QED BY <3>1, SMT
  <2> QED BY <1>2, <2>1, <2>3
<1> QED BY <1>1, <1>2

(* Until a call fails, the pictures still to come are the last of the row. *)
Row == \E k \in 1 .. Length + 1 : Pending = k .. Length

(* What the codec holds was read and not only found. *)
HeldWasRead ==
  \A p \in held :
    \E i \in VideoPackets(file) : i < position /\ Picture(file, i) = p

CodecAgrees ==
  /\ draining <=> drained
  /\ drained => position > Len(file.packets)
  /\ exhausted => drained /\ held = {}
  /\ pc = "reading" => ~OutputIsReady /\ ~drained

Reported == returned.kind \in Failures <=> pc = "failed"

IndInv ==
  /\ TypeOK
  /\ Reported
  /\ pc # "failed" => Row /\ HeldWasRead /\ CodecAgrees

LEMMA PlaceIs ==
    ASSUME TypeOK, NEW k \in 1 .. Length + 1, Pending = k .. Length
    PROVE  Place = k
<1>1. Length \in Nat
  BY PlayableFile DEF TypeOK, Length
<1> QED BY <1>1, RowStart DEF Place

LEMMA UnreadIsTyped ==
    ASSUME TypeOK
    PROVE  /\ Length \in Nat /\ DOMAIN file.timestamps = 1 .. Length
           /\ Unread \subseteq 1 .. Length /\ held \subseteq 1 .. Length
           /\ Len(file.packets) \in Nat
           /\ VideoPackets(file) \subseteq 1 .. Len(file.packets)
           /\ position \in Nat
  BY PlayableFile DEF TypeOK, Unread, Length, Picture

(* The next of the row is with the codec once it has output: had it still  *)
(* to be read, it would be overtaken by all that is held.                  *)
LEMMA OutputIsNext ==
    ASSUME TypeOK, Row, HeldWasRead, CodecAgrees, OutputIsReady
    PROVE  Place \in held /\ Min(held) = Place /\ Pending = Place .. Length
<1>1. PICK k \in 1 .. Length + 1 : Pending = k .. Length
  BY DEF Row
<1>2. Place = k
  BY <1>1, PlaceIs
<1>3. /\ Length \in Nat /\ held \subseteq k .. Length
      /\ held # {} /\ (drained \/ Cardinality(held) > file.delay)
  BY <1>1, UnreadIsTyped DEF OutputIsReady, Pending
<1>4. k \in held
  <2> SUFFICES ASSUME k \notin held PROVE FALSE
    OBVIOUS
  <2>1. k \in k .. Length
    <3>1. PICK p \in held : p \in k .. Length
      BY <1>3
    <3> QED BY <1>3, <3>1, SMT
  <2>2. PICK i \in VideoPackets(file) : i >= position /\ Picture(file, i) = k
    BY <1>1, <2>1 DEF Pending, Unread, Picture
  <2>3. i \in 1 .. Len(file.packets) /\ Len(file.packets) \in Nat /\ position \in Nat
    BY UnreadIsTyped
  <2>4. ~drained
    BY <2>2, <2>3, SMT DEF CodecAgrees
  <2> DEFINE J == {j \in VideoPackets(file) :
                     j < i /\ Picture(file, j) > Picture(file, i)}
             f == [p \in held |-> CHOOSE j \in J : Picture(file, j) = p]
  <2>5. Cardinality(J) <= file.delay
    BY PlayableOrder DEF TypeOK
  <2>6. IsFiniteSet(J)
    <3>1. J \subseteq 1 .. Len(file.packets)
      BY UnreadIsTyped
    <3>2. IsFiniteSet(1 .. Len(file.packets))
      BY <2>3, FS_Interval
    <3> QED BY <3>1, <3>2, FS_Subset
  <2>7. \A p \in held : \E j \in J : Picture(file, j) = p
    <3> SUFFICES ASSUME NEW p \in held PROVE \E j \in J : Picture(file, j) = p
      OBVIOUS
    <3>1. PICK j \in VideoPackets(file) : j < position /\ Picture(file, j) = p
      BY DEF HeldWasRead
    <3>2. p \in k .. Length /\ p # k
      BY <1>3
    <3>3. p > k
      BY <1>3, <3>2, SMT
    <3>4. j < i
      BY <2>2, <2>3, <3>1, UnreadIsTyped, SMT
    <3> QED BY <2>2, <3>1, <3>3, <3>4
  <2>8. \A p \in held : f[p] \in J /\ Picture(file, f[p]) = p
    BY <2>7
  <2>9. f \in Injection(held, J)
    BY <2>8 DEF Injection, IsInjective
  <2> HIDE DEF f, J
  <2>10. Cardinality(held) <= Cardinality(J)
    BY <2>6, <2>9, FS_Injection
  <2>11. Cardinality(J) \in Nat /\ Cardinality(held) \in Nat /\ file.delay \in Nat
    BY <2>6, <2>9, FS_Injection, FS_CardinalityType, PlayableFile DEF TypeOK
  <2> QED BY <1>3, <2>4, <2>5, <2>10, <2>11, SMT
<1>5. Min(held) = k
  <2>1. \A y \in held : k =< y
    BY <1>3, SMT
  <2>2. Min(held) \in held /\ \A y \in held : Min(held) =< y
    <3>1. \E x \in held : \A y \in held : x =< y
      BY <1>4, <2>1
    <3> QED BY <3>1 DEF Min
  <2>3. Min(held) =< k /\ k =< Min(held) /\ Min(held) \in k .. Length
    BY <1>3, <1>4, <2>1, <2>2
  <2> QED BY <1>3, <2>3, SMT
<1> QED BY <1>1, <1>2, <1>4, <1>5

LEMMA NatOrderIsWellFounded ==
  IsWellFoundedOn({ss \in Nat \X Nat : ss[1] < ss[2]}, Nat)
  BY NatLessThanWellFounded DEF OpToRel

LEMMA PlaceIsTyped ==
    ASSUME TypeOK
    PROVE  Place \in 1 .. Length + 1
<1>1. Length \in Nat /\ Pending \subseteq 1 .. Length
  BY UnreadIsTyped DEF Pending
<1>2. CASE Pending = {}
  BY <1>1, <1>2, SMT DEF Place
<1>3. CASE Pending # {}
  <2> DEFINE R == {ss \in Nat \X Nat : ss[1] < ss[2]}
             S == Pending
  <2>1. S \subseteq Nat /\ S # {} /\ S \subseteq 1 .. Length
    BY <1>1, <1>3
  <2> HIDE DEF S
  <2>2. PICK x \in S : \A y \in S : ~ (<<y, x>> \in R)
    <3> HIDE DEF R
    <3> QED BY <2>1, NatOrderIsWellFounded, WFMin DEF R
  <2>3. \A y \in S : x =< y
    <3> SUFFICES ASSUME NEW y \in S PROVE x =< y
      OBVIOUS
    <3>1. ~ (<<y, x>> \in R) /\ x \in Nat /\ y \in Nat
      BY <2>1, <2>2
    <3> QED BY <3>1, SMT
  <2>4. Min(S) \in S
    <3>1. \E z \in S : \A y \in S : z =< y
      BY <2>3
    <3> QED BY <3>1 DEF Min
  <2>5. Min(S) \in 1 .. Length + 1
    <3>1. Min(S) \in 1 .. Length
      BY <2>1, <2>4
    <3> QED BY <1>1, <3>1, SMT
  <2>6. Place = Min(S)
    BY <1>3 DEF S, Place
  <2> QED BY <2>5, <2>6
<1> QED BY <1>2, <1>3

-----------------------------------------------------------------------------
(* Steps. *)

Kinds == Failures \cup {"opened", "sought", "picture", "end"}

LEMMA ReturnIsTyped ==
    ASSUME TypeOK, file' = file, NEW kind \in Kinds, Return(kind)
    PROVE  /\ returned' \in [kind : Kinds, picture : 0 .. Length']
           /\ pc' \in {"idle", "failed"}
<1>1. Length' = Length /\ Length \in Nat
  BY UnreadIsTyped DEF Length
<1>2. 0 \in 0 .. Length
  BY <1>1, SMT
<1> QED BY <1>1, <1>2 DEF Return

Simulated == Stream!Next \/ UNCHANGED <<Length, Place, returned>>

(* What every step does: keep the invariant, and be a step of the stream.  *)
Kept == IndInv' /\ Simulated

LEMMA FailedStep ==
    ASSUME IndInv, pc # "failed", TypeOK', file' = file,
           NEW kind \in Failures, Return(kind)
    PROVE  Kept
<1>1. returned' = Stream!Result(kind, 0) /\ pc' = "failed"
  BY DEF Return, Stream!Result
<1>2. Place' \in 1 .. Length + 1 /\ Length' = Length
  <2>1. Length' = Length
    BY DEF Length
  <2>2. (Place \in 1 .. Length + 1)'
    BY PlaceIsTyped, PTL
  <2> QED BY <2>1, <2>2
<1>3. returned.kind \notin Failures
  BY DEF IndInv, Reported
<1>4. Stream!Fail
  BY <1>1, <1>2, <1>3 DEF Stream!Fail
<1>5. Stream!Next
  BY <1>2, <1>4 DEF Stream!Next
<1>6. Reported'
  BY <1>1 DEF Reported, Stream!Result
<1> QED BY <1>1, <1>5, <1>6 DEF Kept, Simulated, IndInv

LEMMA SeekStep ==
    ASSUME IndInv, NEW index \in Targets, SeekToFrame(index)
    PROVE  /\ Kept
           /\ returned'.kind = "sought" =>
                /\ HasTimestamp(index, file.stream)
                /\ target' = index
                /\ Place' \in 1 .. Length
                /\ file.timestamps[Place'] # NoTimestamp
                /\ file.timestamps[Place'] <= FrameTimestamp(index, file.stream)
<1>1. pc = "idle" /\ file' = file /\ TypeOK /\ Length' = Length
  BY DEF SeekToFrame, IndInv, Length
<1>2. CASE Return("kSeek") /\ UNCHANGED <<position, codec, flags, target>>
  <2>1. TypeOK'
    <3>1. "kSeek" \in Kinds
      BY DEF Kinds, Failures
    <3>2. returned' \in [kind : Kinds, picture : 0 .. Length'] /\ pc' \in {"idle", "failed"}
      BY <1>1, <1>2, <3>1, ReturnIsTyped
    <3> QED BY <1>1, <1>2, <3>2 DEF TypeOK, codec, flags, Length, Kinds
  <2>2. Kept
    BY <1>1, <1>2, <2>1, FailedStep DEF Failures
  <2> QED BY <1>2, <2>2 DEF Return
<1>3. CASE /\ HasTimestamp(index, file.stream)
           /\ position' \in SeekPoints(FrameTimestamp(index, file.stream))
           /\ Flush
           /\ ResetFlags
           /\ target' = index
           /\ Return("sought")
  <2> DEFINE i == position'
             k == Picture(file, i)
  <2>1. /\ i \in VideoPackets(file) /\ file.packets[i].key
        /\ file.timestamps[k] # NoTimestamp
        /\ file.timestamps[k] <= FrameTimestamp(index, file.stream)
    BY <1>3 DEF SeekPoints, Picture
  <2>2. /\ held' = {} /\ drained' = FALSE /\ draining' = FALSE /\ exhausted' = FALSE
        /\ returned' = [kind |-> "sought", picture |-> 0] /\ pc' = "idle"
    BY <1>3 DEF Flush, ResetFlags, Return, Failures
  <2>3. file \in Media /\ Length \in Nat /\ k \in 1 .. Length
    BY <1>1, <2>1, UnreadIsTyped, PlayableFile DEF TypeOK, Length
  <2>4. i \in 1 .. Len(file.packets) /\ Len(file.packets) \in Nat
    BY <2>1, <2>3, PlayableFile
  <2>5. TypeOK'
    <3>1. "sought" \in Kinds
      BY DEF Kinds
    <3>2. returned' \in [kind : Kinds, picture : 0 .. Length'] /\ pc' \in {"idle", "failed"}
      BY <1>1, <1>3, <3>1, ReturnIsTyped
    <3>3. position' \in 1 .. Len(file.packets) + 1
      <4> HIDE DEF k, i
      <4> QED BY <2>4, SMT DEF i
    <3> QED BY <1>1, <1>3, <2>2, <3>2, <3>3 DEF TypeOK, Length, Kinds
  <2>6. Unread' = {Picture(file, j) : j \in {j \in VideoPackets(file) : j >= i}}
    BY <1>1 DEF Unread, Picture
  <2>7. Unread' = k .. Length
    <3> HIDE DEF i
    <3>1. ASSUME NEW j \in VideoPackets(file)
          PROVE  j >= i <=> Picture(file, j) >= k
      <4>1. j \in 1 .. Len(file.packets) /\ Picture(file, j) \in 1 .. Length
        BY <2>3, PlayableFile DEF Length
      <4>2. j < i => Picture(file, j) < k
        BY <2>1, <2>3, PlayableOrder
      <4>3. i < j => k < Picture(file, j)
        BY <2>1, <2>3, PlayableOrder
      <4>4. i = j => k = Picture(file, j)
        OBVIOUS
      <4> HIDE DEF k
      <4> QED BY <2>3, <2>4, <4>1, <4>2, <4>3, <4>4, SMT
    <3>2. ASSUME NEW p \in Unread' PROVE p \in k .. Length
      <4>1. PICK j \in VideoPackets(file) : j >= i /\ Picture(file, j) = p
        BY <2>6, <3>2
      <4>2. p \in 1 .. Length /\ p >= k
        BY <2>3, <3>1, <4>1, PlayableFile DEF Length
      <4> HIDE DEF k
      <4> QED BY <2>3, <4>2, SMT
    <3>3. ASSUME NEW p \in k .. Length PROVE p \in Unread'
      <4>1. p \in 1 .. Length /\ p >= k
        <5> HIDE DEF k
        <5> QED BY <2>3, <3>3, SMT
      <4>2. PICK j \in VideoPackets(file) : Picture(file, j) = p
        BY <2>3, <4>1, PlayableOrder DEF Length
      <4> QED BY <2>6, <3>1, <4>1, <4>2
    <3> HIDE DEF k
    <3> QED BY <3>2, <3>3
  <2>8. Pending' = k .. Length
    BY <2>2, <2>7 DEF Pending
  <2>9. k \in 1 .. Length + 1
    <3> HIDE DEF k, i
    <3> QED BY <2>3, SMT
  <2>10. Place' = k
    <3>1. Place' = IF k .. Length = {} THEN Length + 1 ELSE Min(k .. Length)
      BY <1>1, <2>8 DEF Place
    <3> HIDE DEF k, i
    <3> QED BY <2>3, <2>9, <3>1, RowStart
  <2>11. Row' /\ HeldWasRead' /\ CodecAgrees'
    <3>1. Row'
      BY <1>1, <2>8, <2>9 DEF Row
    <3> QED BY <2>2, <3>1 DEF HeldWasRead, CodecAgrees
  <2>12. Reported'
    BY <2>2 DEF Reported, Failures
  <2>13. Stream!Next
    <3>1. returned.kind \notin Failures
      BY <1>1 DEF IndInv, Reported
    <3>2. Stream!Seek
      BY <2>2, <2>3, <2>10, <3>1 DEF Stream!Seek, Stream!Result
    <3> QED BY <1>1, <3>2 DEF Stream!Next
  <2> QED BY <1>3, <2>1, <2>3, <2>5, <2>10, <2>11, <2>12, <2>13
          DEF Kept, Simulated, IndInv
<1> QED BY <1>2, <1>3 DEF SeekToFrame

(* A step that leaves the pictures still to come alone. *)
LEMMA QuietStep ==
    ASSUME IndInv, pc # "failed", TypeOK', file' = file, Pending' = Pending,
           returned' = returned, pc' # "failed", HeldWasRead', CodecAgrees'
    PROVE  /\ Kept
           /\ UNCHANGED <<file, Place, returned>>
<1>1. UNCHANGED <<Length, Place, returned>>
  BY DEF Length, Place
<1>2. Row'
  BY <1>1 DEF IndInv, Row
<1>3. Reported'
  BY DEF IndInv, Reported
<1> QED BY <1>1, <1>2, <1>3 DEF Kept, Simulated, IndInv

LEMMA ReadFrameStep ==
    ASSUME IndInv, ReadFrame
    PROVE  /\ Kept
           /\ returned'.kind = "sought" => UNCHANGED <<file, Place, returned, target>>
<1>1. pc = "idle" /\ UNCHANGED <<file, position, held, drained, draining, exhausted, target>>
  BY DEF ReadFrame, codec, flags
<1>2. /\ TypeOK /\ Row /\ HeldWasRead /\ CodecAgrees /\ Reported
      /\ Length' = Length /\ Pending' = Pending /\ Place' = Place
  BY <1>1 DEF IndInv, Length, Pending, Unread, Place
<1>3. HeldWasRead'
  BY <1>1, <1>2 DEF HeldWasRead
<1>4. CASE exhausted /\ Return("end")
  <2>1. returned' = [kind |-> "end", picture |-> 0] /\ pc' = "idle"
    BY <1>4 DEF Return, Failures
  <2>2. TypeOK'
    <3>1. "end" \in Kinds
      BY DEF Kinds
    <3>2. returned' \in [kind : Kinds, picture : 0 .. Length'] /\ pc' \in {"idle", "failed"}
      BY <1>1, <1>2, <1>4, <3>1, ReturnIsTyped
    <3> QED BY <1>1, <1>2, <3>2 DEF TypeOK, Length, Kinds
  <2>3. Pending = {}
    BY <1>2, <1>4, UnreadIsTyped, SMT DEF CodecAgrees, Pending, Unread
  <2>4. CodecAgrees'
    BY <1>1, <1>2, <2>1 DEF CodecAgrees
  <2>5. Stream!Next
    <3>1. Stream!End
      BY <1>1, <1>2, <2>1, <2>3 DEF Stream!End, Stream!Result, Place, Reported
    <3> QED BY <1>2, <3>1 DEF Stream!Next
  <2>6. Row' /\ Reported'
    BY <1>1, <1>2, <2>1 DEF Row, Reported, Failures
  <2> QED BY <1>3, <2>1, <2>2, <2>4, <2>5, <2>6 DEF Kept, Simulated, IndInv
<1>5. CASE ~exhausted /\ pc' = "receiving" /\ UNCHANGED returned
  <2>1. TypeOK'
    BY <1>1, <1>2, <1>5 DEF TypeOK, Length
  <2>2. CodecAgrees'
    BY <1>1, <1>2, <1>5 DEF CodecAgrees
  <2> QED BY <1>1, <1>2, <1>3, <1>5, <2>1, <2>2, QuietStep
<1> QED BY <1>4, <1>5 DEF ReadFrame

LEMMA ReceiveFrameStep ==
    ASSUME IndInv, ReceiveFrame
    PROVE  Kept /\ returned'.kind # "sought"
<1>1. /\ pc = "receiving" /\ OutputIsReady /\ held' = held \ {Min(held)}
      /\ UNCHANGED <<file, position, drained, draining, exhausted, target>>
  BY DEF ReceiveFrame, flags
<1>2. /\ TypeOK /\ Row /\ HeldWasRead /\ CodecAgrees /\ Reported
      /\ Length' = Length /\ Unread' = Unread
  BY <1>1 DEF IndInv, Length, Unread
<1> DEFINE k == Place
<1>3. k \in held /\ Min(held) = k /\ Pending = k .. Length
  BY <1>1, <1>2, OutputIsNext
<1>4. /\ Length \in Nat /\ held \subseteq 1 .. Length /\ k \in 1 .. Length
      /\ DOMAIN file.timestamps = 1 .. Length
  BY <1>2, <1>3, UnreadIsTyped
<1>5. TypeOK'
  <2>1. held' \subseteq DOMAIN file.timestamps
    BY <1>1, <1>4
  <2>2. /\ returned' \in [kind : Failures \cup {"opened", "sought", "picture", "end"},
                          picture : 0 .. Length]
        /\ pc' \in {"idle", "failed"}
    <3>1. CASE ReturnPicture(Min(held))
      <4>1. k \in 0 .. Length
        <5> HIDE DEF k
        <5> QED BY <1>4, SMT
      <4> QED BY <1>3, <3>1, <4>1 DEF ReturnPicture
    <3>2. CASE Return("kConvertFrame")
      BY <1>4, <3>2, SMT DEF Return, Failures
    <3> QED BY <3>1, <3>2 DEF ReceiveFrame
  <2> QED BY <1>1, <1>2, <2>1, <2>2 DEF TypeOK, Length
<1>6. CASE Return("kConvertFrame")
  <2>1. Kept
    BY <1>1, <1>5, <1>6, FailedStep DEF Failures
  <2> QED BY <1>6, <2>1 DEF Return
<1>7. CASE ReturnPicture(Min(held))
  <2>1. returned' = [kind |-> "picture", picture |-> k] /\ pc' = "idle"
    BY <1>3, <1>7 DEF ReturnPicture
  <2>2. k \notin Unread
    <3> SUFFICES ASSUME k \in Unread PROVE FALSE
      OBVIOUS
    <3>1. PICK i \in VideoPackets(file) : i >= position /\ Picture(file, i) = k
      BY DEF Unread, Picture
    <3>2. PICK j \in VideoPackets(file) : j < position /\ Picture(file, j) = k
      BY <1>2, <1>3 DEF HeldWasRead
    <3>3. i = j
      BY <1>2, <3>1, <3>2, PlayableOrder DEF TypeOK
    <3> QED BY <1>2, <3>1, <3>2, <3>3, UnreadIsTyped, SMT
  <2>3. Pending' = Pending \ {k}
    BY <1>1, <1>2, <1>3, <2>2 DEF Pending
  <2>4. Pending' = k + 1 .. Length /\ k + 1 \in 1 .. Length + 1
    <3> HIDE DEF k
    <3> QED BY <1>3, <1>4, <2>3, SMT
  <2>5. Place' = k + 1
    <3>1. Place' = IF k + 1 .. Length = {} THEN Length + 1 ELSE Min(k + 1 .. Length)
      BY <1>2, <2>4 DEF Place
    <3> HIDE DEF k
    <3> QED BY <1>4, <2>4, <3>1, RowStart
  <2>6. Row'
    BY <1>2, <2>4 DEF Row
  <2>7. HeldWasRead'
    BY <1>1, <1>2 DEF HeldWasRead
  <2>8. CodecAgrees'
    BY <1>1, <1>2, <2>1 DEF CodecAgrees
  <2>9. Stream!Next
    <3>1. returned.kind \notin Failures
      BY <1>1, <1>2 DEF Reported
    <3>2. k <= Length
      <4> HIDE DEF k
      <4> QED BY <1>4, SMT
    <3>3. Stream!Deliver
      BY <2>1, <2>5, <3>1, <3>2 DEF Stream!Deliver, Stream!Result
    <3> QED BY <1>2, <3>3 DEF Stream!Next
  <2>10. Reported'
    BY <2>1 DEF Reported, Failures
  <2> QED BY <1>5, <2>1, <2>6, <2>7, <2>8, <2>9, <2>10 DEF Kept, Simulated, IndInv
<1> QED BY <1>6, <1>7 DEF ReceiveFrame

LEMMA ReceiveEndStep ==
    ASSUME IndInv, ReceiveEnd
    PROVE  Kept /\ returned'.kind # "sought"
<1>1. /\ pc = "receiving" /\ drained /\ held = {} /\ exhausted' = TRUE /\ Return("end")
      /\ UNCHANGED <<file, position, held, drained, draining, target>>
  BY DEF ReceiveEnd, codec
<1>2. /\ TypeOK /\ Row /\ HeldWasRead /\ CodecAgrees /\ Reported
      /\ Length' = Length /\ Pending' = Pending /\ Place' = Place
  BY <1>1 DEF IndInv, Length, Pending, Unread, Place
<1>3. returned' = [kind |-> "end", picture |-> 0] /\ pc' = "idle"
  BY <1>1 DEF Return, Failures
<1>4. TypeOK'
  <2>1. "end" \in Kinds
    BY DEF Kinds
  <2>2. returned' \in [kind : Kinds, picture : 0 .. Length']
    BY <1>1, <1>2, <2>1, ReturnIsTyped
  <2> QED BY <1>1, <1>2, <1>3, <2>2 DEF TypeOK, Length, Kinds
<1>5. Pending = {}
  BY <1>1, <1>2, UnreadIsTyped, SMT DEF CodecAgrees, Pending, Unread
<1>6. Row' /\ HeldWasRead' /\ CodecAgrees' /\ Reported'
  BY <1>1, <1>2, <1>3 DEF Row, HeldWasRead, CodecAgrees, Reported, Failures
<1>7. Stream!Next
  <2>1. Stream!End
    BY <1>1, <1>2, <1>3, <1>5 DEF Stream!End, Stream!Result, Place, Reported
  <2> QED BY <1>2, <2>1 DEF Stream!Next
<1> QED BY <1>3, <1>4, <1>6, <1>7 DEF Kept, Simulated, IndInv

(* A call that fails and leaves all but the flag of the drain alone.       *)
LEMMA FailsInPlace ==
    ASSUME IndInv, pc # "failed", NEW kind \in Failures, Return(kind),
           UNCHANGED <<file, position, held, drained, exhausted, target>>,
           draining' \in BOOLEAN
    PROVE  Kept /\ returned'.kind # "sought"
<1>1. TypeOK /\ Length' = Length
  BY DEF IndInv, Length
<1>2. TypeOK'
  <2>1. returned' \in [kind : Kinds, picture : 0 .. Length'] /\ pc' \in {"idle", "failed"}
    BY <1>1, ReturnIsTyped DEF Kinds
  <2> QED BY <1>1, <2>1 DEF TypeOK, Length, Kinds
<1> QED BY <1>2, FailedStep DEF Return, Failures

LEMMA ReceiveNothingStep ==
    ASSUME IndInv, ReceiveNothing
    PROVE  /\ Kept
           /\ returned'.kind = "sought" => UNCHANGED <<file, Place, returned, target>>
<1>1. pc = "receiving" /\ UNCHANGED <<file, position, held, drained, draining, exhausted, target>>
  BY DEF ReceiveNothing, codec, flags
<1>2. TypeOK /\ HeldWasRead /\ CodecAgrees
  BY <1>1 DEF IndInv
<1>3. CASE Return("kDecodeFrame")
  <2>1. "kDecodeFrame" \in Failures /\ draining' \in BOOLEAN
    BY <1>1, <1>2 DEF Failures, TypeOK
  <2> QED BY <1>1, <1>3, <2>1, FailsInPlace
<1>4. CASE /\ ~OutputIsReady /\ ~drained
           /\ IF draining THEN Return("input after the end")
                          ELSE pc' = "reading" /\ UNCHANGED returned
  <2>1. pc' = "reading" /\ UNCHANGED returned
    BY <1>2, <1>4 DEF CodecAgrees
  <2>2. TypeOK'
    BY <1>1, <1>2, <2>1 DEF TypeOK, Length
  <2>3. Pending' = Pending
    BY <1>1 DEF Pending, Unread
  <2>4. HeldWasRead' /\ CodecAgrees'
    BY <1>1, <1>2, <1>4, <2>1 DEF HeldWasRead, CodecAgrees, OutputIsReady
  <2> QED BY <1>1, <2>1, <2>2, <2>3, <2>4, QuietStep
<1> QED BY <1>3, <1>4 DEF ReceiveNothing

LEMMA ReadVideoPacketStep ==
    ASSUME IndInv, ReadVideoPacket
    PROVE  /\ Kept
           /\ returned'.kind = "sought" => UNCHANGED <<file, Place, returned, target>>
<1> DEFINE packet == file.packets[position]
<1>1. /\ pc = "reading" /\ position <= Len(file.packets) /\ position' = position + 1
      /\ UNCHANGED <<file, drained, draining, exhausted, target>>
  BY DEF ReadVideoPacket, flags
<1>2. TypeOK /\ HeldWasRead /\ CodecAgrees /\ ~OutputIsReady /\ ~drained
  BY <1>1 DEF IndInv, CodecAgrees
<1>3. /\ file \in Media /\ Len(file.packets) \in Nat
      /\ position \in 1 .. Len(file.packets)
      /\ position' \in 1 .. Len(file.packets) + 1
      /\ VideoPackets(file) \subseteq 1 .. Len(file.packets)
  <2>1. file \in Media /\ Len(file.packets) \in Nat /\ position \in 1 .. Len(file.packets) + 1
        /\ VideoPackets(file) \subseteq 1 .. Len(file.packets)
    BY <1>2, UnreadIsTyped DEF TypeOK
  <2> QED BY <1>1, <2>1, SMT
<1>4. Refusal = "kDecodeFrame"
  BY <1>2 DEF Refusal
<1>5. IsSelected(packet) <=> position \in VideoPackets(file)
  BY <1>3, PlayableFile DEF IsSelected
<1>6. \A j \in VideoPackets(file) : j >= position <=> j >= position' \/ j = position
  BY <1>1, <1>3, SMT
<1>7. \A j \in VideoPackets(file) : j < position => j < position'
  BY <1>1, <1>3, SMT
<1>8. position < position' /\ ~(position >= position')
  BY <1>1, <1>3, SMT
<1>9. Length' = Length
  BY <1>1 DEF Length
<1>10. CASE ~IsSelected(packet) /\ UNCHANGED <<held, pc, returned>>
  <2>1. Unread' = Unread
    BY <1>1, <1>5, <1>6, <1>10 DEF Unread
  <2>2. Pending' = Pending
    BY <1>10, <2>1 DEF Pending
  <2>3. TypeOK'
    BY <1>1, <1>2, <1>3, <1>10 DEF TypeOK, Length
  <2>4. HeldWasRead'
    BY <1>1, <1>2, <1>7, <1>10 DEF HeldWasRead
  <2>5. CodecAgrees'
    BY <1>1, <1>2, <1>10 DEF CodecAgrees, OutputIsReady
  <2> QED BY <1>1, <1>10, <2>2, <2>3, <2>4, <2>5, QuietStep
<1>11. CASE IsSelected(packet) /\ Return(Refusal) /\ UNCHANGED held
  <2>1. Return("kDecodeFrame") /\ "kDecodeFrame" \in Failures /\ "kDecodeFrame" \in Kinds
    BY <1>4, <1>11 DEF Failures, Kinds
  <2>2. returned' \in [kind : Kinds, picture : 0 .. Length'] /\ pc' \in {"idle", "failed"}
    BY <1>1, <1>2, <2>1, ReturnIsTyped
  <2>3. TypeOK'
    BY <1>1, <1>2, <1>3, <1>11, <2>2 DEF TypeOK, Length, Kinds
  <2>4. Kept
    BY <1>1, <2>1, <2>3, FailedStep
  <2> QED BY <2>1, <2>4 DEF Return
<1>12. CASE /\ IsSelected(packet) /\ held' = held \cup {packet.picture}
            /\ pc' = "receiving" /\ UNCHANGED returned
  <2>1. position \in VideoPackets(file) /\ packet.picture = Picture(file, position)
    BY <1>5, <1>12 DEF Picture
  <2>2. Unread = Unread' \cup {packet.picture}
    BY <1>1, <1>6, <2>1 DEF Unread
  <2>3. Pending' = Pending
    BY <1>12, <2>2 DEF Pending
  <2>4. packet.picture \in DOMAIN file.timestamps
    BY <1>3, <2>1, PlayableFile
  <2>5. TypeOK'
    BY <1>1, <1>2, <1>3, <1>12, <2>4 DEF TypeOK, Length
  <2>6. HeldWasRead'
    BY <1>1, <1>2, <1>7, <1>8, <1>12, <2>1 DEF HeldWasRead
  <2>7. CodecAgrees'
    BY <1>1, <1>2, <1>12 DEF CodecAgrees
  <2> QED BY <1>1, <1>12, <2>3, <2>5, <2>6, <2>7, QuietStep
<1> QED BY <1>10, <1>11, <1>12 DEF ReadVideoPacket

LEMMA DrainStep ==
    ASSUME IndInv, Drain
    PROVE  /\ Kept
           /\ returned'.kind = "sought" => UNCHANGED <<file, Place, returned, target>>
<1>1. /\ pc = "reading" /\ position > Len(file.packets) /\ draining' = TRUE
      /\ UNCHANGED <<file, position, held, exhausted, target>>
  BY DEF Drain
<1>2. TypeOK /\ HeldWasRead /\ CodecAgrees
  BY <1>1 DEF IndInv
<1>3. CASE Return("kDecodeFrame") /\ UNCHANGED drained
  <2>1. "kDecodeFrame" \in Failures /\ draining' \in BOOLEAN
    BY <1>1 DEF Failures
  <2> QED BY <1>1, <1>3, <2>1, FailsInPlace
<1>4. CASE drained' = TRUE /\ pc' = "receiving" /\ UNCHANGED returned
  <2>1. TypeOK'
    BY <1>1, <1>2, <1>4 DEF TypeOK, Length
  <2>2. Pending' = Pending
    BY <1>1 DEF Pending, Unread
  <2>3. HeldWasRead' /\ CodecAgrees'
    BY <1>1, <1>2, <1>4 DEF HeldWasRead, CodecAgrees
  <2> QED BY <1>1, <1>4, <2>1, <2>2, <2>3, QuietStep
<1> QED BY <1>3, <1>4 DEF Drain

LEMMA FailToReadStep ==
    ASSUME IndInv, FailToReadPacket
    PROVE  Kept /\ returned'.kind # "sought"
<1>1. /\ pc = "reading" /\ Return("kReadPacket")
      /\ UNCHANGED <<file, position, held, drained, draining, exhausted, target>>
  BY DEF FailToReadPacket, codec, flags
<1>2. "kReadPacket" \in Failures /\ draining' \in BOOLEAN
  BY <1>1 DEF Failures, IndInv, TypeOK
<1> QED BY <1>1, <1>2, FailsInPlace

-----------------------------------------------------------------------------
(* The theorems. *)

LEMMA InitKept ==
    ASSUME Init
    PROVE  IndInv /\ SeekIsNotLate /\ Stream!Init
<1>1. /\ file \in Media /\ position = 1 /\ held = {}
      /\ drained = FALSE /\ draining = FALSE /\ exhausted = FALSE
      /\ pc = "idle" /\ returned = [kind |-> "opened", picture |-> 0]
      /\ target = Nothing
  BY DEF Init, Opened
<1>2. /\ Length \in Nat /\ Len(file.packets) \in Nat
      /\ VideoPackets(file) \subseteq 1 .. Len(file.packets)
  BY <1>1, PlayableFile DEF Length
<1>3. TypeOK
  <2>1. 0 \in 0 .. Length /\ 1 \in 1 .. Len(file.packets) + 1
    BY <1>2, SMT
  <2> QED BY <1>1, <2>1 DEF TypeOK
<1>4. Unread = 1 .. Length
  <2>1. \A i \in VideoPackets(file) : i >= position
    BY <1>1, <1>2, SMT
  <2>2. Unread = {Picture(file, i) : i \in VideoPackets(file)}
    BY <2>1 DEF Unread, Picture
  <2> QED BY <1>1, <2>2, PlayableFile, PlayableOrder DEF Length
<1>5. Pending = 1 .. Length /\ 1 \in 1 .. Length + 1
  BY <1>1, <1>2, <1>4, SMT DEF Pending
<1>6. Row /\ Place = 1
  BY <1>3, <1>5, PlaceIs DEF Row
<1>7. HeldWasRead /\ CodecAgrees /\ Reported
  BY <1>1 DEF HeldWasRead, CodecAgrees, Reported, Failures
<1>8. SeekIsNotLate
  BY <1>1 DEF SeekIsNotLate
<1>9. Stream!Init
  BY <1>1, <1>2, <1>6 DEF Stream!Init, Stream!Result
<1> QED BY <1>3, <1>6, <1>7, <1>8, <1>9 DEF IndInv

(* A step other than a seek either ends the call or leaves the target      *)
(* where it is.                                                            *)
LEMMA OtherSteps ==
    ASSUME IndInv, ReadFrame \/ ReadStep
    PROVE  /\ Kept
           /\ returned'.kind = "sought" => UNCHANGED <<file, Place, returned, target>>
<1>1. CASE ReadFrame         BY <1>1, ReadFrameStep
<1>2. CASE ReceiveFrame      BY <1>2, ReceiveFrameStep
<1>3. CASE ReceiveEnd        BY <1>3, ReceiveEndStep
<1>4. CASE ReceiveNothing    BY <1>4, ReceiveNothingStep
<1>5. CASE ReadVideoPacket   BY <1>5, ReadVideoPacketStep
<1>6. CASE FailToReadPacket  BY <1>6, FailToReadStep
<1>7. CASE Drain             BY <1>7, DrainStep
<1> QED BY <1>1, <1>2, <1>3, <1>4, <1>5, <1>6, <1>7 DEF ReadStep

LEMMA Stutters ==
    ASSUME IndInv, UNCHANGED vars
    PROVE  /\ Kept
           /\ UNCHANGED <<file, Place, returned, target>>
<1>1. UNCHANGED <<file, position, held, drained, draining, exhausted, pc, returned, target>>
  BY DEF vars, codec, flags
<1>2. UNCHANGED <<Length, Pending, Place, OutputIsReady>>
  BY <1>1 DEF Length, Pending, Unread, Place, OutputIsReady
<1>3. IndInv'
  BY <1>1, <1>2 DEF IndInv, TypeOK, Reported, Row, HeldWasRead, CodecAgrees
<1> QED BY <1>1, <1>2, <1>3 DEF Kept, Simulated

LEMMA EveryStep ==
    ASSUME IndInv, [Next]_vars
    PROVE  Kept
<1>1. CASE UNCHANGED vars  BY <1>1, Stutters
<1>2. CASE \E index \in Targets : SeekToFrame(index)  BY <1>2, SeekStep
<1>3. CASE ReadFrame \/ ReadStep  BY <1>3, OtherSteps
<1> QED BY <1>1, <1>2, <1>3 DEF Next

(* Where a seek lands, reading on meets the frame: the timestamps between  *)
(* an earlier picture of the frame and the point sought are the frame's.   *)
LEMMA SeekLands ==
    ASSUME TypeOK, NEW l \in 1 .. Length, target \in Int,
           HasTimestamp(target, file.stream), Place = l,
           file.timestamps[l] # NoTimestamp,
           file.timestamps[l] <= FrameTimestamp(target, file.stream)
    PROVE  SeekIsNotLate
<1> DEFINE stream == file.stream
           ts == file.timestamps
<1>1. /\ IsPlayable(file) /\ Length \in Nat /\ DOMAIN ts = 1 .. Length
  BY VideoDecoderAssumption, UnreadIsTyped DEF TypeOK
<1>2. Known(stream)
  BY <1>1 DEF IsPlayable, Known, Ratios, Step, Unit
<1>3. ts \in Seq(Int \cup {NoTimestamp})
  BY <1>1 DEF IsPlayable
<1>4. \A p \in 1 .. Length : ts[p] \in Int \cup {NoTimestamp}
  BY <1>1, <1>3
<1> SUFFICES ASSUME NEW p \in 1 .. Length, FrameIndex(ts[p], stream) = target
             PROVE  \E q \in l .. Length : FrameIndex(ts[q], stream) = target
  BY <1>1 DEF SeekIsNotLate
<1>5. CASE l <= p
  <2>1. p \in l .. Length
    BY <1>1, <1>5, SMT
  <2> QED BY <2>1
<1>6. CASE p < l
  <2>1. ts[p] # NoTimestamp
    <3>1. target >= 0
      BY DEF HasTimestamp
    <3>2. target \in Nat
      BY <3>1, SMT
    <3>3. target # NoIndex
      BY <3>2, FrameTimingAssumption
    <3> QED BY <3>3 DEF FrameIndex, IsIndexed
  <2>2. ts[p] < ts[l]
    BY <1>1, <1>6, <2>1 DEF IsPlayable
  <2>3. ts[p] \in Int /\ ts[l] \in Int /\ ts[p] <= ts[l]
    <3>1. ts[p] \in Int /\ ts[l] \in Int
      BY <1>4, <2>1
    <3> QED BY <2>2, <3>1, SMT
  <2>4. FrameIndex(ts[l], stream) = target
    BY <1>2, <2>3, IndexBetween
  <2>5. l \in l .. Length
    BY <1>1, SMT
  <2> QED BY <2>4, <2>5
<1>7. l \in Int /\ p \in Int
  OBVIOUS
<1> QED BY <1>5, <1>6, <1>7, SMT

HasLanded ==
  /\ TypeOK /\ target \in Int /\ HasTimestamp(target, file.stream)
  /\ Place \in 1 .. Length
  /\ file.timestamps[Place] # NoTimestamp
  /\ file.timestamps[Place] <= FrameTimestamp(target, file.stream)

LEMMA LandedIsNotLate == HasLanded => SeekIsNotLate
  BY SeekLands DEF HasLanded

LEMMA KeepsSeekIsNotLate ==
    ASSUME IndInv, SeekIsNotLate, [Next]_vars
    PROVE  SeekIsNotLate'
<1>1. CASE UNCHANGED <<file, Place, returned, target>>
  BY <1>1 DEF SeekIsNotLate, Length
<1>2. CASE returned'.kind # "sought"
  BY <1>2 DEF SeekIsNotLate
<1>3. CASE \E index \in Targets : SeekToFrame(index) /\ returned'.kind = "sought"
  <2>1. PICK index \in Targets : SeekToFrame(index) /\ returned'.kind = "sought"
    BY <1>3
  <2>2. /\ HasTimestamp(index, file.stream) /\ target' = index /\ Place' \in 1 .. Length
        /\ file.timestamps[Place'] # NoTimestamp
        /\ file.timestamps[Place'] <= FrameTimestamp(index, file.stream)
    BY <2>1, SeekStep
  <2>3. file' = file /\ Length' = Length /\ index \in Int
    BY <2>1, VideoDecoderAssumption DEF SeekToFrame, Length
  <2>4. TypeOK'
    BY EveryStep DEF Kept, IndInv
  <2>5. (HasLanded => SeekIsNotLate)'
    BY LandedIsNotLate, PTL
  <2>6. HasLanded'
    BY <2>2, <2>3, <2>4 DEF HasLanded
  <2> QED BY <2>5, <2>6
<1>4. CASE ReadFrame \/ ReadStep
  BY <1>1, <1>2, <1>4, OtherSteps
<1>5. CASE UNCHANGED vars
  BY <1>1, <1>5, Stutters
<1> QED BY <1>2, <1>3, <1>4, <1>5 DEF Next

LEMMA KeepsProtocol ==
    ASSUME IndInv, ProtocolIsKept, [Next]_vars
    PROVE  ProtocolIsKept'
<1>1. CASE UNCHANGED returned
  BY <1>1 DEF ProtocolIsKept
<1>2. ASSUME NEW kind \in {"kSeek", "kReadPacket", "kDecodeFrame", "kConvertFrame",
                           "sought", "end"},
             Return(kind)
      PROVE  ProtocolIsKept'
  BY <1>2 DEF Return, ProtocolIsKept
<1>3. CASE \E index \in Targets : SeekToFrame(index)
  BY <1>2, <1>3 DEF SeekToFrame
<1>4. CASE ReadFrame
  BY <1>1, <1>2, <1>4 DEF ReadFrame
<1>5. CASE ReceiveFrame
  <2>1. CASE ReturnPicture(Min(held))
    <3>1. returned'.kind = "picture"
      BY <2>1 DEF ReturnPicture
    <3> QED BY <3>1 DEF ProtocolIsKept
  <2>2. CASE Return("kConvertFrame")
    BY <1>2, <2>2
  <2> QED BY <1>5, <2>1, <2>2 DEF ReceiveFrame
<1>6. CASE ReceiveEnd
  BY <1>2, <1>6 DEF ReceiveEnd
<1>7. CASE ReceiveNothing
  <2>1. ~drained => ~draining
    BY <1>7 DEF ReceiveNothing, IndInv, CodecAgrees
  <2> QED BY <1>1, <1>2, <1>7, <2>1 DEF ReceiveNothing
<1>8. CASE ReadVideoPacket
  <2>1. Refusal = "kDecodeFrame"
    BY <1>8 DEF ReadVideoPacket, IndInv, CodecAgrees, Refusal
  <2> QED BY <1>1, <1>2, <1>8, <2>1 DEF ReadVideoPacket
<1>9. CASE FailToReadPacket
  BY <1>2, <1>9 DEF FailToReadPacket
<1>10. CASE Drain
  BY <1>1, <1>2, <1>10 DEF Drain
<1>11. CASE UNCHANGED vars
  BY <1>1, <1>11 DEF vars
<1> QED BY <1>3, <1>4, <1>5, <1>6, <1>7, <1>8, <1>9, <1>10, <1>11 DEF Next, ReadStep

(* The inductive invariant of the decoder, and where a seek has landed.    *)
(* (FfmpegVideoDecoder)                                                    *)
THEOREM Invariance == Spec => [](IndInv /\ SeekIsNotLate)
<1>1. IndInv /\ SeekIsNotLate /\ [Next]_vars => (IndInv /\ SeekIsNotLate)'
  BY EveryStep, KeepsSeekIsNotLate DEF Kept
<1> QED BY <1>1, InitKept, PTL DEF Spec

(* The decoder's state is always one of its types. (FfmpegVideoDecoder)    *)
THEOREM TypeCorrect == Spec => []TypeOK
<1>1. IndInv => TypeOK
  BY DEF IndInv
<1> QED BY <1>1, Invariance, PTL

(* The codec is never given a packet while it has output, nor anything     *)
(* after the end, whatever the caller's reads and seeks.                   *)
(* (ReadFrame, ReadVideoPacket and Seek)                                   *)
THEOREM Protocol == Spec => []ProtocolIsKept
<1>1. Init => ProtocolIsKept
  BY DEF Init, Opened, ProtocolIsKept
<1>2. IndInv /\ ProtocolIsKept /\ [Next]_vars => ProtocolIsKept'
  BY KeepsProtocol
<1> QED BY <1>1, <1>2, Invariance, PTL DEF Spec

(* A seek to a frame never lands behind it, whatever the rate, the start   *)
(* and the time base, if that is no coarser than the frames.               *)
(* (SeekToFrame and FrameIndex)                                            *)
THEOREM SeekBefore == Spec => []SeekIsNotLate
  BY Invariance, PTL

(* The decoder is the row of pictures its callers rely on. (Seek,          *)
(* SeekToFrame and ReadFrame against the interface VideoDecoder)           *)
THEOREM Refinement == Spec => ImplementsFrameStream
<1>1. Init => Stream!Init
  BY InitKept
<1>2. IndInv /\ [Next]_vars => [Stream!Next]_<<Length, Place, returned>>
  BY EveryStep DEF Kept, Simulated
<1> QED BY <1>1, <1>2, Invariance, PTL DEF Spec, ImplementsFrameStream, Stream!Spec

-----------------------------------------------------------------------------
(* The decoder handed on by the inspection.                                *)

(* The inspection leaves the decoder alone, and the caller does nothing    *)
(* with it that VideoDecoder does not allow.                               *)
(* (TimelineVideoInspectionReceipt)                                        *)
THEOREM ReceiptUsesTheDecoder == ReceiptSpec => Spec
<1>1. ReceiptInit => Init
  BY DEF ReceiptInit
<1>2. [ReceiptNext]_<<vars, inspected>> => [Next]_vars
  BY DEF ReceiptNext, Inspect, UseDecoder
<1> QED BY <1>1, <1>2, PTL DEF ReceiptSpec, Spec

(* So what holds of the decoder holds of the one in a receipt.             *)
THEOREM ReceiptReadsARow ==
    ReceiptSpec => []ProtocolIsKept /\ []SeekIsNotLate /\ ImplementsFrameStream
BY ReceiptUsesTheDecoder, Protocol, SeekBefore, Refinement

-----------------------------------------------------------------------------
(* Rounding to the nearest: what is less than half a unit off.             *)
LEMMA Nearest ==
    ASSUME NEW n \in Int, NEW d \in Nat \ {0}, NEW g \in Int,
           2 * (n - g * d) < d, 2 * (g * d - n) < d
    PROVE  (n + d \div 2) \div d = g
<1> DEFINE h == d \div 2
           e == g * d
<1>1. h \in Int /\ 2 * h <= d /\ d <= 2 * h + 1
  BY SMT
<1>2. e \in Int
  BY SMT
<1>3. e <= n + h /\ n + h < e + d
  <2> HIDE DEF e, h
  <2>1. 2 * (n - e) < d /\ 2 * (e - n) < d
    BY DEF e
  <2> QED BY <1>1, <1>2, <2>1, SMT
<1> QED
  <2> HIDE DEF h
  <2> QED BY <1>1, <1>3, QuotientIs, SMT

(* Ticks that are no longer than frames, a to b of each: the nearest to a  *)
(* number f of frames is o, which is off by half a tick at most.           *)
Ticks(f, a, b) == (f * a + b \div 2) \div b

LEMMA TicksAreNear ==
    ASSUME NEW f \in Nat, NEW a \in Nat \ {0}, NEW b \in Nat \ {0}, b <= a
    PROVE  /\ Ticks(f, a, b) \in Nat
           /\ Ticks(f, a, b) * b \in Int /\ f * a \in Int
           /\ 2 * (Ticks(f, a, b) * b - f * a) <= b
           /\ 2 * (f * a - Ticks(f, a, b) * b) <= b
           /\ a = b => Ticks(f, a, b) * b = f * a
<1> DEFINE o == Ticks(f, a, b)
           v == f * a
           w == o * b
           t == b \div 2
<1>1. v \in Int /\ t \in Int /\ v >= 0 /\ 2 * t <= b /\ b <= 2 * t + 1
  BY SMT
<1>2. o \in Int /\ w <= v + t /\ v + t < w + b
  BY <1>1, Quotient DEF Ticks
<1>3. w \in Int
  BY <1>2, SMT
<1>4. o >= 0
  <2>1. CASE o <= -1
    <3>1. w <= - b
      <4>1. (- o - 1) * b >= 0 /\ (- o - 1) * b = - w - b
        <5> HIDE DEF o
        <5> QED BY <1>2, <2>1, SMT
      <4> HIDE DEF w
      <4> QED BY <1>3, <4>1, SMT
    <3> HIDE DEF w, v, t
    <3> QED BY <1>1, <1>2, <1>3, <3>1, SMT
  <2> HIDE DEF o
  <2> QED BY <1>2, <2>1, SMT
<1>5. 2 * (w - v) <= b /\ 2 * (v - w) <= b
  <2> HIDE DEF w, v, t
  <2> QED BY <1>1, <1>2, <1>3, SMT
<1>6. ASSUME a = b PROVE w = v
  <2>1. (f - o) * a = v - w
    <3> HIDE DEF o
    <3> QED BY <1>2, <1>6, SMT
  <2>2. CASE f > o
    <3>1. (f - o - 1) * a >= 0 /\ (f - o - 1) * a = v - w - a
      <4> HIDE DEF o
      <4> QED BY <1>2, <1>6, <2>2, SMT
    <3> HIDE DEF w, v, o
    <3> QED BY <1>1, <1>3, <1>5, <1>6, <3>1, SMT
  <2>3. CASE f < o
    <3>1. (o - f - 1) * a >= 0 /\ (o - f - 1) * a = w - v - a
      <4> HIDE DEF o
      <4> QED BY <1>2, <1>6, <2>3, SMT
    <3> HIDE DEF w, v, o
    <3> QED BY <1>1, <1>3, <1>5, <1>6, <3>1, SMT
  <2>4. CASE f = o
    BY <1>6, <2>4
  <2> HIDE DEF o
  <2> QED BY <1>2, <2>2, <2>3, <2>4, SMT
<1> QED BY <1>1, <1>2, <1>3, <1>4, <1>5, <1>6, SMT

(* Counted at a rate J / K of the true one, the ticks of f frames are g    *)
(* frames: o * c / d rounds to g, if o * b * J / K does in units of a.     *)
LEMMA CountedAt ==
    ASSUME NEW o \in Nat, NEW a \in Nat \ {0}, NEW b \in Nat \ {0},
           NEW c \in Nat, NEW d \in Nat \ {0},
           NEW J \in Nat, NEW K \in Nat \ {0}, NEW g \in Int,
           c * a * K = b * d * J,
           2 * (o * b * J - g * a * K) < a * K,
           2 * (g * a * K - o * b * J) < a * K
    PROVE  (o * c + d \div 2) \div d = g
<1> DEFINE n == o * c
           m == a * K
           x == n - g * d
           y == o * b * J - g * a * K
<1>1. m \in Nat /\ m > 0
  BY SMT
<1>2. x \in Int /\ y \in Int /\ n \in Int
  BY SMT
<1>3. x * m = y * d
  <2>1. n * m = o * (c * a * K)
    BY SMT
  <2>2. o * (c * a * K) = o * (b * d * J)
    OBVIOUS
  <2>3. o * (b * d * J) = (o * b * J) * d
    BY SMT
  <2>4. x * m = n * m - g * d * m
    BY SMT
  <2>5. y * d = (o * b * J) * d - g * d * m
    BY SMT
  <2>6. n * m = (o * b * J) * d
    BY <2>1, <2>2, <2>3
  <2> QED BY <2>4, <2>5, <2>6
<1>4. 2 * y < m /\ 2 * (- y) < m
  <2> DEFINE p == o * b * J
             q == g * a * K
  <2>1. p \in Int /\ q \in Int
    BY SMT
  <2>2. 2 * (p - q) < m /\ 2 * (q - p) < m
    OBVIOUS
  <2>3. y = p - q
    OBVIOUS
  <2> HIDE DEF p, q, y, m
  <2> QED BY <1>1, <2>1, <2>2, <2>3, SMT
<1> HIDE DEF x, y, m, n
<1>5. ASSUME NEW z \in Int, NEW u \in Int, z * m = u * d, 2 * u < m
      PROVE  2 * z < d
  <2>1. CASE 2 * z >= d
    <3>1. (2 * z - d) * m >= 0
      BY <1>1, <1>5, <2>1, SMT
    <3>2. (2 * z - d) * m = 2 * (z * m) - d * m
      BY <1>1, <1>5, SMT
    <3>3. (m - 2 * u) * d > 0
      BY <1>1, <1>5, SMT
    <3>4. (m - 2 * u) * d = d * m - 2 * (u * d)
      BY <1>1, <1>5, SMT
    <3>5. d * m \in Int /\ u * d \in Int
      BY <1>1, <1>5, SMT
    <3> QED BY <1>5, <3>1, <3>2, <3>3, <3>4, <3>5, SMT
  <2> QED BY <1>5, <2>1, SMT
<1>6. 2 * x < d
  BY <1>2, <1>3, <1>4, <1>5
<1>7. 2 * (- x) < d
  <2>1. (- x) * m = (- y) * d
    BY <1>1, <1>2, <1>3, SMT
  <2>2. - x \in Int /\ - y \in Int
    BY <1>2
  <2> QED BY <1>4, <1>5, <2>1, <2>2
<1>8. 2 * (n - g * d) < d /\ 2 * (g * d - n) < d
  <2>1. g * d \in Int
    BY SMT
  <2>2. x = n - g * d
    BY DEF x
  <2>3. - x = g * d - n
    BY <1>2, <2>1, <2>2, SMT
  <2> QED BY <1>6, <1>7, <2>2, <2>3
<1> QED BY <1>2, <1>8, Nearest DEF n

(* L pictures in f frames have the average rate c / d, in ticks.           *)
Averages(f, L, a, b, c, d) == b <= a /\ c * a * f = b * d * L

(* Counted at the average rate of L pictures in f frames, they are L.      *)
LEMMA AverageCounts ==
    ASSUME NEW f \in Nat \ {0}, NEW L \in 1 .. f,
           NEW a \in Nat \ {0}, NEW b \in Nat \ {0},
           NEW c \in Nat, NEW d \in Nat \ {0}, Averages(f, L, a, b, c, d)
    PROVE  (Ticks(f, a, b) * c + d \div 2) \div d = L
<1> USE DEF Averages
<1> DEFINE o == Ticks(f, a, b)
           w == o * b
           v == f * a
           e == w - v
<1>1. /\ o \in Nat /\ w \in Int /\ v \in Int
      /\ 2 * (w - v) <= b /\ 2 * (v - w) <= b /\ (a = b => w = v)
  BY TicksAreNear
<1>2. v \in Nat /\ v > 0
  BY SMT
<1>3. o * b * L = w * L /\ L * a * f = v * L
  BY <1>1, SMT
<1> HIDE DEF o, w, v
<1>4. e \in Int /\ 2 * e <= b /\ 2 * (- e) <= b /\ (a = b => e = 0)
  BY <1>1, SMT
<1>5. w * L - v * L = e * L
  BY <1>1, SMT
<1>6. v = a * f
  BY SMT DEF v
<1> HIDE DEF e
<1>7. ASSUME NEW x \in Int, 2 * x <= b, a = b => x = 0
      PROVE  2 * (x * L) < a * f
  <2>1. CASE x <= 0
    <3>1. (- x) * L >= 0 /\ (- x) * L = - (x * L) /\ x * L \in Int
      BY <1>7, <2>1, SMT
    <3> QED BY <1>2, <1>6, <3>1, SMT
  <2>2. CASE x > 0
    <3>1. 2 * x < a
      BY <1>7, <2>2, SMT
    <3>2. (a - 2 * x) * L > 0 /\ (a - 2 * x) * L = a * L - 2 * (x * L)
      BY <1>7, <3>1, SMT
    <3>3. a * (f - L) >= 0 /\ a * (f - L) = a * f - a * L
      BY SMT
    <3>4. a * L \in Int /\ a * f \in Int /\ x * L \in Int
      BY <1>7, SMT
    <3> QED BY <3>2, <3>3, <3>4, SMT
  <2> QED BY <1>7, <2>1, <2>2, SMT
<1>8. 2 * (e * L) < a * f /\ 2 * ((- e) * L) < a * f
  <2>1. - e \in Int /\ (a = b => - e = 0)
    BY <1>4, SMT
  <2> QED BY <1>4, <1>7, <2>1
<1>9. /\ 2 * (o * b * L - L * a * f) < a * f
      /\ 2 * (L * a * f - o * b * L) < a * f
  <2>1. o * b * L - L * a * f = e * L
    BY <1>3, <1>5
  <2>2. L * a * f - o * b * L = (- e) * L
    <3>1. w * L \in Int /\ v * L \in Int /\ (- e) * L = - (e * L) /\ e * L \in Int
      BY <1>1, <1>4, SMT
    <3> QED BY <1>3, <1>5, <3>1, SMT
  <2> QED BY <1>8, <2>1, <2>2
<1>10. L \in Nat /\ L \in Int
  OBVIOUS
<1>11. (o * c + d \div 2) \div d = L
  <2> HIDE DEF o
  <2> QED BY <1>1, <1>9, <1>10, CountedAt
<1> QED BY <1>11 DEF o

(* One frame in M is lost by counting at c / d, to no more than f frames.  *)
Loses(f, a, b, c, d, M) ==
    /\ b <= a /\ c * a * M = b * d * (M - 1) /\ 2 * f < M
    /\ b < a => 2 * f * (a \div (a - b) + 1) <= M

(* Counted at a rate that loses one frame in M, they are f as long as what *)
(* is lost is less than what the ticks leave of half a frame.              *)
LEMMA ApproximationCounts ==
    ASSUME NEW f \in Nat, NEW a \in Nat \ {0}, NEW b \in Nat \ {0},
           NEW c \in Nat, NEW d \in Nat \ {0}, NEW M \in Nat \ {0},
           Loses(f, a, b, c, d, M)
    PROVE  (Ticks(f, a, b) * c + d \div 2) \div d = f
<1> USE DEF Loses
<1> DEFINE o == Ticks(f, a, b)
           w == o * b
           v == f * a
           e == w - v
           J == M - 1
<1>1. /\ o \in Nat /\ w \in Int /\ v \in Int
      /\ 2 * (w - v) <= b /\ 2 * (v - w) <= b /\ (a = b => w = v)
  BY TicksAreNear
<1>2. v \in Nat /\ J \in Nat
  BY SMT
<1>3. o * b * J = w * J /\ f * a * M = v * M
  BY <1>1, <1>2, SMT
<1>4. e \in Int /\ 2 * e <= b /\ 2 * (- e) <= b /\ (a = b => e = 0)
  <2> HIDE DEF w, v
  <2> QED BY <1>1, SMT
<1>5. w * J - v * M = e * J - v
  <2>1. w = v + e /\ M = J + 1
    <3> HIDE DEF w, v
    <3> QED BY <1>1, SMT
  <2>2. w * J = v * J + e * J
    <3> HIDE DEF w, v, e, J
    <3> QED BY <1>1, <1>2, <1>4, <2>1, SMT
  <2>3. v * M = v * J + v
    <3> HIDE DEF v, J
    <3> QED BY <1>1, <1>2, <2>1, SMT
  <2>4. v * J \in Int /\ e * J \in Int
    <3> HIDE DEF v, e, J
    <3> QED BY <1>1, <1>2, <1>4, SMT
  <2> HIDE DEF w, v, e, J
  <2> QED BY <1>1, <2>2, <2>3, <2>4, SMT
<1>6. e * J \in Int /\ a * M \in Int /\ b * J \in Int /\ a * J \in Int /\ a * M = a * J + a
  <2>1. M = J + 1
    OBVIOUS
  <2> HIDE DEF e, J
  <2> QED BY <1>2, <1>4, <2>1, SMT
<1>7. 2 * (e * J) <= b * J /\ 2 * (- (e * J)) <= b * J /\ b * J <= a * J
  <2> HIDE DEF e, J
  <2>1. (b - 2 * e) * J >= 0 /\ (b - 2 * e) * J = b * J - 2 * (e * J)
    BY <1>2, <1>4, SMT
  <2>2. (b + 2 * e) * J >= 0 /\ (b + 2 * e) * J = b * J + 2 * (e * J)
    BY <1>2, <1>4, SMT
  <2>3. (a - b) * J >= 0 /\ (a - b) * J = a * J - b * J
    BY <1>2, SMT
  <2> QED BY <1>6, <2>1, <2>2, <2>3, SMT
<1>8. 2 * (e * J - v) < a * M
  <2> HIDE DEF e, J, v
  <2> QED BY <1>2, <1>6, <1>7, SMT
<1>9. 2 * (v - e * J) < a * M
  <2>1. CASE a = b
    <3>1. e * J = 0
      <4>1. e = 0
        BY <1>4, <2>1
      <4> HIDE DEF e, J
      <4> QED BY <1>2, <4>1, SMT
    <3>2. (M - 2 * f) * a > 0 /\ (M - 2 * f) * a = a * M - 2 * v
      BY SMT
    <3>3. a * M - 2 * v > 0
      BY <3>2
    <3> HIDE DEF e, J, v
    <3> QED BY <1>1, <1>6, <3>1, <3>3, SMT
  <2>2. CASE b < a
    <3> DEFINE room == a - b
               q == a \div room
    <3>1. room \in Nat /\ room > 0 /\ q \in Int /\ a < q * room + room /\ q * room \in Int
      <4>1. room \in Int /\ room > 0 /\ a \in Int
        BY <2>2, SMT
      <4>2. q \in Int /\ a < q * room + room
        <5> HIDE DEF room
        <5> QED BY <4>1, Quotient
      <4> HIDE DEF q, room
      <4> QED BY <4>1, <4>2, SMT
    <3>2. 2 * f * (q + 1) <= M
      BY <2>2
    <3>3. a * M - b * M = M * room /\ M * room \in Int /\ b * M \in Int
      BY SMT
    <3>4. b * M = b * J + b
      BY SMT
    <3> HIDE DEF room, q
    <3>5. (M - 2 * f * (q + 1)) * room >= 0
      <4>1. M - 2 * f * (q + 1) \in Int /\ M - 2 * f * (q + 1) >= 0
        BY <3>1, <3>2, SMT
      <4> DEFINE z == M - 2 * f * (q + 1)
      <4> HIDE DEF z
      <4>2. z * room >= 0
        BY <3>1, <4>1, SMT DEF z
      <4> QED BY <4>2 DEF z
    <3>6. (M - 2 * f * (q + 1)) * room = M * room - 2 * (f * (q * room + room))
      BY <3>1, SMT
    <3>7. f * (q * room + room - a) >= 0
      <4> DEFINE z == q * room + room - a
      <4>1. z \in Int /\ z >= 0
        BY <3>1, SMT
      <4> HIDE DEF z
      <4>2. f * z >= 0
        BY <4>1, SMT
      <4> QED BY <4>2 DEF z
    <3>8. f * (q * room + room - a) = f * (q * room + room) - v
      BY <3>1, SMT
    <3>9. f * (q * room + room) \in Int
      BY <3>1, SMT
    <3>10. 2 * v <= M * room
      <4> DEFINE z == f * (q * room + room)
      <4>1. z \in Int /\ M * room - 2 * z >= 0 /\ z - v >= 0
        BY <3>5, <3>6, <3>7, <3>8, <3>9
      <4> HIDE DEF z, v
      <4> QED BY <1>1, <3>3, <4>1, SMT
    <3> HIDE DEF e, J, v
    <3> QED BY <1>1, <1>6, <1>7, <3>3, <3>4, <3>10, SMT
  <2> QED BY <2>1, <2>2, SMT
<1>10. /\ 2 * (o * b * J - f * a * M) < a * M
       /\ 2 * (f * a * M - o * b * J) < a * M
  <2>1. o * b * J - f * a * M = e * J - v
    BY <1>3, <1>5
  <2>2. f * a * M - o * b * J = v - e * J
    <3>1. w * J \in Int /\ v * M \in Int
      <4> HIDE DEF w, v, J
      <4> QED BY <1>1, <1>2, SMT
    <3> DEFINE x == o * b * J
               y == f * a * M
               z == e * J
    <3>2. x \in Int /\ y \in Int /\ z \in Int /\ x - y = z - v
      BY <1>3, <1>6, <2>1, <3>1
    <3>3. y - x = v - z
      <4> HIDE DEF x, y, z, v
      <4> QED BY <1>1, <3>2, SMT
    <3> QED BY <3>3
  <2> QED BY <1>8, <1>9, <2>1, <2>2
<1>11. (o * c + d \div 2) \div d = f
  <2>1. c * a * M = b * d * J /\ f \in Int
    OBVIOUS
  <2> HIDE DEF o, J
  <2> QED BY <1>1, <1>2, <1>10, <2>1, CountedAt
<1> QED BY <1>11 DEF o

(* The instance's operators on rates, labels and durations are the         *)
(* decoder's.                                                              *)
LEMMA SameGcd == Inspection!Gcd = Gcd
  BY DEF Inspection!Gcd, Gcd

LEMMA SameTimes ==
    /\ Inspection!StandardRates = StandardRates
    /\ Inspection!Modes = Modes /\ Inspection!Int32Max = Int32Max
    /\ \A q, r : Inspection!CreateRate(q, r) = CreateRate(q, r)
    /\ \A r : Inspection!Inverted(r) = Inverted(r)
    /\ \A r, m, l : Inspection!IsTimecode(l, r, m) = IsTimecode(l, r, m)
    /\ \A r, m, l : Inspection!ToFrameCount(l, r, m) = ToFrameCount(l, r, m)
    /\ \A v, r, s : Inspection!Rescaled(v, r, s) = Rescaled(v, r, s)
    /\ \A v, r, s : Inspection!FramesInDuration(v, r, s) = FramesInDuration(v, r, s)
<1>1. \A x, y : Inspection!Rate(x, y) = Rate(x, y)
  BY DEF Inspection!Rate, Rate
<1>2. Inspection!StandardRates = StandardRates
  BY <1>1 DEF Inspection!StandardRates, StandardRates
<1>3. Inspection!Modes = Modes /\ Inspection!Int32Max = Int32Max
  BY DEF Inspection!Modes, Modes, Inspection!Int32Max, Int32Max
<1>4. \A q, r : Inspection!CreateRate(q, r) = CreateRate(q, r)
  BY <1>1, SameGcd DEF Inspection!CreateRate, CreateRate
<1>5. \A r : Inspection!Inverted(r) = Inverted(r)
  BY <1>1 DEF Inspection!Inverted, Inverted
<1>6. \A v, r, s : Inspection!Rescaled(v, r, s) = Rescaled(v, r, s)
  BY DEF Inspection!Rescaled, Rescaled, Inspection!Int64Min, Int64Min
<1>7. \A v, r, s : Inspection!FramesInDuration(v, r, s) = FramesInDuration(v, r, s)
  BY DEF Inspection!FramesInDuration, FramesInDuration,
    Inspection!ProductFits, ProductFits, Inspection!SumFits, SumFits
<1>8. \A r, m, l : Inspection!ToFrameCount(l, r, m) = ToFrameCount(l, r, m)
  BY DEF Inspection!ToFrameCount, ToFrameCount, Inspection!LabeledFrame, LabeledFrame,
     Inspection!DroppedFramesPerMinute, DroppedFramesPerMinute,
     Inspection!NominalFramesPerSecond, NominalFramesPerSecond
<1>9. \A r, m, l : Inspection!IsTimecode(l, r, m) = IsTimecode(l, r, m)
  <2>1. \A r : Inspection!NominalFramesPerSecond(r) = NominalFramesPerSecond(r)
    BY DEF Inspection!NominalFramesPerSecond, NominalFramesPerSecond
  <2>2. \A r : Inspection!DroppedFramesPerMinute(r) = DroppedFramesPerMinute(r)
    BY <2>1 DEF Inspection!DroppedFramesPerMinute, DroppedFramesPerMinute
  <2>3. \A r, l : Inspection!IsDroppedLabel(l, r) = IsDroppedLabel(l, r)
    BY Zenon, <2>2 DEF Inspection!IsDroppedLabel, IsDroppedLabel
  <2>4. \A r : Inspection!IsSupportedDropFrameRate(r) = IsSupportedDropFrameRate(r)
    <3>1. {Inspection!Rate(30000, 1001), Inspection!Rate(60000, 1001)}
            = {Rate(30000, 1001), Rate(60000, 1001)}
      BY <1>1
    <3> QED BY <3>1 DEF Inspection!IsSupportedDropFrameRate, IsSupportedDropFrameRate
  <2>5. \A r, m : Inspection!IsSupported(r, m) = IsSupported(r, m)
    BY Zenon, <1>3, <2>1, <2>4 DEF Inspection!IsSupported, IsSupported
  <2> QED BY Zenon, <2>1, <2>3, <2>5 DEF Inspection!IsTimecode, IsTimecode
<1> QED BY <1>2, <1>3, <1>4, <1>5, <1>6, <1>7, <1>8, <1>9

-----------------------------------------------------------------------------
(* Euclid's algorithm.                                                     *)
LEMMA LeastOf ==
    ASSUME NEW T, T \subseteq Nat, T # {}
    PROVE  \E n \in T : \A m \in T : n <= m
<1> DEFINE Less == {pair \in Nat \X Nat : pair[1] < pair[2]}
<1>1. IsWellFoundedOn(Less, Nat)
  BY NatLessThanWellFounded DEF OpToRel
<1>2. \E n \in T : \A m \in T : <<m, n>> \notin Less
  <2> HIDE DEF Less
  <2> QED BY <1>1, WFMin
<1>3. PICK n \in T : \A m \in T : <<m, n>> \notin Less
  BY <1>2
<1>4. \A m \in T : ~ m < n
  BY <1>3
<1> QED BY <1>4

(* What holds of n if it holds of all below n holds of all numbers.        *)
LEMMA FromThoseBelow ==
    ASSUME NEW T,
           \A n \in Nat : (\A m \in Nat : m < n => m \in T) => n \in T
    PROVE  Nat \subseteq T
<1> SUFFICES ASSUME Nat \ T # {} PROVE FALSE
  OBVIOUS
<1>1. PICK n \in Nat \ T : \A m \in Nat \ T : n <= m
  <2>1. Nat \ T \subseteq Nat
    OBVIOUS
  <2> QED BY <2>1, LeastOf
<1>2. \A m \in Nat : m < n => m \in T
  BY <1>1
<1> QED BY <1>1, <1>2

(* A number is so many times another, and a rest that is less. *)
LEMMA Remainder ==
    ASSUME NEW a \in Nat, NEW b \in Nat \ {0}
    PROVE  /\ a % b \in Nat /\ a % b < b /\ a \div b \in Nat
           /\ a = (a \div b) * b + (a % b)
<1> DEFINE q == a \div b
           r == a % b
<1>1. r \in 0 .. b - 1 /\ q \in Int /\ a = b * q + r
  BY SMT
<1> HIDE DEF q, r
<1>2. b * q = q * b /\ r \in Nat /\ r < b
  BY <1>1, SMT
<1>3. q >= 0
  <2>1. CASE q <= -1
    <3>1. (- q - 1) * b >= 0 /\ (- q - 1) * b = - (b * q) - b /\ b * q \in Int
      BY <1>1, <2>1, SMT
    <3> QED BY <1>1, <3>1, SMT
  <2> QED BY <1>1, <2>1, SMT
<1>4. a = q * b + r
  BY <1>1, <1>2
<1>5. q \in Nat
  <2>1. q \in Int
    BY <1>1
  <2> QED BY <1>3, <2>1, SMT
<1>6. r \in Nat /\ r < b /\ q \in Nat /\ a = q * b + r
  BY <1>2, <1>4, <1>5
<1> QED BY <1>6 DEF q, r

(* There is one such rest. *)
LEMMA RemainderIs ==
    ASSUME NEW a \in Nat, NEW b \in Nat \ {0}, NEW q \in Nat, NEW r \in Nat,
           r < b, a = q * b + r
    PROVE  a % b = r /\ a \div b = q
<1>1. a \div b = q
  <2>1. q * b <= a /\ a < q * b + b
    <3>1. q * b \in Int
      BY SMT
    <3> DEFINE p == q * b
    <3> HIDE DEF p
    <3>2. a = p + r /\ p \in Int
      BY <3>1 DEF p
    <3>3. p <= a /\ a < p + b
      BY <3>2, SMT
    <3> QED BY <3>3 DEF p
  <2>2. a \in Int /\ b \in Int /\ b > 0 /\ q \in Int
    OBVIOUS
  <2> QED BY <2>1, <2>2, QuotientIs
<1>2. a = (a \div b) * b + (a % b) /\ a % b \in Nat
  BY Remainder
<1>3. a = q * b + (a % b)
  BY <1>1, <1>2
<1>4. q * b \in Int
  BY SMT
<1> QED BY <1>1, <1>2, <1>3, <1>4, SMT

Divisors(a, b) ==
    {d \in Nat \ {0} : \E x, y \in Nat : a = x * d /\ b = y * d}

Greatest(S) == CHOOSE m \in S : \A d \in S : d <= m

GreatestDivisor ==
    [a \in Nat |-> [b \in Nat |-> IF b = 0 THEN a ELSE Greatest(Divisors(a, b))]]

(* A function that goes on with itself.                                    *)
IsGcd(f) == f = [a \in Nat |-> [b \in Nat |-> IF b = 0 THEN a ELSE f[b][a % b]]]

(* Gcd is such a function if there is one. *)
LEMMA GcdIsChosen == ASSUME NEW f, IsGcd(f) PROVE IsGcd(Gcd)
<1>1. Gcd = CHOOSE g : IsGcd(g)
  BY DEF Gcd, IsGcd
<1>2. IsGcd(CHOOSE g : IsGcd(g))
  <2> HIDE DEF IsGcd
  <2> QED OBVIOUS
<1> QED
  <2> HIDE DEF IsGcd
  <2> QED BY <1>1, <1>2

(* A step of Euclid's algorithm keeps the common divisors, *)
LEMMA DivisorsStay ==
    ASSUME NEW a \in Nat, NEW b \in Nat \ {0}
    PROVE  Divisors(a, b) = Divisors(b, a % b)
<1> DEFINE q == a \div b
           r == a % b
<1>1. q \in Nat /\ r \in Nat /\ a = q * b + r
  BY Remainder
<1> HIDE DEF q, r
<1>2. ASSUME NEW d \in Nat \ {0}, NEW x \in Nat, NEW y \in Nat, a = x * d, b = y * d
      PROVE  \E z \in Nat : r = z * d
  <2>1. (x - q * y) * d = x * d - q * (y * d)
    BY <1>1, <1>2, SMT
  <2>2. (x - q * y) * d = r
    <3>1. q * b \in Int
      BY <1>1, SMT
    <3>2. (x - q * y) * d = a - q * b
      BY <1>2, <2>1
    <3> QED BY <1>1, <3>1, <3>2, SMT
  <2> DEFINE z == x - q * y
  <2>3. z \in Int
    BY <1>1, SMT
  <2>4. z * d = r
    BY <2>2
  <2> HIDE DEF z
  <2>5. z >= 0
    <3>1. CASE z <= -1
      <4>1. (- z) * d > 0 /\ (- z) * d = - (z * d)
        BY <2>3, <3>1, SMT
      <4> QED BY <1>1, <2>4, <4>1, SMT
    <3> QED BY <2>3, <3>1, SMT
  <2>6. z \in Nat
    BY <2>3, <2>5, SMT
  <2> QED BY <2>4, <2>6
<1>3. ASSUME NEW d \in Nat \ {0}, NEW x \in Nat, NEW y \in Nat, b = x * d, r = y * d
      PROVE  \E z \in Nat : a = z * d
  <2>1. (q * x + y) * d = q * (x * d) + y * d /\ q * x + y \in Nat
    BY <1>1, <1>3, SMT
  <2> QED BY <1>1, <1>3, <2>1
<1>4. ASSUME NEW d PROVE d \in Divisors(a, b) <=> d \in Divisors(b, r)
  <2>1. CASE d \in Divisors(a, b)
    <3>1. PICK x \in Nat, y \in Nat : a = x * d /\ b = y * d
      BY <2>1 DEF Divisors
    <3>2. d \in Nat \ {0}
      BY <2>1 DEF Divisors
    <3>3. \E z \in Nat : r = z * d
      BY <1>2, <3>1, <3>2
    <3> QED BY <2>1, <3>1, <3>2, <3>3 DEF Divisors
  <2>2. CASE d \in Divisors(b, r)
    <3>1. PICK x \in Nat, y \in Nat : b = x * d /\ r = y * d
      BY <2>2 DEF Divisors
    <3>2. d \in Nat \ {0}
      BY <2>2 DEF Divisors
    <3>3. \E z \in Nat : a = z * d
      BY <1>3, <3>1, <3>2
    <3> QED BY <2>2, <3>1, <3>2, <3>3 DEF Divisors
  <2> QED BY <2>1, <2>2
<1>5. Divisors(a, b) = Divisors(b, r)
  <2> HIDE DEF Divisors
  <2> QED BY <1>4
<1> QED BY <1>5 DEF r

(* and at its end the greatest one is at hand. *)
LEMMA GreatestIs ==
    ASSUME NEW a \in Nat, NEW b \in Nat \ {0}, a % b = 0
    PROVE  Greatest(Divisors(a, b)) = b
<1>1. a = (a \div b) * b /\ a \div b \in Nat
  <2>1. (a \div b) * b \in Int /\ a = (a \div b) * b + 0 /\ a \div b \in Nat
    BY Remainder, SMT
  <2> QED BY <2>1, SMT
<1>2. b \in Divisors(a, b)
  <2>1. b = 1 * b
    BY SMT
  <2> QED BY <1>1, <2>1 DEF Divisors
<1>3. ASSUME NEW d \in Divisors(a, b) PROVE d \in Nat /\ d <= b
  <2>1. PICK y \in Nat : b = y * d
    BY DEF Divisors
  <2>2. d \in Nat
    BY DEF Divisors
  <2>3. y > 0
    <3>1. y = 0 => y * d = 0
      BY <2>2, SMT
    <3> QED BY <2>1, <3>1
  <2>4. (y - 1) * d >= 0 /\ (y - 1) * d = y * d - d
    BY <2>2, <2>3, SMT
  <2> QED BY <2>1, <2>2, <2>4, SMT
<1> DEFINE m == CHOOSE m \in Divisors(a, b) : \A d \in Divisors(a, b) : d <= m
<1>4. m \in Divisors(a, b) /\ \A d \in Divisors(a, b) : d <= m
  <2>1. \A d \in Divisors(a, b) : d <= b
    BY <1>3
  <2> HIDE DEF Divisors
  <2> QED BY <1>2, <2>1
<1>5. b <= m /\ m <= b /\ m \in Nat
  BY <1>2, <1>3, <1>4
<1>6. m = b
  <2> HIDE DEF m
  <2> QED BY <1>5, SMT
<1> QED BY <1>6 DEF Greatest

(* The greatest common divisor keeps Euclid's equation.                    *)
LEMMA GcdEquation ==
    ASSUME NEW a \in Nat, NEW b \in Nat
    PROVE  Gcd[a][b] = IF b = 0 THEN a ELSE Gcd[b][a % b]
<1> DEFINE G == GreatestDivisor
<1>1. ASSUME NEW x \in Nat, NEW y \in Nat
      PROVE  G[x][y] = IF y = 0 THEN x ELSE G[y][x % y]
  <2>1. CASE y = 0
    BY <2>1 DEF GreatestDivisor
  <2>2. CASE y # 0 /\ x % y = 0
    <3>1. G[x][y] = Greatest(Divisors(x, y))
      BY <2>2 DEF GreatestDivisor
    <3>2. G[y][x % y] = y
      BY <2>2 DEF GreatestDivisor
    <3>3. Greatest(Divisors(x, y)) = y
      BY <2>2, GreatestIs
    <3> QED BY <2>2, <3>1, <3>2, <3>3
  <2>3. CASE y # 0 /\ x % y # 0
    <3>1. x % y \in Nat
      BY <2>3, Remainder
    <3>2. G[x][y] = Greatest(Divisors(x, y))
      BY <2>3 DEF GreatestDivisor
    <3>3. G[y][x % y] = Greatest(Divisors(y, x % y))
      <4> DEFINE r == x % y
      <4>1. r \in Nat /\ r # 0
        BY <2>3, <3>1
      <4> HIDE DEF r
      <4>2. G[y][r] = Greatest(Divisors(y, r))
        BY <4>1 DEF GreatestDivisor
      <4> QED BY <4>2 DEF r
    <3>4. Divisors(x, y) = Divisors(y, x % y)
      BY <2>3, DivisorsStay
    <3> QED BY <2>3, <3>2, <3>3, <3>4
  <2> QED BY <2>1, <2>2, <2>3
<1>2. IsGcd(G)
  <2>1. G = [x \in Nat |-> [y \in Nat |-> G[x][y]]]
    BY DEF GreatestDivisor
  <2> DEFINE H == [x \in Nat |-> [y \in Nat |-> IF y = 0 THEN x ELSE G[y][x % y]]]
  <2> HIDE DEF G
  <2>2. [x \in Nat |-> [y \in Nat |-> G[x][y]]] = H
    BY <1>1
  <2> QED BY <2>1, <2>2 DEF IsGcd
<1>3. IsGcd(Gcd)
  <2> HIDE DEF IsGcd, G
  <2> QED BY <1>2, GcdIsChosen
<1>4. ASSUME NEW f, IsGcd(f)
      PROVE  f[a][b] = IF b = 0 THEN a ELSE f[b][a % b]
  <2> DEFINE H == [x \in Nat |-> [y \in Nat |-> IF y = 0 THEN x ELSE f[y][x % y]]]
  <2>1. f = H
    BY <1>4 DEF IsGcd
  <2>2. H[a][b] = IF b = 0 THEN a ELSE f[b][a % b]
    OBVIOUS
  <2> HIDE DEF H
  <2> QED BY <2>1, <2>2
<1> QED BY <1>3, <1>4

(* What it gives divides both, *)
LEMMA GcdDivides ==
    ASSUME NEW a \in Nat, NEW b \in Nat \ {0}
    PROVE  Gcd[a][b] \in Divisors(a, b)
<1> DEFINE T == {n \in Nat : n # 0 => \A x \in Nat : Gcd[x][n] \in Divisors(x, n)}
<1>1. ASSUME NEW n \in Nat, \A m \in Nat : m < n => m \in T, n # 0, NEW x \in Nat
      PROVE  Gcd[x][n] \in Divisors(x, n)
  <2> DEFINE r == x % n
  <2>1. r \in Nat /\ r < n
    BY <1>1, Remainder
  <2>2. Gcd[x][n] = Gcd[n][r]
    BY <1>1, GcdEquation
  <2>3. Divisors(x, n) = Divisors(n, r)
    BY <1>1, DivisorsStay
  <2>4. CASE r = 0
    <3>1. Gcd[n][0] = n
      BY GcdEquation
    <3>2. n \in Divisors(n, 0)
      <4>1. n = 1 * n /\ 0 = 0 * n
        BY SMT
      <4> QED BY <1>1, <4>1 DEF Divisors
    <3> HIDE DEF r
    <3> QED BY <2>2, <2>3, <2>4, <3>1, <3>2
  <2>5. CASE r # 0
    <3> HIDE DEF r
    <3>1. r \in T
      BY <1>1, <2>1
    <3>2. Gcd[n][r] \in Divisors(n, r)
      BY <2>5, <3>1
    <3> QED BY <2>2, <2>3, <3>2
  <2> QED BY <2>4, <2>5
<1>2. Nat \subseteq T
  <2>1. \A n \in Nat : (\A m \in Nat : m < n => m \in T) => n \in T
    BY <1>1
  <2> HIDE DEF T
  <2> QED BY <2>1, FromThoseBelow
<1> QED BY <1>2

(* and grows with them. *)
LEMMA GcdScales ==
    ASSUME NEW a \in Nat, NEW b \in Nat, NEW k \in Nat \ {0}
    PROVE  Gcd[a * k][b * k] = Gcd[a][b] * k
<1> DEFINE T == {n \in Nat : \A x \in Nat : Gcd[x * k][n * k] = Gcd[x][n] * k}
<1>1. ASSUME NEW n \in Nat, \A m \in Nat : m < n => m \in T, NEW x \in Nat
      PROVE  Gcd[x * k][n * k] = Gcd[x][n] * k
  <2>1. x * k \in Nat /\ n * k \in Nat /\ (n # 0 => n * k # 0) /\ 0 * k = 0
    BY SMT
  <2>2. CASE n = 0
    <3>1. Gcd[x * k][0] = x * k /\ Gcd[x][0] = x
      BY <2>1, GcdEquation
    <3> QED BY <2>1, <2>2, <3>1
  <2>3. CASE n # 0
    <3> DEFINE r == x % n
               q == x \div n
    <3>1. r \in Nat /\ r < n /\ q \in Nat /\ x = q * n + r
      BY <2>3, Remainder
    <3> HIDE DEF q
    <3>2. r * k \in Nat /\ r * k < n * k /\ x * k = q * (n * k) + r * k
      <4> HIDE DEF r
      <4>1. (n - r) * k > 0 /\ (n - r) * k = n * k - r * k
        BY <3>1, SMT
      <4>2. r * k \in Nat
        BY <3>1, SMT
      <4>3. (q * n + r) * k = q * (n * k) + r * k
        BY <3>1, SMT
      <4>4. r * k < n * k
        BY <2>1, <4>1, <4>2, SMT
      <4> QED BY <3>1, <4>2, <4>3, <4>4
    <3>3. (x * k) % (n * k) = r * k
      <4>1. n * k \in Nat \ {0}
        BY <2>1, <2>3
      <4> HIDE DEF r
      <4> QED BY <2>1, <3>1, <3>2, <4>1, RemainderIs
    <3>4. Gcd[x * k][n * k] = Gcd[n * k][r * k]
      <4>1. Gcd[x * k][n * k] = Gcd[n * k][(x * k) % (n * k)]
        BY <2>1, <2>3, GcdEquation
      <4> QED BY <3>3, <4>1
    <3>5. Gcd[x][n] = Gcd[n][r]
      BY <2>3, GcdEquation
    <3> HIDE DEF r
    <3>6. r \in T
      BY <1>1, <3>1
    <3>7. Gcd[n * k][r * k] = Gcd[n][r] * k
      BY <3>6
    <3> QED BY <3>4, <3>5, <3>7
  <2> QED BY <2>2, <2>3
<1>2. Nat \subseteq T
  <2>1. \A n \in Nat : (\A m \in Nat : m < n => m \in T) => n \in T
    BY <1>1
  <2> HIDE DEF T
  <2> QED BY <2>1, FromThoseBelow
<1> QED BY <1>2

Fractions == [numerator : Nat \ {0}, denominator : Nat \ {0}]

(* A rate that is made of a ratio has its value. *)
LEMMA CreatedRate ==
    ASSUME NEW n \in Nat \ {0}, NEW d \in Nat \ {0}
    PROVE  LET r == CreateRate(n, d) IN
             /\ r \in Fractions
             /\ r.numerator * d = r.denominator * n
<1> DEFINE g == Gcd[n][d]
           r == CreateRate(n, d)
<1>1. g \in Divisors(n, d)
  BY GcdDivides
<1> HIDE DEF g
<1>2. g \in Nat \ {0}
  BY <1>1 DEF Divisors
<1>3. PICK x \in Nat, y \in Nat : n = x * g /\ d = y * g
  BY <1>1 DEF Divisors
<1>4. n \div g = x /\ d \div g = y
  <2>1. n = x * g + 0 /\ d = y * g + 0 /\ 0 < g
    BY <1>2, <1>3, SMT
  <2> QED BY <1>2, <2>1, RemainderIs
<1>5. x # 0 /\ y # 0
  <2>1. 0 * g = 0
    BY <1>2, SMT
  <2> QED BY <1>3, <2>1
<1>6. r = [numerator |-> x, denominator |-> y]
  BY <1>4 DEF CreateRate, Rate, g
<1>7. x * (y * g) = y * (x * g)
  BY <1>2, SMT
<1> HIDE DEF r
<1>8. r \in Fractions /\ r.numerator = x /\ r.denominator = y
  BY <1>5, <1>6 DEF Fractions
<1>9. r.numerator * d = r.denominator * n
  BY <1>3, <1>7, <1>8
<1> QED BY <1>8, <1>9 DEF r

(* As many pictures as frames are shown at the rate itself. *)
LEMMA CreatedAgain ==
    ASSUME NEW rate \in Fractions,
           CreateRate(rate.numerator, rate.denominator) = rate,
           NEW k \in Nat \ {0}
    PROVE  CreateRate(rate.numerator * k, rate.denominator * k) = rate
<1> DEFINE n == rate.numerator
           d == rate.denominator
           g == Gcd[n][d]
<1>1. n \in Nat \ {0} /\ d \in Nat \ {0}
  BY DEF Fractions
<1>2. rate.numerator = n \div g /\ rate.denominator = d \div g
  <2>1. rate = [numerator |-> n \div g, denominator |-> d \div g]
    BY DEF CreateRate, Rate
  <2> QED BY <2>1
<1>3. n \div g = n /\ d \div g = d
  BY <1>2
<1>4. g \in Divisors(n, d)
  BY <1>1, GcdDivides
<1>5. Gcd[n * k][d * k] = g * k
  BY <1>1, GcdScales
<1> HIDE DEF g
<1> HIDE DEF n, d
<1>6. g \in Nat \ {0}
  BY <1>4 DEF Divisors
<1>7. PICK x \in Nat, y \in Nat : n = x * g /\ d = y * g
  BY <1>4 DEF Divisors
<1>8. n \div g = x /\ d \div g = y
  <2>1. n = x * g + 0 /\ d = y * g + 0 /\ 0 < g
    BY <1>6, <1>7, <1>1, SMT
  <2> QED BY <1>1, <1>6, <2>1, RemainderIs
<1>9. n = n * g /\ d = d * g
  BY <1>3, <1>7, <1>8
<1>10. /\ n * k \in Nat /\ d * k \in Nat /\ g * k \in Nat \ {0}
       /\ n * k = n * (g * k) + 0 /\ d * k = d * (g * k) + 0 /\ 0 < g * k
  <2>1. n * k \in Nat /\ d * k \in Nat /\ g * k \in Nat /\ g * k > 0
    BY <1>1, <1>6, SMT
  <2>2. (n * g) * k = n * (g * k) /\ (d * g) * k = d * (g * k)
    BY <1>1, <1>6, SMT
  <2>3. n * k = n * (g * k) /\ d * k = d * (g * k)
    BY <1>9, <2>2
  <2> DEFINE x_ == n * k
             y_ == d * k
             z_ == g * k
  <2> QED BY <2>1, <2>3
<1>11. (n * k) \div (g * k) = n /\ (d * k) \div (g * k) = d
  <2> DEFINE u == n * k
             v == d * k
             w == g * k
  <2>1. u \in Nat /\ v \in Nat /\ w \in Nat \ {0} /\ u = n * w + 0 /\ v = d * w + 0 /\ 0 < w
    BY <1>10
  <2> HIDE DEF u, v, w
  <2>2. u \div w = n /\ v \div w = d
    BY <1>1, <2>1, RemainderIs
  <2> QED BY <2>2 DEF u, v, w
<1>12. CreateRate(n * k, d * k) = Rate(n, d)
  BY <1>5, <1>11 DEF CreateRate
<1>13. rate = Rate(n, d)
  BY DEF Fractions, Rate, n, d
<1> QED BY <1>12, <1>13 DEF n, d

-----------------------------------------------------------------------------
(* The order of the ratios by their continued fractions is by their value. *)
Quotients == Inspection!Quotients

Precedes(q, r) == q.numerator * r.denominator < r.numerator * q.denominator

OrderStep(q, r, rest) ==
    \/ Inspection!Floor(q) < Inspection!Floor(r)
    \/ /\ Inspection!Floor(q) = Inspection!Floor(r) /\ ~ Inspection!IsWhole(r)
       /\ Inspection!IsWhole(q) \/ rest

(* A step of the continued fractions keeps the order by value, *)
LEMMA PrecedesStep ==
    ASSUME NEW q \in Quotients, NEW r \in Quotients
    PROVE  Precedes(q, r)
             <=> OrderStep(q, r, Precedes(Inspection!Rest(r), Inspection!Rest(q)))
<1> DEFINE a == q.numerator
           b == q.denominator
           c == r.numerator
           d == r.denominator
           x == a \div b
           y == c \div d
           m == a % b
           n == c % d
<1>1. a \in Nat /\ b \in Nat \ {0} /\ c \in Nat /\ d \in Nat \ {0}
  BY DEF Quotients, Inspection!Quotients
<1>2. /\ Inspection!Floor(q) = x /\ Inspection!Floor(r) = y
      /\ Inspection!IsWhole(q) <=> m = 0
      /\ Inspection!IsWhole(r) <=> n = 0
  BY DEF Inspection!Floor, Inspection!IsWhole
<1>3. Precedes(Inspection!Rest(r), Inspection!Rest(q)) <=> d * m < b * n
  BY DEF Precedes, Inspection!Rest, Inspection!Rate
<1>4. Precedes(q, r) <=> a * d < c * b
  BY DEF Precedes
<1> HIDE DEF a, b, c, d
<1>5. /\ x \in Nat /\ m \in Nat /\ m < b /\ a = x * b + m
      /\ y \in Nat /\ n \in Nat /\ n < d /\ c = y * d + n
  BY <1>1, Remainder
<1> HIDE DEF x, y, m, n
<1> DEFINE p == b * d
           u == m * d
           v == n * b
<1>6. p \in Nat /\ u \in Nat /\ v \in Nat /\ p > 0
  BY <1>1, <1>5, SMT
<1>7. p - u > 0 /\ p - v > 0
  <2>1. (b - m) * d > 0 /\ (b - m) * d = p - u
    BY <1>1, <1>5, SMT
  <2>2. (d - n) * b > 0 /\ (d - n) * b = p - v
    BY <1>1, <1>5, SMT
  <2> QED BY <2>1, <2>2
<1>8. a * d = x * p + u /\ c * b = y * p + v
  <2>1. (x * b + m) * d = x * p + u
    BY <1>1, <1>5, SMT
  <2>2. (y * d + n) * b = y * p + v
    BY <1>1, <1>5, SMT
  <2> QED BY <1>5, <2>1, <2>2
<1>9. /\ u = d * m /\ v = b * n
      /\ m = 0 => u = 0
      /\ n = 0 => v = 0
      /\ n # 0 => v > 0
  BY <1>1, <1>5, SMT
<1> HIDE DEF p, u, v
<1>10. CASE x < y
  <2>1. (y - x - 1) * p >= 0 /\ (y - x - 1) * p = y * p - x * p - p
    BY <1>5, <1>6, <1>10, SMT
  <2>2. x * p \in Int /\ y * p \in Int
    BY <1>5, <1>6, SMT
  <2>3. x * p + u < y * p + v
    BY <1>6, <1>7, <2>1, <2>2, SMT
  <2>4. x # y
    BY <1>5, <1>10
  <2> QED BY <1>2, <1>4, <1>8, <1>10, <2>3, <2>4 DEF OrderStep
<1>11. CASE y < x
  <2>1. (x - y - 1) * p >= 0 /\ (x - y - 1) * p = x * p - y * p - p
    BY <1>5, <1>6, <1>11, SMT
  <2>2. x * p \in Int /\ y * p \in Int
    BY <1>5, <1>6, SMT
  <2>3. ~(x * p + u < y * p + v)
    BY <1>6, <1>7, <2>1, <2>2, SMT
  <2>4. x # y /\ ~ (x < y)
    BY <1>5, <1>11
  <2> QED BY <1>2, <1>4, <1>8, <2>3, <2>4 DEF OrderStep
<1>12. CASE x = y
  <2>1. x * p \in Int
    BY <1>5, <1>6, SMT
  <2>2. Precedes(q, r) <=> u < v
    <3>1. x * p + u < x * p + v <=> u < v
      <4> DEFINE z == x * p
      <4> HIDE DEF z
      <4>1. z \in Int
        BY <2>1 DEF z
      <4>2. z + u < z + v <=> u < v
        BY <1>6, <4>1, SMT
      <4> QED BY <4>2 DEF z
    <3> QED BY <1>4, <1>8, <1>12, <3>1
  <2>3. OrderStep(q, r, Precedes(Inspection!Rest(r), Inspection!Rest(q)))
          <=> (n # 0 /\ (m = 0 \/ u < v))
    BY <1>2, <1>3, <1>5, <1>9, <1>12 DEF OrderStep
  <2>4. u < v <=> (n # 0 /\ (m = 0 \/ u < v))
    BY <1>6, <1>9, SMT
  <2> QED BY <2>2, <2>3, <2>4
<1> QED BY <1>5, <1>10, <1>11, <1>12, SMT

(* and what is left of a quotient is a smaller one. *)
LEMMA RestIsQuotient ==
    ASSUME NEW q \in Quotients, ~ Inspection!IsWhole(q)
    PROVE  /\ Inspection!Rest(q) \in Quotients
           /\ Inspection!Rest(q).denominator < q.denominator
<1> DEFINE a == q.numerator
           b == q.denominator
           m == a % b
<1>1. a \in Nat /\ b \in Nat \ {0}
  BY DEF Quotients, Inspection!Quotients
<1>2. m \in Nat /\ m < b
  <2> HIDE DEF a, b
  <2> QED BY <1>1, Remainder
<1>3. m # 0
  BY DEF Inspection!IsWhole
<1>4. Inspection!Rest(q) = [numerator |-> b, denominator |-> m]
  BY DEF Inspection!Rest, Inspection!Rate
<1> HIDE DEF a, m
<1>5. Inspection!Rest(q) \in Quotients /\ Inspection!Rest(q).denominator = m
  BY <1>1, <1>2, <1>3, <1>4 DEF Quotients, Inspection!Quotients
<1> QED BY <1>2, <1>5

(* A function that goes on with itself.                                    *)
IsOrder(f) ==
    f = [q \in Quotients |-> [r \in Quotients |->
           OrderStep(q, r, f[Inspection!Rest(r)][Inspection!Rest(q)])]]

(* IsLess is a function that goes on with itself if there is one, *)
LEMMA OrderIsChosen == ASSUME NEW f, IsOrder(f) PROVE IsOrder(Inspection!IsLess)
<1>1. Inspection!IsLess = CHOOSE g : IsOrder(g)
  BY Zenon DEF Inspection!IsLess, IsOrder, OrderStep, Quotients
<1>2. IsOrder(CHOOSE g : IsOrder(g))
  <2> HIDE DEF IsOrder
  <2> QED OBVIOUS
<1> QED
  <2> HIDE DEF IsOrder
  <2> QED BY <1>1, <1>2

Order == [q \in Quotients |-> [r \in Quotients |-> Precedes(q, r)]]

LEMMA SameTruth ==
    ASSUME NEW a \in BOOLEAN, NEW b \in BOOLEAN, a <=> b PROVE a = b
  OBVIOUS

(* which the order by value is. *)
LEMMA OrderIsOrder == IsOrder(Order)
<1>1. ASSUME NEW q \in Quotients, NEW r \in Quotients
      PROVE  Precedes(q, r)
               = OrderStep(q, r, Order[Inspection!Rest(r)][Inspection!Rest(q)])
  <2> DEFINE s == Inspection!Rest(r)
             t == Inspection!Rest(q)
  <2>1. CASE Inspection!IsWhole(q) \/ Inspection!IsWhole(r)
    <3>1. Precedes(q, r) <=> OrderStep(q, r, Precedes(s, t))
      BY PrecedesStep
    <3>2. OrderStep(q, r, Precedes(s, t)) <=> OrderStep(q, r, Order[s][t])
      BY Zenon, <2>1 DEF OrderStep
    <3>3. Precedes(q, r) \in BOOLEAN /\ OrderStep(q, r, Order[s][t]) \in BOOLEAN
      <4>1. Precedes(q, r) \in BOOLEAN
        BY SMT DEF Precedes
      <4>2. OrderStep(q, r, Order[s][t]) \in BOOLEAN
        BY Zenon DEF OrderStep
      <4> QED BY <4>1, <4>2
    <3> QED BY Zenon, <3>1, <3>2, <3>3, SameTruth
  <2>2. CASE ~ Inspection!IsWhole(q) /\ ~ Inspection!IsWhole(r)
    <3>1. s \in Quotients /\ t \in Quotients
      BY <2>2, RestIsQuotient
    <3>2. Order[s][t] = Precedes(s, t)
      <4> HIDE DEF s, t
      <4> QED BY Zenon, <3>1 DEF Order
    <3>3. Precedes(q, r) <=> OrderStep(q, r, Precedes(s, t))
      BY PrecedesStep
    <3>4. Precedes(q, r) \in BOOLEAN /\ OrderStep(q, r, Order[s][t]) \in BOOLEAN
      <4>1. Precedes(q, r) \in BOOLEAN
        BY SMT DEF Precedes
      <4>2. OrderStep(q, r, Order[s][t]) \in BOOLEAN
        BY Zenon DEF OrderStep
      <4> QED BY <4>1, <4>2
    <3> HIDE DEF s, t
    <3> QED BY Zenon, <3>2, <3>3, <3>4, SameTruth DEF s, t
  <2> QED BY Zenon, <2>1, <2>2
<1> DEFINE H == [q \in Quotients |-> [r \in Quotients |->
                   OrderStep(q, r, Order[Inspection!Rest(r)][Inspection!Rest(q)])]]
<1>2. [q \in Quotients |-> [r \in Quotients |-> Precedes(q, r)]] = H
  BY Zenon, <1>1
<1> QED BY Zenon, <1>2 DEF IsOrder, Order

(* So the comparison by continued fractions is that by value. *)
LEMMA IsLessIsPrecedes ==
    ASSUME NEW q \in Quotients, NEW r \in Quotients
    PROVE  Inspection!IsLess[q][r] <=> Precedes(q, r)
<1> DEFINE f == Inspection!IsLess
<1>1. IsOrder(f)
  <2> HIDE DEF IsOrder
  <2> QED BY OrderIsOrder, OrderIsChosen
<1>2. \A s, t \in Quotients :
         f[s][t] <=> OrderStep(s, t, f[Inspection!Rest(t)][Inspection!Rest(s)])
  <2> DEFINE H == [s \in Quotients |-> [t \in Quotients |->
                     OrderStep(s, t, f[Inspection!Rest(t)][Inspection!Rest(s)])]]
  <2>1. f = H
    BY Zenon, <1>1 DEF IsOrder
  <2>2. \A s, t \in Quotients :
          H[s][t] <=> OrderStep(s, t, f[Inspection!Rest(t)][Inspection!Rest(s)])
    BY Zenon
  <2> HIDE DEF H, f
  <2> QED BY Zenon, <2>1, <2>2
<1> HIDE DEF f
<1> DEFINE Agree(s, t) == f[s][t] <=> Precedes(s, t)
           T == {n \in Nat : \A s, t \in Quotients :
                   s.denominator + t.denominator = n => Agree(s, t)}
<1>3. ASSUME NEW n \in Nat, \A m \in Nat : m < n => m \in T,
             NEW s \in Quotients, NEW t \in Quotients,
             s.denominator + t.denominator = n
      PROVE  Agree(s, t)
  <2> DEFINE u == Inspection!Rest(t)
             v == Inspection!Rest(s)
  <2>1. f[s][t] <=> OrderStep(s, t, f[u][v])
    BY Zenon, <1>2
  <2>2. Precedes(s, t) <=> OrderStep(s, t, Precedes(u, v))
    BY PrecedesStep
  <2>3. CASE Inspection!IsWhole(s) \/ Inspection!IsWhole(t)
    <3>1. OrderStep(s, t, f[u][v]) <=> OrderStep(s, t, Precedes(u, v))
      BY Zenon, <2>3 DEF OrderStep
    <3> QED BY Zenon, <2>1, <2>2, <3>1
  <2>4. CASE ~ Inspection!IsWhole(s) /\ ~ Inspection!IsWhole(t)
    <3>1. /\ u \in Quotients /\ v \in Quotients
          /\ u.denominator < t.denominator /\ v.denominator < s.denominator
      BY <2>4, RestIsQuotient
    <3> DEFINE m == u.denominator + v.denominator
    <3>2. m \in Nat /\ m < n
      <4> HIDE DEF u, v
      <4>1. /\ u.denominator \in Nat /\ v.denominator \in Nat
            /\ s.denominator \in Nat /\ t.denominator \in Nat
        BY <3>1 DEF Quotients, Inspection!Quotients
      <4> QED BY <1>3, <3>1, <4>1
    <3>3. m \in T
      <4> HIDE DEF m, T
      <4> QED BY <1>3, <3>2
    <3>4. Agree(u, v)
      <4> HIDE DEF u, v, Agree
      <4> QED BY <3>1, <3>3
    <3>5. OrderStep(s, t, f[u][v]) <=> OrderStep(s, t, Precedes(u, v))
      BY Zenon, <3>4 DEF OrderStep
    <3> QED BY Zenon, <2>1, <2>2, <3>5
  <2> QED BY Zenon, <2>3, <2>4
<1>4. Nat \subseteq T
  <2>1. \A n \in Nat : (\A m \in Nat : m < n => m \in T) => n \in T
    <3> HIDE DEF Agree
    <3> QED BY <1>3
  <2> HIDE DEF T
  <2> QED BY <2>1, FromThoseBelow
<1>5. q.denominator + r.denominator \in Nat
  BY DEF Quotients, Inspection!Quotients
<1>6. Agree(q, r)
  <2> HIDE DEF Agree
  <2> QED BY <1>4, <1>5
<1> QED BY Zenon, <1>6 DEF f

-----------------------------------------------------------------------------
(* The nearest standard rates. *)
IsNearest(s, rate) ==
    /\ \A t \in StandardRates :
         /\ Precedes(s, t) => ~ Precedes(Inspection!Midpoint(s, t), rate)
         /\ Precedes(t, s) => Precedes(Inspection!Midpoint(s, t), rate)
    /\ 99 * (rate.denominator * s.numerator) < (rate.numerator * s.denominator) * 100
    /\ (rate.numerator * s.denominator) * 100 < 101 * (rate.denominator * s.numerator)

(* Standard rates. *)
LEMMA StandardsAreFractions == StandardRates \subseteq Fractions
  BY DEF StandardRates, Fractions, Rate

LEMMA Positive ==
    ASSUME NEW a \in Nat \ {0}, NEW b \in Nat \ {0}
    PROVE  a * b \in Nat \ {0}
  BY SMT

(* The nearest standard rate in whole numbers. *)
LEMMA NearestIs ==
    ASSUME NEW rate \in Fractions
    PROVE  Inspection!NearestStandardFrameRate(rate)
             = {s \in StandardRates : IsNearest(s, rate)}
<1>1. rate \in Quotients /\ rate.numerator \in Nat \ {0} /\ rate.denominator \in Nat \ {0}
  BY DEF Fractions, Quotients, Inspection!Quotients
<1>2. ASSUME NEW s \in StandardRates, NEW t \in StandardRates
      PROVE  /\ Inspection!IsLess[s][t] <=> Precedes(s, t)
             /\ Inspection!IsLess[Inspection!Midpoint(s, t)][rate]
                  <=> Precedes(Inspection!Midpoint(s, t), rate)
  <2>1. s \in Fractions /\ t \in Fractions
    BY StandardsAreFractions
  <2>2. s \in Quotients /\ t \in Quotients
    BY <2>1 DEF Fractions, Quotients, Inspection!Quotients
  <2>3. Inspection!Midpoint(s, t) \in Quotients
    <3> DEFINE a == s.numerator
               b == s.denominator
               c == t.numerator
               d == t.denominator
    <3>1. a \in Nat \ {0} /\ b \in Nat \ {0} /\ c \in Nat \ {0} /\ d \in Nat \ {0}
      BY <2>1 DEF Fractions
    <3>2. Inspection!Midpoint(s, t) = [numerator |-> a * d + c * b, denominator |-> 2 * b * d]
      BY DEF Inspection!Midpoint, Inspection!Rate
    <3> HIDE DEF a, b, c, d
    <3>3. a * d + c * b \in Nat /\ 2 * b * d \in Nat \ {0}
      <4>1. a * d \in Nat /\ c * b \in Nat /\ b * d \in Nat \ {0}
        BY <3>1, SMT
      <4>2. 2 * b * d = 2 * (b * d)
        BY <3>1, SMT
      <4> DEFINE x == a * d
                 y == c * b
                 z == b * d
      <4>3. x \in Nat /\ y \in Nat /\ z \in Nat \ {0}
        BY <4>1
      <4> HIDE DEF x, y, z
      <4>4. x + y \in Nat /\ 2 * z \in Nat \ {0}
        BY <4>3, SMT
      <4> QED BY <4>2, <4>4 DEF x, y, z
    <3> QED BY <3>2, <3>3 DEF Quotients, Inspection!Quotients
  <2> QED BY <1>1, <2>2, <2>3, IsLessIsPrecedes
<1>3. ASSUME NEW s \in StandardRates
      PROVE  LET ratio == Inspection!Rate(rate.numerator * s.denominator,
                                          rate.denominator * s.numerator) IN
             /\ Inspection!IsLess[Inspection!Rate(99, 100)][ratio] <=>
                  99 * (rate.denominator * s.numerator)
                     < (rate.numerator * s.denominator) * 100
             /\ Inspection!IsLess[ratio][Inspection!Rate(101, 100)] <=>
                  (rate.numerator * s.denominator) * 100
                     < 101 * (rate.denominator * s.numerator)
  <2> DEFINE x == rate.numerator * s.denominator
             y == rate.denominator * s.numerator
             ratio == [numerator |-> x, denominator |-> y]
             low == [numerator |-> 99, denominator |-> 100]
             high == [numerator |-> 101, denominator |-> 100]
  <2>1. s.numerator \in Nat \ {0} /\ s.denominator \in Nat \ {0}
    BY StandardsAreFractions DEF Fractions
  <2>2. x \in Nat \ {0} /\ y \in Nat \ {0}
    BY <1>1, <2>1, Positive
  <2> HIDE DEF x, y
  <2>3. ratio \in Quotients /\ low \in Quotients /\ high \in Quotients
    BY <2>2 DEF Quotients, Inspection!Quotients
  <2>4. /\ Inspection!IsLess[low][ratio] <=> Precedes(low, ratio)
        /\ Inspection!IsLess[ratio][high] <=> Precedes(ratio, high)
    <3> HIDE DEF low, high, ratio
    <3> QED BY <2>3, IsLessIsPrecedes
  <2>5. /\ Precedes(low, ratio) <=> 99 * y < x * 100
        /\ Precedes(ratio, high) <=> x * 100 < 101 * y
    BY DEF Precedes
  <2>6. /\ Inspection!Rate(x, y) = ratio
        /\ Inspection!Rate(99, 100) = low /\ Inspection!Rate(101, 100) = high
    BY DEF Inspection!Rate
  <2> HIDE DEF ratio, low, high
  <2> QED BY Zenon, <2>4, <2>5, <2>6 DEF x, y
<1>4. Inspection!StandardRates = StandardRates
  BY SameTimes
<1> QED
  <2>1. ASSUME NEW s
        PROVE  s \in Inspection!NearestStandardFrameRate(rate)
                 <=> s \in {r \in StandardRates : IsNearest(r, rate)}
    BY Zenon, <1>2, <1>3, <1>4 DEF Inspection!NearestStandardFrameRate, IsNearest
  <2> QED BY <2>1

(* Each standard rate is the one nearest to itself, *)
LEMMA StandardsAreNearest ==
    ASSUME NEW rate \in StandardRates
    PROVE  Inspection!NearestStandardFrameRate(rate) = {rate}
<1>1. IsNearest(rate, rate)
  BY DEF IsNearest, StandardRates, Rate, Precedes, Inspection!Midpoint, Inspection!Rate
<1>2. ASSUME NEW s \in StandardRates, IsNearest(s, rate) PROVE s = rate
  <2>1. /\ Precedes(s, rate) => ~ Precedes(Inspection!Midpoint(s, rate), rate)
        /\ Precedes(rate, s) => Precedes(Inspection!Midpoint(s, rate), rate)
    BY <1>2 DEF IsNearest
  <2> QED BY <2>1 DEF StandardRates, Rate, Precedes, Inspection!Midpoint, Inspection!Rate
<1>3. rate \in Fractions
  BY StandardsAreFractions
<1> QED
  <2> HIDE DEF IsNearest
  <2> QED BY <1>1, <1>2, <1>3, NearestIs

(* and an NTSC rate the one nearest to its decimal fraction. *)
LEMMA ApproximationsAreNear ==
    /\ Inspection!NearestStandardFrameRate(Rate(2997, 125)) = {Rate(24000, 1001)}
    /\ Inspection!NearestStandardFrameRate(Rate(2997, 100)) = {Rate(30000, 1001)}
<1>1. ASSUME NEW a \in {Rate(2997, 125)}, NEW rate \in {Rate(24000, 1001)}
      PROVE  Inspection!NearestStandardFrameRate(a) = {rate}
  <2>1. IsNearest(rate, a)
    BY DEF IsNearest, StandardRates, Rate, Precedes, Inspection!Midpoint, Inspection!Rate
  <2>2. rate \in StandardRates
    BY DEF StandardRates
  <2>3. ASSUME NEW s \in StandardRates, IsNearest(s, a) PROVE s = rate
    <3>1. /\ Precedes(s, rate) => ~ Precedes(Inspection!Midpoint(s, rate), a)
          /\ Precedes(rate, s) => Precedes(Inspection!Midpoint(s, rate), a)
      BY <2>2, <2>3 DEF IsNearest
    <3> QED BY <3>1 DEF StandardRates, Rate, Precedes, Inspection!Midpoint, Inspection!Rate
  <2>4. a \in Fractions
    BY DEF Fractions, Rate
  <2> QED
    <3> HIDE DEF IsNearest
    <3> QED BY <2>1, <2>2, <2>3, <2>4, NearestIs
<1>2. ASSUME NEW a \in {Rate(2997, 100)}, NEW rate \in {Rate(30000, 1001)}
      PROVE  Inspection!NearestStandardFrameRate(a) = {rate}
  <2>1. IsNearest(rate, a)
    BY DEF IsNearest, StandardRates, Rate, Precedes, Inspection!Midpoint, Inspection!Rate
  <2>2. rate \in StandardRates
    BY DEF StandardRates
  <2>3. ASSUME NEW s \in StandardRates, IsNearest(s, a) PROVE s = rate
    <3>1. /\ Precedes(s, rate) => ~ Precedes(Inspection!Midpoint(s, rate), a)
          /\ Precedes(rate, s) => Precedes(Inspection!Midpoint(s, rate), a)
      BY <2>2, <2>3 DEF IsNearest
    <3> QED BY <3>1 DEF StandardRates, Rate, Precedes, Inspection!Midpoint, Inspection!Rate
  <2>4. a \in Fractions
    BY DEF Fractions, Rate
  <2> QED
    <3> HIDE DEF IsNearest
    <3> QED BY <2>1, <2>2, <2>3, <2>4, NearestIs
<1> QED BY <1>1, <1>2

(* A rate that matches a standard one, or none nearly, is that rate.       *)
LEMMA MatchingRates ==
    ASSUME NEW recorded, Inspection!IsUsual(recorded),
           NEW asked, Inspection!IsUsual(asked),
           NEW stated \in {recorded, Inspection!Approximation(recorded)}
    PROVE  Inspection!FrameRatesMatch(stated, asked) <=> recorded = asked
<1> DEFINE N(r) == Inspection!NearestStandardFrameRate(r)
<1>1. ASSUME NEW r, Inspection!IsUsual(r)
      PROVE  (r \in StandardRates /\ N(r) = {r}) \/ N(r) = {}
  <2>1. Inspection!StandardRates = StandardRates
    BY SameTimes
  <2>2. r \in StandardRates \/ N(r) = {}
    BY <1>1, <2>1 DEF Inspection!IsUsual
  <2> QED BY <2>2, StandardsAreNearest
<1>2. \/ stated = recorded
      \/ N(stated) = {recorded} /\ recorded \in StandardRates
  <2>1. CASE recorded = Rate(24000, 1001)
    <3>1. Inspection!Approximation(recorded) = Rate(2997, 125)
      BY <2>1 DEF Inspection!Approximation, Inspection!Rate, Rate
    <3>2. recorded \in StandardRates
      BY <2>1 DEF StandardRates
    <3> QED BY <2>1, <3>1, <3>2, ApproximationsAreNear
  <2>2. CASE recorded = Rate(30000, 1001)
    <3>1. Inspection!Approximation(recorded) = Rate(2997, 100)
      BY <2>2 DEF Inspection!Approximation, Inspection!Rate, Rate
    <3>2. recorded \in StandardRates
      BY <2>2 DEF StandardRates
    <3> QED BY <2>2, <3>1, <3>2, ApproximationsAreNear
  <2>3. CASE recorded # Rate(24000, 1001) /\ recorded # Rate(30000, 1001)
    <3>1. Inspection!Approximation(recorded) = recorded
      BY <2>3 DEF Inspection!Approximation, Inspection!Rate, Rate
    <3> QED BY <3>1
  <2> QED BY <2>1, <2>2, <2>3
<1>3. Inspection!FrameRatesMatch(stated, asked)
        <=> stated = asked \/ (N(stated) # {} /\ N(stated) = N(asked))
  BY DEF Inspection!FrameRatesMatch
<1>4. N(recorded) = {recorded} \/ N(recorded) = {}
  BY <1>1
<1>5. N(asked) = {asked} \/ N(asked) = {}
  BY <1>1
<1> HIDE DEF N
<1>6. CASE stated = recorded
  BY <1>3, <1>4, <1>5, <1>6
<1>7. CASE stated # recorded
  <2>1. N(stated) = {recorded} /\ N(recorded) = {recorded}
    BY <1>2, <1>7, StandardsAreNearest DEF N
  <2>2. stated = asked => recorded = asked
    BY <1>5, <2>1
  <2> QED BY <1>3, <1>5, <2>1, <2>2
<1> QED BY <1>6, <1>7

-----------------------------------------------------------------------------
(* What a writer says of a recording.                                      *)
FrameLength(r, base) == base.denominator * r.rate.denominator

TickLength(r, base) == base.numerator * r.rate.numerator

IsApproximated(r, w) ==
    "approximate" \in w.states /\ Inspection!Approximation(r.rate) # r.rate

LEMMA Int32IsWide ==
    Inspection!Int32Max \in Int /\ Inspection!Int32Max >= 30000
  BY SMT DEF Inspection!Int32Max

LEMMA RatiosAreFractions == Inspection!Ratios \subseteq Fractions
<1> HIDE DEF Inspection!Int32Max
<1> QED BY Int32IsWide DEF Inspection!Ratios, Fractions

(* What the assumptions say of a recording and its writer. *)
LEMMA UsualIsFraction ==
    ASSUME NEW rate, Inspection!IsUsual(rate)
    PROVE  /\ rate \in Fractions /\ rate \in Inspection!Ratios
           /\ CreateRate(rate.numerator, rate.denominator) = rate
<1>1. rate \in Inspection!Ratios
  BY DEF Inspection!IsUsual
<1>2. CreateRate(rate.numerator, rate.denominator) = rate
  BY SameTimes DEF Inspection!IsUsual
<1> QED BY <1>1, <1>2, RatiosAreFractions

LEMMA Recorded ==
    ASSUME NEW r \in Recordings
    PROVE  /\ Inspection!IsUsual(r.rate) /\ r.rate \in Fractions
           /\ r.rate \in Inspection!Ratios
           /\ CreateRate(r.rate.numerator, r.rate.denominator) = r.rate
           /\ r.span \in Nat \ {0}
           /\ r.shown \in Seq(0 .. r.span - 1)
           /\ Len(r.shown) \in 1 .. r.span
           /\ Inspection!IsTimecode(r.label, r.rate, r.mode)
<1>1. Inspection!IsRecording(r)
  BY RenderedVideoAssumption
<1> QED BY <1>1, UsualIsFraction DEF Inspection!IsRecording

LEMMA Precise ==
    ASSUME NEW r \in Recordings, NEW w \in Writers, NEW base \in Inspection!Bases(w)
    PROVE  /\ base \in Fractions
           /\ FrameLength(r, base) \in Nat \ {0} /\ TickLength(r, base) \in Nat \ {0}
           /\ TickLength(r, base) <= FrameLength(r, base)
           /\ IsApproximated(r, w) =>
                /\ 2 * r.span < Inspection!Drift
                /\ TickLength(r, base) < FrameLength(r, base) =>
                     2 * r.span * (FrameLength(r, base)
                         \div (FrameLength(r, base) - TickLength(r, base)) + 1)
                       <= Inspection!Drift
<1>1. Inspection!IsPrecise(r, w, base) /\ Inspection!IsWriter(w)
      /\ PerSecond \in Nat \ {0}
  BY RenderedVideoAssumption
<1>2. base \in Fractions
  <2>1. CASE base = w.timeBase
    BY <1>1, <2>1, RatiosAreFractions DEF Inspection!IsWriter
  <2>2. CASE base = Inspection!Rate(1, PerSecond)
    BY <1>1, <2>2 DEF Inspection!Rate, Fractions
  <2> QED BY <2>1, <2>2 DEF Inspection!Bases
<1>3. /\ base.numerator \in Nat \ {0} /\ base.denominator \in Nat \ {0}
      /\ r.rate.numerator \in Nat \ {0} /\ r.rate.denominator \in Nat \ {0}
  BY <1>2, Recorded DEF Fractions
<1>4. FrameLength(r, base) \in Nat \ {0} /\ TickLength(r, base) \in Nat \ {0}
  BY <1>3, Positive DEF FrameLength, TickLength
<1>5. /\ TickLength(r, base) <= FrameLength(r, base)
      /\ IsApproximated(r, w) =>
           /\ 2 * r.span < Inspection!Drift
           /\ TickLength(r, base) < FrameLength(r, base) =>
                2 * r.span * (FrameLength(r, base)
                    \div (FrameLength(r, base) - TickLength(r, base)) + 1)
                  <= Inspection!Drift
  BY Zenon, <1>1 DEF Inspection!IsPrecise, FrameLength, TickLength, IsApproximated
<1> QED BY <1>2, <1>4, <1>5

(* An approximated rate is one part in Drift less than the true one. *)
LEMMA ApproximationLoses ==
    ASSUME NEW rate, Inspection!Approximation(rate) # rate
    PROVE  LET n == Inspection!Approximation(rate) IN
             /\ rate \in Fractions /\ n \in Fractions /\ n \in Inspection!Ratios
             /\ n.numerator * rate.denominator * Inspection!Drift
                  = rate.numerator * n.denominator * (Inspection!Drift - 1)
<1>1. CASE rate = Rate(24000, 1001)
  <2>1. Inspection!Approximation(rate) = Rate(2997, 125)
    BY <1>1 DEF Inspection!Approximation, Inspection!Rate, Rate
  <2> DEFINE n == Inspection!Approximation(rate)
  <2>2. n.numerator * rate.denominator * Inspection!Drift
          = rate.numerator * n.denominator * (Inspection!Drift - 1)
    BY SMT, <1>1, <2>1 DEF Rate, Inspection!Drift
  <2>3. rate \in Fractions /\ n \in Fractions
    BY <1>1, <2>1 DEF Rate, Fractions
  <2>4. n \in Inspection!Ratios
    BY <2>1, Int32IsWide DEF Rate, Inspection!Ratios
  <2> HIDE DEF n
  <2> QED BY <2>2, <2>3, <2>4 DEF n
<1>2. CASE rate = Rate(30000, 1001)
  <2>1. Inspection!Approximation(rate) = Rate(2997, 100)
    BY <1>2 DEF Inspection!Approximation, Inspection!Rate, Rate
  <2> DEFINE n == Inspection!Approximation(rate)
  <2>2. n.numerator * rate.denominator * Inspection!Drift
          = rate.numerator * n.denominator * (Inspection!Drift - 1)
    BY SMT, <1>2, <2>1 DEF Rate, Inspection!Drift
  <2>3. rate \in Fractions /\ n \in Fractions
    BY <1>2, <2>1 DEF Rate, Fractions
  <2>4. n \in Inspection!Ratios
    BY <2>1, Int32IsWide DEF Rate, Inspection!Ratios
  <2> HIDE DEF n
  <2> QED BY <2>2, <2>3, <2>4 DEF n
<1>3. CASE rate # Rate(24000, 1001) /\ rate # Rate(30000, 1001)
  BY <1>3 DEF Inspection!Approximation, Inspection!Rate, Rate
<1> QED BY <1>1, <1>2, <1>3

(* The rate a writer states for the recording.                             *)
StatedRate(r, w) ==
    IF "approximate" \in w.states THEN Inspection!Approximation(r.rate) ELSE r.rate

Counted(ticks, base, rate) ==
    (ticks * (base.numerator * rate.numerator)
       + (base.denominator * rate.denominator) \div 2)
      \div (base.denominator * rate.denominator)

(* Equal ratios times equal ratios. *)
LEMMA Products ==
    ASSUME NEW a \in Nat, NEW b \in Nat, NEW c \in Nat, NEW d \in Nat,
           NEW x \in Nat, NEW y \in Nat, NEW k \in Nat, NEW l \in Nat,
           x * d * k = c * y * l
    PROVE  (a * x) * (b * d) * k = (a * c) * (b * y) * l
<1>1. (a * x) * (b * d) * k = (a * b) * (x * d * k)
  BY SMT
<1>2. (a * c) * (b * y) * l = (a * b) * (c * y * l)
  BY SMT
<1> QED BY <1>1, <1>2

(* The ticks of a frame's time are that many frames, at the rate and at    *)
(* its approximation.                                                      *)
LEMMA FramesAreCounted ==
    ASSUME NEW r \in Recordings, NEW w \in Writers, NEW base \in Inspection!Bases(w),
           NEW f \in Nat, f <= r.span, NEW rate \in {r.rate, StatedRate(r, w)}
    PROVE  Counted(Ticks(f, FrameLength(r, base), TickLength(r, base)), base, rate) = f
<1> DEFINE a == FrameLength(r, base)
           b == TickLength(r, base)
           o == Ticks(f, a, b)
<1>1. a \in Nat \ {0} /\ b \in Nat \ {0} /\ b <= a
  BY Precise
<1>2. CASE rate = r.rate
  <2>1. base.numerator * rate.numerator = b /\ base.denominator * rate.denominator = a
    BY <1>2 DEF FrameLength, TickLength
  <2>2. Counted(o, base, rate) = (o * b + a \div 2) \div a
    BY <2>1 DEF Counted
  <2>3. (o * b + a \div 2) \div a = f
    <3> HIDE DEF a, b, o
    <3>1. a \in Nat /\ b \in Nat /\ 0 < b /\ b <= a
      BY <1>1
    <3> QED BY <3>1, RoundTrip DEF o, Ticks
  <2> QED BY <2>2, <2>3
<1>3. CASE rate # r.rate
  <2> DEFINE M == Inspection!Drift
             c == base.numerator * rate.numerator
             d == base.denominator * rate.denominator
  <2>1. rate = Inspection!Approximation(r.rate) /\ IsApproximated(r, w)
    BY <1>3 DEF StatedRate, IsApproximated
  <2>2. /\ rate \in Fractions
        /\ rate.numerator * r.rate.denominator * M
             = r.rate.numerator * rate.denominator * (M - 1)
    BY <1>3, <2>1, ApproximationLoses
  <2>3. /\ rate.numerator \in Nat \ {0} /\ rate.denominator \in Nat \ {0}
        /\ r.rate.numerator \in Nat \ {0} /\ r.rate.denominator \in Nat \ {0}
        /\ base.numerator \in Nat \ {0} /\ base.denominator \in Nat \ {0}
        /\ M \in Nat \ {0} /\ M - 1 \in Nat
    BY SMT, <2>2, Recorded, Precise DEF Fractions, Inspection!Drift
  <2>4. c \in Nat /\ d \in Nat \ {0}
    BY <2>3, Positive
  <2>5. c * a * M = b * d * (M - 1)
    <3> HIDE DEF M
    <3>1. c * a * M = (base.numerator * r.rate.numerator)
                        * (base.denominator * rate.denominator) * (M - 1)
      <4> DEFINE x == rate.numerator
                 y == rate.denominator
                 u == r.rate.numerator
                 v == r.rate.denominator
                 s == base.numerator
                 t == base.denominator
                 l == M - 1
      <4>1. /\ x \in Nat /\ y \in Nat /\ u \in Nat /\ v \in Nat /\ s \in Nat
            /\ t \in Nat /\ M \in Nat /\ l \in Nat /\ x * v * M = u * y * l
        BY <2>2, <2>3
      <4> HIDE DEF x, y, u, v, s, t, l
      <4>2. (s * x) * (t * v) * M = (s * u) * (t * y) * l
        BY <4>1, Products
      <4> QED BY <4>2 DEF x, y, u, v, s, t, l, FrameLength
    <3> QED BY <3>1 DEF TickLength
  <2>6. 2 * r.span < M /\ (b < a => 2 * r.span * (a \div (a - b) + 1) <= M)
    BY <2>1, Precise
  <2>7. 2 * f < M /\ (b < a => 2 * f * (a \div (a - b) + 1) <= M)
    <3> DEFINE n == r.span
               z == a \div (a - b) + 1
    <3>1. n \in Nat /\ M \in Nat /\ f <= n /\ 2 * n < M /\ (b < a => 2 * n * z <= M)
      BY <2>3, <2>6, Recorded
    <3>2. b < a => z \in Nat
      <4> SUFFICES ASSUME b < a PROVE z \in Nat
        OBVIOUS
      <4> HIDE DEF a, b
      <4>1. a \in Nat /\ a - b \in Nat \ {0}
        BY <1>1, SMT
      <4>2. a \div (a - b) \in Nat
        BY <4>1, Remainder
      <4> DEFINE y == a \div (a - b)
      <4> HIDE DEF y
      <4>3. y + 1 \in Nat
        BY <4>2 DEF y
      <4> QED BY <4>3 DEF y
    <3> HIDE DEF n, z, M, a, b
    <3>3. 2 * f < M
      BY <3>1, SMT
    <3>4. ASSUME b < a PROVE 2 * f * z <= M
      <4>1. (n - f) * z >= 0
        BY <3>1, <3>2, <3>4, SMT
      <4>2. (n - f) * z = n * z - f * z /\ 2 * n * z = 2 * (n * z)
            /\ 2 * f * z = 2 * (f * z)
        BY <3>1, <3>2, <3>4, SMT
      <4>3. n * z \in Int /\ f * z \in Int
        BY <3>1, <3>2, <3>4, SMT
      <4> DEFINE x == n * z
                 y == f * z
      <4>4. x \in Int /\ y \in Int /\ x - y >= 0 /\ 2 * x <= M
        BY <3>1, <3>4, <4>1, <4>2, <4>3
      <4> HIDE DEF x, y
      <4>5. 2 * y <= M
        BY <3>1, <4>4, SMT
      <4> QED BY <4>2, <4>5 DEF y
    <3> QED BY <3>3, <3>4 DEF z
  <2>8. (o * c + d \div 2) \div d = f
    <3>1. M \in Nat \ {0}
      BY <2>3
    <3> HIDE DEF a, b, c, d, M, o
    <3>2. (Ticks(f, a, b) * c + d \div 2) \div d = f
      <4>1. Loses(f, a, b, c, d, M)
        BY Zenon, <1>1, <2>4, <2>5, <2>7, <3>1 DEF Loses
      <4> QED BY <1>1, <2>4, <3>1, <4>1, ApproximationCounts
    <3> QED BY <3>2 DEF o
  <2> QED BY <2>8 DEF Counted
<1> QED BY <1>2, <1>3

(* A duration in ticks is positive only if it is what was counted.         *)
LEMMA RescaledTicks ==
    ASSUME NEW r \in Recordings, NEW w \in Writers, NEW base \in Inspection!Bases(w),
           NEW f \in Nat
    PROVE  LET o == Rescaled(f, Inverted(r.rate), base) IN
             /\ o \in Int
             /\ o >= 0 => o = Ticks(f, FrameLength(r, base), TickLength(r, base))
<1> DEFINE a == FrameLength(r, base)
           b == TickLength(r, base)
           o == Ticks(f, a, b)
           n == (f * (r.rate.denominator * base.denominator)
                   + (r.rate.numerator * base.numerator) \div 2)
                  \div (r.rate.numerator * base.numerator)
<1>1. a \in Nat \ {0} /\ b \in Nat \ {0} /\ b <= a
  BY Precise
<1>2. o \in Nat
  <2> HIDE DEF a, b
  <2> QED BY <1>1, TicksAreNear
<1>3. r.rate.denominator * base.denominator = a /\ r.rate.numerator * base.numerator = b
  <2>1. /\ r.rate.denominator \in Nat /\ base.denominator \in Nat
        /\ r.rate.numerator \in Nat /\ base.numerator \in Nat
    BY Recorded, Precise DEF Fractions
  <2>2. ASSUME NEW x \in Nat, NEW y \in Nat PROVE x * y = y * x
    BY SMT
  <2> QED BY <2>1, <2>2 DEF FrameLength, TickLength
<1>4. n = o
  BY <1>3 DEF Ticks
<1>5. Inverted(r.rate).numerator = r.rate.denominator
      /\ Inverted(r.rate).denominator = r.rate.numerator
  BY DEF Inverted, Rate
<1>6. Rescaled(f, Inverted(r.rate), base) = IF n <= Int64Max THEN n ELSE Int64Min
  BY Zenon, <1>5 DEF Rescaled
<1>7. Int64Min \in Int /\ Int64Min < 0
  BY FrameTimingAssumption, SMT DEF Int64Min
<1> HIDE DEF n, o
<1>8. CASE n <= Int64Max
  BY <1>2, <1>4, <1>6, <1>8 DEF o
<1>9. CASE ~ (n <= Int64Max)
  BY <1>6, <1>7, <1>9
<1> QED BY <1>8, <1>9

(* A writer states the rate or its approximation. *)
LEMMA StatedRateIsRate ==
    ASSUME NEW r \in Recordings, NEW w \in Writers
    PROVE  /\ StatedRate(r, w) \in Fractions
           /\ StatedRate(r, w) \in Inspection!Ratios
           /\ StatedRate(r, w) \in {r.rate, Inspection!Approximation(r.rate)}
           /\ StatedRate(r, w) # Absent
<1>1. r.rate \in Fractions /\ r.rate \in Inspection!Ratios
  BY Recorded
<1>2. Absent \notin Inspection!Ratios
  BY RenderedVideoAssumption
<1>3. CASE StatedRate(r, w) = r.rate
  BY <1>1, <1>2, <1>3
<1>4. CASE StatedRate(r, w) # r.rate
  <2>1. /\ StatedRate(r, w) = Inspection!Approximation(r.rate)
        /\ Inspection!Approximation(r.rate) # r.rate
    BY <1>4 DEF StatedRate
  <2> QED BY <1>2, <2>1, ApproximationLoses
<1> QED BY <1>3, <1>4

(* The picture that has the number of a frame shows that frame.            *)
LEMMA PictureIsShown ==
    ASSUME NEW r \in Recordings, NEW w \in Writers, "nominal" \in w.states,
           NEW p \in DOMAIN r.shown,
           FrameIndex(File(r, w).timestamps[p], File(r, w).stream) # NoIndex
    PROVE  FrameIndex(File(r, w).timestamps[p], File(r, w).stream) = r.shown[p]
<1> DEFINE stream == File(r, w).stream
           start == StreamStart(stream)
           time == File(r, w).timestamps[p]
           base == w.timeBase
           f == r.shown[p]
           rate == StatedRate(r, w)
           o == Rescaled(f, Inverted(r.rate), base)
           n == Counted(o, base, rate)
<1>1. /\ stream.rate = rate /\ stream.timeBase = base /\ stream.start = w.start
  <2>1. Inspection!Information(r, w).nominal = rate
    BY DEF Inspection!Information, Inspection!Says, StatedRate
  <2>2. rate # Absent
    BY StatedRateIsRate
  <2>3. Stated(Inspection!Information(r, w).nominal) = rate
    BY <2>1, <2>2 DEF Stated
  <2> HIDE DEF rate
  <2> QED BY <2>3 DEF File
<1>2. base \in Inspection!Bases(w)
  BY DEF Inspection!Bases
<1>3. time = IF p \in w.unstamped THEN NoTimestamp ELSE StreamStart(w) + o
  BY DEF File, Timestamps
<1>4. StreamStart(w) = start /\ start \in Int
  <2>1. w.start \in Int \cup {NoTimestamp}
    BY RenderedVideoAssumption DEF Inspection!IsWriter
  <2> HIDE DEF stream
  <2> QED BY <1>1, <2>1 DEF StreamStart
<1>5. f \in Nat /\ f <= r.span
  <2>1. r.shown \in Seq(0 .. r.span - 1) /\ r.span \in Nat
    BY Recorded
  <2>2. f \in 0 .. r.span - 1
    BY <2>1
  <2> QED BY <2>1, <2>2
<1>6. /\ IsIndexed(time, stream)
      /\ FrameIndex(time, stream)
           = Rescaled(time - start, stream.timeBase, Inverted(stream.rate))
  BY Zenon DEF FrameIndex
<1>7. /\ time # NoTimestamp /\ time - start >= 0
      /\ Rescaled(time - start, base, Inverted(rate)) >= 0
  BY Zenon, <1>1, <1>6 DEF IsIndexed
<1>8. o \in Int /\ (o >= 0 => o = Ticks(f, FrameLength(r, base), TickLength(r, base)))
  BY <1>2, <1>5, RescaledTicks
<1>9. time - start = o
  <2> HIDE DEF o, time, start
  <2>1. time = start + o
    BY <1>3, <1>4, <1>7
  <2> QED BY <1>4, <1>8, <2>1, SMT
<1>10. n = f
  <2>1. o = Ticks(f, FrameLength(r, base), TickLength(r, base))
    BY <1>7, <1>8, <1>9
  <2>2. rate \in {r.rate, StatedRate(r, w)}
    OBVIOUS
  <2> HIDE DEF o, f, base, rate
  <2>3. Counted(Ticks(f, FrameLength(r, base), TickLength(r, base)), base, rate) = f
    BY <1>2, <1>5, <2>2, FramesAreCounted
  <2> QED BY <2>1, <2>3 DEF o
<1>11. Rescaled(o, base, Inverted(rate)) = IF n <= Int64Max THEN n ELSE Int64Min
  <2>1. Inverted(rate).numerator = rate.denominator
        /\ Inverted(rate).denominator = rate.numerator
    BY DEF Inverted, Rate
  <2> HIDE DEF o, rate, base
  <2> QED BY Zenon, <2>1 DEF Rescaled, Counted, n
<1>12. Rescaled(o, base, Inverted(rate)) = f
  <2>1. Int64Min \in Int /\ Int64Min < 0
    BY FrameTimingAssumption, SMT DEF Int64Min
  <2> DEFINE x == Rescaled(o, base, Inverted(rate))
  <2>2. x >= 0 /\ (x = n \/ x = Int64Min)
    BY <1>7, <1>9, <1>11
  <2> HIDE DEF x, n
  <2>3. x = n
    BY <2>1, <2>2
  <2> QED BY <1>10, <2>3 DEF x
<1> QED BY <1>1, <1>6, <1>9, <1>12

-----------------------------------------------------------------------------
(* Durations. *)

LEMMA CountsAreExact ==
    ASSUME NEW ticks \in Nat, NEW base \in Fractions, NEW rate \in Fractions,
           FramesInDuration(ticks, base, rate) # NoIndex
    PROVE  FramesInDuration(ticks, base, rate) = Counted(ticks, base, rate)
<1>1. /\ base \in [numerator : Nat \ {0}, denominator : Nat \ {0}]
      /\ rate \in [numerator : Nat \ {0}, denominator : Nat \ {0}]
  BY DEF Fractions
<1> QED BY <1>1, FramesAreExact DEF Counted

(* The time base in which the duration is stated. *)
DurationBase(v, w) ==
    IF Inspection!HasStreamDuration(v) THEN w.timeBase ELSE Inspection!Rate(1, PerSecond)

(* The ticks stated for the duration are those nearest to it.              *)
LEMMA DurationIsTicks ==
    ASSUME NEW r \in Recordings, NEW w \in Writers, NEW v,
           v = Inspection!Information(r, w), Inspection!HasDuration(v)
    PROVE  LET base == DurationBase(v, w)
               o == Ticks(r.span, FrameLength(r, base), TickLength(r, base))
           IN /\ base \in Inspection!Bases(w) /\ o \in Nat
              /\ o = Rescaled(r.span, Inverted(r.rate), base)
              /\ \A rate : Inspection!FramesOfDuration(v, rate)
                             = FramesInDuration(o, base, rate)
<1> DEFINE base == DurationBase(v, w)
           o == Ticks(r.span, FrameLength(r, base), TickLength(r, base))
<1>1. /\ v.timeBase = w.timeBase
      /\ v.duration = IF "duration" \in w.states
                      THEN Inspection!Rescaled(r.span, Inspection!Inverted(r.rate),
                                               w.timeBase)
                      ELSE Absent
      /\ v.microseconds = IF "microseconds" \in w.states
                          THEN Inspection!Rescaled(r.span, Inspection!Inverted(r.rate),
                                                   Inspection!Rate(1, PerSecond))
                          ELSE Absent
  BY DEF Inspection!Information, Inspection!Says
<1>2. r.span \in Nat
  BY Recorded
<1>3. \A b : Inspection!Rescaled(r.span, Inspection!Inverted(r.rate), b)
               = Rescaled(r.span, Inverted(r.rate), b)
  BY SameTimes
<1>4. \A t, b, s : Inspection!FramesInDuration(t, b, s) = FramesInDuration(t, b, s)
  BY SameTimes
<1>5. CASE Inspection!HasStreamDuration(v)
  <2>1. v.duration # Absent /\ v.duration > 0 /\ base = w.timeBase
    BY <1>5 DEF Inspection!HasStreamDuration, DurationBase
  <2>2. v.duration = Rescaled(r.span, Inverted(r.rate), base)
    BY <1>1, <1>3, <2>1
  <2>3. base \in Inspection!Bases(w)
    BY <2>1 DEF Inspection!Bases
  <2>4. /\ v.duration \in Int
        /\ v.duration >= 0 =>
             v.duration = Ticks(r.span, FrameLength(r, base), TickLength(r, base))
    <3> HIDE DEF base
    <3> QED BY <1>2, <2>2, <2>3, RescaledTicks
  <2> HIDE DEF base
  <2>5. v.duration = o /\ o \in Nat
    <3> DEFINE x == v.duration
    <3>1. x \in Int /\ x > 0 /\ (x >= 0 => x = o)
      BY <2>1, <2>4
    <3> HIDE DEF x, o
    <3> QED BY <3>1 DEF x
  <2>6. \A rate : Inspection!FramesOfDuration(v, rate) = FramesInDuration(o, base, rate)
    BY <1>1, <1>4, <1>5, <2>1, <2>5 DEF Inspection!FramesOfDuration
  <2> QED BY Zenon, <2>2, <2>3, <2>5, <2>6 DEF base
<1>6. CASE ~ Inspection!HasStreamDuration(v)
  <2>1. v.microseconds # Absent /\ v.microseconds > 0
        /\ base = Inspection!Rate(1, PerSecond)
    BY <1>6 DEF Inspection!HasDuration, DurationBase
  <2>2. v.microseconds = Rescaled(r.span, Inverted(r.rate), base)
        /\ "microseconds" \in w.states
    BY <1>1, <1>3, <2>1
  <2>3. base \in Inspection!Bases(w)
    BY <2>1, <2>2 DEF Inspection!Bases
  <2>4. /\ v.microseconds \in Int
        /\ v.microseconds >= 0 =>
             v.microseconds = Ticks(r.span, FrameLength(r, base), TickLength(r, base))
    <3> HIDE DEF base
    <3> QED BY <1>2, <2>2, <2>3, RescaledTicks
  <2> HIDE DEF base
  <2>5. v.microseconds = o /\ o \in Nat
    <3> DEFINE x == v.microseconds
    <3>1. x \in Int /\ x > 0 /\ (x >= 0 => x = o)
      BY <2>1, <2>4
    <3> HIDE DEF x, o
    <3> QED BY <3>1 DEF x
  <2>6. \A rate : Inspection!FramesOfDuration(v, rate) = FramesInDuration(o, base, rate)
    BY <1>4, <1>6, <2>1, <2>5 DEF Inspection!FramesOfDuration
  <2> QED BY Zenon, <2>2, <2>3, <2>5, <2>6 DEF base
<1> QED BY <1>5, <1>6

(* At the rate, or the one stated, a duration counts the frames; at the    *)
(* average rate, the pictures.                                             *)
LEMMA DurationCounts ==
    ASSUME NEW r \in Recordings, NEW w \in Writers, NEW v,
           v = Inspection!Information(r, w), Inspection!HasDuration(v)
    PROVE  /\ \A rate \in {r.rate, StatedRate(r, w)} :
                Inspection!FramesOfDuration(v, rate) # NoIndex =>
                  Inspection!FramesOfDuration(v, rate) = r.span
           /\ "average" \in w.states /\ Inspection!FramesOfDuration(v, v.average) # NoIndex
                => Inspection!FramesOfDuration(v, v.average) = Len(r.shown)
<1> DEFINE base == DurationBase(v, w)
           o == Ticks(r.span, FrameLength(r, base), TickLength(r, base))
<1>1. /\ base \in Inspection!Bases(w) /\ o \in Nat
      /\ \A rate : Inspection!FramesOfDuration(v, rate) = FramesInDuration(o, base, rate)
  BY DurationIsTicks
<1>2. base \in Fractions
  <2> HIDE DEF base
  <2> QED BY <1>1, Precise
<1>3. r.span \in Nat \ {0} /\ r.rate \in Fractions /\ Len(r.shown) \in 1 .. r.span
  BY Recorded
<1> HIDE DEF base
<1>4. ASSUME NEW rate \in {r.rate, StatedRate(r, w)},
             Inspection!FramesOfDuration(v, rate) # NoIndex
      PROVE  Inspection!FramesOfDuration(v, rate) = r.span
  <2>1. rate \in Fractions
    BY <1>3, StatedRateIsRate
  <2>2. FramesInDuration(o, base, rate) # NoIndex
        /\ Inspection!FramesOfDuration(v, rate) = FramesInDuration(o, base, rate)
    BY <1>1, <1>4
  <2>3. FramesInDuration(o, base, rate) = Counted(o, base, rate)
    <3> HIDE DEF o
    <3> QED BY <1>1, <1>2, <2>1, <2>2, CountsAreExact
  <2>4. Counted(o, base, rate) = r.span
    <3>1. r.span \in Nat /\ r.span <= r.span
      BY <1>3
    <3> QED BY <1>1, <3>1, FramesAreCounted
  <2> QED BY <2>2, <2>3, <2>4
<1>5. ASSUME "average" \in w.states, Inspection!FramesOfDuration(v, v.average) # NoIndex
      PROVE  Inspection!FramesOfDuration(v, v.average) = Len(r.shown)
  <2> DEFINE avg == v.average
             L == Len(r.shown)
             f == r.span
             a == FrameLength(r, base)
             b == TickLength(r, base)
             c == base.numerator * avg.numerator
             d == base.denominator * avg.denominator
             n == r.rate.numerator * L
             m == r.rate.denominator * f
  <2>1. avg = CreateRate(n, m)
    <3>1. avg = Inspection!CreateRate(n, m)
      BY <1>5 DEF Inspection!Information, Inspection!Says
    <3> QED BY <3>1, SameTimes
  <2>2. /\ r.rate.numerator \in Nat \ {0} /\ r.rate.denominator \in Nat \ {0}
        /\ base.numerator \in Nat \ {0} /\ base.denominator \in Nat \ {0}
        /\ f \in Nat \ {0} /\ L \in 1 .. f /\ L \in Nat \ {0}
    BY <1>2, <1>3 DEF Fractions
  <2>3. n \in Nat \ {0} /\ m \in Nat \ {0}
    <3> HIDE DEF L, f
    <3> QED BY <2>2, Positive
  <2>4. avg \in Fractions /\ avg.numerator * m = avg.denominator * n
    <3> HIDE DEF n, m, avg
    <3> QED BY <2>1, <2>3, CreatedRate
  <2>5. avg.numerator \in Nat \ {0} /\ avg.denominator \in Nat \ {0}
    BY <2>4 DEF Fractions
  <2>6. c \in Nat /\ d \in Nat \ {0} /\ a \in Nat \ {0} /\ b \in Nat \ {0} /\ b <= a
    <3>1. c \in Nat \ {0} /\ d \in Nat \ {0}
      <4> HIDE DEF avg
      <4> QED BY <2>2, <2>5, Positive
    <3> QED BY <1>1, <3>1, Precise
  <2>7. c * a * f = b * d * L
    <3> DEFINE x == avg.numerator
               y == avg.denominator
               u == r.rate.numerator
               z == r.rate.denominator
               s == base.numerator
               t == base.denominator
    <3>1. /\ x \in Nat /\ y \in Nat /\ u \in Nat /\ z \in Nat /\ s \in Nat
          /\ t \in Nat /\ f \in Nat /\ L \in Nat /\ x * (z * f) = y * (u * L)
      BY <2>2, <2>4, <2>5
    <3> HIDE DEF x, y, u, z, s, t, f, L
    <3>2. x * z * f = u * y * L
      <4>1. x * (z * f) = x * z * f /\ y * (u * L) = u * y * L
        BY <3>1, SMT
      <4> QED BY <3>1, <4>1
    <3>3. (s * x) * (t * z) * f = (s * u) * (t * y) * L
      BY <3>1, <3>2, Products
    <3> QED BY <3>3 DEF x, y, u, z, s, t, FrameLength, TickLength
  <2>8. Counted(o, base, avg) = L
    <3>1. (Ticks(f, a, b) * c + d \div 2) \div d = L
      <4> HIDE DEF a, b, c, d, f, L
      <4>1. Averages(f, L, a, b, c, d)
        BY Zenon, <2>6, <2>7 DEF Averages
      <4> QED BY <2>2, <2>6, <4>1, AverageCounts
    <3> QED BY <3>1 DEF Counted
  <2>9. FramesInDuration(o, base, avg) # NoIndex
        /\ Inspection!FramesOfDuration(v, avg) = FramesInDuration(o, base, avg)
    BY <1>1, <1>5
  <2>10. FramesInDuration(o, base, avg) = Counted(o, base, avg)
    <3> HIDE DEF o, avg
    <3> QED BY <1>1, <1>2, <2>4, <2>9, CountsAreExact
  <2> QED BY <2>8, <2>9, <2>10
<1> QED BY <1>4, <1>5

-----------------------------------------------------------------------------
(* The conditions of a refusal. *)
NoneHolds(v, t) ==
    \A n \in 1 .. 12 : ~ Inspection!Holds(Inspection!Conditions[n], v, t)

(* How many conditions there are. *)
LEMMA TwelveConditions ==
    /\ DOMAIN Inspection!Conditions = 1 .. 12
    /\ Len(Inspection!Conditions) = 12
  BY DEF Inspection!Conditions

Passes(v, t) ==
    /\ v.container # "kOther"
    /\ Inspection!Events(t) # {}
    /\ Inspection!IsConsistent(t)
    /\ Absent \notin {v.average, v.nominal}
    /\ Inspection!IsConstantFrameRate(v)
    /\ Inspection!FrameRatesMatch(v.nominal, t.rate)
    /\ Inspection!EmbeddedTimecodes(v) # {}
    /\ Inspection!HasOneTimecode(v, t.rate)
    /\ Inspection!TheTimecode(v).mode = t.mode
    /\ Inspection!ToFrameCount(Inspection!TheTimecode(v).label, t.rate,
                               Inspection!TheTimecode(v).mode)
         = Inspection!SpanStart(t)
    /\ ~ (Inspection!DurationFrames(v, t.rate) <= 0)
    /\ Inspection!IsTolerated(Inspection!DurationFrames(v, t.rate)
                                - (Inspection!SpanEnd(t) - Inspection!SpanStart(t)))

(* No condition holds of a video exactly if it passes. *)
LEMMA NoneHoldsIsPassing ==
    ASSUME NEW v, NEW t
    PROVE  NoneHolds(v, t) <=> Passes(v, t)
<1> DEFINE H(c) == Inspection!Holds(c, v, t)
<1>1. NoneHolds(v, t) <=>
         /\ ~ H("unsupported_container") /\ ~ H("empty_timeline")
         /\ ~ H("inconsistent_timeline") /\ ~ H("missing_frame_rate")
         /\ ~ H("variable_frame_rate") /\ ~ H("frame_rate_mismatch")
         /\ ~ H("missing_timecode") /\ ~ H("invalid_timecode")
         /\ ~ H("timecode_mode_mismatch") /\ ~ H("timeline_start_mismatch")
         /\ ~ H("missing_duration") /\ ~ H("duration_mismatch")
  <2> HIDE DEF H
  <2>1. NoneHolds(v, t) <=> \A n \in 1 .. 12 : ~ H(Inspection!Conditions[n])
    BY DEF NoneHolds, H
  <2>2. \A n : n \in 1 .. 12 <=>
          n \in {1, 2, 3, 4, 5, 6, 7, 8, 9, 10, 11, 12}
    OBVIOUS
  <2>3. /\ Inspection!Conditions[1] = "unsupported_container"
        /\ Inspection!Conditions[2] = "empty_timeline"
        /\ Inspection!Conditions[3] = "inconsistent_timeline"
        /\ Inspection!Conditions[4] = "missing_frame_rate"
        /\ Inspection!Conditions[5] = "variable_frame_rate"
        /\ Inspection!Conditions[6] = "frame_rate_mismatch"
        /\ Inspection!Conditions[7] = "missing_timecode"
        /\ Inspection!Conditions[8] = "invalid_timecode"
        /\ Inspection!Conditions[9] = "timecode_mode_mismatch"
        /\ Inspection!Conditions[10] = "timeline_start_mismatch"
        /\ Inspection!Conditions[11] = "missing_duration"
        /\ Inspection!Conditions[12] = "duration_mismatch"
    BY DEF Inspection!Conditions
  <2> QED BY <2>1, <2>2, <2>3
<1>2. /\ H("unsupported_container") <=> v.container = "kOther"
      /\ H("empty_timeline") <=> Inspection!Events(t) = {}
      /\ H("inconsistent_timeline") <=> ~ Inspection!IsConsistent(t)
      /\ H("missing_frame_rate") <=> Absent \in {v.average, v.nominal}
  BY DEF Inspection!Holds
<1>3. /\ H("variable_frame_rate") <=> ~ Inspection!IsConstantFrameRate(v)
      /\ H("frame_rate_mismatch")
           <=> ~ Inspection!FrameRatesMatch(v.nominal, t.rate)
      /\ H("missing_timecode") <=> Inspection!EmbeddedTimecodes(v) = {}
  BY DEF Inspection!Holds
<1>5. H("invalid_timecode")
        <=> ~ Inspection!HasOneTimecode(v, t.rate)
  BY DEF Inspection!Holds
<1>4. /\ H("timecode_mode_mismatch") <=> Inspection!TheTimecode(v).mode # t.mode
      /\ H("timeline_start_mismatch")
           <=> Inspection!ToFrameCount(Inspection!TheTimecode(v).label, t.rate,
                                       Inspection!TheTimecode(v).mode)
                 # Inspection!SpanStart(t)
      /\ H("missing_duration") <=> Inspection!DurationFrames(v, t.rate) <= 0
      /\ H("duration_mismatch")
           <=> ~ Inspection!IsTolerated(
                   Inspection!DurationFrames(v, t.rate)
                     - (Inspection!SpanEnd(t) - Inspection!SpanStart(t)))
  BY DEF Inspection!Holds
<1> HIDE DEF H
<1> QED BY Zenon, <1>1, <1>2, <1>3, <1>4, <1>5 DEF Passes

(* What the mapping of an accepted video is made of.                       *)
MappingOf(v, t) ==
    [offset |-> - Inspection!SpanStart(t),
     start |-> Inspection!SpanStart(t), end |-> Inspection!SpanEnd(t),
     duration |-> Inspection!DurationFrames(v, t.rate)]

-----------------------------------------------------------------------------
(* Nothing but a render passes. *)

(* The timecode found is the one that was embedded.                        *)
LEMMA TimecodeIsEmbedded ==
    ASSUME NEW r \in Recordings, NEW w \in Writers, NEW rate, NEW v,
           v = Inspection!Information(r, w),
           Inspection!EmbeddedTimecodes(v) # {},
           Inspection!IsReadable(Inspection!TheTimecode(v), rate)
    PROVE  Inspection!TheTimecode(v) = Inspection!Embedded(r)
<1> DEFINE S == Inspection!EmbeddedTimecodes(v)
           e == Inspection!Embedded(r)
<1>1. Inspection!IsWriter(w)
  BY RenderedVideoAssumption
<1>2. /\ v.others = w.timecodes
      /\ v.timecodes = Absent \/ v.timecodes = {e}
  BY DEF Inspection!Information, Inspection!Says
<1>3. S \subseteq {e, Unreadable}
  <2>1. w.timecodes \subseteq {Unreadable}
    BY <1>1 DEF Inspection!IsWriter
  <2>2. S = (IF v.timecodes = Absent THEN {} ELSE v.timecodes) \cup v.others
    BY DEF Inspection!EmbeddedTimecodes
  <2> HIDE DEF S, e
  <2> QED BY <1>2, <2>1, <2>2
<1>4. Inspection!TheTimecode(v) \in S
  <2> HIDE DEF S
  <2>1. (CHOOSE x \in S : TRUE) \in S
    BY DEF S
  <2> QED BY <2>1 DEF Inspection!TheTimecode, S
<1>5. Inspection!TheTimecode(v) # Unreadable
  BY DEF Inspection!IsReadable
<1> HIDE DEF S, e
<1> QED BY <1>3, <1>4, <1>5 DEF e

(* A common factor. *)
LEMMA EqualProducts ==
    ASSUME NEW x \in Nat \ {0}, NEW a \in Int, NEW b \in Int, x * a = x * b
    PROVE  a = b
<1>1. x * (a - b) = 0
  BY SMT
<1>2. CASE a > b
  <2>1. (x - 1) * (a - b) >= 0 /\ (x - 1) * (a - b) = x * (a - b) - (a - b)
    BY <1>2, SMT
  <2> QED BY <1>1, <1>2, <2>1, SMT
<1>3. CASE b > a
  <2>1. (x - 1) * (b - a) >= 0 /\ (x - 1) * (b - a) = - (x * (a - b)) - (b - a)
    BY <1>3, SMT
  <2> QED BY <1>1, <1>3, <2>1, SMT
<1> QED BY <1>2, <1>3, SMT

(* The average rate is the one stated only if every frame has a picture.   *)
LEMMA NoFrameIsLost ==
    ASSUME NEW r \in Recordings, NEW w \in Writers,
           CreateRate(r.rate.numerator * Len(r.shown), r.rate.denominator * r.span)
             = StatedRate(r, w)
    PROVE  Len(r.shown) = r.span
<1> DEFINE L == Len(r.shown)
           f == r.span
           u == r.rate.numerator
           z == r.rate.denominator
           x == StatedRate(r, w).numerator
           y == StatedRate(r, w).denominator
<1>1. /\ u \in Nat \ {0} /\ z \in Nat \ {0} /\ x \in Nat \ {0} /\ y \in Nat \ {0}
      /\ f \in Nat \ {0} /\ L \in 1 .. f /\ L \in Nat \ {0}
  BY Recorded, StatedRateIsRate DEF Fractions
<1>2. x * (z * f) = y * (u * L)
  <2>1. u * L \in Nat \ {0} /\ z * f \in Nat \ {0}
    <3> HIDE DEF u, z, f, L
    <3> QED BY <1>1, Positive
  <2> DEFINE n == u * L
             m == z * f
             q == CreateRate(n, m)
  <2>2. q.numerator * m = q.denominator * n
    <3>1. q = CreateRate(n, m) /\ n \in Nat \ {0} /\ m \in Nat \ {0}
      BY <2>1
    <3> HIDE DEF n, m, q
    <3> QED BY <3>1, CreatedRate
  <2>3. q = StatedRate(r, w)
    OBVIOUS
  <2> QED BY <2>2, <2>3
<1>3. CASE StatedRate(r, w) = r.rate
  <2>1. x = u /\ y = z
    BY <1>3
  <2> HIDE DEF u, z, x, y, L, f
  <2>2. u * (z * f) = z * (u * L)
    BY <1>2, <2>1
  <2>3. u * (z * f) = (u * z) * f /\ z * (u * L) = (u * z) * L
    BY <1>1, SMT
  <2>4. u * z \in Nat \ {0}
    BY <1>1, Positive
  <2>5. (u * z) * f = (u * z) * L /\ f \in Int /\ L \in Int
    BY <1>1, <2>2, <2>3
  <2>6. f = L
    <3> DEFINE k == u * z
    <3> HIDE DEF k
    <3>1. k \in Nat \ {0} /\ k * f = k * L
      BY <2>4, <2>5 DEF k
    <3> QED BY <2>5, <3>1, EqualProducts
  <2> QED BY <2>6 DEF f, L
<1>4. CASE StatedRate(r, w) # r.rate
  <2> DEFINE M == Inspection!Drift
  <2>1. StatedRate(r, w) = Inspection!Approximation(r.rate) /\ IsApproximated(r, w)
    BY <1>4 DEF StatedRate, IsApproximated
  <2>2. x * z * M = u * y * (M - 1)
    BY <1>4, <2>1, ApproximationLoses
  <2>3. 2 * f < M
    <3>1. w.timeBase \in Inspection!Bases(w)
      BY DEF Inspection!Bases
    <3> QED BY <2>1, <3>1, Precise
  <2>4. M \in Nat \ {0} /\ M - 1 \in Nat
    BY SMT DEF Inspection!Drift
  <2> HIDE DEF u, z, x, y, L, f, M
  <2>5. (x * (z * f)) * M = (x * z * M) * f
    BY <1>1, <2>4, SMT
  <2>6. (y * (u * L)) * M = (u * y) * (L * M)
    BY <1>1, <2>4, SMT
  <2>7. (u * y * (M - 1)) * f = (u * y) * ((M - 1) * f)
    <3> DEFINE l == M - 1
    <3> HIDE DEF l
    <3>1. l \in Nat
      BY <2>4 DEF l
    <3>2. (u * y * l) * f = (u * y) * (l * f)
      BY <1>1, <3>1, SMT
    <3> QED BY <3>2 DEF l
  <2>8. (u * y) * (L * M) = (u * y) * ((M - 1) * f)
    BY <1>2, <2>2, <2>5, <2>6, <2>7
  <2>9. L * M = (M - 1) * f
    <3> DEFINE k == u * y
               s == L * M
               t == (M - 1) * f
    <3>1. k \in Nat \ {0}
      BY <1>1, Positive
    <3>2. s \in Int /\ t \in Int
      BY <1>1, <2>4, SMT
    <3>3. k * s = k * t
      BY <2>8
    <3> HIDE DEF k, s, t
    <3>4. s = t
      BY <3>1, <3>2, <3>3, EqualProducts
    <3> QED BY <3>4 DEF s, t
  <2>10. (f - L) * M = f
    <3>1. (f - L) * M = f * M - L * M /\ (M - 1) * f = f * M - f
      BY <1>1, <2>4, SMT
    <3>2. f * M \in Int /\ L * M \in Int
      BY <1>1, <2>4, SMT
    <3> DEFINE s == f * M
               t == L * M
               k == (f - L) * M
    <3>3. s \in Int /\ t \in Int /\ k = s - t /\ t = s - f
      BY <2>9, <3>1, <3>2
    <3> HIDE DEF s, t, k
    <3>4. k = f
      BY <1>1, <3>3, SMT
    <3> QED BY <3>4 DEF k
  <2>11. L <= f
    BY <1>1
  <2>12. CASE L = f
    BY <2>12 DEF L, f
  <2>13. CASE L # f
    <3>1. (f - L - 1) * M >= 0 /\ (f - L - 1) * M = (f - L) * M - M
      BY <1>1, <2>4, <2>11, <2>13, SMT
    <3> DEFINE k == (f - L) * M
    <3>2. k = f /\ k - M >= 0
      BY <2>10, <3>1
    <3> HIDE DEF k
    <3>3. FALSE
      BY <1>1, <2>3, <2>4, <3>2, SMT
    <3> QED BY <3>3
  <2> QED BY <2>12, <2>13
<1> QED BY <1>3, <1>4

(* A label counts a number of frames. *)
LEMMA FirstFrameIsNumber ==
    ASSUME NEW r \in Recordings
    PROVE  Inspection!FirstFrame(r) \in Int
<1> DEFINE l == r.label
           nominal == NominalFramesPerSecond(r.rate)
<1>1. Inspection!FirstFrame(r) = ToFrameCount(l, r.rate, r.mode)
  BY SameTimes DEF Inspection!FirstFrame
<1>2. IsTimecode(l, r.rate, r.mode)
  BY Recorded, SameTimes
<1>3. /\ l.hours \in Int /\ l.minutes \in Int /\ l.seconds \in Int /\ l.frames \in Int
      /\ nominal \in Int
  <2>1. /\ l.hours \in 0 .. 23 /\ l.minutes \in 0 .. 59 /\ l.seconds \in 0 .. 59
        /\ l.frames \in 0 .. nominal - 1 /\ nominal \in 1 .. Int32Max
    BY Zenon, <1>2 DEF IsTimecode, IsSupported
  <2> HIDE DEF nominal, l
  <2> QED BY <2>1
<1> HIDE DEF l, nominal
<1>4. LabeledFrame(l, r.rate) \in Int
  <2> DEFINE x == (l.hours * 60 + l.minutes) * 60 + l.seconds
  <2>1. x \in Int
    BY <1>3
  <2> HIDE DEF x
  <2>2. x * nominal \in Int
    BY <1>3, <2>1, SMT
  <2>3. x * nominal + l.frames \in Int
    BY <1>3, <2>2
  <2> QED BY <2>3 DEF LabeledFrame, x, nominal
<1>5. DroppedFramesPerMinute(r.rate) \in Int
  BY <1>3 DEF DroppedFramesPerMinute, nominal
<1> DEFINE m == l.hours * 60 + l.minutes
           k == m - m \div 10
<1>6. k \in Int
  BY <1>3
<1>7. ToFrameCount(l, r.rate, r.mode)
        = LabeledFrame(l, r.rate)
            - (IF r.mode = "drop" THEN DroppedFramesPerMinute(r.rate) * k ELSE 0)
  BY DEF ToFrameCount
<1> HIDE DEF k
<1>8. DroppedFramesPerMinute(r.rate) * k \in Int
  BY <1>5, <1>6, SMT
<1> QED BY <1>1, <1>4, <1>7, <1>8

(* A writer that states both rates states what they are. *)
LEMMA StatesBothRates ==
    ASSUME NEW r \in Recordings, NEW w \in Writers, NEW v,
           v = Inspection!Information(r, w), Absent \notin {v.average, v.nominal}
    PROVE  /\ "average" \in w.states /\ "nominal" \in w.states
           /\ v.average = CreateRate(r.rate.numerator * Len(r.shown),
                                     r.rate.denominator * r.span)
           /\ v.nominal = StatedRate(r, w)
<1>1. /\ v.average = IF "average" \in w.states
                     THEN Inspection!CreateRate(r.rate.numerator * Len(r.shown),
                                                r.rate.denominator * r.span)
                     ELSE Absent
      /\ v.nominal = IF "nominal" \in w.states THEN StatedRate(r, w) ELSE Absent
  BY DEF Inspection!Information, Inspection!Says, StatedRate
<1>2. /\ "average" \in w.states /\ "nominal" \in w.states
  BY <1>1
<1> QED BY <1>1, <1>2, SameTimes

(* A constant rate shows that few frames were lost.                        *)
LEMMA FewAreLost ==
    ASSUME NEW r \in Recordings, NEW w \in Writers, NEW v,
           v = Inspection!Information(r, w), Absent \notin {v.average, v.nominal},
           Inspection!IsConstantFrameRate(v)
    PROVE  r.span - Len(r.shown) <= Tolerance
<1>1. /\ "average" \in w.states /\ "nominal" \in w.states
      /\ v.average = CreateRate(r.rate.numerator * Len(r.shown),
                                r.rate.denominator * r.span)
      /\ v.nominal = StatedRate(r, w)
  BY StatesBothRates
<1>2. /\ r.span \in Nat \ {0} /\ Len(r.shown) \in 1 .. r.span
      /\ Tolerance \in Nat
  BY Recorded, RenderedVideoAssumption
<1>3. CASE v.average = v.nominal
  <2>1. Len(r.shown) = r.span
    BY <1>1, <1>3, NoFrameIsLost
  <2> QED BY <1>2, <2>1
<1>4. CASE v.average # v.nominal
  <2> DEFINE counted == Inspection!FramesOfDuration(v, v.average)
             stated == Inspection!FramesOfDuration(v, v.nominal)
  <2>1. /\ Inspection!HasDuration(v) /\ NoIndex \notin {counted, stated}
        /\ Inspection!IsTolerated(counted - stated)
    BY <1>4 DEF Inspection!IsConstantFrameRate
  <2>2. counted # NoIndex /\ stated # NoIndex
    BY <2>1
  <2>3. counted = Len(r.shown) /\ stated = r.span
    BY <1>1, <2>1, <2>2, DurationCounts
  <2>4. Len(r.shown) - r.span \in (- Tolerance) .. Tolerance
    BY <2>1, <2>3 DEF Inspection!IsTolerated
  <2> DEFINE L == Len(r.shown)
             f == r.span
  <2>5. L \in Int /\ f \in Int /\ L - f >= - Tolerance
    BY <1>2, <2>4
  <2> HIDE DEF L, f
  <2>6. f - L <= Tolerance
    BY <1>2, <2>5, SMT
  <2> QED BY <2>6 DEF L, f
<1> QED BY <1>3, <1>4

(* The frames of the duration are those shown or those of the time shown.  *)
LEMMA DurationIsShown ==
    ASSUME NEW r \in Recordings, NEW w \in Writers, NEW v,
           v = Inspection!Information(r, w),
           ~ (Inspection!DurationFrames(v, r.rate) <= 0)
    PROVE  Inspection!DurationFrames(v, r.rate) \in {r.span, Len(r.shown)}
<1> DEFINE n == Inspection!DurationFrames(v, r.rate)
           m == Inspection!FramesOfDuration(v, r.rate)
<1>1. n = IF v.frameCount # Absent /\ v.frameCount > 0 THEN v.frameCount
          ELSE IF Inspection!HasDuration(v) /\ m # NoIndex THEN m ELSE 0
  BY DEF Inspection!DurationFrames
<1>2. v.frameCount # Absent => v.frameCount = Len(r.shown)
  BY DEF Inspection!Information, Inspection!Says
<1>3. Inspection!HasDuration(v) /\ m # NoIndex => m = r.span
  BY DurationCounts
<1>4. ~ (0 <= 0) => FALSE
  OBVIOUS
<1> HIDE DEF n, m
<1>5. n = Len(r.shown) \/ n = r.span \/ n = 0
  BY <1>1, <1>2, <1>3
<1>6. n # 0
  BY <1>4 DEF n
<1> QED BY <1>5, <1>6 DEF n

(* What passes is in the timeline's mode, starts where it does and lasts   *)
(* as long.                                                                *)
LEMMA PassingShows ==
    ASSUME NEW t \in Timelines, NEW r \in Recordings, NEW w \in Writers, NEW v,
           v = Inspection!Information(r, w), Passes(v, t)
    PROVE  /\ "nominal" \in w.states
           /\ r.mode = t.mode
           /\ Inspection!FirstFrame(r) = Inspection!SpanStart(t)
           /\ \E frames \in {r.span, Len(r.shown)} :
                frames - (Inspection!SpanEnd(t) - Inspection!SpanStart(t))
                  \in (- Tolerance) .. Tolerance
           /\ r.span - Len(r.shown) <= Tolerance
<1>1. /\ "nominal" \in w.states /\ v.nominal = StatedRate(r, w)
  BY Zenon, StatesBothRates DEF Passes
<1>2. r.rate = t.rate
  <2>1. Inspection!FrameRatesMatch(StatedRate(r, w), t.rate)
    BY Zenon, <1>1 DEF Passes
  <2>2. Inspection!IsUsual(t.rate)
    BY RenderedVideoAssumption
  <2>3. StatedRate(r, w) \in {r.rate, Inspection!Approximation(r.rate)}
    BY StatedRateIsRate
  <2>4. Inspection!IsUsual(r.rate)
    BY Recorded
  <2> QED BY <2>1, <2>2, <2>3, <2>4, MatchingRates
<1>3. Inspection!TheTimecode(v) = Inspection!Embedded(r)
  <2>1. Inspection!IsReadable(Inspection!TheTimecode(v), t.rate)
        /\ Inspection!EmbeddedTimecodes(v) # {}
    BY Zenon DEF Passes, Inspection!HasOneTimecode
  <2> QED BY <2>1, TimecodeIsEmbedded
<1>4. /\ Inspection!TheTimecode(v).mode = r.mode
      /\ Inspection!TheTimecode(v).label = r.label
  BY <1>3 DEF Inspection!Embedded
<1>5. r.mode = t.mode
  BY Zenon, <1>4 DEF Passes
<1>6. Inspection!FirstFrame(r) = Inspection!SpanStart(t)
  BY Zenon, <1>2, <1>4 DEF Passes, Inspection!FirstFrame
<1> DEFINE n == Inspection!DurationFrames(v, t.rate)
<1>7. n \in {r.span, Len(r.shown)}
  <2>1. ~ (n <= 0)
    BY Zenon DEF Passes
  <2> QED BY <1>2, <2>1, DurationIsShown
<1>8. n - (Inspection!SpanEnd(t) - Inspection!SpanStart(t)) \in (- Tolerance) .. Tolerance
  BY Zenon DEF Passes, Inspection!IsTolerated
<1>9. r.span - Len(r.shown) <= Tolerance
  BY Zenon, FewAreLost DEF Passes
<1> HIDE DEF n
<1> QED BY <1>1, <1>5, <1>6, <1>7, <1>8, <1>9

-----------------------------------------------------------------------------
(* Every render passes. *)

(* Neither part of a division is more than what is divided. *)
LEMMA QuotientIsLess ==
    ASSUME NEW n \in Nat, NEW d \in Nat \ {0}
    PROVE  n \div d \in Nat /\ n % d \in Nat /\ n \div d + (n % d) <= n
<1> DEFINE q == n \div d
           m == n % d
<1>1. q \in Nat /\ m \in Nat /\ n = q * d + m
  BY Remainder
<1> HIDE DEF q, m
<1>2. q * (d - 1) >= 0 /\ q * (d - 1) = q * d - q /\ q * d \in Int
  BY <1>1, SMT
<1> DEFINE p == q * d
<1>3. p \in Int /\ p - q >= 0 /\ n = p + m
  BY <1>1, <1>2
<1> HIDE DEF p
<1>4. q + m <= n
  BY <1>1, <1>3, SMT
<1> QED BY <1>1, <1>4 DEF q, m

(* A count that is small enough is computed. *)
LEMMA SmallCountsFit ==
    ASSUME NEW ticks \in Nat, NEW base \in Fractions, NEW rate \in Fractions,
           ticks * (base.numerator * rate.numerator)
             + base.denominator * rate.denominator <= Int64Max
    PROVE  FramesInDuration(ticks, base, rate) # NoIndex
<1> DEFINE c == base.numerator * rate.numerator
           d == base.denominator * rate.denominator
           q == ticks \div d
           m == ticks % d
           h == d \div 2
           whole == q * c
           part == m * c
           rounded == (part + h) \div d
<1>1. Int64Max \in Nat /\ NoIndex \notin Nat
  BY FrameTimingAssumption
<1>2. c \in Nat \ {0} /\ d \in Nat \ {0}
  <2>1. /\ base.numerator \in Nat \ {0} /\ base.denominator \in Nat \ {0}
        /\ rate.numerator \in Nat \ {0} /\ rate.denominator \in Nat \ {0}
    BY DEF Fractions
  <2> QED BY <2>1, Positive
<1>3. ticks * c + d <= Int64Max
  OBVIOUS
<1> HIDE DEF c, d
<1>4. q \in Nat /\ m \in Nat /\ q + m <= ticks
  BY <1>2, QuotientIsLess
<1>5. h \in Nat /\ h <= d
  BY <1>2, SMT
<1> HIDE DEF q, m, h
<1>6. whole \in Nat /\ part \in Nat /\ whole + part <= ticks * c /\ ticks * c \in Nat
  <2>1. (ticks - q - m) * c >= 0 /\ (ticks - q - m) * c = ticks * c - whole - part
    BY <1>2, <1>4, SMT
  <2>2. whole \in Nat /\ part \in Nat /\ ticks * c \in Nat
    BY <1>2, <1>4, SMT
  <2> DEFINE x == ticks * c
  <2>3. x - whole - part >= 0 /\ x \in Nat
    BY <2>1, <2>2
  <2> HIDE DEF x, whole, part
  <2>4. whole + part <= x
    BY <2>2, <2>3, SMT
  <2> QED BY <2>2, <2>4 DEF x
<1> DEFINE x == ticks * c
<1>7. x \in Nat /\ whole + part <= x /\ x + d <= Int64Max
  BY <1>3, <1>6
<1> HIDE DEF x, whole, part
<1>8. rounded \in Nat /\ rounded <= part + h
  <2>1. part + h \in Nat
    BY <1>5, <1>6
  <2> DEFINE y == part + h
  <2> HIDE DEF y
  <2>2. y \div d \in Nat /\ y % d \in Nat /\ y \div d + (y % d) <= y
    BY <1>2, <2>1, QuotientIsLess DEF y
  <2> DEFINE z == y \div d
             u == y % d
  <2>3. z \in Nat /\ u \in Nat /\ z + u <= y /\ y \in Nat
    BY <2>1, <2>2 DEF y
  <2> HIDE DEF z, u
  <2>4. z <= y
    BY <2>3, SMT
  <2> QED BY <2>3, <2>4 DEF z, y
<1> HIDE DEF rounded
<1>9. SumFits(part, h) /\ SumFits(whole, rounded)
  <2>1. part <= Int64Max - h
    BY <1>1, <1>2, <1>5, <1>6, <1>7, SMT
  <2>2. whole <= Int64Max - rounded
    BY <1>1, <1>2, <1>5, <1>6, <1>7, <1>8, SMT
  <2> QED BY <2>1, <2>2 DEF SumFits
<1>10. ASSUME NEW n \in Nat, n * c <= Int64Max PROVE ProductFits(n, c)
  <2> DEFINE k == Int64Max \div c
  <2>1. k \in Nat /\ Int64Max = k * c + (Int64Max % c) /\ Int64Max % c < c
        /\ Int64Max % c \in Nat
    BY <1>1, <1>2, Remainder
  <2> DEFINE l == Int64Max % c
  <2>2. l \in Nat /\ l < c /\ Int64Max = k * c + l
    BY <2>1
  <2> HIDE DEF k, l
  <2>3. CASE n > k
    <3>1. (n - k - 1) * c >= 0 /\ (n - k - 1) * c = n * c - k * c - c
      BY <1>2, <2>1, <2>3, SMT
    <3>2. n * c \in Int /\ k * c \in Int
      BY <1>2, <2>1, SMT
    <3> DEFINE i == n * c
               j == k * c
    <3>3. i \in Int /\ j \in Int /\ i - j - c >= 0 /\ i <= Int64Max /\ Int64Max = j + l
      BY <1>10, <2>2, <3>1, <3>2
    <3> HIDE DEF i, j
    <3>4. FALSE
      BY <1>1, <1>2, <2>2, <3>3, SMT
    <3> QED BY <3>4
  <2>4. CASE n <= k
    BY <2>4 DEF ProductFits, k
  <2> QED BY <2>1, <2>3, <2>4
<1>11. ProductFits(q, c) /\ ProductFits(m, c)
  <2>1. whole <= Int64Max /\ part <= Int64Max
    BY <1>1, <1>2, <1>6, <1>7, SMT
  <2>2. q * c <= Int64Max /\ m * c <= Int64Max
    BY <2>1 DEF whole, part
  <2> QED BY <1>4, <1>10, <2>2
<1>12. FramesInDuration(ticks, base, rate) = whole + rounded
  BY Zenon, <1>9, <1>11 DEF FramesInDuration, c, d, q, m, h, whole, part, rounded
<1>13. whole + rounded \in Nat
  BY <1>6, <1>8
<1> QED BY <1>1, <1>12, <1>13

(* What the assumption on durations says of the ticks a writer states: *)
LEMMA Countable ==
    ASSUME NEW r \in Recordings, NEW w \in Writers, NEW base \in Inspection!Bases(w)
    PROVE  LET o == Rescaled(r.span, Inverted(r.rate), base) IN
             /\ o \in Nat /\ o > 0
             /\ o = Ticks(r.span, FrameLength(r, base), TickLength(r, base))
             /\ \A rate \in {r.rate, Inspection!Approximation(r.rate)} :
                  o * (base.numerator * rate.numerator)
                    + base.denominator * rate.denominator <= Int64Max
<1> DEFINE o == Rescaled(r.span, Inverted(r.rate), base)
           a == FrameLength(r, base)
           b == TickLength(r, base)
           f == r.span
<1>1. Inspection!IsCountable(r, base)
  BY AcceptanceAssumption
<1>2. Inspection!Rescaled(r.span, Inspection!Inverted(r.rate), base) = o
  BY SameTimes
<1>3. /\ o >= 0
      /\ \A rate \in {r.rate, Inspection!Approximation(r.rate)} :
           o * (base.numerator * rate.numerator)
             + base.denominator * rate.denominator <= Int64Max
  BY Zenon, <1>1, <1>2 DEF Inspection!IsCountable
<1>4. f \in Nat \ {0}
  BY Recorded
<1>5. o \in Int /\ o = Ticks(f, a, b)
  <2>1. f \in Nat
    BY <1>4
  <2> QED BY <1>3, <2>1, RescaledTicks
<1>6. a \in Nat \ {0} /\ b \in Nat \ {0} /\ b <= a
  BY Precise
<1> HIDE DEF o, a, b, f
<1>7. o # 0
  <2> SUFFICES ASSUME o = 0 PROVE FALSE
    OBVIOUS
  <2> DEFINE y == f * a
             x == Ticks(f, a, b) * b
  <2>1. x \in Int /\ y \in Int /\ 2 * (y - x) <= b
    BY <1>4, <1>6, TicksAreNear
  <2>2. x = 0
    <3>1. 0 * b = 0
      BY <1>6, SMT
    <3> QED BY <1>5, <3>1
  <2>3. y >= a
    <3>1. (f - 1) * a >= 0 /\ (f - 1) * a = f * a - a
      BY <1>4, <1>6, SMT
    <3>2. y - a >= 0
      BY <3>1
    <3> HIDE DEF y
    <3> QED BY <1>6, <2>1, <3>2, SMT
  <2> HIDE DEF x, y
  <2> QED BY <1>6, <2>1, <2>2, <2>3, SMT
<1>8. o \in Nat /\ o > 0
  BY <1>3, <1>5, <1>7
<1> QED BY Zenon, <1>3, <1>5, <1>8 DEF o, a, b, f

(* their frames can be counted. *)
LEMMA DurationFits ==
    ASSUME NEW r \in Recordings, NEW w \in Writers, NEW v,
           v = Inspection!Information(r, w),
           "duration" \in w.states \/ "microseconds" \in w.states
    PROVE  /\ Inspection!HasDuration(v)
           /\ \A rate \in {r.rate, StatedRate(r, w)} :
                Inspection!FramesOfDuration(v, rate) # NoIndex
<1>1. /\ v.timeBase = w.timeBase
      /\ v.duration = IF "duration" \in w.states
                      THEN Inspection!Rescaled(r.span, Inspection!Inverted(r.rate),
                                               w.timeBase)
                      ELSE Absent
      /\ v.microseconds = IF "microseconds" \in w.states
                          THEN Inspection!Rescaled(r.span, Inspection!Inverted(r.rate),
                                                   Inspection!Rate(1, PerSecond))
                          ELSE Absent
  BY DEF Inspection!Information, Inspection!Says
<1>2. \A b : Inspection!Rescaled(r.span, Inspection!Inverted(r.rate), b)
               = Rescaled(r.span, Inverted(r.rate), b)
  BY SameTimes
<1>3. Absent \notin Int
  BY RenderedVideoAssumption
<1>4. Inspection!HasDuration(v)
  <2>1. CASE "duration" \in w.states
    <3>1. w.timeBase \in Inspection!Bases(w)
      BY DEF Inspection!Bases
    <3>2. v.duration \in Nat /\ v.duration > 0
      BY <1>1, <1>2, <2>1, <3>1, Countable
    <3>3. v.timeBase \in Fractions
      BY <1>1, <3>1, Precise
    <3>4. Inspection!IsPositive(v.timeBase)
      BY <3>3 DEF Fractions, Inspection!IsPositive
    <3>5. v.duration # Absent
      BY <1>3, <3>2
    <3> QED BY <3>2, <3>4, <3>5 DEF Inspection!HasDuration, Inspection!HasStreamDuration
  <2>2. CASE "microseconds" \in w.states
    <3>1. Inspection!Rate(1, PerSecond) \in Inspection!Bases(w)
      BY <2>2 DEF Inspection!Bases
    <3>2. v.microseconds \in Nat /\ v.microseconds > 0
      BY <1>1, <1>2, <2>2, <3>1, Countable
    <3>3. v.microseconds # Absent
      BY <1>3, <3>2
    <3> QED BY <3>2, <3>3 DEF Inspection!HasDuration
  <2> QED BY <2>1, <2>2
<1>5. ASSUME NEW rate \in {r.rate, StatedRate(r, w)}
      PROVE  Inspection!FramesOfDuration(v, rate) # NoIndex
  <2> DEFINE base == DurationBase(v, w)
             o == Rescaled(r.span, Inverted(r.rate), base)
  <2>1. /\ base \in Inspection!Bases(w)
        /\ \A s : Inspection!FramesOfDuration(v, s) = FramesInDuration(o, base, s)
    BY <1>4, DurationIsTicks
  <2>2. rate \in Fractions /\ rate \in {r.rate, Inspection!Approximation(r.rate)}
    BY Recorded, StatedRateIsRate
  <2> HIDE DEF base
  <2>3. base \in Fractions
    BY <2>1, Precise
  <2>4. /\ o \in Nat
        /\ o * (base.numerator * rate.numerator)
             + base.denominator * rate.denominator <= Int64Max
    BY <2>1, <2>2, Countable
  <2> HIDE DEF o
  <2>5. FramesInDuration(o, base, rate) # NoIndex
    BY <2>2, <2>3, <2>4, SmallCountsFit
  <2> QED BY <2>1, <2>5
<1> QED BY <1>4, <1>5

(* The instance's Cardinality is the module's. *)
LEMMA SameCardinality == \A S : Inspection!Cardinality(S) = Cardinality(S)
  BY DEF Inspection!Cardinality, Cardinality

(* A render by a writer that says enough passes.                           *)
LEMMA RendersPass ==
    ASSUME NEW t \in Timelines, NEW r \in Recordings, NEW w \in Writers, NEW v,
           v = Inspection!Information(r, w), Inspection!Container(w) # "kOther",
           Inspection!IsRender(r, t), Inspection!SaysEnough(w)
    PROVE  Passes(v, t)
<1>1. /\ Inspection!Events(t) # {} /\ Inspection!IsConsistent(t)
      /\ r.rate = t.rate /\ r.mode = t.mode
      /\ Inspection!FirstFrame(r) = Inspection!SpanStart(t)
      /\ Len(r.shown) = r.span
      /\ r.span - (Inspection!SpanEnd(t) - Inspection!SpanStart(t)) \in -1 .. 1
  BY DEF Inspection!IsRender
<1>2. /\ "average" \in w.states /\ "nominal" \in w.states /\ "timecode" \in w.states
      /\ w.timecodes = {}
      /\ \/ "duration" \in w.states \/ "microseconds" \in w.states
         \/ "frameCount" \in w.states
      /\ "approximate" \in w.states =>
           "duration" \in w.states \/ "microseconds" \in w.states
  BY DEF Inspection!SaysEnough
<1>3. /\ r.rate \in Fractions /\ r.rate \in Inspection!Ratios
      /\ CreateRate(r.rate.numerator, r.rate.denominator) = r.rate
      /\ r.span \in Nat \ {0} /\ Inspection!IsUsual(r.rate)
      /\ Inspection!IsTimecode(r.label, r.rate, r.mode)
  BY Recorded
<1>4. /\ Absent \notin Int /\ Absent \notin Inspection!Ratios
      /\ Inspection!Embedded(r) # Unreadable
      /\ Absent # {Inspection!Embedded(r)}
      /\ Inspection!IsUsual(t.rate)
      /\ Tolerance \in Nat /\ Tolerance >= 1
  BY RenderedVideoAssumption, AcceptanceAssumption
<1>5. v.average = r.rate
  <2>1. v.average = Inspection!CreateRate(r.rate.numerator * Len(r.shown),
                                          r.rate.denominator * r.span)
    BY <1>2 DEF Inspection!Information, Inspection!Says
  <2>2. v.average = CreateRate(r.rate.numerator * r.span, r.rate.denominator * r.span)
    BY <1>1, <2>1, SameTimes
  <2> QED BY <1>3, <2>2, CreatedAgain
<1>6. v.nominal = StatedRate(r, w)
  BY <1>2 DEF Inspection!Information, Inspection!Says, StatedRate
<1>7. Absent \notin {v.average, v.nominal}
  BY <1>3, <1>4, <1>5, <1>6, StatedRateIsRate
<1>8. v.container # "kOther"
  BY DEF Inspection!Information
<1>9. Inspection!IsConstantFrameRate(v)
  <2>1. CASE v.nominal = r.rate
    BY <1>5, <2>1 DEF Inspection!IsConstantFrameRate
  <2>2. CASE v.nominal # r.rate
    <3> DEFINE counted == Inspection!FramesOfDuration(v, v.average)
               stated == Inspection!FramesOfDuration(v, v.nominal)
    <3>1. "approximate" \in w.states
      BY <1>6, <2>2 DEF StatedRate
    <3>2. "duration" \in w.states \/ "microseconds" \in w.states
      BY <1>2, <3>1
    <3>3. Inspection!HasDuration(v) /\ counted # NoIndex /\ stated # NoIndex
      BY <1>5, <1>6, <3>2, DurationFits
    <3>4. counted = r.span /\ stated = r.span
      BY <1>5, <1>6, <3>3, DurationCounts
    <3>5. counted - stated = 0
      BY <1>3, <3>4
    <3>6. Inspection!IsTolerated(counted - stated)
      BY <1>4, <3>5 DEF Inspection!IsTolerated
    <3> QED BY Zenon, <3>3, <3>6 DEF Inspection!IsConstantFrameRate
  <2> QED BY <2>1, <2>2
<1>10. Inspection!FrameRatesMatch(v.nominal, t.rate)
  <2>1. StatedRate(r, w) \in {r.rate, Inspection!Approximation(r.rate)}
    BY StatedRateIsRate
  <2> QED BY <1>1, <1>3, <1>4, <1>6, <2>1, MatchingRates
<1>11. Inspection!EmbeddedTimecodes(v) = {Inspection!Embedded(r)}
  <2>1. v.timecodes = {Inspection!Embedded(r)} /\ v.others = {}
    BY <1>2 DEF Inspection!Information, Inspection!Says
  <2> QED BY <1>4, <2>1 DEF Inspection!EmbeddedTimecodes
<1>12. Inspection!TheTimecode(v) = Inspection!Embedded(r)
  <2> DEFINE e == Inspection!Embedded(r)
  <2> HIDE DEF e
  <2>1. (CHOOSE x \in {e} : TRUE) = e
    OBVIOUS
  <2> QED BY <1>11, <2>1 DEF Inspection!TheTimecode, e
<1>13. /\ Inspection!TheTimecode(v).mode = r.mode
       /\ Inspection!TheTimecode(v).label = r.label
  BY <1>12 DEF Inspection!Embedded
<1>14. Inspection!HasOneTimecode(v, t.rate)
  <2>1. Cardinality({Inspection!Embedded(r)}) = 1
    BY FS_Singleton
  <2>2. Inspection!IsReadable(Inspection!TheTimecode(v), t.rate)
    BY <1>1, <1>3, <1>4, <1>12, <1>13 DEF Inspection!IsReadable
  <2> QED BY <1>11, <2>1, <2>2, SameCardinality DEF Inspection!HasOneTimecode
<1>15. Inspection!ToFrameCount(Inspection!TheTimecode(v).label, t.rate,
                               Inspection!TheTimecode(v).mode)
         = Inspection!SpanStart(t)
  BY <1>1, <1>13 DEF Inspection!FirstFrame
<1> DEFINE n == Inspection!DurationFrames(v, t.rate)
<1>16. n = r.span
  <2>1. CASE "frameCount" \in w.states
    <3>1. v.frameCount = r.span
      BY <1>1, <2>1 DEF Inspection!Information, Inspection!Says
    <3>2. v.frameCount # Absent /\ v.frameCount > 0
      BY <1>3, <1>4, <3>1
    <3> QED BY <3>1, <3>2 DEF Inspection!DurationFrames
  <2>2. CASE "frameCount" \notin w.states
    <3>1. v.frameCount = Absent
      BY <2>2 DEF Inspection!Information, Inspection!Says
    <3>2. Inspection!HasDuration(v)
          /\ Inspection!FramesOfDuration(v, t.rate) # NoIndex
      BY <1>1, <1>2, <2>2, DurationFits
    <3>3. Inspection!FramesOfDuration(v, t.rate) = r.span
      BY <1>1, <3>2, DurationCounts
    <3> QED BY <3>1, <3>2, <3>3 DEF Inspection!DurationFrames
  <2> QED BY <2>1, <2>2
<1>17. ~ (n <= 0)
  BY <1>3, <1>16
<1>18. Inspection!IsTolerated(n - (Inspection!SpanEnd(t) - Inspection!SpanStart(t)))
  <2> DEFINE x == r.span - (Inspection!SpanEnd(t) - Inspection!SpanStart(t))
  <2>1. x \in -1 .. 1
    BY <1>1
  <2> HIDE DEF x
  <2>2. x \in (- Tolerance) .. Tolerance
    BY <1>4, <2>1
  <2>3. Inspection!IsTolerated(x)
    BY <2>2 DEF Inspection!IsTolerated
  <2> QED BY <1>16, <2>3 DEF x
<1>19. Inspection!EmbeddedTimecodes(v) # {}
  BY <1>11
<1>20. Inspection!TheTimecode(v).mode = t.mode
  BY <1>1, <1>13
<1> QED BY Zenon, <1>1, <1>7, <1>8, <1>9, <1>10, <1>14, <1>15, <1>17, <1>18, <1>19, <1>20
        DEF Passes

-----------------------------------------------------------------------------
(* The checks that Validate gets to.                                       *)
Failing(n) == Inspection!Holds(Inspection!Conditions[n], information, timeline)

IsReach(f) ==
    f = [n \in 1 .. Len(Inspection!Conditions) + 1 |-> n > 1 => f[n - 1] /\ ~ Failing(n - 1)]

ReachWitness ==
    [n \in 1 .. Len(Inspection!Conditions) + 1 |-> \A m \in 1 .. n - 1 : ~ Failing(m)]

(* Reaches is a function that goes on with itself, as the witness does. *)
LEMMA WitnessIsReach == IsReach(ReachWitness)
<1> DEFINE D == 1 .. Len(Inspection!Conditions) + 1
           P(n) == \A m \in 1 .. n - 1 : ~ Failing(m)
           W == [n \in D |-> P(n)]
<1>1. D = 1 .. 13
  BY TwelveConditions
<1>2. ASSUME NEW n \in D
      PROVE  P(n) = (n > 1 => W[n - 1] /\ ~ Failing(n - 1))
  <2>1. CASE n = 1
    <3>1. ~ (n > 1) /\ 1 .. n - 1 = {}
      BY <2>1
    <3>2. P(n) = TRUE
      BY <3>1
    <3>3. (n > 1 => W[n - 1] /\ ~ Failing(n - 1)) = TRUE
      BY Zenon, <3>1
    <3> QED BY <3>2, <3>3
  <2>2. CASE n # 1
    <3>1. n > 1 /\ n - 1 \in D /\ 1 .. n - 1 = (1 .. (n - 1) - 1) \cup {n - 1}
      BY <1>1, <2>2
    <3> HIDE DEF D
    <3>2. W[n - 1] = P(n - 1)
      BY <3>1
    <3>3. P(n) <=> P(n - 1) /\ ~ Failing(n - 1)
      <4> DEFINE A == 1 .. n - 1
                 B == 1 .. (n - 1) - 1
                 k == n - 1
      <4>1. A = B \cup {k}
        BY <3>1
      <4> HIDE DEF A, B, k
      <4>2. (\A m \in A : ~ Failing(m)) <=> (\A m \in B : ~ Failing(m)) /\ ~ Failing(k)
        BY <4>1
      <4> QED BY <4>2 DEF A, B, k
    <3> HIDE DEF W
    <3>4. P(n) <=> (n > 1 => W[n - 1] /\ ~ Failing(n - 1))
      BY Zenon, <3>1, <3>2, <3>3
    <3>5. P(n) \in BOOLEAN /\ (n > 1 => W[n - 1] /\ ~ Failing(n - 1)) \in BOOLEAN
      OBVIOUS
    <3> HIDE DEF P
    <3> QED BY Zenon, <3>4, <3>5, SameTruth
  <2> QED BY <2>1, <2>2
<1> DEFINE H == [n \in D |-> n > 1 => W[n - 1] /\ ~ Failing(n - 1)]
<1>3. [n \in D |-> P(n)] = H
  <2> HIDE DEF D, P, W
  <2> QED BY Zenon, <1>2
<1>4. ReachWitness = W
  BY Zenon DEF ReachWitness
<1> QED BY Zenon, <1>3, <1>4 DEF IsReach

LEMMA ReachIsChosen == IsReach(Inspection!Reaches)
<1>1. Inspection!Reaches = CHOOSE g : IsReach(g)
  BY Zenon DEF Inspection!Reaches, IsReach, Failing
<1>2. IsReach(CHOOSE g : IsReach(g))
  <2> HIDE DEF IsReach
  <2> QED BY WitnessIsReach
<1> QED
  <2> HIDE DEF IsReach
  <2> QED BY <1>1, <1>2

(* The last check is passed only if all are. *)
LEMMA ReachesTheEnd ==
    ASSUME Inspection!Reaches[Len(Inspection!Conditions) + 1]
    PROVE  NoneHolds(information, timeline)
<1> DEFINE f == Inspection!Reaches
           T == {k \in Nat : k \in 1 .. 13 /\ f[k] => \A m \in 1 .. k - 1 : ~ Failing(m)}
<1>1. \A n \in 1 .. 13 : f[n] <=> (n > 1 => f[n - 1] /\ ~ Failing(n - 1))
  <2> DEFINE H == [n \in 1 .. 13 |-> n > 1 => f[n - 1] /\ ~ Failing(n - 1)]
  <2>1. 1 .. Len(Inspection!Conditions) + 1 = 1 .. 13
    BY TwelveConditions
  <2>2. f = H
    BY Zenon, <2>1, ReachIsChosen DEF IsReach
  <2>3. \A n \in 1 .. 13 : H[n] <=> (n > 1 => f[n - 1] /\ ~ Failing(n - 1))
    BY Zenon
  <2> HIDE DEF H, f
  <2> QED BY Zenon, <2>2, <2>3
<1> HIDE DEF f
<1>2. ASSUME NEW n \in Nat, \A m \in Nat : m < n => m \in T, n \in 1 .. 13, f[n],
             NEW k \in 1 .. n - 1
      PROVE  ~ Failing(k)
  <2> DEFINE j == n - 1
  <2>1. j \in Nat /\ j < n /\ j \in 1 .. 13 /\ n > 1 /\ (k = j \/ k \in 1 .. j - 1)
    BY <1>2
  <2>2. f[j] /\ ~ Failing(j)
    BY Zenon, <1>1, <1>2, <2>1
  <2> HIDE DEF j
  <2>3. j \in T
    <3> HIDE DEF T
    <3> QED BY <1>2, <2>1
  <2>4. \A m \in 1 .. j - 1 : ~ Failing(m)
    BY Zenon, <2>1, <2>2, <2>3
  <2> QED BY Zenon, <2>1, <2>2, <2>4
<1>3. Nat \subseteq T
  <2>1. \A n \in Nat : (\A m \in Nat : m < n => m \in T) => n \in T
    BY Zenon, <1>2
  <2> HIDE DEF T
  <2> QED BY <2>1, FromThoseBelow
<1>4. f[13]
  <2>1. Len(Inspection!Conditions) + 1 = 13
    BY TwelveConditions
  <2> QED BY Zenon, <2>1 DEF f
<1>5. 13 \in T /\ 13 \in 1 .. 13 /\ 1 .. 13 - 1 = 1 .. 12
  <2> HIDE DEF T
  <2> QED BY <1>3
<1>6. \A m \in 1 .. 12 : ~ Failing(m)
  BY Zenon, <1>4, <1>5
<1> QED BY Zenon, <1>6 DEF NoneHolds, Failing

-----------------------------------------------------------------------------
(* The invariant.  What was read is what the writer says of the recording, *)
(* a refusal after that has a condition that holds, and an accepted video  *)
(* passed all of them.                                                     *)

Judged ==
    /\ information = Inspection!Information(recording, writer)
    /\ Inspection!Container(writer) # "kOther"

InspectionInv ==
    /\ timeline \in Timelines /\ recording \in Recordings /\ writer \in Writers
    /\ file = File(recording, writer)
    /\ stage \in {"opening", "validating", "refused", "accepted"}
    /\ stage = "opening" => information = Absent
    /\ stage = "validating" => Judged
    /\ stage = "refused" /\ information # Absent =>
         Judged /\ ~ NoneHolds(information, timeline)
    /\ stage = "accepted" =>
         /\ Judged /\ NoneHolds(information, timeline)
         /\ mapping = MappingOf(information, timeline)

(* The invariant holds at first, *)
LEMMA InspectionStarts == ReceiptInit => InspectionInv
<1> SUFFICES ASSUME ReceiptInit PROVE InspectionInv
  OBVIOUS
<1>1. /\ timeline \in Timelines /\ recording \in Recordings /\ writer \in Writers
      /\ file = File(recording, writer)
      /\ stage = "opening" /\ information = Absent
  BY DEF ReceiptInit, Inspection!Init
<1> QED BY <1>1 DEF InspectionInv

(* every step of the inspection keeps it, *)
LEMMA InspectionStep ==
    ASSUME InspectionInv, Inspect PROVE InspectionInv'
<1>1. file' = file
  BY DEF Inspect, vars
<1>2. /\ timeline \in Timelines /\ recording \in Recordings /\ writer \in Writers
      /\ file = File(recording, writer)
  BY DEF InspectionInv
<1>3. SUFFICES ASSUME Inspection!Next PROVE InspectionInv'
  BY DEF Inspect
<1>4. CASE Inspection!FailToOpen
  <2>1. /\ stage = "opening" /\ stage' = "refused"
        /\ timeline' = timeline /\ recording' = recording /\ writer' = writer
        /\ information' = information
    BY <1>4 DEF Inspection!FailToOpen, Inspection!Refuse, Inspection!request
  <2>2. information' = Absent
    BY <2>1 DEF InspectionInv
  <2>3. File(recording, writer)' = File(recording, writer)
    BY <2>1
  <2> QED BY <1>1, <1>2, <2>1, <2>2, <2>3 DEF InspectionInv
<1>5. CASE Inspection!Open
  <2>1. /\ stage' = "validating"
        /\ timeline' = timeline /\ recording' = recording /\ writer' = writer
        /\ information' = Inspection!Information(recording, writer)
        /\ Inspection!Container(writer) # "kOther"
    BY <1>5 DEF Inspection!Open, Inspection!request
  <2>2. Judged'
    BY <2>1 DEF Judged
  <2>3. file' = File(recording', writer')
    BY <1>1, <1>2, <2>1
  <2> QED BY <1>2, <2>1, <2>2, <2>3 DEF InspectionInv
<1>6. CASE Inspection!Validate
  <2>1. /\ timeline' = timeline /\ recording' = recording /\ writer' = writer
        /\ information' = information /\ stage = "validating"
    BY <1>6 DEF Inspection!Validate, Inspection!request
  <2>2. Judged
    BY <2>1 DEF InspectionInv
  <2>3. Judged' /\ NoneHolds(information, timeline)' = NoneHolds(information, timeline)
        /\ MappingOf(information, timeline)' = MappingOf(information, timeline)
    BY <2>1, <2>2 DEF Judged
  <2>4. file' = File(recording', writer')
    BY <1>1, <1>2, <2>1
  <2>5. CASE \E n \in DOMAIN Inspection!Conditions :
               /\ Inspection!Reaches[n]
               /\ Inspection!Holds(Inspection!Conditions[n], information, timeline)
               /\ Inspection!Refuse(<<Inspection!Conditions[n]>>)
    <3>1. PICK n \in DOMAIN Inspection!Conditions :
               /\ Inspection!Holds(Inspection!Conditions[n], information, timeline)
               /\ Inspection!Refuse(<<Inspection!Conditions[n]>>)
      BY Zenon, <2>5
    <3>2. ~ NoneHolds(information, timeline)
      BY Zenon, <3>1, TwelveConditions DEF NoneHolds
    <3>3. stage' = "refused"
      BY <3>1 DEF Inspection!Refuse
    <3> HIDE DEF NoneHolds
    <3> QED BY <1>2, <2>1, <2>3, <2>4, <3>2, <3>3 DEF InspectionInv
  <2>6. CASE /\ Inspection!Reaches[Len(Inspection!Conditions) + 1]
             /\ mapping' = MappingOf(information, timeline)
             /\ stage' = "accepted"
    <3>1. NoneHolds(information, timeline)
      BY Zenon, <2>6, ReachesTheEnd
    <3> HIDE DEF NoneHolds, MappingOf
    <3> QED BY <1>2, <2>1, <2>3, <2>4, <2>6, <3>1 DEF InspectionInv
  <2>7. \/ \E n \in DOMAIN Inspection!Conditions :
             /\ Inspection!Reaches[n]
             /\ Inspection!Holds(Inspection!Conditions[n], information, timeline)
             /\ Inspection!Refuse(<<Inspection!Conditions[n]>>)
        \/ /\ Inspection!Reaches[Len(Inspection!Conditions) + 1]
           /\ mapping' = MappingOf(information, timeline)
           /\ stage' = "accepted"
    BY Zenon, <1>6 DEF Inspection!Validate, MappingOf
  <2> QED BY <2>5, <2>6, <2>7
<1> QED BY <1>3, <1>4, <1>5, <1>6 DEF Inspection!Next

(* and so does the caller, who changes nothing it speaks of. *)
LEMMA InspectionStays ==
    ASSUME InspectionInv, file' = file, UNCHANGED inspected
    PROVE  InspectionInv'
  BY DEF InspectionInv, inspected, Judged, NoneHolds, MappingOf

LEMMA DecoderKeepsFile == ASSUME Next PROVE file' = file
<1>1. \A index : SeekToFrame(index) => file' = file
  BY Zenon DEF SeekToFrame
<1>2. ReadFrame => file' = file
  BY Zenon DEF ReadFrame
<1>3. ReadStep => file' = file
  BY Zenon DEF ReadStep, ReceiveFrame, ReceiveEnd, ReceiveNothing, ReadVideoPacket,
               FailToReadPacket, Drain
<1> QED BY Zenon, <1>1, <1>2, <1>3 DEF Next

LEMMA InspectionHolds == ReceiptSpec => []InspectionInv
<1>1. ReceiptInit => InspectionInv
  BY InspectionStarts
<1>2. InspectionInv /\ [ReceiptNext]_<<vars, inspected>> => InspectionInv'
  <2> SUFFICES ASSUME InspectionInv, [ReceiptNext]_<<vars, inspected>>
               PROVE  InspectionInv'
    OBVIOUS
  <2>1. CASE Inspect
    BY <2>1, InspectionStep
  <2>2. CASE UseDecoder
    <3>1. file' = file /\ UNCHANGED inspected
      BY <2>2, DecoderKeepsFile DEF UseDecoder
    <3> QED BY <3>1, InspectionStays
  <2>3. CASE UNCHANGED <<vars, inspected>>
    <3>1. file' = file /\ UNCHANGED inspected
      BY <2>3 DEF vars
    <3> QED BY <3>1, InspectionStays
  <2> QED BY <2>1, <2>2, <2>3 DEF ReceiptNext
<1> QED BY <1>1, <1>2, PTL DEF ReceiptSpec

(* What it implies. *)
LEMMA InvShowsTheTimeline == InspectionInv => AcceptedVideoShowsTheTimeline
<1> SUFFICES ASSUME InspectionInv, stage = "accepted"
             PROVE  AcceptedVideoShowsTheTimeline
  BY DEF AcceptedVideoShowsTheTimeline
<1> DEFINE r == recording
           first == Inspection!SpanStart(timeline)
           last == Inspection!SpanEnd(timeline)
<1>1. /\ timeline \in Timelines /\ r \in Recordings /\ writer \in Writers
      /\ file = File(r, writer)
      /\ information = Inspection!Information(r, writer)
      /\ NoneHolds(information, timeline)
      /\ mapping = MappingOf(information, timeline)
  BY DEF InspectionInv, Judged
<1>2. Passes(information, timeline)
  BY <1>1, NoneHoldsIsPassing
<1>3. /\ "nominal" \in writer.states /\ r.mode = timeline.mode
      /\ Inspection!FirstFrame(r) = first
      /\ \E frames \in {r.span, Len(r.shown)} :
           frames - (last - first) \in (- Tolerance) .. Tolerance
      /\ r.span - Len(r.shown) <= Tolerance
  BY <1>1, <1>2, PassingShows
<1>4. mapping.offset = - first /\ mapping.start = first /\ mapping.end = last
  BY <1>1 DEF MappingOf
<1>5. ASSUME NEW p \in DOMAIN r.shown,
             FrameIndex(file.timestamps[p], file.stream) # NoIndex
      PROVE  Inspection!FirstFrame(r) + r.shown[p] + mapping.offset
               = FrameIndex(file.timestamps[p], file.stream)
  <2>1. FrameIndex(file.timestamps[p], file.stream) = r.shown[p]
    BY <1>1, <1>3, <1>5, PictureIsShown
  <2>2. first \in Int
    BY <1>1, <1>3, FirstFrameIsNumber
  <2>3. r.shown[p] \in Int
    <3>1. r.shown \in Seq(0 .. r.span - 1) /\ r.span \in Nat
      BY <1>1, Recorded
    <3> HIDE DEF r
    <3>2. r.shown[p] \in 0 .. r.span - 1
      BY <3>1
    <3> QED BY <3>1, <3>2
  <2> DEFINE x == r.shown[p]
  <2>4. first + x + (- first) = x
    <3> HIDE DEF first, x
    <3>1. x \in Int
      BY <2>3 DEF x
    <3> QED BY <2>2, <3>1
  <2> QED BY <1>3, <1>4, <2>1, <2>4
<1> QED BY Zenon, <1>3, <1>4, <1>5 DEF AcceptedVideoShowsTheTimeline

LEMMA InvAcceptsRenders == InspectionInv => FaithfulRendersAreAccepted
<1> SUFFICES ASSUME InspectionInv, stage = "refused", information # Absent,
                    Inspection!IsRender(recording, timeline),
                    Inspection!SaysEnough(writer)
             PROVE  FALSE
  BY DEF FaithfulRendersAreAccepted, Inspection!FaithfulRendersAreAccepted
<1>1. /\ timeline \in Timelines /\ recording \in Recordings /\ writer \in Writers
      /\ information = Inspection!Information(recording, writer)
      /\ Inspection!Container(writer) # "kOther"
      /\ ~ NoneHolds(information, timeline)
  BY DEF InspectionInv, Judged
<1>2. Passes(information, timeline)
  BY <1>1, RendersPass
<1> QED BY <1>1, <1>2, NoneHoldsIsPassing

(* An accepted video shows the frames of the timeline that its pictures'   *)
(* numbers say, in its mode, and lasts as long within the tolerance: for   *)
(* every rate, label, duration and way of rounding that the assumptions    *)
(* admit.  (TimelineVideoInspectionService::Validate and FrameIndex)       *)
THEOREM AcceptedIsTheTimeline == ReceiptSpec => []AcceptedVideoShowsTheTimeline
  BY InspectionHolds, InvShowsTheTimeline, PTL

(* A faithful render that its writer describes is never refused once its   *)
(* container was read, however durations and rates are rounded in it.      *)
(* (TimelineVideoInspectionService::Validate)                              *)
THEOREM FaithfulIsAccepted == ReceiptSpec => []FaithfulRendersAreAccepted
  BY InspectionHolds, InvAcceptsRenders, PTL
=============================================================================
