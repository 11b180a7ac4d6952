--------------------------- MODULE MCRenderedVideo ---------------------------
(* RenderedVideo with recordings of the timeline, of another one, at       *)
(* another rate, in the other mode, cut, extended and with frames left     *)
(* out, written by programs that say much or little about them, hold       *)
(* pictures back or not, and round and start as they like.                 *)
EXTENDS RenderedVideo

Film == Rate(24000, 1001)
Video == Rate(30000, 1001)

Event(rate, mode, start, end) ==
  [rate |-> rate, mode |-> mode, start |-> start, end |-> end]

Timeline(rate, mode, start) ==
  [rate |-> rate, mode |-> mode,
   events |-> << Event(rate, mode, start + 2, start + 4),
                 Event(rate, mode, start, start + 3) >>]

MCTimelines ==
  { Timeline(Film, "nonDrop", 86400), Timeline(Rate(24, 1), "nonDrop", 86400),
    Timeline(Video, "drop", 17980), Timeline(Video, "nonDrop", 0),
    [rate |-> Film, mode |-> "nonDrop", events |-> <<>>],
    [rate |-> Video, mode |-> "drop",
     events |-> << Event(Video, "nonDrop", 17980, 17984) >>] }

(* Every frame, all but the second, and all but the last two. *)
Shown(span) ==
  { [i \in 1 .. span |-> i - 1],
    [i \in 1 .. span - 1 |-> IF i = 1 THEN 0 ELSE i],
    [i \in 1 .. span - 2 |-> i - 1] }

Showings == UNION {{span} \X Shown(span) : span \in 3 .. 6}

MCRecordings ==
  { [rate |-> rate, mode |-> mode, label |-> FromFrameCount(first, rate, mode),
     span |-> span, shown |-> shown] :
      <<rate, mode>> \in ({Film, Rate(24, 1), Video} \X {"nonDrop"})
                           \cup {<<Video, "drop">>},
      first \in {0, 17980, 86400}, <<span, shown>> \in Showings }

Audio == [video |-> FALSE, key |-> FALSE, picture |-> 0]
Key(p) == [video |-> TRUE, key |-> TRUE, picture |-> p]
Inter(p) == [video |-> TRUE, key |-> FALSE, picture |-> p]

Intra(n) == [i \in 1 .. n |-> Key(i)]

(* Groups of two pictures, with a packet of another stream at the end. *)
Forward(n) == [i \in 1 .. n |-> IF i % 2 = 1 THEN Key(i) ELSE Inter(i)] \o <<Audio>>

(* Groups of three or fewer, the second of which comes last. *)
Reordered(n) ==
  << Audio >> \o
  [i \in 1 .. n |->
     CASE i % 3 = 1 -> Key(i)
       [] i % 3 = 2 -> Inter(IF i = n THEN n ELSE i + 1)
       [] i % 3 = 0 -> Inter(i - 1)]

(* One group in which the last picture comes second. *)
Layered(n) ==
  [i \in 1 .. n |-> IF i = 1 THEN Key(1) ELSE Inter(IF i = 2 THEN n ELSE i - 1)]

Pack(delay, Order(_)) ==
  [delay |-> delay, packets |-> [n \in 1 .. 6 |-> Order(n)]]

MCPacking ==
  [name \in Inspection!SupportedCodecs \cup {"VP9", Absent} |->
     CASE name = "MPEG-2" -> Pack(0, Forward)
       [] name = "HEVC" -> Pack(1, Reordered)
       [] name = "H.264" -> Pack(1, Layered)
       [] OTHER -> Pack(0, Intra)]

Writer(timeBase, states) ==
  [format |-> "mov", brand |-> "qt", codec |-> "ProRes", timeBase |-> timeBase,
   states |-> states, timecodes |-> {}, start |-> 0, unstamped |-> {}]

Rates == {"average", "nominal", "timecode"}

Fine == Writer(Rate(1, 600), Rates \cup {"duration"})

MCWriters ==
  { Writer(base, Rates \cup states) :
      base \in {Rate(1, 600), Rate(1, 30)},
      states \in {{"duration"}, {"approximate", "duration"},
                  {"frameCount"}, {"duration", "frameCount"}, {}} }
    \cup
  { Writer(Rate(1001, 30000), Rates \cup {"approximate", "duration"}),
    Writer(Rate(1, 600), Rates \cup {"microseconds"}),
    Writer(Rate(1, 600), {"nominal", "timecode", "duration"}),
    Writer(Rate(1, 600), {"average", "nominal", "duration"}),
    [Fine EXCEPT !.timecodes = {Unreadable}],
    [Writer(Rate(1, 600), {"average", "nominal", "duration"})
       EXCEPT !.timecodes = {Unreadable}],
    [Fine EXCEPT !.format = "mxf", !.codec = "MPEG-2", !.start = NoTimestamp],
    [Fine EXCEPT !.brand = "isom", !.codec = "H.264", !.start = 50],
    [Fine EXCEPT !.brand = "isom", !.codec = "HEVC", !.start = -25, !.unstamped = {2}],
    [Fine EXCEPT !.start = Int64Max - 125],
    [Writer(Rate(1, 600), Rates) EXCEPT !.format = "avi"],
    [Writer(Rate(1, 600), Rates) EXCEPT !.codec = "VP9"],
    [Writer(Rate(1, 600), Rates) EXCEPT !.codec = Absent] }

MCFiles == {File(r, w) : r \in MCRecordings, w \in MCWriters}

MCMedia == MCFiles

MCTargets == {-1, 1, 2, 3, 6}
=============================================================================
