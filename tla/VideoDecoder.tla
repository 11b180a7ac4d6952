---------------------------- MODULE VideoDecoder ----------------------------
(***************************************************************************)
(* FfmpegVideoDecoder (src/media/ffmpeg_video_decoder.cpp) on an open file *)
(* and the library below it: packets come in decoding order and are fed to *)
(* a codec that holds pictures back until it can give them in presentation *)
(* order.  The caller seeks and reads as it likes until a call fails; then *)
(* it gives the decoder up.                                                *)
(*                                                                         *)
(* A picture is named by its place in presentation order.  Groups of       *)
(* pictures are closed: what precedes a key picture in one order precedes  *)
(* it in the other.                                                        *)
(***************************************************************************)
EXTENDS FrameTiming, Sequences, FiniteSets, FiniteSetsExt

CONSTANTS
  Media,    \* opened files: [stream, packets, timestamps, delay]
  Targets,  \* the frames a caller may seek to
  Nothing   \* no target

Packets == [video : BOOLEAN, key : BOOLEAN, picture : Nat]

VideoPackets(m) == {i \in DOMAIN m.packets : m.packets[i].video}

(* The time base is no coarser than the frames, timestamps ascend, and no  *)
(* picture overtakes more than `delay` others.                             *)
IsPlayable(m) ==
  /\ {m.stream.rate, m.stream.average, m.stream.timeBase}
       \subseteq [numerator : Nat, denominator : Nat]
  /\ m.stream.start \in Int \cup {NoTimestamp}
  /\ m.stream.rate.numerator * m.stream.timeBase.numerator
       <= m.stream.rate.denominator * m.stream.timeBase.denominator
  /\ \A p, q \in DOMAIN m.timestamps :
       p < q /\ NoTimestamp \notin {m.timestamps[p], m.timestamps[q]} =>
         m.timestamps[p] < m.timestamps[q]
  /\ m.packets \in Seq(Packets)
  /\ m.timestamps \in Seq(Int \cup {NoTimestamp})
  /\ m.delay \in Nat
  /\ \A i \in VideoPackets(m) : m.packets[i].picture \in DOMAIN m.timestamps
  /\ \A p \in DOMAIN m.timestamps :
       \E i \in VideoPackets(m) : m.packets[i].picture = p
  /\ \A i, j \in VideoPackets(m) :
       /\ m.packets[i].picture = m.packets[j].picture => i = j
       /\ m.packets[i].key /\ j < i => m.packets[j].picture < m.packets[i].picture
       /\ m.packets[i].key /\ i < j => m.packets[i].picture < m.packets[j].picture
  /\ \A i \in VideoPackets(m) :
       Cardinality({j \in VideoPackets(m) :
                      j < i /\ m.packets[j].picture > m.packets[i].picture})
         <= m.delay

ASSUME VideoDecoderAssumption ==
  /\ \A m \in Media : IsPlayable(m)
  /\ Targets \subseteq Int
  /\ Nothing \notin Targets

VARIABLES
  file,       \* what was opened
  position,   \* the packet av_read_frame reads next
  held,       \* the pictures the codec has not given yet
  drained,    \* the codec was told that no packet follows
  draining,   \* draining_
  exhausted,  \* exhausted_
  pc,         \* where the call under way is
  returned,   \* what the last call returned
  target      \* history: the frame sought last, or Nothing

codec == <<held, drained>>
flags == <<draining, exhausted>>
vars == <<file, position, codec, flags, pc, returned, target>>

Length == Len(file.timestamps)

Opened == [kind |-> "opened", picture |-> 0]

Init ==
  /\ file \in Media
  /\ position = 1
  /\ held = {} /\ drained = FALSE
  /\ draining = FALSE /\ exhausted = FALSE
  /\ pc = "idle" /\ returned = Opened /\ target = Nothing

Failures ==
  {"kSeek", "kReadPacket", "kDecodeFrame", "kConvertFrame",
   "input after the end", "output while asking for input", "packet after the end"}

Return(kind) ==
  /\ returned' = [kind |-> kind, picture |-> 0]
  /\ pc' = IF kind \in Failures THEN "failed" ELSE "idle"

ReturnPicture(picture) ==
  /\ returned' = [kind |-> "picture", picture |-> picture]
  /\ pc' = "idle"

-----------------------------------------------------------------------------
(* Seek and SeekToFrame. *)

(* av_seek_frame with AVSEEK_FLAG_BACKWARD goes to a key picture at or     *)
(* before the timestamp, which the container finds in its index.           *)
SeekPoints(timestamp) ==
  {i \in VideoPackets(file) :
     LET picture == file.packets[i].picture
     IN /\ file.packets[i].key
        /\ file.timestamps[picture] # NoTimestamp
        /\ file.timestamps[picture] <= timestamp}

(* Mutation: the pictures of before the seek stay in the codec. *)
NoFlush == held' = held /\ drained' = FALSE

(* avcodec_flush_buffers. *)
Flush == held' = {} /\ drained' = FALSE

(* Mutation: a decoder that was drained once still is. *)
ResetExhausted == exhausted' = FALSE /\ UNCHANGED draining

ResetFlags == draining' = FALSE /\ exhausted' = FALSE

SeekToFrame(index) ==
  /\ pc = "idle"
  /\ \/ /\ Return("kSeek")
        /\ UNCHANGED <<position, codec, flags, target>>
     \/ /\ HasTimestamp(index, file.stream)
        /\ position' \in SeekPoints(FrameTimestamp(index, file.stream))
        /\ Flush
        /\ ResetFlags
        /\ target' = index
        /\ Return("sought")
  /\ UNCHANGED file

-----------------------------------------------------------------------------
(* ReadFrame. *)

ReadFrame ==
  /\ pc = "idle"
  /\ \/ /\ exhausted
        /\ Return("end")
     \/ /\ ~exhausted
        /\ pc' = "receiving"
        /\ UNCHANGED returned
  /\ UNCHANGED <<file, position, codec, flags, target>>

(* The codec gives a picture once no later packet can bring an earlier     *)
(* one: when it holds more than pictures overtake, or no packet follows.   *)
OutputIsReady ==
  held # {} /\ (drained \/ Cardinality(held) > file.delay)

(* avcodec_receive_frame gives a picture, which is converted to RGB.       *)
ReceiveFrame ==
  /\ pc = "receiving" /\ OutputIsReady
  /\ held' = held \ {Min(held)}
  /\ ReturnPicture(Min(held)) \/ Return("kConvertFrame")
  /\ UNCHANGED <<file, position, drained, flags, target>>

(* It reports the end of the stream. *)
ReceiveEnd ==
  /\ pc = "receiving" /\ drained /\ held = {}
  /\ exhausted' = TRUE
  /\ Return("end")
  /\ UNCHANGED <<file, position, codec, draining, target>>

(* It fails, or asks for input: AVERROR(EAGAIN). *)
ReceiveNothing ==
  /\ pc = "receiving"
  /\ \/ /\ Return("kDecodeFrame")
     \/ /\ ~OutputIsReady /\ ~drained
        /\ IF draining THEN Return("input after the end")
                       ELSE pc' = "reading" /\ UNCHANGED returned
  /\ UNCHANGED <<file, position, codec, flags, target>>

IsSelected(packet) == packet.video

(* Why avcodec_send_packet would refuse one: a picture waits, the end was  *)
(* announced, or it is damaged.                                            *)
Refusal ==
  IF OutputIsReady THEN "output while asking for input"
  ELSE IF drained THEN "packet after the end"
  ELSE "kDecodeFrame"

(* ReadVideoPacket reads packets of other streams away and submits the     *)
(* first of the selected one.                                              *)
ReadVideoPacket ==
  /\ pc = "reading" /\ position <= Len(file.packets)
  /\ position' = position + 1
  /\ LET packet == file.packets[position] IN
       \/ /\ ~IsSelected(packet)
          /\ UNCHANGED <<held, pc, returned>>
       \/ /\ IsSelected(packet)
          /\ Return(Refusal)
          /\ UNCHANGED held
       \/ /\ IsSelected(packet) /\ Refusal = "kDecodeFrame"
          /\ held' = held \cup {packet.picture}
          /\ pc' = "receiving"
          /\ UNCHANGED returned
  /\ UNCHANGED <<file, drained, flags, target>>

FailToReadPacket ==
  /\ pc = "reading"
  /\ Return("kReadPacket")
  /\ UNCHANGED <<file, position, codec, flags, target>>

(* Mutation: the end of the file is taken for a pause. *)
WaitForPackets ==
  /\ pc = "reading" /\ position > Len(file.packets)
  /\ pc' = "receiving"
  /\ UNCHANGED <<file, position, codec, flags, returned, target>>

(* The file ends: the codec is told so and gives what it holds. *)
Drain ==
  /\ pc = "reading" /\ position > Len(file.packets)
  /\ draining' = TRUE
  /\ \/ /\ Return("kDecodeFrame")
        /\ UNCHANGED drained
     \/ /\ drained' = TRUE
        /\ pc' = "receiving"
        /\ UNCHANGED returned
  /\ UNCHANGED <<file, position, held, exhausted, target>>

ReadStep ==
  \/ ReceiveFrame
  \/ ReceiveEnd
  \/ ReceiveNothing
  \/ ReadVideoPacket
  \/ FailToReadPacket
  \/ Drain

Next ==
  \/ \E index \in Targets : SeekToFrame(index)
  \/ ReadFrame
  \/ ReadStep

Spec == Init /\ [][Next]_vars

-----------------------------------------------------------------------------

TypeOK ==
  /\ file \in Media
  /\ position \in 1..Len(file.packets) + 1
  /\ held \subseteq DOMAIN file.timestamps
  /\ drained \in BOOLEAN /\ draining \in BOOLEAN /\ exhausted \in BOOLEAN
  /\ pc \in {"idle", "receiving", "reading", "failed"}
  /\ returned \in [kind : Failures \cup {"opened", "sought", "picture", "end"},
                   picture : 0..Length]
  /\ target \in Targets \cup {Nothing}

(* The pictures still to come. *)
Unread == {file.packets[i].picture : i \in {j \in VideoPackets(file) : j >= position}}

Pending == held \cup Unread

Place == IF Pending = {} THEN Length + 1 ELSE Min(Pending)

Stream == INSTANCE FrameStream WITH length <- Length, place <- Place

(* Behind the codec's delays and its drain at the end, across seeks to and *)
(* fro and after the end, the decoder is a row of pictures: none of before *)
(* a seek comes after it, none is skipped or repeated, and the end is      *)
(* reported only at the end. (ReadFrame and Seek)                          *)
ImplementsFrameStream == Stream!Spec

(* The decoder never breaks the codec's protocol, whose refusals it would  *)
(* report as a damaged file: no input after the end, no packet while a     *)
(* picture waits, and an end that a seek takes back.                       *)
(* (draining_ and the order of receive and send in ReadFrame)              *)
ProtocolIsKept ==
  returned.kind \notin {"input after the end", "output while asking for input",
                        "packet after the end"}

(* A seek to a frame lands where reading on meets it: not behind it,       *)
(* however the container rounds timestamps and wherever the stream starts. *)
(* (SeekToFrame: "Seeks backward to a usable point at or before a          *)
(* zero-based frame index")                                                *)
SeekIsNotLate ==
  returned.kind = "sought" =>
    \A p \in DOMAIN file.timestamps :
      FrameIndex(file.timestamps[p], file.stream) = target =>
        \E q \in Place..Length :
          FrameIndex(file.timestamps[q], file.stream) = target

(* A read ends: packets of other streams, pictures held back and the end   *)
(* of the file do not keep it going. (the loops of ReadFrame)              *)
ReadsEnd == pc \in {"receiving", "reading"} ~> pc \in {"idle", "failed"}
=============================================================================
