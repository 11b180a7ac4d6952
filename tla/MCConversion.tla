---------------------------- MODULE MCConversion ----------------------------
EXTENDS Conversion

Between(start, end) == [start |-> start, end |-> end]

FirstSecond == Between(Label(0, 0, 0, 0), Label(0, 0, 1, 0))
OverAMinute == Between(Label(0, 0, 59, 20), Label(0, 1, 0, 2))
TenMinutes == Between(Label(0, 0, 0, 2), Label(0, 10, 0, 0))
FromADroppedLabel == Between(Label(0, 1, 0, 1), Label(0, 1, 1, 0))
Frame24 == Between(Label(0, 0, 0, 0), Label(0, 0, 0, 24))
Reversed == Between(Label(0, 0, 1, 0), Label(0, 0, 0, 0))

EventLines ==
    {EventLine("cut", None, FirstSecond, OverAMinute),
     EventLine("cut", None, TenMinutes, TenMinutes),
     EventLine("cut", None, FirstSecond, FromADroppedLabel),
     EventLine("cut", None, Frame24, FirstSecond),
     EventLine("cut", None, FirstSecond, Reversed),
     EventLine("dissolve", 12, FirstSecond, FirstSecond),
     EventLine("wipe", None, FirstSecond, FirstSecond),
     EventLine("L", 3, FirstSecond, FirstSecond),
     Line("event")}

NoteLines ==
    {Line("title"), Line("fcmDrop"), Line("fcmNonDrop"), Line("comment"),
     Line("clipName"), Indented(Line("clipName")), Line("motionEffect"),
     Line("unknown")}

TextFile(lines) == [bytes |-> <<65>>, lines |-> lines, extension |-> "edl",
                    atMidnight |-> TRUE]

SomeLines ==
    {<<Line("title")>>, <<EventLine("cut", None, FirstSecond, FirstSecond)>>,
     <<Line("fcmDrop"), EventLine("cut", None, FirstSecond, OverAMinute)>>}

(* ASCII, UTF-8, Windows-1252, UTF-16 of both orders, and an unpaired      *)
(* surrogate.                                                              *)
SomeBytes ==
    {<<65>>, <<195, 169>>, <<239, 187, 191, 65>>, <<233, 65>>,
     <<255, 254, 65, 0>>, <<254, 255, 216, 61, 222, 0>>, <<255, 254, 0, 216>>}

MCFiles ==
    {TextFile(lines) : lines \in BoundedSeq(EventLines \cup NoteLines, 3)}
      \cup [bytes : SomeBytes, lines : SomeLines, extension : {"edl", "txt"},
            atMidnight : BOOLEAN]

Options(columns, video, rate, force, sheets) ==
    [parses |-> TRUE, columns |-> columns, video |-> video, rate |-> rate,
     force |-> force, timelineSheet |-> sheets, diagnosticsSheet |-> sheets]

Plain(rate) == Options(<<"event", "clip-name">>, FALSE, rate, FALSE, TRUE)

MCCommands ==
    {Plain(RateOption(24, 1)), Plain(RateOption(60000, 2002)), Plain(NoOption),
     Plain(UnreadableOption), Plain(RateOption(0, 1)),
     Options(<<"initial-frame">>, TRUE, RateOption(30, 1), TRUE, FALSE),
     Options(<<"event", "initial-frame">>, FALSE, NoOption, FALSE, TRUE),
     Options(<<"event">>, TRUE, NoOption, FALSE, TRUE),
     Options(<<"event", "event">>, FALSE, NoOption, FALSE, TRUE),
     Options(<<"event", "unknown">>, FALSE, NoOption, FALSE, TRUE),
     Options(<<>>, FALSE, NoOption, FALSE, TRUE),
     [Plain(NoOption) EXCEPT !.parses = FALSE]}

(* Encoding: the bytes of every scalar value at a boundary are valid       *)
(* UTF-8, those of a surrogate are not, nor is any proper prefix; and a    *)
(* value survives UTF-16.                                                  *)
Boundaries == {0, 65, 127, 128, 255, 2047, 2048, 55295, 57344, 65535, 65536,
               128512, 1114111}

Utf16(codePoint) ==
    LET Bytes(unit) == <<unit % 256, unit \div 256>>
    IN IF codePoint < 65536 THEN Bytes(codePoint)
       ELSE Bytes(55296 + ((codePoint - 65536) \div 1024))
              \o Bytes(56320 + ((codePoint - 65536) % 1024))

ASSUME Utf8IsDecoded ==
    \A c, d \in Boundaries :
      LET bytes == Utf8(c) \o Utf8(d)
      IN /\ IsValidUtf8(bytes) /\ DecodeText(bytes) = bytes
         /\ CodePoint(Utf8(d)) = d
         /\ d > 127 => ~ IsValidUtf8(SubSeq(bytes, 1, Len(bytes) - 1))
         /\ DecodeText(LittleEndianBom \o Utf16(c) \o Utf16(d)) = bytes

ASSUME SurrogatesAreRefused ==
    \A c \in {55296, 56319, 56320, 57343} :
      /\ ~ IsValidUtf8(Utf8(c))
      /\ ~ IsDecodable(LittleEndianBom \o Utf16(c))

(* The labels around every boundary of the numbering, for every standard   *)
(* rate: count and label determine each other.                             *)
SomeLabels ==
    [hours : {0, 1, 23}, minutes : {0, 1, 9, 10, 11, 59}, seconds : {0, 1, 59},
     frames : (0 .. 5) \cup {22, 23, 24, 28, 29, 30, 49, 58, 59}]

ASSUME LabelsAndCountsAgree ==
    \A rate \in StandardRates, mode \in Modes : \A label \in SomeLabels :
      IsTimecode(label, rate, mode) =>
        LET count == ToFrameCount(label, rate, mode)
        IN /\ count \in 0 .. FramesPerDay(rate, mode) - 1
           /\ FromFrameCount(count, rate, mode) = label
           /\ count > 0 =>
                LET before == FromFrameCount(count - 1, rate, mode)
                IN /\ IsTimecode(before, rate, mode)
                   /\ ToFrameCount(before, rate, mode) = count - 1
=============================================================================
