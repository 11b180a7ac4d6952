---------------------------- MODULE TextEncoding ----------------------------
(***************************************************************************)
(* How the CMX 3600 importer turns the bytes of a file into text           *)
(* (DecodeText in src/formats/cmx3600/cmx3600_importer.cpp): a byte order  *)
(* mark chooses UTF-8 or UTF-16, unmarked bytes are UTF-8 when they are    *)
(* valid and Windows-1252 otherwise.  Text is a sequence of UTF-8 bytes.   *)
(***************************************************************************)
EXTENDS Integers, Sequences, SequencesExt

Utf8Bom == <<239, 187, 191>>
LittleEndianBom == <<255, 254>>
BigEndianBom == <<254, 255>>

Surrogates == 55296 .. 57343
HighSurrogates == 55296 .. 56319
LowSurrogates == 56320 .. 57343

(* AppendUtf8: the bytes of one code point. *)
Utf8(codePoint) ==
    LET Continuation(shift) == 128 + ((codePoint \div shift) % 64)
    IN CASE codePoint <= 127 -> <<codePoint>>
         [] codePoint \in 128 .. 2047 ->
              <<192 + (codePoint \div 64), Continuation(1)>>
         [] codePoint \in 2048 .. 65535 ->
              <<224 + (codePoint \div 4096), Continuation(64), Continuation(1)>>
         [] OTHER ->
              <<240 + (codePoint \div 262144), Continuation(4096),
                Continuation(64), Continuation(1)>>

(* The continuation bytes a lead byte announces; -1 when it is none. *)
ContinuationCount(lead) ==
    CASE lead \in 0 .. 127 -> 0
      [] lead \in 194 .. 223 -> 1
      [] lead \in 224 .. 239 -> 2
      [] lead \in 240 .. 244 -> 3
      [] OTHER -> -1

(* The code point of a lead byte and its continuation bytes. *)
CodePoint(bytes) ==
    LET payload == bytes[1] % (CASE Len(bytes) = 1 -> 128
                                 [] Len(bytes) = 2 -> 32
                                 [] Len(bytes) = 3 -> 16
                                 [] OTHER -> 8)
    IN FoldLeft(LAMBDA value, byte : value * 64 + (byte % 64), payload, Tail(bytes))

(* No shorter form, no surrogate, nothing above the last code point. *)
IsShortestForm(bytes) ==
    LET codePoint == CodePoint(bytes)
    IN /\ Len(bytes) = 3 => codePoint >= 2048 /\ codePoint \notin Surrogates
       /\ Len(bytes) = 4 => codePoint \in 65536 .. 1114111

IsValidUtf8(input) ==
    LET ValidFrom[index \in 1 .. Len(input) + 1] ==
          IF index > Len(input) THEN TRUE
          ELSE LET count == ContinuationCount(input[index])
                   bytes == SubSeq(input, index, index + count)
               IN /\ count >= 0
                  /\ index + count <= Len(input)
                  /\ \A k \in 2 .. count + 1 : bytes[k] \in 128 .. 191
                  /\ IsShortestForm(bytes)
                  /\ ValidFrom[index + count + 1]
    IN ValidFrom[1]

(* DecodeUtf16 on code units: an odd byte or an unpaired surrogate refuses *)
(* the whole text.                                                         *)
Unit(input, index, littleEndian) ==
    IF littleEndian THEN input[index] + 256 * input[index + 1]
                    ELSE 256 * input[index] + input[index + 1]

IsValidUtf16(input, littleEndian) ==
    /\ Len(input) % 2 = 0
    /\ LET U == [k \in 1 .. Len(input) \div 2 |-> Unit(input, 2 * k - 1, littleEndian)]
       IN \A k \in DOMAIN U :
            /\ U[k] \in HighSurrogates =>
                 k + 1 \in DOMAIN U /\ U[k + 1] \in LowSurrogates
            /\ U[k] \in LowSurrogates =>
                 k - 1 \in DOMAIN U /\ U[k - 1] \in HighSurrogates

DecodeUtf16(input, littleEndian) ==
    LET U == [k \in 1 .. Len(input) \div 2 |-> Unit(input, 2 * k - 1, littleEndian)]
        Text(k) ==
          CASE U[k] \in HighSurrogates ->
                 Utf8(65536 + (U[k] - 55296) * 1024 + (U[k + 1] - 56320))
            [] U[k] \in LowSurrogates -> <<>>
            [] OTHER -> Utf8(U[k])
    IN FlattenSeq([k \in DOMAIN U |-> Text(k)])

(* DecodeWindows1252: 128 .. 159 have a table of their own. *)
Windows1252Controls ==
    <<8364, 129, 8218, 402, 8222, 8230, 8224, 8225, 710, 8240, 352, 8249, 338,
      141, 381, 143, 144, 8216, 8217, 8220, 8221, 8226, 8211, 8212, 732, 8482,
      353, 8250, 339, 157, 382, 376>>

DecodeWindows1252(input) ==
    FlattenSeq([k \in DOMAIN input |->
        Utf8(IF input[k] \in 128 .. 159 THEN Windows1252Controls[input[k] - 127]
                                        ELSE input[k])])

HasMark(input, mark) == IsPrefix(mark, input)

IsUtf16(input) == HasMark(input, LittleEndianBom) \/ HasMark(input, BigEndianBom)

WithoutMark(input) ==
    IF HasMark(input, Utf8Bom) THEN SubSeq(input, 4, Len(input))
    ELSE IF IsUtf16(input) THEN SubSeq(input, 3, Len(input))
    ELSE input

(* DecodeText: refused, or the text and whether Windows-1252 was assumed. *)
IsDecodable(input) ==
    IsUtf16(input) =>
        IsValidUtf16(WithoutMark(input), HasMark(input, LittleEndianBom))

UsesFallback(input) == ~ IsUtf16(input) /\ ~ IsValidUtf8(WithoutMark(input))

DecodeText(input) ==
    LET text == WithoutMark(input)
    IN CASE IsUtf16(input) -> DecodeUtf16(text, HasMark(input, LittleEndianBom))
         [] UsesFallback(input) -> DecodeWindows1252(text)
         [] OTHER -> text
=============================================================================
