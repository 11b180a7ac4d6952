----------------------------- MODULE CmxImporter -----------------------------
(***************************************************************************)
(* The CMX 3600 importer (src/formats/cmx3600/cmx3600_importer.cpp): what  *)
(* it makes of a decoded file and the frame-rate option.  A line is a      *)
(* record of what the importer looks at; the text it stores is stood for   *)
(* by the number of the line.                                              *)
(***************************************************************************)
EXTENDS Timecode, TextEncoding

CONSTANT None

(* One line: for an event record, its edit code, whether it has all its    *)
(* fields, its transition duration and its source and record ranges.       *)
BlankLine ==
    [kind |-> "blank", indented |-> FALSE, edit |-> None, complete |-> FALSE,
     duration |-> None, source |-> None, record |-> None]

Line(kind) == [BlankLine EXCEPT !.kind = kind]

Indented(line) == [line EXCEPT !.indented = TRUE]

EventLine(edit, duration, source, record) ==
    [Line("event") EXCEPT !.edit = edit, !.duration = duration,
                          !.complete = TRUE, !.source = source,
                          !.record = record]

KnownEdits == {"cut", "dissolve", "wipe", "key"}

(* The frame-rate option: absent, or the ratio its text holds, or text     *)
(* that is no ratio.                                                       *)
NoOption == [given |-> FALSE, parses |-> FALSE, numerator |-> 0, denominator |-> 1]

RateOption(numerator, denominator) ==
    [given |-> TRUE, parses |-> TRUE, numerator |-> numerator,
     denominator |-> denominator]

UnreadableOption == [NoOption EXCEPT !.given = TRUE]

(* Import, first pass: the last FCM line decides the mode. *)
ModeOf(lines) ==
    LET fcm == {i \in DOMAIN lines : lines[i].kind \in {"fcmDrop", "fcmNonDrop"}}
    IN IF \E i \in fcm : /\ lines[i].kind = "fcmDrop"
                         /\ \A j \in fcm : j <= i
       THEN "drop" ELSE "nonDrop"

(* ParseFrameRate, and the rate a drop-frame file has by default. *)
RateOf(option, mode) ==
    IF option.given
    THEN IF option.parses /\ IsFrameRate(option.numerator, option.denominator)
         THEN CreateRate(option.numerator, option.denominator) ELSE None
    ELSE IF mode = "drop" THEN Rate(30000, 1001) ELSE None

Event(line, number) ==
    [line |-> number, edit |-> IF line.edit \in KnownEdits THEN line.edit ELSE "other",
     duration |-> IF line.edit # "cut" /\ line.duration # None THEN line.duration ELSE 0,
     source |-> line.source, record |-> line.record,
     comments |-> <<>>, clipNames |-> <<>>, effects |-> <<>>]

(* AddComment: the comment, and the clip name it holds when the line       *)
(* starts with the star: the text is taken after one character of the line *)
(* as it was read.                                                         *)
AddComment(event, line, number) ==
    [event EXCEPT !.comments = Append(@, number),
                  !.clipNames = IF line.kind = "clipName" /\ ~ line.indented
                                THEN Append(@, number) ELSE @]

AddEffect(event, line, number) == [event EXCEPT !.effects = Append(@, number)]

OnLastEvent(document, event) ==
    [document EXCEPT !.events[Len(document.events)] = event]

Diagnosed(document, severity, number) ==
    [document EXCEPT !.diagnostics = Append(@, [severity |-> severity, line |-> number])]

Noted(document, number) == [document EXCEPT !.metadata = Append(@, number)]

ReadComment(document, line, number) ==
    IF document.events = <<>> THEN Noted(document, number)
    ELSE OnLastEvent(document, AddComment(Last(document.events), line, number))

ReadEffect(document, line, number) ==
    IF document.events = <<>> THEN Diagnosed(document, "warning", number)
    ELSE OnLastEvent(document, AddEffect(Last(document.events), line, number))

(* An event record that lacks fields, holds a label that is no timecode of *)
(* the file, or a reversed range is an error and makes no event.           *)
Rejected(line, rate, mode) ==
    \/ ~ line.complete
    \/ ~ IsRange(line.source, rate, mode)
    \/ ~ IsRange(line.record, rate, mode)

(* What an accepted event record is still warned of, in order. *)
LacksDuration(line) == line.edit # "cut" /\ line.duration = None

HasUnknownEdit(line) == line.edit \notin KnownEdits

ReadAcceptedEvent(document, line, number) ==
    LET warned == IF LacksDuration(line)
                  THEN Diagnosed(document, "warning", number) ELSE document
        added == [warned EXCEPT !.events = Append(@, Event(line, number))]
    IN IF HasUnknownEdit(line) THEN Diagnosed(added, "warning", number) ELSE added

(* Slip: a record that is refused is warned of. *)
ReadEventLeniently(document, line, number) ==
    IF Rejected(line, document.rate, document.mode)
    THEN Diagnosed(document, "warning", number)
    ELSE ReadAcceptedEvent(document, line, number)

ReadEvent(document, line, number) ==
    IF Rejected(line, document.rate, document.mode)
    THEN Diagnosed(document, "error", number)
    ELSE ReadAcceptedEvent(document, line, number)

(* Import, second pass: one line. *)
ReadLine(document, line, number) ==
    CASE line.kind \in {"blank", "title", "fcmDrop", "fcmNonDrop"} -> document
      [] line.kind \in {"comment", "clipName"} -> ReadComment(document, line, number)
      [] line.kind = "motionEffect" -> ReadEffect(document, line, number)
      [] line.kind = "event" -> ReadEvent(document, line, number)
      [] OTHER -> Diagnosed(Noted(document, number), "warning", number)

ReadLines(lines, document) ==
    FoldLeft(LAMBDA read, number : ReadLine(read, lines[number], number),
             document, [number \in DOMAIN lines |-> number])

NewDocument(rate, mode, fallback) ==
    [rate |-> rate, mode |-> mode, events |-> <<>>, metadata |-> <<>>,
     diagnostics |-> IF fallback THEN <<[severity |-> "warning", line |-> 0]>>
                                 ELSE <<>>]

(* The result of an import: the document it made, if any, and what it has  *)
(* to say about the file.                                                  *)
NoDocument(document) ==
    [available |-> FALSE, document |-> document,
     diagnostics |-> Append(document.diagnostics, [severity |-> "error", line |-> 0])]

Import(file, option) ==
    LET mode == ModeOf(file.lines)
        rate == RateOf(option, mode)
        empty == NewDocument(rate, mode, UsesFallback(file.bytes))
        document == ReadLines(file.lines, empty)
    IN IF ~ IsDecodable(file.bytes) THEN NoDocument(NewDocument(None, mode, FALSE))
       ELSE IF rate = None THEN NoDocument(empty)
       ELSE IF ~ IsSupported(rate, mode) THEN NoDocument(empty)
       ELSE [available |-> TRUE, document |-> document,
             diagnostics |-> document.diagnostics]

(* Probe: how sure the importer is that it can read the file. *)
Probe(file) ==
    LET Has(kinds) == \E i \in DOMAIN file.lines : file.lines[i].kind \in kinds
        fcm == Has({"fcmDrop", "fcmNonDrop"})
        title == Has({"title"})
    IN CASE ~ IsDecodable(file.bytes) \/ ~ (fcm \/ title) -> "none"
         [] fcm /\ file.atMidnight -> "certain"
         [] file.atMidnight -> "high"
         [] OTHER -> "medium"
=============================================================================
