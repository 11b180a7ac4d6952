----------------------------- MODULE Conversion -----------------------------
(***************************************************************************)
(* One run of edit-atlas-cli convert, from the command line to the exit    *)
(* code: the checks of the command, the import service and pipeline, the   *)
(* rendered-video and export services, the XLSX exporter, and the atomic   *)
(* write, while another program may create or remove the destination.     *)
(*                                                                         *)
(* Reading the input, the video service, the spreadsheet library and the   *)
(* file system succeed or fail; LocalFile and FrameExtraction model the    *)
(* file and the frames in detail.                                          *)
(***************************************************************************)
EXTENDS CmxImporter

CONSTANTS
    Commands,           \* the command lines, already split by the parser
    Files               \* the files at the input path

(* A row of the events sheet; a row that was refused is None.              *)
Rows ==
    [line : Nat, duration : [hours : Int, minutes : Int, seconds : Int, frames : Int],
     durationFrames : Int, clipName : Nat \cup {None}, comments : Seq(Nat),
     image : Nat \cup {None}]

ASSUME ConversionAssumption ==
    /\ \A given \in Commands : /\ given.timelineSheet \in BOOLEAN
                               /\ given.diagnosticsSheet \in BOOLEAN
    /\ \A input \in Files : input.lines \in Seq(ToSet(input.lines))
    /\ None \notin Files \cup Rows \cup {"cell", "image", "close"}

VARIABLES
    command,            \* Options
    stage,              \* where Convert is
    file,               \* the file that was read, or None
    timeline,           \* the imported document, or None
    diagnostics,        \* the severities reported so far
    images,             \* the event numbers that have an initial frame
    workbook,           \* the sheets written so far
    status,             \* the exporter's WriteStatus
    destination,        \* Missing, Foreign, or the workbook published there
    exit                \* the exit code, or None

vars == <<command, stage, file, timeline, diagnostics, images, workbook,
          status, destination, exit>>

(* The destination: no file, a file of another program, or a workbook.     *)
Missing == [content |-> "missing"]

Foreign == [content |-> "foreign"]

EmptyWorkbook == [content |-> "workbook", rows |-> <<>>, timelineSheet |-> FALSE,
                  diagnosticsSheet |-> FALSE]

NoStatus == [error |-> None, imageError |-> FALSE]

Severities == {diagnostics[i] : i \in DOMAIN diagnostics}

Init ==
    /\ command \in Commands
    /\ stage = "command"
    /\ file = None /\ timeline = None
    /\ diagnostics = <<>> /\ images = {}
    /\ workbook = EmptyWorkbook /\ status = NoStatus
    /\ destination \in {Missing, Foreign}
    /\ exit = None

Exit(code) == stage' = "done" /\ exit' = code

Reported(severities) == diagnostics' = diagnostics \o severities

----------------------------------------------------------------------------
(* The command. *)

Fields == {"event", "initial-frame", "clip-name"}

(* EventProjection: every identifier known, at least one, none twice. *)
IsValidProjection(columns) ==
    /\ columns # <<>>
    /\ ToSet(columns) \subseteq Fields
    /\ IsInjective(columns)

UsesInitialFrames == Contains(command.columns, "initial-frame")

IsUsageError ==
    \/ ~ command.parses
    \/ ~ IsValidProjection(command.columns)
    \/ UsesInitialFrames # command.video

RefuseCommand ==
    /\ stage = "command" /\ IsUsageError
    /\ Exit(2)
    /\ UNCHANGED <<command, file, timeline, diagnostics, images, workbook,
                   status, destination>>

AcceptCommand ==
    /\ stage = "command" /\ ~ IsUsageError
    /\ stage' = "read"
    /\ UNCHANGED <<command, file, timeline, diagnostics, images, workbook,
                   status, destination, exit>>

----------------------------------------------------------------------------
(* The import service and the pipeline. *)

(* The registry of CreateBuiltInFormatRegistry: one importer, of .edl. *)
Importers == {"cmx3600"}
ForExtension(extension) == IF extension = "edl" THEN Importers ELSE {}
Confidence(importer, input) == Probe(input)
Strength == [none |-> 0, medium |-> 1, high |-> 2, certain |-> 3]

(* SelectImporter: the surest importer, else the only one of the           *)
(* extension; the extension also breaks a tie.                             *)
SelectedImporters(input) ==
    LET byExtension == ForExtension(input.extension)
        sure == {i \in Importers : Confidence(i, input) # "none"}
        strongest == {i \in sure : \A j \in sure :
                        Strength[Confidence(j, input)] <= Strength[Confidence(i, input)]}
    IN CASE sure = {} -> byExtension
         [] Cardinality(strongest) = 1 -> strongest
         [] OTHER -> strongest \cap byExtension

(* TimelineDocumentPipeline::Import *)
Imported(input) ==
    IF Cardinality(SelectedImporters(input)) = 1
    THEN Import(input, command.rate)
    ELSE NoDocument(NewDocument(None, "nonDrop", FALSE))

CannotRead ==
    /\ stage = "read"
    /\ Reported(<<"error">>)
    /\ Exit(5)
    /\ UNCHANGED <<command, file, timeline, images, workbook, status, destination>>

SeveritiesOf(notes) == [i \in DOMAIN notes |-> notes[i].severity]

ImportDocument ==
    /\ stage = "read"
    /\ \E input \in Files :
         LET result == Imported(input)
             severities == SeveritiesOf(result.diagnostics)
         IN /\ file' = input
            /\ Reported(severities)
            /\ timeline' = IF result.available THEN result.document ELSE None
            /\ IF ~ result.available \/ Contains(severities, "error")
               THEN Exit(3)
               ELSE stage' = "frames" /\ UNCHANGED exit
    /\ UNCHANGED <<command, images, workbook, status, destination>>

----------------------------------------------------------------------------
(* The rendered-video service: one frame for every event, or a failure. *)

ExtractFrames ==
    /\ stage = "frames"
    /\ images' = IF UsesInitialFrames THEN DOMAIN timeline.events ELSE {}
    /\ stage' = "workbook"
    /\ UNCHANGED <<command, file, timeline, diagnostics, workbook, status,
                   destination, exit>>

CannotExtractFrames ==
    /\ stage = "frames" /\ UsesInitialFrames
    /\ Reported(<<"error">>)
    /\ Exit(5)
    /\ UNCHANGED <<command, file, timeline, images, workbook, status, destination>>

----------------------------------------------------------------------------
(* XlsxExporter::Export *)

(* The image could not be encoded, or the workbook not be created. *)
CannotCreateWorkbook ==
    /\ stage = "workbook"
    /\ Reported(<<"error">>)
    /\ Exit(5)
    /\ UNCHANGED <<command, file, timeline, images, workbook, status, destination>>

CreateWorkbook ==
    /\ stage = "workbook"
    /\ stage' = "eventsSheet"
    /\ UNCHANGED <<command, file, timeline, diagnostics, images, workbook,
                   status, destination, exit>>

(* WriteStatus: the first error stays, and so does an image error. Slip:   *)
(* the last write tells.                                                   *)
LastRecorded(failure) ==
    [error |-> failure, imageError |-> failure = "image"]

Recorded(failure) ==
    [error |-> IF status.error = None THEN failure ELSE status.error,
     imageError |-> status.imageError \/ failure = "image"]

(* MetadataText: the first clip name of the event, or no text. *)
ClipName(event) ==
    IF event.clipNames = <<>> THEN None ELSE Head(event.clipNames)

(* The cells of one event, when the library takes them all. *)
Row(event, number) ==
    [line |-> event.line,
     duration |-> Duration(event.record, timeline.rate, timeline.mode),
     durationFrames |-> DurationInFrames(event.record, timeline.rate, timeline.mode),
     clipName |-> ClipName(event),
     comments |-> event.comments,
     image |-> IF number \in images THEN number ELSE None]

(* The failures a write of this sheet can meet; None is no failure. *)
Failures(sheet) ==
    {None, "cell"} \cup (IF sheet = "events" /\ images # {} THEN {"image"} ELSE {})

(* WriteEventsSheet goes on after a refused cell: the rest of the rows are *)
(* written, the refused one is not.                                        *)
WriteEvent ==
    /\ stage = "eventsSheet" /\ Len(workbook.rows) < Len(timeline.events)
    /\ \E failure \in Failures("events") :
         LET number == Len(workbook.rows) + 1
         IN /\ status' = Recorded(failure)
            /\ workbook' = [workbook EXCEPT !.rows = Append(@,
                 IF failure = None THEN Row(timeline.events[number], number) ELSE None)]
    /\ UNCHANGED <<command, stage, file, timeline, diagnostics, images,
                   destination, exit>>

WriteOtherSheets ==
    /\ stage = "eventsSheet" /\ Len(workbook.rows) = Len(timeline.events)
    /\ \E failure \in Failures("other") :
         /\ status' = Recorded(failure)
         /\ workbook' = [workbook EXCEPT
              !.timelineSheet = command.timelineSheet /\ failure = None,
              !.diagnosticsSheet = command.diagnosticsSheet /\ failure = None]
    /\ stage' = "close"
    /\ UNCHANGED <<command, file, timeline, diagnostics, images, destination, exit>>

(* workbook_close assembles the bytes: it may fail, or give none. *)
CloseWorkbook ==
    /\ stage = "close"
    /\ \E failure \in {None, "close"} :
         LET final == Recorded(failure)
         IN /\ status' = final
            /\ IF final.error = None
               THEN stage' = "publish" /\ UNCHANGED <<diagnostics, exit>>
               ELSE Reported(<<"error">>) /\ Exit(5)
    /\ UNCHANGED <<command, file, timeline, images, workbook, destination>>

----------------------------------------------------------------------------
(* The export service writes the artifact; the command reports. *)

(* The exit code of a workbook that was written. *)
Completion ==
    CASE "error" \in Severities -> 5
      [] "error" \notin Severities /\ "warning" \in Severities -> 1
      [] OTHER -> 0

MayReplace == command.force \/ destination = Missing

Publish ==
    /\ stage = "publish" /\ MayReplace
    /\ destination' = workbook
    /\ Exit(Completion)
    /\ UNCHANGED <<command, file, timeline, diagnostics, images, workbook, status>>

DestinationExists ==
    /\ stage = "publish" /\ ~ MayReplace
    /\ Reported(<<"error">>)
    /\ Exit(4)
    /\ UNCHANGED <<command, file, timeline, images, workbook, status, destination>>

CannotPublish ==
    /\ stage = "publish"
    /\ Reported(<<"error">>)
    /\ Exit(5)
    /\ UNCHANGED <<command, file, timeline, images, workbook, status, destination>>

(* Another program creates or removes the destination meanwhile. *)
OtherProgramActs ==
    /\ stage # "done"
    /\ destination' \in {Missing, Foreign} \ {destination}
    /\ UNCHANGED <<command, stage, file, timeline, diagnostics, images,
                   workbook, status, exit>>

Ended == stage = "done" /\ UNCHANGED vars

Next ==
    \/ RefuseCommand \/ AcceptCommand
    \/ CannotRead \/ ImportDocument
    \/ ExtractFrames \/ CannotExtractFrames
    \/ CreateWorkbook \/ CannotCreateWorkbook
    \/ WriteEvent \/ WriteOtherSheets \/ CloseWorkbook
    \/ Publish \/ DestinationExists \/ CannotPublish
    \/ OtherProgramActs
    \/ Ended

Spec == Init /\ [][Next]_vars

----------------------------------------------------------------------------
(* Properties. *)

(* A published workbook is that of the file: a row for every event record, *)
(* in order, with the comments up to the next record, the first clip name  *)
(* among them, its own initial frame and a duration label that denotes its *)
(* number of frames; and the sheets that were asked for.                   *)
Lists(numbers, set) ==
    /\ ToSet(numbers) = set
    /\ \A i, j \in DOMAIN numbers : i < j => numbers[i] < numbers[j]

EventRecords == {i \in DOMAIN file.lines : file.lines[i].kind = "event"}

CommentsOf(number) ==
    {i \in DOMAIN file.lines :
        /\ file.lines[i].kind \in {"comment", "clipName"}
        /\ i > number
        /\ \A j \in EventRecords : j > number => j > i}

ClipNamesOf(number) ==
    {i \in CommentsOf(number) :
        file.lines[i].kind = "clipName" /\ ~ file.lines[i].indented}

RowIsTrue(row, k) ==
    LET frames == DurationInFrames(file.lines[row.line].record,
                                   timeline.rate, timeline.mode)
    IN /\ Lists(row.comments, CommentsOf(row.line))
       /\ row.clipName = IF ClipNamesOf(row.line) = {} THEN None
                         ELSE Min(ClipNamesOf(row.line))
       /\ row.durationFrames = frames
       /\ IsTimecode(row.duration, timeline.rate, timeline.mode)
       /\ ToFrameCount(row.duration, timeline.rate, timeline.mode) = frames
       /\ row.image = IF UsesInitialFrames THEN k ELSE None

WorkbookHoldsTheTimeline ==
    destination \notin {Missing, Foreign} =>
      /\ None \notin ToSet(destination.rows)
      /\ Lists([k \in DOMAIN destination.rows |-> destination.rows[k].line],
               EventRecords)
      /\ \A k \in DOMAIN destination.rows : RowIsTrue(destination.rows[k], k)
      /\ destination.timelineSheet = command.timelineSheet
      /\ destination.diagnosticsSheet = command.diagnosticsSheet

(* The exit code says what docs/cli.md:121 says it does: a workbook was    *)
(* written for 0 and 1 only; for 0 the whole file was understood; an input *)
(* whose records were refused gives 3; without --force a file that was in  *)
(* the way is kept.                                                        *)
IsUnderstood(i) ==
    LET line == file.lines[i]
    IN /\ line.kind # "unknown"
       /\ line.kind = "motionEffect" =>
            \E j \in 1 .. i - 1 : file.lines[j].kind = "event"
       /\ line.kind = "event" =>
            /\ line.edit \in KnownEdits
            /\ (line.edit = "cut" \/ line.duration # None)

ExitCodeTellsTheOutcome ==
    exit # None =>
      /\ exit \in {0, 1} <=> destination \notin {Missing, Foreign}
      /\ exit = 0 => /\ ~ UsesFallback(file.bytes)
                     /\ \A i \in DOMAIN file.lines : IsUnderstood(i)
      /\ exit \in {0, 1} =>
           \A i \in DOMAIN file.lines : file.lines[i].kind = "event" =>
             ~ Rejected(file.lines[i], timeline.rate, timeline.mode)
      /\ exit = 4 => destination = Foreign /\ ~ command.force
      /\ exit = 3 => file # None /\ (timeline = None \/ "error" \in Severities)
=============================================================================
