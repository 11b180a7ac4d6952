# Edit Atlas in TLA+

Edit Atlas opens editorial timelines (CMX 3600 EDLs), lets a user filter and
arrange their events, and exports them to a spreadsheet, optionally with the
first frame of every event taken from a rendered video. This directory models
the parts of it whose correctness depends on the order in which things happen:
several processes on one file system, worker threads against the GUI thread,
cancellation, a decoder whose seeks land where they like, listeners that call
each other back, log files that rotate while they are read, and a conversion any
stage of which may fail. TLC checks the models on small instances; TLAPS proves
the main safety results for every instance.

Paths below are relative to the repository.

## 1. The system

| Part | State it keeps | Operations | What is hard |
|---|---|---|---|
| `src/storage` | a temporary name per write; the file system | `ReadLocalFile`, `PrepareAtomicFile`, `WriteLocalFileAtomically`, `Commit`, `~AtomicFileTransaction` | other processes between any two file-system calls, any call failing, a process dying |
| `src/presentation/timeline_document_*` | document, filter query and selection, projection, states, result, frame counts, two futures, a stop source | `Import`, `Clear`, `SetFilterQuery`, `SetEventProjection`, `Export`, `CancelExport`, the slots of the futures, the destructor | a future that has finished before its event is handled, queued progress, a late cancel, a destructor that blocks the thread its workers talk to |
| `src/services/timeline_rendered_video_export_service.cpp`, `timeline_video_inspection_service.cpp`, `timeline_frame_extraction_service.cpp` | the locals of one export | `Export`, `Inspect`/`Validate`, `Extract` | cancellation between any two polls, exact frame after an inexact seek, events sharing frames, boundaries of the mapped range |
| `src/media` | the FFmpeg contexts of one open file | `Open`, `Seek`, `SeekToFrame`, `ReadFrame` | what a container delivers: missing indices, gaps, repeats |
| `src/services/timeline_filter.cpp` | none | `FilterTimelineEvents`, `SelectTimelineEvents` | regular expressions that do not compile |
| `src/services/timeline_template_store.cpp`, `timeline_template_service.cpp` | a list of templates in memory; a directory of JSON files | `Load`, `Create`, `Update`, `Rename`, `Duplicate`, `Remove` | two processes over one directory; a store that fails half-way |
| `src/presentation/timeline_template_view_model.cpp`, `src/frontends/quick/timeline_configuration_view_model.cpp` | active template, filter, projection, modified flag | select, create, update, rename, duplicate, remove, restore for a timeline | four models kept equal by guarded callbacks |
| `src/frontends/widgets`, `src/frontends/quick` | dialogs, busy flags | the commands of the user | nested event loops; questions about a file that changes meanwhile |
| `src/frontends/cli` | none | one export or import per process | runs beside the graphical frontends |
| `src/core` | none (values); a registry filled at start | timecode arithmetic, format probing, import and export pipeline | drop-frame numbering |
| `src/formats` | none | the CMX 3600 importer, the XLSX exporter | parsing; layout |
| `src/support`, `src/presentation/support_bundle_*` | log files; one future | logging, `CreateSupportBundle` | logs that rotate while they are read |

How they interact: a frontend calls the view model on the GUI thread; the view
model starts a worker through its workflow (`QtConcurrent::run`) and hears of it
through the GUI thread's event queue only (queued progress calls, the watcher's
finished event) while a stop token goes the other way; the export worker calls
inspection, extraction and the document export service, which renders a file
and commits it through the storage library; the template store reads and writes
through the storage library too. Processes meet on the file system only. There
is no lock between them.

What makes each part correct:

- storage: a destination is absent or one whole content; `kPreserve` never
  replaces; a failed call has changed nothing and leaves no litter;
- session: one operation at a time, known to the window until it is over; what
  is shown (selection, counts, result, failure) belongs to the document shown;
  a cancel reaches the export it was meant for; everything ends;
- export worker: every exported event has its own frame or there is no
  workbook; a stopped extraction writes nothing; progress adds up;
- templates: the list in memory is what is on disk, names are unique, an edit
  is never lost silently;
- configuration: template, filter model, projection model and document agree,
  in both graphical frontends, whenever their main loop is idle;
- logs and bundle: messages stay in order, only the oldest are lost, a bundle
  that is reported as created holds every listed file;
- command line: the workbook holds the timeline of the file, and the exit code
  says which of this is true;
- timecode: labels and counts are each other's inverse;
- video: from the place of a seek every picture comes once and in order, a seek
  to a frame does not land behind it, and an accepted video shows the timeline.

The hazards of the code, each at its line, are listed in `PROJECT.json`.

## 2. Modules

| Module | Models |
|---|---|
| `LocalFile` | the storage library, one action per file-system call |
| `AtomicPublication` | what an atomic write promises its caller |
| `LocalFileRefinement` | the mapping under which the first implements the second |
| `LocalFileProofs` | theorems about `LocalFile` |
| `DocumentSession` | `TimelineDocumentViewModel` with `TimelineDocumentWorkflow`, the workers, the GUI event queue |
| `DocumentSessionProofs` | theorems about `DocumentSession` |
| `FrameExtraction` | the export worker in detail: `Export`, `Inspect`, `Extract`, the decoder |
| `FrameExtractionRefinement` | the mapping under which it is the worker of `DocumentSession` |
| `FrameExtractionProofs` | theorems about `FrameExtraction` |
| `TemplateFile` | the JSON form of a template: what is written, what is accepted |
| `TemplateCatalog` | `TimelineTemplateService` and `TimelineTemplateStore` in several processes over one directory |
| `TemplateCatalogProofs` | theorems about `TemplateCatalog` |
| `FilterModel` | the rows of `TimelineFilterModel` and the columns of `TimelineEventProjectionModel`, as values |
| `TemplateViewModel` | `TimelineTemplateViewModel`, as operators with its listeners as parameters |
| `DocumentFilter` | the query and projection of `TimelineDocumentViewModel`, likewise |
| `Configuration` | the templates both windows work with: those found at start, and those the user saves |
| `QuickConfiguration` | `TimelineConfigurationViewModel`: the view models above, listening to each other |
| `WidgetsWindow` | the controllers, the view and the busy state of the Widgets frontend, over the same view models |
| `FrontendWindows` | `QuickConfiguration` and `WidgetsWindow` over one set of constants, each with its own specification |
| `WindowProofs` | theorems about the two in `FrontendWindows`, lemmas about `FilterModel` |
| `ApplicationLogs` | the rotating sink and the pruning at start |
| `SupportBundle` | the bundle's view model and worker, over `ApplicationLogs` |
| `QuickShell` | the Quick shell over the life of its processes, composed with the two above |
| `QuickShellProofs` | theorems about `ApplicationLogs` and `SupportBundle` in `QuickShell` |
| `FrameTiming` | timestamps, frame numbers and durations of a video stream |
| `FrameStream` | what a video decoder promises its caller |
| `VideoDecoder` | `FfmpegVideoDecoder`: seeks and reads over FFmpeg's demuxer and codec |
| `VideoDecoderProofs` | theorems about `VideoDecoder`, that it implements `FrameStream`, and about `RenderedVideo`: what the inspection accepts |
| `VideoInspection` | `TimelineVideoInspectionService` and the opening of a file below it |
| `RenderedVideo` | the two composed: a video from its opening to the pictures |
| `Timecode` | rates, labels, counts, durations |
| `TextEncoding` | how the bytes of a file become text |
| `CmxImporter` | what the CMX 3600 importer makes of a file |
| `Conversion` | one conversion of the command line: importer, pipeline, services, XLSX exporter, exit code |
| `ConversionProofs` | theorems about `Timecode`, `CmxImporter` and `Conversion` |
| `MC...` | the small instances |

A short operator whose comment says "Mutation:" or "Slip:" stands before the
definition it varies. No specification uses it: it records a plausible mistake
that the property named in `PROJECT.json` detects when it takes the definition's
place.

### LocalFile

A directory maps names to inodes and each inode has data, so that a hard link,
a rename and a handle that stays open behave as the operating system has them.
`policy`, `temp` and `handle` are the locals and members of a call; `pc` says
which file-system call comes next. `abandoned` is a history variable: names
left by dead processes or by removals the file system refused. Each call of the
library that can fail may fail in the model. `Crash` stops a call between two
steps and runs no destructor. Two draws of a 64-bit random suffix that are in
use at the same time are taken to differ; a name left over by a dead process is
a possible candidate and is refused by the existence check. `PreservingCommits` says whether there are
POSIX commits (link, then unlink), Windows ones (a move that does not replace)
or both. The size
limits (`kTooLarge`) and what a power failure does to unflushed data are not
modelled.

### DocumentSession

The variables are the members of the view model and of the workflow, with
futures as records (`importTask`, `exportTask`), stop sources as numbers and
`queue` as the GUI thread's pending events. `ExportRunning` and `ImportRunning`
are what `QFutureWatcher::isRunning` answers: false as soon as the worker has
returned, while its finished event is still in the queue. Setting a new future
drops the events of the old one (`Forget`), which is what `QFutureWatcher` does.
A worker's reading and decoding is nondeterministic. The workflow's plain
`Export` is not modelled: only its tests call it. Documents are named by their
path, so importing a path again gives the same document. `cancelAsked` is a
history variable.

### FrameExtraction

One run of `TimelineRenderedVideoExportService::Export`. Timelines are sequences
of events in record frames, videos are a start, a duration and the frame
indices their stream delivers in order. A seek lands anywhere. Conditions of
`Validate` that do not involve the timeline (container, rates, readable
timecode) and decoder errors are failures that may happen at any time. `stop`
may be set at any moment by another thread. `frames` records which place of the
stream each event's image came from, which is what the properties are about;
pixels and sizes are abstracted to "valid or `kInvalidFrame`".

`FrameExtractionRefinement` maps this worker to the one of `DocumentSession`:
every step is one of the session's worker steps with the same posted events, a
`CancelExport`, or invisible. The session's results about its nondeterministic
worker therefore hold with the real one in its place, as far as safety goes.

### TemplateFile and TemplateCatalog

`TemplateFile` gives every template its JSON object, and every JSON object the
template it is read as, or its rejection: known fields and no others, known
enumeration values, projections that are not empty and have no field twice,
durations that are null or not negative. `TemplateCatalog` puts processes over
the directory. A load is not atomic: it lists the directory, then reads file by
file (`LoadFile`, or `SkipFile` for one that is rejected or cannot be read), and
keeps one template of each name; other processes write in between, and files
that appear meanwhile may be met or not. A save replaces the file first and then
the list; that the replacement is atomic is what `AtomicPublication` promises. A
call that is refused or fails changes nothing and is therefore not a step.
`outdated` is a history variable: the files that other processes changed since
this one read or wrote them. Identifiers are 128 random bits and taken to differ
from those in use, on disk included.

### FilterModel, TemplateViewModel, DocumentFilter, QuickConfiguration

A signal of Qt runs its listeners before the handler that emits it goes on. An
emission is therefore the application of an operator, and the modules of the
view models take the listeners as constant operators: `QuickConfiguration`
instantiates them twice, with its own handlers and with none (`Quiet`,
`Silent`), the second being what a handler calls while it holds
`synchronizing_template_state_`. One action is one call of the interface or the
end of an import. The record `window` holds every copy of the configuration.
The rows of the filter hold more than the query read from them: a row without
text is no condition yet. Regular expressions that do not compile are the texts
in `Broken`. `EditCondition` edits any row, as `setData` does. Texts of refused
commands are left out. `UnfinishedConditionsSurvive` allows a step three things:
to leave the rows alone; to write, add or remove one of them, the others and the
columns staying as they are (`OneRowChanges`, `OnlyTheRowsChange`); or to be one
of the five steps that may take all rows: the filter is cleared, a template is
chosen or removed, a timeline is opened, or the one opened refuses the filter.

### WidgetsWindow

The same view models under the other frontend, which has no guard: each
controller writes what it is told. `window` adds what the view, the template
panel and the menu show. A question (`QDialog::exec`) is a nested event loop in
the middle of a handler; `dialog` is the one that is open. Only its answer and
other programs act meanwhile. `FinishImport` and `AnswerFrameRate` are the two
halves of `handleDocumentStateChanged`; `exportSpreadsheet`,
`ChooseDestination` and `ConfirmSpreadsheetOverwrite` those of
`exportSpreadsheet`, because the file system is looked at twice on the way.
Questions during which nothing else changes are part of the command that asks.
`PublishSpreadsheet` is the worker's publication, before or after which another
program may create or remove the destination; `FinishExport` ends the export
whether it published or failed. History are `readGone`, what other programs did
to the destination between the two looks at it (`changes`), whether the user was
`asked`, and whether the workbook was `written` as a new file or over another. Layout, texts, drag and drop
and accessibility identifiers are left out.

### ApplicationLogs, SupportBundle, QuickShell

Slot 0 is the active log, slot `i` the file `edit-atlas.i.log`. `RotateStep` is
one file-system call of a rotation, which may fail; a message that finds a
broken sink is dropped. `InitializeLogging` prunes and opens. The bundle worker
opens the directory, meets its names one at a time in any order (`MeetLog`),
sorts what it met, reads the files one at a time and commits. A rotation may
rename files in between any two of these steps, so that a file is missed, or met
under two names; `Watched` records that as history. `QuickShell` runs both beside the document's
state (`document`, `exporting`) and the question about the frame rate, through
launches, closings and kills. One process at a time: see the hazards.

### FrameTiming, FrameStream, VideoDecoder

A file is a sequence of packets in decoding order, some of them of other
streams, with a timestamp or none for each picture. `position` is the
demuxer's, `held` and `drained` are the codec: the pictures it has not given,
and whether it was told that no packet follows. `draining` and `exhausted` are
the flags of the class. A call of `ReadFrame` is several steps (`ReadStep`), one
per call of FFmpeg, each of which may fail. The caller seeks and reads as it
likes, and gives the decoder up after a failure, as `Extract` does; `target` is
history. Groups of pictures are taken to be closed. `FrameStream` is the
interface: a place in the presentation order that reads advance by one and seeks
set; the stream of `FrameExtraction` is what it promises.

### VideoInspection, RenderedVideo

Validation knows a video only by what its container says. A *recording* is what
was rendered (rate, mode, the label of the first frame, how long, the frames that
have a picture)
and a *writer* is how some program describes it: its time base, where it starts,
what it states and what it leaves out, rates as decimal fractions, timecodes in
other streams. `Information` is what `Open` makes of the two, rounding included.
`Validate` reports the first of `Conditions` that holds. `RenderedVideo` gives
the decoder the file that the writer makes of the recording (`File`), and lets
the caller use it once the inspection has accepted it. The properties compare
the verdict and the pictures with the recording, which the code never sees. That
a writer tells the truth about what it states is the model's assumption; whether
it counts pictures or time is not. So is that a stream which states no start
begins at zero.

### Timecode, TextEncoding, CmxImporter, Conversion

`Timecode` is `src/src/core/timecode.cpp` over integers: the largest product it
forms is far below 2^63. `CmxImporter` makes of a sequence of lines what the
importer makes of it. A line is a record of what the importer looks at, its text
the number of the line. Note `AddComment`: an indented comment keeps its text
but loses its clip name, because the star is looked for at the first column.
`Conversion` is `edit-atlas convert` from the checks of the command to the exit
code: every stage may fail with the diagnostics and the exit code of the code,
and another program may create or remove the destination at any time. In the
workbook a row stands for its cells; a cell that the library refuses is
remembered only in `status`, under which the sheets go on being written.

## 3. Runs

| Run | Instance | Distinct states | Shows |
|---|---|---|---|
| `local_file` | 3 writers, 1 reader, 2 temporary names, both ways to commit | 2 004 614 | whole destination, reclaimed temporaries, sound reads, the contract with `kPreserve` |
| `local_file_reads` | as `local_file` | (violation) | a read can be cut short by a shorter replacement |
| `document_session` | 2 documents, 2 events, 3 queries (one does not compile), 2 projections, 2 exports | 120 984 | everything about the window |
| `frame_extraction` | 5 timelines of up to 3 events, 24 videos, tolerance 1 | 15 840 | everything about the export worker, and that it is the session's |
| `template_catalog` | 2 processes, 2 identifiers, 2 names, 1 filter with every kind of condition, 3 projections (2 invalid), directories with stray files | 94 216 | one name each, memory against disk, damaged files kept |
| `quick_configuration` | 1 text field and the other editors, 2 texts (one does not compile), 2 rows, 2 columns, 2 templates, 1 command, a start with a template of 2 conditions | 208 770 | the copies agree, the panel is true, no false refusal, unfinished rows survive |
| `quick_shell` | 3 log files of 2 units, messages of 1 or 2, 2 messages | 1 632 000 | logs in order and bounded, bundle complete, close |
| `widgets_window` | as `quick_configuration`, with 2 projections | 1 783 132 | everything shown agrees, only a file that left is replaced unasked |
| `widgets_overwrite` | as `widgets_window` | (violation) | a file is replaced without a question |
| `widgets_gone_document` | as `widgets_window` | (violation) | the view reads a document that is gone |
| `conversion` | files of up to 3 lines, 17 kinds of line, every encoding and extension, 12 command lines | 528 159 | the workbook and the exit code |
| `rendered_video` | 6 timelines of 0 to 2 events, 144 recordings of 3 to 6 frames, 23 writers, 4 ways to pack pictures | 189 018 | accepted videos show the timeline, faithful renders are accepted, the codec's protocol, seeks that are not late, the decoder's contract, every read ends |

Why these bounds are enough to be interesting:

- Two writers race on every pair of policies; a third lets a preserving writer
  lose to one writer while another one replaces. Each commit chooses between the
  POSIX way and the Windows way, so that writers of one platform and of both
  are covered. The second writer's content is shorter than the others, which is
  what a read needs to be cut short (two writers are enough for `local_file_reads`).
  Temporary names may exist before the run, as left by an earlier crash.
- Two exports are what a late cancel, a stale stop source and queued progress
  need to be mistaken for the next export's. `MaxExports` is the only counter
  bounded; the guard is in `StartExportTask`. Two events on one frame or on two
  give progress with and without an intermediate report; the second document
  has a query that selects nothing.
- The timelines have a gap, events out of order, two events on one frame, an
  empty event at the end, only an empty event, and no events; videos are one
  or two frames short, exact, or long; streams repeat an index, skip one, lose
  one, start late or are empty.

- Two processes are enough for one to save under the feet of the other; two
  identifiers and two names for a list with a collision. `Processes` is
  symmetric. Every stray file (malformed, newer, misplaced, with a field too
  many) is among the initial ones, and the filter has a condition of every kind.
- `quick_configuration` starts with one template, whose filter has two
  conditions and does not compile, so that it is applied before and after there
  is a document. The user makes any query of two conditions, in either row, but
  the filters that are saved in the run have at most one (`MaxSaved`).
- In the two windows one accepted template command (`MaxCommands`) gives an
  active template that is clean, modified, renamed or removed; two rows
  (`MaxRows`) give a finished and an unfinished condition, and one that does not
  compile. These bounds are guards of the actions.
- Logs start empty or full, so that the first message may rotate; two messages
  (`MaxMessages`) let a rotation that failed half-way be tried again, with a
  kill, a launch or a bundle anywhere in between.
- Three lines hold an event, a comment and a rejected or unknown record between
  them, in every order; the ranges lie on a minute boundary, over ten minutes,
  on a dropped label, on a frame number the rate does not have, and reversed.

- The recordings include every one that differs from a timeline by one or two
  frames at the end, by frames left out, by its start, its mode or its rate. The
  writers hold pictures back or not, put packets of another stream in between,
  leave a timestamp out, round, and start before or after zero or so late that a
  frame has no timestamp in 64 bits. `PerSecond` is 1000 instead of a million, and
  `Int64Max` the largest integer of TLC, so that the saturation of `av_rescale_q`
  is covered by the proofs only.

The runs on files, sessions, exports and videos let the system stop (every call
returned, the window closed, the export finished, the decoder given up, the
verdict reached), hence `CHECK_DEADLOCK FALSE`. The others do not: their
users always have a command left, and the finished conversion stutters.

### Findings

- `local_file_reads`: `ReadLocalFile` opens the stream and then asks the size of
  the *path* (`src/src/storage/local_file.cpp:152` and `:159`). If a shorter
  file is renamed over the path in between, the read succeeds with the
  beginning of the old file. The header promises complete bytes or a failure.
  Template files are written with `kReplace` and read with this function, by
  processes that do not exclude each other. What does hold, and is proved, is
  `ReadsPublishedContent`.
- `widgets_gone_document`: opening a second timeline makes the view read the
  event count of the first after the view model has destroyed it.
  `StartImport` calls `Import`, whose `ResetDocument` emits `filterChanged`,
  before `ClearTimeline` takes the pointer from the view
  (`src/src/frontends/widgets/timeline_document_controller.cpp:667` and `:672`,
  `src/src/frontends/widgets/timeline_document_view.cpp:152`). In practice the
  label shows a stale total for a moment; the read is undefined.
- `widgets_overwrite`: the Widgets window looks at the destination of an export
  twice (`timeline_document_controller.cpp:288` for the authority to replace,
  `:186` for the question). A file that is there at the first look, gone at the
  second and back at the publication is replaced unasked, although
  `src/docs/user-guide.md:43` excludes it. `OnlyAFileThatLeftIsReplacedUnasked`,
  checked and proved, says that this is the only way.

Three divergences have no run of their own, because the runs state what does
hold. The counts of progress that the view model hands on are documented as
"distinct event frames"
(`src/src/presentation/include/edit_atlas/presentation/timeline_document_view_model.hpp:169`),
but the workflow forwards those of events, two of which may share a frame;
`ProgressAddsUp` is about both. `TimelineVideoValidationFailure` is documented
as "Every condition that prevents the video from being used", but `Validate`
returns at the first. A template whose
filter does not compile may be declared valid by the template view model when
the document already has that query.

## 4. Fairness

`DocumentSession!FairSpec` assumes weak fairness of the GUI thread's event
handling (`GuiStep`), of the import worker and of the export worker: the event
loop runs and the thread pool schedules its tasks. No user step is fair. During
destruction the GUI thread handles no events, and the model lets it not do so.
`FrameExtraction!FairSpec` assumes weak fairness of the worker only; nobody has
to cancel. A decoder call that never returns is outside the models. `LocalFile`
has no liveness property and its specification no fairness, and neither have the
modules of the templates, the two frontends, the logs, the inspection and the
conversion. `RenderedVideo!ReceiptSpec` assumes weak fairness of the decoder's
`ReadStep`: a read under way goes on. Nobody has to start one.

## 5. Proofs

Every safety result is proved from the module's named assumption on its
constants (`LocalFileAssumption`, `DocumentSessionAssumption`,
`ConversionAssumption` and so on) and nothing else. TLC also checks those
assumptions on the instances. The argument has one form throughout: an
inductive invariant, a lemma per action, a theorem that the invariant holds, and
the properties as consequences.

**LocalFile.** `DestinationIsWhole` is not inductive: nothing in it says that
the inode a writer is filling is not the one the destination names.
`InodesArePrivate` and `NamesAreHeld` do (a call under way has its own temporary
name, created by itself on an inode of its own), and `DestinationIsCommitted`
says that what the destination names was finished before the commit.
`HandlesAreCommitted` carries this to readers. `Refinement` shows that each step
is a step of `AtomicPublication` or a stutter. The invariant holds for both
commits and any number of writers, readers and names. `PreserveNeverReplaces`,
which the contract implies, is proved as well and not run on its own, and so are
the type invariants (parts of each `IInv`) and `StateMatchesDocument`.

**DocumentSession.** `CompletionIsPending` describes the queue exactly for each
state and is the heart of the invariant; `TasksFitTheWindow` and
`TokenIsCurrent` tie the tasks to the window and tokens to the current stop
source. From these follow the one-operation, selection, consistency, result and
cancellation theorems for any documents, queries, projections and number of
exports.

**FrameExtraction.** `MappingIsTheSpan` fixes the mapping to the timeline's
span, `PendingIsTheRest` says that the frames still to extract are those of the
events without an image, `ImagesAreOwn` that every image taken is its event's.
The lemma `SpanHoldsEvents` (the minimum and maximum over the timeline bound
every event; it rests on `MinOfNaturals` and `MaxOfBounded`) gives
`OnlyMissingRefused`.

**Timecode.** `FromFrameCount` and `ToFrameCount` are proved inverse of each
other for every frame of a day, at every rate `Timecode::Create` supports and in
both modes. The proof goes down the code's own division: whole ten-minute blocks,
whole minutes within one, the labels a minute drops. It rests on one lemma,
`DivisionIsUnique`, and needs no assumption on constants. `DurationsAreExact`
adds that the duration label an exporter writes counts to the number of frames of
the event.

**Progress.** Two more invariants, each on top of `IInv`, give `ProgressCounts`
and `ProgressCurrent`. In `FrameExtraction`, `LastIsCurrent` says that the last
report is of the images there are and the frames left, so that taking a frame
adds one frame and at least one event (`CountsGrow`). In `DocumentSession`,
`ProgressIsCurrent` with `DoneFitsState` compares what is shown, what is queued
and what the worker has done. `ClosingStops` follows from `TokenIsCurrent` and `ClosingIsStopped`: the
stop source of the destructor is that of the worker it waits for.

**The session's worker.** `FrameExtractionProofs` also shows, for any timelines,
videos and selections, that a step of `FrameExtraction` is a step of the export worker
of `DocumentSession`, its `CancelExport`, or invisible (`Simulation`). A return,
a change of place and a report each have one lemma (`ReturnStep`, `GoesStep`,
`ReportStep`). `CountedWhenNoneIsLeft` is why the two workers leave their loop
together: no frame is left exactly when every event is counted.

**TemplateCatalog.** `IInv` adds to `NamesAreUnique` that identifiers do not
repeat either, in a list and in what a load has found so far (`FoundAreSeen`),
and that every template a process holds can be written and stands for a file
that is absent or valid (`TemplatesHaveFiles`); this is why no damaged file is
ever overwritten or removed (`DamagedFilesKept`). `MemoryIsOnDisk` needs more
(`MInv`): a service has templates only once loaded and a scan under way only
before (`Phases`), and a template in either is the file it was read from or
written to. What makes this work is a round trip through the file format, proved
case by case: what `SerializeTemplate` writes is accepted and read as the same
template, and what is read would be written as the same file. The assumptions
are `TemplateFileAssumption` and `TemplateCatalogAssumption`, whose part about
the initial files says that they are JSON documents (`IsJson`).

**QuickShell.** The logs' invariant says that the slot a rename moves to has no
file and that the last slot is empty while the sink runs (`RotationIsSafe`), and
that the message in the sink's hands is newer than every stored one
(`StoredIsOlder`). `LogsOrdered` and `OldestLost` hold for any number of files
and messages, whichever rename fails and wherever the process is killed. The
assumption `ApplicationLogsAssumption` includes that `Missing` is no sequence of
messages. `NothingLeftRunning` needs that a bundle worker that is not idle makes
the window busy. `LogsBounded` needs that the size the sink remembers is never
less than what the active file holds (`SizesAreCounted`): a write that fails
changes neither, and a rotation that stops half-way keeps the count of a file that
may have moved away. For
`BundlesAreComplete`, `Undisturbed` says where every message that was stored at
the directory was opened is while no rotation has begun: in an entry of the archive
or in a listed file, and never in two of them; logging in between only adds newer ones.
`Iteration` says of an iteration under way that the file which holds a message is
met already or still to be met.

**QuickConfiguration.** The invariant `IInv` is about the window between two
calls and has the parts named in the module: the copies are well formed
(`IsWindow`) and equal (`AreEqual`), the active template is in the list, modified
exactly when it differs, and the list is the service's. Each command has a lemma
that follows the emissions one by one. What they rest on are round trips of the
editors: rows made of a query give that query back, columns made of a projection
that projection (`FilterModel`'s lemmas, by induction over the sequences).
`ErrorNeedsDocument` and `valid \/ error` are there for `NeverRefusedFalsely`: a
filter can be refused only by a document that is loaded. The assumption
`ConfigurationAssumption` says that the templates found at start are such as
this program saves (`SavedTemplates`). A template file that was edited by hand may
hold conditions the editor cannot show, a text condition without text say; the
rows then give another query than the template, and nothing is claimed of that.

**WidgetsWindow.** `WindowProofs` is about both windows: it extends
`FrontendWindows`, which extends `QuickConfiguration` and has `WidgetsWindow` as the
instance `Widgets`, so that the lemmas about rows, queries and columns serve both (`SameRows`, `SameQueries`
and `SameProjections` say that the instance's operators are the same). The
columns the user may choose are any set of valid ones
(`FrontendWindowsAssumption`: the dialog is accepted only while a column is
selected). No flag keeps the listeners of
this window apart, and the argument is about what each leaves alone: `Told` is
what a `filterChanged` does to the view, the menu and the template view model,
`Filtered` what a query does to the document, `RowsShown` what an edit of the rows
does to all of them. `IInv` adds to `WindowAgrees` that the active template is
in the list, that there is no document during an import or after one that failed
(so that a failure needs not touch the page's document), and the discipline
behind the one busy state: at most one of import, export and bundle runs
(`OneWorker`), and none while a question is open, during which the columns the
user chose stay those the document has (`QuestionsWait`). Without these two a
bundle that ends would unlock a window whose export still runs.
`WidgetsOverwriteIsAsked` has an invariant of its own, `DestinationIsWatched`: what the
window found at its first look is still true unless another program changed it
since, from that look to the second, which decides the question. A file that is
there at the second look is therefore asked for, and a publication without
authority finds none.

**VideoDecoder.** The codec's pictures and the packets still to come are always
a row `k .. Length` (`Pending`): a seek to a key picture makes it so because
groups are closed, a packet moves one picture from the second set to the first,
and a picture the codec gives is the least of the row (`OutputIsNext`). The last
is the only counting argument: a picture is withheld while fewer than `delay`
later ones are held, and no picture is overtaken by more than `delay`, so that
whatever is still missing is greater than the least one held. `Protocol`,
`TypeCorrect` and the refinement of `FrameStream` (`Refinement`) follow.
`SeekBefore` is arithmetic: `SeekToFrame` rounds a frame number to a timestamp
and `FrameIndex` rounds a timestamp to a frame number, and `RoundTrip` shows
that the two roundings cancel if a frame is no shorter than a tick, so that the
picture at or before the timestamp is the frame or an earlier one. The
assumptions are `VideoDecoderAssumption`, whose `IsPlayable` says what a file is
(ascending timestamps, closed groups, bounded reordering, a time base no coarser
than a frame), and `FrameTimingAssumption`. `FramesAreExact` shows that
`FramesInDuration` of the inspection, which scales the whole of a quotient and
its rest apart, gives the nearest number to the exact one or none.
What is proved of `Spec` holds of the decoder in a receipt too: `ReceiptSpec`
implies it (`ReceiptUsesTheDecoder`, `ReceiptReadsARow`).

**The inspection.** `InspectionInv` says that what was read is what the writer says of
the recording, that an accepted video passed all twelve conditions and a refused
one, if it was read, has one that holds (`Judged`, `NoneHolds`), and that the
mapping is that of the timeline. `Validate` stops at the first condition, so that
`ReachesTheEnd` has to show that whoever gets to the end passed them all. The rest
is arithmetic. A writer rounds a time to ticks, and the inspection counts frames
back from ticks: at the rate this gives the frames there were, because a tick is no
longer than a frame (`TicksAreNear`, `CountedAt`), at a decimal approximation of the rate
too, as long as what it loses stays below what the ticks leave of half a frame
(`ApproximationCounts`), and at the average rate it gives the pictures
(`AverageCounts`, `NoFrameIsLost`), so that a constant rate means that few were dropped
(`FewAreLost`). Rates are compared by the nearest standard one, through FFmpeg's
comparison by continued fractions. `IsLessIsPrecedes` shows that this is comparison by
value, `GcdScales` that a rate in lowest terms is found again from any multiple of
it. Both are recursive functions, shown to satisfy their own equation by a function
that does. `PassingShows` and `RendersPass` put the parts together, and with
`RoundTrip` every numbered picture of an accepted video is that frame
(`PictureIsShown`).

Two assumptions say what recordings and writers there are.
`RenderedVideoAssumption` is what both theorems need:

- the rates of timelines and recordings are in lowest terms and standard, or not
  nearly standard (`IsUsual`). The graphical frontends ask for a standard one; `--fps`
  takes any ratio. `FrameRatesMatch` takes two rates for one if they are near the same
  standard rate, so that with `--fps 121/2` a video of 60 frames a second is accepted
  and counted at 60.5: there the claim is false, by design, and nothing is claimed;
- no frame is shown twice, the label of the first one is a timecode of that rate and
  mode, and it is the only readable timecode in the file (`IsRecording`, `IsWriter`);
- a tick is no longer than a frame, and a writer that approximates NTSC rates, which
  loses one frame in a million, writes no more frames than that leaves room for
  (`IsPrecise`): less than half a million in all, a quarter at a tick of at most half a
  frame.

`AcceptanceAssumption` is needed for `FaithfulRendersAreAccepted` alone: a tolerance of
at least one frame, as `kVideoDurationToleranceFrames` is, and durations whose
product with time base and rate fits 64 bits (`IsCountable`), as `CheckedMultiply`
refuses others.

**Conversion.** The argument goes up from the lines of the file. `LinesArePassed`
is the induction over the second pass of the importer, a fold; its invariant
`ReadSoFar` says after `k` lines that the document is well formed
(`IsDocument`), that every line that was refused or not understood has its
diagnostic (`IsTold`), and that the events are exactly the accepted records so
far, in their order, each with the comments between it and the next
(`HasEvents`). `LineRead` has a case for every kind of line. With the importer's
result (`ImportReads`) and the rows (`RowIsRead`, `BookIsRead`) come the steps of
`Convert`: `ConversionInv` says that the document in hand is the file's
(`ReadInv`), that the sheets hold its first rows unless a cell was refused, which
`status` then remembers until the end (`WorkbookInv`), and that the destination
is not this program's before it publishes (`OutcomeInv`). `ConversionAssumption`
says that files are sequences of lines, options are Booleans and `None` is none of
the values it stands beside.

**Induction over data.** The library's induction theorems take a predicate and
cannot be used, but the order of the natural numbers is known to be well-founded
there, which gives induction for the members of a set (`Induction` in three of the
modules). What a fold or a recursive function computes is proved with it.

Only model-checked: the liveness properties (`OperationsEnd`, `DestructionEnds`,
`ExportEnds`, `ReadsEnd`), which need fairness and are out of the
prover's reach. Every invariant and every action property that a passing run
checks is proved.

## 6. Not modelled

- Video: the conversion of pixels, whose failures are modelled, and open groups of
  pictures. In `FrameExtraction` the checks of `TimelineVideoInspectionService`
  that do not involve the timeline are failures that may happen at any time;
  `VideoInspection` has them in detail.
- The filter's matching: which events a query selects is a constant function of
  `DocumentSession`; Qt's regular expressions are not specified.
- The importer's splitting of a line into tokens, and the exporter's layout,
  column formats and translated texts: no state changes in them, and no property
  here distinguishes their results.
- `list-formats` and the other commands of the CLI that only print.
- Two processes over one log directory: the code promises nothing (see the
  hazards). Nor does it about two processes that edit one template, where the
  last writer wins, or about log messages whose write fails.
- What a power failure does to unflushed data; file sizes beyond the limits.
- Settings, recent files, appearance, typography, translations, QML, the layout of the
  widgets, accessibility identifiers, build scripts and CI. They keep no state
  whose order of change matters to another part.

Work that is left: the matching of the filter.
