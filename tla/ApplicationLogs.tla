--------------------------- MODULE ApplicationLogs ---------------------------
(***************************************************************************)
(* The log files of the application: FilesystemRotatingSink, which writes  *)
(* the active file and shifts it through a bounded number of rotations,    *)
(* and InitializeApplicationLogging, which prunes what is expired and      *)
(* opens the sink, or leaves the application with terminal logging only.   *)
(*                                                                         *)
(* Every filesystem call may fail; the sink then throws, the message is    *)
(* dropped and the next one tries again.  A rotation is several renames,   *)
(* and another thread may read the directory between two of them.          *)
(*                                                                         *)
(* A message is its number; what matters of its text is its size.  Slot 0  *)
(* is the active file, slot i the file edit-atlas.i.log; a file of another *)
(* name is never touched.  File age is abstracted to what a launch finds   *)
(* expired: a file was last written before every file of a lower slot.     *)
(***************************************************************************)
EXTENDS Integers, Sequences, SequencesExt, FiniteSets

CONSTANTS
    MaximumFiles,       \* maximum_files: the active file and its rotations
    MaximumSize,        \* maximum_file_size
    Sizes,              \* the sizes of messages
    Missing,            \* no file
    MaxMessages         \* bound: messages written

ASSUME ApplicationLogsAssumption ==
    /\ MaximumFiles \in Nat /\ MaximumFiles >= 2
    /\ MaximumSize \in Nat \ {0}
    /\ Sizes \subseteq Nat \ {0}
    /\ Missing \notin Seq([id : Int, size : Int])
    /\ MaxMessages \in Nat

VARIABLES
    logs,               \* the files: what each slot holds
    sink,               \* the sink of the running process
    written             \* messages the application logged so far

logVars == <<logs, sink, written>>

(* One slot more than the sink rotates through: a file left by a process   *)
(* that was allowed more files.                                            *)
Slots == 0 .. MaximumFiles

SizeOf(file) ==
    IF file = Missing
    THEN 0
    ELSE FoldLeft(LAMBDA total, message : total + message.size, 0, file)

Messages(file) == IF file = Missing THEN {} ELSE {file[i].id : i \in DOMAIN file}

Stored == UNION {Messages(logs[slot]) : slot \in Slots}

Kept == [slot \in {s \in Slots : logs[s] # Missing} |-> logs[slot]]

-----------------------------------------------------------------------------
(* The sink: off (terminal logging only), ready (between two messages), or *)
(* rotating, with the message it was given and the slot it moves next.     *)
(* usable is false after a failed operation on the stream, until it is     *)
(* opened again; size is current_size_, which is not read again.           *)

NoMessage == [id |-> 0, size |-> 0]

Off == [stage |-> "off", usable |-> FALSE, size |-> 0, slot |-> 0,
        message |-> NoMessage]

Opened(size) == [stage |-> "ready", usable |-> TRUE, size |-> size, slot |-> 0,
                 message |-> NoMessage]

(* The operation failed.  What the sink throws is caught by the logger,    *)
(* and the stream is not usable until it is opened again; thrown while the *)
(* sink is made, it leaves terminal logging only.                          *)
Rotating == sink.stage \in {"remove", "shift"}

Thrown == IF Rotating /\ sink.message = NoMessage
          THEN Off
          ELSE [sink EXCEPT !.stage = "ready", !.usable = FALSE, !.slot = 0,
                            !.message = NoMessage]

(* sink_it_ with a message of the given size, cut to the maximum: a file   *)
(* that would outgrow the maximum is rotated first.                        *)
Log(size) ==
    LET message == [id |-> written + 1,
                    size |-> IF size > MaximumSize THEN MaximumSize ELSE size]
    IN  /\ written < MaxMessages
        /\ sink.stage \in {"off", "ready"}
        /\ written' = written + 1
        /\ \/ /\ sink.stage = "off"
              /\ UNCHANGED <<logs, sink>>
           \/ /\ sink.stage = "ready"
              /\ sink.size # 0 /\ sink.size + message.size > MaximumSize
              /\ sink' = [sink EXCEPT !.stage = "remove", !.message = message]
              /\ UNCHANGED logs
           \/ /\ sink.stage = "ready"
              /\ ~ (sink.size # 0 /\ sink.size + message.size > MaximumSize)
              /\ \/ /\ sink.usable
                    /\ logs' = [logs EXCEPT ![0] =
                          IF @ = Missing THEN <<message>> ELSE Append(@, message)]
                    /\ sink' = [sink EXCEPT !.size = @ + message.size]
                 \/ sink' = Thrown /\ UNCHANGED logs

(* The last rotation, which gives way.  Slip: one too few.                 *)
RotationBeforeLast == MaximumFiles - 2

LastRotation == MaximumFiles - 1

(* Rotate: the stream is closed and the last rotation removed.             *)
RemoveLast ==
    /\ sink.stage = "remove"
    /\ \/ /\ logs' = [logs EXCEPT ![LastRotation] = Missing]
          /\ sink' = [sink EXCEPT !.stage = "shift", !.usable = FALSE,
                                  !.slot = MaximumFiles - 2]
       \/ sink' = Thrown /\ UNCHANGED logs
    /\ UNCHANGED written

(* The file of a slot takes the next one; a slot with no file is skipped.  *)
(* Slip: the file is copied.                                               *)
Copied(slot) == [logs EXCEPT ![slot + 1] = logs[slot]]

Moved(slot) == [logs EXCEPT ![slot + 1] = logs[slot], ![slot] = Missing]

Shift ==
    /\ sink.stage = "shift"
    /\ sink.slot >= 0
    /\ \/ /\ logs' = IF logs[sink.slot] = Missing
                     THEN logs
                     ELSE Moved(sink.slot)
          /\ sink' = [sink EXCEPT !.slot = @ - 1]
       \/ sink' = Thrown /\ UNCHANGED logs
    /\ UNCHANGED written

(* The active file is created anew, and the message written to it.  The    *)
(* size is reset only once it is open; a rotation that failed is tried     *)
(* again from its start at the next message.                               *)
OpenActive ==
    /\ sink.stage = "shift"
    /\ sink.slot < 0
    /\ \/ /\ logs' = [logs EXCEPT ![0] = IF sink.message = NoMessage
                                         THEN <<>> ELSE <<sink.message>>]
          /\ sink' = Opened(sink.message.size)
       \/ /\ sink.message # NoMessage
          /\ logs' = [logs EXCEPT ![0] = <<>>]
          /\ sink' = [Opened(0) EXCEPT !.usable = FALSE]
       \/ sink' = Thrown /\ UNCHANGED logs
    /\ UNCHANGED written

-----------------------------------------------------------------------------
(* A launch.                                                               *)

(* What PruneExpiredLogs should remove: the files of a slot no rotation    *)
(* reaches, and those found expired, which are the last ones.  Slip: only  *)
(* the expired ones.                                                       *)
Expired(firstExpired) == {slot \in Slots : slot >= firstExpired}

Pruned(firstExpired) ==
    {slot \in Slots : slot >= firstExpired \/ slot >= MaximumFiles}

Without(files, removed) ==
    [slot \in Slots |-> IF slot \in removed THEN Missing ELSE files[slot]]

(* InitializeApplicationLogging: pruning may stop after some of the files, *)
(* in any order, and opening may fail; both leave terminal logging only.   *)
(* An active file that is too large, which a process with other limits may *)
(* leave, is rotated as the sink is made.                                  *)
InitializeLogging ==
    /\ \E firstExpired \in Slots \cup {MaximumFiles + 1} :
          \/ \E removed \in SUBSET Pruned(firstExpired) :
                /\ logs' = Without(logs, removed)
                /\ sink' = Off
          \/ LET files == Without(logs, Pruned(firstExpired))
                 active == IF files[0] = Missing THEN <<>> ELSE files[0]
             IN  /\ logs' = [files EXCEPT ![0] = active]
                 /\ sink' = IF SizeOf(active) > MaximumSize
                            THEN [Opened(SizeOf(active)) EXCEPT
                                    !.stage = "remove"]
                            ELSE Opened(SizeOf(active))
    /\ UNCHANGED written

-----------------------------------------------------------------------------
(* Reading the files from the last rotation to the active one gives the    *)
(* messages in the order they were logged, each once, however often a      *)
(* rotation stopped half-way and was tried again.                          *)
LogsAreInOrder ==
    /\ \A older, newer \in Slots :
          older > newer =>
             \A m \in Messages(logs[older]), n \in Messages(logs[newer]) : m < n
    /\ \A slot \in DOMAIN Kept :
          \A i, j \in DOMAIN logs[slot] :
             i < j => logs[slot][i].id < logs[slot][j].id

(* What diagnostic-support.md says of the files: each is limited in size,  *)
(* and there are at most so many once a launch could prune them.           *)
LogsAreBounded ==
    /\ \A slot \in Slots : SizeOf(logs[slot]) <= MaximumSize
    /\ sink.stage # "off" => logs[MaximumFiles] = Missing
=============================================================================
