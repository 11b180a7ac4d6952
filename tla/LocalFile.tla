----------------------------- MODULE LocalFile -----------------------------
(***************************************************************************)
(* The storage library (src/storage/local_file.cpp): atomic writes through *)
(* a temporary sibling, and whole-file reads, over one destination.        *)
(*                                                                         *)
(* The processes that meet on a destination are Edit Atlas processes (the  *)
(* two graphical frontends and the command line may run side by side) and  *)
(* the threads inside one of them.  Every filesystem call is a step of its *)
(* own, and may fail; a process may die between two calls.                 *)
(*                                                                         *)
(* The filesystem is a directory from names to inodes, and the data of     *)
(* each inode: a name and its hard link share an inode, and an open handle *)
(* stays on its inode whatever happens to the name.  What a power failure  *)
(* loses is not modelled.                                                  *)
(***************************************************************************)
EXTENDS Naturals, FiniteSets

CONSTANTS
  Writers,    \* calls of WriteLocalFileAtomically (or PrepareAtomicFile)
  Readers,    \* calls of ReadLocalFile
  Temps,      \* the names TemporaryPathFor can produce
  Dest,       \* the destination path
  Original,   \* the content of the destination before any writer started
  None,       \* no name, no inode
  Partial,    \* data that is not a complete content
  Size,       \* the number of bytes of each content
  PreservingCommits  \* POSIX: "link", then unlink; Windows: "move"

Contents == Writers \cup {Original}
Names == Temps \cup {Dest}
Inodes == Writers \cup Temps \cup {Original}
Processes == Writers \cup Readers

ASSUME LocalFileAssumption ==
  /\ Size \in [Contents -> Nat \ {0}]
  /\ PreservingCommits \subseteq {"link", "move"}
  /\ {None, Partial} \cap (Contents \cup Names \cup Inodes) = {}
  /\ None # Partial
  /\ Dest \notin Temps
  /\ Original \notin Writers \cup Temps
  /\ Writers \cap Readers = {}
  /\ Writers \cap Temps = {}

VARIABLES
  policy,     \* ExistingFilePolicy each writer was called with
  dir,        \* directory: name -> inode or None
  data,       \* inode -> content or Partial
  pc,         \* where each call is
  crashed,    \* the calls whose process died
  outcome,    \* what each call returned
  temp,       \* AtomicFileTransaction::temporary_ of each writer
  handle,     \* inode each call holds open
  measured,   \* the size ReadLocalFile obtained
  got,        \* what a successful read returned
  abandoned   \* history: names left behind by dead processes or failed removals

vars == <<policy, dir, data, pc, crashed, outcome, temp, handle, measured,
          got, abandoned>>

Exists(n) == dir[n] # None

(* How many bytes reading the data can deliver. *)
Bytes(d) == IF d = Partial THEN 0 ELSE Size[d]

Live(p) == pc[p] # "done" /\ p \notin crashed

At(p, l) == pc[p] = l /\ p \notin crashed

Goto(p, l) == pc' = [pc EXCEPT ![p] = l]

(* The call returns to its caller. *)
Return(p, o) ==
  /\ outcome' = [outcome EXCEPT ![p] = o]
  /\ Goto(p, "done")

(* The call has its result; the transaction's destructor still has to run. *)
Unwind(w, o) ==
  /\ outcome' = [outcome EXCEPT ![w] = o]
  /\ Goto(w, "cleanup")

-----------------------------------------------------------------------------

Init ==
  /\ policy \in [Writers -> {"preserve", "replace"}]
  /\ dir \in {d \in [Names -> Inodes \cup {None}] :
                /\ d[Dest] \in {None, Original}
                /\ \A t \in Temps : d[t] \in {None, t}}
  /\ data = [i \in Inodes |-> IF i = Original THEN Original ELSE Partial]
  /\ pc = [p \in Processes |-> "idle"]
  /\ crashed = {}
  /\ outcome = [p \in Processes |-> "none"]
  /\ temp = [w \in Writers |-> None]
  /\ handle = [p \in Processes |-> None]
  /\ measured = [r \in Readers |-> 0]
  /\ got = [r \in Readers |-> None]
  /\ abandoned = {t \in Temps : Exists(t)}

(* PrepareAtomicFile: the existence check comes first, and a destination   *)
(* that exists ends a preserving write before anything is written.         *)
ProbeDestination(w) ==
  /\ At(w, "idle")
  /\ \/ Return(w, "kWriteFailed")
     \/ /\ Exists(Dest) /\ policy[w] = "preserve"
        /\ Return(w, "kDestinationExists")
     \/ /\ ~(Exists(Dest) /\ policy[w] = "preserve")
        /\ Goto(w, "probed")
        /\ UNCHANGED outcome
  /\ UNCHANGED <<policy, dir, data, crashed, temp, handle, measured, got,
                 abandoned>>

(* Mutation: the candidate's existence is not asked. *)
AnyTemporary(t) == TRUE

FreeTemporary(t) == ~Exists(t)

(* AvailableTemporaryPath: up to sixteen random names, the first that does *)
(* not exist.  Two calls under way never draw the same 64-bit suffix.      *)
ChooseTemporary(w) ==
  /\ At(w, "probed")
  /\ \/ /\ Return(w, "kTemporaryPathFailed")
        /\ UNCHANGED temp
     \/ \E t \in Temps :
          /\ FreeTemporary(t)
          /\ \A v \in Writers : Live(v) => temp[v] # t
          /\ temp' = [temp EXCEPT ![w] = t]
          /\ Goto(w, "prepared")
          /\ UNCHANGED outcome
  /\ UNCHANGED <<policy, dir, data, crashed, handle, measured, got, abandoned>>

(* The output stream opens the temporary name, creating or truncating it. *)
OpenTemporary(w) ==
  LET inode == IF Exists(temp[w]) THEN dir[temp[w]] ELSE w IN
  /\ At(w, "prepared")
  /\ \/ /\ Unwind(w, "kWriteFailed")
        /\ UNCHANGED <<dir, data, handle>>
     \/ /\ dir' = [dir EXCEPT ![temp[w]] = inode]
        /\ data' = [data EXCEPT ![inode] = Partial]
        /\ handle' = [handle EXCEPT ![w] = inode]
        /\ Goto(w, "opened")
        /\ UNCHANGED outcome
  /\ UNCHANGED <<policy, crashed, temp, measured, got, abandoned>>

(* Mutation: the stream's error is not looked at before the commit. *)
WriteTemporaryUnchecked(w) ==
  /\ At(w, "opened")
  /\ handle' = [handle EXCEPT ![w] = None]
  /\ data' \in {data, [data EXCEPT ![handle[w]] = w]}
  /\ Goto(w, "written")
  /\ UNCHANGED <<policy, dir, crashed, outcome, temp, measured, got, abandoned>>

(* The content is written and the stream closed; either may fail. *)
WriteTemporary(w) ==
  /\ At(w, "opened")
  /\ handle' = [handle EXCEPT ![w] = None]
  /\ \/ /\ Unwind(w, "kWriteFailed")
        /\ UNCHANGED data
     \/ /\ data' = [data EXCEPT ![handle[w]] = w]
        /\ Goto(w, "written")
        /\ UNCHANGED outcome
  /\ UNCHANGED <<policy, dir, crashed, temp, measured, got, abandoned>>

(* The temporary name becomes the destination in one filesystem step; the *)
(* transaction forgets it, so its destructor removes nothing.             *)
Move(w) ==
  /\ dir' = [dir EXCEPT ![Dest] = dir[temp[w]], ![temp[w]] = None]
  /\ temp' = [temp EXCEPT ![w] = None]
  /\ Return(w, "ok")

(* Mutation: the temporary name is cleared before the error is looked at. *)
CommitFailsForgetting(w) ==
  /\ temp' = [temp EXCEPT ![w] = None]
  /\ Return(w, "kCommitFailed")
  /\ UNCHANGED dir

CommitFails(w) ==
  /\ Unwind(w, "kCommitFailed")
  /\ UNCHANGED <<dir, temp>>

(* CommitTemporaryFile under kReplace: rename. *)
CommitReplace(w) ==
  /\ At(w, "written") /\ policy[w] = "replace"
  /\ \/ CommitFails(w)
     \/ Exists(temp[w]) /\ Move(w)
  /\ UNCHANGED <<policy, data, crashed, handle, measured, got, abandoned>>

(* CommitTemporaryFile under kPreserve: the filesystem refuses a name that *)
(* exists, and Commit tells that refusal from the other errors.            *)
CommitPreserve(w) ==
  /\ At(w, "written") /\ policy[w] = "preserve"
  /\ \/ /\ Exists(Dest)
        /\ Unwind(w, "kDestinationExists")
        /\ UNCHANGED <<dir, temp>>
     \/ CommitFails(w)
     \/ /\ ~Exists(Dest) /\ Exists(temp[w])
        /\ \/ /\ "link" \in PreservingCommits
              /\ dir' = [dir EXCEPT ![Dest] = dir[temp[w]]]
              /\ Goto(w, "linked")
              /\ UNCHANGED <<outcome, temp>>
           \/ "move" \in PreservingCommits /\ Move(w)
  /\ UNCHANGED <<policy, data, crashed, handle, measured, got, abandoned>>

(* remove(temporary), its error ignored. *)
RemoveTemporary(w) ==
  \/ /\ dir' = [dir EXCEPT ![temp[w]] = None]
     /\ UNCHANGED abandoned
  \/ /\ Exists(temp[w])
     /\ abandoned' = abandoned \cup {temp[w]}
     /\ UNCHANGED dir

(* Mutation: the removal's error is returned, though the file is published. *)
UnlinkTemporaryReporting(w) ==
  /\ At(w, "linked")
  /\ RemoveTemporary(w)
  /\ temp' = [temp EXCEPT ![w] = None]
  /\ Return(w, IF Exists(temp[w]) /\ UNCHANGED dir THEN "kCommitFailed" ELSE "ok")
  /\ UNCHANGED <<policy, data, crashed, handle, measured, got>>

(* After the link, CommitTemporaryFile removes the temporary name. *)
UnlinkTemporary(w) ==
  /\ At(w, "linked")
  /\ RemoveTemporary(w)
  /\ temp' = [temp EXCEPT ![w] = None]
  /\ Return(w, "ok")
  /\ UNCHANGED <<policy, data, crashed, handle, measured, got>>

(* ~AtomicFileTransaction after a failure. *)
DestroyTransaction(w) ==
  /\ At(w, "cleanup")
  /\ RemoveTemporary(w)
  /\ Goto(w, "done")
  /\ UNCHANGED <<policy, data, crashed, outcome, temp, handle, measured, got>>

-----------------------------------------------------------------------------

(* ReadLocalFile: the stream is opened first ... *)
OpenSource(r) ==
  /\ At(r, "idle")
  /\ \/ /\ Return(r, "kOpenFailed")
        /\ UNCHANGED handle
     \/ /\ Exists(Dest)
        /\ handle' = [handle EXCEPT ![r] = dir[Dest]]
        /\ Goto(r, "opened")
        /\ UNCHANGED outcome
  /\ UNCHANGED <<policy, dir, data, crashed, temp, measured, got, abandoned>>

(* ... the size is then asked of the path, not of the stream ... *)
MeasureSource(r) ==
  /\ At(r, "opened")
  /\ \/ /\ Return(r, "kReadFailed")
        /\ UNCHANGED measured
     \/ /\ Exists(Dest)
        /\ measured' = [measured EXCEPT ![r] = Bytes(data[dir[Dest]])]
        /\ Goto(r, "measured")
        /\ UNCHANGED outcome
  /\ UNCHANGED <<policy, dir, data, crashed, temp, handle, got, abandoned>>

(* ... and that many bytes are read from the stream: fewer is a failure. *)
ReadBytes(r) ==
  LET content == data[handle[r]] IN
  /\ At(r, "measured")
  /\ \/ /\ Return(r, "kReadFailed")
        /\ UNCHANGED got
     \/ /\ measured[r] <= Bytes(content)
        /\ got' = [got EXCEPT ![r] = [of |-> content, bytes |-> measured[r]]]
        /\ Return(r, "ok")
  /\ UNCHANGED <<policy, dir, data, crashed, temp, handle, measured, abandoned>>

(* The process of a call under way dies: no destructor runs. *)
Crash(p) ==
  /\ Live(p) /\ pc[p] # "idle"
  /\ crashed' = crashed \cup {p}
  /\ abandoned' = IF p \in Writers /\ temp[p] \in Temps
                  THEN abandoned \cup {temp[p]} ELSE abandoned
  /\ UNCHANGED <<policy, dir, data, pc, outcome, temp, handle, measured, got>>

WriterStep(w) ==
  \/ ProbeDestination(w)
  \/ ChooseTemporary(w)
  \/ OpenTemporary(w)
  \/ WriteTemporary(w)
  \/ CommitReplace(w)
  \/ CommitPreserve(w)
  \/ UnlinkTemporary(w)
  \/ DestroyTransaction(w)

ReaderStep(r) ==
  \/ OpenSource(r)
  \/ MeasureSource(r)
  \/ ReadBytes(r)

Next ==
  \/ \E w \in Writers : WriterStep(w)
  \/ \E r \in Readers : ReaderStep(r)
  \/ \E p \in Processes : Crash(p)

Spec == Init /\ [][Next]_vars

-----------------------------------------------------------------------------

Labels == {"idle", "probed", "prepared", "opened", "written", "linked",
           "cleanup", "measured", "done"}

Outcomes == {"none", "ok", "kOpenFailed", "kReadFailed",
             "kTemporaryPathFailed", "kDestinationExists", "kWriteFailed",
             "kCommitFailed"}

(* Every variable has its type. (AtomicFileTransaction and the locals of   *)
(* ReadLocalFile and WriteLocalFileAtomically)                             *)
TypeOK ==
  /\ policy \in [Writers -> {"preserve", "replace"}]
  /\ dir \in [Names -> Inodes \cup {None}]
  /\ data \in [Inodes -> Contents \cup {Partial}]
  /\ pc \in [Processes -> Labels]
  /\ crashed \subseteq Processes
  /\ outcome \in [Processes -> Outcomes]
  /\ temp \in [Writers -> Temps \cup {None}]
  /\ handle \in [Processes -> Inodes \cup {None}]
  /\ measured \in [Readers -> Nat]
  /\ got \in [Readers -> [of : Contents \cup {Partial}, bytes : Nat] \cup {None}]
  /\ abandoned \subseteq Temps

(* The destination is never a half-written file, whatever dies and whoever *)
(* else writes: it is absent or it holds one complete content.             *)
(* (WriteLocalFileAtomically writes the sibling and commits it last.)      *)
DestinationIsWhole == Exists(Dest) => data[dir[Dest]] \in Contents

(* A file at the destination is replaced only by a commit under kReplace:  *)
(* a preserving write that saw no destination and loses the race leaves    *)
(* the winner's file alone. ("kPreserve: Fails without changing an         *)
(* existing destination.")                                                 *)
PreserveNeverReplaces ==
  [][Exists(Dest) /\ dir'[Dest] # dir[Dest] =>
       \E w \in Writers : /\ policy[w] = "replace"
                          /\ pc[w] = "written" /\ outcome'[w] = "ok"]_vars

(* A temporary sibling that exists is in the hands of a call under way, or *)
(* was left by a process that died or by a removal the filesystem refused: *)
(* no path through the code, successful or not, forgets one.               *)
TemporariesAreReclaimed ==
  \A t \in Temps :
    Exists(t) => t \in abandoned \/ \E w \in Writers : Live(w) /\ temp[w] = t

(* A read that succeeds returns bytes of one complete content, and, while  *)
(* the file it opened is still the destination, all of them.               *)
(* (ReadLocalFile against concurrent commits.)                             *)
ReadsPublishedContent ==
  \A r \in Readers :
    outcome[r] = "ok" =>
      /\ got[r].of \in Contents
      /\ dir[Dest] = handle[r] => got[r].bytes = Bytes(got[r].of)

(* The strengthening under which the above are inductive: the calls under  *)
(* way have a temporary name each, nobody else touches it, and the inode a *)
(* writer fills is not reachable from the destination before the commit.   *)
NamesAreHeld ==
  \A w \in Writers :
    /\ pc[w] \in {"prepared", "opened", "written", "linked", "cleanup"} =>
         temp[w] \in Temps
    /\ pc[w] \in {"idle", "probed"} => temp[w] \notin Temps
    /\ At(w, "prepared") => ~Exists(temp[w])
    /\ \A v \in Writers :
         v # w /\ Live(v) /\ Live(w) /\ temp[w] \in Temps => temp[v] # temp[w]

InodesArePrivate ==
  \A w \in Writers :
    /\ pc[w] \in {"idle", "probed", "prepared"} => \A n \in Names : dir[n] # w
    /\ pc[w] \in {"opened", "written"} => dir[Dest] # w
    /\ At(w, "opened") => handle[w] = w
    /\ At(w, "opened") \/ At(w, "written") => dir[temp[w]] = w
    /\ At(w, "written") => data[w] = w

DestinationIsCommitted ==
  /\ data[Original] = Original
  /\ dir[Dest] \in Writers \cup {Original, None}
  /\ dir[Dest] \in Writers => /\ data[dir[Dest]] = dir[Dest]
                              /\ pc[dir[Dest]] \in {"linked", "done"}

HandleIsCommitted(r) ==
  pc[r] \in {"opened", "measured"} \/ outcome[r] = "ok" =>
    /\ handle[r] \in Contents
    /\ data[handle[r]] = handle[r]
    /\ handle[r] \in Writers => pc[handle[r]] \in {"linked", "done"}
    /\ pc[r] = "measured" /\ dir[Dest] = handle[r] =>
         measured[r] = Bytes(handle[r])
    /\ outcome[r] = "ok" =>
         /\ got[r].of = handle[r]
         /\ dir[Dest] = handle[r] => got[r].bytes = Bytes(handle[r])

HandlesAreCommitted == \A r \in Readers : HandleIsCommitted(r)

ResultsFitTheEnd ==
  \A p \in Processes :
    /\ outcome[p] = "none" <=> pc[p] \notin {"cleanup", "done"}
    /\ outcome[p] = "ok" => pc[p] = "done"

IInv ==
  /\ TypeOK
  /\ NamesAreHeld
  /\ InodesArePrivate
  /\ DestinationIsCommitted
  /\ HandlesAreCommitted
  /\ ResultsFitTheEnd
  /\ TemporariesAreReclaimed

(* local_file.hpp promises "Complete local-file bytes or a structured      *)
(* failure" of every read.                                                 *)
ReadsAreComplete ==
  \A r \in Readers :
    outcome[r] = "ok" => got[r].bytes = Bytes(got[r].of)
=============================================================================
