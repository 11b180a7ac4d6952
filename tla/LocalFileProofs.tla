-------------------------- MODULE LocalFileProofs --------------------------
(***************************************************************************)
(* Theorems about the storage library, for any number of writers and       *)
(* readers, any names and either commit primitive.                         *)
(***************************************************************************)
EXTENDS LocalFileRefinement, TLAPS

LEMMA InitInvariant == Init => IInv
<1> USE LocalFileAssumption DEF Contents, Names, Inodes, Processes
<1> SUFFICES ASSUME Init PROVE IInv
    OBVIOUS
<1> USE DEF Init
<1>1. TypeOK
  BY DEF TypeOK, Labels, Outcomes, Exists
<1>2. NamesAreHeld
  BY DEF NamesAreHeld, At
<1>3. InodesArePrivate
  BY DEF InodesArePrivate, At
<1>4. DestinationIsCommitted
  BY DEF DestinationIsCommitted
<1>4a. HandlesAreCommitted
  BY DEF HandlesAreCommitted, HandleIsCommitted
<1>5. ResultsFitTheEnd
  BY DEF ResultsFitTheEnd
<1>6. TemporariesAreReclaimed
  BY DEF TemporariesAreReclaimed
<1> QED
  BY <1>1, <1>2, <1>3, <1>4, <1>4a, <1>5, <1>6 DEF IInv

LEMMA ProbeDestinationInvariant ==
  ASSUME IInv, NEW w \in Writers, ProbeDestination(w)
  PROVE  IInv'
<1> USE LocalFileAssumption DEF IInv, Contents, Names, Inodes, Processes, At,
        ProbeDestination, Return, Goto
<1>0. w \in Processes /\ w \in Inodes
  OBVIOUS
<1>1. TypeOK'
  BY DEF TypeOK, Labels, Outcomes, NamesAreHeld, Exists
<1>2. NamesAreHeld'
  BY DEF TypeOK, NamesAreHeld, Live, Exists
<1>3. InodesArePrivate'
  BY DEF TypeOK, NamesAreHeld, InodesArePrivate, Live, Exists
<1>4. DestinationIsCommitted'
  BY DEF TypeOK, NamesAreHeld, InodesArePrivate, DestinationIsCommitted, Exists
<1>4a. HandlesAreCommitted'
  BY DEF TypeOK, NamesAreHeld, InodesArePrivate, DestinationIsCommitted,
         HandlesAreCommitted, HandleIsCommitted, Exists, Bytes
<1>5. ResultsFitTheEnd'
  BY DEF TypeOK, ResultsFitTheEnd
<1>6. TemporariesAreReclaimed'
  <2> SUFFICES ASSUME NEW t \in Temps, Exists(t)', t \notin abandoned'
               PROVE  \E v \in Writers : Live(v)' /\ temp'[v] = t
      BY DEF TemporariesAreReclaimed
  <2>1. PICK v \in Writers : Live(v) /\ temp[v] = t
    BY DEF TemporariesAreReclaimed, Exists
  <2>2. CASE v # w
    BY <2>1, <2>2 DEF TypeOK, Live
  <2>3. CASE v = w
    <3>1. temp[w] \notin Temps
      BY DEF NamesAreHeld
    <3> QED
      BY <2>1, <2>3, <3>1
  <2> QED
    BY <2>1, <2>2, <2>3
<1> QED
  BY <1>1, <1>2, <1>3, <1>4, <1>4a, <1>5, <1>6

LEMMA ChooseTemporaryInvariant ==
  ASSUME IInv, NEW w \in Writers, ChooseTemporary(w)
  PROVE  IInv'
<1> USE LocalFileAssumption DEF IInv, Contents, Names, Inodes, Processes, At,
        ChooseTemporary, FreeTemporary, Return, Goto
<1>0. w \in Processes /\ w \in Inodes
  OBVIOUS
<1>1. TypeOK'
  BY DEF TypeOK, Labels, Outcomes, NamesAreHeld, Exists
<1>2. NamesAreHeld'
  BY DEF TypeOK, NamesAreHeld, Live, Exists
<1>3. InodesArePrivate'
  BY DEF TypeOK, NamesAreHeld, InodesArePrivate, Live, Exists
<1>4. DestinationIsCommitted'
  BY DEF TypeOK, NamesAreHeld, InodesArePrivate, DestinationIsCommitted, Exists
<1>4a. HandlesAreCommitted'
  BY DEF TypeOK, NamesAreHeld, InodesArePrivate, DestinationIsCommitted,
         HandlesAreCommitted, HandleIsCommitted, Exists, Bytes
<1>5. ResultsFitTheEnd'
  BY DEF TypeOK, ResultsFitTheEnd
<1>6. TemporariesAreReclaimed'
  <2> SUFFICES ASSUME NEW t \in Temps, Exists(t)', t \notin abandoned'
               PROVE  \E v \in Writers : Live(v)' /\ temp'[v] = t
      BY DEF TemporariesAreReclaimed
  <2>1. PICK v \in Writers : Live(v) /\ temp[v] = t
    BY DEF TemporariesAreReclaimed, Exists
  <2>2. CASE v # w
    BY <2>1, <2>2 DEF TypeOK, Live
  <2>3. CASE v = w
    <3>1. temp[w] \notin Temps
      BY DEF NamesAreHeld
    <3> QED
      BY <2>1, <2>3, <3>1
  <2> QED
    BY <2>1, <2>2, <2>3
<1> QED
  BY <1>1, <1>2, <1>3, <1>4, <1>4a, <1>5, <1>6

LEMMA OpenTemporaryInvariant ==
  ASSUME IInv, NEW w \in Writers, OpenTemporary(w)
  PROVE  IInv'
<1> USE LocalFileAssumption DEF IInv, Contents, Names, Inodes, Processes, At,
        OpenTemporary, Unwind, Goto
<1>0. w \in Processes /\ w \in Inodes
  OBVIOUS
<1>1. TypeOK'
  BY DEF TypeOK, Labels, Outcomes, NamesAreHeld, Exists
<1>2. NamesAreHeld'
  BY DEF TypeOK, NamesAreHeld, Live, Exists
<1>3. InodesArePrivate'
  BY DEF TypeOK, NamesAreHeld, InodesArePrivate, Live, Exists
<1>4. DestinationIsCommitted'
  BY DEF TypeOK, NamesAreHeld, InodesArePrivate, DestinationIsCommitted, Exists
<1>4a. HandlesAreCommitted'
  BY DEF TypeOK, NamesAreHeld, InodesArePrivate, DestinationIsCommitted,
         HandlesAreCommitted, HandleIsCommitted, Exists, Bytes
<1>5. ResultsFitTheEnd'
  BY DEF TypeOK, ResultsFitTheEnd
<1>6. TemporariesAreReclaimed'
  BY DEF TypeOK, NamesAreHeld, InodesArePrivate, TemporariesAreReclaimed, Live,
         Exists
<1> QED
  BY <1>1, <1>2, <1>3, <1>4, <1>4a, <1>5, <1>6

LEMMA WriteTemporaryInvariant ==
  ASSUME IInv, NEW w \in Writers, WriteTemporary(w)
  PROVE  IInv'
<1> USE LocalFileAssumption DEF IInv, Contents, Names, Inodes, Processes, At,
        WriteTemporary, Unwind, Goto
<1>0. w \in Processes /\ w \in Inodes
  OBVIOUS
<1>1. TypeOK'
  BY DEF TypeOK, Labels, Outcomes, NamesAreHeld, Exists
<1>2. NamesAreHeld'
  BY DEF TypeOK, NamesAreHeld, Live, Exists
<1>3. InodesArePrivate'
  BY DEF TypeOK, NamesAreHeld, InodesArePrivate, Live, Exists
<1>4. DestinationIsCommitted'
  BY DEF TypeOK, NamesAreHeld, InodesArePrivate, DestinationIsCommitted, Exists
<1>4a. HandlesAreCommitted'
  BY DEF TypeOK, NamesAreHeld, InodesArePrivate, DestinationIsCommitted,
         HandlesAreCommitted, HandleIsCommitted, Exists, Bytes
<1>5. ResultsFitTheEnd'
  BY DEF TypeOK, ResultsFitTheEnd
<1>6. TemporariesAreReclaimed'
  BY DEF TypeOK, NamesAreHeld, InodesArePrivate, TemporariesAreReclaimed, Live,
         Exists
<1> QED
  BY <1>1, <1>2, <1>3, <1>4, <1>4a, <1>5, <1>6

LEMMA CommitReplaceInvariant ==
  ASSUME IInv, NEW w \in Writers, CommitReplace(w)
  PROVE  IInv'
<1> USE LocalFileAssumption DEF IInv, Contents, Names, Inodes, Processes, At,
        CommitReplace, CommitFails, Unwind, Goto, Move, Return
<1>0. w \in Processes /\ w \in Inodes
  OBVIOUS
<1>1. TypeOK'
  BY DEF TypeOK, Labels, Outcomes, NamesAreHeld, Exists
<1>2. NamesAreHeld'
  BY DEF TypeOK, NamesAreHeld, Live, Exists
<1>3. InodesArePrivate'
  BY DEF TypeOK, NamesAreHeld, InodesArePrivate, Live, Exists
<1>4. DestinationIsCommitted'
  BY DEF TypeOK, NamesAreHeld, InodesArePrivate, DestinationIsCommitted, Exists
<1>4a. HandlesAreCommitted'
  BY DEF TypeOK, NamesAreHeld, InodesArePrivate, DestinationIsCommitted,
         HandlesAreCommitted, HandleIsCommitted, Exists, Bytes
<1>5. ResultsFitTheEnd'
  BY DEF TypeOK, ResultsFitTheEnd
<1>6. TemporariesAreReclaimed'
  BY DEF TypeOK, NamesAreHeld, InodesArePrivate, TemporariesAreReclaimed, Live,
         Exists
<1> QED
  BY <1>1, <1>2, <1>3, <1>4, <1>4a, <1>5, <1>6

LEMMA CommitPreserveInvariant ==
  ASSUME IInv, NEW w \in Writers, CommitPreserve(w)
  PROVE  IInv'
<1> USE LocalFileAssumption DEF IInv, Contents, Names, Inodes, Processes, At,
        CommitPreserve, CommitFails, Unwind, Goto, Move, Return
<1>0. w \in Processes /\ w \in Inodes
  OBVIOUS
<1>1. TypeOK'
  BY DEF TypeOK, Labels, Outcomes, NamesAreHeld, Exists
<1>2. NamesAreHeld'
  BY DEF TypeOK, NamesAreHeld, Live, Exists
<1>3. InodesArePrivate'
  BY DEF TypeOK, NamesAreHeld, InodesArePrivate, Live, Exists
<1>4. DestinationIsCommitted'
  BY DEF TypeOK, NamesAreHeld, InodesArePrivate, DestinationIsCommitted, Exists
<1>4a. HandlesAreCommitted'
  BY DEF TypeOK, NamesAreHeld, InodesArePrivate, DestinationIsCommitted,
         HandlesAreCommitted, HandleIsCommitted, Exists, Bytes
<1>5. ResultsFitTheEnd'
  BY DEF TypeOK, ResultsFitTheEnd
<1>6. TemporariesAreReclaimed'
  BY DEF TypeOK, NamesAreHeld, InodesArePrivate, TemporariesAreReclaimed, Live,
         Exists
<1> QED
  BY <1>1, <1>2, <1>3, <1>4, <1>4a, <1>5, <1>6

LEMMA UnlinkTemporaryInvariant ==
  ASSUME IInv, NEW w \in Writers, UnlinkTemporary(w)
  PROVE  IInv'
<1> USE LocalFileAssumption DEF IInv, Contents, Names, Inodes, Processes, At,
        UnlinkTemporary, RemoveTemporary, Return, Goto
<1>0. w \in Processes /\ w \in Inodes
  OBVIOUS
<1>1. TypeOK'
  BY DEF TypeOK, Labels, Outcomes, NamesAreHeld, Exists
<1>2. NamesAreHeld'
  BY DEF TypeOK, NamesAreHeld, Live, Exists
<1>3. InodesArePrivate'
  BY DEF TypeOK, NamesAreHeld, InodesArePrivate, Live, Exists
<1>4. DestinationIsCommitted'
  BY DEF TypeOK, NamesAreHeld, InodesArePrivate, DestinationIsCommitted, Exists
<1>4a. HandlesAreCommitted'
  BY DEF TypeOK, NamesAreHeld, InodesArePrivate, DestinationIsCommitted,
         HandlesAreCommitted, HandleIsCommitted, Exists, Bytes
<1>5. ResultsFitTheEnd'
  BY DEF TypeOK, ResultsFitTheEnd
<1>6. TemporariesAreReclaimed'
  <2> SUFFICES ASSUME NEW t \in Temps, Exists(t)', t \notin abandoned'
               PROVE  \E v \in Writers : Live(v)' /\ temp'[v] = t
      BY DEF TemporariesAreReclaimed
  <2>1. temp[w] \in Temps /\ t # temp[w]
    BY DEF TypeOK, NamesAreHeld, Exists
  <2>2. Exists(t) /\ t \notin abandoned
    BY <2>1 DEF TypeOK, Exists, InodesArePrivate
  <2>3. PICK v \in Writers : Live(v) /\ temp[v] = t
    BY <2>2 DEF TemporariesAreReclaimed
  <2> QED
    BY <2>1, <2>3 DEF TypeOK, Live
<1> QED
  BY <1>1, <1>2, <1>3, <1>4, <1>4a, <1>5, <1>6

LEMMA DestroyTransactionInvariant ==
  ASSUME IInv, NEW w \in Writers, DestroyTransaction(w)
  PROVE  IInv'
<1> USE LocalFileAssumption DEF IInv, Contents, Names, Inodes, Processes, At,
        DestroyTransaction, RemoveTemporary, Goto
<1>0. w \in Processes /\ w \in Inodes
  OBVIOUS
<1>1. TypeOK'
  BY DEF TypeOK, Labels, Outcomes, NamesAreHeld, Exists
<1>2. NamesAreHeld'
  BY DEF TypeOK, NamesAreHeld, Live, Exists
<1>3. InodesArePrivate'
  BY DEF TypeOK, NamesAreHeld, InodesArePrivate, Live, Exists
<1>4. DestinationIsCommitted'
  BY DEF TypeOK, NamesAreHeld, InodesArePrivate, DestinationIsCommitted, Exists
<1>4a. HandlesAreCommitted'
  BY DEF TypeOK, NamesAreHeld, InodesArePrivate, DestinationIsCommitted,
         HandlesAreCommitted, HandleIsCommitted, Exists, Bytes
<1>5. ResultsFitTheEnd'
  BY DEF TypeOK, ResultsFitTheEnd
<1>6. TemporariesAreReclaimed'
  <2> SUFFICES ASSUME NEW t \in Temps, Exists(t)', t \notin abandoned'
               PROVE  \E v \in Writers : Live(v)' /\ temp'[v] = t
      BY DEF TemporariesAreReclaimed
  <2>1. temp[w] \in Temps /\ t # temp[w]
    BY DEF TypeOK, NamesAreHeld, Exists
  <2>2. PICK v \in Writers : Live(v) /\ temp[v] = t
    BY <2>1 DEF TypeOK, TemporariesAreReclaimed, Exists
  <2> QED
    BY <2>1, <2>2 DEF TypeOK, Live
<1> QED
  BY <1>1, <1>2, <1>3, <1>4, <1>4a, <1>5, <1>6

LEMMA ReaderStepInvariant ==
  ASSUME IInv, NEW r \in Readers, ReaderStep(r)
  PROVE  IInv'
<1> USE LocalFileAssumption DEF IInv, Contents, Names, Inodes, Processes, At,
        ReaderStep, OpenSource, MeasureSource, ReadBytes, Return, Goto
<1>0. r \in Processes /\ r \notin Writers
  OBVIOUS
<1>1. TypeOK'
  <2>1. CASE OpenSource(r)
    BY <2>1 DEF TypeOK, Labels, Outcomes, Exists
  <2>2. CASE MeasureSource(r)
    <3>1. Exists(Dest) => Bytes(data[dir[Dest]]) \in Nat
      BY DEF TypeOK, Exists, Bytes
    <3> QED
      BY <2>2, <3>1 DEF TypeOK, Labels, Outcomes
  <2>3. CASE ReadBytes(r)
    <3>1. data[handle[r]] \in Contents
      BY <2>3 DEF HandlesAreCommitted, HandleIsCommitted
    <3> QED
      BY <2>3, <3>1 DEF TypeOK, Labels, Outcomes
  <2> QED
    BY <2>1, <2>2, <2>3
<1>2. NamesAreHeld'
  BY <1>0 DEF TypeOK, NamesAreHeld, Live, Exists
<1>3. InodesArePrivate'
  BY <1>0 DEF TypeOK, InodesArePrivate
<1>4. DestinationIsCommitted'
  BY <1>0 DEF TypeOK, DestinationIsCommitted
<1>4a. HandlesAreCommitted'
  <2> SUFFICES ASSUME NEW q \in Readers
               PROVE  HandleIsCommitted(q)'
      BY DEF HandlesAreCommitted
  <2>1. CASE q # r
    BY <1>0, <2>1 DEF TypeOK, HandlesAreCommitted, HandleIsCommitted, Bytes
  <2>2. CASE q = r /\ OpenSource(r)
    BY <1>0, <2>2 DEF TypeOK, DestinationIsCommitted, HandlesAreCommitted,
       HandleIsCommitted,
       ResultsFitTheEnd, Exists, Bytes
  <2>3. CASE q = r /\ MeasureSource(r)
    BY <1>0, <2>3 DEF TypeOK, DestinationIsCommitted, HandlesAreCommitted,
       HandleIsCommitted,
       ResultsFitTheEnd, Exists, Bytes
  <2>4. CASE q = r /\ ReadBytes(r)
    BY <1>0, <2>4 DEF TypeOK, HandlesAreCommitted, HandleIsCommitted,
       ResultsFitTheEnd, Bytes
  <2> QED
    BY <2>1, <2>2, <2>3, <2>4
<1>5. ResultsFitTheEnd'
  BY <1>0 DEF TypeOK, ResultsFitTheEnd
<1>6. TemporariesAreReclaimed'
  BY <1>0 DEF TypeOK, TemporariesAreReclaimed, Live, Exists
<1> QED
  BY <1>1, <1>2, <1>3, <1>4, <1>4a, <1>5, <1>6

LEMMA CrashInvariant ==
  ASSUME IInv, NEW p \in Processes, Crash(p)
  PROVE  IInv'
<1> USE LocalFileAssumption DEF IInv, Crash
<1>1. TypeOK'
  BY DEF TypeOK
<1>2. NamesAreHeld'
  BY DEF NamesAreHeld, At, Live, Exists
<1>3. InodesArePrivate'
  BY DEF InodesArePrivate, At
<1>4. DestinationIsCommitted'
  BY DEF DestinationIsCommitted
<1>4a. HandlesAreCommitted'
  BY DEF HandlesAreCommitted, HandleIsCommitted, Bytes
<1>5. ResultsFitTheEnd'
  BY DEF ResultsFitTheEnd
<1>6. TemporariesAreReclaimed'
  BY DEF TypeOK, TemporariesAreReclaimed, Live, Exists
<1> QED
  BY <1>1, <1>2, <1>3, <1>4, <1>4a, <1>5, <1>6

LEMMA StutterInvariant == IInv /\ UNCHANGED vars => IInv'
  BY DEF IInv, TypeOK, NamesAreHeld, InodesArePrivate, DestinationIsCommitted,
         HandlesAreCommitted, HandleIsCommitted, ResultsFitTheEnd,
         TemporariesAreReclaimed, vars, At, Live, Exists

LEMMA NextInvariant == IInv /\ [Next]_vars => IInv'
<1> SUFFICES ASSUME IInv, [Next]_vars PROVE IInv'
    OBVIOUS
<1>1. ASSUME NEW w \in Writers, WriterStep(w) PROVE IInv'
  BY <1>1, ProbeDestinationInvariant, ChooseTemporaryInvariant,
     OpenTemporaryInvariant, WriteTemporaryInvariant, CommitReplaceInvariant,
     CommitPreserveInvariant, UnlinkTemporaryInvariant,
     DestroyTransactionInvariant DEF WriterStep
<1>2. ASSUME NEW r \in Readers, ReaderStep(r) PROVE IInv'
  BY <1>2, ReaderStepInvariant
<1>3. ASSUME NEW p \in Processes, Crash(p) PROVE IInv'
  BY <1>3, CrashInvariant
<1>4. CASE UNCHANGED vars
  BY <1>4, StutterInvariant
<1> QED
  BY <1>1, <1>2, <1>3, <1>4 DEF Next

THEOREM Invariance == Spec => []IInv
<1>1. Init => IInv
  BY InitInvariant
<1>2. IInv /\ [Next]_vars => IInv'
  BY NextInvariant
<1> QED
  BY <1>1, <1>2, PTL DEF Spec

(* Every variable keeps its type. (the locals of the transaction)          *)
THEOREM TypeCorrect == Spec => []TypeOK
<1>1. IInv => TypeOK
  BY DEF IInv
<1> QED
  BY <1>1, Invariance, PTL

(* The destination is never seen half-written, for any number of calls,    *)
(* crashes and failing filesystem operations. (WriteLocalFileAtomically)   *)
THEOREM DestinationWhole == Spec => []DestinationIsWhole
<1>1. IInv => DestinationIsWhole
  BY LocalFileAssumption DEF IInv, DestinationIsCommitted, DestinationIsWhole,
     Exists, Contents
<1> QED
  BY <1>1, Invariance, PTL

(* No path through the code forgets a temporary sibling.                   *)
(* (AtomicFileTransaction, CommitTemporaryFile)                            *)
THEOREM TemporariesReclaimed == Spec => []TemporariesAreReclaimed
<1>1. IInv => TemporariesAreReclaimed
  BY DEF IInv
<1> QED
  BY <1>1, Invariance, PTL

(* A successful read returns published bytes. (ReadLocalFile)              *)
THEOREM ReadsPublished == Spec => []ReadsPublishedContent
<1>1. IInv => ReadsPublishedContent
  BY DEF IInv, HandlesAreCommitted, HandleIsCommitted, ReadsPublishedContent,
     Bytes
<1> QED
  BY <1>1, Invariance, PTL

(* Only a commit under kReplace replaces a file. (ExistingFilePolicy)      *)
THEOREM PreserveSafe == Spec => PreserveNeverReplaces
<1> DEFINE Replaces ==
      Exists(Dest) /\ dir'[Dest] # dir[Dest] =>
        \E w \in Writers : /\ policy[w] = "replace"
                           /\ pc[w] = "written" /\ outcome'[w] = "ok"
<1>1. IInv /\ [Next]_vars => Replaces
  <2> SUFFICES ASSUME IInv, [Next]_vars PROVE Replaces
      OBVIOUS
  <2> USE LocalFileAssumption DEF IInv, Names, Processes, At
  <2>1. ASSUME NEW w \in Writers, WriterStep(w) PROVE Replaces
    <3>1. CASE CommitReplace(w)
      BY <3>1 DEF CommitReplace, CommitFails, Move, Return, Unwind, Goto, TypeOK
    <3>2. CASE ~CommitReplace(w)
      BY <2>1, <3>2 DEF WriterStep, ProbeDestination, ChooseTemporary,
         FreeTemporary, OpenTemporary, WriteTemporary, CommitPreserve,
         CommitFails, UnlinkTemporary,
         DestroyTransaction, RemoveTemporary, Move, Exists, TypeOK,
         NamesAreHeld
    <3> QED
      BY <3>1, <3>2
  <2>2. ASSUME NEW r \in Readers, ReaderStep(r) PROVE Replaces
    BY <2>2 DEF ReaderStep, OpenSource, MeasureSource, ReadBytes
  <2>3. ASSUME NEW p \in Processes, Crash(p) PROVE Replaces
    BY <2>3 DEF Crash
  <2>4. CASE UNCHANGED vars
    BY <2>4 DEF vars
  <2> QED
    BY <2>1, <2>2, <2>3, <2>4 DEF Next
<1> QED
  BY <1>1, Invariance, PTL DEF Spec, PreserveNeverReplaces
-----------------------------------------------------------------------------

(* Returning settles the call and nobody else's. *)
LEMMA ReturnSettles ==
  ASSUME TypeOK, NEW w \in Writers, NEW o \in Outcomes \ {"none"},
         crashed' = crashed, outcome' = [outcome EXCEPT ![w] = o]
  PROVE  Settled' = [Settled EXCEPT ![w] = IF o = "ok" THEN "ok" ELSE "failed"]
<1>1. \A v \in Writers : v # w => Settlement(v)' = Settlement(v)
  BY DEF TypeOK, Settlement, Processes
<1>2. Settlement(w)' = IF o = "ok" THEN "ok" ELSE "failed"
  BY DEF TypeOK, Settlement, Processes, Outcomes
<1> QED
  BY <1>1, <1>2 DEF Settled

LEMMA KeepsSettled ==
  ASSUME crashed' = crashed, outcome' = outcome
  PROVE  Settled' = Settled
  BY DEF Settled, Settlement

(* The published file and callers change only when a name is committed. *)
LEMMA KeepsFile ==
  ASSUME IInv, dir'[Dest] = dir[Dest],
         \/ data' = data
         \/ \E i \in Inodes : /\ i # dir[Dest]
                              /\ \E d : data' = [data EXCEPT ![i] = d]
  PROVE  PublishedFile' = PublishedFile
<1>1. CASE data' = data
  BY <1>1 DEF PublishedFile, Exists
<1>2. ASSUME NEW i \in Inodes, i # dir[Dest], NEW d,
             data' = [data EXCEPT ![i] = d]
      PROVE  PublishedFile' = PublishedFile
  BY <1>2, LocalFileAssumption
     DEF PublishedFile, Exists, IInv, TypeOK, DestinationIsCommitted
<1> QED
  BY <1>1, <1>2

(* A call that fails, or goes on, without touching the destination. *)
LEMMA InvisibleOrFails ==
  ASSUME IInv, NEW w \in Writers,
         pc[w] \notin {"linked", "cleanup", "done"}, w \notin crashed,
         policy' = policy, crashed' = crashed,
         PublishedFile' = PublishedFile,
         \E l \in Labels \ {"linked"} : pc' = [pc EXCEPT ![w] = l],
         \/ outcome' = outcome
         \/ \E o \in Outcomes \ {"none", "ok"} :
              outcome' = [outcome EXCEPT ![w] = o]
  PROVE  [Abstract!ANext]_(Abstract!avars)
<1> USE LocalFileAssumption DEF IInv
<1>0. w \in Processes /\ outcome[w] = "none"
  BY DEF Processes, ResultsFitTheEnd
<1>1. HasPublished' = HasPublished /\ w \notin HasPublished
  <2>1. outcome'[w] # "ok" /\ pc'[w] # "linked"
    BY <1>0 DEF TypeOK
  <2>2. \A v \in Writers \ {w} : pc'[v] = pc[v] /\ outcome'[v] = outcome[v]
    BY DEF TypeOK, Processes
  <2> QED
    BY <1>0, <2>1, <2>2 DEF HasPublished
<1>2. Settled[w] = "pending"
  BY <1>0 DEF Settled, Settlement
<1>3. CASE outcome' = outcome
  BY <1>1, <1>3, KeepsSettled DEF Abstract!avars
<1>4. ASSUME NEW o \in Outcomes \ {"none", "ok"},
             outcome' = [outcome EXCEPT ![w] = o]
      PROVE  Abstract!Settle(w)
  <2>1. Settled' = [Settled EXCEPT ![w] = "failed"]
    BY <1>4, ReturnSettles
  <2> QED
    BY <1>1, <1>2, <2>1 DEF Abstract!Settle
<1> QED
  BY <1>3, <1>4 DEF Abstract!ANext

(* A commit: the destination takes the writer's content. *)
LEMMA CommitPublishes ==
  ASSUME IInv, NEW w \in Writers, At(w, "written"),
         policy[w] = "preserve" => ~Exists(Dest),
         policy' = policy, crashed' = crashed, data' = data,
         dir'[Dest] = dir[temp[w]],
         \/ pc' = [pc EXCEPT ![w] = "linked"] /\ outcome' = outcome
         \/ /\ pc' = [pc EXCEPT ![w] = "done"]
            /\ outcome' = [outcome EXCEPT ![w] = "ok"]
  PROVE  Abstract!Publish(w)
<1> USE LocalFileAssumption DEF IInv, At
<1>0. w \in Processes /\ outcome[w] = "none"
  BY DEF Processes, ResultsFitTheEnd
<1>1. w \notin HasPublished /\ Settled[w] = "pending"
  BY <1>0 DEF HasPublished, Settled, Settlement
<1>2. HasPublished' = HasPublished \cup {w}
  <2>1. outcome'[w] = "ok" \/ pc'[w] = "linked"
    BY <1>0 DEF TypeOK
  <2>2. \A v \in Writers \ {w} : pc'[v] = pc[v] /\ outcome'[v] = outcome[v]
    BY DEF TypeOK, Processes
  <2> QED
    BY <2>1, <2>2 DEF HasPublished
<1>3. PublishedFile' = w
  BY DEF PublishedFile, Exists, InodesArePrivate, Inodes
<1>4. policy[w] = "preserve" => PublishedFile = None
  BY DEF PublishedFile
<1>5. \/ Settled' = Settled
      \/ Settled' = [Settled EXCEPT ![w] = "ok"]
  BY KeepsSettled, ReturnSettles DEF Outcomes
<1> QED
  BY <1>1, <1>2, <1>3, <1>4, <1>5 DEF Abstract!Publish

LEMMA WriterStepRefines ==
  ASSUME IInv, NEW w \in Writers, WriterStep(w)
  PROVE  [Abstract!ANext]_(Abstract!avars)
<1> USE LocalFileAssumption DEF IInv, At
<1>1. CASE ProbeDestination(w)
  <2>1. PublishedFile' = PublishedFile
    BY <1>1, KeepsFile DEF ProbeDestination
  <2> QED
    BY <1>1, <2>1, InvisibleOrFails
       DEF ProbeDestination, Return, Goto, Labels, Outcomes
<1>2. CASE ChooseTemporary(w)
  <2>1. PublishedFile' = PublishedFile
    BY <1>2, KeepsFile DEF ChooseTemporary, FreeTemporary
  <2> QED
    BY <1>2, <2>1, InvisibleOrFails
       DEF ChooseTemporary, FreeTemporary, Return, Goto, Labels, Outcomes
<1>3. CASE OpenTemporary(w)
  <2>1. w \in Inodes /\ temp[w] \in Temps /\ ~Exists(temp[w]) /\ dir[Dest] # w
    BY <1>3 DEF OpenTemporary, NamesAreHeld, InodesArePrivate, Inodes, Names
  <2>2. dir'[Dest] = dir[Dest]
    BY <1>3, <2>1 DEF OpenTemporary, TypeOK, Names
  <2>3. PublishedFile' = PublishedFile
    BY <1>3, <2>1, <2>2, KeepsFile DEF OpenTemporary
  <2> QED
    BY <1>3, <2>3, InvisibleOrFails
       DEF OpenTemporary, Unwind, Goto, Labels, Outcomes
<1>4. CASE WriteTemporary(w)
  <2>1. w \in Inodes /\ handle[w] = w /\ dir[Dest] # w
    BY <1>4 DEF WriteTemporary, InodesArePrivate, Inodes
  <2>2. PublishedFile' = PublishedFile
    BY <1>4, <2>1, KeepsFile DEF WriteTemporary
  <2> QED
    BY <1>4, <2>2, InvisibleOrFails
       DEF WriteTemporary, Unwind, Goto, Labels, Outcomes
<1>5. CASE CommitReplace(w)
  <2>1. CASE Move(w)
    <3>1. dir'[Dest] = dir[temp[w]]
      BY <1>5, <2>1
         DEF CommitReplace, CommitFails, Move, NamesAreHeld, TypeOK, Names
    <3> QED
      BY <1>5, <2>1, <3>1, CommitPublishes
         DEF CommitReplace, CommitFails, Move, Return, Goto, Abstract!ANext
  <2>2. CASE ~Move(w)
    <3>1. PublishedFile' = PublishedFile
      BY <1>5, <2>2, KeepsFile DEF CommitReplace, CommitFails
    <3> QED
      BY <1>5, <2>2, <3>1, InvisibleOrFails
         DEF CommitReplace, CommitFails, Unwind, Goto, Labels, Outcomes
  <2> QED
    BY <2>1, <2>2
<1>6. CASE CommitPreserve(w)
  <2>1. CASE /\ UNCHANGED <<dir, temp>>
             /\ Unwind(w, "kDestinationExists") \/ Unwind(w, "kCommitFailed")
    <3>1. PublishedFile' = PublishedFile
      BY <1>6, <2>1, KeepsFile DEF CommitPreserve
    <3> QED
      BY <1>6, <2>1, <3>1, InvisibleOrFails
         DEF CommitPreserve, CommitFails, Unwind, Goto, Labels, Outcomes
  <2>2. CASE /\ ~Exists(Dest)
             /\ \/ /\ dir' = [dir EXCEPT ![Dest] = dir[temp[w]]]
                   /\ Goto(w, "linked")
                   /\ UNCHANGED <<outcome, temp>>
                \/ Move(w)
    <3>1. dir'[Dest] = dir[temp[w]]
      BY <1>6, <2>2
         DEF CommitPreserve, CommitFails, Move, NamesAreHeld, TypeOK, Names
    <3> QED
      BY <1>6, <2>2, <3>1, CommitPublishes
         DEF CommitPreserve, CommitFails, Move, Return, Goto, Abstract!ANext
  <2> QED
    BY <1>6, <2>1, <2>2 DEF CommitPreserve, CommitFails
<1>7. CASE UnlinkTemporary(w)
  <2>1. temp[w] \in Temps /\ w \in Processes
    BY <1>7 DEF UnlinkTemporary, NamesAreHeld, Processes
  <2>2. PublishedFile' = PublishedFile
    <3>1. dir'[Dest] = dir[Dest]
      BY <1>7, <2>1 DEF UnlinkTemporary, RemoveTemporary, TypeOK, Names
    <3> QED
      BY <1>7, <3>1, KeepsFile DEF UnlinkTemporary
  <2>3. w \in HasPublished /\ HasPublished' = HasPublished
    BY <1>7, <2>1 DEF UnlinkTemporary, Return, Goto, HasPublished, TypeOK
  <2>4. Settled[w] = "pending" /\ Settled' = [Settled EXCEPT ![w] = "ok"]
    BY <1>7, <2>1, ReturnSettles DEF UnlinkTemporary, Return, Settled,
       Settlement, ResultsFitTheEnd, Outcomes
  <2> QED
    BY <1>7, <2>2, <2>3, <2>4
       DEF UnlinkTemporary, Abstract!ANext, Abstract!Settle
<1>8. CASE DestroyTransaction(w)
  <2>1. temp[w] \in Temps /\ w \in Processes
    BY <1>8 DEF DestroyTransaction, NamesAreHeld, Processes
  <2>2. PublishedFile' = PublishedFile
    <3>1. dir'[Dest] = dir[Dest]
      BY <1>8, <2>1 DEF DestroyTransaction, RemoveTemporary, TypeOK, Names
    <3> QED
      BY <1>8, <3>1, KeepsFile DEF DestroyTransaction
  <2>3. HasPublished' = HasPublished
    BY <1>8, <2>1 DEF DestroyTransaction, Goto, HasPublished, TypeOK
  <2> QED
    BY <1>8, <2>2, <2>3, KeepsSettled DEF DestroyTransaction, Abstract!avars
<1> QED
  BY <1>1, <1>2, <1>3, <1>4, <1>5, <1>6, <1>7, <1>8 DEF WriterStep

LEMMA ReaderStepRefines ==
  ASSUME IInv, NEW r \in Readers, ReaderStep(r)
  PROVE  UNCHANGED Abstract!avars
<1> USE LocalFileAssumption
    DEF IInv, ReaderStep, OpenSource, MeasureSource, ReadBytes, Return, Goto
<1>1. r \in Processes /\ r \notin Writers
  BY DEF Processes
<1>2. \A v \in Writers : v \in Processes /\ v # r
  BY DEF Processes
<1>3. PublishedFile' = PublishedFile
  BY KeepsFile
<1>4. \A v \in Writers : pc'[v] = pc[v] /\ outcome'[v] = outcome[v]
  BY <1>1, <1>2 DEF TypeOK
<1>5. HasPublished' = HasPublished
  BY <1>4 DEF HasPublished
<1>6. Settled' = Settled
  BY <1>4 DEF Settled, Settlement
<1> QED
  BY <1>3, <1>5, <1>6 DEF Abstract!avars

LEMMA CrashRefines ==
  ASSUME IInv, NEW p \in Processes, Crash(p)
  PROVE  [Abstract!ANext]_(Abstract!avars)
<1> USE LocalFileAssumption DEF IInv, Crash
<1>1. PublishedFile' = PublishedFile /\ HasPublished' = HasPublished
  BY KeepsFile DEF HasPublished
<1>2. CASE p \in Writers /\ outcome[p] = "none"
  <2>1. Settled[p] = "pending"
    BY <1>2 DEF Settled, Settlement, Live
  <2>2. \A v \in Writers : Settlement(v)' = IF v = p THEN "dead" ELSE Settlement(v)
    BY <1>2 DEF Settlement
  <2>3. Settled' = [Settled EXCEPT ![p] = "dead"]
    BY <2>2 DEF Settled
  <2> QED
    BY <1>1, <1>2, <2>1, <2>3 DEF Abstract!ANext, Abstract!Die
<1>3. CASE ~(p \in Writers /\ outcome[p] = "none")
  <2>1. \A v \in Writers : Settlement(v)' = Settlement(v)
    BY <1>3 DEF Settlement
  <2> QED
    BY <1>1, <2>1 DEF Settled, Abstract!avars
<1> QED
  BY <1>2, <1>3

(* Every behaviour of the library, for any number of calls, is a behaviour *)
(* of the contract in local_file.hpp. (the whole of local_file.cpp)        *)
THEOREM Refinement == Spec => ImplementsAtomicPublication
<1>1. Init => Abstract!AInit
  <2> SUFFICES ASSUME Init PROVE Abstract!AInit
      OBVIOUS
  <2>1. PublishedFile \in {None, Original}
    BY LocalFileAssumption DEF Init, PublishedFile, Exists, Names, Inodes
  <2>2. HasPublished = {}
    BY DEF Init, HasPublished, Processes
  <2>3. Settled = [w \in Writers |-> "pending"]
    BY DEF Init, Settled, Settlement, Processes
  <2> QED
    BY <2>1, <2>2, <2>3 DEF Init, Abstract!AInit
<1>2. IInv /\ [Next]_vars => [Abstract!ANext]_(Abstract!avars)
  <2> SUFFICES ASSUME IInv, [Next]_vars
               PROVE  [Abstract!ANext]_(Abstract!avars)
      OBVIOUS
  <2>1. CASE UNCHANGED vars
    BY <2>1 DEF vars, Abstract!avars, PublishedFile, HasPublished, Settled,
       Settlement, Exists
  <2> QED
    BY <2>1, WriterStepRefines, ReaderStepRefines, CrashRefines DEF Next
<1> QED
  BY <1>1, <1>2, Invariance, PTL
     DEF Spec, ImplementsAtomicPublication, Abstract!ASpec
=============================================================================
