----------------------- MODULE DocumentSessionProofs -----------------------
(***************************************************************************)
(* Theorems about one document window, for any documents, queries and      *)
(* projections and any number of exports.                                  *)
(***************************************************************************)
EXTENDS DocumentSession, FiniteSetTheorems, TLAPS

LEMMA SelectionSize ==
  ASSUME NEW s \in SUBSET Events
  PROVE  Cardinality(s) \in Nat
  BY DocumentSessionAssumption, FS_Subset, FS_CardinalityType

LEMMA NoEvents == <<>> \in Seq(GuiEvents)
  OBVIOUS

LEMMA InitInvariant == Init => IInv
<1> SUFFICES ASSUME Init PROVE IInv
    OBVIOUS
<1> USE DocumentSessionAssumption
    DEF Init, ImportRunning, ExportRunning, WorkflowBusy, IsBusy, NoImport,
        NoExport
<1>1. TypeOK
  <2>1. importTask \in ImportTasks
    BY DEF ImportTasks
  <2>2. exportTask \in ExportTasks
    BY DEF ExportTasks, ExportStates, Outcomes
  <2>3. queue \in Seq(GuiEvents)
    OBVIOUS
  <2>4. /\ docState \in {"kEmpty", "kImporting", "kReady", "kImportFailed"}
        /\ document \in Documents \cup {None}
        /\ failure \in Documents \cup {None}
        /\ query \in Queries /\ selection \in SUBSET Events
        /\ filterError \in BOOLEAN
    OBVIOUS
  <2>5. /\ projection \in Projections
        /\ exportState \in {"kIdle", "kExporting"}
        /\ exportResult \in ExportResults \cup {None}
        /\ extracted \in Nat /\ total \in Nat
    OBVIOUS
  <2>6. stopSource \in 0..MaxExports
    OBVIOUS
  <2>7. /\ stopped \subseteq Nat /\ cancelAsked \in BOOLEAN
        /\ window \in {"open", "closing", "closed"}
    OBVIOUS
  <2> HIDE DEF Init
  <2> QED
    BY <2>1, <2>2, <2>3, <2>4, <2>5, <2>6, <2>7 DEF TypeOK
<1>2. CompletionIsPending /\ TasksFitTheWindow
  BY DEF CompletionIsPending, TasksFitTheWindow
<1>3. SelectionMatchesQuery
  BY DEF SelectionMatchesQuery, Selected, Rejected
<1>4. StateMatchesDocument /\ ResultBelongsToDocument
  BY DEF StateMatchesDocument, ResultBelongsToDocument, CanExport
<1>5. CancelReachesItsExport /\ TokenIsCurrent
  BY DEF CancelReachesItsExport, TokenIsCurrent
<1> QED
  BY <1>1, <1>2, <1>3, <1>4, <1>5 DEF IInv

(* What the type of an event at the head of the queue says of the window. *)
LEMMA HeadOfQueue ==
  ASSUME IInv, window # "closed", queue # <<>>
  PROVE  /\ Head(queue) = queue[1] /\ Head(queue) \in GuiEvents
         /\ Len(queue) \in Nat \ {0}
         /\ Tail(queue) \in Seq(GuiEvents)
         /\ Len(Tail(queue)) = Len(queue) - 1
         /\ \A i \in 1..Len(queue) - 1 : Tail(queue)[i] = queue[i + 1]
         /\ Head(queue).type = "importFinished" =>
              docState = "kImporting" /\ ~ImportRunning /\ Len(queue) = 1
         /\ Head(queue).type # "importFinished" =>
              exportState = "kExporting" /\ docState # "kImporting"
         /\ Head(queue).type = "exportFinished" =>
              ~ExportRunning /\ Len(queue) = 1
         /\ Head(queue).type = "progress" => Len(queue) > 1 \/ ExportRunning
<1>1. queue \in Seq(GuiEvents)
  BY DEF IInv, TypeOK
<1>2. /\ Head(queue) = queue[1] /\ Head(queue) \in GuiEvents
      /\ Len(queue) \in Nat \ {0}
      /\ Tail(queue) \in Seq(GuiEvents)
      /\ Len(Tail(queue)) = Len(queue) - 1
      /\ \A i \in 1..Len(queue) - 1 : Tail(queue)[i] = queue[i + 1]
  BY <1>1
<1>3. docState = "kImporting" \/ exportState = "kExporting"
  BY DEF IInv, CompletionIsPending, IsBusy, WorkflowBusy, TasksFitTheWindow
<1>4. CASE docState = "kImporting"
  <2>1. ~ImportRunning /\ queue = << [type |-> "importFinished"] >>
    BY <1>4 DEF IInv, CompletionIsPending
  <2>2. queue[1].type = "importFinished" /\ Len(queue) = 1
    BY <2>1
  <2> QED
    BY <1>2, <1>4, <2>1, <2>2
<1>5. CASE docState # "kImporting"
  <2>1. \A i \in 1..Len(queue) :
          queue[i].type = IF i = Len(queue) /\ ~ExportRunning
                          THEN "exportFinished" ELSE "progress"
    BY <1>3, <1>5 DEF IInv, CompletionIsPending
  <2>3. queue[1].type = IF 1 = Len(queue) /\ ~ExportRunning
                        THEN "exportFinished" ELSE "progress"
    <3>1. 1 \in 1..Len(queue)
      BY <1>2
    <3> QED
      BY <2>1, <3>1
  <2>2. exportState = "kExporting"
    BY <1>3, <1>5
  <2> QED
    BY <1>2, <1>5, <2>2, <2>3
<1> QED
  BY <1>2, <1>4, <1>5

(* A command that is not refused as busy finds an empty queue: the watcher *)
(* it gives a new future has no event to forget.                           *)
LEMMA IdleQueue ==
  ASSUME IInv, window = "open", ~IsBusy, NEW type
  PROVE  queue = <<>> /\ Forget(type) = <<>>
<1>1. queue = <<>>
  BY DEF IInv, CompletionIsPending
<1> QED
  BY <1>1 DEF Forget

LEMMA ImportInvariant ==
  ASSUME IInv, NEW path \in Documents, Import(path)
  PROVE  IInv'
<1> USE DocumentSessionAssumption
    DEF IInv, Import, ResetDocument, ForgetFailure, ForgetResult,
        ResetCounts, docVars,
        filterVars, countVars, exportVars, stopVars, ImportRunning,
        ExportRunning, WorkflowBusy, IsBusy
<1>0. queue' = <<>>
  BY IdleQueue
<1>1. TypeOK'
  <2>1. importTask' \in ImportTasks
    BY DEF ImportTasks
  <2>2. queue' \in Seq(GuiEvents)
    BY <1>0, NoEvents
  <2> QED
    BY <2>1, <2>2 DEF TypeOK
<1>2. CompletionIsPending'
  BY <1>0 DEF TypeOK, CompletionIsPending, TasksFitTheWindow
<1>3. SelectionMatchesQuery'
  BY DEF TypeOK, SelectionMatchesQuery, Selected, Rejected, FilterFails
<1>4. StateMatchesDocument'
  BY DEF TypeOK, StateMatchesDocument, CanExport, TasksFitTheWindow
<1>5. ResultBelongsToDocument'
  BY DEF TypeOK, ResultBelongsToDocument, TasksFitTheWindow,
         StateMatchesDocument
<1>6. CancelReachesItsExport'
  BY DEF TypeOK, CancelReachesItsExport, TokenIsCurrent
<1>7. TasksFitTheWindow'
  BY DEF TypeOK, TasksFitTheWindow, CompletionIsPending, StateMatchesDocument
<1>8. TokenIsCurrent'
  BY DEF TypeOK, TokenIsCurrent
<1> QED
  BY <1>1, <1>2, <1>3, <1>4, <1>5, <1>6, <1>7, <1>8

LEMMA ClearInvariant ==
  ASSUME IInv, Clear
  PROVE  IInv'
<1> USE DocumentSessionAssumption
    DEF IInv, Clear, ResetDocument, ForgetFailure, ForgetResult,
        ResetCounts, docVars,
        filterVars, countVars, exportVars, stopVars, ImportRunning,
        ExportRunning, WorkflowBusy, IsBusy
<1>1. TypeOK'
  BY DEF TypeOK, Selected, Rejected, FilterFails, ExportTasks, ExportResults,
         Outcomes
<1>2. CompletionIsPending'
  BY DEF TypeOK, CompletionIsPending, TasksFitTheWindow
<1>3. SelectionMatchesQuery'
  BY DEF TypeOK, SelectionMatchesQuery, Selected, Rejected, FilterFails
<1>4. StateMatchesDocument'
  BY DEF TypeOK, StateMatchesDocument, CanExport, TasksFitTheWindow
<1>5. ResultBelongsToDocument'
  BY DEF TypeOK, ResultBelongsToDocument, TasksFitTheWindow,
         StateMatchesDocument
<1>6. CancelReachesItsExport'
  BY DEF TypeOK, CancelReachesItsExport, TokenIsCurrent
<1>7. TasksFitTheWindow'
  BY DEF TypeOK, TasksFitTheWindow, CompletionIsPending, StateMatchesDocument
<1>8. TokenIsCurrent'
  BY DEF TypeOK, TokenIsCurrent
<1> QED
  BY <1>1, <1>2, <1>3, <1>4, <1>5, <1>6, <1>7, <1>8

LEMMA SetFilterQueryInvariant ==
  ASSUME IInv, NEW q \in Queries, SetFilterQuery(q)
  PROVE  IInv'
<1> USE DocumentSessionAssumption
    DEF IInv, SetFilterQuery, ApplyFilter, docVars,
        filterVars, countVars, exportVars, stopVars, ImportRunning,
        ExportRunning, WorkflowBusy, IsBusy
<1>1. TypeOK'
  BY DEF TypeOK, Selected, Rejected, FilterFails, ExportTasks, ExportResults,
         Outcomes
<1>2. CompletionIsPending'
  BY DEF TypeOK, CompletionIsPending, TasksFitTheWindow
<1>3. SelectionMatchesQuery'
  BY DEF TypeOK, SelectionMatchesQuery, Selected, Rejected, FilterFails
<1>4. StateMatchesDocument'
  BY DEF TypeOK, StateMatchesDocument, CanExport, TasksFitTheWindow
<1>5. ResultBelongsToDocument'
  BY DEF TypeOK, ResultBelongsToDocument, TasksFitTheWindow,
         StateMatchesDocument
<1>6. CancelReachesItsExport'
  BY DEF TypeOK, CancelReachesItsExport, TokenIsCurrent
<1>7. TasksFitTheWindow'
  BY DEF TypeOK, TasksFitTheWindow, CompletionIsPending, StateMatchesDocument
<1>8. TokenIsCurrent'
  BY DEF TypeOK, TokenIsCurrent
<1> QED
  BY <1>1, <1>2, <1>3, <1>4, <1>5, <1>6, <1>7, <1>8

LEMMA SetEventProjectionInvariant ==
  ASSUME IInv, NEW p \in Projections, SetEventProjection(p)
  PROVE  IInv'
<1> USE DocumentSessionAssumption
    DEF IInv, SetEventProjection, docVars,
        filterVars, countVars, exportVars, stopVars, ImportRunning,
        ExportRunning, WorkflowBusy, IsBusy
<1>1. TypeOK'
  BY DEF TypeOK, Selected, Rejected, FilterFails, ExportTasks, ExportResults,
         Outcomes
<1>2. CompletionIsPending'
  BY DEF TypeOK, CompletionIsPending, TasksFitTheWindow
<1>3. SelectionMatchesQuery'
  BY DEF TypeOK, SelectionMatchesQuery, Selected, Rejected, FilterFails
<1>4. StateMatchesDocument'
  BY DEF TypeOK, StateMatchesDocument, CanExport, TasksFitTheWindow
<1>5. ResultBelongsToDocument'
  BY DEF TypeOK, ResultBelongsToDocument, TasksFitTheWindow,
         StateMatchesDocument
<1>6. CancelReachesItsExport'
  BY DEF TypeOK, CancelReachesItsExport, TokenIsCurrent
<1>7. TasksFitTheWindow'
  BY DEF TypeOK, TasksFitTheWindow, CompletionIsPending, StateMatchesDocument
<1>8. TokenIsCurrent'
  BY DEF TypeOK, TokenIsCurrent
<1> QED
  BY <1>1, <1>2, <1>3, <1>4, <1>5, <1>6, <1>7, <1>8

LEMMA ExportInvariant ==
  ASSUME IInv, Export
  PROVE  IInv'
<1> USE DocumentSessionAssumption
    DEF IInv, Export, StartExportTask, NextStopSource, ForgetResult,
        ResetCounts, docVars,
        filterVars, countVars, exportVars, stopVars, ImportRunning,
        ExportRunning, WorkflowBusy, IsBusy
<1>0. queue' = <<>>
  BY IdleQueue
<1>1. TypeOK'
  <2>1. exportTask' \in ExportTasks
    BY DEF TypeOK, ExportTasks, ExportStates, Outcomes
  <2>2. queue' \in Seq(GuiEvents)
    BY <1>0, NoEvents
  <2>3. stopSource' \in 0..MaxExports
    BY DEF TypeOK
  <2> QED
    BY <2>1, <2>2, <2>3 DEF TypeOK
<1>2. CompletionIsPending'
  BY <1>0 DEF TypeOK, CompletionIsPending, TasksFitTheWindow
<1>3. SelectionMatchesQuery'
  BY DEF TypeOK, SelectionMatchesQuery, Selected, Rejected, FilterFails
<1>4. StateMatchesDocument'
  BY DEF TypeOK, StateMatchesDocument, CanExport, TasksFitTheWindow
<1>5. ResultBelongsToDocument'
  BY DEF TypeOK, ResultBelongsToDocument, TasksFitTheWindow,
         StateMatchesDocument
<1>6. CancelReachesItsExport'
  BY DEF TypeOK, CancelReachesItsExport, TokenIsCurrent
<1>7. TasksFitTheWindow'
  BY DEF TypeOK, TasksFitTheWindow, CompletionIsPending, StateMatchesDocument
<1>8. TokenIsCurrent'
  BY DEF TypeOK, TokenIsCurrent
<1> QED
  BY <1>1, <1>2, <1>3, <1>4, <1>5, <1>6, <1>7, <1>8

LEMMA CancelExportInvariant ==
  ASSUME IInv, CancelExport
  PROVE  IInv'
<1> USE DocumentSessionAssumption
    DEF IInv, CancelExport, RequestStop, docVars,
        filterVars, countVars, exportVars, stopVars, ImportRunning,
        ExportRunning, WorkflowBusy, IsBusy
<1>1. TypeOK'
  BY DEF TypeOK, Selected, Rejected, FilterFails, ExportTasks, ExportResults,
         Outcomes
<1>2. CompletionIsPending'
  BY DEF TypeOK, CompletionIsPending, TasksFitTheWindow
<1>3. SelectionMatchesQuery'
  BY DEF TypeOK, SelectionMatchesQuery, Selected, Rejected, FilterFails
<1>4. StateMatchesDocument'
  BY DEF TypeOK, StateMatchesDocument, CanExport, TasksFitTheWindow
<1>5. ResultBelongsToDocument'
  BY DEF TypeOK, ResultBelongsToDocument, TasksFitTheWindow,
         StateMatchesDocument
<1>6. CancelReachesItsExport'
  BY DEF TypeOK, CancelReachesItsExport, TokenIsCurrent
<1>7. TasksFitTheWindow'
  BY DEF TypeOK, TasksFitTheWindow, CompletionIsPending, StateMatchesDocument
<1>8. TokenIsCurrent'
  <2>1. ExportRunning => cancelAsked'
    BY Zenon
  <2> QED
    BY <2>1 DEF TypeOK, TokenIsCurrent
<1> QED
  BY <1>1, <1>2, <1>3, <1>4, <1>5, <1>6, <1>7, <1>8

LEMMA BeginDestructionInvariant ==
  ASSUME IInv, BeginDestruction
  PROVE  IInv'
<1> USE DocumentSessionAssumption
    DEF IInv, BeginDestruction, RequestStop, docVars,
        filterVars, countVars, exportVars, stopVars, ImportRunning,
        ExportRunning, WorkflowBusy, IsBusy
<1>1. TypeOK'
  <2>1. stopped' \subseteq Nat /\ window' \in {"open", "closing", "closed"}
    BY DEF TypeOK
  <2> QED
    BY <2>1 DEF TypeOK
<1>2. CompletionIsPending'
  BY DEF TypeOK, CompletionIsPending, TasksFitTheWindow
<1>3. SelectionMatchesQuery'
  BY DEF TypeOK, SelectionMatchesQuery, Selected, Rejected, FilterFails
<1>4. StateMatchesDocument'
  BY DEF TypeOK, StateMatchesDocument, CanExport, TasksFitTheWindow
<1>5. ResultBelongsToDocument'
  BY DEF TypeOK, ResultBelongsToDocument, TasksFitTheWindow,
         StateMatchesDocument
<1>6. CancelReachesItsExport'
  BY DEF TypeOK, CancelReachesItsExport, TokenIsCurrent
<1>7. TasksFitTheWindow'
  BY DEF TypeOK, TasksFitTheWindow, CompletionIsPending, StateMatchesDocument
<1>8. TokenIsCurrent'
  BY DEF TypeOK, TokenIsCurrent
<1> QED
  BY <1>1, <1>2, <1>3, <1>4, <1>5, <1>6, <1>7, <1>8

LEMMA HandleImportFinishedInvariant ==
  ASSUME IInv, HandleImportFinished
  PROVE  IInv'
<1> USE DocumentSessionAssumption
    DEF IInv, HandleImportFinished, ApplyFilter, docVars,
        filterVars, countVars, exportVars, stopVars, ImportRunning,
        ExportRunning, WorkflowBusy, IsBusy
<1>0. /\ docState = "kImporting" /\ ~ImportRunning
      /\ queue' = <<>> /\ queue' \in Seq(GuiEvents)
  BY HeadOfQueue DEF GuiEvents
<1>1. TypeOK'
  <2>1. /\ document' \in Documents \cup {None}
        /\ failure' \in Documents \cup {None}
        /\ selection' \in SUBSET Events /\ filterError' \in BOOLEAN
    <3>1. importTask.path \in Documents
      BY <1>0 DEF TasksFitTheWindow
    <3>2. Selected(importTask.path, query) \in SUBSET Events
      BY <3>1 DEF TypeOK, Selected
    <3>3. Rejected(importTask.path, query) \in BOOLEAN
      BY DEF Rejected
    <3> QED
      BY <3>1, <3>2, <3>3 DEF TypeOK
  <2>2. docState' \in {"kEmpty", "kImporting", "kReady", "kImportFailed"}
    OBVIOUS
  <2> QED
    BY <1>0, <2>1, <2>2 DEF TypeOK
<1>2. CompletionIsPending'
  BY <1>0 DEF TypeOK, CompletionIsPending, TasksFitTheWindow
<1>3. SelectionMatchesQuery'
  BY <1>0 DEF TypeOK, SelectionMatchesQuery, Selected, Rejected, FilterFails
<1>4. StateMatchesDocument'
  BY <1>0 DEF TypeOK, StateMatchesDocument, CanExport, TasksFitTheWindow
<1>5. ResultBelongsToDocument'
  BY <1>0 DEF TypeOK, ResultBelongsToDocument, TasksFitTheWindow,
         StateMatchesDocument
<1>6. CancelReachesItsExport'
  BY <1>0 DEF TypeOK, CancelReachesItsExport, TokenIsCurrent
<1>7. TasksFitTheWindow'
  BY <1>0 DEF TypeOK, TasksFitTheWindow, CompletionIsPending, StateMatchesDocument
<1>8. TokenIsCurrent'
  BY <1>0 DEF TypeOK, TokenIsCurrent
<1> QED
  BY <1>1, <1>2, <1>3, <1>4, <1>5, <1>6, <1>7, <1>8

LEMMA HandleProgressInvariant ==
  ASSUME IInv, HandleProgress
  PROVE  IInv'
<1> USE DocumentSessionAssumption
    DEF IInv, HandleProgress, docVars,
        filterVars, countVars, exportVars, stopVars, ImportRunning,
        ExportRunning, WorkflowBusy, IsBusy
<1>0. /\ exportState = "kExporting" /\ docState # "kImporting"
      /\ queue' \in Seq(GuiEvents)
      /\ Head(queue).completed \in Nat /\ Head(queue).total \in Nat
      /\ Len(queue') = Len(queue) - 1 /\ Len(queue) \in Nat
      /\ \A i \in 1..Len(queue') : queue'[i] = queue[i + 1]
      /\ Len(queue) > 1 \/ ExportRunning
  BY HeadOfQueue DEF GuiEvents
<1>1. TypeOK'
  BY <1>0 DEF TypeOK, ExportTasks, ExportResults, Outcomes
<1>2. CompletionIsPending'
  <2>1. \A i \in 1..Len(queue) :
          queue[i].type = IF i = Len(queue) /\ ~ExportRunning
                          THEN "exportFinished" ELSE "progress"
    BY <1>0 DEF CompletionIsPending
  <2>2. ASSUME NEW i \in 1..Len(queue')
        PROVE  queue'[i].type = IF i = Len(queue') /\ ~ExportRunning
                                THEN "exportFinished" ELSE "progress"
    <3>1. /\ i + 1 \in 1..Len(queue) /\ queue'[i] = queue[i + 1]
          /\ i = Len(queue') <=> i + 1 = Len(queue)
      BY <1>0
    <3> QED
      BY <2>1, <3>1
  <2>3. ExportRunning \/ queue' # <<>>
    <3>1. Len(<<>>) = 0
      OBVIOUS
    <3>2. Len(queue) > 1 => Len(queue') # 0
      BY <1>0
    <3> QED
      BY <1>0, <3>1, <3>2
  <2>4. ExportRunning' <=> ExportRunning
    OBVIOUS
  <2> QED
    BY <1>0, <2>2, <2>3 DEF CompletionIsPending
<1>3. SelectionMatchesQuery'
  BY <1>0 DEF TypeOK, SelectionMatchesQuery, Selected, Rejected, FilterFails
<1>4. StateMatchesDocument'
  BY <1>0 DEF TypeOK, StateMatchesDocument, CanExport, TasksFitTheWindow
<1>5. ResultBelongsToDocument'
  BY <1>0 DEF TypeOK, ResultBelongsToDocument, TasksFitTheWindow,
         StateMatchesDocument
<1>6. CancelReachesItsExport'
  BY <1>0 DEF TypeOK, CancelReachesItsExport, TokenIsCurrent
<1>7. TasksFitTheWindow'
  BY <1>0 DEF TypeOK, TasksFitTheWindow, CompletionIsPending, StateMatchesDocument
<1>8. TokenIsCurrent'
  BY <1>0 DEF TypeOK, TokenIsCurrent
<1> QED
  BY <1>1, <1>2, <1>3, <1>4, <1>5, <1>6, <1>7, <1>8

LEMMA HandleExportFinishedInvariant ==
  ASSUME IInv, HandleExportFinished
  PROVE  IInv'
<1> USE DocumentSessionAssumption
    DEF IInv, HandleExportFinished, EndExport, docVars,
        filterVars, countVars, exportVars, stopVars, ImportRunning,
        ExportRunning, WorkflowBusy, IsBusy
<1>0. /\ exportState = "kExporting" /\ docState = "kReady"
      /\ ~ExportRunning /\ queue' = <<>>
  BY HeadOfQueue DEF TasksFitTheWindow
<1>1. TypeOK'
  BY <1>0 DEF TypeOK, ExportTasks, ExportResults, Outcomes
<1>2. CompletionIsPending'
  BY <1>0 DEF TypeOK, CompletionIsPending, TasksFitTheWindow
<1>3. SelectionMatchesQuery'
  BY <1>0 DEF TypeOK, SelectionMatchesQuery, Selected, Rejected, FilterFails
<1>4. StateMatchesDocument'
  BY <1>0 DEF TypeOK, StateMatchesDocument, CanExport, TasksFitTheWindow
<1>5. ResultBelongsToDocument'
  BY <1>0 DEF TypeOK, ResultBelongsToDocument, TasksFitTheWindow,
         StateMatchesDocument
<1>6. CancelReachesItsExport'
  BY <1>0 DEF TypeOK, CancelReachesItsExport, TokenIsCurrent
<1>7. TasksFitTheWindow'
  BY <1>0 DEF TypeOK, TasksFitTheWindow, CompletionIsPending, StateMatchesDocument
<1>8. TokenIsCurrent'
  BY <1>0 DEF TypeOK, TokenIsCurrent
<1> QED
  BY <1>1, <1>2, <1>3, <1>4, <1>5, <1>6, <1>7, <1>8

LEMMA EndDestructionInvariant ==
  ASSUME IInv, EndDestruction
  PROVE  IInv'
<1> USE DocumentSessionAssumption
    DEF IInv, EndDestruction, WorkersReturned, docVars,
        filterVars, countVars, exportVars, stopVars, ImportRunning,
        ExportRunning, WorkflowBusy, IsBusy
<1>1. TypeOK'
  BY DEF TypeOK, Selected, Rejected, FilterFails, ExportTasks, ExportResults,
         Outcomes
<1>2. CompletionIsPending'
  BY DEF TypeOK, CompletionIsPending, TasksFitTheWindow
<1>3. SelectionMatchesQuery'
  BY DEF TypeOK, SelectionMatchesQuery, Selected, Rejected, FilterFails
<1>4. StateMatchesDocument'
  BY DEF TypeOK, StateMatchesDocument, CanExport, TasksFitTheWindow
<1>5. ResultBelongsToDocument'
  BY DEF TypeOK, ResultBelongsToDocument, TasksFitTheWindow,
         StateMatchesDocument
<1>6. CancelReachesItsExport'
  BY DEF TypeOK, CancelReachesItsExport, TokenIsCurrent
<1>7. TasksFitTheWindow'
  BY DEF TypeOK, TasksFitTheWindow, CompletionIsPending, StateMatchesDocument
<1>8. TokenIsCurrent'
  BY DEF TypeOK, TokenIsCurrent
<1> QED
  BY <1>1, <1>2, <1>3, <1>4, <1>5, <1>6, <1>7, <1>8

LEMMA ImportWorkerReturnsInvariant ==
  ASSUME IInv, ImportWorkerReturns
  PROVE  IInv'
<1> USE DocumentSessionAssumption
    DEF IInv, ImportWorkerReturns, Post, guiVars, docVars,
        filterVars, countVars, exportVars, stopVars, ImportRunning,
        ExportRunning, WorkflowBusy, IsBusy
<1>0. queue' \in Seq(GuiEvents)
  BY DEF TypeOK, GuiEvents
<1>1. TypeOK'
  <2>1. importTask' \in ImportTasks
    BY DEF TypeOK, ImportTasks
  <2> QED
    BY <1>0, <2>1 DEF TypeOK
<1>2. CompletionIsPending'
  BY DEF TypeOK, CompletionIsPending, TasksFitTheWindow
<1>3. SelectionMatchesQuery'
  BY DEF TypeOK, SelectionMatchesQuery, Selected, Rejected, FilterFails
<1>4. StateMatchesDocument'
  BY DEF TypeOK, StateMatchesDocument, CanExport, TasksFitTheWindow
<1>5. ResultBelongsToDocument'
  BY DEF TypeOK, ResultBelongsToDocument, TasksFitTheWindow,
         StateMatchesDocument
<1>6. CancelReachesItsExport'
  BY DEF TypeOK, CancelReachesItsExport, TokenIsCurrent
<1>7. TasksFitTheWindow'
  BY DEF TypeOK, TasksFitTheWindow, CompletionIsPending, StateMatchesDocument
<1>8. TokenIsCurrent'
  BY DEF TypeOK, TokenIsCurrent
<1> QED
  BY <1>1, <1>2, <1>3, <1>4, <1>5, <1>6, <1>7, <1>8

(* What a step of the export's worker may do: it goes on, silently or with *)
(* a progress call, or it returns and its finished event is the last.      *)
LEMMA ExportWorkerEffect ==
  ASSUME IInv, ExportWorkerStep
  PROVE  /\ ExportRunning /\ exportTask' \in ExportTasks
         /\ UNCHANGED <<guiVars, importTask>>
         /\ exportTask'.document = exportTask.document
         /\ exportTask'.token = exportTask.token
         /\ exportTask'.outcome = "cancelled" => exportTask.token \in stopped
         /\ \/ /\ exportTask'.state \notin {"idle", "finished"}
               /\ exportTask'.outcome = "none"
               /\ \/ queue' = queue
                  \/ \E e \in GuiEvents :
                       e.type = "progress" /\ queue' = Append(queue, e)
            \/ /\ exportTask'.state = "finished"
               /\ queue' = Append(queue, [type |-> "exportFinished"])
<1> USE DEF ExportRunning, StopRequested, Post, ExportTasks, ExportStates,
            Outcomes
<1>1. /\ exportTask \in ExportTasks
      /\ ExportRunning => exportTask.outcome = "none"
      /\ Cardinality(exportTask.selection) \in Nat
  BY SelectionSize DEF IInv, TypeOK, TokenIsCurrent
<1>2. ASSUME NEW n \in Nat
      PROVE  Progress(n) \in GuiEvents /\ Progress(n).type = "progress"
  BY <1>1 DEF Progress, GuiEvents
<1>3. CASE ExportWorkerStarts
  BY <1>1, <1>3 DEF ExportWorkerStarts, ExportGoesTo
<1>4. CASE ExportWorkerInspects
  BY <1>1, <1>2, <1>4 DEF ExportWorkerInspects
<1>5. CASE ExportWorkerPolls
  BY <1>1, <1>5 DEF ExportWorkerPolls, ExportGoesTo
<1>6. CASE ExportWorkerReads
  <2>1. PICK done \in 1..Cardinality(exportTask.selection) :
          /\ exportTask' = [exportTask EXCEPT !.done = done,
                                              !.state = "extracting"]
          /\ queue' = Append(queue, Progress(done))
    BY <1>6 DEF ExportWorkerReads
  <2>2. exportTask.state = "reading" /\ UNCHANGED <<guiVars, importTask>>
    BY <1>6 DEF ExportWorkerReads
  <2>3. done \in Nat
    BY <1>1
  <2>4. \E e \in GuiEvents : e.type = "progress" /\ queue' = Append(queue, e)
    BY <1>2, <2>1, <2>3
  <2> QED
    BY <1>1, <2>1, <2>2, <2>3, <2>4
<1>7. CASE ExportWorkerIsCancelled
  BY <1>1, <1>7 DEF ExportWorkerIsCancelled, ExportReturns
<1>8. CASE ExportWorkerFails
  BY <1>1, <1>8 DEF ExportWorkerFails, ExportReturns
<1>9. CASE ExportWorkerWrites
  BY <1>1, <1>9 DEF ExportWorkerWrites, ExportReturns
<1> QED
  BY <1>3, <1>4, <1>5, <1>6, <1>7, <1>8, <1>9 DEF ExportWorkerStep

LEMMA ExportWorkerStepInvariant ==
  ASSUME IInv, ExportWorkerStep
  PROVE  IInv'
<1> USE DocumentSessionAssumption
    DEF IInv, guiVars, docVars, filterVars, countVars, exportVars, stopVars,
        ImportRunning, ExportRunning, WorkflowBusy, IsBusy
<1>0. /\ ExportRunning /\ exportTask' \in ExportTasks
      /\ UNCHANGED <<docState, document, failure, query, selection,
                     filterError, projection, exportState, exportResult,
                     extracted, total, importTask, stopSource, stopped,
                     window, cancelAsked>>
      /\ exportTask'.document = exportTask.document
      /\ exportTask'.token = exportTask.token
      /\ exportTask'.outcome = "cancelled" => exportTask.token \in stopped
      /\ ExportRunning' => exportTask'.outcome = "none"
      /\ \/ ExportRunning' /\ queue' = queue
         \/ \E e \in GuiEvents :
              /\ queue' = Append(queue, e)
              /\ e.type = IF ExportRunning' THEN "progress"
                                            ELSE "exportFinished"
  <2>1. [type |-> "exportFinished"] \in GuiEvents
    BY DEF GuiEvents
  <2> HIDE DEF IInv
  <2> QED
    BY <2>1, ExportWorkerEffect
<1>a. exportState = "kExporting" /\ docState = "kReady"
  BY <1>0 DEF TasksFitTheWindow
<1>b. queue \in Seq(GuiEvents)
  BY DEF TypeOK
<1>1. TypeOK'
  <2>1. queue' \in Seq(GuiEvents)
    BY <1>0, <1>b
  <2> QED
    BY <1>0, <2>1 DEF TypeOK
<1>2. CompletionIsPending'
  <2>1. \A i \in 1..Len(queue) : queue[i].type = "progress"
    BY <1>0, <1>a DEF CompletionIsPending, TasksFitTheWindow
  <2>2. CASE ExportRunning' /\ queue' = queue
    BY <1>0, <1>a, <2>1, <2>2 DEF CompletionIsPending
  <2>3. ASSUME NEW e \in GuiEvents, queue' = Append(queue, e),
               e.type = IF ExportRunning' THEN "progress"
                                          ELSE "exportFinished"
        PROVE  CompletionIsPending'
    <3>1. /\ Len(queue') = Len(queue) + 1 /\ Len(queue) \in Nat
          /\ queue' # <<>> /\ queue'[Len(queue) + 1] = e
          /\ \A i \in 1..Len(queue) : queue'[i] = queue[i]
      BY <1>b, <2>3
    <3>2. ASSUME NEW i \in 1..Len(queue')
          PROVE  queue'[i].type = IF i = Len(queue') /\ ~ExportRunning'
                                  THEN "exportFinished" ELSE "progress"
      <4>1. CASE i = Len(queue')
        BY <2>3, <3>1, <4>1
      <4>2. CASE i # Len(queue')
        BY <2>1, <3>1, <4>2
      <4> QED
        BY <4>1, <4>2
    <3> QED
      BY <1>0, <1>a, <3>1, <3>2 DEF CompletionIsPending
  <2> QED
    BY <1>0, <2>2, <2>3
<1>3. SelectionMatchesQuery' /\ StateMatchesDocument'
  BY <1>0, <1>a DEF SelectionMatchesQuery, StateMatchesDocument, Selected,
                    Rejected, CanExport
<1>4. ResultBelongsToDocument'
  BY <1>0 DEF ResultBelongsToDocument
<1>5. CancelReachesItsExport'
  BY <1>0 DEF CancelReachesItsExport, TokenIsCurrent
<1>6. TasksFitTheWindow'
  BY <1>0, <1>a DEF TasksFitTheWindow
<1>7. TokenIsCurrent'
  BY <1>0 DEF TokenIsCurrent
<1> QED
  BY <1>1, <1>2, <1>3, <1>4, <1>5, <1>6, <1>7

LEMMA StutterInvariant ==
  ASSUME IInv, UNCHANGED vars
  PROVE  IInv'
  BY DEF vars, docVars, filterVars, exportVars, countVars, stopVars, IInv,
         TypeOK, CompletionIsPending, SelectionMatchesQuery, Selected,
         Rejected, StateMatchesDocument, CanExport, ResultBelongsToDocument,
         CancelReachesItsExport, TasksFitTheWindow, TokenIsCurrent,
         ImportRunning, ExportRunning, WorkflowBusy, IsBusy

(* The invariant holds in every state: it holds initially, and each        *)
(* command, handler and worker step keeps it.                              *)
THEOREM Invariance == Spec => []IInv
<1>1. Init => IInv
  BY InitInvariant
<1>2. IInv /\ [Next]_vars => IInv'
  <2> SUFFICES ASSUME IInv, [Next]_vars PROVE IInv'
    OBVIOUS
  <2>1. CASE UserStep
    BY <2>1, ImportInvariant, ClearInvariant, SetFilterQueryInvariant,
       SetEventProjectionInvariant, ExportInvariant, CancelExportInvariant,
       BeginDestructionInvariant DEF UserStep
  <2>2. CASE GuiStep
    BY <2>2, HandleImportFinishedInvariant, HandleProgressInvariant,
       HandleExportFinishedInvariant, EndDestructionInvariant DEF GuiStep
  <2>3. CASE ImportWorkerReturns
    BY <2>3, ImportWorkerReturnsInvariant
  <2>4. CASE ExportWorkerStep
    BY <2>4, ExportWorkerStepInvariant
  <2>5. CASE UNCHANGED vars
    BY <2>5, StutterInvariant
  <2> QED
    BY <2>1, <2>2, <2>3, <2>4, <2>5 DEF Next
<1> QED
  BY <1>1, <1>2, PTL DEF Spec

(* Every variable keeps its type. (the members of the view model)          *)
THEOREM TypeCorrect == Spec => []TypeOK
<1>1. IInv => TypeOK
  BY DEF IInv
<1> QED
  BY <1>1, Invariance, PTL

(* However the GUI thread and the workers interleave, a window that shows  *)
(* an operation has its worker running or its finished event to handle.    *)
(* (IsBusy and the finished handlers)                                      *)
THEOREM OneOperation == Spec => []CompletionIsPending
<1>1. IInv => CompletionIsPending
  BY DEF IInv
<1> QED
  BY <1>1, Invariance, PTL

(* The selection on show is the query's, for any query edited at any time. *)
(* (SetFilterQuery, handleImportFinished)                                  *)
THEOREM SelectionCurrent == Spec => []SelectionMatchesQuery
<1>1. IInv => SelectionMatchesQuery
  BY DEF IInv
<1> QED
  BY <1>1, Invariance, PTL

(* State, document and failure agree, so an enabled export is accepted.    *)
(* (CanExport and Export)                                                  *)
THEOREM StateConsistent == Spec => []StateMatchesDocument
<1>1. IInv => StateMatchesDocument
  BY DEF IInv
<1> QED
  BY <1>1, Invariance, PTL

(* The result on show is that of the document on show.                     *)
(* (ResetDocument, handleExportFinished)                                   *)
THEOREM ResultCurrent == Spec => []ResultBelongsToDocument
<1>1. IInv => ResultBelongsToDocument
  BY DEF IInv
<1> QED
  BY <1>1, Invariance, PTL

(* No export inherits the cancellation of another.                         *)
(* (ExportWithRenderedVideo, Cancel)                                       *)
THEOREM CancelTargeted == Spec => []CancelReachesItsExport
<1>1. IInv => CancelReachesItsExport
  BY DEF IInv
<1> QED
  BY <1>1, Invariance, PTL

-----------------------------------------------------------------------------
(* Progress.  The count in the worker's hands bounds what is queued and    *)
(* what is shown, and an extraction that has not begun has counted none.   *)
DoneFitsState ==
  exportTask.state \in {"starting", "inspecting"} => exportTask.done = 0

PInv == ProgressIsCurrent /\ DoneFitsState

LEMMA ProgressTypes ==
  ASSUME TypeOK
  PROVE  /\ extracted \in Nat /\ exportTask.done \in Nat
         /\ queue \in Seq(GuiEvents) /\ Len(queue) \in Nat
         /\ Cardinality(exportTask.selection) \in Nat
         /\ \A i \in 1..Len(queue) :
              queue[i].type = "progress" => queue[i].completed \in Nat
<1>1. extracted \in Nat /\ queue \in Seq(GuiEvents) /\ exportTask \in ExportTasks
  BY DEF TypeOK
<1>2. exportTask.done \in Nat /\ exportTask.selection \in SUBSET Events
  BY <1>1 DEF ExportTasks
<1>3. \A e \in GuiEvents : e.type = "progress" => e.completed \in Nat
  BY DEF GuiEvents
<1>4. \A i \in 1..Len(queue) : queue[i] \in GuiEvents
  BY <1>1
<1> QED
  BY <1>1, <1>2, <1>3, <1>4, SelectionSize

LEMMA NoExportKeeps ==
  ASSUME PInv, exportState' # "kExporting" \/ window' = "closed",
         exportTask' = exportTask
  PROVE  PInv'
  BY DEF PInv, ProgressIsCurrent, DoneFitsState

LEMMA SameProgressKeeps ==
  ASSUME PInv, exportState' = exportState, window' # "closed" => window # "closed",
         exportTask' = exportTask, extracted' = extracted, total' = total,
         queue' = queue
  PROVE  PInv'
  BY DEF PInv, ProgressIsCurrent, DoneFitsState

LEMMA UserStepKeeps ==
  ASSUME IInv, PInv, UserStep
  PROVE  PInv'
<1>1. CASE Clear \/ \E path \in Documents : Import(path)
  <2>1. exportState' = exportState /\ exportTask' = exportTask /\ ~IsBusy
    BY <1>1 DEF Clear, Import
  <2>2. exportState' # "kExporting"
    BY <2>1 DEF IsBusy
  <2> QED
    BY <2>1, <2>2, NoExportKeeps
<1>2. CASE \/ \E q \in Queries : SetFilterQuery(q)
           \/ \E p \in Projections : SetEventProjection(p)
           \/ CancelExport \/ BeginDestruction
  <2>1. /\ exportState' = exportState /\ window # "closed"
        /\ exportTask' = exportTask /\ extracted' = extracted /\ total' = total
        /\ queue' = queue
    BY <1>2 DEF SetFilterQuery, SetEventProjection, CancelExport, BeginDestruction,
                exportVars
  <2> QED
    BY <2>1, SameProgressKeeps
<1>3. CASE Export
  <2>1. /\ extracted' = 0 /\ total' = 0 /\ exportTask'.done = 0
        /\ queue' = Forget("exportFinished") /\ window = "open" /\ ~IsBusy
    BY <1>3 DEF Export, ResetCounts, StartExportTask
  <2>2. queue' = <<>> /\ Len(queue') = 0
    BY <2>1, IdleQueue
  <2> QED
    BY <2>1, <2>2 DEF PInv, ProgressIsCurrent, DoneFitsState
<1> QED
  BY <1>1, <1>2, <1>3 DEF UserStep

(* The count that is shown next is the smallest that is queued.            *)
LEMMA HandleProgressKeeps ==
  ASSUME IInv, PInv, HandleProgress
  PROVE  PInv'
<1>1. /\ window # "closed" /\ queue # <<>> /\ Head(queue).type = "progress"
      /\ queue' = Tail(queue) /\ exportTask' = exportTask
      /\ extracted' = Head(queue).completed /\ total' = Head(queue).total
      /\ exportState' = exportState
  BY DEF HandleProgress
<1>2. /\ Head(queue) = queue[1] /\ Len(queue) \in Nat \ {0}
      /\ Len(queue') = Len(queue) - 1
      /\ \A i \in 1..Len(queue') : queue'[i] = queue[i + 1] /\ i + 1 \in 1..Len(queue)
      /\ exportState = "kExporting"
  BY <1>1, HeadOfQueue
<1>3. 1 \in 1..Len(queue)
  BY <1>2
<1>4. \A i \in 1..Len(queue) : queue[i].type = "progress" =>
        /\ queue[i].completed <= exportTask.done
        /\ queue[i].total = Cardinality(exportTask.selection)
        /\ \A j \in 1..i : queue[j].type = "progress" =>
             queue[j].completed <= queue[i].completed
  BY <1>1, <1>2 DEF PInv, ProgressIsCurrent
<1>5. extracted' <= exportTask.done /\ total' = Cardinality(exportTask.selection)
  BY <1>1, <1>2, <1>3, <1>4
<1>6. ASSUME NEW i \in 1..Len(queue'), queue'[i].type = "progress"
      PROVE  /\ extracted' <= queue'[i].completed
             /\ queue'[i].completed <= exportTask.done
             /\ queue'[i].total = Cardinality(exportTask.selection)
             /\ \A j \in 1..i : queue'[j].type = "progress" =>
                  queue'[j].completed <= queue'[i].completed
  <2>1. queue'[i] = queue[i + 1] /\ i + 1 \in 1..Len(queue) /\ 1 \in 1..i + 1
    BY <1>2
  <2>2. \A j \in 1..i : queue'[j] = queue[j + 1] /\ j + 1 \in 1..i + 1
    BY <1>2
  <2> QED
    BY <1>1, <1>2, <1>4, <1>6, <2>1, <2>2
<1>7. ProgressIsCurrent'
  BY <1>1, <1>5, <1>6 DEF ProgressIsCurrent
<1> QED
  BY <1>1, <1>7 DEF PInv, DoneFitsState

(* What a worker's step does to the counts.                                *)
LEMMA WorkerCounts ==
  ASSUME IInv, PInv, ExportWorkerStep
  PROVE  /\ exportTask'.done \in Nat /\ exportTask.done <= exportTask'.done
         /\ exportTask'.selection = exportTask.selection
         /\ DoneFitsState'
         /\ \/ queue' = queue
            \/ \E e \in GuiEvents :
                 /\ queue' = Append(queue, e)
                 /\ e.type = "progress" =>
                      /\ e.completed = exportTask'.done
                      /\ e.total = Cardinality(exportTask.selection)
<1>1. /\ exportTask \in ExportTasks /\ exportTask.done \in Nat
      /\ Cardinality(exportTask.selection) \in Nat
  BY ProgressTypes DEF IInv, TypeOK
<1>2. \A n \in Nat : /\ Progress(n) \in GuiEvents
                     /\ Progress(n).completed = n
                     /\ Progress(n).total = Cardinality(exportTask.selection)
  BY <1>1 DEF Progress, GuiEvents
<1>3. /\ [type |-> "exportFinished"] \in GuiEvents
      /\ [type |-> "exportFinished"].type # "progress"
  BY DEF GuiEvents
<1>4. CASE ExportWorkerStarts \/ ExportWorkerPolls
  BY <1>1, <1>4 DEF ExportWorkerStarts, ExportWorkerPolls, ExportGoesTo, ExportTasks,
                    DoneFitsState, PInv
<1>5. CASE ExportWorkerInspects
  <2>1. exportTask.done = 0 /\ exportTask'.done = 0
        /\ exportTask'.state = "extracting"
        /\ exportTask'.selection = exportTask.selection
        /\ queue' = Append(queue, Progress(0))
    BY <1>1, <1>5 DEF ExportWorkerInspects, Post, PInv, DoneFitsState, ExportTasks
  <2> QED
    BY <1>2, <2>1 DEF DoneFitsState
<1>6. CASE ExportWorkerReads
  <2>1. PICK done \in 1..Cardinality(exportTask.selection) :
          /\ done > exportTask.done
          /\ exportTask' = [exportTask EXCEPT !.done = done, !.state = "extracting"]
          /\ queue' = Append(queue, Progress(done))
    BY <1>6 DEF ExportWorkerReads, Post
  <2>2. /\ exportTask'.done = done /\ done \in Nat /\ exportTask'.state = "extracting"
        /\ exportTask'.selection = exportTask.selection
    BY <1>1, <2>1 DEF ExportTasks
  <2> QED
    BY <1>1, <1>2, <2>1, <2>2 DEF DoneFitsState
<1>7. CASE ExportWorkerIsCancelled \/ ExportWorkerFails \/ ExportWorkerWrites
  <2>1. PICK o : ExportReturns(o)
    BY <1>7 DEF ExportWorkerIsCancelled, ExportWorkerFails, ExportWorkerWrites
  <2>2. /\ exportTask'.done = exportTask.done /\ exportTask'.state = "finished"
        /\ exportTask'.selection = exportTask.selection
        /\ queue' = Append(queue, [type |-> "exportFinished"])
    BY <1>1, <2>1 DEF ExportReturns, Post, ExportTasks
  <2> QED
    BY <1>1, <1>3, <2>2 DEF DoneFitsState
<1> QED
  BY <1>4, <1>5, <1>6, <1>7 DEF ExportWorkerStep

LEMMA ExportWorkerStepKeeps ==
  ASSUME IInv, PInv, ExportWorkerStep
  PROVE  PInv'
<1> SUFFICES ASSUME window' # "closed", exportState' = "kExporting"
             PROVE  ProgressIsCurrent'
  BY WorkerCounts DEF PInv, ProgressIsCurrent
<1>1. /\ window # "closed" /\ exportState = "kExporting"
      /\ extracted' = extracted /\ total' = total
  BY ExportWorkerEffect DEF guiVars, exportVars
<1>2. /\ exportTask'.done \in Nat /\ exportTask.done <= exportTask'.done
      /\ exportTask'.selection = exportTask.selection
  BY WorkerCounts
<1>3. /\ extracted \in Nat /\ exportTask.done \in Nat /\ queue \in Seq(GuiEvents)
      /\ Len(queue) \in Nat
      /\ \A i \in 1..Len(queue) :
           queue[i].type = "progress" => queue[i].completed \in Nat
  BY ProgressTypes DEF IInv
<1>4. /\ extracted <= exportTask.done
      /\ total \in {0, Cardinality(exportTask.selection)}
      /\ \A i \in 1..Len(queue) : queue[i].type = "progress" =>
           /\ extracted <= queue[i].completed
           /\ queue[i].completed <= exportTask.done
           /\ queue[i].total = Cardinality(exportTask.selection)
           /\ \A j \in 1..i : queue[j].type = "progress" =>
                queue[j].completed <= queue[i].completed
  BY <1>1 DEF PInv, ProgressIsCurrent
<1>5. extracted' <= exportTask'.done
  BY <1>1, <1>2, <1>3, <1>4
<1>6. \A i \in 1..Len(queue) : queue[i].type = "progress" =>
        queue[i].completed <= exportTask'.done
  BY <1>2, <1>3, <1>4
<1>7. CASE queue' = queue
  BY <1>1, <1>2, <1>4, <1>5, <1>6, <1>7 DEF ProgressIsCurrent
<1>8. ASSUME NEW e \in GuiEvents, queue' = Append(queue, e),
             e.type = "progress" =>
               /\ e.completed = exportTask'.done
               /\ e.total = Cardinality(exportTask.selection)
      PROVE  ProgressIsCurrent'
  <2>1. /\ Len(queue') = Len(queue) + 1 /\ queue'[Len(queue) + 1] = e
        /\ \A i \in 1..Len(queue) : queue'[i] = queue[i]
    BY <1>3, <1>8
  <2>2. ASSUME NEW i \in 1..Len(queue'), queue'[i].type = "progress"
        PROVE  /\ extracted <= queue'[i].completed
               /\ queue'[i].completed <= exportTask'.done
               /\ queue'[i].total = Cardinality(exportTask.selection)
               /\ \A j \in 1..i : queue'[j].type = "progress" =>
                    queue'[j].completed <= queue'[i].completed
    <3>1. CASE i = Len(queue) + 1
      <4>1. /\ queue'[i].completed = exportTask'.done
            /\ queue'[i].total = Cardinality(exportTask.selection)
        BY <1>8, <2>1, <2>2, <3>1
      <4>2. ASSUME NEW j \in 1..i, queue'[j].type = "progress"
            PROVE  queue'[j].completed <= queue'[i].completed
        <5>1. CASE j = i
          BY <1>2, <4>1, <5>1
        <5>2. CASE j \in 1..Len(queue)
          BY <1>6, <2>1, <4>1, <4>2, <5>2
        <5> QED
          BY <1>3, <3>1, <5>1, <5>2
      <4> QED
        BY <1>1, <1>2, <1>5, <4>1, <4>2
    <3>2. CASE i \in 1..Len(queue)
      <4>1. \A j \in 1..i : queue'[j] = queue[j]
        BY <1>3, <2>1, <3>2
      <4> QED
        BY <1>4, <1>6, <2>1, <2>2, <3>2, <4>1
    <3> QED
      BY <1>3, <2>1, <3>1, <3>2
  <2> QED
    BY <1>1, <1>2, <1>4, <1>5, <2>2 DEF ProgressIsCurrent
<1> QED
  BY <1>7, <1>8, WorkerCounts

LEMMA StepKeepsProgress == IInv /\ PInv /\ [Next]_vars => PInv'
<1> SUFFICES ASSUME IInv, PInv, [Next]_vars PROVE PInv'
  OBVIOUS
<1>1. CASE HandleImportFinished
  <2>1. docState = "kImporting"
    BY <1>1, HeadOfQueue DEF HandleImportFinished
  <2>2. exportState' # "kExporting" /\ exportTask' = exportTask
    BY <1>1, <2>1 DEF HandleImportFinished, exportVars, IInv, TasksFitTheWindow
  <2> QED
    BY <2>2, NoExportKeeps
<1>2. CASE HandleExportFinished \/ EndDestruction
  BY <1>2, NoExportKeeps DEF HandleExportFinished, EndExport, EndDestruction
<1>3. CASE ImportWorkerReturns
  <2>1. exportState' # "kExporting" /\ exportTask' = exportTask
    BY <1>3 DEF ImportWorkerReturns, guiVars, exportVars, IInv, TasksFitTheWindow
  <2> QED
    BY <2>1, NoExportKeeps
<1>4. CASE UNCHANGED vars
  BY <1>4, SameProgressKeeps DEF vars, exportVars
<1> QED
  BY <1>1, <1>2, <1>3, <1>4, UserStepKeeps, HandleProgressKeeps,
     ExportWorkerStepKeeps DEF Next, GuiStep

(* The counts shown and queued are those of the export under way, in the   *)
(* worker's order, for any documents and selections.                       *)
(* (the queued progress calls against Export's reset)                      *)
THEOREM ProgressCurrent == Spec => []ProgressIsCurrent
<1>1. Init => PInv
  BY DEF Init, PInv, ProgressIsCurrent, DoneFitsState, NoExport
<1>2. PInv => ProgressIsCurrent
  BY DEF PInv
<1> QED
  BY Invariance, <1>1, <1>2, StepKeepsProgress, PTL DEF Spec

-----------------------------------------------------------------------------
(* A window that closes has asked the current stop source, and only one    *)
(* that is open makes another.                                             *)
ClosingIsStopped == window = "closing" => stopSource \in stopped

LEMMA StepKeepsClosing == IInv /\ ClosingIsStopped /\ [Next]_vars => ClosingIsStopped'
<1> SUFFICES ASSUME IInv, ClosingIsStopped, [Next]_vars PROVE ClosingIsStopped'
  OBVIOUS
<1>1. CASE UserStep
  BY <1>1 DEF UserStep, Import, Clear, SetFilterQuery, SetEventProjection, Export,
              StartExportTask, CancelExport, BeginDestruction, RequestStop, stopVars,
              ClosingIsStopped
<1>2. CASE GuiStep
  BY <1>2 DEF GuiStep, HandleImportFinished, HandleProgress, HandleExportFinished,
              EndDestruction, stopVars, ClosingIsStopped
<1>3. CASE ImportWorkerReturns
  BY <1>3 DEF ImportWorkerReturns, guiVars, stopVars, ClosingIsStopped
<1>4. CASE ExportWorkerStep
  BY <1>4, ExportWorkerEffect DEF guiVars, stopVars, ClosingIsStopped
<1>5. CASE UNCHANGED vars
  BY <1>5 DEF vars, stopVars, ClosingIsStopped
<1> QED
  BY <1>1, <1>2, <1>3, <1>4, <1>5 DEF Next

LEMMA ClosingStep ==
  IInv /\ ClosingIsStopped /\ [Next]_vars =>
    [window = "closing" /\ exportTask.images
       /\ exportTask.state \in {"starting", "extracting"} =>
         exportTask'.state \notin {"reading", "writing"}]_vars
<1> SUFFICES ASSUME IInv, ClosingIsStopped, Next, window = "closing",
                    exportTask.images, exportTask.state \in {"starting", "extracting"}
             PROVE  exportTask'.state \notin {"reading", "writing"}
  OBVIOUS
<1>1. StopRequested /\ exportTask \in ExportTasks
  BY DEF IInv, TypeOK, TokenIsCurrent, ExportRunning, ClosingIsStopped, StopRequested
<1>2. CASE exportTask' = exportTask
  BY <1>2
<1>3. CASE ExportWorkerStep
  <2>1. ~ExportWorkerStarts /\ ~ExportWorkerInspects /\ ~ExportWorkerPolls
        /\ ~ExportWorkerReads /\ ~ExportWorkerWrites
    BY <1>1 DEF ExportWorkerStarts, ExportWorkerInspects, ExportWorkerPolls,
                ExportWorkerReads, ExportWorkerWrites
  <2>2. PICK o : ExportReturns(o)
    BY <1>3, <2>1 DEF ExportWorkerStep, ExportWorkerIsCancelled, ExportWorkerFails
  <2> QED
    BY <1>1, <2>2 DEF ExportReturns, ExportTasks
<1>4. CASE UserStep
  BY <1>4 DEF UserStep, Import, Clear, SetFilterQuery, SetEventProjection, Export,
              CancelExport, BeginDestruction
<1>5. CASE GuiStep
  BY <1>2, <1>5 DEF GuiStep, HandleImportFinished, HandleProgress,
                    HandleExportFinished, EndDestruction
<1>6. CASE ImportWorkerReturns
  BY <1>2, <1>6 DEF ImportWorkerReturns
<1> QED
  BY <1>3, <1>4, <1>5, <1>6 DEF Next

(* Closing the window abandons the extraction of its export, wherever it   *)
(* is. (~TimelineDocumentWorkflow)                                         *)
THEOREM ClosingStops == Spec => ClosingStopsExtraction
<1>1. Init => ClosingIsStopped
  BY DEF Init, ClosingIsStopped
<1> QED
  BY <1>1, StepKeepsClosing, ClosingStep, Invariance, PTL
     DEF Spec, ClosingStopsExtraction
=============================================================================
