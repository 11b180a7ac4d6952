-------------------------- MODULE QuickShellProofs --------------------------
(***************************************************************************)
(* Theorems about QuickShell, for every number and size of files and       *)
(* messages: what a rotation may lose and how large the files grow,        *)
(* whatever fails and whenever the process is killed; that a window which  *)
(* closes leaves no worker running; and that a published support bundle is *)
(* complete.                                                               *)
(***************************************************************************)
EXTENDS QuickShell, FiniteSetTheorems, SequenceTheorems, TLAPS

(* Induction, from the order of the naturals being well-founded.           *)
LEMMA LeastNatural ==
    ASSUME NEW T, T \subseteq Nat, T # {}
    PROVE  \E n \in T : \A m \in T : n <= m
<1> DEFINE Less == {pair \in Nat \X Nat : pair[1] < pair[2]}
<1>1. IsWellFoundedOn(Less, Nat)
    BY NatLessThanWellFounded DEF OpToRel
<1>2. \E n \in T : \A m \in T : <<m, n>> \notin Less
    <2> HIDE DEF Less
    <2> QED BY <1>1, WFMin
<1>3. PICK n \in T : \A m \in T : <<m, n>> \notin Less
    BY <1>2
<1>4. \A m \in T : ~ m < n
    BY <1>3
<1> QED BY <1>4

LEMMA Induction ==
    ASSUME NEW T, 0 \in T, \A n \in Nat : n \in T => n + 1 \in T
    PROVE  Nat \subseteq T
<1> SUFFICES ASSUME Nat \ T # {} PROVE FALSE
    OBVIOUS
<1>1. PICK n \in Nat \ T : \A m \in Nat \ T : n <= m
    <2>1. Nat \ T \subseteq Nat
        OBVIOUS
    <2> QED BY <2>1, LeastNatural
<1>2. n - 1 \in T /\ n - 1 \in Nat
    BY <1>1
<1> QED BY <1>1, <1>2

-----------------------------------------------------------------------------
(* Folds.  FoldLeft recurs over the sets of indices; a function that       *)
(* satisfies its equation exists for every step.                           *)
FoldsTo(iter, n, base, step) ==
  iter = [s \in SUBSET (1 .. n) |->
            IF s = {} THEN base
            ELSE LET x == Max(s) IN step[x][iter[s \ {x}]]]

LEMMA MaxOfSubset ==
  ASSUME NEW n \in Nat, NEW s \in SUBSET (1 .. n), s # {}
  PROVE  Max(s) \in s /\ \A y \in s : Max(s) >= y
<1> DEFINE T == {k \in Nat : \E x \in s : x = n - k}
<1>1. T \subseteq Nat /\ T # {}
  <2>1. PICK x \in s : TRUE
    OBVIOUS
  <2>2. n - x \in Nat /\ n - (n - x) = x
    BY <2>1
  <2> QED BY <2>1, <2>2
<1>2. PICK k \in T : \A j \in T : k <= j
  BY <1>1, LeastNatural
<1>3. n - k \in s /\ k \in Nat
  BY <1>2
<1>4. ASSUME NEW y \in s PROVE n - k >= y
  <2>1. n - y \in T
    OBVIOUS
  <2> QED BY <1>2, <1>3, <2>1
<1> QED BY <1>3, <1>4 DEF Max

LEMMA MaxOfFirst ==
  ASSUME NEW n \in Nat
  PROVE  Max(1 .. n + 1) = n + 1 /\ (1 .. n + 1) \ {n + 1} = 1 .. n
<1> DEFINE top == n + 1
           all == 1 .. top
<1>1. top \in Nat /\ all \in SUBSET all /\ all # {} /\ top \in all
      /\ \A x \in all : x >= top => x = top
  OBVIOUS
<1>2. Max(all) \in all /\ Max(all) >= top
  <2> HIDE DEF top
  <2> QED BY <1>1, MaxOfSubset
<1>3. Max(all) = top
  BY <1>1, <1>2
<1>4. all \ {top} = 1 .. n
  OBVIOUS
<1> QED BY <1>3, <1>4

Foldable(n, S, base, step) ==
  \E iter \in [SUBSET (1 .. n) -> S] : FoldsTo(iter, n, base, step)

LEMMA FoldExists ==
  ASSUME NEW N \in Nat, NEW S, NEW base \in S, NEW step \in [1 .. N -> [S -> S]]
  PROVE  Foldable(N, S, base, step)
<1> DEFINE T == {k \in Nat : k <= N => Foldable(k, S, base, step)}
<1>1. 0 \in T
  <2> DEFINE iter == [s \in SUBSET (1 .. 0) |-> base]
  <2>1. \A s \in SUBSET (1 .. 0) : s = {}
    OBVIOUS
  <2>2. iter \in [SUBSET (1 .. 0) -> S] /\ FoldsTo(iter, 0, base, step)
    BY <2>1 DEF FoldsTo
  <2> QED BY <2>2 DEF Foldable
<1>2. ASSUME NEW k \in Nat, k \in T PROVE k + 1 \in T
  <2> SUFFICES ASSUME k + 1 <= N PROVE Foldable(k + 1, S, base, step)
    OBVIOUS
  <2>0. k <= N /\ k + 1 \in 1 .. N
    OBVIOUS
  <2>1. PICK less \in [SUBSET (1 .. k) -> S] : FoldsTo(less, k, base, step)
    BY <1>2, <2>0 DEF Foldable
  <2> HIDE DEF T
  <2> DEFINE iter == [s \in SUBSET (1 .. k + 1) |->
                        IF k + 1 \in s THEN step[k + 1][less[s \ {k + 1}]] ELSE less[s]]
  <2>2. ASSUME NEW s \in SUBSET (1 .. k + 1)
        PROVE  /\ iter[s] \in S
               /\ iter[s] = IF s = {} THEN base
                            ELSE LET x == Max(s) IN step[x][iter[s \ {x}]]
    <3>1. CASE k + 1 \in s
      <4>1. s \ {k + 1} \in SUBSET (1 .. k) /\ s \ {k + 1} \in SUBSET (1 .. k + 1)
        OBVIOUS
      <4>2. Max(s) = k + 1
        <5> DEFINE top == k + 1
        <5>1. top \in Nat /\ s \in SUBSET (1 .. top) /\ s # {} /\ top \in s
              /\ \A x \in s : x >= top => x = top
          BY <3>1
        <5>2. Max(s) \in s /\ Max(s) >= top
          <6> HIDE DEF top
          <6> QED BY <5>1, MaxOfSubset
        <5> QED BY <5>1, <5>2
      <4>3. iter[s] = step[k + 1][less[s \ {k + 1}]]
            /\ iter[s \ {k + 1}] = less[s \ {k + 1}]
        BY <3>1, <4>1
      <4>4. step[k + 1] \in [S -> S] /\ less[s \ {k + 1}] \in S
        BY <4>1
      <4> HIDE DEF iter
      <4>5. iter[s] \in S
        BY <4>3, <4>4
      <4> QED BY <3>1, <4>2, <4>3, <4>5
    <3>2. CASE k + 1 \notin s
      <4>1. s \in SUBSET (1 .. k)
        BY <3>2
      <4>2. iter[s] = less[s]
        BY <3>2
      <4>3. less[s] = IF s = {} THEN base
                      ELSE LET x == Max(s) IN step[x][less[s \ {x}]]
        BY <2>1, <4>1 DEF FoldsTo
      <4>4. \A x : s \ {x} \in SUBSET (1 .. k + 1) /\ k + 1 \notin s \ {x}
        BY <3>2
      <4>5. \A x : iter[s \ {x}] = less[s \ {x}]
        BY <4>4
      <4>6. less[s] \in S
        BY <4>1
      <4> HIDE DEF iter
      <4> QED BY <4>2, <4>3, <4>5, <4>6
    <3> QED BY <3>1, <3>2
  <2>3. iter = [s \in SUBSET (1 .. k + 1) |-> iter[s]]
    OBVIOUS
  <2> HIDE DEF iter
  <2>4. iter \in [SUBSET (1 .. k + 1) -> S]
    BY <2>2, <2>3
  <2>5. [s \in SUBSET (1 .. k + 1) |-> iter[s]]
          = [s \in SUBSET (1 .. k + 1) |->
               IF s = {} THEN base ELSE LET x == Max(s) IN step[x][iter[s \ {x}]]]
    BY <2>2
  <2>6. FoldsTo(iter, k + 1, base, step)
    BY <2>3, <2>5 DEF FoldsTo
  <2> QED BY <2>4, <2>6 DEF Foldable, T
<1>3. N \in T
  <2> HIDE DEF T
  <2> QED BY <1>1, <1>2, Induction
<1> QED BY <1>3

-----------------------------------------------------------------------------
(* The size of a file: totals[i] is that of its first i messages.          *)
StoredMessages == [id : Int, size : Nat]

Totals(iter, n, file) ==
  iter = [s \in SUBSET (1 .. n) |->
            IF s = {} THEN 0
            ELSE LET x == Max(s) IN iter[s \ {x}] + file[x].size]

Sums(totals, n, file) ==
  /\ totals[0] = 0
  /\ \A i \in 1 .. n : totals[i] = totals[i - 1] + file[i].size

LEMMA SizeIsFold ==
  ASSUME NEW n \in Nat, NEW file, DOMAIN file = 1 .. n, file # Missing
  PROVE  SizeOf(file) = (CHOOSE iter : Totals(iter, n, file))[1 .. n]
  BY DEF SizeOf, FoldLeft, MapThenFoldSet, Totals

LEMMA StoredIsNotMissing == Missing \notin Seq(StoredMessages)
<1>1. StoredMessages \subseteq [id : Int, size : Int]
  BY DEF StoredMessages
<1>2. Seq(StoredMessages) \subseteq Seq([id : Int, size : Int])
  BY <1>1, SeqMonotonic
<1> QED BY <1>2, ApplicationLogsAssumption

LEMMA SizeIsSum ==
  ASSUME NEW file \in Seq(StoredMessages)
  PROVE  \E totals \in [0 .. Len(file) -> Nat] :
           Sums(totals, Len(file), file) /\ SizeOf(file) = totals[Len(file)]
<1> DEFINE n == Len(file)
           step == [i \in 1 .. n |-> [total \in Nat |-> total + file[i].size]]
<1>1. /\ n \in Nat /\ DOMAIN file = 1 .. n /\ file # Missing
      /\ \A i \in 1 .. n : file[i].size \in Nat
  <2>1. \A i \in 1 .. n : file[i] \in StoredMessages
    OBVIOUS
  <2>2. \A message \in StoredMessages : message.size \in Nat
    BY DEF StoredMessages
  <2> QED BY <2>1, <2>2, StoredIsNotMissing
<1>2. step \in [1 .. n -> [Nat -> Nat]]
  BY <1>1
<1>3. \A i \in 1 .. n, total \in Nat : step[i][total] = total + file[i].size
  OBVIOUS
<1> HIDE DEF n, step
<1>4. PICK iter \in [SUBSET (1 .. n) -> Nat] : FoldsTo(iter, n, 0, step)
  BY <1>1, <1>2, FoldExists DEF Foldable
<1>5. Totals(iter, n, file)
  <2>1. ASSUME NEW s \in SUBSET (1 .. n)
        PROVE  (IF s = {} THEN 0 ELSE LET x == Max(s) IN step[x][iter[s \ {x}]])
                 = (IF s = {} THEN 0
                    ELSE LET x == Max(s) IN iter[s \ {x}] + file[x].size)
    <3>1. CASE s # {}
      <4>1. Max(s) \in 1 .. n
        BY <1>1, <3>1, MaxOfSubset
      <4>2. iter[s \ {Max(s)}] \in Nat
        OBVIOUS
      <4> QED BY <1>3, <3>1, <4>1, <4>2
    <3> QED BY <3>1
  <2> QED BY <1>4, <2>1 DEF FoldsTo, Totals
<1> DEFINE chosen == CHOOSE c : Totals(c, n, file)
<1>6. Totals(chosen, n, file)
  BY <1>5
<1>7. SizeOf(file) = chosen[1 .. n]
  BY <1>1, SizeIsFold
<1> HIDE DEF chosen
<1> DEFINE totals == [i \in 0 .. n |-> chosen[1 .. i]]
<1>8. chosen[1 .. 0] = 0
  BY <1>1, <1>6 DEF Totals
<1>9. ASSUME NEW i \in Nat, i + 1 <= n
      PROVE  chosen[1 .. i + 1] = chosen[1 .. i] + file[i + 1].size
  <2> DEFINE s == 1 .. i + 1
  <2>1. s \in SUBSET (1 .. n) /\ s # {}
    <3>1. \A x \in s : x \in 1 .. n
      BY <1>1, <1>9
    <3>2. 1 \in s
      OBVIOUS
    <3> QED BY <3>1, <3>2
  <2>2. Max(s) = i + 1 /\ s \ {i + 1} = 1 .. i
    BY MaxOfFirst
  <2> HIDE DEF s
  <2>3. chosen[s] = chosen[s \ {Max(s)}] + file[Max(s)].size
    BY <1>6, <2>1 DEF Totals
  <2> QED BY <2>2, <2>3 DEF s
<1>10. Sums(totals, n, file) /\ totals[n] = chosen[1 .. n]
  <2>1. ASSUME NEW i \in 1 .. n PROVE totals[i] = totals[i - 1] + file[i].size
    <3>1. i - 1 \in Nat /\ i - 1 \in 0 .. n /\ i \in 0 .. n /\ (i - 1) + 1 = i /\ i <= n
      BY <1>1
    <3> DEFINE j == i - 1
    <3>2. chosen[1 .. j + 1] = chosen[1 .. j] + file[j + 1].size
      <4>1. j \in Nat /\ j + 1 <= n
        BY <3>1
      <4> HIDE DEF j
      <4> QED BY <1>9, <4>1
    <3>3. j + 1 = i /\ totals[i] = chosen[1 .. i] /\ totals[j] = chosen[1 .. j]
      BY <3>1
    <3> QED BY <3>2, <3>3
  <2>2. totals[0] = 0 /\ totals[n] = chosen[1 .. n]
    BY <1>1, <1>8
  <2> HIDE DEF totals
  <2> QED BY <2>1, <2>2 DEF Sums
<1>11. totals \in [0 .. n -> Nat]
  <2> DEFINE T == {k \in Nat : k <= n => chosen[1 .. k] \in Nat}
  <2>1. 0 \in T
    BY <1>8
  <2>2. ASSUME NEW k \in Nat, k \in T PROVE k + 1 \in T
    <3>1. SUFFICES ASSUME k + 1 <= n PROVE chosen[1 .. k + 1] \in Nat
      OBVIOUS
    <3>2. chosen[1 .. k] \in Nat /\ file[k + 1].size \in Nat
      BY <1>1, <2>2, <3>1
    <3> QED BY <1>9, <3>1, <3>2
  <2>3. \A k \in 0 .. n : k \in T
    <3> HIDE DEF T
    <3> QED BY <1>1, <2>1, <2>2, Induction
  <2> QED BY <1>1, <2>3
<1> HIDE DEF totals
<1>12. SizeOf(file) = totals[n]
  BY <1>7, <1>10
<1> QED BY <1>10, <1>11, <1>12 DEF n

LEMMA SumsAgree ==
  ASSUME NEW n \in Nat, NEW f, NEW g, NEW file, NEW longer,
         Sums(f, n, file), Sums(g, n, longer),
         \A i \in 1 .. n : longer[i] = file[i]
  PROVE  f[n] = g[n]
<1> DEFINE T == {k \in Nat : k <= n => f[k] = g[k]}
<1>1. 0 \in T
  BY DEF Sums
<1>2. ASSUME NEW k \in Nat, k \in T PROVE k + 1 \in T
  <2>1. SUFFICES ASSUME k + 1 <= n PROVE f[k + 1] = g[k + 1]
    OBVIOUS
  <2>2. k + 1 \in 1 .. n /\ (k + 1) - 1 = k /\ f[k] = g[k]
    BY <1>2, <2>1
  <2> QED BY <2>2 DEF Sums
<1>3. n \in T
  <2> HIDE DEF T
  <2> QED BY <1>1, <1>2, Induction
<1> QED BY <1>3

(* A message adds its size to that of its file.                            *)
LEMMA SizeOfAppend ==
  ASSUME NEW file \in Seq(StoredMessages), NEW message \in StoredMessages
  PROVE  SizeOf(Append(file, message)) = SizeOf(file) + message.size
<1> DEFINE longer == Append(file, message)
           n == Len(file)
<1>1. /\ longer \in Seq(StoredMessages) /\ n \in Nat /\ Len(longer) = n + 1
      /\ \A i \in 1 .. n : longer[i] = file[i]
      /\ longer[n + 1] = message
  OBVIOUS
<1> HIDE DEF longer, n
<1>2. PICK f \in [0 .. n -> Nat] : Sums(f, n, file) /\ SizeOf(file) = f[n]
  BY SizeIsSum DEF n
<1>3. PICK g \in [0 .. n + 1 -> Nat] :
        Sums(g, n + 1, longer) /\ SizeOf(longer) = g[n + 1]
  BY <1>1, SizeIsSum
<1>4. Sums(g, n, longer) /\ g[n + 1] = g[n] + longer[n + 1].size
  BY <1>1, <1>3 DEF Sums
<1>5. f[n] = g[n]
  BY <1>1, <1>2, <1>4, SumsAgree
<1> QED BY <1>1, <1>2, <1>3, <1>4, <1>5 DEF longer

LEMMA SizeOfFile ==
  ASSUME NEW file, file = Missing \/ file \in Seq(StoredMessages)
  PROVE  SizeOf(file) \in Nat
<1>1. CASE file = Missing
  BY <1>1 DEF SizeOf
<1>2. CASE file \in Seq(StoredMessages)
  BY <1>2, SizeIsSum
<1> QED BY <1>1, <1>2

LEMMA SizeOfNone == SizeOf(Missing) = 0 /\ SizeOf(<<>>) = 0
<1>1. <<>> \in Seq(StoredMessages) /\ Len(<<>>) = 0
  OBVIOUS
<1>2. PICK f \in [0 .. 0 -> Nat] : Sums(f, 0, <<>>) /\ SizeOf(<<>>) = f[0]
  BY <1>1, SizeIsSum
<1> QED BY <1>2 DEF SizeOf, Sums

LEMMA SizeOfOne ==
  ASSUME NEW message \in StoredMessages
  PROVE  SizeOf(<<message>>) = message.size
<1>1. <<>> \in Seq(StoredMessages) /\ Append(<<>>, message) = <<message>>
  OBVIOUS
<1>2. SizeOf(<<message>>) = SizeOf(<<>>) + message.size
  BY <1>1, SizeOfAppend
<1> QED BY <1>2, SizeOfNone DEF StoredMessages

-----------------------------------------------------------------------------
(* The log files.                                                          *)
LogMessages == [id : Int, size : Int]

IsSink(s) ==
  /\ DOMAIN s = {"stage", "usable", "size", "slot", "message"}
  /\ s.stage \in {"off", "ready", "remove", "shift"}
  /\ s.slot \in Int
  /\ s.message \in LogMessages

(* The inductive invariant of the log files.  The slot above the one to be *)
(* moved next has no file, so that a rename replaces none; the message in  *)
(* the sink's hands is newer than every stored one; and the slot beyond    *)
(* the last rotation, which the sink never moves, is empty once it runs.   *)
Shapes ==
  /\ DOMAIN logs = Slots
  /\ \A slot \in Slots : logs[slot] = Missing \/ logs[slot] \in Seq(LogMessages)
  /\ written \in Nat
  /\ IsSink(sink)

RotationIsSafe ==
  /\ sink.stage = "shift" =>
       sink.slot \in -1 .. MaximumFiles - 2 /\ logs[sink.slot + 1] = Missing
  /\ sink.stage # "off" => logs[MaximumFiles] = Missing
  /\ ~Rotating => sink.message = NoMessage
  /\ sink.message # NoMessage => sink.message.id = written

(* All stored messages are older than the one being logged.                *)
StoredIsOlder ==
  \A slot \in Slots : \A m \in Messages(logs[slot]) :
    m <= written /\ (sink.message # NoMessage => m < written)

LogsInv == Shapes /\ RotationIsSafe /\ StoredIsOlder /\ LogsAreInOrder

(* The order of one file.                                                  *)
Increasing(file) ==
  file # Missing => \A i, j \in DOMAIN file : i < j => file[i].id < file[j].id

LEMMA OrderOfFiles ==
  LogsAreInOrder <=>
    /\ \A older, newer \in Slots :
         older > newer =>
           \A m \in Messages(logs[older]), n \in Messages(logs[newer]) : m < n
    /\ \A slot \in Slots : Increasing(logs[slot])
<1>1. DOMAIN Kept = {slot \in Slots : logs[slot] # Missing}
  BY DEF Kept
<1> QED BY <1>1 DEF LogsAreInOrder, Increasing

LEMMA OrderOfFilesNext ==
  LogsAreInOrder' <=>
    /\ \A older, newer \in Slots :
         older > newer =>
           \A m \in Messages(logs'[older]), n \in Messages(logs'[newer]) : m < n
    /\ \A slot \in Slots : Increasing(logs'[slot])
<1>1. DOMAIN Kept' = {slot \in Slots : logs'[slot] # Missing}
  BY DEF Kept
<1> QED BY <1>1 DEF LogsAreInOrder, Increasing

LEMMA MessagesOfSmallFiles ==
  /\ Messages(Missing) = {}
  /\ Messages(<<>>) = {}
  /\ \A m \in LogMessages : <<m>> = Missing \/ Messages(<<m>>) = {m.id}
  /\ Increasing(<<>>) /\ Increasing(Missing)
  /\ \A m : Increasing(<<m>>)
  BY DEF Messages, Increasing

LEMMA MissingIsNoFile == Missing \notin Seq(LogMessages)
  BY ApplicationLogsAssumption DEF LogMessages

(* What a message adds to the active file.                                 *)
LEMMA AppendedMessage ==
  ASSUME NEW file \in Seq(LogMessages), NEW message \in LogMessages,
         Increasing(file), \A m \in Messages(file) : m < message.id
  PROVE  /\ Append(file, message) \in Seq(LogMessages)
         /\ Messages(Append(file, message)) = Messages(file) \union {message.id}
         /\ Increasing(Append(file, message))
<1> DEFINE longer == Append(file, message)
<1>1. /\ DOMAIN longer = 1 .. Len(file) + 1 /\ DOMAIN file = 1 .. Len(file)
      /\ Len(file) \in Nat
      /\ \A i \in 1 .. Len(file) : longer[i] = file[i]
      /\ longer[Len(file) + 1] = message
  OBVIOUS
<1>2. \A i \in DOMAIN file : file[i].id < message.id
  BY MissingIsNoFile DEF Messages
<1> HIDE DEF longer
<1>3. file # Missing /\ longer # Missing /\ longer \in Seq(LogMessages)
  BY MissingIsNoFile DEF longer
<1>4. Messages(longer) = Messages(file) \union {message.id}
  BY <1>1, <1>3 DEF Messages
<1>5. Increasing(longer)
  BY <1>1, <1>2, <1>3 DEF Increasing
<1> QED BY <1>3, <1>4, <1>5 DEF longer

(* A step of the files is described by what each slot holds after it; then *)
(* the invariant says the following of it.                                 *)
LEMMA LogsStep ==
  ASSUME LogsInv,
         DOMAIN logs' = Slots,
         \A slot \in Slots : logs'[slot] = Missing \/ logs'[slot] \in Seq(LogMessages),
         \A slot \in Slots : Increasing(logs'[slot]),
         written' \in Nat, RotationIsSafe', StoredIsOlder',
         IsSink(sink'),
         \A older, newer \in Slots : older > newer =>
           \A m \in Messages(logs'[older]), n \in Messages(logs'[newer]) : m < n
  PROVE  LogsInv'
<1>1. LogsAreInOrder'
  BY OrderOfFilesNext
<1> QED BY <1>1 DEF LogsInv, Shapes

(* Files that stay, or go.                                                 *)
LEMMA FilesStayOrGo ==
  ASSUME LogsInv, DOMAIN logs' = Slots,
         \A slot \in Slots :
           logs'[slot] = logs[slot] \/ logs'[slot] = Missing \/ logs'[slot] = <<>>,
         written' = written, RotationIsSafe', sink'.message \in {sink.message, NoMessage},
         IsSink(sink')
  PROVE  LogsInv'
<1>1. \A slot \in Slots :
        /\ logs'[slot] = Missing \/ logs'[slot] \in Seq(LogMessages)
        /\ Increasing(logs'[slot])
        /\ Messages(logs'[slot]) \subseteq Messages(logs[slot])
  <2>1. ASSUME NEW slot \in Slots, logs'[slot] = logs[slot]
        PROVE  /\ logs'[slot] = Missing \/ logs'[slot] \in Seq(LogMessages)
               /\ Increasing(logs'[slot])
    BY <2>1, OrderOfFiles DEF LogsInv, Shapes
  <2>2. <<>> \in Seq(LogMessages)
    OBVIOUS
  <2> QED BY <2>1, <2>2, MessagesOfSmallFiles
<1>2. StoredIsOlder'
  BY <1>1 DEF LogsInv, StoredIsOlder
<1>3. \A older, newer \in Slots : older > newer =>
        \A m \in Messages(logs'[older]), n \in Messages(logs'[newer]) : m < n
  BY <1>1, OrderOfFiles DEF LogsInv
<1> QED BY <1>1, <1>2, <1>3, LogsStep DEF LogsInv, Shapes

LEMMA NoMessageIsOne == NoMessage \in LogMessages
  BY DEF NoMessage, LogMessages

LEMMA ThrownSink ==
  ASSUME LogsInv
  PROVE  /\ IsSink(Thrown)
         /\ Thrown.stage \in {"off", "ready"}
         /\ sink.stage = "off" => Thrown.stage = "off" \/ Thrown.stage = "ready"
         /\ Thrown.message = NoMessage
  BY NoMessageIsOne DEF LogsInv, Shapes, RotationIsSafe, Rotating, IsSink, Thrown, Off

LEMMA OpenedSink ==
  ASSUME NEW size
  PROVE  /\ IsSink(Opened(size))
         /\ Opened(size).stage = "ready" /\ Opened(size).message = NoMessage
  BY NoMessageIsOne DEF Opened, IsSink

-----------------------------------------------------------------------------
LEMMA LaunchKeeps ==
  ASSUME LogsInv, InitializeLogging
  PROVE  LogsInv'
<1>1. PICK firstExpired \in Slots \union {MaximumFiles + 1} :
        \/ \E removed \in SUBSET Pruned(firstExpired) :
             logs' = Without(logs, removed) /\ sink' = Off
        \/ LET files == Without(logs, Pruned(firstExpired))
               active == IF files[0] = Missing THEN <<>> ELSE files[0]
           IN  /\ logs' = [files EXCEPT ![0] = active]
               /\ sink' = IF SizeOf(active) > MaximumSize
                          THEN [Opened(SizeOf(active)) EXCEPT !.stage = "remove"]
                          ELSE Opened(SizeOf(active))
  BY DEF InitializeLogging
<1>2. /\ 0 \in Slots /\ MaximumFiles \in Slots /\ MaximumFiles # 0
      /\ UNCHANGED written
  BY ApplicationLogsAssumption DEF InitializeLogging, Slots
<1>3. CASE \E removed \in SUBSET Pruned(firstExpired) :
             logs' = Without(logs, removed) /\ sink' = Off
  <2>1. /\ DOMAIN logs' = Slots
        /\ \A slot \in Slots : logs'[slot] = logs[slot] \/ logs'[slot] = Missing
    BY <1>3 DEF Without
  <2>2. IsSink(sink') /\ sink'.stage = "off" /\ sink'.message = NoMessage
    BY <1>3, NoMessageIsOne DEF Off, IsSink
  <2>3. RotationIsSafe'
    BY <2>2 DEF RotationIsSafe
  <2> QED BY <1>2, <2>1, <2>2, <2>3, FilesStayOrGo
<1>4. CASE LET files == Without(logs, Pruned(firstExpired))
               active == IF files[0] = Missing THEN <<>> ELSE files[0]
           IN  /\ logs' = [files EXCEPT ![0] = active]
               /\ sink' = IF SizeOf(active) > MaximumSize
                          THEN [Opened(SizeOf(active)) EXCEPT !.stage = "remove"]
                          ELSE Opened(SizeOf(active))
  <2> DEFINE files == Without(logs, Pruned(firstExpired))
             active == IF files[0] = Missing THEN <<>> ELSE files[0]
  <2>1. /\ DOMAIN files = Slots /\ files[MaximumFiles] = Missing
        /\ \A slot \in Slots : files[slot] = logs[slot] \/ files[slot] = Missing
    <3>1. MaximumFiles \in Pruned(firstExpired)
      BY <1>2, ApplicationLogsAssumption DEF Pruned, Slots
    <3> QED BY <1>2, <3>1 DEF Without
  <2>2. logs' = [files EXCEPT ![0] = active]
    BY <1>4
  <2> HIDE DEF files
  <2>3. /\ DOMAIN logs' = Slots /\ logs'[MaximumFiles] = Missing
        /\ \A slot \in Slots :
             logs'[slot] = logs[slot] \/ logs'[slot] = Missing \/ logs'[slot] = <<>>
    BY <1>2, <2>1, <2>2
  <2>4. /\ IsSink(sink') /\ sink'.message = NoMessage
        /\ sink'.stage \in {"ready", "remove"}
    BY <1>4, OpenedSink DEF Opened, IsSink
  <2>5. RotationIsSafe'
    BY <2>3, <2>4 DEF RotationIsSafe
  <2> QED BY <1>2, <2>3, <2>4, <2>5, FilesStayOrGo
<1> QED BY <1>1, <1>3, <1>4

LEMMA EndKeeps ==
  ASSUME LogsInv, End
  PROVE  LogsInv'
<1>1. IsSink(sink') /\ sink'.stage = "off" /\ sink'.message = NoMessage
  BY NoMessageIsOne DEF End, Off, IsSink
<1>2. RotationIsSafe'
  BY <1>1 DEF RotationIsSafe
<1> QED BY <1>1, <1>2, FilesStayOrGo DEF End, LogsInv, Shapes

LEMMA SameFilesKeep ==
  ASSUME LogsInv, UNCHANGED logVars
  PROVE  LogsInv'
  BY DEF logVars, LogsInv, Shapes, RotationIsSafe, Rotating, StoredIsOlder, LogsAreInOrder,
         Kept

LEMMA RemoveLastKeeps ==
  ASSUME LogsInv, RemoveLast
  PROVE  /\ LogsInv'
         /\ \A slot \in Slots : slot # LastRotation => logs'[slot] = logs[slot]
         /\ logs[MaximumFiles] = Missing
<1>1. /\ DOMAIN logs = Slots /\ LastRotation \in Slots /\ MaximumFiles - 2 \in Nat
      /\ logs[MaximumFiles] = Missing /\ LastRotation = MaximumFiles - 2 + 1
      /\ MaximumFiles \in Slots /\ LastRotation # MaximumFiles
  BY ApplicationLogsAssumption
     DEF RemoveLast, LogsInv, Shapes, RotationIsSafe, Slots, LastRotation
<1>2. CASE sink' = Thrown /\ UNCHANGED logs
  <2>1. IsSink(sink') /\ sink'.message = NoMessage /\ sink'.stage \in {"off", "ready"}
    BY <1>2, ThrownSink
  <2>2. RotationIsSafe'
    BY <1>1, <1>2, <2>1 DEF RotationIsSafe
  <2>3. LogsInv'
    BY <1>1, <1>2, <2>1, <2>2, FilesStayOrGo DEF RemoveLast
  <2> QED BY <1>1, <1>2, <2>3
<1>3. CASE /\ logs' = [logs EXCEPT ![LastRotation] = Missing]
           /\ sink' = [sink EXCEPT !.stage = "shift", !.usable = FALSE,
                                   !.slot = MaximumFiles - 2]
  <2>1. /\ IsSink(sink') /\ sink'.message = sink.message
        /\ sink'.stage = "shift" /\ sink'.slot = MaximumFiles - 2
    BY <1>1, <1>3 DEF LogsInv, Shapes, IsSink
  <2>2. /\ DOMAIN logs' = Slots /\ logs'[LastRotation] = Missing
        /\ \A slot \in Slots : slot # LastRotation => logs'[slot] = logs[slot]
    BY <1>1, <1>3
  <2>3. UNCHANGED written /\ Rotating'
    BY <2>1 DEF RemoveLast, Rotating
  <2>4. RotationIsSafe'
    BY <1>1, <2>1, <2>2, <2>3 DEF LogsInv, RotationIsSafe
  <2>5. LogsInv'
    BY <2>1, <2>2, <2>3, <2>4, FilesStayOrGo
  <2> QED BY <1>1, <2>2, <2>5
<1> QED BY <1>2, <1>3 DEF RemoveLast

(* The file moves into a slot that holds none.                             *)
LEMMA ShiftKeeps ==
  ASSUME LogsInv, Shift
  PROVE  LogsInv' /\ Stored \subseteq Stored'
<1> DEFINE slot == sink.slot
<1>1. /\ DOMAIN logs = Slots /\ slot \in Slots /\ slot + 1 \in Slots
      /\ slot \in 0 .. MaximumFiles - 2 /\ slot - 1 \in -1 .. MaximumFiles - 2
      /\ logs[slot + 1] = Missing /\ MaximumFiles \in Slots
      /\ logs[MaximumFiles] = Missing /\ slot + 1 # MaximumFiles
      /\ slot # MaximumFiles /\ slot # slot + 1 /\ slot - 1 + 1 = slot
  BY ApplicationLogsAssumption
     DEF Shift, LogsInv, Shapes, RotationIsSafe, Slots, IsSink
<1>2. CASE sink' = Thrown /\ UNCHANGED logs
  <2>1. IsSink(sink') /\ sink'.message = NoMessage /\ sink'.stage \in {"off", "ready"}
    BY <1>2, ThrownSink
  <2>2. RotationIsSafe'
    BY <1>1, <1>2, <2>1 DEF RotationIsSafe
  <2>3. LogsInv'
    BY <1>1, <1>2, <2>1, <2>2, FilesStayOrGo DEF Shift
  <2> QED BY <1>2, <2>3 DEF Stored
<1>3. CASE /\ logs' = IF logs[slot] = Missing THEN logs ELSE Moved(slot)
           /\ sink' = [sink EXCEPT !.slot = @ - 1]
  <2>1. /\ IsSink(sink') /\ sink'.message = sink.message
        /\ sink'.stage = "shift" /\ sink'.slot = slot - 1
    BY <1>1, <1>3 DEF Shift, LogsInv, Shapes, IsSink
  <2>2. /\ DOMAIN logs' = Slots /\ logs'[slot] = Missing /\ logs'[slot + 1] = logs[slot]
        /\ \A other \in Slots :
             other # slot /\ other # slot + 1 => logs'[other] = logs[other]
    BY <1>1, <1>3 DEF Moved
  <2> HIDE DEF slot
  <2>3. UNCHANGED written
    BY DEF Shift
  <2>4. RotationIsSafe'
    BY <1>1, <2>1, <2>2, <2>3 DEF LogsInv, RotationIsSafe, Rotating
  <2>5. \A other \in Slots :
          /\ logs'[other] = Missing \/ logs'[other] \in Seq(LogMessages)
          /\ Increasing(logs'[other])
    BY <1>1, <2>2, OrderOfFiles, MessagesOfSmallFiles DEF LogsInv, Shapes
  <2>6. /\ Messages(logs'[slot]) = {}
        /\ Messages(logs'[slot + 1]) = Messages(logs[slot])
        /\ Messages(logs[slot + 1]) = {}
        /\ \A other \in Slots : other # slot /\ other # slot + 1 =>
             Messages(logs'[other]) = Messages(logs[other])
    BY <1>1, <2>2, MessagesOfSmallFiles
  <2>7. StoredIsOlder'
    BY <1>1, <2>1, <2>3, <2>6 DEF LogsInv, StoredIsOlder
  <2>8. ASSUME NEW older \in Slots, NEW newer \in Slots, older > newer,
               NEW m \in Messages(logs'[older]), NEW n \in Messages(logs'[newer])
        PROVE  m < n
    <3>1. \A a, b \in Slots : a > b =>
            \A i \in Messages(logs[a]), j \in Messages(logs[b]) : i < j
      BY OrderOfFiles DEF LogsInv
    <3>2. older # slot /\ newer # slot
      BY <2>6, <2>8
    <3>3. CASE older = slot + 1
      BY <1>1, <2>6, <2>8, <3>1, <3>2, <3>3 DEF Slots
    <3>4. CASE newer = slot + 1
      <4>1. older > slot
        BY <1>1, <2>8, <3>4 DEF Slots
      <4> QED BY <1>1, <2>6, <2>8, <3>1, <3>2, <3>4, <4>1 DEF Slots
    <3> QED BY <2>6, <2>8, <3>1, <3>2, <3>3, <3>4
  <2>9. LogsInv'
    BY <2>1, <2>2, <2>3, <2>4, <2>5, <2>7, <2>8, LogsStep DEF LogsInv, Shapes
  <2>10. Stored \subseteq Stored'
    BY <1>1, <2>6 DEF Stored
  <2> QED BY <2>9, <2>10
<1> QED BY <1>2, <1>3 DEF Shift

LEMMA OpenActiveKeeps ==
  ASSUME LogsInv, OpenActive
  PROVE  LogsInv' /\ Stored \subseteq Stored'
<1>1. /\ DOMAIN logs = Slots /\ 0 \in Slots /\ logs[0] = Missing
      /\ MaximumFiles \in Slots /\ MaximumFiles # 0
      /\ logs[MaximumFiles] = Missing /\ sink.message \in LogMessages
      /\ UNCHANGED written
  BY ApplicationLogsAssumption
     DEF OpenActive, LogsInv, Shapes, RotationIsSafe, Slots, IsSink
<1>2. CASE sink' = Thrown /\ UNCHANGED logs
  <2>1. IsSink(sink') /\ sink'.message = NoMessage /\ sink'.stage \in {"off", "ready"}
    BY <1>2, ThrownSink
  <2>2. RotationIsSafe'
    BY <1>1, <1>2, <2>1 DEF RotationIsSafe
  <2>3. LogsInv'
    BY <1>1, <1>2, <2>1, <2>2, FilesStayOrGo
  <2> QED BY <1>2, <2>3 DEF Stored
<1>3. CASE ~(sink' = Thrown /\ UNCHANGED logs)
  <2> DEFINE file == logs'[0]
  <2>1. /\ logs' = [logs EXCEPT ![0] = file]
        /\ \/ file = <<>>
           \/ file = <<sink.message>> /\ sink.message # NoMessage
        /\ IsSink(sink') /\ sink'.message = NoMessage /\ sink'.stage = "ready"
    <3>1. CASE /\ logs' = [logs EXCEPT ![0] = IF sink.message = NoMessage
                                              THEN <<>> ELSE <<sink.message>>]
               /\ sink' = Opened(sink.message.size)
      BY <1>1, <3>1, OpenedSink
    <3>2. CASE /\ logs' = [logs EXCEPT ![0] = <<>>]
               /\ sink' = [Opened(0) EXCEPT !.usable = FALSE]
      BY <1>1, <3>2, NoMessageIsOne DEF Opened, IsSink
    <3> QED BY <1>3, <3>1, <3>2 DEF OpenActive
  <2> HIDE DEF file
  <2>2. /\ DOMAIN logs' = Slots /\ logs'[0] = file
        /\ \A slot \in Slots : slot # 0 => logs'[slot] = logs[slot]
    BY <1>1, <2>1
  <2>3. /\ file \in Seq(LogMessages) /\ Increasing(file)
        /\ \A m \in Messages(file) :
             m = sink.message.id /\ sink.message # NoMessage
    <3>1. <<sink.message>> \in Seq(LogMessages) /\ <<>> \in Seq(LogMessages)
      BY <1>1
    <3> QED BY <1>1, <2>1, <3>1, MessagesOfSmallFiles, MissingIsNoFile
  <2>4. RotationIsSafe'
    BY <1>1, <2>1, <2>2 DEF RotationIsSafe
  <2>5. \A slot \in Slots :
          /\ logs'[slot] = Missing \/ logs'[slot] \in Seq(LogMessages)
          /\ Increasing(logs'[slot])
    BY <2>2, <2>3, OrderOfFiles DEF LogsInv, Shapes
  <2>6. \A slot \in Slots : \A m \in Messages(logs[slot]) :
          m <= written /\ (sink.message # NoMessage => m < sink.message.id)
    BY DEF LogsInv, StoredIsOlder, RotationIsSafe
  <2>7. StoredIsOlder'
    <3>1. sink.message # NoMessage => sink.message.id <= written
      BY <1>1 DEF LogsInv, RotationIsSafe, Shapes
    <3> QED BY <1>1, <2>1, <2>2, <2>3, <2>6, <3>1 DEF StoredIsOlder
  <2>8. \A older, newer \in Slots : older > newer =>
          \A m \in Messages(logs'[older]), n \in Messages(logs'[newer]) : m < n
    <3>1. \A older \in Slots : ~(0 > older)
      BY DEF Slots
    <3> QED BY <2>2, <2>3, <2>6, <3>1, OrderOfFiles DEF LogsInv
  <2>9. LogsInv'
    BY <1>1, <2>1, <2>2, <2>4, <2>5, <2>7, <2>8, LogsStep DEF LogsInv, Shapes
  <2>10. Messages(logs[0]) = {}
    BY <1>1, MessagesOfSmallFiles
  <2>11. Stored \subseteq Stored'
    BY <2>2, <2>10 DEF Stored
  <2> QED BY <2>9, <2>11
<1> QED BY <1>2, <1>3

LEMMA MessagesAreNumbers ==
  ASSUME LogsInv, NEW slot \in Slots
  PROVE  Messages(logs[slot]) \subseteq Int
<1>1. CASE logs[slot] = Missing
  BY <1>1, MessagesOfSmallFiles
<1>2. CASE logs[slot] \in Seq(LogMessages)
  <2> DEFINE file == logs[slot]
  <2>1. \A i \in DOMAIN file : file[i] \in LogMessages
    BY <1>2
  <2>2. Messages(file) = {file[i].id : i \in DOMAIN file}
    BY <1>2, MissingIsNoFile DEF Messages
  <2>3. \A i \in DOMAIN file : file[i].id \in Int
    BY <2>1 DEF LogMessages
  <2> QED BY <2>2, <2>3
<1> QED BY <1>1, <1>2 DEF LogsInv, Shapes

LEMMA LogKeeps ==
  ASSUME LogsInv, NEW size \in Sizes, Log(size)
  PROVE  LogsInv' /\ Stored \subseteq Stored'
<1> DEFINE message == [id |-> written + 1,
                       size |-> IF size > MaximumSize THEN MaximumSize ELSE size]
<1>1. /\ message \in LogMessages /\ message.id = written + 1
      /\ written \in Nat /\ written' = written + 1 /\ written' \in Nat
      /\ 0 \in Slots /\ DOMAIN logs = Slots /\ IsSink(sink)
      /\ MaximumFiles \in Slots /\ MaximumFiles # 0
      /\ sink.message = NoMessage
      /\ message # NoMessage
  BY ApplicationLogsAssumption
     DEF Log, LogsInv, Shapes, RotationIsSafe, Rotating, LogMessages, Slots, NoMessage
<1>2. \A slot \in Slots : \A m \in Messages(logs[slot]) : m < written + 1 /\ m <= written'
  BY <1>1, MessagesAreNumbers DEF LogsInv, StoredIsOlder
<1> HIDE DEF message
<1>3. CASE UNCHANGED logs
  <2>1. IsSink(sink') /\ RotationIsSafe' /\ StoredIsOlder'
    <3>1. CASE sink' = sink
      BY <1>1, <1>2, <1>3, <3>1
         DEF LogsInv, RotationIsSafe, Rotating, StoredIsOlder
    <3>2. CASE sink' = [sink EXCEPT !.stage = "remove", !.message = message]
               /\ sink.stage = "ready"
      <4>1. IsSink(sink') /\ sink'.message = message /\ sink'.stage = "remove"
        BY <1>1, <3>2 DEF IsSink
      <4> QED BY <1>1, <1>2, <1>3, <3>2, <4>1
              DEF LogsInv, RotationIsSafe, Rotating, StoredIsOlder
    <3>3. CASE sink' = Thrown /\ sink.stage = "ready"
      BY <1>1, <1>2, <1>3, <3>3, ThrownSink
         DEF LogsInv, RotationIsSafe, Rotating, StoredIsOlder
    <3>4. CASE sink' = [sink EXCEPT !.size = @ + message.size] /\ sink.stage = "ready"
      <4>1. IsSink(sink') /\ sink'.message = sink.message /\ sink'.stage = "ready"
        BY <1>1, <3>4 DEF IsSink
      <4> QED BY <1>1, <1>2, <1>3, <3>4, <4>1
              DEF LogsInv, RotationIsSafe, Rotating, StoredIsOlder
    <3> QED BY <3>1, <3>2, <3>3, <3>4 DEF Log, message
  <2>2. LogsInv'
    BY <1>1, <1>3, <2>1, LogsStep, OrderOfFiles DEF LogsInv, Shapes
  <2> QED BY <1>3, <2>2 DEF Stored
<1>4. CASE /\ sink.stage = "ready"
           /\ logs' = [logs EXCEPT ![0] =
                 IF @ = Missing THEN <<message>> ELSE Append(@, message)]
           /\ sink' = [sink EXCEPT !.size = @ + message.size]
  <2> DEFINE file == logs'[0]
  <2>1. /\ DOMAIN logs' = Slots
        /\ file = IF logs[0] = Missing THEN <<message>> ELSE Append(logs[0], message)
        /\ \A slot \in Slots : slot # 0 => logs'[slot] = logs[slot]
        /\ IsSink(sink') /\ sink'.message = NoMessage /\ sink'.stage = "ready"
    BY <1>1, <1>4 DEF IsSink
  <2>2. /\ file \in Seq(LogMessages) /\ Increasing(file)
        /\ Messages(file) = Messages(logs[0]) \union {written + 1}
    <3>1. CASE logs[0] = Missing
      <4>1. file = <<message>> /\ <<message>> \in Seq(LogMessages)
        BY <1>1, <2>1, <3>1
      <4>2. Messages(<<message>>) = {message.id} /\ Increasing(<<message>>)
        BY <1>1, <4>1, MessagesOfSmallFiles, MissingIsNoFile
      <4> QED BY <1>1, <3>1, <4>1, <4>2, MessagesOfSmallFiles
    <3>2. CASE logs[0] # Missing
      <4>1. logs[0] \in Seq(LogMessages) /\ Increasing(logs[0])
        BY <1>1, <3>2, OrderOfFiles DEF LogsInv, Shapes
      <4> QED BY <1>1, <1>2, <2>1, <3>2, <4>1, AppendedMessage
    <3> QED BY <3>1, <3>2
  <2> HIDE DEF file
  <2>3. \A slot \in Slots :
          /\ logs'[slot] = Missing \/ logs'[slot] \in Seq(LogMessages)
          /\ Increasing(logs'[slot])
    BY <2>1, <2>2, OrderOfFiles DEF LogsInv, Shapes, file
  <2>4. RotationIsSafe'
    BY <1>1, <1>4, <2>1 DEF LogsInv, RotationIsSafe
  <2>5. StoredIsOlder'
    <3>1. \A m \in Messages(file) : m <= written'
      BY <1>1, <1>2, <2>2
    <3> QED BY <1>1, <1>2, <2>1, <3>1 DEF StoredIsOlder, file
  <2>6. \A older, newer \in Slots : older > newer =>
          \A m \in Messages(logs'[older]), n \in Messages(logs'[newer]) : m < n
    <3>1. \A older \in Slots : ~(0 > older)
      BY DEF Slots
    <3> QED BY <1>2, <2>1, <2>2, <3>1, OrderOfFiles DEF LogsInv, file
  <2>7. LogsInv'
    BY <1>1, <2>1, <2>3, <2>4, <2>5, <2>6, LogsStep
  <2>8. Stored \subseteq Stored'
    BY <2>1, <2>2 DEF Stored, file
  <2> QED BY <2>7, <2>8
<1> QED BY <1>3, <1>4 DEF Log, message

-----------------------------------------------------------------------------
(* All other steps leave the log files and the sink alone.                 *)
LEMMA OtherStepsKeep ==
  ASSUME \/ OpenPath \/ RetryWithFrameRate \/ DismissQuestion \/ FinishImport
         \/ StartExport \/ FinishExport \/ BundleCommand \/ BundleStep
  PROVE  UNCHANGED logVars
<1>1. CASE BundleCommand
  BY <1>1 DEF BundleCommand, StartBundle
<1>2. CASE BundleStep
  BY <1>2 DEF BundleStep, BundleWorker, OpenLogDirectory, MeetLog, ListLogs,
              PrepareBundle, ReadLog, CommitBundle, FinishBundle
<1>3. CASE OpenPath \/ RetryWithFrameRate
  BY <1>3 DEF OpenPath, RetryWithFrameRate, StartImport
<1>4. CASE DismissQuestion \/ FinishImport \/ StartExport \/ FinishExport
  BY <1>4 DEF DismissQuestion, FinishImport, StartExport, FinishExport
<1> QED BY <1>1, <1>2, <1>3, <1>4

LEMMA InitLogs == Init => LogsInv
<1> SUFFICES ASSUME Init PROVE LogsInv
  OBVIOUS
<1>1. IsSink(sink) /\ sink.stage = "off" /\ sink.message = NoMessage /\ written = 0
  BY NoMessageIsOne DEF Init, Off, IsSink
<1>2. /\ DOMAIN logs = Slots
      /\ \A slot \in Slots :
           logs[slot] = Missing \/ logs[slot] = <<[id |-> -slot, size |-> 1]>>
  BY DEF Init
<1>3. ASSUME NEW slot \in Slots
      PROVE  /\ logs[slot] = Missing \/ logs[slot] \in Seq(LogMessages)
             /\ Increasing(logs[slot])
             /\ Messages(logs[slot]) \subseteq {-slot}
  <2> DEFINE m == [id |-> -slot, size |-> 1]
  <2>1. m \in LogMessages /\ m.id = -slot
    BY DEF LogMessages, Slots
  <2>2. <<m>> \in Seq(LogMessages)
    BY <2>1
  <2>3. Messages(<<m>>) = {-slot}
    BY <2>1, <2>2, MessagesOfSmallFiles, MissingIsNoFile
  <2>4. CASE logs[slot] = Missing
    BY <2>4, MessagesOfSmallFiles
  <2>5. CASE logs[slot] = <<m>>
    BY <2>2, <2>3, <2>5, MessagesOfSmallFiles
  <2> QED BY <1>2, <2>4, <2>5
<1>4. LogsAreInOrder
  <2>1. \A older, newer \in Slots : older > newer =>
          \A m \in Messages(logs[older]), n \in Messages(logs[newer]) : m < n
    BY <1>3 DEF Slots
  <2> QED BY <1>3, <2>1, OrderOfFiles
<1>5. StoredIsOlder
  BY <1>1, <1>3 DEF StoredIsOlder, Slots
<1>6. RotationIsSafe
  BY <1>1 DEF RotationIsSafe
<1> QED BY <1>1, <1>2, <1>3, <1>4, <1>5, <1>6 DEF LogsInv, Shapes

LEMMA StepKeepsLogs == LogsInv /\ [Next]_vars => LogsInv'
<1> SUFFICES ASSUME LogsInv, [Next]_vars PROVE LogsInv'
  OBVIOUS
<1>1. CASE UNCHANGED vars
  BY <1>1, SameFilesKeep DEF vars
<1>2. CASE Launch
  BY <1>2, LaunchKeeps DEF Launch
<1>3. CASE Close \/ Crash
  BY <1>3, EndKeeps DEF Close, Crash
<1>4. CASE LogMessage
  BY <1>4, LogKeeps DEF LogMessage
<1>5. CASE RotateStep
  BY <1>5, RemoveLastKeeps, ShiftKeeps, OpenActiveKeeps DEF RotateStep, Watched
<1>6. CASE \/ OpenPath \/ RetryWithFrameRate \/ DismissQuestion \/ FinishImport
           \/ StartExport \/ FinishExport \/ BundleCommand \/ BundleStep
  BY <1>6, OtherStepsKeep, SameFilesKeep
<1> QED BY <1>1, <1>2, <1>3, <1>4, <1>5, <1>6 DEF Next

THEOREM LogsInvariance == Spec => []LogsInv
  BY InitLogs, StepKeepsLogs, PTL DEF Spec

(* The log files are in the order of their messages, at every moment of a  *)
(* rotation, a failure or a kill.                                          *)
THEOREM LogsOrdered == Spec => []LogsAreInOrder
<1>1. LogsInv => LogsAreInOrder
  BY DEF LogsInv
<1> QED BY <1>1, LogsInvariance, PTL

(* What is removed for want of room is older than all that stays.          *)
LEMMA RemovedIsOldest ==
  ASSUME LogsInv, RemoveLast, NEW lost \in Stored \ Stored', NEW kept \in Stored'
  PROVE  lost < kept
<1>1. /\ LogsInv' /\ logs[MaximumFiles] = Missing
      /\ \A slot \in Slots : slot # LastRotation => logs'[slot] = logs[slot]
  BY RemoveLastKeeps
<1>2. PICK from \in Slots : lost \in Messages(logs[from])
  BY DEF Stored
<1>3. from = LastRotation
  BY <1>1, <1>2 DEF Stored
<1>4. PICK to \in Slots : kept \in Messages(logs'[to])
  BY DEF Stored
<1>5. CASE to = LastRotation
  <2>1. logs' = logs \/ logs'[LastRotation] = Missing
    BY <1>3 DEF RemoveLast, LogsInv, Shapes
  <2> QED BY <1>2, <1>4, <1>5, <2>1, MessagesOfSmallFiles DEF Stored
<1>6. CASE to # LastRotation
  <2>1. kept \in Messages(logs[to]) /\ to # MaximumFiles
    BY <1>1, <1>4, <1>6, MessagesOfSmallFiles
  <2>2. from > to
    BY <1>3, <1>6, <2>1, ApplicationLogsAssumption DEF Slots, LastRotation
  <2> QED BY <1>2, <2>1, <2>2, OrderOfFiles DEF LogsInv
<1> QED BY <1>5, <1>6

LEMMA StepLosesOldest ==
  LogsInv /\ [Next]_vars =>
    [\/ Launch
     \/ \A lost \in Stored \ Stored', kept \in Stored' : lost < kept]_vars
<1> SUFFICES ASSUME LogsInv, Next, ~Launch
             PROVE  \A lost \in Stored \ Stored', kept \in Stored' : lost < kept
  OBVIOUS
<1>1. CASE UNCHANGED logs
  BY <1>1 DEF Stored
<1>2. CASE Close \/ Crash
  BY <1>1, <1>2 DEF Close, Crash, End
<1>3. CASE LogMessage
  BY <1>3, LogKeeps DEF LogMessage
<1>4. CASE RotateStep
  BY <1>4, RemovedIsOldest, ShiftKeeps, OpenActiveKeeps DEF RotateStep, Watched
<1>5. CASE \/ OpenPath \/ RetryWithFrameRate \/ DismissQuestion \/ FinishImport
           \/ StartExport \/ FinishExport \/ BundleCommand \/ BundleStep
  BY <1>1, <1>5, OtherStepsKeep DEF logVars
<1> QED BY <1>2, <1>3, <1>4, <1>5 DEF Next

(* A step other than a launch loses the oldest messages or none: no        *)
(* rename replaces a file, however many rotations stopped half-way.        *)
THEOREM OldestLost == Spec => OnlyTheOldestIsLost
  BY LogsInvariance, StepLosesOldest, PTL DEF Spec, OnlyTheOldestIsLost

-----------------------------------------------------------------------------
(* The shell asks busy_ of the view model, which has to be set as long as  *)
(* the worker is anywhere but idle.                                        *)
WorkerFields ==
  {"stage", "replace", "unmet", "met", "listed", "count", "archive", "rotated", "before"}

WorkerIsBusy ==
  /\ DOMAIN worker = WorkerFields
  /\ worker.stage # "idle" => busy

LEMMA StepKeepsWorker == WorkerIsBusy /\ [Next]_vars => WorkerIsBusy'
<1> SUFFICES ASSUME WorkerIsBusy, [Next]_vars PROVE WorkerIsBusy'
  OBVIOUS
<1>1. CASE UNCHANGED bundleVars
  BY <1>1 DEF bundleVars, WorkerIsBusy
<1>2. CASE Close \/ Crash
  BY <1>2 DEF Close, Crash, End, WorkerIsBusy, WorkerFields, Idle
<1>3. CASE BundleCommand
  BY <1>3 DEF BundleCommand, StartBundle, WorkerIsBusy, WorkerFields, Idle
<1>4. CASE BundleStep
  <2>1. CASE FinishBundle
    BY <2>1 DEF FinishBundle, WorkerIsBusy, WorkerFields, Idle
  <2>2. CASE OpenLogDirectory \/ MeetLog \/ ListLogs \/ PrepareBundle
    BY <2>2 DEF OpenLogDirectory, MeetLog, ListLogs, PrepareBundle, WorkerIsBusy, WorkerFields, Ended, Idle
  <2>3. CASE ReadLog
    BY <2>3 DEF ReadLog, WorkerIsBusy, WorkerFields, Ended, Idle
  <2>4. CASE CommitBundle
    BY <2>4 DEF CommitBundle, WorkerIsBusy, WorkerFields, Ended, Idle
  <2> QED BY <1>4, <2>1, <2>2, <2>3, <2>4 DEF BundleStep, BundleWorker
<1>5. CASE RotateStep
  BY <1>5 DEF RotateStep, Watched, WorkerIsBusy
<1>6. CASE Launch \/ LogMessage
  BY <1>1, <1>6 DEF Launch, LogMessage
<1>7. CASE \/ OpenPath \/ RetryWithFrameRate \/ DismissQuestion \/ FinishImport
           \/ StartExport \/ FinishExport
  BY <1>1, <1>7 DEF OpenPath, RetryWithFrameRate, StartImport, DismissQuestion,
                    FinishImport, StartExport, FinishExport
<1>8. CASE UNCHANGED vars
  BY <1>1, <1>8 DEF vars
<1> QED BY <1>2, <1>3, <1>4, <1>5, <1>6, <1>7, <1>8 DEF Next

(* A window that closes at the user's request leaves nothing running.      *)
THEOREM NothingLeftRunning == Spec => CloseLeavesNothingRunning
<1>1. Init => WorkerIsBusy
  BY DEF Init, WorkerIsBusy, WorkerFields, Idle
<1>2. WorkerIsBusy /\ [Next]_vars =>
        [Close => document # "importing" /\ ~ exporting /\ worker.stage = "idle"]_vars
  BY DEF WorkerIsBusy, Close, IsBusy, IsDocumentBusy
<1> QED BY <1>1, <1>2, StepKeepsWorker, PTL DEF Spec, CloseLeavesNothingRunning

-----------------------------------------------------------------------------
(* The sizes of the files.  The sink's own count is not read again, so it  *)
(* has to stay at least what the active file holds, also after a rotation  *)
(* that stopped half-way; a message is no longer than the maximum.         *)
SizesAreCounted ==
  /\ \A slot \in Slots : logs[slot] = Missing \/ logs[slot] \in Seq(StoredMessages)
  /\ \A slot \in Slots : SizeOf(logs[slot]) <= MaximumSize
  /\ sink.size \in Nat
  /\ sink.message \in StoredMessages
  /\ sink.message.size <= MaximumSize
  /\ sink.stage # "off" => SizeOf(logs[0]) <= sink.size

SizesInv == LogsInv /\ SizesAreCounted

(* Files that stay or move keep their sizes.                               *)
LEMMA SizesStay ==
  ASSUME SizesAreCounted,
         \A slot \in Slots :
           \/ logs'[slot] = Missing
           \/ logs'[slot] = <<>>
           \/ \E from \in Slots : logs'[slot] = logs[from],
         sink'.size \in Nat, sink'.message \in StoredMessages,
         sink'.message.size <= MaximumSize,
         sink'.stage # "off" => SizeOf(logs'[0]) <= sink'.size
  PROVE  SizesAreCounted'
<1>1. <<>> \in Seq(StoredMessages)
  OBVIOUS
<1>2. MaximumSize \in Nat
  BY ApplicationLogsAssumption
<1>3. ASSUME NEW slot \in Slots
      PROVE  /\ logs'[slot] = Missing \/ logs'[slot] \in Seq(StoredMessages)
             /\ SizeOf(logs'[slot]) <= MaximumSize
  <2>1. CASE logs'[slot] = Missing
    BY <1>2, <2>1, SizeOfNone
  <2>2. CASE logs'[slot] = <<>>
    <3>1. SizeOf(logs'[slot]) = 0
      BY Zenon, <2>2, SizeOfNone
    <3> QED BY <1>1, <1>2, <2>2, <3>1
  <2>3. CASE \E from \in Slots : logs'[slot] = logs[from]
    <3>1. PICK from \in Slots : logs'[slot] = logs[from]
      BY <2>3
    <3> QED BY Zenon, <3>1 DEF SizesAreCounted
  <2> QED BY <2>1, <2>2, <2>3
<1> QED BY <1>3 DEF SizesAreCounted

LEMMA NoMessageIsStored ==
  NoMessage \in StoredMessages /\ NoMessage.size = 0 /\ MaximumSize \in Nat
  /\ 0 \in Slots
  BY ApplicationLogsAssumption DEF NoMessage, StoredMessages, Slots

LEMMA SinkThrows ==
  ASSUME SizesInv
  PROVE  /\ Thrown.size \in Nat /\ Thrown.message = NoMessage
         /\ Thrown.stage # "off" => Thrown.size = sink.size
         /\ sink.stage = "off" \/ SizeOf(logs[0]) <= sink.size
  BY DEF SizesInv, LogsInv, Shapes, RotationIsSafe, SizesAreCounted, Rotating, IsSink,
         Thrown, Off

LEMMA InitSizes == Init => SizesAreCounted
<1> SUFFICES ASSUME Init PROVE SizesAreCounted
  OBVIOUS
<1>1. ASSUME NEW slot \in Slots
      PROVE  /\ logs[slot] = Missing \/ logs[slot] \in Seq(StoredMessages)
             /\ SizeOf(logs[slot]) <= MaximumSize
  <2> DEFINE message == [id |-> -slot, size |-> 1]
  <2>1. message \in StoredMessages /\ message.size = 1
    BY DEF StoredMessages, Slots
  <2>2. SizeOf(<<message>>) = 1 /\ <<message>> \in Seq(StoredMessages)
    <3> HIDE DEF message
    <3> QED BY <2>1, SizeOfOne
  <2>3. logs[slot] = Missing \/ logs[slot] = <<message>>
    BY DEF Init
  <2>4. MaximumSize \in Nat /\ MaximumSize >= 1
    BY ApplicationLogsAssumption
  <2> HIDE DEF message
  <2>5. CASE logs[slot] = Missing
    BY <2>4, <2>5, SizeOfNone
  <2>6. CASE logs[slot] = <<message>>
    <3>1. SizeOf(logs[slot]) = 1
      BY Zenon, <2>2, <2>6
    <3> QED BY <2>2, <2>4, <2>6, <3>1
  <2> QED BY <2>3, <2>5, <2>6
<1>2. sink.size = 0 /\ sink.message = NoMessage /\ sink.stage = "off"
  BY DEF Init, Off
<1> QED BY <1>1, <1>2, NoMessageIsStored DEF SizesAreCounted

LEMMA LaunchKeepsSizes ==
  ASSUME SizesInv, InitializeLogging
  PROVE  SizesAreCounted'
<1>1. PICK firstExpired \in Slots \union {MaximumFiles + 1} :
        \/ \E removed \in SUBSET Pruned(firstExpired) :
             logs' = Without(logs, removed) /\ sink' = Off
        \/ LET files == Without(logs, Pruned(firstExpired))
               active == IF files[0] = Missing THEN <<>> ELSE files[0]
           IN  /\ logs' = [files EXCEPT ![0] = active]
               /\ sink' = IF SizeOf(active) > MaximumSize
                          THEN [Opened(SizeOf(active)) EXCEPT !.stage = "remove"]
                          ELSE Opened(SizeOf(active))
  BY DEF InitializeLogging
<1>2. CASE \E removed \in SUBSET Pruned(firstExpired) :
             logs' = Without(logs, removed) /\ sink' = Off
  <2>1. \A slot \in Slots : logs'[slot] = logs[slot] \/ logs'[slot] = Missing
    BY <1>2 DEF Without
  <2>2. sink'.size = 0 /\ sink'.message = NoMessage /\ sink'.stage = "off"
    BY <1>2 DEF Off
  <2> QED BY <2>1, <2>2, SizesStay, NoMessageIsStored DEF SizesInv
<1>3. CASE LET files == Without(logs, Pruned(firstExpired))
               active == IF files[0] = Missing THEN <<>> ELSE files[0]
           IN  /\ logs' = [files EXCEPT ![0] = active]
               /\ sink' = IF SizeOf(active) > MaximumSize
                          THEN [Opened(SizeOf(active)) EXCEPT !.stage = "remove"]
                          ELSE Opened(SizeOf(active))
  <2> DEFINE files == Without(logs, Pruned(firstExpired))
             active == IF files[0] = Missing THEN <<>> ELSE files[0]
  <2>1. /\ DOMAIN files = Slots
        /\ \A slot \in Slots : files[slot] = logs[slot] \/ files[slot] = Missing
    BY DEF Without
  <2>2. logs' = [files EXCEPT ![0] = active]
    BY <1>3
  <2>3. \A slot \in Slots :
          logs'[slot] = logs[slot] \/ logs'[slot] = Missing \/ logs'[slot] = <<>>
    BY <2>1, <2>2
  <2>4. logs'[0] = active /\ (active = <<>> \/ active = logs[0])
    BY <2>1, <2>2, NoMessageIsStored
  <2>5. SizeOf(active) \in Nat /\ SizeOf(active) <= MaximumSize
    <3> HIDE DEF active
    <3>1. \/ active = <<>>
          \/ /\ active = logs[0] /\ SizeOf(logs[0]) <= MaximumSize
             /\ logs[0] = Missing \/ logs[0] \in Seq(StoredMessages)
      BY <2>4, NoMessageIsStored DEF SizesInv, SizesAreCounted
    <3> QED BY <3>1, SizeOfNone, SizeOfFile, NoMessageIsStored
  <2>6. sink' = IF SizeOf(active) > MaximumSize
                THEN [Opened(SizeOf(active)) EXCEPT !.stage = "remove"]
                ELSE Opened(SizeOf(active))
    BY <1>3
  <2> HIDE DEF files, active
  <2>7. sink' = Opened(SizeOf(active))
    BY <2>5, <2>6, NoMessageIsStored
  <2>8. sink'.size = SizeOf(active) /\ sink'.message = NoMessage
    BY <2>7 DEF Opened
  <2>9. SizeOf(logs'[0]) <= sink'.size
    BY <2>4, <2>5, <2>8
  <2> QED BY <2>3, <2>5, <2>8, <2>9, SizesStay, NoMessageIsStored DEF SizesInv
<1> QED BY <1>1, <1>2, <1>3

LEMMA LogKeepsSizes ==
  ASSUME SizesInv, NEW size \in Sizes, Log(size)
  PROVE  SizesAreCounted'
<1> DEFINE message == [id |-> written + 1,
                       size |-> IF size > MaximumSize THEN MaximumSize ELSE size]
<1>1. message \in StoredMessages /\ message.size \in Nat /\ message.size <= MaximumSize
  BY ApplicationLogsAssumption DEF SizesInv, LogsInv, Shapes, StoredMessages
<1>2. IsSink(sink) /\ sink.size \in Nat /\ DOMAIN logs = Slots
  BY DEF SizesInv, LogsInv, Shapes, SizesAreCounted
<1> HIDE DEF message
<1>3. CASE UNCHANGED logs
  <2>1. \A slot \in Slots : \E from \in Slots : logs'[slot] = logs[from]
    BY <1>3
  <2>2. /\ sink'.size \in Nat /\ sink'.message \in StoredMessages
        /\ sink'.message.size <= MaximumSize
        /\ sink'.stage # "off" => SizeOf(logs'[0]) <= sink'.size
    <3>1. CASE sink' = sink
      BY <1>3, <3>1 DEF SizesInv, SizesAreCounted
    <3>2. CASE sink' = [sink EXCEPT !.stage = "remove", !.message = message]
               /\ sink.stage = "ready"
      <4>1. sink'.size = sink.size /\ sink'.message = message
        BY <1>2, <3>2 DEF IsSink
      <4> QED BY <1>1, <1>3, <3>2, <4>1 DEF SizesInv, SizesAreCounted
    <3>3. CASE sink' = Thrown /\ sink.stage = "ready"
      BY <1>3, <3>3, SinkThrows, NoMessageIsStored
    <3>4. CASE sink' = [sink EXCEPT !.size = @ + message.size] /\ sink.stage = "ready"
      <4>1. sink'.size = sink.size + message.size /\ sink'.message = sink.message
        BY <1>2, <3>4 DEF IsSink
      <4>2. SizeOf(logs[0]) \in Nat
        BY SizeOfFile, NoMessageIsStored DEF SizesInv, SizesAreCounted
      <4> QED BY <1>1, <1>2, <1>3, <3>4, <4>1, <4>2 DEF SizesInv, SizesAreCounted
    <3> QED BY <3>1, <3>2, <3>3, <3>4 DEF Log, message
  <2> QED BY <2>1, <2>2, SizesStay DEF SizesInv
<1>4. CASE /\ sink.stage = "ready"
           /\ ~ (sink.size # 0 /\ sink.size + message.size > MaximumSize)
           /\ logs' = [logs EXCEPT ![0] =
                 IF @ = Missing THEN <<message>> ELSE Append(@, message)]
           /\ sink' = [sink EXCEPT !.size = @ + message.size]
  <2> DEFINE file == logs'[0]
  <2>1. /\ file = IF logs[0] = Missing THEN <<message>> ELSE Append(logs[0], message)
        /\ \A slot \in Slots : slot # 0 => logs'[slot] = logs[slot]
        /\ sink'.message = sink.message /\ sink'.stage = "ready"
        /\ sink'.size = sink.size + message.size
    BY <1>2, <1>4, NoMessageIsStored DEF IsSink
  <2>2. /\ SizeOf(logs[0]) \in Nat /\ SizeOf(logs[0]) <= sink.size
        /\ logs[0] = Missing \/ logs[0] \in Seq(StoredMessages)
    BY <1>4, SizeOfFile, NoMessageIsStored DEF SizesInv, SizesAreCounted
  <2> HIDE DEF file
  <2>3. file \in Seq(StoredMessages) /\ SizeOf(file) = SizeOf(logs[0]) + message.size
    <3>1. CASE logs[0] = Missing
      <4>1. file = <<message>> /\ <<message>> \in Seq(StoredMessages)
        BY <1>1, <2>1, <3>1
      <4> QED BY <1>1, <3>1, <4>1, SizeOfOne, SizeOfNone
    <3>2. CASE logs[0] # Missing
      BY <1>1, <2>1, <2>2, <3>2, SizeOfAppend
    <3> QED BY <3>1, <3>2
  <2>4. SizeOf(file) <= MaximumSize /\ SizeOf(file) <= sink'.size /\ sink'.size \in Nat
    BY <1>1, <1>2, <1>4, <2>1, <2>2, <2>3, NoMessageIsStored
  <2> QED BY <2>1, <2>3, <2>4 DEF SizesInv, SizesAreCounted, file
<1> QED BY <1>3, <1>4 DEF Log, message

LEMMA RotationKeepsSizes ==
  ASSUME SizesInv, RemoveLast \/ Shift \/ OpenActive
  PROVE  SizesAreCounted'
<1>1. /\ IsSink(sink) /\ DOMAIN logs = Slots /\ sink.size \in Nat
      /\ sink.message \in StoredMessages /\ sink.message.size <= MaximumSize
      /\ SizeOf(logs[0]) \in Nat
      /\ sink.stage # "off" => SizeOf(logs[0]) <= sink.size
      /\ MaximumFiles \in Nat /\ MaximumFiles >= 2
  BY SizeOfFile, NoMessageIsStored, ApplicationLogsAssumption
     DEF SizesInv, LogsInv, Shapes, SizesAreCounted
<1>2. CASE sink' = Thrown /\ UNCHANGED logs
  <2>1. sink.stage # "off"
    BY DEF RemoveLast, Shift, OpenActive
  <2>2. \A slot \in Slots : \E from \in Slots : logs'[slot] = logs[from]
    BY <1>2
  <2> QED BY <1>1, <1>2, <2>1, <2>2, SinkThrows, NoMessageIsStored, SizesStay DEF SizesInv
<1>3. CASE RemoveLast /\ ~(sink' = Thrown /\ UNCHANGED logs)
  <2>1. /\ logs' = [logs EXCEPT ![LastRotation] = Missing]
        /\ sink' = [sink EXCEPT !.stage = "shift", !.usable = FALSE,
                                !.slot = MaximumFiles - 2]
        /\ sink.stage = "remove"
    BY <1>3 DEF RemoveLast
  <2>2. sink'.size = sink.size /\ sink'.message = sink.message
    BY <1>1, <2>1 DEF IsSink
  <2>3. LastRotation # 0
    BY <1>1 DEF LastRotation
  <2>4. /\ \A slot \in Slots : logs'[slot] = Missing \/ logs'[slot] = logs[slot]
        /\ logs'[0] = logs[0]
    BY <1>1, <2>1, <2>3, NoMessageIsStored
  <2> QED BY <1>1, <2>1, <2>2, <2>4, SizesStay DEF SizesInv
<1>4. CASE Shift /\ ~(sink' = Thrown /\ UNCHANGED logs)
  <2>1. /\ logs' = IF logs[sink.slot] = Missing THEN logs ELSE Moved(sink.slot)
        /\ sink' = [sink EXCEPT !.slot = @ - 1]
        /\ sink.stage = "shift" /\ sink.slot >= 0
    BY <1>4 DEF Shift
  <2>2. sink'.size = sink.size /\ sink'.message = sink.message
    BY <1>1, <2>1 DEF IsSink
  <2>3. sink.slot \in 0 .. MaximumFiles - 2
    BY <2>1 DEF SizesInv, LogsInv, RotationIsSafe
  <2>4. sink.slot \in Slots /\ sink.slot + 1 \in Slots /\ sink.slot + 1 # 0
        /\ sink.slot + 1 # sink.slot
    BY <1>1, <2>3 DEF Slots
  <2>5. /\ \A slot \in Slots : logs'[slot] = Missing \/
             \E from \in Slots : logs'[slot] = logs[from]
        /\ logs'[0] = logs[0] \/ logs'[0] = Missing
    <3>1. CASE logs' = logs
      BY <3>1
    <3>2. CASE logs' = [logs EXCEPT ![sink.slot + 1] = logs[sink.slot],
                                    ![sink.slot] = Missing]
      <4>1. \A slot \in Slots : logs'[slot] = IF slot = sink.slot THEN Missing
                                ELSE IF slot = sink.slot + 1 THEN logs[sink.slot]
                                ELSE logs[slot]
        BY <1>1, <2>4, <3>2
      <4> QED BY <2>4, <4>1, NoMessageIsStored
    <3> QED BY <2>1, <3>1, <3>2 DEF Moved
  <2> QED BY <1>1, <2>1, <2>2, <2>5, SizesStay, SizeOfNone DEF SizesInv
<1>5. CASE OpenActive /\ ~(sink' = Thrown /\ UNCHANGED logs)
  <2>1. /\ \/ /\ logs' = [logs EXCEPT ![0] = <<>>]
              /\ sink'.size = 0
           \/ /\ logs' = [logs EXCEPT ![0] = <<sink.message>>]
              /\ sink'.size = sink.message.size
        /\ sink'.message = NoMessage
    <3>1. CASE /\ logs' = [logs EXCEPT ![0] = IF sink.message = NoMessage
                                              THEN <<>> ELSE <<sink.message>>]
               /\ sink' = Opened(sink.message.size)
      BY <3>1, NoMessageIsStored DEF Opened
    <3>2. CASE /\ logs' = [logs EXCEPT ![0] = <<>>]
               /\ sink' = [Opened(0) EXCEPT !.usable = FALSE]
      BY <3>2 DEF Opened
    <3> QED BY <1>5, <3>1, <3>2 DEF OpenActive
  <2> DEFINE file == logs'[0]
  <2>2. \A slot \in Slots : slot # 0 => logs'[slot] = logs[slot]
    BY <1>1, <2>1, NoMessageIsStored
  <2>3. /\ file \in Seq(StoredMessages)
        /\ \/ SizeOf(file) = 0 /\ sink'.size = 0
           \/ SizeOf(file) = sink'.size /\ sink'.size = sink.message.size
    <3>1. CASE logs' = [logs EXCEPT ![0] = <<>>] /\ sink'.size = 0
      <4>1. file = <<>>
        BY <1>1, <3>1, NoMessageIsStored
      <4> HIDE DEF file
      <4>2. SizeOf(file) = 0
        BY Zenon, <4>1, SizeOfNone
      <4> QED BY <3>1, <4>1, <4>2
    <3>2. CASE logs' = [logs EXCEPT ![0] = <<sink.message>>]
               /\ sink'.size = sink.message.size
      <4>1. file = <<sink.message>>
        BY <1>1, <3>2, NoMessageIsStored
      <4>2. <<sink.message>> \in Seq(StoredMessages)
        BY <1>1
      <4> HIDE DEF file
      <4> QED BY <1>1, <3>2, <4>1, <4>2, SizeOfOne
    <3> QED BY <2>1, <3>1, <3>2
  <2> HIDE DEF file
  <2>4. SizeOf(file) <= MaximumSize /\ SizeOf(file) <= sink'.size /\ sink'.size \in Nat
    <3>1. sink.message.size \in Nat
      BY <1>1 DEF StoredMessages
    <3> QED BY <1>1, <2>3, <3>1, NoMessageIsStored
  <2> QED BY <2>1, <2>2, <2>3, <2>4, NoMessageIsStored DEF SizesInv, SizesAreCounted, file
<1> QED BY <1>2, <1>3, <1>4, <1>5

LEMMA SameSizes ==
  ASSUME SizesAreCounted, UNCHANGED <<logs, sink>>
  PROVE  SizesAreCounted'
  BY DEF SizesAreCounted

LEMMA EndKeepsSizes ==
  ASSUME SizesAreCounted, End
  PROVE  SizesAreCounted'
<1>1. UNCHANGED logs /\ sink' = Off
  BY DEF End
<1> QED BY <1>1, NoMessageIsStored DEF SizesAreCounted, Off

LEMMA StepKeepsSizes == SizesInv /\ [Next]_vars => SizesInv'
<1> SUFFICES ASSUME SizesInv, [Next]_vars PROVE SizesAreCounted'
  BY StepKeepsLogs DEF SizesInv
<1>0. SizesAreCounted
  BY DEF SizesInv
<1>1. CASE UNCHANGED vars
  BY <1>0, <1>1, SameSizes DEF vars, logVars
<1>2. CASE Launch
  BY <1>2, LaunchKeepsSizes DEF Launch
<1>3. CASE Close \/ Crash
  BY <1>0, <1>3, EndKeepsSizes DEF Close, Crash
<1>4. CASE LogMessage
  BY <1>4, LogKeepsSizes DEF LogMessage
<1>5. CASE RotateStep
  BY <1>5, RotationKeepsSizes DEF RotateStep, Watched
<1>6. CASE \/ OpenPath \/ RetryWithFrameRate \/ DismissQuestion \/ FinishImport
           \/ StartExport \/ FinishExport \/ BundleCommand \/ BundleStep
  BY <1>0, <1>6, OtherStepsKeep, SameSizes DEF logVars
<1> QED BY <1>1, <1>2, <1>3, <1>4, <1>5, <1>6 DEF Next

(* No log file outgrows the maximum, and a running process has no file     *)
(* beyond its last rotation: whichever write, rename or removal failed,    *)
(* the size the sink remembers is never less than what its file holds.     *)
THEOREM LogsBounded == Spec => []LogsAreBounded
<1>1. Init => SizesInv
  BY InitLogs, InitSizes DEF SizesInv
<1>2. SizesInv => LogsAreBounded
  BY DEF SizesInv, SizesAreCounted, LogsInv, RotationIsSafe, LogsAreBounded
<1> QED BY <1>1, <1>2, StepKeepsSizes, PTL DEF Spec

-----------------------------------------------------------------------------
(* The listing of a support bundle: it has every file that was met, once.  *)
Listings(iter, n, slots, met) ==
  iter = [s \in SUBSET (1 .. n) |->
            IF s = {} THEN <<>>
            ELSE LET x == Max(s)
                 IN IF slots[x] \in met
                    THEN Append(iter[s \ {x}], slots[x])
                    ELSE iter[s \ {x}]]

IsListing(list, n, slots, met) ==
  /\ list \in Seq(Slots)
  /\ \A i, j \in DOMAIN list : i # j => list[i] # list[j]
  /\ \A i \in DOMAIN list : \E k \in 1 .. n : slots[k] = list[i] /\ list[i] \in met
  /\ \A k \in 1 .. n : slots[k] \in met => \E i \in DOMAIN list : list[i] = slots[k]

LEMMA SortedIsFold ==
  ASSUME NEW met, NEW n \in Nat, NEW slots, DOMAIN slots = 1 .. n
  PROVE  Sorted(slots, met) = (CHOOSE iter : Listings(iter, n, slots, met))[1 .. n]
  BY DEF Sorted, FoldLeft, MapThenFoldSet, Listings

LEMMA ListedNext ==
  ASSUME NEW met, NEW n \in Nat, NEW slots, NEW k \in Nat, k + 1 <= n,
         \A i \in 1 .. n : slots[i] \in Slots,
         \A i, j \in 1 .. n : i # j => slots[i] # slots[j],
         NEW list, IsListing(list, k, slots, met), NEW longer,
         longer = IF slots[k + 1] \in met THEN Append(list, slots[k + 1])
                  ELSE list
  PROVE  IsListing(longer, k + 1, slots, met)
<1>1. /\ 1 .. k + 1 = (1 .. k) \union {k + 1} /\ k + 1 \in 1 .. n
      /\ 1 .. k \subseteq 1 .. n /\ k + 1 \notin 1 .. k
  OBVIOUS
<1>2. CASE slots[k + 1] \notin met
  BY <1>1, <1>2 DEF IsListing
<1>3. CASE slots[k + 1] \in met
  <2> DEFINE slot == slots[k + 1]
             m == Len(list)
  <2>1. list \in Seq(Slots) /\ slot \in Slots
    BY <1>1 DEF IsListing
  <2>2. longer = Append(list, slot)
    BY <1>3
  <2> HIDE DEF slot
  <2>3. /\ m \in Nat /\ DOMAIN list = 1 .. m /\ DOMAIN longer = 1 .. m + 1
        /\ longer \in Seq(Slots) /\ longer[m + 1] = slot
        /\ \A i \in 1 .. m : longer[i] = list[i]
        /\ 1 .. m + 1 = (1 .. m) \union {m + 1}
    BY <2>1, <2>2
  <2> HIDE DEF m
  <2>4. \A i \in 1 .. m : list[i] # slot
    <3>1. \A i \in 1 .. m : \E j \in 1 .. k : slots[j] = list[i]
      BY <2>3 DEF IsListing
    <3> QED BY <1>1, <3>1 DEF slot
  <2>5. \A i, j \in DOMAIN longer : i # j => longer[i] # longer[j]
    BY <2>3, <2>4 DEF IsListing
  <2>6. \A i \in DOMAIN longer :
          \E j \in 1 .. k + 1 : slots[j] = longer[i] /\ longer[i] \in met
    <3>1. \A i \in 1 .. m :
            \E j \in 1 .. k : slots[j] = list[i] /\ list[i] \in met
      BY <2>3 DEF IsListing
    <3>2. slots[k + 1] = slot /\ slot \in met
      BY <1>3 DEF slot
    <3> QED BY <1>1, <2>3, <3>1, <3>2
  <2>7. \A j \in 1 .. k + 1 : slots[j] \in met =>
          \E i \in DOMAIN longer : longer[i] = slots[j]
    <3>1. \A j \in 1 .. k : slots[j] \in met =>
            \E i \in 1 .. m : list[i] = slots[j]
      BY <2>3 DEF IsListing
    <3>2. slots[k + 1] = slot
      BY DEF slot
    <3> QED BY <1>1, <2>3, <3>1, <3>2
  <2> QED BY <2>3, <2>5, <2>6, <2>7 DEF IsListing
<1> QED BY <1>2, <1>3

LEMMA SortedLists ==
  ASSUME NEW met, NEW n \in Nat, NEW slots \in [1 .. n -> Slots],
         \A i, j \in 1 .. n : i # j => slots[i] # slots[j]
  PROVE  IsListing(Sorted(slots, met), n, slots, met)
<1> DEFINE step == [i \in 1 .. n |-> [list \in Seq(Slots) |->
                      IF slots[i] \in met THEN Append(list, slots[i]) ELSE list]]
<1>0. \A i \in 1 .. n : slots[i] \in Slots
  OBVIOUS
<1>1. \A i \in 1 .. n, list \in Seq(Slots) :
        step[i][list] = IF slots[i] \in met THEN Append(list, slots[i]) ELSE list
  OBVIOUS
<1>2. step \in [1 .. n -> [Seq(Slots) -> Seq(Slots)]] /\ <<>> \in Seq(Slots)
  <2>1. ASSUME NEW i \in 1 .. n, NEW list \in Seq(Slots)
        PROVE  (IF slots[i] \in met THEN Append(list, slots[i]) ELSE list)
                 \in Seq(Slots)
    BY <1>0
  <2> QED BY <2>1
<1> HIDE DEF step
<1>3. PICK iter \in [SUBSET (1 .. n) -> Seq(Slots)] : FoldsTo(iter, n, <<>>, step)
  <2> DEFINE T == Seq(Slots)
  <2>1. step \in [1 .. n -> [T -> T]] /\ <<>> \in T
    BY <1>2
  <2>2. Foldable(n, T, <<>>, step)
    <3> HIDE DEF T
    <3> QED BY <2>1, FoldExists
  <2> QED BY <2>2 DEF Foldable
<1>4. Listings(iter, n, slots, met)
  <2>1. ASSUME NEW s \in SUBSET (1 .. n)
        PROVE  (IF s = {} THEN <<>> ELSE LET x == Max(s) IN step[x][iter[s \ {x}]])
                 = (IF s = {} THEN <<>>
                    ELSE LET x == Max(s)
                         IN IF slots[x] \in met
                            THEN Append(iter[s \ {x}], slots[x])
                            ELSE iter[s \ {x}])
    <3>1. CASE s # {}
      <4>1. Max(s) \in 1 .. n
        BY <3>1, MaxOfSubset
      <4>2. iter[s \ {Max(s)}] \in Seq(Slots)
        OBVIOUS
      <4>3. step[Max(s)][iter[s \ {Max(s)}]]
              = IF slots[Max(s)] \in met THEN Append(iter[s \ {Max(s)}], slots[Max(s)])
                ELSE iter[s \ {Max(s)}]
        BY <1>1, <4>1, <4>2
      <4> QED BY <3>1, <4>3
    <3> QED BY <3>1
  <2> QED BY <1>3, <2>1 DEF FoldsTo, Listings
<1> DEFINE chosen == CHOOSE c : Listings(c, n, slots, met)
<1>5. Listings(chosen, n, slots, met)
  BY <1>4
<1>6. Sorted(slots, met) = chosen[1 .. n]
  BY SortedIsFold
<1> HIDE DEF chosen
<1> DEFINE T == {k \in Nat : k <= n => IsListing(chosen[1 .. k], k, slots, met)}
<1>7. 0 \in T
  <2>1. chosen[1 .. 0] = <<>>
    BY <1>5 DEF Listings
  <2>2. IsListing(<<>>, 0, slots, met)
    BY <1>2 DEF IsListing
  <2> QED BY <2>1, <2>2
<1>8. ASSUME NEW k \in Nat, k \in T PROVE k + 1 \in T
  <2> SUFFICES ASSUME k + 1 <= n PROVE IsListing(chosen[1 .. k + 1], k + 1, slots, met)
    OBVIOUS
  <2> DEFINE s == 1 .. k + 1
             list == chosen[1 .. k]
             longer == chosen[s]
  <2>1. s \in SUBSET (1 .. n) /\ s # {}
    <3>1. \A x \in s : x \in 1 .. n
      OBVIOUS
    <3>2. 1 \in s
      OBVIOUS
    <3> QED BY <3>1, <3>2
  <2>2. Max(s) = k + 1 /\ s \ {k + 1} = 1 .. k
    BY MaxOfFirst
  <2>3. k <= n /\ IsListing(list, k, slots, met)
    BY <1>8
  <2> HIDE DEF s, T
  <2>4. longer = IF slots[k + 1] \in met THEN Append(list, slots[k + 1])
                 ELSE list
    BY <1>5, <2>1, <2>2 DEF Listings
  <2> HIDE DEF list, longer
  <2>5. IsListing(longer, k + 1, slots, met)
    BY <1>0, <2>3, <2>4, ListedNext
  <2> QED BY <2>5 DEF longer, s
<1>9. n \in T
  <2> HIDE DEF T
  <2> QED BY <1>7, <1>8, Induction
<1> QED BY <1>6, <1>9

LEMMA LogFilesAreListed ==
  ASSUME NEW met \in SUBSET Slots
  PROVE  /\ LogFiles(met) \in Seq(Slots)
         /\ \A i, j \in DOMAIN LogFiles(met) :
              i # j => LogFiles(met)[i] # LogFiles(met)[j]
         /\ \A slot \in met : \E i \in DOMAIN LogFiles(met) : LogFiles(met)[i] = slot
<1> DEFINE n == MaximumFiles + 1
           slots == Append(Rotations, 0)
<1>1. MaximumFiles \in Nat /\ n \in Nat
  BY ApplicationLogsAssumption
<1>2. Rotations \in Seq(Nat) /\ Len(Rotations) = MaximumFiles
      /\ \A i \in 1 .. MaximumFiles : Rotations[i] = i
  BY <1>1 DEF Rotations
<1>3. /\ DOMAIN slots = 1 .. n /\ slots[n] = 0 /\ slots \in Seq(Nat)
      /\ \A i \in 1 .. MaximumFiles : slots[i] = i
      /\ 1 .. n = (1 .. MaximumFiles) \union {n}
  BY <1>1, <1>2
<1> HIDE DEF slots
<1>4. slots \in [1 .. n -> Nat]
  <2>1. slots \in [1 .. Len(slots) -> Nat] /\ DOMAIN slots = 1 .. Len(slots)
    BY <1>3, LenProperties
  <2> QED BY <1>3, <2>1
<1>5. slots \in [1 .. n -> Slots] /\ \A i, j \in 1 .. n : i # j => slots[i] # slots[j]
  <2>1. \A i \in 1 .. n : slots[i] \in Slots
    BY <1>1, <1>3 DEF Slots
  <2>2. slots \in [1 .. n -> Slots]
    BY <1>4, <2>1
  <2>3. ASSUME NEW i \in 1 .. n, NEW j \in 1 .. n, i # j PROVE slots[i] # slots[j]
    BY <1>1, <1>3, <2>3
  <2> QED BY <2>2, <2>3
<1>6. \A slot \in Slots : \E i \in 1 .. n : slots[i] = slot
  BY <1>1, <1>3 DEF Slots
<1> HIDE DEF n
<1>7. IsListing(LogFiles(met), n, slots, met)
  BY <1>1, <1>5, SortedLists DEF LogFiles, slots
<1> QED BY <1>6, <1>7 DEF IsListing

-----------------------------------------------------------------------------
(* The worker.  What it has archived and what it has still to read make up *)
(* the files it listed, and as long as no rotation moved them, the         *)
(* messages it has read and those of the files to be read are disjoint.    *)
Undisturbed(w, files, newest) ==
  /\ \A i, j \in DOMAIN w.listed : i # j => w.listed[i] # w.listed[j]
  /\ \A m \in w.before :
       \/ \E i \in DOMAIN w.archive : m \in Messages(w.archive[i])
       \/ \E j \in DOMAIN w.listed : m \in Messages(files[w.listed[j]])
  /\ \A i, j \in DOMAIN w.archive :
       i # j => Messages(w.archive[i]) \intersect Messages(w.archive[j]) = {}
  /\ \A i \in DOMAIN w.archive, j \in DOMAIN w.listed :
       Messages(w.archive[i]) \intersect Messages(files[w.listed[j]]) = {}
  /\ \A i \in DOMAIN w.archive : \A m \in Messages(w.archive[i]) : m <= newest

(* While the directory is iterated, no message is anywhere but in a file   *)
(* that was met or has still to be, as long as no rotation moved one.      *)
Iteration(w, files) ==
  /\ w.archive = <<>>
  /\ w.unmet \subseteq Slots /\ w.met \subseteq Slots
  /\ ~ w.rotated =>
        \A m \in w.before : \E slot \in w.met \union w.unmet : m \in Messages(files[slot])

Writing == {"prepare", "read", "succeeded"}

Progress(w, files, newest) ==
  /\ w.listed \in Seq(Slots)
  /\ w.archive \in Seq(Seq(LogMessages))
  /\ w.stage = "prepare" => w.archive = <<>>
  /\ w.stage = "succeeded" => w.listed = <<>>
  /\ Len(w.archive) + Len(w.listed) = w.count
  /\ ~ w.rotated => Undisturbed(w, files, newest)

BundleInv ==
  /\ LogsInv
  /\ WorkerIsBusy
  /\ worker.stage # "idle" => running
  /\ worker.stage = "list" => worker.archive = <<>> /\ worker.met = {}
  /\ worker.stage = "iterate" => Iteration(worker, logs)
  /\ worker.stage \in Writing => Progress(worker, logs, written)

LEMMA FilesAreDisjoint ==
  ASSUME LogsInv, NEW a \in Slots, NEW b \in Slots, a # b
  PROVE  Messages(logs[a]) \intersect Messages(logs[b]) = {}
<1>1. /\ Messages(logs[a]) \subseteq Int /\ Messages(logs[b]) \subseteq Int
      /\ a > b \/ b > a
  BY MessagesAreNumbers, ApplicationLogsAssumption DEF Slots
<1>2. \A older, newer \in Slots : older > newer =>
        \A m \in Messages(logs[older]), n \in Messages(logs[newer]) : m < n
  BY OrderOfFiles DEF LogsInv
<1>3. ASSUME NEW m \in Messages(logs[a]), m \in Messages(logs[b]) PROVE FALSE
  <2>1. m < m /\ m \in Int
    BY <1>1, <1>2, <1>3
  <2> QED BY <2>1
<1> QED BY <1>3

(* A message that is logged is new to every file.                          *)
LEMMA LogAddsNew ==
  ASSUME LogsInv, NEW size \in Sizes, Log(size)
  PROVE  /\ written \in Int /\ written' = written + 1
         /\ \A slot \in Slots :
              /\ Messages(logs[slot]) \subseteq Messages(logs'[slot])
              /\ Messages(logs'[slot]) \subseteq Messages(logs[slot]) \union {written + 1}
<1> DEFINE message == [id |-> written + 1,
                       size |-> IF size > MaximumSize THEN MaximumSize ELSE size]
<1>1. /\ message \in LogMessages /\ message.id = written + 1
      /\ written \in Int /\ written' = written + 1
      /\ 0 \in Slots /\ DOMAIN logs = Slots
  BY ApplicationLogsAssumption
     DEF Log, LogsInv, Shapes, LogMessages, Slots
<1> HIDE DEF message
<1>2. CASE UNCHANGED logs
  BY <1>1, <1>2
<1>3. CASE logs' = [logs EXCEPT ![0] =
                      IF @ = Missing THEN <<message>> ELSE Append(@, message)]
  <2> DEFINE file == logs'[0]
  <2>1. /\ file = IF logs[0] = Missing THEN <<message>> ELSE Append(logs[0], message)
        /\ \A slot \in Slots : slot # 0 => logs'[slot] = logs[slot]
    BY <1>1, <1>3
  <2> HIDE DEF file
  <2>2. Messages(file) = Messages(logs[0]) \union {written + 1}
    <3>1. CASE logs[0] = Missing
      <4>1. file = <<message>> /\ <<message>> \in Seq(LogMessages)
        BY <1>1, <2>1, <3>1
      <4>2. Messages(<<message>>) = {message.id}
        BY <1>1, <4>1, MessagesOfSmallFiles, MissingIsNoFile
      <4> QED BY <1>1, <3>1, <4>1, <4>2, MessagesOfSmallFiles
    <3>2. CASE logs[0] # Missing
      <4>1. logs[0] \in Seq(LogMessages) /\ Increasing(logs[0])
        BY <1>1, <3>2, OrderOfFiles DEF LogsInv, Shapes
      <4>2. \A m \in Messages(logs[0]) : m < message.id
        BY <1>1, MessagesAreNumbers DEF LogsInv, StoredIsOlder
      <4> QED BY <1>1, <2>1, <3>2, <4>1, <4>2, AppendedMessage
    <3> QED BY <3>1, <3>2
  <2> QED BY <1>1, <2>1, <2>2 DEF file
<1> QED BY <1>1, <1>2, <1>3 DEF Log, message

LEMMA LogKeepsProgress ==
  ASSUME LogsInv, NEW size \in Sizes, Log(size), NEW w, Progress(w, logs, written)
  PROVE  Progress(w, logs', written')
<1> SUFFICES ASSUME Undisturbed(w, logs, written)
             PROVE  Undisturbed(w, logs', written')
  BY DEF Progress
<1>1. /\ written \in Int /\ written' = written + 1
      /\ \A slot \in Slots :
           /\ Messages(logs[slot]) \subseteq Messages(logs'[slot])
           /\ Messages(logs'[slot]) \subseteq Messages(logs[slot]) \union {written + 1}
  BY LogAddsNew
<1>2. \A j \in DOMAIN w.listed : w.listed[j] \in Slots
  BY DEF Progress
<1>3. \A i \in DOMAIN w.archive : \A m \in Messages(w.archive[i]) : m \in Int
  <2>1. ASSUME NEW i \in DOMAIN w.archive, NEW m \in Messages(w.archive[i])
        PROVE  m \in Int
    <3>1. w.archive[i] \in Seq(LogMessages)
      BY DEF Progress
    <3> DEFINE file == w.archive[i]
    <3>2. \A k \in DOMAIN file : file[k].id \in Int
      <4>1. \A k \in DOMAIN file : file[k] \in LogMessages
        BY <3>1
      <4>2. \A message \in LogMessages : message.id \in Int
        BY DEF LogMessages
      <4> QED BY <4>1, <4>2
    <3>3. \E k \in DOMAIN file : m = file[k].id
      BY <3>1, MissingIsNoFile DEF Messages
    <3> QED BY <3>2, <3>3
  <2> QED BY <2>1
<1>4. \A i \in DOMAIN w.archive : \A m \in Messages(w.archive[i]) :
        m # written + 1 /\ m <= written'
  BY <1>1, <1>3 DEF Undisturbed
<1>5. \A i \in DOMAIN w.archive, j \in DOMAIN w.listed :
        Messages(w.archive[i]) \intersect Messages(logs'[w.listed[j]]) = {}
  <2>1. \A i \in DOMAIN w.archive, j \in DOMAIN w.listed :
          Messages(w.archive[i]) \intersect Messages(logs[w.listed[j]]) = {}
    BY DEF Undisturbed
  <2> QED BY <1>1, <1>2, <1>4, <2>1
<1>6. \A m \in w.before :
        \/ \E i \in DOMAIN w.archive : m \in Messages(w.archive[i])
        \/ \E j \in DOMAIN w.listed : m \in Messages(logs'[w.listed[j]])
  <2>1. \A m \in w.before :
          \/ \E i \in DOMAIN w.archive : m \in Messages(w.archive[i])
          \/ \E j \in DOMAIN w.listed : m \in Messages(logs[w.listed[j]])
    BY DEF Undisturbed
  <2> QED BY <1>1, <1>2, <2>1
<1> QED BY <1>4, <1>5, <1>6 DEF Undisturbed

(* Reading the next file of the list.                                      *)
LEMMA ReadKeepsProgress ==
  ASSUME LogsInv, NEW w, Progress(w, logs, written), w.listed # <<>>,
         logs[Head(w.listed)] # Missing, NEW v,
         v.listed = Tail(w.listed),
         v.archive = Append(w.archive, logs[Head(w.listed)]),
         v.stage = "read", v.count = w.count, v.rotated = w.rotated,
         v.before = w.before
  PROVE  Progress(v, logs, written)
<1> DEFINE file == logs[Head(w.listed)]
           n == Len(w.listed)
           k == Len(w.archive)
<1>1. /\ w.listed \in Seq(Slots) /\ n \in Nat /\ n >= 1 /\ DOMAIN w.listed = 1 .. n
      /\ Head(w.listed) = w.listed[1] /\ w.listed[1] \in Slots
      /\ v.listed \in Seq(Slots) /\ Len(v.listed) = n - 1
      /\ DOMAIN v.listed = 1 .. n - 1
      /\ \A i \in 1 .. n - 1 : v.listed[i] = w.listed[i + 1]
  BY DEF Progress
<1>2. file \in Seq(LogMessages)
  BY <1>1 DEF LogsInv, Shapes
<1> HIDE DEF file
<1>3. /\ w.archive \in Seq(Seq(LogMessages)) /\ k \in Nat /\ DOMAIN w.archive = 1 .. k
      /\ v.archive \in Seq(Seq(LogMessages)) /\ Len(v.archive) = k + 1
      /\ DOMAIN v.archive = (1 .. k) \union {k + 1}
      /\ \A i \in 1 .. k : v.archive[i] = w.archive[i]
      /\ v.archive[k + 1] = file
  <2> DEFINE files == Seq(LogMessages)
  <2>1. w.archive \in Seq(files) /\ file \in files /\ v.archive = Append(w.archive, file)
    BY <1>2 DEF Progress, file
  <2> HIDE DEF files
  <2>2. /\ k \in Nat /\ DOMAIN w.archive = 1 .. k
        /\ v.archive \in Seq(files) /\ Len(v.archive) = k + 1
        /\ DOMAIN v.archive = (1 .. k) \union {k + 1}
        /\ \A i \in 1 .. k : v.archive[i] = w.archive[i]
        /\ v.archive[k + 1] = file
    BY <2>1
  <2> QED BY <2>1, <2>2 DEF files
<1>4. Len(v.archive) + Len(v.listed) = v.count
  <2>1. k + n = w.count
    BY Zenon DEF Progress, k, n
  <2>2. Len(v.listed) = n - 1 /\ Len(v.archive) = k + 1 /\ n \in Nat /\ k \in Nat
    BY <1>1, <1>3
  <2> HIDE DEF n, k
  <2>3. (k + 1) + (n - 1) = k + n
    BY <2>2
  <2> QED BY <2>1, <2>2, <2>3
<1>5. ASSUME Undisturbed(w, logs, written) PROVE Undisturbed(v, logs, written)
  <2>1. \A i, j \in DOMAIN v.listed : i # j => v.listed[i] # v.listed[j]
    <3>1. ASSUME NEW i \in 1 .. n - 1, NEW j \in 1 .. n - 1, i # j
          PROVE  v.listed[i] # v.listed[j]
      <4>1. i + 1 \in 1 .. n /\ j + 1 \in 1 .. n /\ i + 1 # j + 1
        BY <1>1, <3>1
      <4>2. w.listed[i + 1] # w.listed[j + 1]
        BY <1>1, <1>5, <4>1 DEF Undisturbed
      <4> QED BY <1>1, <4>2
    <3> QED BY <1>1, <3>1
  <2>2. Messages(file) = Messages(logs[w.listed[1]])
    BY <1>1 DEF file
  <2>3. \A m \in v.before :
          \/ \E i \in DOMAIN v.archive : m \in Messages(v.archive[i])
          \/ \E j \in DOMAIN v.listed : m \in Messages(logs[v.listed[j]])
    <3>1. ASSUME NEW m \in w.before
          PROVE  \/ \E i \in DOMAIN v.archive : m \in Messages(v.archive[i])
                 \/ \E j \in DOMAIN v.listed : m \in Messages(logs[v.listed[j]])
      <4>1. \/ \E i \in DOMAIN w.archive : m \in Messages(w.archive[i])
            \/ \E j \in DOMAIN w.listed : m \in Messages(logs[w.listed[j]])
        BY <1>5 DEF Undisturbed
      <4>2. CASE \E i \in DOMAIN w.archive : m \in Messages(w.archive[i])
        BY <1>3, <4>2
      <4>3. CASE \E j \in DOMAIN w.listed : m \in Messages(logs[w.listed[j]])
        <5>1. PICK j \in 1 .. n : m \in Messages(logs[w.listed[j]])
          BY <1>1, <4>3
        <5>2. CASE j = 1
          BY <1>3, <2>2, <5>1, <5>2
        <5>3. CASE j # 1
          <6>1. j - 1 \in 1 .. n - 1 /\ v.listed[j - 1] = w.listed[j]
            BY <1>1, <5>1, <5>3
          <6> QED BY <1>1, <5>1, <6>1
        <5> QED BY <5>2, <5>3
      <4> QED BY <4>1, <4>2, <4>3
    <3> QED BY <3>1
  <2>4. \A i \in 1 .. k : Messages(w.archive[i]) \intersect Messages(file) = {}
    <3>1. 1 \in DOMAIN w.listed
      BY <1>1
    <3> QED BY <1>3, <1>5, <2>2, <3>1 DEF Undisturbed
  <2>5. \A i, j \in DOMAIN v.archive :
          i # j => Messages(v.archive[i]) \intersect Messages(v.archive[j]) = {}
    <3>1. \A i, j \in 1 .. k :
            i # j => Messages(w.archive[i]) \intersect Messages(w.archive[j]) = {}
      BY <1>3, <1>5 DEF Undisturbed
    <3> QED BY <1>3, <2>4, <3>1
  <2>6. \A i \in DOMAIN v.archive, j \in DOMAIN v.listed :
          Messages(v.archive[i]) \intersect Messages(logs[v.listed[j]]) = {}
    <3>1. ASSUME NEW j \in 1 .. n - 1
          PROVE  /\ Messages(file) \intersect Messages(logs[v.listed[j]]) = {}
                 /\ \A i \in 1 .. k :
                      Messages(w.archive[i]) \intersect Messages(logs[v.listed[j]]) = {}
      <4>1. j + 1 \in 1 .. n /\ j + 1 # 1 /\ 1 \in 1 .. n
        BY <1>1
      <4>2. w.listed[j + 1] # w.listed[1] /\ w.listed[j + 1] \in Slots
        BY <1>1, <1>5, <4>1 DEF Undisturbed
      <4>3. Messages(file) \intersect Messages(logs[w.listed[j + 1]]) = {}
        BY <1>1, <2>2, <4>2, FilesAreDisjoint
      <4>4. \A i \in 1 .. k :
              Messages(w.archive[i]) \intersect Messages(logs[w.listed[j + 1]]) = {}
        BY <1>1, <1>3, <1>5, <4>1 DEF Undisturbed
      <4>5. v.listed[j] = w.listed[j + 1]
        BY <1>1
      <4> QED BY <4>3, <4>4, <4>5
    <3> QED BY <1>1, <1>3, <3>1
  <2>7. \A i \in DOMAIN v.archive : \A m \in Messages(v.archive[i]) : m <= written
    <3>1. \A m \in Messages(file) : m <= written
      BY <1>1, <2>2 DEF LogsInv, StoredIsOlder
    <3>2. \A i \in 1 .. k : \A m \in Messages(w.archive[i]) : m <= written
      BY <1>3, <1>5 DEF Undisturbed
    <3> QED BY <1>3, <3>1, <3>2
  <2> QED BY <2>1, <2>3, <2>5, <2>6, <2>7 DEF Undisturbed
<1> QED BY <1>1, <1>3, <1>4, <1>5 DEF Progress

(* Logging adds to the files that are iterated.                            *)
LEMMA LogKeepsIteration ==
  ASSUME LogsInv, NEW size \in Sizes, Log(size), NEW w, Iteration(w, logs)
  PROVE  Iteration(w, logs')
<1>1. \A slot \in Slots : Messages(logs[slot]) \subseteq Messages(logs'[slot])
  BY LogAddsNew
<1> QED BY <1>1 DEF Iteration

(* A name is met: a message is lost from sight only with its file.         *)
LEMMA MeetingKeepsIteration ==
  ASSUME NEW w, Iteration(w, logs), NEW slot \in w.unmet, NEW v,
         v.archive = w.archive, v.rotated = w.rotated, v.before = w.before,
         v.unmet = w.unmet \ {slot},
         v.met = IF logs[slot] = Missing THEN w.met ELSE w.met \union {slot}
  PROVE  Iteration(v, logs)
<1>1. v.unmet \subseteq Slots /\ v.met \subseteq Slots
  BY DEF Iteration
<1>2. ASSUME ~ v.rotated, NEW m \in v.before
      PROVE  \E s \in v.met \union v.unmet : m \in Messages(logs[s])
  <2>1. PICK s \in w.met \union w.unmet : m \in Messages(logs[s])
    BY <1>2 DEF Iteration
  <2>2. logs[s] # Missing
    BY <2>1, MessagesOfSmallFiles
  <2> QED BY <2>1, <2>2
<1> QED BY <1>1, <1>2 DEF Iteration

LEMMA SameFieldsProgress ==
  ASSUME NEW w, Progress(w, logs, written), NEW v,
         v.listed = w.listed, v.archive = w.archive, v.count = w.count,
         v.rotated = w.rotated, v.before = w.before,
         v.stage = "read" \/ (v.stage = "succeeded" /\ w.listed = <<>>)
  PROVE  Progress(v, logs, written)
<1>1. Undisturbed(v, logs, written) = Undisturbed(w, logs, written)
  BY DEF Undisturbed
<1> QED BY <1>1 DEF Progress

LEMMA StepKeepsProgress ==
  ASSUME BundleInv, [Next]_vars
  PROVE  /\ worker'.stage # "idle" => running'
         /\ worker'.stage = "list" => worker'.archive = <<>> /\ worker'.met = {}
         /\ worker'.stage = "iterate" => Iteration(worker', logs')
         /\ worker'.stage \in Writing => Progress(worker', logs', written')
<1> USE DEF Writing
<1>0. DOMAIN worker = WorkerFields
  BY DEF BundleInv, WorkerIsBusy
<1>1. ASSUME UNCHANGED <<worker, running, logVars>>
      PROVE  /\ worker'.stage # "idle" => running'
             /\ worker'.stage = "list" => worker'.archive = <<>> /\ worker'.met = {}
             /\ worker'.stage = "iterate" => Iteration(worker', logs')
             /\ worker'.stage \in Writing => Progress(worker', logs', written')
  <2>1. worker' = worker /\ running' = running /\ logs' = logs /\ written' = written
    BY <1>1 DEF logVars
  <2> QED BY <2>1 DEF BundleInv
<1>2. CASE Launch
  <2>1. worker.stage = "idle" /\ worker' = worker
    BY <1>2 DEF Launch, bundleVars, BundleInv
  <2> QED BY <2>1
<1>3. CASE Close \/ Crash
  <2>1. worker'.stage = "idle"
    BY <1>3 DEF Close, Crash, End, Idle
  <2> QED BY <2>1
<1>4. CASE LogMessage
  <2>1. worker' = worker /\ running' = running
    BY <1>4 DEF LogMessage, bundleVars, shellVars
  <2>2. PICK size \in Sizes : Log(size)
    BY <1>4 DEF LogMessage
  <2> QED BY <2>1, <2>2, LogKeepsProgress, LogKeepsIteration DEF BundleInv
<1>5. CASE RotateStep
  <2>0. /\ worker'.stage = worker.stage /\ worker'.archive = worker.archive
        /\ worker'.met = worker.met
    BY <1>0, <1>5 DEF RotateStep, Watched, WorkerFields
  <2>1. /\ worker' = IF worker.stage \in {"iterate", "prepare", "read"}
                     THEN [worker EXCEPT !.rotated = TRUE] ELSE worker
        /\ running /\ running' = running /\ written' = written
    BY <1>5 DEF RotateStep, Watched, shellVars, RemoveLast, Shift, OpenActive
  <2>2. CASE worker.stage \in {"iterate", "prepare", "read"}
    <3>1. /\ worker'.stage = worker.stage /\ worker'.listed = worker.listed
          /\ worker'.archive = worker.archive /\ worker'.count = worker.count
          /\ worker'.unmet = worker.unmet /\ worker'.rotated = TRUE
      BY <1>0, <2>1, <2>2 DEF WorkerFields
    <3>2. worker.stage = "iterate" => Iteration(worker', logs')
      BY <2>0, <3>1 DEF BundleInv, Iteration
    <3>3. worker.stage \in Writing => Progress(worker', logs', written')
      BY <2>0, <3>1 DEF BundleInv, Progress
    <3> QED BY <2>0, <2>1, <2>2, <3>1, <3>2, <3>3 DEF BundleInv
  <2>3. CASE worker.stage = "succeeded"
    <3>1. worker' = worker /\ Progress(worker, logs, written) /\ worker.listed = <<>>
      BY <2>1, <2>3 DEF BundleInv, Progress
    <3>2. DOMAIN worker.listed = {}
      BY <3>1
    <3>3. Undisturbed(worker, logs, written) => Undisturbed(worker, logs', written)
      BY <3>2 DEF Undisturbed
    <3>4. Progress(worker, logs', written)
      BY Zenon, <3>1, <3>3 DEF Progress
    <3> QED BY <2>1, <2>3, <3>1, <3>4
  <2>4. CASE worker.stage \notin Writing \union {"iterate"}
    BY <2>0, <2>1, <2>4 DEF BundleInv
  <2> QED BY <2>2, <2>3, <2>4
<1>6. CASE BundleCommand
  <2>1. /\ running /\ running' = running /\ worker'.stage = "list"
        /\ worker'.archive = <<>> /\ worker'.met = {}
    BY <1>6 DEF BundleCommand, StartBundle, shellVars, Idle
  <2> QED BY <2>1
<1>7. CASE BundleStep
  <2>1. running /\ running' = running /\ logs' = logs /\ written' = written
    BY <1>7, OtherStepsKeep DEF BundleStep, shellVars, logVars
  <2>2. /\ \A result \in Results : Ended(result).stage = result
        /\ \A result \in Results : result \notin {"list", "iterate"}
        /\ \A result \in Results \ {"succeeded"} : result \notin Writing
    BY DEF Ended, Idle, Results
  <2>3. CASE OpenLogDirectory
    <3>1. CASE worker' = [worker EXCEPT !.stage = "iterate", !.unmet = Slots,
                                        !.before = Stored]
               /\ worker.stage = "list"
      <4>1. /\ worker'.stage = "iterate" /\ worker'.archive = <<>>
            /\ worker'.unmet = Slots /\ worker'.met = {} /\ worker'.before = Stored
        BY <1>0, <3>1 DEF BundleInv, WorkerFields
      <4>2. \A m \in Stored : \E slot \in Slots : m \in Messages(logs[slot])
        BY DEF Stored
      <4>3. Iteration(worker', logs')
        BY <2>1, <4>1, <4>2 DEF Iteration
      <4> QED BY <2>1, <4>1, <4>3
    <3>2. CASE worker' = Ended("readLogsFailed")
      <4>1. "readLogsFailed" \in Results \ {"succeeded"}
        BY DEF Results
      <4>2. worker'.stage = "readLogsFailed"
        BY <2>2, <3>2, <4>1
      <4> QED BY <2>1, <2>2, <4>1, <4>2
    <3> QED BY <2>3, <3>1, <3>2 DEF OpenLogDirectory
  <2>4. CASE MeetLog
    <3>1. PICK slot \in worker.unmet :
             \/ worker' = [worker EXCEPT !.unmet = @ \ {slot},
                                         !.met = IF logs[slot] = Missing
                                                 THEN @ ELSE @ \cup {slot}]
             \/ worker' = Ended("readLogsFailed")
      BY <2>4 DEF MeetLog
    <3>2. worker.stage = "iterate" /\ Iteration(worker, logs)
      BY <2>4 DEF MeetLog, BundleInv
    <3>3. CASE worker' = [worker EXCEPT !.unmet = @ \ {slot},
                                        !.met = IF logs[slot] = Missing
                                                THEN @ ELSE @ \cup {slot}]
      <4>1. /\ worker'.stage = "iterate" /\ worker'.archive = worker.archive
            /\ worker'.rotated = worker.rotated /\ worker'.before = worker.before
            /\ worker'.unmet = worker.unmet \ {slot}
            /\ worker'.met = IF logs[slot] = Missing THEN worker.met
                             ELSE worker.met \union {slot}
        BY <1>0, <3>2, <3>3 DEF WorkerFields
      <4>2. Iteration(worker', logs')
        BY <2>1, <3>2, <4>1, MeetingKeepsIteration
      <4> QED BY <2>1, <4>1, <4>2
    <3>4. CASE worker' = Ended("readLogsFailed")
      <4>1. "readLogsFailed" \in Results \ {"succeeded"}
        BY DEF Results
      <4>2. worker'.stage = "readLogsFailed"
        BY <2>2, <3>4, <4>1
      <4> QED BY <2>1, <2>2, <4>1, <4>2
    <3> QED BY <3>1, <3>3, <3>4
  <2>5. ASSUME ListLogs \/ PrepareBundle \/ ReadLog \/ CommitBundle \/ FinishBundle
        PROVE  worker'.stage \notin {"list", "iterate"}
    <3>1. CASE ListLogs
      BY <1>0, <3>1 DEF ListLogs, WorkerFields
    <3>2. CASE PrepareBundle
      BY <1>0, <2>2, <3>2 DEF PrepareBundle, Results, WorkerFields
    <3>3. CASE ReadLog
      BY <1>0, <2>2, <3>3 DEF ReadLog, Results, WorkerFields
    <3>4. CASE CommitBundle
      BY <1>0, <2>2, <3>4 DEF CommitBundle, WorkerFields
    <3>5. CASE FinishBundle
      BY <3>5 DEF FinishBundle, Idle
    <3> QED BY <2>5, <3>1, <3>2, <3>3, <3>4, <3>5
  <2> SUFFICES ASSUME worker'.stage \in Writing,
                      ListLogs \/ PrepareBundle \/ ReadLog \/ CommitBundle
                         \/ FinishBundle
               PROVE  Progress(worker', logs, written)
    BY <1>7, <2>1, <2>3, <2>4, <2>5 DEF BundleStep, BundleWorker
  <2>6. CASE ListLogs
    <3> DEFINE met == worker.met
               files == LogFiles(met)
    <3>1. worker' = [worker EXCEPT !.stage = "prepare", !.met = {},
                                   !.listed = files, !.count = Len(files)]
          /\ worker.stage = "iterate" /\ worker.unmet = {}
      BY <2>6 DEF ListLogs
    <3>2. Iteration(worker, logs) /\ met \in SUBSET Slots
      BY <3>1 DEF BundleInv, Iteration
    <3> HIDE DEF files
    <3>3. /\ worker'.archive = <<>> /\ worker'.listed = files
          /\ worker'.count = Len(files) /\ worker'.stage = "prepare"
          /\ worker'.before = worker.before /\ worker'.rotated = worker.rotated
      BY <1>0, <3>1, <3>2 DEF Iteration, WorkerFields
    <3> HIDE DEF met
    <3>4. /\ files \in Seq(Slots) /\ Len(files) \in Nat
          /\ \A i, j \in DOMAIN files : i # j => files[i] # files[j]
          /\ \A slot \in met : \E i \in DOMAIN files : files[i] = slot
      BY <3>2, LogFilesAreListed DEF files
    <3>5. ASSUME ~ worker.rotated, NEW m \in worker.before
          PROVE  \E j \in DOMAIN files : m \in Messages(logs[files[j]])
      <4>1. PICK slot \in met : m \in Messages(logs[slot])
        BY <3>1, <3>2, <3>5 DEF Iteration, met
      <4> QED BY <3>4, <4>1
    <3>6. <<>> \in Seq(Seq(LogMessages)) /\ DOMAIN <<>> = {} /\ Len(<<>>) = 0
      OBVIOUS
    <3>7. ~ worker.rotated => Undisturbed(worker', logs, written)
      BY <3>3, <3>4, <3>5, <3>6 DEF Undisturbed
    <3> QED BY <3>3, <3>4, <3>6, <3>7 DEF Progress
  <2>7. CASE PrepareBundle
    <3>1. worker' = [worker EXCEPT !.stage = "read"] /\ worker.stage = "prepare"
      BY <2>2, <2>7 DEF PrepareBundle, Results
    <3>2. /\ worker'.stage = "read" /\ worker'.listed = worker.listed
          /\ worker'.archive = worker.archive /\ worker'.count = worker.count
          /\ worker'.rotated = worker.rotated /\ worker'.before = worker.before
      BY <1>0, <3>1 DEF WorkerFields
    <3>3. Progress(worker, logs, written)
      BY <3>1 DEF BundleInv
    <3>4. worker'.stage = "read" \/ (worker'.stage = "succeeded" /\ worker.listed = <<>>)
      BY <3>2
    <3> QED BY <3>2, <3>3, <3>4, SameFieldsProgress
  <2>8. CASE ReadLog
    <3>1. /\ worker.stage = "read" /\ worker.listed # <<>>
          /\ logs[Head(worker.listed)] # Missing
          /\ worker' = [worker EXCEPT !.listed = Tail(@),
                                      !.archive = Append(@, logs[Head(worker.listed)])]
      BY <2>2, <2>8 DEF ReadLog, Results
    <3>2. /\ worker'.listed = Tail(worker.listed)
          /\ worker'.archive = Append(worker.archive, logs[Head(worker.listed)])
          /\ worker'.stage = "read" /\ worker'.count = worker.count
          /\ worker'.rotated = worker.rotated /\ worker'.before = worker.before
      BY <1>0, <3>1 DEF WorkerFields
    <3> QED BY <3>1, <3>2, ReadKeepsProgress DEF BundleInv
  <2>9. CASE CommitBundle
    <3>1. /\ worker' = [worker EXCEPT !.stage = "succeeded"]
          /\ worker.stage = "read" /\ worker.listed = <<>>
      BY <2>2, <2>9 DEF CommitBundle, Results
    <3>2. /\ worker'.stage = "succeeded" /\ worker'.listed = worker.listed
          /\ worker'.archive = worker.archive /\ worker'.count = worker.count
          /\ worker'.rotated = worker.rotated /\ worker'.before = worker.before
      BY <1>0, <3>1 DEF WorkerFields
    <3>3. Progress(worker, logs, written)
      BY <3>1 DEF BundleInv
    <3> QED BY Zenon, <3>1, <3>2, <3>3, SameFieldsProgress
  <2>10. CASE FinishBundle
    <3>1. worker'.stage = "idle"
      BY <2>10 DEF FinishBundle, Idle
    <3> QED BY <3>1
  <2> QED BY <2>6, <2>7, <2>8, <2>9, <2>10
<1>8. CASE \/ OpenPath \/ RetryWithFrameRate \/ DismissQuestion \/ FinishImport
           \/ StartExport \/ FinishExport
  <2>1. UNCHANGED <<worker, running, logVars>>
    BY <1>8 DEF OpenPath, RetryWithFrameRate, StartImport, DismissQuestion,
                FinishImport, StartExport, FinishExport, bundleVars
  <2> QED BY <1>1, <2>1
<1>9. CASE UNCHANGED vars
  BY <1>1, <1>9 DEF vars, bundleVars, shellVars
<1> QED BY <1>2, <1>3, <1>4, <1>5, <1>6, <1>7, <1>8, <1>9 DEF Next

(* A published bundle is complete: it has an entry for each file that was  *)
(* listed and, unless a rotation moved the files under it, every message   *)
(* they held, once, whatever the application logged meanwhile.             *)
THEOREM BundlesAreComplete == Spec => []BundleIsComplete
<1>1. Init => BundleInv
  <2>1. Init => WorkerIsBusy /\ worker.stage = "idle"
    BY DEF Init, WorkerIsBusy, WorkerFields, Idle
  <2> QED BY <2>1, InitLogs DEF BundleInv, Writing
<1>2. BundleInv /\ [Next]_vars => BundleInv'
  <2> SUFFICES ASSUME BundleInv, [Next]_vars PROVE BundleInv'
    OBVIOUS
  <2> QED BY StepKeepsLogs, StepKeepsWorker, StepKeepsProgress DEF BundleInv
<1>3. BundleInv => BundleIsComplete
  <2> SUFFICES ASSUME BundleInv, worker.stage = "succeeded"
               PROVE  /\ Len(worker.archive) = worker.count
                      /\ ~ worker.rotated =>
                            /\ \A m \in worker.before :
                                  \E i \in DOMAIN worker.archive :
                                    m \in Messages(worker.archive[i])
                            /\ \A i, j \in DOMAIN worker.archive :
                                  i # j => Messages(worker.archive[i])
                                             \cap Messages(worker.archive[j]) = {}
    BY DEF BundleIsComplete
  <2>1. Progress(worker, logs, written)
    BY DEF BundleInv, Writing
  <2>2. /\ worker.listed = <<>> /\ Len(worker.archive) \in Nat
        /\ Len(worker.archive) + Len(worker.listed) = worker.count
    <3>1. worker.archive \in Seq(Seq(LogMessages)) /\ worker.listed = <<>>
      BY <2>1 DEF Progress
    <3>2. Len(worker.archive) + Len(worker.listed) = worker.count
      BY Zenon, <2>1 DEF Progress
    <3> QED BY <3>1, <3>2
  <2>3. Len(worker.listed) = 0 /\ DOMAIN worker.listed = {}
    BY <2>2
  <2>4. ~ worker.rotated => Undisturbed(worker, logs, written)
    BY <2>1 DEF Progress
  <2>5. Len(worker.archive) = worker.count
    BY <2>2, <2>3
  <2>6. ASSUME ~ worker.rotated
        PROVE  /\ \A m \in worker.before :
                     \E i \in DOMAIN worker.archive : m \in Messages(worker.archive[i])
               /\ \A i, j \in DOMAIN worker.archive :
                     i # j => Messages(worker.archive[i])
                                \cap Messages(worker.archive[j]) = {}
    BY <2>3, <2>4, <2>6 DEF Undisturbed
  <2> QED BY <2>5, <2>6
<1> QED BY <1>1, <1>2, <1>3, PTL DEF Spec
=============================================================================
