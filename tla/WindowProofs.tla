----------------------------- MODULE WindowProofs -----------------------------
(***************************************************************************)
(* Theorems about the windows of the two front ends, QuickConfiguration    *)
(* and WidgetsWindow, for any fields, texts, columns and templates and any *)
(* number of conditions.  Quick: the four copies of the configuration      *)
(* agree, the template list is true, a filter is refused only while the    *)
(* document refuses it, and unfinished conditions survive.  Widgets: every *)
(* copy the window shows agrees, and a file is replaced unasked only when  *)
(* another program took it away while the window looked.                   *)
(***************************************************************************)
EXTENDS FrontendWindows, FiniteSetTheorems, SequenceTheorems, TLAPS

-----------------------------------------------------------------------------
(* Induction over natural numbers, with a set for the predicate.           *)

LEMMA LeastNatural ==
    ASSUME NEW T, T \subseteq Nat, T # {}
    PROVE  \E n \in T : \A m \in T : n <= m
<1> DEFINE Less == {pair \in Nat \X Nat : pair[1] < pair[2]}
<1>1. IsWellFoundedOn(Less, Nat)
    BY NatLessThanWellFounded DEF OpToRel
<1>2. \E n \in T : \A m \in T : <<m, n>> \notin Less
    <2> HIDE DEF Less
    <2> QED BY <1>1, WFMin
<1>3. PICK n \in T : \A m \in T : <<m, n>> \notin Less
    BY <1>2
<1>4. \A m \in T : ~ m < n
    BY <1>3
<1> QED BY <1>4

LEMMA Induction ==
    ASSUME NEW T, 0 \in T, \A n \in Nat : n \in T => n + 1 \in T
    PROVE  Nat \subseteq T
<1> SUFFICES ASSUME Nat \ T # {} PROVE FALSE
    OBVIOUS
<1>1. PICK n \in Nat \ T : \A m \in Nat \ T : n <= m
    <2>1. Nat \ T \subseteq Nat
        OBVIOUS
    <2> QED BY <2>1, LeastNatural
<1>2. n - 1 \in T /\ n - 1 \in Nat
    BY <1>1
<1> QED BY <1>1, <1>2

(* A function given by its first value and a step for each later one.      *)
Follows(f, n, base, step) ==
    f[0] = base /\ \A i \in 1 .. n : f[i] = step[i][f[i - 1]]

LEMMA Recursion ==
    ASSUME NEW N \in Nat, NEW S, NEW base \in S, NEW step \in [1 .. N -> [S -> S]]
    PROVE  \E f \in [0 .. N -> S] : Follows(f, N, base, step)
<1> USE DEF Follows
<1> DEFINE Good(k, f) ==
              f[0] = base /\ \A i \in 1 .. k : f[i] = step[i][f[i - 1]]
           T == {k \in Nat : k <= N => \E f \in [0 .. k -> S] : Good(k, f)}
<1>1. 0 \in T
    <2>1. [i \in 0 .. 0 |-> base] \in [0 .. 0 -> S]
          /\ Good(0, [i \in 0 .. 0 |-> base])
        OBVIOUS
    <2> QED BY <2>1
<1>2. ASSUME NEW k \in Nat, k \in T PROVE k + 1 \in T
    <2> SUFFICES ASSUME k + 1 <= N
                 PROVE  \E f \in [0 .. k + 1 -> S] : Good(k + 1, f)
        OBVIOUS
    <2>1. PICK f \in [0 .. k -> S] : Good(k, f)
        BY <1>2
    <2> DEFINE g == [i \in 0 .. k + 1 |->
                        IF i = k + 1 THEN step[k + 1][f[k]] ELSE f[i]]
    <2>2. step[k + 1] \in [S -> S] /\ f[k] \in S
        OBVIOUS
    <2>3. g \in [0 .. k + 1 -> S]
        BY <2>2
    <2>4. g[0] = base
        BY <2>1
    <2>5. ASSUME NEW i \in 1 .. k + 1 PROVE g[i] = step[i][g[i - 1]]
        <3>1. CASE i = k + 1
            BY <3>1
        <3>2. CASE i \in 1 .. k
            <4>1. g[i] = f[i] /\ g[i - 1] = f[i - 1]
                BY <3>2
            <4> HIDE DEF g
            <4> QED BY <2>1, <3>2, <4>1
        <3> QED BY <3>1, <3>2
    <2> HIDE DEF g
    <2> QED BY <2>3, <2>4, <2>5
<1>3. N \in T
    <2> HIDE DEF T
    <2> QED BY <1>1, <1>2, Induction
<1> QED BY <1>3

-----------------------------------------------------------------------------
(* FlattenSeq.                                                             *)

Joined(s, t) == s \o t

(* f[i] is what the first i sequences make.                                *)
Flattens(f, n, seqs) ==
    /\ f[0] = <<>>
    /\ \A i \in 1 .. n : f[i] = Joined(f[i - 1], seqs[i])
    /\ FlattenSeq(seqs) = f[n]

LEMMA Flattening ==
    ASSUME NEW n \in Nat, NEW S, NEW seqs \in [1 .. n -> Seq(S)]
    PROVE  \E f \in [0 .. n -> Seq(S)] : Flattens(f, n, seqs)
<1> DEFINE step == [i \in 1 .. n |-> [t \in Seq(S) |-> t \o seqs[i]]]
<1>0. seqs \in Seq(Seq(S)) /\ Len(seqs) = n
    OBVIOUS
<1>1. PICK f \in [0 .. n -> Seq(S)] : Follows(f, n, <<>>, step)
    <2>1. step \in [1 .. n -> [Seq(S) -> Seq(S)]]
        OBVIOUS
    <2>2. <<>> \in Seq(S)
        OBVIOUS
    <2> HIDE DEF step
    <2> QED BY <2>1, <2>2, Recursion
<1> DEFINE After(t, i) == Joined(t, seqs[i])
<1> USE DEF Joined
<1>2. \A i \in 1 .. n : f[i] = After(f[i - 1], i)
    <2> SUFFICES ASSUME NEW i \in 1 .. n PROVE f[i] = After(f[i - 1], i)
        OBVIOUS
    <2>1. f[i - 1] \in Seq(S)
        OBVIOUS
    <2>2. f[i] = step[i][f[i - 1]]
        BY <1>1 DEF Follows
    <2> QED BY <2>1, <2>2
<1>3. f[0] = <<>>
    BY <1>1 DEF Follows
<1>4. FlattenSeq(seqs) = f[n]
    <2>1. CASE n = 0
        BY <1>0, <1>3, <2>1 DEF FlattenSeq
    <2>2. CASE n > 0
        <3> DEFINE Def(g) == g = [i \in 1 .. Len(seqs) |->
                                     IF i = 1 THEN seqs[i]
                                     ELSE g[i - 1] \o seqs[i]]
                   g == CHOOSE h : Def(h)
                   h == [i \in 1 .. n |-> f[i]]
        <3>0. f[1] = seqs[1]
            <4>1. f[1] = After(f[0], 1)
                <5> HIDE DEF After
                <5>1. 1 \in 1 .. n /\ 1 - 1 = 0
                    BY <2>2
                <5> QED BY <1>2, <5>1
            <4>2. seqs[1] \in Seq(S)
                BY <2>2
            <4> QED BY <4>1, <4>2, <1>3, ConcatEmptySeq
        <3>1. Def(h)
            <4>1. ASSUME NEW i \in 1 .. n
                  PROVE  f[i] = IF i = 1 THEN seqs[i] ELSE After(h[i - 1], i)
                <5>1. CASE i = 1
                    BY <3>0, <5>1
                <5>2. CASE i # 1
                    <6>1. h[i - 1] = f[i - 1]
                        BY <5>2
                    <6> HIDE DEF h, After
                    <6> QED BY <5>2, <6>1, <1>2
                <5> QED BY <5>1, <5>2
            <4> QED BY <4>1, <1>0
        <3>2. Def(g)
            <4> HIDE DEF Def, h
            <4> QED BY <3>1
        <3>3. \A i \in 1 .. n : g[i] = IF i = 1 THEN seqs[i]
                                       ELSE After(g[i - 1], i)
            <4> HIDE DEF g
            <4> QED BY <3>2, <1>0
        <3> HIDE DEF g, After
        <3> DEFINE T == {k \in Nat : k + 1 <= n => g[k + 1] = f[k + 1]}
        <3>4. 0 \in T
            <4>1. g[1] = f[1]
                BY <3>0, <3>3, <2>2
            <4> QED BY <4>1
        <3>5. ASSUME NEW k \in Nat, k \in T PROVE k + 1 \in T
            <4> SUFFICES ASSUME k + 2 <= n PROVE g[k + 2] = f[k + 2]
                OBVIOUS
            <4>0. k + 2 \in 1 .. n /\ k + 2 # 1 /\ k + 2 - 1 = k + 1
                OBVIOUS
            <4>1. g[k + 2] = After(g[k + 1], k + 2)
                BY <3>3, <4>0
            <4>2. f[k + 2] = After(f[k + 1], k + 2)
                BY <1>2, <4>0
            <4> QED BY <4>0, <4>1, <4>2, <3>5
        <3>6. n - 1 \in T
            <4> HIDE DEF T
            <4>1. Nat \subseteq T
                BY <3>4, <3>5, Induction
            <4> QED BY <4>1, <2>2
        <3>7. FlattenSeq(seqs) = g[n]
            BY <1>0, <2>2 DEF FlattenSeq, g
        <3> QED BY <3>6, <3>7, <2>2
    <2> QED BY <2>1, <2>2
<1> HIDE DEF Joined
<1> QED BY <1>2, <1>3, <1>4 DEF Flattens

LEMMA FlattenSeqType ==
    ASSUME NEW n \in Nat, NEW S, NEW seqs \in [1 .. n -> Seq(S)]
    PROVE  FlattenSeq(seqs) \in Seq(S)
BY Flattening DEF Flattens

(* Sequences of one element, and after them only empty ones, make the      *)
(* sequence of the elements.                                               *)
Spreads(seqs, n, a) ==
    /\ Len(a) <= n
    /\ \A i \in 1 .. Len(a) : seqs[i] = <<a[i]>>
    /\ \A i \in 1 .. n : i > Len(a) => seqs[i] = <<>>

LEMMA FlattenSeqOfSingletons ==
    ASSUME NEW n \in Nat, NEW S, NEW a \in Seq(S),
           NEW seqs \in [1 .. n -> Seq(S)], Spreads(seqs, n, a)
    PROVE  FlattenSeq(seqs) = a
<1>1. PICK f \in [0 .. n -> Seq(S)] : Flattens(f, n, seqs)
    BY Flattening
<1> DEFINE Size(k) == IF k <= Len(a) THEN k ELSE Len(a)
           Begins(k) == /\ Len(f[k]) = Size(k)
                        /\ \A j \in 1 .. Size(k) : f[k][j] = a[j]
           T == {k \in Nat : k <= n => Begins(k)}
<1>2. 0 \in T
    <2>1. f[0] = <<>> /\ Len(<<>>) = 0
        BY <1>1 DEF Flattens
    <2>2. Len(a) \in Nat
        OBVIOUS
    <2>3. Size(0) = 0
        BY <2>2
    <2> HIDE DEF Size
    <2> QED BY <2>1, <2>3
<1>3. ASSUME NEW k \in Nat, k \in T PROVE k + 1 \in T
    <2> SUFFICES ASSUME k + 1 <= n PROVE Begins(k + 1)
        OBVIOUS
    <2>1. Begins(k)
        BY <1>3
    <2>2. f[k] \in Seq(S) /\ k + 1 \in 1 .. n /\ k + 1 - 1 = k
        OBVIOUS
    <2>3. f[k + 1] = f[k] \o seqs[k + 1]
        <3>1. f[k + 1] = Joined(f[k], seqs[k + 1])
            BY <1>1, <2>2 DEF Flattens
        <3> QED BY <3>1 DEF Joined
    <2>4. CASE k + 1 <= Len(a)
        <3>1. seqs[k + 1] = <<a[k + 1]>>
            <4>1. k + 1 \in 1 .. Len(a)
                BY <2>4
            <4> QED BY <4>1 DEF Spreads
        <3>2. a[k + 1] \in S
            BY <2>4
        <3>3. f[k + 1] = Append(f[k], a[k + 1])
            BY <2>2, <2>3, <3>1, <3>2, AppendIsConcat
        <3> QED BY <2>1, <2>2, <2>4, <3>2, <3>3, AppendProperties
    <2>5. CASE k + 1 > Len(a)
        <3>1. seqs[k + 1] = <<>>
            BY <2>2, <2>5 DEF Spreads
        <3>2. f[k + 1] = f[k]
            BY <2>2, <2>3, <3>1, ConcatEmptySeq
        <3>3. Size(k + 1) = Size(k)
            BY <2>5
        <3> HIDE DEF Size
        <3> QED BY <2>1, <3>2, <3>3
    <2> QED BY <2>4, <2>5
<1> USE DEF Spreads
<1>4. Begins(n)
    <2> HIDE DEF Begins
    <2>1. Nat \subseteq T
        <3> HIDE DEF T
        <3> QED BY <1>2, <1>3, Induction
    <2> QED BY <2>1
<1>5. f[n] \in Seq(S) /\ Len(f[n]) = Len(a)
      /\ \A j \in 1 .. Len(a) : f[n][j] = a[j]
    BY <1>4
<1>6. f[n] = a
    BY <1>5, SeqEqual
<1> QED BY <1>1, <1>6 DEF Flattens

LEMMA FlattenSeqNonempty ==
    ASSUME NEW n \in Nat, NEW S, NEW seqs \in [1 .. n -> Seq(S)],
           NEW i \in 1 .. n, seqs[i] # <<>>
    PROVE  FlattenSeq(seqs) # <<>>
<1>1. PICK f \in [0 .. n -> Seq(S)] : Flattens(f, n, seqs)
    BY Flattening
<1> DEFINE T == {k \in Nat : i <= k /\ k <= n => Len(f[k]) > 0}
<1>2. \A k \in 1 .. n : Len(f[k]) = Len(f[k - 1]) + Len(seqs[k])
    <2> SUFFICES ASSUME NEW k \in 1 .. n
                 PROVE  Len(f[k]) = Len(f[k - 1]) + Len(seqs[k])
        OBVIOUS
    <2>1. f[k - 1] \in Seq(S) /\ seqs[k] \in Seq(S)
        OBVIOUS
    <2>2. f[k] = f[k - 1] \o seqs[k]
        BY <1>1 DEF Flattens, Joined
    <2> QED BY <2>1, <2>2, ConcatProperties
<1>3. \A k \in 0 .. n : Len(f[k]) \in Nat
    OBVIOUS
<1>4. \A k \in 1 .. n : Len(seqs[k]) \in Nat
    OBVIOUS
<1>5. Len(seqs[i]) > 0
    <2>1. seqs[i] \in Seq(S)
        OBVIOUS
    <2> QED BY <2>1, EmptySeq
<1>6. 0 \in T
    OBVIOUS
<1>7. ASSUME NEW k \in Nat, k \in T PROVE k + 1 \in T
    <2> SUFFICES ASSUME i <= k + 1, k + 1 <= n PROVE Len(f[k + 1]) > 0
        OBVIOUS
    <2>1. k + 1 \in 1 .. n /\ k + 1 - 1 = k /\ k \in 0 .. n
        OBVIOUS
    <2>2. Len(f[k + 1]) = Len(f[k]) + Len(seqs[k + 1])
        BY <1>2, <2>1
    <2> DEFINE before == Len(f[k])
               added == Len(seqs[k + 1])
    <2>3. before \in Nat /\ added \in Nat
        BY <1>3, <1>4, <2>1
    <2>4. before > 0 \/ added > 0
        <3>1. CASE i = k + 1
            BY <1>5, <3>1
        <3>2. CASE i <= k
            BY <1>7, <3>2, <2>1
        <3> QED BY <3>1, <3>2
    <2>5. before + added > 0
        <3> HIDE DEF before, added
        <3> QED BY <2>3, <2>4
    <2> QED BY <2>2, <2>5
<1>8. Len(f[n]) > 0
    <2>1. Nat \subseteq T
        <3> HIDE DEF T
        <3> QED BY <1>6, <1>7, Induction
    <2> QED BY <2>1
<1> QED BY <1>1, <1>8 DEF Flattens

(* An empty sequence at the end adds nothing.                              *)
EndsEmpty(longer, seqs, n) ==
    longer[n + 1] = <<>> /\ \A i \in 1 .. n : longer[i] = seqs[i]

LEMMA FlattenSeqOfEmptyEnd ==
    ASSUME NEW n \in Nat, NEW S, NEW seqs \in [1 .. n -> Seq(S)],
           NEW longer \in [1 .. n + 1 -> Seq(S)], EndsEmpty(longer, seqs, n)
    PROVE  FlattenSeq(longer) = FlattenSeq(seqs)
<1>1. PICK f \in [0 .. n -> Seq(S)] : Flattens(f, n, seqs)
    BY Flattening
<1>2. PICK g \in [0 .. n + 1 -> Seq(S)] : Flattens(g, n + 1, longer)
    <2>1. n + 1 \in Nat
        OBVIOUS
    <2> QED BY <2>1, Flattening
<1> DEFINE T == {k \in Nat : k <= n => g[k] = f[k]}
<1>3. 0 \in T
    BY <1>1, <1>2 DEF Flattens
<1>4. ASSUME NEW k \in Nat, k \in T PROVE k + 1 \in T
    <2> SUFFICES ASSUME k + 1 <= n PROVE g[k + 1] = f[k + 1]
        OBVIOUS
    <2>1. k + 1 \in 1 .. n /\ k + 1 \in 1 .. n + 1 /\ k + 1 - 1 = k
        OBVIOUS
    <2>2. g[k + 1] = Joined(g[k], longer[k + 1])
        BY <1>2, <2>1 DEF Flattens
    <2>3. f[k + 1] = Joined(f[k], seqs[k + 1])
        BY <1>1, <2>1 DEF Flattens
    <2>4. longer[k + 1] = seqs[k + 1]
        BY <2>1 DEF EndsEmpty
    <2> QED BY <1>4, <2>1, <2>2, <2>3, <2>4
<1>5. g[n] = f[n]
    <2>1. Nat \subseteq T
        <3> HIDE DEF T
        <3> QED BY <1>3, <1>4, Induction
    <2> QED BY <2>1
<1>6. g[n + 1] = g[n]
    <2>1. n + 1 \in 1 .. n + 1 /\ n + 1 - 1 = n
        OBVIOUS
    <2>2. g[n + 1] = Joined(g[n], longer[n + 1])
        BY <1>2, <2>1 DEF Flattens
    <2>3. g[n] \in Seq(S)
        OBVIOUS
    <2>4. g[n + 1] = g[n] \o <<>>
        BY <2>2 DEF EndsEmpty, Joined
    <2> QED BY <2>3, <2>4, ConcatEmptySeq
<1> QED BY <1>1, <1>2, <1>5, <1>6 DEF Flattens

-----------------------------------------------------------------------------
(* The rows and the columns.  What is read from the rows that a query      *)
(* fills is the query, and the same of the columns.                        *)

LEMMA DefaultRowIsARow == DefaultRow \in Rows
<1>1. Head(TrackKinds) \in ToSet(TrackKinds) /\ Head(EditTypes) \in ToSet(EditTypes)
    BY FilterModelAssumption DEF ToSet
<1> QED BY <1>1, FilterModelAssumption DEF DefaultRow, Rows

(* A row makes at most one condition.                                      *)
LEMMA ConditionOfType ==
    ASSUME NEW row \in Rows
    PROVE  /\ ConditionOf(row) \in Seq(Conditions)
           /\ ConditionOf(row) = <<>>
              \/ \E condition \in Conditions : ConditionOf(row) = <<condition>>
<1>1. ConditionOf(row) = <<>> \/ \E condition : ConditionOf(row) = <<condition>>
    BY DEF ConditionOf
<1>2. ASSUME NEW condition, ConditionOf(row) = <<condition>>
      PROVE  condition \in Conditions
    BY <1>2 DEF Conditions, ToSet
<1>3. \A condition \in Conditions : <<condition>> \in Seq(Conditions)
    OBVIOUS
<1>4. <<>> \in Seq(Conditions)
    OBVIOUS
<1>5. CASE ConditionOf(row) = <<>>
    BY <1>4, <1>5
<1>6. CASE \E condition : ConditionOf(row) = <<condition>>
    BY <1>2, <1>3, <1>6
<1> QED BY <1>1, <1>5, <1>6

(* The row a condition fills is a row, and makes the condition again.      *)
LEMMA RowHoldsTheCondition ==
    ASSUME NEW condition \in Conditions
    PROVE  RowOf(condition) \in Rows /\ ConditionOf(RowOf(condition)) = <<condition>>
<1>1. PICK row \in Rows : condition \in ToSet(ConditionOf(row))
    BY DEF Conditions
<1>2. ConditionOf(row) = <<condition>>
    <2>1. ConditionOf(row) # <<>>
        BY <1>1 DEF ToSet
    <2> QED BY <1>1, <2>1, ConditionOfType DEF ToSet
<1> DEFINE editor == EditorForField(row.field)
<1>3. /\ row.field \in Fields /\ row.text \in Texts
      /\ row.options \in SUBSET Toggles
      /\ row.trackKind \in ToSet(TrackKinds)
      /\ row.editType \in ToSet(EditTypes)
    BY DEF Rows
<1> USE DefaultRowIsARow DEF RowOf, Rows, Condition
<1>4. CASE editor = "trackKind"
    <2>1. condition = Condition(row.field, row.trackKind, {})
        BY <1>2, <1>4 DEF ConditionOf
    <2> QED BY <1>3, <1>4, <2>1 DEF ConditionOf
<1>5. CASE editor = "editType"
    <2>1. condition = Condition(row.field, row.editType, {})
        BY <1>2, <1>5 DEF ConditionOf
    <2> QED BY <1>3, <1>5, <2>1 DEF ConditionOf
<1>6. CASE editor = "duration" /\ row.text \in DOMAIN Frames
    <2>1. condition = Condition(row.field, Frames[row.text], {})
        BY <1>2, <1>6 DEF ConditionOf
    <2> QED BY <1>3, <1>6, <2>1, FilterModelAssumption DEF ConditionOf
<1>7. CASE editor = "timecode" /\ row.text # EmptyText
    <2>1. condition = Condition(row.field, row.text, {})
        BY <1>2, <1>7 DEF ConditionOf
    <2> QED BY <1>3, <1>7, <2>1 DEF ConditionOf
<1>8. CASE editor = "text" /\ row.text # EmptyText
    <2>1. condition = Condition(row.field, row.text, row.options)
        BY <1>2, <1>8 DEF ConditionOf
    <2> QED BY <1>3, <1>8, <2>1 DEF ConditionOf
<1> QED BY <1>2, <1>4, <1>5, <1>6, <1>7, <1>8 DEF ConditionOf

LEMMA QueryOfType ==
    ASSUME NEW rows \in Seq(Rows), NEW combination \in {"all", "any"}
    PROVE  QueryOf(rows, combination) \in Queries
<1> DEFINE made == [i \in DOMAIN rows |-> ConditionOf(rows[i])]
<1>1. made \in [1 .. Len(rows) -> Seq(Conditions)]
    <2>1. \A i \in DOMAIN rows : rows[i] \in Rows
        OBVIOUS
    <2> QED BY <2>1, ConditionOfType
<1>2. FlattenSeq(made) \in Seq(Conditions)
    <2> HIDE DEF made
    <2> QED BY <1>1, FlattenSeqType
<1> QED BY <1>2 DEF QueryOf, Queries

LEMMA QueryRoundTrip ==
    ASSUME NEW query \in Queries
    PROVE  /\ RowsOf(query) \in Seq(Rows)
           /\ QueryOf(RowsOf(query), query.combination) = query
<1> DEFINE conditions == query.conditions
           rows == RowsOf(query)
           made == [i \in DOMAIN rows |-> ConditionOf(rows[i])]
<1>1. conditions \in Seq(Conditions) /\ query.combination \in {"all", "any"}
    BY DEF Queries
<1>2. query = [combination |-> query.combination, conditions |-> conditions]
    BY DEF Queries
<1>3. CASE conditions = <<>>
    <2>1. rows = <<DefaultRow>>
        BY <1>3 DEF RowsOf
    <2>2. ConditionOf(DefaultRow) = <<>>
        BY DEF ConditionOf, DefaultRow, EditorForField
    <2>3. made = [i \in 1 .. 1 |-> <<>>]
        <3>1. DOMAIN rows = 1 .. 1 /\ rows[1] = DefaultRow
            BY <2>1
        <3> HIDE DEF rows
        <3> QED BY <2>2, <3>1
    <2>4. FlattenSeq(made) = <<>>
        <3> DEFINE empty == <<>>
        <3>1. empty \in Seq(Conditions) /\ Len(empty) = 0
            OBVIOUS
        <3>2. made \in [1 .. 1 -> Seq(Conditions)]
            BY <2>3, <3>1
        <3>3. Spreads(made, 1, empty)
            BY <2>3, <3>1 DEF Spreads
        <3> HIDE DEF made, empty
        <3>4. FlattenSeq(made) = empty
            BY <3>1, <3>2, <3>3, FlattenSeqOfSingletons
        <3> QED BY <3>4 DEF empty
    <2> QED BY <1>2, <1>3, <2>1, <2>4, DefaultRowIsARow DEF QueryOf
<1>4. CASE conditions # <<>>
    <2>1. rows = [i \in DOMAIN conditions |-> RowOf(conditions[i])]
        BY <1>4 DEF RowsOf
    <2>2. \A i \in 1 .. Len(conditions) : conditions[i] \in Conditions
        BY <1>1
    <2>3. rows \in Seq(Rows) /\ Len(rows) = Len(conditions)
        BY <1>1, <2>1, <2>2, RowHoldsTheCondition
    <2>4. /\ made \in [1 .. Len(conditions) -> Seq(Conditions)]
          /\ \A i \in 1 .. Len(conditions) : made[i] = <<conditions[i]>>
        <3>1. DOMAIN rows = 1 .. Len(conditions)
              /\ \A i \in 1 .. Len(conditions) : rows[i] = RowOf(conditions[i])
            BY <1>1, <2>1
        <3> HIDE DEF rows, conditions
        <3>2. \A i \in 1 .. Len(conditions) : made[i] = <<conditions[i]>>
            BY <2>2, <3>1, RowHoldsTheCondition
        <3>3. \A i \in 1 .. Len(conditions) : <<conditions[i]>> \in Seq(Conditions)
            BY <2>2
        <3> QED BY <3>1, <3>2, <3>3
    <2>5. FlattenSeq(made) = conditions
        <3>1. Len(conditions) \in Nat
            BY <1>1
        <3>2. Spreads(made, Len(conditions), conditions)
            <4> HIDE DEF made, conditions
            <4> QED BY <2>4, <3>1 DEF Spreads
        <3> HIDE DEF made, conditions
        <3> QED BY <1>1, <2>4, <3>1, <3>2, FlattenSeqOfSingletons
    <2> QED BY <1>2, <2>3, <2>5 DEF QueryOf
<1> QED BY <1>3, <1>4

LEMMA FieldsWithoutType ==
    ASSUME NEW excluded
    PROVE  FieldsWithout(excluded) \in Seq(ToSet(EventFields))
<1> DEFINE S == ToSet(EventFields)
           made == [i \in DOMAIN EventFields |->
                       IF EventFields[i] \in excluded
                       THEN <<>> ELSE <<EventFields[i]>>]
<1>1. made \in [1 .. Len(EventFields) -> Seq(S)] /\ Len(EventFields) \in Nat
    <2>1. DOMAIN EventFields = 1 .. Len(EventFields) /\ Len(EventFields) \in Nat
        BY FilterModelAssumption
    <2>2. \A i \in DOMAIN EventFields : EventFields[i] \in S
        BY DEF ToSet
    <2> HIDE DEF S
    <2>3. \A i \in DOMAIN EventFields : <<EventFields[i]>> \in Seq(S)
        BY <2>2
    <2>4. <<>> \in Seq(S)
        OBVIOUS
    <2> QED BY <2>1, <2>3, <2>4
<1>2. FlattenSeq(made) \in Seq(S)
    <2> HIDE DEF made, S
    <2> QED BY <1>1, FlattenSeqType
<1> QED BY <1>2 DEF FieldsWithout

LEMMA DefaultProjectionIsValid == DefaultEventProjection \in ValidProjections
<1> DEFINE S == ToSet(EventFields)
           made == [i \in DOMAIN EventFields |->
                       IF EventFields[i] \in {"initialFrame"}
                       THEN <<>> ELSE <<EventFields[i]>>]
<1>1. made \in [1 .. Len(EventFields) -> Seq(S)] /\ Len(EventFields) \in Nat
    <2>1. DOMAIN EventFields = 1 .. Len(EventFields) /\ Len(EventFields) \in Nat
        BY FilterModelAssumption
    <2>2. \A i \in DOMAIN EventFields : EventFields[i] \in S
        BY DEF ToSet
    <2> HIDE DEF S
    <2>3. \A i \in DOMAIN EventFields : <<EventFields[i]>> \in Seq(S)
        BY <2>2
    <2>4. <<>> \in Seq(S)
        OBVIOUS
    <2> QED BY <2>1, <2>3, <2>4
<1>2. PICK i \in 1 .. Len(EventFields) : made[i] # <<>>
    BY FilterModelAssumption
<1>3. FlattenSeq(made) # <<>>
    <2> HIDE DEF made, S
    <2> QED BY <1>1, <1>2, FlattenSeqNonempty
<1> QED BY <1>3, FieldsWithoutType
       DEF DefaultEventProjection, FieldsWithout, ValidProjections, IsValidProjection

LEMMA ProjectionParts ==
    ASSUME NEW columns \in Seq(Columns)
    PROVE  [i \in DOMAIN columns |->
               IF columns[i].selected THEN <<columns[i].field>> ELSE <<>>]
           \in [1 .. Len(columns) -> Seq(ToSet(EventFields))]
<1> DEFINE S == ToSet(EventFields)
<1>1. DOMAIN columns = 1 .. Len(columns)
    OBVIOUS
<1>2. \A i \in DOMAIN columns : columns[i].field \in S
    <2>1. \A column \in Columns : column.field \in S
        BY DEF Columns
    <2>2. \A i \in DOMAIN columns : columns[i] \in Columns
        OBVIOUS
    <2> QED BY <2>1, <2>2
<1> HIDE DEF S
<1>3. \A i \in DOMAIN columns : <<columns[i].field>> \in Seq(S)
    BY <1>2
<1>4. <<>> \in Seq(S)
    OBVIOUS
<1>5. [i \in DOMAIN columns |->
          IF columns[i].selected THEN <<columns[i].field>> ELSE <<>>]
      \in [1 .. Len(columns) -> Seq(S)]
    BY <1>1, <1>3, <1>4
<1> QED BY <1>5 DEF S

LEMMA ProjectionType ==
    ASSUME NEW columns \in Seq(Columns)
    PROVE  Projection(columns) \in Seq(ToSet(EventFields))
<1>1. Len(columns) \in Nat
    OBVIOUS
<1> QED BY <1>1, ProjectionParts, FlattenSeqType DEF Projection

LEMMA ProjectionRoundTrip ==
    ASSUME NEW projection \in Seq(ToSet(EventFields))
    PROVE  /\ ColumnsOf(projection) \in Seq(Columns)
           /\ Projection(ColumnsOf(projection)) = projection
<1> DEFINE S == ToSet(EventFields)
           others == FieldsWithout(ToSet(projection))
           chosen == [i \in DOMAIN projection |-> Column(projection[i], TRUE)]
           rest == [i \in DOMAIN others |-> Column(others[i], FALSE)]
           columns == chosen \o rest
           made == [i \in DOMAIN columns |->
                       IF columns[i].selected THEN <<columns[i].field>> ELSE <<>>]
<1>1. others \in Seq(S)
    BY FieldsWithoutType
<1>2. /\ chosen \in Seq(Columns) /\ Len(chosen) = Len(projection)
      /\ \A i \in 1 .. Len(projection) : chosen[i] = Column(projection[i], TRUE)
    <2>1. DOMAIN projection = 1 .. Len(projection) /\ Len(projection) \in Nat
        OBVIOUS
    <2>2. \A i \in 1 .. Len(projection) : Column(projection[i], TRUE) \in Columns
        BY DEF Columns, Column
    <2>3. chosen \in [1 .. Len(projection) -> Columns]
        BY <2>1, <2>2
    <2>4. \A i \in 1 .. Len(projection) : chosen[i] = Column(projection[i], TRUE)
        BY <2>1
    <2> HIDE DEF chosen
    <2>5. chosen \in Seq(Columns) /\ Len(chosen) = Len(projection)
        BY <2>1, <2>3
    <2> QED BY <2>4, <2>5
<1>3. /\ rest \in Seq(Columns)
      /\ \A i \in DOMAIN rest : rest[i].selected = FALSE
    <2> HIDE DEF others
    <2>1. DOMAIN others = 1 .. Len(others) /\ Len(others) \in Nat
        BY <1>1
    <2>2. \A i \in 1 .. Len(others) : Column(others[i], FALSE) \in Columns
        BY <1>1 DEF Columns, Column
    <2>3. rest \in [1 .. Len(others) -> Columns]
        BY <2>1, <2>2
    <2>4. \A i \in DOMAIN rest : rest[i].selected = FALSE
        BY DEF Column
    <2> HIDE DEF rest
    <2> QED BY <2>1, <2>3, <2>4
<1>4. Len(projection) \in Nat /\ Len(rest) \in Nat
    <2> HIDE DEF rest
    <2> QED BY <1>3
<1>5. /\ columns \in Seq(Columns)
      /\ Len(columns) = Len(projection) + Len(rest)
      /\ \A i \in 1 .. Len(columns) :
            columns[i] = IF i <= Len(projection) THEN chosen[i]
                         ELSE rest[i - Len(projection)]
    <2> HIDE DEF chosen, rest
    <2>1. /\ chosen \o rest \in Seq(Columns)
          /\ Len(chosen \o rest) = Len(chosen) + Len(rest)
          /\ \A i \in 1 .. Len(chosen) + Len(rest) :
                (chosen \o rest)[i] = IF i <= Len(chosen) THEN chosen[i]
                                      ELSE rest[i - Len(chosen)]
        BY <1>2, <1>3, ConcatProperties
    <2> HIDE DEF columns
    <2>2. columns = chosen \o rest
        BY DEF columns
    <2> QED BY <1>2, <2>1, <2>2
<1> HIDE DEF chosen, rest, columns
<1>6. ASSUME NEW i \in 1 .. Len(columns)
      PROVE  /\ i <= Len(projection) => columns[i] = Column(projection[i], TRUE)
             /\ i > Len(projection) => columns[i].selected = FALSE
    <2>1. CASE i <= Len(projection)
        <3>1. i \in 1 .. Len(projection) /\ ~ i > Len(projection)
            BY <1>4, <2>1
        <3>2. columns[i] = chosen[i]
            BY <1>5, <2>1
        <3> QED BY <1>2, <3>1, <3>2
    <2>2. CASE i > Len(projection)
        <3>1. i - Len(projection) \in DOMAIN rest /\ ~ i <= Len(projection)
            BY <1>3, <1>4, <1>5, <2>2
        <3>2. columns[i] = rest[i - Len(projection)]
            BY <1>5, <3>1
        <3> QED BY <1>3, <3>1, <3>2
    <2> QED BY <2>1, <2>2, <1>4
<1>7. /\ made \in [1 .. Len(columns) -> Seq(S)]
      /\ Spreads(made, Len(columns), projection)
    <2>1. DOMAIN columns = 1 .. Len(columns) /\ Len(columns) \in Nat
        BY <1>5
    <2>2. ASSUME NEW i \in 1 .. Len(columns), i <= Len(projection)
          PROVE  made[i] = <<projection[i]>>
        <3>1. columns[i] = Column(projection[i], TRUE)
            BY <1>6, <2>2
        <3>2. columns[i].selected /\ columns[i].field = projection[i]
            BY <3>1 DEF Column
        <3> QED BY <2>1, <3>2
    <2>3. ASSUME NEW i \in 1 .. Len(columns), i > Len(projection)
          PROVE  made[i] = <<>>
        <3>1. columns[i].selected = FALSE
            BY <1>6, <2>3
        <3> QED BY <2>1, <3>1
    <2>4. made \in [1 .. Len(columns) -> Seq(S)]
        BY <1>5, ProjectionParts
    <2>5. Len(projection) <= Len(columns)
        BY <1>4, <1>5
    <2>6. 1 .. Len(projection) \subseteq 1 .. Len(columns)
          /\ \A i \in 1 .. Len(projection) : i <= Len(projection)
        BY <1>4, <2>1, <2>5
    <2> HIDE DEF made
    <2>7. \A i \in 1 .. Len(projection) : made[i] = <<projection[i]>>
        BY <2>2, <2>6
    <2>8. \A i \in 1 .. Len(columns) : i > Len(projection) => made[i] = <<>>
        BY <2>3
    <2> QED BY <2>4, <2>5, <2>7, <2>8 DEF Spreads
<1>8. FlattenSeq(made) = projection
    <2>1. Len(columns) \in Nat
        BY <1>4, <1>5
    <2> HIDE DEF made, S
    <2>2. projection \in Seq(S)
        BY DEF S
    <2> QED BY <1>7, <2>1, <2>2, FlattenSeqOfSingletons
<1>9. columns = ColumnsOf(projection)
    BY DEF ColumnsOf, columns, chosen, rest
<1>10. Projection(columns) = FlattenSeq(made)
    BY DEF Projection
<1> QED BY <1>5, <1>8, <1>9, <1>10

-----------------------------------------------------------------------------
(* The handlers: what each sets, and what it leaves as it was.             *)

WindowFields ==
    {"catalog", "active", "filter", "valid", "projection", "modified",
     "shown", "rows", "combination", "columns", "document"}

DocumentFields == {"state", "loaded", "query", "error", "projection"}

TemplateFields ==
    {"catalog", "active", "filter", "valid", "projection", "modified", "shown"}

ListFields == {"modified", "shown"}

Same(r, w, fields) == \A field \in fields : r[field] = w[field]

(* The document stays, and has no error while it is not loaded.            *)
KeepsDocument(r, w) ==
    /\ Same(r.document, w.document, {"state", "loaded"})
    /\ ErrorNeedsDocument(w) => ErrorNeedsDocument(r)

LEMMA QuietSetFilterQuery ==
    ASSUME NEW w, IsWindow(w), NEW query \in Queries
    PROVE  LET r == Quiet!SetFilterQuery(w, query)
           IN  /\ IsWindow(r)
               /\ Same(r, w, WindowFields \ {"document"})
               /\ r.document.query = query
               /\ r.document.projection = w.document.projection
               /\ KeepsDocument(r, w)
               /\ w.document.query = query => r = w
BY DEF Quiet!SetFilterQuery, Quiet!ApplyFilter, Ignored, IsWindow, Same,
       WindowFields, KeepsDocument, ErrorNeedsDocument

LEMMA QuietSetEventProjection ==
    ASSUME NEW w, IsWindow(w), NEW projection
    PROVE  LET r == Quiet!SetEventProjection(w, projection)
           IN  /\ IsWindow(r)
               /\ Same(r, w, WindowFields \ {"document"})
               /\ Same(r.document, w.document, DocumentFields \ {"projection"})
               /\ r.document.projection = IF IsValidProjection(projection)
                                          THEN projection
                                          ELSE w.document.projection
BY DEF Quiet!SetEventProjection, Quiet!IsValidProjection, IsValidProjection,
       IsWindow, Same, WindowFields, DocumentFields

(* The editors and the document follow the template view model.            *)
LEMMA Synchronizing ==
    ASSUME NEW w, IsWindow(w)
    PROVE  LET r == SynchronizeTemplateState(w)
           IN  /\ IsWindow(r)
               /\ Same(r, w, TemplateFields)
               /\ AreEqual(r)
               /\ KeepsDocument(r, w)
               /\ w.document.query = w.filter => r.document.error = w.document.error
<1> DEFINE edited == [w EXCEPT !.rows = RowsOf(w.filter),
                               !.combination = w.filter.combination,
                               !.columns = ColumnsOf(w.projection)]
           filtered == Quiet!SetFilterQuery(edited, edited.filter)
           r == Quiet!SetEventProjection(filtered, Projection(filtered.columns))
<1>1. /\ w.filter \in Queries /\ w.filter.combination \in {"all", "any"}
      /\ w.projection \in Seq(ToSet(EventFields)) /\ IsValidProjection(w.projection)
    BY DEF IsWindow, ValidProjections, Queries
<1>2. /\ IsWindow(edited)
      /\ Same(edited, w, TemplateFields \cup {"document"})
      /\ edited.rows = RowsOf(w.filter) /\ edited.combination = w.filter.combination
      /\ edited.columns = ColumnsOf(w.projection)
    BY <1>1, QueryRoundTrip, ProjectionRoundTrip DEF IsWindow, Same, TemplateFields
<1> HIDE DEF edited
<1>3. /\ Query(edited) = w.filter
      /\ Projection(edited.columns) = w.projection
    BY <1>1, <1>2, QueryRoundTrip, ProjectionRoundTrip DEF Query
<1>4. /\ IsWindow(filtered)
      /\ Same(filtered, edited, WindowFields \ {"document"})
      /\ filtered.document.query = w.filter
      /\ KeepsDocument(filtered, edited)
      /\ edited.document.query = w.filter => filtered = edited
    <2>1. edited.filter = w.filter
        BY <1>2 DEF Same, TemplateFields
    <2> QED BY <1>1, <1>2, <2>1, QuietSetFilterQuery
<1> HIDE DEF filtered
<1>5. Projection(filtered.columns) = w.projection
    BY <1>3, <1>4 DEF Same, WindowFields
<1>6. /\ IsWindow(r)
      /\ Same(r, filtered, WindowFields \ {"document"})
      /\ Same(r.document, filtered.document, DocumentFields \ {"projection"})
      /\ r.document.projection = w.projection
    BY <1>1, <1>4, <1>5, QuietSetEventProjection
<1>7. r = SynchronizeTemplateState(w)
    BY DEF r, filtered, edited, SynchronizeTemplateState
<1> HIDE DEF r
<1>8. Same(r, w, TemplateFields)
    BY <1>2, <1>4, <1>6 DEF Same, TemplateFields, WindowFields
<1>9. AreEqual(r)
    <2>1. r.rows = edited.rows /\ r.combination = edited.combination
          /\ r.columns = edited.columns
        BY <1>4, <1>6 DEF Same, WindowFields
    <2>2. r.filter = w.filter /\ r.projection = w.projection
        BY <1>8 DEF Same, TemplateFields
    <2>3. r.document.query = w.filter
        BY <1>4, <1>6 DEF Same, DocumentFields
    <2> QED BY <1>3, <1>6, <2>1, <2>2, <2>3 DEF AreEqual, Query
<1>10. KeepsDocument(r, w)
    BY <1>2, <1>4, <1>6 DEF KeepsDocument, ErrorNeedsDocument, Same,
       DocumentFields, TemplateFields
<1>11. w.document.query = w.filter => r.document.error = w.document.error
    BY <1>2, <1>4, <1>6 DEF Same, DocumentFields, TemplateFields
<1> QED BY <1>6, <1>7, <1>8, <1>9, <1>10, <1>11

EditedFields == {"filter", "projection", "rows", "combination", "columns", "document"}

LEMMA EqualityOfFields ==
    ASSUME NEW w, NEW r, Same(r, w, EditedFields), AreEqual(w)
    PROVE  AreEqual(r)
BY DEF AreEqual, Same, EditedFields, Query, IsEventProjectionValid

LEMMA SavedTemplateParts ==
    ASSUME NEW w, IsWindow(w), NEW identifier \in DOMAIN w.catalog,
           w.catalog[identifier] # NoTemplate
    PROVE  /\ w.catalog[identifier] \in SavedTemplates
           /\ w.catalog[identifier].filter \in Queries
           /\ w.catalog[identifier].projection \in ValidProjections
<1>1. w.catalog[identifier] \in SavedTemplates
    BY DEF IsWindow
<1> QED BY <1>1 DEF SavedTemplates

LEMMA TemplatesRefreshModel ==
    ASSUME NEW w, IsWindow(w)
    PROVE  LET r == Templates!RefreshTemplateModel(w)
           IN  IsWindow(r) /\ Same(r, w, WindowFields \ {"shown"}) /\ IsListTrue(r)
BY DEF Templates!RefreshTemplateModel, Templates!SetTemplates,
       Silent!SetTemplates, IsWindow, Same, WindowFields, IsListTrue

LEMMA TemplatesRefreshModified ==
    ASSUME NEW w, IsWindow(w), IsActiveListed(w), IsListTrue(w)
    PROVE  LET r == Templates!RefreshModified(w)
           IN  /\ IsWindow(r)
               /\ Same(r, w, WindowFields \ ListFields)
               /\ IsActiveListed(r) /\ IsModifiedTrue(r) /\ IsListTrue(r)
<1> DEFINE modified == /\ Templates!ActiveTemplate(w) # NoTemplate
                       /\ Templates!Differs(w, Templates!ActiveTemplate(w))
           changed == [w EXCEPT !.modified = modified]
           r == Templates!RefreshModified(w)
<1>1. modified = (/\ w.active # NoTemplate
                  /\ Silent!Differs(w, w.catalog[w.active]))
    BY DEF Templates!ActiveTemplate, Templates!Differs, Silent!Differs, IsActiveListed
<1>2. CASE w.modified = modified
    <2>1. r = w
        BY <1>2 DEF Templates!RefreshModified
    <2> HIDE DEF modified
    <2> QED BY <1>1, <1>2, <2>1 DEF Same, IsModifiedTrue
<1>3. CASE w.modified # modified
    <2>1. /\ IsWindow(changed) /\ changed.modified = modified
          /\ Same(changed, w, WindowFields \ {"modified"})
        <3> HIDE DEF modified
        <3> QED BY DEF IsWindow, Same, WindowFields
    <2>2. r = Templates!RefreshTemplateModel(changed)
        BY <1>3 DEF Templates!RefreshModified
    <2> HIDE DEF modified, changed, r
    <2>3. IsWindow(r) /\ Same(r, changed, WindowFields \ {"shown"}) /\ IsListTrue(r)
        BY <2>1, <2>2, TemplatesRefreshModel
    <2>4. Same(r, w, WindowFields \ ListFields) /\ r.modified = modified
        BY <2>1, <2>3 DEF Same, WindowFields, ListFields
    <2>5. /\ r.active = w.active /\ r.catalog = w.catalog
          /\ r.filter = w.filter /\ r.projection = w.projection
        BY <2>4 DEF Same, WindowFields, ListFields
    <2>6. IsActiveListed(r) /\ IsModifiedTrue(r)
        BY <1>1, <2>4, <2>5 DEF IsActiveListed, IsModifiedTrue, Silent!Differs
    <2> QED BY <2>3, <2>4, <2>6 DEF r
<1> QED BY <1>2, <1>3

LEMMA SilentRefreshModified ==
    ASSUME NEW w, IsWindow(w), IsActiveListed(w), IsListTrue(w)
    PROVE  LET r == Silent!RefreshModified(w)
           IN  /\ IsWindow(r)
               /\ Same(r, w, WindowFields \ ListFields)
               /\ IsActiveListed(r) /\ IsModifiedTrue(r) /\ IsListTrue(r)
<1>1. Silent!RefreshModified(w) = Templates!RefreshModified(w)
    BY DEF Silent!RefreshModified, Templates!RefreshModified,
       Silent!ActiveTemplate, Templates!ActiveTemplate,
       Silent!Differs, Templates!Differs, Silent!RefreshTemplateModel,
       Templates!RefreshTemplateModel, Silent!SetTemplates, Templates!SetTemplates
<1> QED BY <1>1, TemplatesRefreshModified

LEMMA TemplatesSetActive ==
    ASSUME NEW w, IsWindow(w), NEW identifier
    PROVE  LET r == Templates!SetActiveIdentifier(w, identifier)
           IN  /\ IsWindow(r)
               /\ Same(r, w, WindowFields \ {"active", "shown"})
               /\ r.active = identifier
               /\ IsListTrue(w) \/ w.active # identifier => IsListTrue(r)
<1> DEFINE chosen == [w EXCEPT !.active = identifier]
           r == Templates!SetActiveIdentifier(w, identifier)
<1>1. CASE w.active = identifier
    BY <1>1 DEF Templates!SetActiveIdentifier, Same
<1>2. CASE w.active # identifier
    <2>1. r = Templates!RefreshTemplateModel(chosen)
        BY <1>2 DEF Templates!SetActiveIdentifier
    <2>2. /\ IsWindow(chosen)
          /\ Same(chosen, w, WindowFields \ {"active"})
          /\ chosen.active = identifier
        BY DEF IsWindow, Same, WindowFields
    <2> HIDE DEF chosen, r
    <2>3. IsWindow(r) /\ Same(r, chosen, WindowFields \ {"shown"}) /\ IsListTrue(r)
        BY <2>1, <2>2, TemplatesRefreshModel
    <2>4. Same(r, w, WindowFields \ {"active", "shown"}) /\ r.active = identifier
        BY <2>2, <2>3 DEF Same, WindowFields
    <2> QED BY <2>3, <2>4 DEF r
<1> QED BY <1>1, <1>2

LEMMA TemplatesEmit ==
    ASSUME NEW w, IsWindow(w), NEW filterChanged \in BOOLEAN,
           NEW projectionChanged \in BOOLEAN
    PROVE  LET r == Templates!Emit(w, filterChanged, projectionChanged)
           IN  /\ IsWindow(r)
               /\ Same(r, w, TemplateFields)
               /\ KeepsDocument(r, w)
               /\ filterChanged \/ projectionChanged => AreEqual(r)
               /\ ~ filterChanged /\ ~ projectionChanged => r = w
<1> DEFINE first == IF filterChanged THEN SynchronizeTemplateState(w) ELSE w
           r == Templates!Emit(w, filterChanged, projectionChanged)
<1>1. /\ IsWindow(first) /\ Same(first, w, TemplateFields)
      /\ KeepsDocument(first, w)
      /\ filterChanged => AreEqual(first)
      /\ ~ filterChanged => first = w
    BY Synchronizing DEF Same, KeepsDocument
<1>2. r = IF projectionChanged THEN SynchronizeTemplateState(first) ELSE first
    BY DEF Templates!Emit
<1> HIDE DEF first, r
<1>3. CASE projectionChanged
    <2>1. /\ IsWindow(r) /\ Same(r, first, TemplateFields) /\ AreEqual(r)
          /\ KeepsDocument(r, first)
        BY <1>1, <1>2, <1>3, Synchronizing
    <2> QED BY <1>1, <1>3, <2>1 DEF r, Same, KeepsDocument
<1>4. CASE ~ projectionChanged
    BY <1>1, <1>2, <1>4 DEF r
<1> QED BY <1>3, <1>4

(* A template or the defaults are applied.                                 *)
Applied(r, w, filter, projection) ==
    /\ IsWindow(r)
    /\ Same(r, w, {"catalog", "active"})
    /\ r.filter = filter /\ r.projection = projection /\ r.valid
    /\ IsActiveListed(r) /\ IsModifiedTrue(r) /\ IsListTrue(r)
    /\ KeepsDocument(r, w)
    /\ AreEqual(w) => AreEqual(r)

LEMMA TemplatesApply ==
    ASSUME NEW w, IsWindow(w), IsActiveListed(w), IsListTrue(w),
           NEW filter \in Queries, NEW projection \in ValidProjections
    PROVE  Applied(Templates!Apply(w, filter, projection), w, filter, projection)
<1> DEFINE filterChanged == w.filter # filter \/ ~ w.valid
           projectionChanged == w.projection # projection
           taken == [w EXCEPT !.filter = filter, !.valid = TRUE,
                              !.projection = projection]
           told == Templates!Emit(taken, filterChanged, projectionChanged)
           r == Templates!RefreshModified(told)
<1>1. /\ IsWindow(taken)
      /\ Same(taken, w, WindowFields \ {"filter", "valid", "projection"})
      /\ taken.filter = filter /\ taken.projection = projection /\ taken.valid
    BY DEF IsWindow, Same, WindowFields
<1>2. filterChanged \in BOOLEAN /\ projectionChanged \in BOOLEAN
    OBVIOUS
<1>3. ~ filterChanged /\ ~ projectionChanged /\ AreEqual(w) => AreEqual(taken)
    <2>1. ~ filterChanged /\ ~ projectionChanged => Same(taken, w, EditedFields)
        <3> HIDE DEF taken
        <3> QED BY <1>1 DEF Same, WindowFields, EditedFields
    <2> QED BY <2>1, EqualityOfFields
<1>4. Templates!Apply(w, filter, projection) = r
    BY DEF Templates!Apply
<1> HIDE DEF filterChanged, projectionChanged, taken
<1>5. /\ IsWindow(told) /\ Same(told, taken, TemplateFields)
      /\ KeepsDocument(told, taken)
      /\ AreEqual(w) => AreEqual(told)
    BY <1>1, <1>2, <1>3, TemplatesEmit
<1> HIDE DEF told
<1>6. IsActiveListed(told) /\ IsListTrue(told)
    BY <1>1, <1>5 DEF IsActiveListed, IsListTrue, Same, WindowFields, TemplateFields
<1>7. /\ IsWindow(r) /\ Same(r, told, WindowFields \ ListFields)
      /\ IsActiveListed(r) /\ IsModifiedTrue(r) /\ IsListTrue(r)
    BY <1>5, <1>6, TemplatesRefreshModified
<1> HIDE DEF r
<1>8. /\ Same(r, w, {"catalog", "active"})
      /\ r.filter = filter /\ r.projection = projection /\ r.valid
      /\ Same(r, told, EditedFields)
    BY <1>1, <1>5, <1>7 DEF Same, WindowFields, TemplateFields, ListFields, EditedFields
<1>9. KeepsDocument(r, w)
    BY <1>1, <1>5, <1>8 DEF KeepsDocument, ErrorNeedsDocument, Same,
       WindowFields, EditedFields
<1>10. AreEqual(w) => AreEqual(r)
    BY <1>5, <1>8, EqualityOfFields
<1> QED BY <1>4, <1>7, <1>8, <1>9, <1>10 DEF Applied

LEMMA EmptyFilterIsAQuery == NoFilter \in Queries
BY DEF NoFilter, Queries

(* What every choice of a template leaves behind.                          *)
Chosen(r, w) ==
    /\ IsWindow(r)
    /\ r.catalog = w.catalog
    /\ r.valid
    /\ IsActiveListed(r) /\ IsModifiedTrue(r) /\ IsListTrue(r)
    /\ KeepsDocument(r, w)
    /\ AreEqual(w) => AreEqual(r)

LEMMA ChosenAfterSetActive ==
    ASSUME NEW w, IsWindow(w), NEW identifier,
           IsListTrue(w) \/ w.active # identifier,
           identifier # NoTemplate =>
              identifier \in DOMAIN w.catalog /\ w.catalog[identifier] # NoTemplate,
           NEW filter \in Queries, NEW projection \in ValidProjections
    PROVE  LET r == Templates!Apply(Templates!SetActiveIdentifier(w, identifier),
                                    filter, projection)
           IN  Chosen(r, w) /\ r.active = identifier
<1> DEFINE v == Templates!SetActiveIdentifier(w, identifier)
           r == Templates!Apply(v, filter, projection)
<1>1. /\ IsWindow(v) /\ Same(v, w, WindowFields \ {"active", "shown"})
      /\ v.active = identifier /\ IsListTrue(v)
    BY TemplatesSetActive
<1> HIDE DEF v
<1>2. v.catalog = w.catalog /\ v.document = w.document
      /\ Same(v, w, EditedFields)
    BY <1>1 DEF Same, WindowFields, EditedFields
<1>3. IsActiveListed(v)
    BY <1>1, <1>2 DEF IsActiveListed
<1>4. Applied(r, v, filter, projection)
    BY <1>1, <1>3, TemplatesApply
<1>5. AreEqual(w) => AreEqual(v)
    BY <1>2, EqualityOfFields
<1> HIDE DEF r
<1>6. KeepsDocument(r, w)
    BY <1>2, <1>4 DEF Applied, KeepsDocument, ErrorNeedsDocument
<1> QED BY <1>1, <1>2, <1>4, <1>5, <1>6 DEF Applied, Chosen, Same, v, r

LEMMA TemplatesSelectNone ==
    ASSUME NEW w, IsWindow(w), IsListTrue(w) \/ w.active # NoTemplate
    PROVE  LET r == Templates!SelectNoTemplate(w)
           IN  Chosen(r, w) /\ r.active = NoTemplate
<1>1. w.projection \in ValidProjections /\ Templates!NoFilter = NoFilter
    BY DEF IsWindow, Templates!NoFilter, NoFilter
<1> QED BY <1>1, ChosenAfterSetActive, EmptyFilterIsAQuery DEF Templates!SelectNoTemplate

LEMMA TemplatesSelect ==
    ASSUME NEW w, IsWindow(w), IsListTrue(w), NEW identifier \in DOMAIN w.catalog
    PROVE  Chosen(Templates!SelectTemplate(w, identifier), w)
<1>1. CASE w.catalog[identifier] = NoTemplate
    BY <1>1, TemplatesSelectNone DEF Templates!SelectTemplate
<1>2. CASE w.catalog[identifier] # NoTemplate
    <2>1. identifier # NoTemplate
        BY DEF IsWindow
    <2> QED BY <1>2, <2>1, SavedTemplateParts, ChosenAfterSetActive
           DEF Templates!SelectTemplate, Templates!ApplyTemplate
<1> QED BY <1>1, <1>2

LEMMA TemplatesRestore ==
    ASSUME NEW w, IsWindow(w), IsActiveListed(w), IsListTrue(w)
    PROVE  Chosen(Templates!RestoreForTimeline(w), w)
<1> DEFINE template == Templates!ActiveTemplate(w)
<1>1. CASE template # NoTemplate
    <2>1. /\ w.active # NoTemplate /\ w.active \in DOMAIN w.catalog
          /\ template = w.catalog[w.active]
        BY <1>1 DEF Templates!ActiveTemplate, IsActiveListed
    <2>2. template.filter \in Queries /\ template.projection \in ValidProjections
        BY <1>1, <2>1, SavedTemplateParts
    <2>3. Applied(Templates!Apply(w, template.filter, template.projection), w,
                  template.filter, template.projection)
        BY <2>2, TemplatesApply
    <2>4. Templates!RestoreForTimeline(w) =
             Templates!Apply(w, template.filter, template.projection)
        BY <1>1 DEF Templates!RestoreForTimeline, Templates!ApplyTemplate
    <2> QED BY <2>3, <2>4 DEF Applied, Chosen, Same
<1>2. CASE template = NoTemplate
    <2>1. Templates!NoFilter = NoFilter
        BY DEF Templates!NoFilter, NoFilter
    <2>2. Templates!DefaultEventProjection = DefaultEventProjection
        BY Zenon DEF Templates!DefaultEventProjection, DefaultEventProjection,
           Templates!FieldsWithout, FieldsWithout, Templates!FlattenSeq, FlattenSeq
    <2> QED BY <1>2, <2>1, <2>2, ChosenAfterSetActive, EmptyFilterIsAQuery,
              DefaultProjectionIsValid DEF Templates!RestoreForTimeline
<1> QED BY <1>1, <1>2

LEMMA ChosenIsConsistent ==
    ASSUME NEW w, NEW r, IsConsistent(w), Chosen(r, w)
    PROVE  IsConsistent(r)
BY DEF IsConsistent, Chosen, KeepsDocument

-----------------------------------------------------------------------------
(* The commands on templates.                                              *)

LEMMA TemplatesStored ==
    ASSUME NEW w, IsConsistent(w), NEW identifier \in DOMAIN w.catalog,
           NEW template \in SavedTemplates
    PROVE  LET r == Templates!Stored(w, identifier, template)
           IN  IsConsistent(r) /\ r.rows = w.rows
<1> DEFINE stored == [w EXCEPT !.catalog[identifier] = template]
           chosen == Templates!SetActiveIdentifier(stored, identifier)
           listed == Templates!RefreshTemplateModel(chosen)
           r == Templates!RefreshModified(listed)
<1>1. /\ IsWindow(stored) /\ Same(stored, w, WindowFields \ {"catalog"})
      /\ DOMAIN stored.catalog = DOMAIN w.catalog
      /\ stored.catalog[identifier] = template
    BY DEF IsConsistent, IsWindow, Same, WindowFields
<1>2. /\ IsWindow(chosen)
      /\ Same(chosen, stored, WindowFields \ {"active", "shown"})
      /\ chosen.active = identifier
    <2> HIDE DEF stored
    <2> QED BY <1>1, TemplatesSetActive
<1> HIDE DEF stored, chosen
<1>3. /\ IsWindow(listed) /\ Same(listed, chosen, WindowFields \ {"shown"})
      /\ IsListTrue(listed)
    BY <1>2, TemplatesRefreshModel
<1> HIDE DEF listed
<1>4. /\ listed.active = identifier
      /\ DOMAIN listed.catalog = DOMAIN w.catalog
      /\ listed.catalog[identifier] = template
      /\ Same(listed, w, EditedFields \cup {"valid"})
    BY <1>1, <1>2, <1>3 DEF Same, WindowFields, EditedFields
<1>5. IsActiveListed(listed)
    BY <1>4, ConfigurationAssumption DEF IsActiveListed
<1>6. /\ IsWindow(r) /\ Same(r, listed, WindowFields \ ListFields)
      /\ IsActiveListed(r) /\ IsModifiedTrue(r) /\ IsListTrue(r)
    BY <1>3, <1>5, TemplatesRefreshModified
<1>7. r = Templates!Stored(w, identifier, template)
    BY DEF Templates!Stored, listed, chosen, stored
<1> HIDE DEF r
<1>8. Same(r, w, EditedFields \cup {"valid"})
    BY <1>4, <1>6 DEF Same, WindowFields, ListFields, EditedFields
<1>9. AreEqual(r)
    BY <1>8, EqualityOfFields DEF IsConsistent, Same
<1>10. r.rows = w.rows /\ r.document = w.document /\ r.valid = w.valid
    BY <1>8 DEF Same, EditedFields
<1> QED BY <1>6, <1>7, <1>9, <1>10 DEF IsConsistent, ErrorNeedsDocument

(* The results of the commands that store a template, and of the one that  *)
(* removes it.                                                             *)
LEMMA CommandsStore ==
    ASSUME NEW w, IsConsistent(w), NEW name \in Names, NEW r,
           r \in Templates!Created(w, name) \cup Templates!ActiveUpdated(w)
                 \cup Templates!ActiveRenamed(w, name)
                 \cup Templates!ActiveDuplicated(w, name)
    PROVE  IsConsistent(r) /\ r.rows = w.rows
<1> DEFINE active == Templates!ActiveTemplate(w)
<1>1. w.filter \in Queries /\ w.projection \in ValidProjections /\ IsWindow(w)
    BY DEF IsConsistent, IsWindow
<1>2. active # NoTemplate =>
         w.active \in DOMAIN w.catalog /\ active \in SavedTemplates
    BY <1>1, SavedTemplateParts DEF Templates!ActiveTemplate, IsConsistent, IsActiveListed
<1>3. \A identifier \in Templates!FreshIdentifiers(w) : identifier \in DOMAIN w.catalog
    BY DEF Templates!FreshIdentifiers
<1>4. CASE r \in Templates!Created(w, name)
    <2> DEFINE template == [name |-> name, filter |-> w.filter,
                            projection |-> w.projection]
    <2>1. template \in SavedTemplates
        BY <1>1 DEF SavedTemplates
    <2>2. \E identifier \in DOMAIN w.catalog :
             r = Templates!Stored(w, identifier, template)
        BY <1>3, <1>4 DEF Templates!Created
    <2> HIDE DEF template
    <2> QED BY <2>1, <2>2, TemplatesStored
<1>5. CASE r \in Templates!ActiveUpdated(w)
    <2> DEFINE template == [active EXCEPT !.filter = w.filter,
                                          !.projection = w.projection]
    <2>1. active # NoTemplate /\ r = Templates!Stored(w, w.active, template)
        BY <1>5 DEF Templates!ActiveUpdated
    <2>2. template \in SavedTemplates
        <3> HIDE DEF active
        <3> QED BY <1>1, <1>2, <2>1 DEF SavedTemplates
    <2> HIDE DEF template, active
    <2> QED BY <1>2, <2>1, <2>2, TemplatesStored
<1>6. CASE r \in Templates!ActiveRenamed(w, name)
    <2> DEFINE template == [active EXCEPT !.name = name]
    <2>1. active # NoTemplate /\ r = Templates!Stored(w, w.active, template)
        BY <1>6 DEF Templates!ActiveRenamed
    <2>2. template \in SavedTemplates
        <3> HIDE DEF active
        <3> QED BY <1>2, <2>1 DEF SavedTemplates
    <2> HIDE DEF template, active
    <2> QED BY <1>2, <2>1, <2>2, TemplatesStored
<1>7. CASE r \in Templates!ActiveDuplicated(w, name)
    <2> DEFINE template == [active EXCEPT !.name = name]
    <2>1. active # NoTemplate
          /\ \E identifier \in DOMAIN w.catalog :
                r = Templates!Stored(w, identifier, template)
        BY <1>3, <1>7 DEF Templates!ActiveDuplicated
    <2>2. template \in SavedTemplates
        <3> HIDE DEF active
        <3> QED BY <1>2, <2>1 DEF SavedTemplates
    <2> HIDE DEF template, active
    <2> QED BY <2>1, <2>2, TemplatesStored
<1> QED BY <1>4, <1>5, <1>6, <1>7

LEMMA CommandRemoves ==
    ASSUME NEW w, IsConsistent(w), NEW r, r \in Templates!ActiveRemoved(w)
    PROVE  IsConsistent(r)
<1> DEFINE removed == [w EXCEPT !.catalog[w.active] = NoTemplate]
           left == Templates!SelectNoTemplate(removed)
<1>1. w.active # NoTemplate /\ r = Templates!RefreshTemplateModel(left)
    BY DEF Templates!ActiveRemoved, Templates!ActiveTemplate
<1>2. /\ IsWindow(removed)
      /\ Same(removed, w, WindowFields \ {"catalog"})
    BY DEF IsConsistent, IsWindow, Same, WindowFields
<1> HIDE DEF removed
<1>3. removed.active # NoTemplate /\ Same(removed, w, EditedFields)
    BY <1>1, <1>2 DEF Same, WindowFields, EditedFields
<1>4. Chosen(left, removed)
    BY <1>2, <1>3, TemplatesSelectNone
<1>5. AreEqual(removed)
    BY <1>3, EqualityOfFields DEF IsConsistent
<1>6. ErrorNeedsDocument(removed)
    BY <1>3 DEF IsConsistent, ErrorNeedsDocument, Same, EditedFields
<1> HIDE DEF left
<1>7. IsWindow(left) /\ left.valid /\ IsActiveListed(left)
      /\ IsModifiedTrue(left) /\ AreEqual(left) /\ ErrorNeedsDocument(left)
    BY <1>4, <1>5, <1>6 DEF Chosen, KeepsDocument
<1>8. IsWindow(r) /\ Same(r, left, WindowFields \ {"shown"}) /\ IsListTrue(r)
    BY <1>1, <1>7, TemplatesRefreshModel
<1>9. /\ Same(r, left, EditedFields)
      /\ r.active = left.active /\ r.catalog = left.catalog
      /\ r.modified = left.modified /\ r.valid = left.valid
      /\ r.filter = left.filter /\ r.projection = left.projection
      /\ r.document = left.document
    BY <1>8 DEF Same, WindowFields, EditedFields
<1>10. AreEqual(r)
    BY <1>7, <1>9, EqualityOfFields
<1> QED BY <1>7, <1>8, <1>9, <1>10 DEF IsConsistent, IsActiveListed, IsModifiedTrue,
          ErrorNeedsDocument, Silent!Differs

-----------------------------------------------------------------------------
(* The edits of the rows and of the columns.                               *)

LEMMA SetDataMakesRows ==
    ASSUME NEW row \in Rows
    PROVE  SetData(row) \subseteq Rows
BY DEF SetData, Rows

LEMMA RemoveAtProperties ==
    ASSUME NEW S, NEW s \in Seq(S), NEW i \in 1 .. Len(s)
    PROVE  RemoveAt(s, i) \in Seq(S) /\ Len(RemoveAt(s, i)) = Len(s) - 1
<1>1. Len(s) \in Nat /\ i \in Nat /\ 1 <= i /\ i <= Len(s)
    OBVIOUS
<1>2. SubSeq(s, 1, i - 1) \in Seq(S) /\ Len(SubSeq(s, 1, i - 1)) = i - 1
    <2>1. \A j \in 1 .. i - 1 : s[j] \in S
        BY <1>1
    <2> QED BY <1>1, <2>1, SubSeqProperties
<1>3. SubSeq(s, i + 1, Len(s)) \in Seq(S)
      /\ Len(SubSeq(s, i + 1, Len(s))) = Len(s) - i
    <2>1. \A j \in i + 1 .. Len(s) : s[j] \in S
        BY <1>1
    <2> QED BY <1>1, <2>1, SubSeqProperties
<1> DEFINE before == SubSeq(s, 1, i - 1)
           after == SubSeq(s, i + 1, Len(s))
<1>4. RemoveAt(s, i) = before \o after
    BY DEF RemoveAt
<1> HIDE DEF before, after
<1>5. before \o after \in Seq(S) /\ Len(before \o after) = Len(before) + Len(after)
    BY <1>2, <1>3, ConcatProperties DEF before, after
<1>6. Len(before) = i - 1 /\ Len(after) = Len(s) - i
    BY <1>2, <1>3 DEF before, after
<1>7. i - 1 + (Len(s) - i) = Len(s) - 1
    BY <1>1
<1> QED BY <1>4, <1>5, <1>6, <1>7

LEMMA InsertAtType ==
    ASSUME NEW S, NEW s \in Seq(S), NEW i \in 1 .. Len(s) + 1, NEW e \in S
    PROVE  InsertAt(s, i, e) \in Seq(S)
<1>1. Len(s) \in Nat /\ i \in Nat /\ 1 <= i
    OBVIOUS
<1>2. SubSeq(s, 1, i - 1) \in Seq(S)
    <2>1. \A j \in 1 .. i - 1 : s[j] \in S
        BY <1>1
    <2> QED BY <1>1, <2>1, SubSeqProperties
<1>3. SubSeq(s, i, Len(s)) \in Seq(S)
    <2>1. \A j \in i .. Len(s) : s[j] \in S
        BY <1>1
    <2> QED BY <1>1, <2>1, SubSeqProperties
<1> DEFINE before == SubSeq(s, 1, i - 1)
           after == SubSeq(s, i, Len(s))
           it == <<e>>
<1>4. it \in Seq(S)
    OBVIOUS
<1>5. InsertAt(s, i, e) = (before \o it) \o after
    BY DEF InsertAt
<1> HIDE DEF before, after, it
<1>6. before \o it \in Seq(S)
    BY <1>2, <1>4, ConcatProperties DEF before
<1>7. (before \o it) \o after \in Seq(S)
    BY <1>3, <1>6, ConcatProperties DEF after
<1> QED BY <1>5, <1>7

LEMMA SetSelectedType ==
    ASSUME NEW columns \in Seq(Columns), NEW row \in DOMAIN columns
    PROVE  SetSelected(columns, row) \in Seq(Columns)
<1>1. columns[row] \in Columns
    OBVIOUS
<1>2. [columns[row] EXCEPT !.selected = ~ @] \in Columns
    BY <1>1 DEF Columns
<1>3. SetSelected(columns, row) =
         [columns EXCEPT ![row] = [columns[row] EXCEPT !.selected = ~ @]]
    BY DEF SetSelected
<1> DEFINE column == [columns[row] EXCEPT !.selected = ~ @]
<1> HIDE DEF column
<1>4. column \in Columns /\ SetSelected(columns, row) = [columns EXCEPT ![row] = column]
    BY <1>2, <1>3 DEF column
<1> QED BY <1>4

LEMMA MoveType ==
    ASSUME NEW columns \in Seq(Columns), NEW source \in DOMAIN columns,
           NEW destination \in DOMAIN columns
    PROVE  Move(columns, source, destination) \in Seq(Columns)
<1> DEFINE left == RemoveAt(columns, source)
<1>1. left \in Seq(Columns) /\ Len(left) = Len(columns) - 1
    BY RemoveAtProperties
<1>2. columns[source] \in Columns
    OBVIOUS
<1> HIDE DEF left
<1>3. destination \in 1 .. Len(left) + 1
    BY <1>1
<1>4. InsertAt(left, destination, columns[source]) \in Seq(Columns)
    BY <1>1, <1>2, <1>3, InsertAtType
<1> QED BY <1>4 DEF Move, left

(* What the template view model leaves alone when a value is written.      *)
OthersKept(r, w, fields) ==
    /\ IsWindow(r)
    /\ Same(r, w, WindowFields \ fields)
    /\ IsActiveListed(r) /\ IsModifiedTrue(r) /\ IsListTrue(r)

LEMMA SilentSetFilterState ==
    ASSUME NEW w, IsWindow(w), IsActiveListed(w), IsModifiedTrue(w), IsListTrue(w),
           NEW query \in Queries, NEW valid \in BOOLEAN
    PROVE  LET r == Silent!SetFilterState(w, query, valid)
           IN  /\ OthersKept(r, w, {"filter", "valid"} \cup ListFields)
               /\ r.filter = query /\ r.valid = valid
<1> DEFINE taken == [w EXCEPT !.filter = query, !.valid = valid]
           r == Silent!SetFilterState(w, query, valid)
<1>1. CASE w.filter = query /\ w.valid = valid
    BY <1>1 DEF Silent!SetFilterState, OthersKept, Same
<1>2. CASE ~ (w.filter = query /\ w.valid = valid)
    <2>1. r = Silent!RefreshModified(taken)
        BY <1>2 DEF Silent!SetFilterState, Ignored
    <2>2. /\ IsWindow(taken) /\ taken.filter = query /\ taken.valid = valid
          /\ Same(taken, w, WindowFields \ {"filter", "valid"})
        BY DEF IsWindow, Same, WindowFields
    <2> HIDE DEF taken, r
    <2>3. IsActiveListed(taken) /\ IsListTrue(taken)
        BY <2>2 DEF IsActiveListed, IsListTrue, Same, WindowFields
    <2>4. /\ IsWindow(r) /\ Same(r, taken, WindowFields \ ListFields)
          /\ IsActiveListed(r) /\ IsModifiedTrue(r) /\ IsListTrue(r)
        BY <2>1, <2>2, <2>3, SilentRefreshModified
    <2>5. Same(r, w, WindowFields \ ({"filter", "valid"} \cup ListFields))
          /\ r.filter = query /\ r.valid = valid
        BY <2>2, <2>4 DEF Same, WindowFields, ListFields
    <2> QED BY <2>4, <2>5 DEF OthersKept, r
<1> QED BY <1>1, <1>2

LEMMA SilentSetEventProjection ==
    ASSUME NEW w, IsWindow(w), IsActiveListed(w), IsModifiedTrue(w), IsListTrue(w),
           NEW projection \in ValidProjections
    PROVE  LET r == Silent!SetEventProjection(w, projection)
           IN  /\ OthersKept(r, w, {"projection"} \cup ListFields)
               /\ r.projection = projection
<1> DEFINE taken == [w EXCEPT !.projection = projection]
           r == Silent!SetEventProjection(w, projection)
<1>0. Silent!IsValidProjection(projection)
    BY DEF Silent!IsValidProjection, ValidProjections, IsValidProjection
<1>1. CASE w.projection = projection
    BY <1>1 DEF Silent!SetEventProjection, OthersKept, Same
<1>2. CASE w.projection # projection
    <2>1. r = Silent!RefreshModified(taken)
        BY <1>0, <1>2 DEF Silent!SetEventProjection, Ignored
    <2>2. /\ IsWindow(taken) /\ taken.projection = projection
          /\ Same(taken, w, WindowFields \ {"projection"})
        BY DEF IsWindow, Same, WindowFields
    <2> HIDE DEF taken, r
    <2>3. IsActiveListed(taken) /\ IsListTrue(taken)
        BY <2>2 DEF IsActiveListed, IsListTrue, Same, WindowFields
    <2>4. /\ IsWindow(r) /\ Same(r, taken, WindowFields \ ListFields)
          /\ IsActiveListed(r) /\ IsModifiedTrue(r) /\ IsListTrue(r)
        BY <2>1, <2>2, <2>3, SilentRefreshModified
    <2>5. Same(r, w, WindowFields \ ({"projection"} \cup ListFields))
          /\ r.projection = projection
        BY <2>2, <2>4 DEF Same, WindowFields, ListFields
    <2> QED BY <2>4, <2>5 DEF OthersKept, r
<1> QED BY <1>1, <1>2

(* The query read from the rows.                                           *)
LEMMA QueryType ==
    ASSUME NEW w, IsWindow(w)
    PROVE  Query(w) \in Queries
BY QueryOfType DEF Query, IsWindow

(* Consistent but for the rows, from which another query may be read.      *)
IsConsistentButRows(w) ==
    /\ IsWindow(w)
    /\ w.document.query = w.filter
    /\ w.document.projection = w.projection
    /\ IsEventProjectionValid(w) => Projection(w.columns) = w.projection
    /\ IsActiveListed(w) /\ IsModifiedTrue(w) /\ IsListTrue(w)
    /\ ErrorNeedsDocument(w)
    /\ w.valid \/ w.document.error

LEMMA FilterQueryChanged ==
    ASSUME NEW w, IsConsistentButRows(w)
    PROVE  LET r == handleFilterQueryChanged(w)
           IN  /\ IsConsistent(r) /\ r.rows = w.rows
               /\ r.combination = w.combination /\ r.columns = w.columns
               /\ r.document.state = w.document.state
<1> DEFINE filtered == Quiet!SetFilterQuery(w, Query(w))
           r == Silent!SetFilterState(filtered, Query(w), ~ filtered.document.error)
<1> USE DEF IsConsistentButRows
<1>1. Query(w) \in Queries
    BY QueryType
<1>2. /\ IsWindow(filtered)
      /\ Same(filtered, w, WindowFields \ {"document"})
      /\ filtered.document.query = Query(w)
      /\ filtered.document.projection = w.document.projection
      /\ KeepsDocument(filtered, w)
    BY <1>1, QuietSetFilterQuery
<1>3. r = handleFilterQueryChanged(w)
    BY DEF handleFilterQueryChanged
<1> HIDE DEF filtered
<1>4. /\ filtered.active = w.active /\ filtered.catalog = w.catalog
      /\ filtered.filter = w.filter /\ filtered.projection = w.projection
      /\ filtered.modified = w.modified /\ filtered.shown = w.shown
      /\ filtered.rows = w.rows /\ filtered.combination = w.combination
      /\ filtered.columns = w.columns
    BY <1>2 DEF Same, WindowFields
<1>5. IsActiveListed(filtered) /\ IsModifiedTrue(filtered) /\ IsListTrue(filtered)
    BY <1>4 DEF IsActiveListed, IsModifiedTrue, IsListTrue, Silent!Differs
<1>6. filtered.document.error \in BOOLEAN
    BY <1>2 DEF IsWindow
<1>7. /\ OthersKept(r, filtered, {"filter", "valid"} \cup ListFields)
      /\ r.filter = Query(w) /\ r.valid = ~ filtered.document.error
    BY <1>1, <1>2, <1>5, <1>6, SilentSetFilterState
<1> HIDE DEF r
<1>8. /\ r.document = filtered.document /\ r.projection = w.projection
      /\ r.rows = w.rows /\ r.combination = w.combination /\ r.columns = w.columns
    BY <1>4, <1>7 DEF OthersKept, Same, WindowFields, ListFields
<1>9. AreEqual(r)
    BY <1>2, <1>7, <1>8 DEF AreEqual, Query, IsEventProjectionValid
<1>10. ErrorNeedsDocument(r)
    BY <1>2, <1>8 DEF KeepsDocument, ErrorNeedsDocument
<1>11. r.valid \/ r.document.error
    BY <1>6, <1>7, <1>8
<1>12. r.document.state = w.document.state
    BY <1>2, <1>8 DEF KeepsDocument, Same
<1> QED BY <1>3, <1>7, <1>8, <1>9, <1>10, <1>11, <1>12 DEF IsConsistent, OthersKept

(* An edit of the rows leaves the copies equal and the rows as written,    *)
(* the columns and the document's state as they were.                      *)
LEMMA RowsEdited ==
    ASSUME NEW w, IsConsistent(w), NEW rows \in Seq(Rows),
           NEW combination \in {"all", "any"}
    PROVE  LET r == Edited(w, rows, combination)
           IN  /\ IsConsistent(r) /\ r.rows = rows
               /\ r.combination = combination /\ r.columns = w.columns
               /\ r.document.state = w.document.state
<1> DEFINE edited == [w EXCEPT !.rows = rows, !.combination = combination]
<1>1. /\ IsWindow(edited) /\ edited.rows = rows /\ edited.combination = combination
      /\ Same(edited, w, WindowFields \ {"rows", "combination"})
    BY DEF IsConsistent, IsWindow, Same, WindowFields
<1>2. Edited(w, rows, combination) =
         IF Query(edited) = Query(w) THEN edited ELSE handleFilterQueryChanged(edited)
    BY DEF Edited
<1> HIDE DEF edited
<1>3. /\ edited.active = w.active /\ edited.catalog = w.catalog
      /\ edited.filter = w.filter /\ edited.projection = w.projection
      /\ edited.modified = w.modified /\ edited.shown = w.shown
      /\ edited.columns = w.columns /\ edited.document = w.document
      /\ edited.valid = w.valid
    BY <1>1 DEF Same, WindowFields
<1>4. IsConsistentButRows(edited)
    BY <1>1, <1>3 DEF IsConsistent, IsConsistentButRows, AreEqual, IsActiveListed,
       IsModifiedTrue, IsListTrue, ErrorNeedsDocument, Silent!Differs,
       IsEventProjectionValid
<1>5. CASE Query(edited) = Query(w)
    <2>1. AreEqual(edited)
        BY <1>3, <1>4, <1>5 DEF AreEqual, IsConsistentButRows, IsConsistent
    <2> QED BY <1>1, <1>2, <1>3, <1>4, <1>5, <2>1
           DEF IsConsistent, IsConsistentButRows
<1>6. CASE Query(edited) # Query(w)
    BY <1>1, <1>2, <1>3, <1>4, <1>6, FilterQueryChanged
<1> QED BY <1>5, <1>6

(* Other columns are taken by the document and the template view model     *)
(* when one is selected; the rows stay.                                    *)
LEMMA ColumnsEdited ==
    ASSUME NEW w, IsConsistent(w), NEW columns \in Seq(Columns)
    PROVE  LET r == handleEventProjectionChanged([w EXCEPT !.columns = columns])
           IN  IsConsistent(r) /\ r.rows = w.rows
<1> DEFINE edited == [w EXCEPT !.columns = columns]
           projection == Projection(columns)
           shown == Quiet!SetEventProjection(edited, projection)
           r == Silent!SetEventProjection(shown, projection)
<1>1. /\ IsWindow(edited) /\ edited.columns = columns
      /\ Same(edited, w, WindowFields \ {"columns"})
    BY DEF IsConsistent, IsWindow, Same, WindowFields
<1>2. handleEventProjectionChanged(edited) =
         IF IsValidProjection(projection) THEN r ELSE edited
    BY <1>1 DEF handleEventProjectionChanged
<1> HIDE DEF edited
<1>3. /\ edited.active = w.active /\ edited.catalog = w.catalog
      /\ edited.filter = w.filter /\ edited.projection = w.projection
      /\ edited.modified = w.modified /\ edited.shown = w.shown
      /\ edited.rows = w.rows /\ edited.combination = w.combination
      /\ edited.document = w.document /\ edited.valid = w.valid
    BY <1>1 DEF Same, WindowFields
<1>4. IsActiveListed(edited) /\ IsModifiedTrue(edited) /\ IsListTrue(edited)
    BY <1>3 DEF IsConsistent, IsActiveListed, IsModifiedTrue, IsListTrue, Silent!Differs
<1>5. CASE ~ IsValidProjection(projection)
    <2>1. AreEqual(edited)
        BY <1>1, <1>3, <1>5 DEF IsConsistent, AreEqual, Query, IsEventProjectionValid
    <2> QED BY <1>1, <1>2, <1>3, <1>4, <1>5, <2>1
           DEF IsConsistent, ErrorNeedsDocument, edited
<1>6. CASE IsValidProjection(projection)
    <2>1. projection \in ValidProjections
        BY <1>6, ProjectionType DEF ValidProjections
    <2> HIDE DEF projection
    <2>2. /\ IsWindow(shown)
          /\ Same(shown, edited, WindowFields \ {"document"})
          /\ Same(shown.document, edited.document, DocumentFields \ {"projection"})
          /\ shown.document.projection = projection
        BY <1>1, <1>6, QuietSetEventProjection
    <2> HIDE DEF shown
    <2>3. /\ shown.active = w.active /\ shown.catalog = w.catalog
          /\ shown.filter = w.filter /\ shown.projection = w.projection
          /\ shown.modified = w.modified /\ shown.shown = w.shown
          /\ shown.rows = w.rows /\ shown.combination = w.combination
          /\ shown.columns = columns /\ shown.valid = w.valid
        BY <1>1, <1>3, <2>2 DEF Same, WindowFields
    <2>4. /\ shown.document.query = w.document.query
          /\ shown.document.error = w.document.error
          /\ shown.document.state = w.document.state
          /\ shown.document.loaded = w.document.loaded
        BY <1>3, <2>2 DEF Same, DocumentFields
    <2>5. IsActiveListed(shown) /\ IsModifiedTrue(shown) /\ IsListTrue(shown)
        BY <2>3 DEF IsConsistent, IsActiveListed, IsModifiedTrue, IsListTrue,
           Silent!Differs
    <2>6. /\ OthersKept(r, shown, {"projection"} \cup ListFields)
          /\ r.projection = projection
        BY <2>1, <2>2, <2>5, SilentSetEventProjection
    <2> HIDE DEF r
    <2>7. /\ r.rows = w.rows /\ r.combination = w.combination
          /\ r.columns = columns /\ r.document = shown.document
          /\ r.filter = w.filter /\ r.valid = w.valid
        BY <2>3, <2>6 DEF OthersKept, Same, WindowFields, ListFields
    <2>8. AreEqual(r)
        BY <2>2, <2>4, <2>6, <2>7 DEF IsConsistent, AreEqual, Query, projection
    <2>9. ErrorNeedsDocument(r) /\ (r.valid \/ r.document.error)
        BY <2>4, <2>7 DEF IsConsistent, ErrorNeedsDocument
    <2> QED BY <1>2, <1>6, <2>6, <2>7, <2>8, <2>9
           DEF IsConsistent, OthersKept, edited
<1> QED BY <1>5, <1>6

-----------------------------------------------------------------------------
(* The imports, whose signals reach the listener of filterChanged.         *)

LEMMA FilterChangedHandled ==
    ASSUME NEW w, IsWindow(w), IsActiveListed(w), IsModifiedTrue(w), IsListTrue(w)
    PROVE  LET r == handleFilterChanged(w)
           IN  /\ IsWindow(r)
               /\ IsActiveListed(r) /\ IsModifiedTrue(r) /\ IsListTrue(r)
               /\ KeepsDocument(r, w)
               /\ AreEqual(w) => AreEqual(r)
               /\ r.valid = ~ w.document.error
               /\ w.document.query = Query(w) => r.document.error = w.document.error
               /\ w.filter = Query(w) /\ w.valid = ~ w.document.error => r = w
<1> DEFINE taken == [w EXCEPT !.filter = Query(w), !.valid = ~ w.document.error]
           told == SynchronizeTemplateState(taken)
           r == handleFilterChanged(w)
<1>1. CASE w.filter = Query(w) /\ w.valid = ~ w.document.error
    <2>1. r = w
        BY <1>1 DEF handleFilterChanged, Templates!SetFilterState
    <2> QED BY <1>1, <2>1 DEF KeepsDocument, Same
<1>2. CASE ~ (w.filter = Query(w) /\ w.valid = ~ w.document.error)
    <2>1. r = Templates!RefreshModified(told)
        BY <1>2 DEF handleFilterChanged, Templates!SetFilterState
    <2>2. Query(w) \in Queries
        BY QueryType
    <2>3. /\ IsWindow(taken) /\ taken.filter = Query(w)
          /\ taken.valid = ~ w.document.error
          /\ Same(taken, w, WindowFields \ {"filter", "valid"})
        BY <2>2 DEF IsWindow, Same, WindowFields
    <2> HIDE DEF taken, r
    <2>4. taken.document = w.document /\ taken.catalog = w.catalog
          /\ taken.active = w.active /\ taken.modified = w.modified
          /\ taken.shown = w.shown
        BY <2>3 DEF Same, WindowFields
    <2>5. /\ IsWindow(told) /\ Same(told, taken, TemplateFields) /\ AreEqual(told)
          /\ KeepsDocument(told, taken)
          /\ taken.document.query = taken.filter =>
                told.document.error = taken.document.error
        BY <2>3, Synchronizing
    <2> HIDE DEF told
    <2>6. /\ told.active = w.active /\ told.catalog = w.catalog
          /\ told.modified = w.modified /\ told.shown = w.shown
          /\ told.valid = ~ w.document.error
        BY <2>3, <2>4, <2>5 DEF Same, TemplateFields
    <2>7. IsActiveListed(told) /\ IsListTrue(told)
        BY <2>6 DEF IsActiveListed, IsListTrue
    <2>8. /\ IsWindow(r) /\ Same(r, told, WindowFields \ ListFields)
          /\ IsActiveListed(r) /\ IsModifiedTrue(r) /\ IsListTrue(r)
        BY <2>1, <2>5, <2>7, TemplatesRefreshModified
    <2>9. /\ Same(r, told, EditedFields)
          /\ r.document = told.document /\ r.valid = told.valid
        BY <2>8 DEF Same, WindowFields, ListFields, EditedFields
    <2>10. AreEqual(r)
        BY <2>5, <2>9, EqualityOfFields
    <2>11. KeepsDocument(r, w)
        BY <2>4, <2>5, <2>9 DEF KeepsDocument, ErrorNeedsDocument, Same
    <2>12. w.document.query = Query(w) => r.document.error = w.document.error
        BY <2>3, <2>4, <2>5, <2>9
    <2> QED BY <1>2, <2>6, <2>8, <2>9, <2>10, <2>11, <2>12 DEF r
<1> QED BY <1>1, <1>2

(* A new import: the document goes with its query and its error, then the  *)
(* templates are restored.                                                 *)
LEMMA ImportStarts ==
    ASSUME NEW w, IsConsistent(w)
    PROVE  IsConsistent(SynchronizeTemplateState(
              Templates!RestoreForTimeline(Document!Import(w))))
<1> DEFINE reset == [w EXCEPT !.document.loaded = FALSE,
                              !.document.query = NoFilter,
                              !.document.error = FALSE]
           heard == handleFilterChanged(reset)
           importing == [heard EXCEPT !.document.state = "importing"]
           restored == Templates!RestoreForTimeline(importing)
           r == SynchronizeTemplateState(restored)
<1>1. Document!Import(w) = importing
    <2>1. Document!NoFilter = NoFilter
        BY DEF Document!NoFilter, NoFilter
    <2> QED BY <2>1 DEF Document!Import, Document!ResetDocument
<1>2. /\ IsWindow(reset) /\ reset.document.error = FALSE
      /\ reset.document.loaded = FALSE
      /\ Same(reset, w, WindowFields \ {"document"})
    BY EmptyFilterIsAQuery DEF IsConsistent, IsWindow, Same, WindowFields
<1> HIDE DEF reset
<1>3. IsActiveListed(reset) /\ IsModifiedTrue(reset) /\ IsListTrue(reset)
    BY <1>2 DEF IsConsistent, IsActiveListed, IsModifiedTrue, IsListTrue,
       Silent!Differs, Same, WindowFields
<1>4. ErrorNeedsDocument(reset)
    BY <1>2 DEF ErrorNeedsDocument
<1>5. /\ IsWindow(heard) /\ KeepsDocument(heard, reset)
      /\ IsActiveListed(heard) /\ IsModifiedTrue(heard) /\ IsListTrue(heard)
    BY <1>2, <1>3, FilterChangedHandled
<1>6. heard.document.loaded = FALSE /\ heard.document.error = FALSE
    BY <1>2, <1>4, <1>5 DEF KeepsDocument, Same, ErrorNeedsDocument, IsWindow
<1> HIDE DEF heard
<1>7. /\ IsWindow(importing)
      /\ Same(importing, heard, WindowFields \ {"document"})
      /\ importing.document.loaded = FALSE /\ importing.document.error = FALSE
    BY <1>5, <1>6 DEF IsWindow, Same, WindowFields
<1> HIDE DEF importing
<1>8. /\ IsActiveListed(importing) /\ IsListTrue(importing)
      /\ ErrorNeedsDocument(importing)
    BY <1>5, <1>7 DEF IsActiveListed, IsListTrue, ErrorNeedsDocument, Same, WindowFields
<1>9. Chosen(restored, importing)
    BY <1>7, <1>8, TemplatesRestore
<1> HIDE DEF restored
<1>10. /\ IsWindow(restored) /\ restored.valid /\ ErrorNeedsDocument(restored)
       /\ IsActiveListed(restored) /\ IsModifiedTrue(restored) /\ IsListTrue(restored)
    BY <1>8, <1>9 DEF Chosen, KeepsDocument
<1>11. /\ IsWindow(r) /\ Same(r, restored, TemplateFields) /\ AreEqual(r)
       /\ ErrorNeedsDocument(r)
    BY <1>10, Synchronizing DEF KeepsDocument
<1>12. r = SynchronizeTemplateState(Templates!RestoreForTimeline(Document!Import(w)))
    BY <1>1 DEF r, restored
<1> HIDE DEF r
<1>13. /\ r.active = restored.active /\ r.catalog = restored.catalog
       /\ r.filter = restored.filter /\ r.projection = restored.projection
       /\ r.modified = restored.modified /\ r.shown = restored.shown
       /\ r.valid = restored.valid
    BY <1>11 DEF Same, TemplateFields
<1>14. IsActiveListed(r) /\ IsModifiedTrue(r) /\ IsListTrue(r) /\ r.valid
    BY <1>10, <1>13 DEF IsActiveListed, IsModifiedTrue, IsListTrue, Silent!Differs
<1> QED BY <1>11, <1>12, <1>14 DEF IsConsistent

(* A timeline arrives and is filtered at once: the rows stay unless the    *)
(* document refuses the query read from them.                              *)
LEMMA ImportSucceeds ==
    ASSUME NEW w, IsConsistent(w), w.document.state = "importing"
    PROVE  LET r == Document!Imported(w)
           IN  IsConsistent(r) /\ (r.rows = w.rows \/ r.document.error)
<1> DEFINE error == ~ Compiles(w.document.query)
           shown == [w EXCEPT !.document.loaded = TRUE, !.document.error = error]
           heard == handleFilterChanged(shown)
           r == [heard EXCEPT !.document.state = "ready"]
<1>1. Document!Imported(w) = r
    <2>1. Document!Compiles(w.document.query) = Compiles(w.document.query)
        BY DEF Document!Compiles, Compiles, Document!EditorForField, EditorForField
    <2>2. [[w EXCEPT !.document.loaded = TRUE] EXCEPT !.document.error =
              TRUE /\ ~ Compiles(w.document.query)] = shown
        OBVIOUS
    <2>3. DOMAIN w.document = DocumentFields /\ "document" \in DOMAIN w
        BY DEF IsConsistent, IsWindow, DocumentFields
    <2>4. /\ [w EXCEPT !.document.loaded = TRUE].document.loaded = TRUE
          /\ [w EXCEPT !.document.loaded = TRUE].document.query = w.document.query
        BY <2>3 DEF DocumentFields
    <2> QED BY <2>1, <2>2, <2>4 DEF Document!Imported, Document!ApplyFilter
<1>2. error \in BOOLEAN
    OBVIOUS
<1> HIDE DEF error
<1>3. /\ IsWindow(shown) /\ shown.document.error = error
      /\ shown.document.loaded = TRUE /\ shown.document.state = "importing"
      /\ shown.document.query = w.document.query
      /\ shown.document.projection = w.document.projection
      /\ Same(shown, w, WindowFields \ {"document"})
    BY <1>2 DEF IsConsistent, IsWindow, Same, WindowFields
<1> HIDE DEF shown
<1>4. /\ shown.active = w.active /\ shown.catalog = w.catalog
      /\ shown.filter = w.filter /\ shown.projection = w.projection
      /\ shown.modified = w.modified /\ shown.shown = w.shown
      /\ shown.rows = w.rows /\ shown.combination = w.combination
      /\ shown.columns = w.columns /\ shown.valid = w.valid
    BY <1>3 DEF Same, WindowFields
<1>5. IsActiveListed(shown) /\ IsModifiedTrue(shown) /\ IsListTrue(shown)
    BY <1>4 DEF IsConsistent, IsActiveListed, IsModifiedTrue, IsListTrue, Silent!Differs
<1>6. AreEqual(shown) /\ Query(shown) = w.filter /\ w.document.query = w.filter
    BY <1>3, <1>4 DEF IsConsistent, AreEqual, Query, IsEventProjectionValid
<1>7. w.valid
    BY DEF IsConsistent, ErrorNeedsDocument
<1>8. /\ IsWindow(heard)
      /\ IsActiveListed(heard) /\ IsModifiedTrue(heard) /\ IsListTrue(heard)
      /\ KeepsDocument(heard, shown) /\ AreEqual(heard)
      /\ heard.valid = ~ error /\ heard.document.error = error
      /\ ~ error => heard = shown
    <2>1. w.valid = TRUE
        BY <1>7 DEF IsConsistent, IsWindow
    <2> QED BY <1>2, <1>3, <1>4, <1>5, <1>6, <2>1, FilterChangedHandled
<1>9. heard.document.loaded = TRUE
    BY <1>3, <1>8 DEF KeepsDocument, Same
<1> HIDE DEF heard
<1>10. /\ IsWindow(r)
       /\ Same(r, heard, WindowFields \ {"document"})
       /\ Same(r.document, heard.document, DocumentFields \ {"state"})
       /\ r.document.state = "ready"
    BY <1>8 DEF IsWindow, Same, WindowFields, DocumentFields
<1> HIDE DEF r
<1>11. /\ r.active = heard.active /\ r.catalog = heard.catalog
       /\ r.filter = heard.filter /\ r.projection = heard.projection
       /\ r.modified = heard.modified /\ r.shown = heard.shown
       /\ r.rows = heard.rows /\ r.combination = heard.combination
       /\ r.columns = heard.columns /\ r.valid = heard.valid
       /\ r.document.query = heard.document.query
       /\ r.document.projection = heard.document.projection
       /\ r.document.error = heard.document.error
       /\ r.document.loaded = heard.document.loaded
    BY <1>10 DEF Same, WindowFields, DocumentFields
<1>12. /\ IsActiveListed(r) /\ IsModifiedTrue(r) /\ IsListTrue(r)
    BY <1>8, <1>11 DEF IsActiveListed, IsModifiedTrue, IsListTrue, Silent!Differs
<1>13. AreEqual(r)
    BY <1>8, <1>11 DEF AreEqual, Query, IsEventProjectionValid
<1>14. ErrorNeedsDocument(r)
    BY <1>9, <1>10, <1>11 DEF ErrorNeedsDocument
<1>15. r.valid \/ r.document.error
    BY <1>2, <1>8, <1>11
<1>16. r.rows = w.rows \/ r.document.error
    BY <1>2, <1>4, <1>8, <1>11
<1> QED BY <1>1, <1>10, <1>12, <1>13, <1>14, <1>15, <1>16 DEF IsConsistent, r

LEMMA ImportFails ==
    ASSUME NEW w, IsConsistent(w)
    PROVE  LET r == Document!NotImported(w)
           IN  IsConsistent(r) /\ r.rows = w.rows
<1> DEFINE r == [w EXCEPT !.document.state = "failed"]
<1>1. Document!NotImported(w) = r
    BY DEF Document!NotImported
<1>2. /\ IsWindow(r) /\ r.document.state = "failed"
      /\ Same(r, w, WindowFields \ {"document"})
      /\ Same(r.document, w.document, DocumentFields \ {"state"})
    BY DEF IsConsistent, IsWindow, Same, WindowFields, DocumentFields
<1> HIDE DEF r
<1>3. /\ r.active = w.active /\ r.catalog = w.catalog
      /\ r.filter = w.filter /\ r.projection = w.projection
      /\ r.modified = w.modified /\ r.shown = w.shown
      /\ r.rows = w.rows /\ r.combination = w.combination
      /\ r.columns = w.columns /\ r.valid = w.valid
      /\ r.document.query = w.document.query
      /\ r.document.projection = w.document.projection
      /\ r.document.error = w.document.error
      /\ r.document.loaded = w.document.loaded
    BY <1>2 DEF Same, WindowFields, DocumentFields
<1>4. AreEqual(r)
    BY <1>3 DEF IsConsistent, AreEqual, Query, IsEventProjectionValid
<1>5. IsActiveListed(r) /\ IsModifiedTrue(r) /\ IsListTrue(r)
    BY <1>3 DEF IsConsistent, IsActiveListed, IsModifiedTrue, IsListTrue, Silent!Differs
<1>6. ErrorNeedsDocument(r) /\ (r.valid \/ r.document.error)
    BY <1>2, <1>3 DEF IsConsistent, ErrorNeedsDocument
<1> QED BY <1>1, <1>2, <1>3, <1>4, <1>5, <1>6 DEF IsConsistent, r

-----------------------------------------------------------------------------
(* The specification.                                                      *)

LEMMA InitIsConsistent == Init => IInv
<1> SUFFICES ASSUME Init PROVE IsConsistent(window)
    BY DEF IInv
<1> DEFINE found(catalog) ==
              [catalog     |-> catalog,
               active      |-> NoTemplate,
               filter      |-> NoFilter,
               valid       |-> TRUE,
               projection  |-> DefaultEventProjection,
               modified    |-> FALSE,
               shown       |-> NoTemplate,
               rows        |-> <<DefaultRow>>,
               combination |-> "all",
               columns     |-> ColumnsOf(DefaultEventProjection),
               document    |-> Quiet!EmptyDocument]
<1>1. PICK catalog \in InitialCatalogs :
         window = SynchronizeTemplateState(Silent!RefreshTemplateModel(found(catalog)))
    BY DEF Init
<1> DEFINE w == found(catalog)
           listed == Templates!RefreshTemplateModel(w)
<1>2. Silent!RefreshTemplateModel(w) = listed
    BY DEF Silent!RefreshTemplateModel, Templates!RefreshTemplateModel,
       Silent!SetTemplates, Templates!SetTemplates
<1>3. /\ IsWindow(w)
      /\ w.active = NoTemplate /\ w.modified = FALSE /\ w.valid = TRUE
      /\ w.document.error = FALSE /\ w.document.state = "empty"
    <2>1. <<DefaultRow>> \in Seq(Rows)
        <3> DEFINE row == DefaultRow
        <3>1. row \in Rows
            BY DefaultRowIsARow
        <3> HIDE DEF row
        <3>2. <<row>> \in Seq(Rows)
            BY <3>1
        <3> QED BY <3>2 DEF row
    <2>2. ColumnsOf(DefaultEventProjection) \in Seq(Columns)
        BY DefaultProjectionIsValid, ProjectionRoundTrip DEF ValidProjections
    <2>3. /\ catalog \in [DOMAIN catalog -> SavedTemplates \cup {NoTemplate}]
          /\ NoTemplate \notin DOMAIN catalog
        BY ConfigurationAssumption
    <2>4. /\ DOMAIN Quiet!EmptyDocument = {"state", "loaded", "query", "error", "projection"}
          /\ Quiet!EmptyDocument.loaded = FALSE /\ Quiet!EmptyDocument.error = FALSE
          /\ Quiet!EmptyDocument.state = "empty"
          /\ Quiet!EmptyDocument.query = NoFilter
        BY DEF Quiet!EmptyDocument, Quiet!NoFilter, NoFilter
    <2> DEFINE document == Quiet!EmptyDocument
               columns == ColumnsOf(DefaultEventProjection)
               rows == <<DefaultRow>>
    <2>5. NoFilter \in Queries /\ DefaultEventProjection \in ValidProjections
        BY EmptyFilterIsAQuery, DefaultProjectionIsValid
    <2> HIDE DEF document, columns, rows
    <2>6. /\ w.catalog = catalog /\ w.active = NoTemplate /\ w.filter = NoFilter
          /\ w.valid = TRUE /\ w.projection = DefaultEventProjection
          /\ w.modified = FALSE /\ w.rows = rows /\ w.combination = "all"
          /\ w.columns = columns /\ w.document = document
          /\ DOMAIN w = {"catalog", "active", "filter", "valid", "projection",
                         "modified", "shown", "rows", "combination", "columns",
                         "document"}
        BY DEF document, columns, rows
    <2> HIDE DEF w
    <2>7. document.query \in Queries
        BY <2>4, <2>5 DEF document
    <2>8. rows \in Seq(Rows) /\ columns \in Seq(Columns)
        BY <2>1, <2>2 DEF rows, columns
    <2>9. /\ DOMAIN document = {"state", "loaded", "query", "error", "projection"}
          /\ document.loaded = FALSE /\ document.error = FALSE
          /\ document.state = "empty"
        BY <2>4 DEF document
    <2>10. IsWindow(w)
        BY <2>3, <2>5, <2>6, <2>7, <2>8, <2>9 DEF IsWindow
    <2> QED BY <2>6, <2>9, <2>10
<1> HIDE DEF w
<1>4. /\ IsWindow(listed) /\ Same(listed, w, WindowFields \ {"shown"})
      /\ IsListTrue(listed)
    BY <1>3, TemplatesRefreshModel
<1>5. window = SynchronizeTemplateState(listed)
    BY <1>1, <1>2 DEF w
<1> HIDE DEF listed
<1>6. /\ listed.active = NoTemplate /\ listed.modified = FALSE
      /\ listed.valid = TRUE /\ listed.document = w.document
    BY <1>3, <1>4 DEF Same, WindowFields
<1>7. /\ IsWindow(window) /\ Same(window, listed, TemplateFields)
      /\ AreEqual(window) /\ KeepsDocument(window, listed)
    BY <1>4, <1>5, Synchronizing
<1>8. /\ window.active = NoTemplate /\ window.modified = FALSE
      /\ window.valid = TRUE
    BY <1>6, <1>7 DEF Same, TemplateFields
<1>9. IsActiveListed(window) /\ IsModifiedTrue(window)
    BY <1>8 DEF IsActiveListed, IsModifiedTrue
<1>10. IsListTrue(window)
    BY <1>4, <1>7 DEF IsListTrue, Same, TemplateFields
<1>11. ErrorNeedsDocument(window)
    BY <1>3, <1>6, <1>7 DEF KeepsDocument, ErrorNeedsDocument
<1> QED BY <1>7, <1>8, <1>9, <1>10, <1>11 DEF IsConsistent

(* A row not yet written makes no condition.                               *)
LEMMA DefaultRowAddsNothing ==
    ASSUME NEW rows \in Seq(Rows), NEW combination
    PROVE  QueryOf(Append(rows, DefaultRow), combination) = QueryOf(rows, combination)
<1> DEFINE n == Len(rows)
           longer == Append(rows, DefaultRow)
           made == [i \in DOMAIN rows |-> ConditionOf(rows[i])]
           mades == [i \in DOMAIN longer |-> ConditionOf(longer[i])]
<1>1. /\ longer \in Seq(Rows) /\ Len(longer) = n + 1
      /\ longer[n + 1] = DefaultRow
      /\ \A i \in 1 .. n : longer[i] = rows[i]
    BY DefaultRowIsARow, AppendProperties
<1>2. n \in Nat /\ DOMAIN rows = 1 .. n
    OBVIOUS
<1>3. DOMAIN longer = 1 .. n + 1
    BY <1>1
<1> HIDE DEF longer, n
<1>4. made \in [1 .. n -> Seq(Conditions)]
    <2>1. \A i \in 1 .. n : rows[i] \in Rows
        BY <1>2
    <2> QED BY <1>2, <2>1, ConditionOfType
<1>5. mades \in [1 .. n + 1 -> Seq(Conditions)]
    <2>1. \A i \in 1 .. n + 1 : longer[i] \in Rows
        BY <1>1
    <2> QED BY <1>3, <2>1, ConditionOfType
<1>6. EndsEmpty(mades, made, n)
    <2>1. ConditionOf(DefaultRow) = <<>>
        BY DEF ConditionOf, DefaultRow, EditorForField
    <2>2. n + 1 \in 1 .. n + 1 /\ \A i \in 1 .. n : i \in 1 .. n + 1
        BY <1>2
    <2>3. mades[n + 1] = <<>>
        BY <1>1, <1>3, <2>1, <2>2
    <2>4. \A i \in 1 .. n : mades[i] = made[i]
        BY <1>1, <1>2, <1>3, <2>2
    <2> HIDE DEF made, mades
    <2> QED BY <2>3, <2>4 DEF EndsEmpty
<1>7. FlattenSeq(mades) = FlattenSeq(made)
    <2> HIDE DEF made, mades
    <2> QED BY <1>2, <1>4, <1>5, <1>6, FlattenSeqOfEmptyEnd
<1> QED BY <1>7 DEF QueryOf, longer

LEMMA RowAdded ==
    ASSUME NEW w, IsConsistent(w)
    PROVE  LET r == [w EXCEPT !.rows = Append(@, DefaultRow)]
           IN  /\ IsConsistent(r) /\ r.rows = Append(w.rows, DefaultRow)
               /\ r.combination = w.combination /\ r.columns = w.columns
               /\ r.document = w.document
<1> DEFINE rows == Append(w.rows, DefaultRow)
           r == [w EXCEPT !.rows = rows]
<1>1. /\ rows \in Seq(Rows)
      /\ QueryOf(rows, w.combination) = Query(w)
    BY DefaultRowIsARow, DefaultRowAddsNothing, AppendProperties
       DEF IsConsistent, IsWindow, Query
<1> HIDE DEF rows
<1>2. /\ IsWindow(r) /\ r.rows = rows
      /\ Same(r, w, WindowFields \ {"rows"})
    BY <1>1 DEF IsConsistent, IsWindow, Same, WindowFields
<1> HIDE DEF r
<1>3. /\ r.active = w.active /\ r.catalog = w.catalog
      /\ r.filter = w.filter /\ r.projection = w.projection
      /\ r.modified = w.modified /\ r.shown = w.shown
      /\ r.combination = w.combination /\ r.document = w.document
      /\ r.columns = w.columns /\ r.valid = w.valid
    BY <1>2 DEF Same, WindowFields
<1>4. AreEqual(r)
    BY <1>1, <1>2, <1>3 DEF IsConsistent, AreEqual, Query, IsEventProjectionValid
<1>5. IsActiveListed(r) /\ IsModifiedTrue(r) /\ IsListTrue(r) /\ ErrorNeedsDocument(r)
      /\ (r.valid \/ r.document.error)
    BY <1>3 DEF IsConsistent, IsActiveListed, IsModifiedTrue, IsListTrue,
       Silent!Differs, ErrorNeedsDocument
<1> QED BY <1>1, <1>2, <1>3, <1>4, <1>5 DEF IsConsistent, r, rows

(* The steps that may take the rows, and what the others do with them.     *)
TakesRows ==
    \/ ClearFilter \/ StartImport
    \/ FinishImport /\ window'.document.error
    \/ SelectTemplateRow \/ RemoveActiveTemplate

RowsSurvive ==
    \/ window'.rows = window.rows
    \/ OnlyTheRowsChange /\ OneRowChanges
    \/ TakesRows

LEMMA StepIsConsistent ==
    ASSUME IInv, [Next]_vars
    PROVE  IInv' /\ RowsSurvive
<1>0. /\ window.rows \in Seq(Rows) /\ window.columns \in Seq(Columns)
      /\ window.combination \in {"all", "any"} /\ IsWindow(window)
      /\ Len(window.rows) \in Nat /\ IsConsistent(window)
    BY DEF IInv, IsConsistent, IsWindow
<1>1. window'.rows = window.rows \/ TakesRows => RowsSurvive
    BY DEF RowsSurvive
<1>2. CASE EditCondition
    <2>1. PICK row \in DOMAIN window.rows : \E edited \in SetData(window.rows[row]) :
             window' = Edited(window, [window.rows EXCEPT ![row] = edited],
                              window.combination)
        BY <1>2 DEF EditCondition
    <2>2. PICK edited \in SetData(window.rows[row]) :
             window' = Edited(window, [window.rows EXCEPT ![row] = edited],
                              window.combination)
        BY <2>1
    <2> DEFINE rows == [window.rows EXCEPT ![row] = edited]
    <2>3. /\ rows \in Seq(Rows) /\ DOMAIN rows = DOMAIN window.rows
          /\ \A other \in DOMAIN window.rows \ {row} : rows[other] = window.rows[other]
        <3>1. window.rows[row] \in Rows
            BY <1>0
        <3>2. edited \in Rows
            BY <3>1, SetDataMakesRows
        <3>3. window.rows \in [1 .. Len(window.rows) -> Rows]
            BY <1>0
        <3>4. rows \in [1 .. Len(window.rows) -> Rows]
            BY <3>2, <3>3
        <3>5. \A other \in DOMAIN window.rows \ {row} : rows[other] = window.rows[other]
            BY <3>3
        <3> HIDE DEF rows
        <3> QED BY <1>0, <3>3, <3>4, <3>5
    <2> DEFINE after == Edited(window, rows, window.combination)
    <2> HIDE DEF rows
    <2>4. /\ IsConsistent(after) /\ after.rows = rows
          /\ after.combination = window.combination
          /\ after.columns = window.columns
          /\ after.document.state = window.document.state
        <3>1. /\ IsConsistent(window) /\ rows \in Seq(Rows)
              /\ window.combination \in {"all", "any"}
            BY <1>0, <2>3
        <3> QED BY Zenon, <3>1, RowsEdited
    <2>5. window' = after
        BY <2>2 DEF rows
    <2> HIDE DEF after
    <2>6. /\ IsConsistent(window') /\ window'.rows = rows
          /\ window'.combination = window.combination
          /\ window'.columns = window.columns
          /\ window'.document.state = window.document.state
        BY <2>4, <2>5
    <2>7. OnlyTheRowsChange
        BY <1>2, <2>6 DEF EditCondition, OnlyTheRowsChange
    <2>8. OneRowChanges
        BY <2>3, <2>6 DEF OneRowChanges
    <2> QED BY <2>6, <2>7, <2>8 DEF IInv, RowsSurvive
<1>3. CASE AddFilterCondition
    <2>1. /\ IsConsistent(window') /\ window'.rows = Append(window.rows, DefaultRow)
          /\ window'.combination = window.combination
          /\ window'.columns = window.columns
          /\ window'.document = window.document
        BY <1>0, <1>3, RowAdded DEF AddFilterCondition
    <2>2. OnlyTheRowsChange
        BY <1>3, <2>1 DEF AddFilterCondition, OnlyTheRowsChange
    <2> QED BY <2>1, <2>2 DEF IInv, RowsSurvive, OneRowChanges
<1>4. CASE SetFilterCombination
    <2>1. IsConsistent(window') /\ window'.rows = window.rows
        BY <1>0, <1>4, RowsEdited DEF SetFilterCombination
    <2> QED BY <1>1, <2>1 DEF IInv
<1>5. CASE RemoveFilterCondition
    <2>1. PICK row \in DOMAIN window.rows :
             window' = Edited(window, RemoveAt(window.rows, row), window.combination)
        BY <1>5 DEF RemoveFilterCondition
    <2>2. RemoveAt(window.rows, row) \in Seq(Rows)
        BY <1>0, RemoveAtProperties
    <2> DEFINE rows == RemoveAt(window.rows, row)
               after == Edited(window, rows, window.combination)
    <2> HIDE DEF rows
    <2>3. /\ IsConsistent(after) /\ after.rows = rows
          /\ after.combination = window.combination
          /\ after.columns = window.columns
          /\ after.document.state = window.document.state
        <3>1. /\ IsConsistent(window) /\ rows \in Seq(Rows)
              /\ window.combination \in {"all", "any"}
            BY <1>0, <2>2 DEF rows
        <3> QED BY Zenon, <3>1, RowsEdited
    <2>4. window' = after
        BY <2>1 DEF rows
    <2> HIDE DEF after
    <2>5. /\ IsConsistent(window') /\ window'.rows = RemoveAt(window.rows, row)
          /\ window'.combination = window.combination
          /\ window'.columns = window.columns
          /\ window'.document.state = window.document.state
        BY <2>3, <2>4 DEF rows
    <2>6. OnlyTheRowsChange
        BY <1>5, <2>5 DEF RemoveFilterCondition, OnlyTheRowsChange
    <2>7. OneRowChanges
        BY <2>5 DEF OneRowChanges
    <2> QED BY <2>5, <2>6, <2>7 DEF IInv, RowsSurvive
<1>6. CASE ClearFilter
    <2> DEFINE rows == <<DefaultRow>>
    <2>1. rows \in Seq(Rows)
        <3> DEFINE row == DefaultRow
        <3>1. row \in Rows
            BY DefaultRowIsARow
        <3> HIDE DEF row
        <3>2. <<row>> \in Seq(Rows)
            BY <3>1
        <3> QED BY <3>2 DEF row
    <2>2. window' = Edited(window, rows, "all")
        BY <1>6 DEF ClearFilter
    <2> HIDE DEF rows
    <2>3. IsConsistent(window')
        BY <1>0, <2>1, <2>2, RowsEdited
    <2> QED BY <1>1, <1>6, <2>3 DEF IInv, TakesRows
<1>7. CASE SetEventProjectionSelected
    <2>1. PICK row \in DOMAIN window.columns :
             window' = handleEventProjectionChanged(
                          [window EXCEPT !.columns = SetSelected(window.columns, row)])
        BY <1>7 DEF SetEventProjectionSelected
    <2>2. SetSelected(window.columns, row) \in Seq(Columns)
        BY <1>0, SetSelectedType
    <2>3. IsConsistent(window') /\ window'.rows = window.rows
        BY <1>0, <2>1, <2>2, ColumnsEdited
    <2> QED BY <1>1, <2>3 DEF IInv
<1>8. CASE MoveEventProjection
    <2>1. PICK source \in DOMAIN window.columns, destination \in DOMAIN window.columns :
             window' = handleEventProjectionChanged(
                          [window EXCEPT !.columns =
                              Move(window.columns, source, destination)])
        BY <1>8 DEF MoveEventProjection
    <2>2. Move(window.columns, source, destination) \in Seq(Columns)
        BY <1>0, MoveType
    <2>3. IsConsistent(window') /\ window'.rows = window.rows
        BY <1>0, <2>1, <2>2, ColumnsEdited
    <2> QED BY <1>1, <2>3 DEF IInv
<1>9. CASE SelectTemplateRow
    <2>1. IsListTrue(window)
        BY <1>0 DEF IsConsistent
    <2>2. DOMAIN window.shown.names \subseteq DOMAIN window.catalog
        BY <2>1 DEF IsListTrue, Silent!SetTemplates
    <2>3. Chosen(window', window)
        BY <1>0, <1>9, <2>1, <2>2, TemplatesSelectNone, TemplatesSelect
           DEF SelectTemplateRow
    <2>4. IsConsistent(window')
        BY <1>0, <2>3, ChosenIsConsistent
    <2> QED BY <1>1, <1>9, <2>4 DEF IInv, TakesRows
<1>10. CASE CreateTemplate \/ UpdateActiveTemplate
            \/ RenameActiveTemplate \/ DuplicateActiveTemplate
    <2>1. \E name \in Names :
             window' \in Templates!Created(window, name) \cup Templates!ActiveUpdated(window)
                         \cup Templates!ActiveRenamed(window, name)
                         \cup Templates!ActiveDuplicated(window, name)
        <3>1. CASE UpdateActiveTemplate
            <4>1. window' \in Templates!ActiveUpdated(window)
                BY <3>1 DEF UpdateActiveTemplate, Command
            <4>2. Templates!ActiveTemplate(window) # NoTemplate
                BY <4>1 DEF Templates!ActiveUpdated
            <4>3. window.catalog[window.active] \in SavedTemplates
                BY <1>0, <4>2, SavedTemplateParts
                   DEF Templates!ActiveTemplate, IsConsistent, IsActiveListed
            <4>4. window.catalog[window.active].name \in Names
                BY <4>3 DEF SavedTemplates
            <4> QED BY <4>1, <4>4
        <3>2. CASE CreateTemplate \/ RenameActiveTemplate \/ DuplicateActiveTemplate
            BY <3>2 DEF CreateTemplate, RenameActiveTemplate,
               DuplicateActiveTemplate, Command
        <3> QED BY <1>10, <3>1, <3>2
    <2>2. IsConsistent(window') /\ window'.rows = window.rows
        BY <1>0, <2>1, CommandsStore
    <2> QED BY <1>1, <2>2 DEF IInv
<1>11. CASE RemoveActiveTemplate
    <2>1. IsConsistent(window')
        BY <1>0, <1>11, CommandRemoves DEF RemoveActiveTemplate, Command
    <2> QED BY <1>1, <1>11, <2>1 DEF IInv, TakesRows
<1>12. CASE StartImport
    <2>1. IsConsistent(window')
        BY <1>0, <1>12, ImportStarts DEF StartImport
    <2> QED BY <1>1, <1>12, <2>1 DEF IInv, TakesRows
<1>13. CASE FinishImport
    <2>1. CASE window' = Document!Imported(window)
        <3>1. IsConsistent(window')
              /\ (window'.rows = window.rows \/ window'.document.error)
            BY <1>0, <1>13, <2>1, ImportSucceeds DEF FinishImport
        <3> QED BY <1>1, <1>13, <3>1 DEF IInv, TakesRows
    <2>2. CASE window' = Document!NotImported(window)
        <3>1. IsConsistent(window') /\ window'.rows = window.rows
            BY <1>0, <2>2, ImportFails
        <3> QED BY <1>1, <3>1 DEF IInv
    <2> QED BY <1>13, <2>1, <2>2 DEF FinishImport
<1>14. CASE UNCHANGED vars
    BY <1>0, <1>1, <1>14 DEF IInv, vars
<1> QED BY <1>2, <1>3, <1>4, <1>5, <1>6, <1>7, <1>8, <1>9, <1>10, <1>11, <1>12,
          <1>13, <1>14 DEF Next, EditFilter

(* The inductive invariant holds in every reachable state.                 *)
THEOREM AlwaysConsistent == Spec => []IInv
<1>1. IInv /\ [Next]_vars => IInv'
    BY StepIsConsistent
<1> QED BY <1>1, InitIsConsistent, PTL DEF Spec

(* Between two calls the rows, the columns, the template view model and    *)
(* the document hold one configuration, whatever listener ran last.        *)
THEOREM CopiesAlwaysAgree == Spec => []CopiesAgree
<1>1. IInv => CopiesAgree
    BY DEF IInv, IsConsistent, AreEqual, CopiesAgree
<1> QED BY <1>1, AlwaysConsistent, PTL

(* The active template is marked as modified exactly when the screen       *)
(* differs from what is saved, and the list shown is the service's.        *)
THEOREM TemplateListIsAlwaysTrue == Spec => []TemplateListIsTrue
<1>1. ASSUME IInv PROVE TemplateListIsTrue
    <2> DEFINE active == Silent!ActiveTemplate(window)
               columns == Projection(window.columns)
    <2>1. IsConsistent(window)
        BY <1>1 DEF IInv
    <2>2. /\ Query(window) = window.filter
          /\ IsValidProjection(columns) => columns = window.projection
        BY <2>1 DEF IsConsistent, AreEqual, IsEventProjectionValid
    <2>3. CASE window.active = NoTemplate
        <3>1. active = NoTemplate
            BY <2>3 DEF Silent!ActiveTemplate
        <3> QED BY <2>1, <2>3, <3>1 DEF TemplateListIsTrue, IsTemplateModified,
                  IsConsistent, IsListTrue
    <2>4. CASE window.active # NoTemplate
        <3>1. /\ active = window.catalog[window.active] /\ active # NoTemplate
              /\ window.active \in DOMAIN window.catalog
            BY <2>1, <2>4 DEF Silent!ActiveTemplate, IsConsistent, IsActiveListed
        <3>2. IsValidProjection(active.projection)
            BY <2>1, <3>1, SavedTemplateParts DEF IsConsistent, ValidProjections
        <3>3. window.modified = (active.filter # window.filter
                                 \/ active.projection # window.projection)
            BY <2>1, <2>4, <3>1 DEF IsConsistent, IsModifiedTrue, Silent!Differs
        <3>4. (window.modified \/ columns # window.projection)
              = (active.filter # Query(window) \/ active.projection # columns)
            <4> HIDE DEF columns, active
            <4>1. CASE columns = window.projection
                BY <2>2, <3>3, <4>1
            <4>2. CASE columns # window.projection
                BY <2>2, <3>2, <4>2
            <4> QED BY <4>1, <4>2
        <3>5. IsTemplateModified(window) =
                 (active # NoTemplate /\ \/ active.filter # Query(window)
                                         \/ active.projection # columns)
            BY <2>4, <3>1, <3>4 DEF IsTemplateModified
        <3>6. window.shown = Silent!SetTemplates(window.catalog, window.active,
                                                 window.modified)
            BY <2>1 DEF IsConsistent, IsListTrue
        <3>7. window.shown.active = window.active
            BY <3>1, <3>6 DEF Silent!SetTemplates
        <3> QED BY <3>5, <3>6, <3>7 DEF TemplateListIsTrue
    <2> QED BY <2>3, <2>4
<1> QED BY <1>1, AlwaysConsistent, PTL

(* A filter is refused only while the document refuses it.                 *)
THEOREM NeverRefusedFalsely == Spec => []NoFalseRefusal
<1>1. IInv => NoFalseRefusal
    BY DEF IInv, IsConsistent, NoFalseRefusal
<1> QED BY <1>1, AlwaysConsistent, PTL

(* The conditions the user has begun stay as they are, but for the one the *)
(* user edits or removes, until a step that may take them all.             *)
THEOREM ConditionsSurvive == Spec => UnfinishedConditionsSurvive
<1>1. IInv /\ [Next]_vars =>
         [\/ window'.rows = window.rows
          \/ OnlyTheRowsChange /\ OneRowChanges
          \/ ClearFilter \/ StartImport
          \/ FinishImport /\ window'.document.error
          \/ SelectTemplateRow \/ RemoveActiveTemplate]_vars
    BY StepIsConsistent DEF RowsSurvive, TakesRows
<1> QED BY <1>1, AlwaysConsistent, PTL DEF Spec, UnfinishedConditionsSurvive
-----------------------------------------------------------------------------
(* The Widgets window.                                                     *)

(* What it has from FilterModel and Configuration is what Quick has.       *)
LEMMA SameRows ==
    /\ Widgets!Rows = Rows /\ Widgets!DefaultRow = DefaultRow
    /\ \A row : Widgets!SetData(row) = SetData(row)
<1>1. \A s : Widgets!ToSet(s) = ToSet(s)
    BY DEF Widgets!ToSet, ToSet
<1>2. \A row : Widgets!SetData(row) = SetData(row)
    BY Zenon, <1>1 DEF Widgets!SetData, SetData
<1>3. Widgets!Rows = Rows
    BY Zenon, <1>1 DEF Widgets!Rows, Rows
<1> QED BY <1>2, <1>3 DEF Widgets!DefaultRow, DefaultRow

LEMMA SameFlattening == \A seqs : Widgets!FlattenSeq(seqs) = FlattenSeq(seqs)
BY DEF Widgets!FlattenSeq, FlattenSeq

LEMMA SameQueries ==
    /\ \A rows, combination :
          Widgets!QueryOf(rows, combination) = QueryOf(rows, combination)
    /\ \A query : Widgets!RowsOf(query) = RowsOf(query)
    /\ Widgets!Queries = Queries
    /\ Widgets!NoFilter = NoFilter
<1>1. \A row : Widgets!ConditionOf(row) = ConditionOf(row)
    BY DEF Widgets!ConditionOf, ConditionOf, Widgets!Condition, Condition,
       Widgets!EditorForField, EditorForField
<1>2. ASSUME NEW condition
      PROVE  Widgets!RowOf(condition) = RowOf(condition)
    <2>1. Widgets!DefaultRow = DefaultRow
        BY SameRows
    <2> QED BY <2>1 DEF Widgets!RowOf, RowOf, Widgets!EditorForField, EditorForField
<1>3. \A query : Widgets!RowsOf(query) = RowsOf(query)
    BY <1>2, SameRows DEF Widgets!RowsOf, RowsOf
<1>4. ASSUME NEW rows, NEW combination
      PROVE  Widgets!QueryOf(rows, combination) = QueryOf(rows, combination)
    BY <1>1, SameFlattening DEF Widgets!QueryOf, QueryOf
<1>5. Widgets!Conditions = Conditions
    <2>1. \A s : Widgets!ToSet(s) = ToSet(s)
        BY DEF Widgets!ToSet, ToSet
    <2>2. Widgets!Rows = Rows
        BY SameRows
    <2>3. ASSUME NEW row PROVE Widgets!ToSet(Widgets!ConditionOf(row)) = ToSet(ConditionOf(row))
        BY Zenon, <1>1, <2>1
    <2>4. {Widgets!ToSet(Widgets!ConditionOf(row)) : row \in Widgets!Rows}
          = {ToSet(ConditionOf(row)) : row \in Rows}
        BY Zenon, <2>2, <2>3
    <2> QED BY Zenon, <2>4 DEF Widgets!Conditions, Conditions
<1> QED BY <1>3, <1>4, <1>5
    DEF Widgets!Queries, Queries, Widgets!NoFilter, NoFilter

LEMMA SameProjections ==
    /\ Widgets!ValidProjections = ValidProjections
    /\ Widgets!SavedTemplates = SavedTemplates
    /\ Widgets!DefaultEventProjection = DefaultEventProjection
<1>1. \A projection :
         Widgets!IsValidProjection(projection) <=> IsValidProjection(projection)
    BY DEF Widgets!IsValidProjection, IsValidProjection
<1>2. Widgets!ValidProjections = ValidProjections
    <2>1. \A s : Widgets!ToSet(s) = ToSet(s)
        BY DEF Widgets!ToSet, ToSet
    <2> QED BY <1>1, <2>1 DEF Widgets!ValidProjections, ValidProjections
<1>3. Widgets!DefaultEventProjection = DefaultEventProjection
    BY SameFlattening DEF Widgets!DefaultEventProjection, DefaultEventProjection,
       Widgets!FieldsWithout, FieldsWithout
<1> QED BY <1>2, <1>3, SameQueries DEF Widgets!SavedTemplates, SavedTemplates

WidgetsFields ==
    {"catalog", "active", "filter", "valid", "projection", "modified", "shown",
     "rows", "combination", "editors", "document", "panel", "timeline",
     "filterValid", "page", "menu", "busy", "requested", "readGone"}

LEMMA WidgetsRefreshModified ==
    ASSUME NEW w, Widgets!IsWindow(w), Widgets!IsActiveListed(w)
    PROVE  LET r == Widgets!Templates!RefreshModified(w)
           IN  /\ Widgets!IsWindow(r)
               /\ Same(r, w, WidgetsFields \ ListFields)
               /\ Widgets!IsActiveListed(r) /\ Widgets!IsModifiedTrue(r)
<1> DEFINE modified == /\ Widgets!Templates!ActiveTemplate(w) # NoTemplate
                       /\ Widgets!Templates!Differs(w, Widgets!Templates!ActiveTemplate(w))
           shown == Widgets!Templates!SetTemplates(w.catalog, w.active, modified)
           changed == [w EXCEPT !.modified = modified, !.shown = shown]
           r == Widgets!Templates!RefreshModified(w)
<1>1. modified = (/\ w.active # NoTemplate
                  /\ Widgets!Templates!Differs(w, w.catalog[w.active]))
    BY DEF Widgets!Templates!ActiveTemplate, Widgets!IsActiveListed
<1>2. CASE w.modified = modified
    <2>1. r = w
        BY <1>2 DEF Widgets!Templates!RefreshModified
    <2> HIDE DEF modified
    <2> QED BY <1>1, <1>2, <2>1 DEF Same, Widgets!IsModifiedTrue
<1>3. CASE w.modified # modified
    <2>1. r = changed
        <3>1. r = Widgets!Templates!RefreshTemplateModel([w EXCEPT !.modified = modified])
            BY <1>3 DEF Widgets!Templates!RefreshModified
        <3> HIDE DEF modified
        <3> QED BY <3>1 DEF Widgets!Templates!RefreshTemplateModel, Widgets!IsWindow
    <2> HIDE DEF modified, shown, r
    <2>2. /\ Widgets!IsWindow(changed) /\ changed.modified = modified
          /\ Same(changed, w, WidgetsFields \ ListFields)
        BY DEF Widgets!IsWindow, Same, WidgetsFields, ListFields
    <2> HIDE DEF changed
    <2>3. /\ changed.active = w.active /\ changed.catalog = w.catalog
          /\ changed.filter = w.filter /\ changed.projection = w.projection
        BY <2>2 DEF Same, WidgetsFields, ListFields
    <2>4. Widgets!IsActiveListed(changed) /\ Widgets!IsModifiedTrue(changed)
        BY <1>1, <2>2, <2>3 DEF Widgets!IsActiveListed, Widgets!IsModifiedTrue,
           Widgets!Templates!Differs
    <2> QED BY <2>1, <2>2, <2>4 DEF r
<1> QED BY <1>2, <1>3

(* The state of the filter reaches the template view model, the view and   *)
(* the menu.                                                               *)
ToldFields == {"filter", "valid", "modified", "shown", "filterValid", "menu",
               "readGone", "panel"}

Told(r, w) ==
    /\ Widgets!IsWindow(r)
    /\ Widgets!IsActiveListed(r) /\ Widgets!IsModifiedTrue(r) /\ Widgets!IsPanelTrue(r)
    /\ Same(r, w, WidgetsFields \ ToldFields)
    /\ r.filter = w.document.query
    /\ r.filterValid = ~ w.document.error
    /\ r.menu = [w.menu EXCEPT !.export = ~ w.document.error]

LEMMA WidgetsSetFilterState ==
    ASSUME NEW w, Widgets!IsWindow(w), Widgets!IsActiveListed(w),
           Widgets!IsModifiedTrue(w), NEW query \in Queries, NEW valid \in BOOLEAN
    PROVE  LET r == Widgets!Templates!SetFilterState(w, query, valid)
           IN  /\ Widgets!IsWindow(r)
               /\ Same(r, w, WidgetsFields \ ({"filter", "valid"} \cup ListFields))
               /\ Widgets!IsActiveListed(r) /\ Widgets!IsModifiedTrue(r)
               /\ r.filter = query
<1> DEFINE taken == [w EXCEPT !.filter = query, !.valid = valid]
           r == Widgets!Templates!SetFilterState(w, query, valid)
<1>1. CASE w.filter = query /\ w.valid = valid
    BY <1>1 DEF Widgets!Templates!SetFilterState, Same
<1>2. CASE ~ (w.filter = query /\ w.valid = valid)
    <2>1. r = Widgets!Templates!RefreshModified(taken)
        BY <1>2 DEF Widgets!Templates!SetFilterState, Widgets!Ignored
    <2>2. /\ Widgets!IsWindow(taken) /\ taken.filter = query
          /\ Same(taken, w, WidgetsFields \ {"filter", "valid"})
        BY SameQueries DEF Widgets!IsWindow, Same, WidgetsFields
    <2> HIDE DEF taken, r
    <2>3. Widgets!IsActiveListed(taken)
        BY <2>2 DEF Widgets!IsActiveListed, Same, WidgetsFields
    <2>4. /\ Widgets!IsWindow(r) /\ Same(r, taken, WidgetsFields \ ListFields)
          /\ Widgets!IsActiveListed(r) /\ Widgets!IsModifiedTrue(r)
        BY <2>1, <2>2, <2>3, WidgetsRefreshModified
    <2>5. Same(r, w, WidgetsFields \ ({"filter", "valid"} \cup ListFields))
          /\ r.filter = query
        BY <2>2, <2>4 DEF Same, WidgetsFields, ListFields
    <2> QED BY <2>4, <2>5 DEF r
<1> QED BY <1>1, <1>2

LEMMA WidgetsRefreshPanel ==
    ASSUME NEW w, Widgets!IsWindow(w)
    PROVE  LET r == Widgets!RefreshTemplateState(w)
           IN  /\ Widgets!IsWindow(r) /\ Same(r, w, WidgetsFields \ {"panel"})
               /\ Widgets!IsPanelTrue(r)
<1> DEFINE panel == Widgets!SetTemplates(w.catalog, w.active, w.modified)
           r == [w EXCEPT !.panel = panel]
<1>1. r = Widgets!RefreshTemplateState(w)
    BY DEF Widgets!RefreshTemplateState
<1>2. Widgets!IsWindow(r) /\ Same(r, w, WidgetsFields \ {"panel"}) /\ r.panel = panel
    <2> HIDE DEF panel
    <2> QED BY DEF Widgets!IsWindow, Same, WidgetsFields
<1> HIDE DEF r
<1>3. r.catalog = w.catalog /\ r.active = w.active /\ r.modified = w.modified
    BY <1>2 DEF Same, WidgetsFields
<1>4. r.panel = Widgets!SetTemplates(r.catalog, r.active, r.modified)
    BY Zenon, <1>2, <1>3 DEF panel
<1> QED BY <1>1, <1>2, <1>4 DEF Widgets!IsPanelTrue

LEMMA WidgetsFilterChanged ==
    ASSUME NEW w, Widgets!IsWindow(w), Widgets!IsActiveListed(w),
           Widgets!IsModifiedTrue(w)
    PROVE  Told(Widgets!HandleFilterChanged(w), w)
<1> DEFINE valid == ~ w.document.error
           marked == [w EXCEPT !.filterValid = valid, !.menu.export = valid]
           seen == Widgets!SetVisibleEventCount(marked)
           query == seen.document.query
           told == Widgets!Templates!SetFilterState(seen, query, valid)
           r == Widgets!RefreshTemplateState(told)
<1>1. r = Widgets!HandleFilterChanged(w)
    BY DEF Widgets!HandleFilterChanged
<1>2. valid \in BOOLEAN
    BY DEF Widgets!IsWindow
<1> HIDE DEF valid
<1>3. /\ Widgets!IsWindow(seen)
      /\ Same(seen, w, WidgetsFields \ {"filterValid", "menu", "readGone"})
      /\ seen.filterValid = valid
      /\ seen.menu = [w.menu EXCEPT !.export = valid]
    <2>1. /\ Widgets!IsWindow(marked)
          /\ Same(marked, w, WidgetsFields \ {"filterValid", "menu"})
          /\ marked.filterValid = valid
          /\ marked.menu = [w.menu EXCEPT !.export = valid]
        BY DEF Widgets!IsWindow, Same, WidgetsFields
    <2> HIDE DEF marked
    <2>2. /\ Widgets!IsWindow(seen)
          /\ Same(seen, marked, WidgetsFields \ {"readGone"})
        BY <2>1 DEF Widgets!SetVisibleEventCount, Widgets!IsWindow, Same, WidgetsFields
    <2> HIDE DEF seen
    <2> QED BY <2>1, <2>2 DEF Same, WidgetsFields
<1> HIDE DEF seen
<1>4. /\ seen.active = w.active /\ seen.catalog = w.catalog
      /\ seen.filter = w.filter /\ seen.projection = w.projection
      /\ seen.modified = w.modified /\ seen.document = w.document
    BY <1>3 DEF Same, WidgetsFields
<1>5. Widgets!IsActiveListed(seen) /\ Widgets!IsModifiedTrue(seen)
    BY <1>4 DEF Widgets!IsActiveListed, Widgets!IsModifiedTrue, Widgets!Templates!Differs
<1>6. query \in Queries
    BY <1>3, SameQueries DEF Widgets!IsWindow
<1> HIDE DEF query
<1>7. /\ Widgets!IsWindow(told)
      /\ Same(told, seen, WidgetsFields \ ({"filter", "valid"} \cup ListFields))
      /\ Widgets!IsActiveListed(told) /\ Widgets!IsModifiedTrue(told)
      /\ told.filter = query
    BY <1>2, <1>3, <1>5, <1>6, WidgetsSetFilterState
<1> HIDE DEF told
<1>8. /\ Widgets!IsWindow(r) /\ Same(r, told, WidgetsFields \ {"panel"})
      /\ Widgets!IsPanelTrue(r)
    BY <1>7, WidgetsRefreshPanel
<1> HIDE DEF r
<1>9. /\ r.active = told.active /\ r.catalog = told.catalog
      /\ r.filter = told.filter /\ r.projection = told.projection
      /\ r.modified = told.modified
      /\ r.filterValid = valid /\ r.menu = [w.menu EXCEPT !.export = valid]
      /\ r.filter = w.document.query
    BY <1>3, <1>4, <1>7, <1>8 DEF Same, WidgetsFields, ListFields, query
<1>10. Widgets!IsActiveListed(r) /\ Widgets!IsModifiedTrue(r)
    BY <1>7, <1>9 DEF Widgets!IsActiveListed, Widgets!IsModifiedTrue,
       Widgets!Templates!Differs
<1>11. Same(r, w, WidgetsFields \ ToldFields)
    BY <1>3, <1>7, <1>8 DEF Same, WidgetsFields, ListFields, ToldFields
<1> QED BY <1>1, <1>8, <1>9, <1>10, <1>11 DEF Told, valid

(* What the template view model promises of itself.                        *)
IsBase(w) == Widgets!IsWindow(w) /\ Widgets!IsActiveListed(w) /\ Widgets!IsModifiedTrue(w)

BaseFields == {"catalog", "active", "filter", "projection", "modified"}

LEMMA BaseIsKept ==
    ASSUME NEW w, IsBase(w), NEW r, Widgets!IsWindow(r), Same(r, w, BaseFields)
    PROVE  IsBase(r)
<1>1. /\ r.active = w.active /\ r.catalog = w.catalog /\ r.filter = w.filter
      /\ r.projection = w.projection /\ r.modified = w.modified
    BY DEF Same, BaseFields
<1> QED BY <1>1 DEF IsBase, Widgets!IsActiveListed, Widgets!IsModifiedTrue,
           Widgets!Templates!Differs

PanelFields == {"catalog", "active", "modified", "panel"}

LEMMA PanelIsKept ==
    ASSUME NEW w, Widgets!IsPanelTrue(w), NEW r, Same(r, w, PanelFields)
    PROVE  Widgets!IsPanelTrue(r)
<1>1. /\ r.active = w.active /\ r.catalog = w.catalog
      /\ r.modified = w.modified /\ r.panel = w.panel
    BY DEF Same, PanelFields
<1> QED BY <1>1 DEF Widgets!IsPanelTrue

(* The document's other parts, which a filter leaves alone.                *)
SameDocument(r, w) == Same(r.document, w.document, {"state", "loaded", "projection"})

(* The document takes a query, and all who listen hear of it.              *)
Filtered(r, w, query) ==
    /\ IsBase(r)
    /\ Widgets!IsDocumentShown(r)
    /\ Same(r, w, WidgetsFields \ (ToldFields \cup {"document"}))
    /\ SameDocument(r, w)
    /\ r.document.query = query
    /\ w.document.query # query => r.filter = query /\ Widgets!IsPanelTrue(r)
    /\ w.document.query = query => r = w

LEMMA WidgetsDocumentFilters ==
    ASSUME NEW w, IsBase(w), Widgets!IsDocumentShown(w), NEW query \in Queries
    PROVE  Filtered(Widgets!Document!SetFilterQuery(w, query), w, query)
<1> DEFINE error == w.document.loaded /\ ~ Widgets!Document!Compiles(query)
           taken == [w EXCEPT !.document.query = query]
           judged == [taken EXCEPT !.document.error = error]
           r == Widgets!HandleFilterChanged(judged)
<1>1. CASE w.document.query = query
    BY <1>1 DEF Widgets!Document!SetFilterQuery, Filtered, SameDocument, Same
<1>2. CASE w.document.query # query
    <2>1. Widgets!Document!SetFilterQuery(w, query) = r
        <3>1. taken.document.loaded = w.document.loaded /\ taken.document.query = query
            BY DEF IsBase, Widgets!IsWindow
        <3>2. Widgets!Document!SetFilterQuery(w, query) = Widgets!Document!ApplyFilter(taken)
            BY <1>2 DEF Widgets!Document!SetFilterQuery
        <3> HIDE DEF taken
        <3> QED BY <3>1, <3>2 DEF Widgets!Document!ApplyFilter
    <2>2. error \in BOOLEAN
        BY DEF IsBase, Widgets!IsWindow
    <2> HIDE DEF error
    <2>3. /\ Widgets!IsWindow(judged)
          /\ Same(judged, w, WidgetsFields \ {"document"})
          /\ SameDocument(judged, w)
          /\ judged.document.query = query /\ judged.document.error = error
        BY <2>2, SameQueries DEF IsBase, Widgets!IsWindow, Same, WidgetsFields,
           SameDocument
    <2> HIDE DEF judged
    <2>4. IsBase(judged)
        <3>1. Same(judged, w, BaseFields)
            BY <2>3 DEF Same, WidgetsFields, BaseFields
        <3> QED BY <2>3, <3>1, BaseIsKept
    <2>5. Told(r, judged)
        BY <2>4, WidgetsFilterChanged DEF IsBase
    <2> HIDE DEF r
    <2>6. /\ r.document = judged.document /\ r.timeline = w.timeline
          /\ judged.menu = w.menu
          /\ Same(r, w, WidgetsFields \ (ToldFields \cup {"document"}))
        BY <2>3, <2>5 DEF Told, Same, WidgetsFields, ToldFields
    <2>7. IsBase(r) /\ Widgets!IsPanelTrue(r) /\ r.filter = query
        BY <2>3, <2>5 DEF Told, IsBase
    <2>8. r.document.query = query /\ SameDocument(r, w)
        BY <2>3, <2>6 DEF SameDocument
    <2>9. Widgets!IsDocumentShown(r)
        <3>1. /\ r.menu = [w.menu EXCEPT !.export = ~ r.document.error]
              /\ r.filterValid = ~ r.document.error
            BY <2>5, <2>6 DEF Told
        <3>2. r.document.loaded = w.document.loaded
            BY <2>8 DEF SameDocument, Same
        <3>3. w.menu = [document |-> w.document.loaded, export |-> ~ w.document.error]
              /\ w.timeline = w.document.loaded
            BY DEF Widgets!IsDocumentShown
        <3>4. r.menu = [document |-> r.document.loaded, export |-> ~ r.document.error]
            BY <3>1, <3>2, <3>3
        <3> QED BY <2>6, <3>1, <3>2, <3>3, <3>4 DEF Widgets!IsDocumentShown
    <2> QED BY <1>2, <2>1, <2>6, <2>7, <2>8, <2>9 DEF Filtered
<1> QED BY <1>1, <1>2

(* The rows on screen follow the rows of the model.                        *)
LEMMA EditorsFollow ==
    ASSUME NEW w, Widgets!IsWindow(w), w.editors = w.rows,
           NEW rows \in Seq(Rows), NEW combination \in {"all", "any"}
    PROVE  LET r == Widgets!EditRows(w, rows, combination)
           IN  /\ Widgets!IsWindow(r)
               /\ Same(r, w, WidgetsFields \ {"rows", "combination", "editors"})
               /\ r.editors = rows /\ r.rows = rows /\ r.combination = combination
<1> DEFINE editors == [i \in DOMAIN rows |->
                          IF i \in DOMAIN w.editors /\ w.rows[i] = rows[i]
                          THEN w.editors[i] ELSE rows[i]]
           r == [w EXCEPT !.rows = rows, !.combination = combination,
                          !.editors = editors]
<1>1. editors = rows
    <2>1. \A i \in DOMAIN rows : editors[i] = rows[i]
        OBVIOUS
    <2>2. rows = [i \in DOMAIN rows |-> rows[i]]
        OBVIOUS
    <2> QED BY <2>1, <2>2
<1>2. r = Widgets!EditRows(w, rows, combination)
    BY DEF Widgets!EditRows
<1> HIDE DEF editors
<1>3. /\ Widgets!IsWindow(r)
      /\ Same(r, w, WidgetsFields \ {"rows", "combination", "editors"})
      /\ r.editors = editors /\ r.rows = rows /\ r.combination = combination
    BY SameRows DEF Widgets!IsWindow, Same, WidgetsFields
<1> QED BY <1>1, <1>2, <1>3

(* What an edit leaves alone.                                              *)
EditedWindowFields ==
    ToldFields \cup {"rows", "combination", "editors", "document"}

(* After an edit of the rows the document filters by what is read from     *)
(* them.                                                                   *)
RowsShown(r, w, query) ==
    /\ IsBase(r)
    /\ Widgets!IsDocumentShown(r)
    /\ Widgets!IsFilterShown(r)
    /\ Same(r, w, WidgetsFields \ EditedWindowFields)
    /\ SameDocument(r, w)
    /\ r.document.query = query
    /\ w.filter \in {w.document.query, query} => r.filter = query
    /\ Widgets!IsPanelTrue(w) => Widgets!IsPanelTrue(r)

LEMMA WidgetsEdited ==
    ASSUME NEW w, IsBase(w), Widgets!IsDocumentShown(w), Widgets!IsFilterShown(w),
           NEW rows \in Seq(Rows), NEW combination \in {"all", "any"}
    PROVE  RowsShown(Widgets!Edited(w, rows, combination), w,
                     QueryOf(rows, combination))
<1> DEFINE edited == Widgets!EditRows(w, rows, combination)
           query == QueryOf(rows, combination)
           r == Widgets!Document!SetFilterQuery(edited, query)
<1>1. /\ Widgets!IsWindow(edited)
      /\ Same(edited, w, WidgetsFields \ {"rows", "combination", "editors"})
      /\ edited.editors = rows /\ edited.rows = rows
      /\ edited.combination = combination
    BY EditorsFollow DEF IsBase, Widgets!IsFilterShown
<1>2. Widgets!Edited(w, rows, combination) =
         IF Widgets!Query(edited) = Widgets!Query(w) THEN edited
         ELSE Widgets!applyFilter(edited)
    BY DEF Widgets!Edited
<1> HIDE DEF edited
<1>3. Widgets!Query(edited) = query /\ query \in Queries
    BY <1>1, SameQueries, QueryOfType DEF Widgets!Query
<1> HIDE DEF query
<1>4. /\ edited.document = w.document /\ edited.filter = w.filter
      /\ edited.timeline = w.timeline /\ edited.menu = w.menu
      /\ edited.filterValid = w.filterValid
    BY <1>1 DEF Same, WidgetsFields
<1>5. IsBase(edited)
    <2>1. Same(edited, w, BaseFields)
        BY <1>1 DEF Same, WidgetsFields, BaseFields
    <2> QED BY <1>1, <2>1, BaseIsKept
<1>6. Widgets!IsDocumentShown(edited)
    BY <1>4 DEF Widgets!IsDocumentShown
<1>7. Widgets!IsPanelTrue(w) => Widgets!IsPanelTrue(edited)
    <2>1. Same(edited, w, PanelFields)
        BY <1>1 DEF Same, WidgetsFields, PanelFields
    <2> QED BY <2>1, PanelIsKept
<1>8. Widgets!Query(w) = w.document.query
    BY DEF Widgets!IsFilterShown
<1>9. CASE query = w.document.query
    <2>1. Widgets!Edited(w, rows, combination) = edited
        BY <1>2, <1>3, <1>8, <1>9
    <2>2. Widgets!IsFilterShown(edited)
        BY <1>1, <1>3, <1>4, <1>9 DEF Widgets!IsFilterShown
    <2>3. Same(edited, w, WidgetsFields \ EditedWindowFields) /\ SameDocument(edited, w)
        BY <1>1, <1>4 DEF Same, WidgetsFields, EditedWindowFields, SameDocument
    <2> QED BY <1>4, <1>5, <1>6, <1>7, <1>9, <2>1, <2>2, <2>3 DEF RowsShown, query
<1>10. CASE query # w.document.query
    <2>1. Widgets!Edited(w, rows, combination) = r
        BY <1>2, <1>3, <1>8, <1>10 DEF Widgets!applyFilter
    <2>2. Filtered(r, edited, query)
        BY <1>3, <1>5, <1>6, WidgetsDocumentFilters
    <2> HIDE DEF r
    <2>3. r.filter = query /\ Widgets!IsPanelTrue(r) /\ r.document.query = query
          /\ IsBase(r) /\ Widgets!IsDocumentShown(r)
        BY <1>4, <1>10, <2>2 DEF Filtered
    <2>4. r.rows = rows /\ r.editors = rows /\ r.combination = combination
        BY <1>1, <2>2 DEF Filtered, Same, WidgetsFields, ToldFields
    <2>5. Widgets!IsFilterShown(r)
        BY <2>3, <2>4, SameQueries DEF Widgets!IsFilterShown, Widgets!Query, query
    <2>6. Same(r, w, WidgetsFields \ EditedWindowFields)
        BY <1>1, <2>2 DEF Filtered, Same, WidgetsFields, ToldFields, EditedWindowFields
    <2>7. SameDocument(r, w)
        BY <1>4, <2>2 DEF Filtered, SameDocument
    <2> QED BY <2>1, <2>3, <2>5, <2>6, <2>7 DEF RowsShown, query
<1> QED BY <1>9, <1>10

(* A query fills the rows it is read from again.                           *)
LEMMA WidgetsSetFilterQuery ==
    ASSUME NEW w, IsBase(w), Widgets!IsDocumentShown(w), Widgets!IsFilterShown(w),
           NEW query \in Queries
    PROVE  RowsShown(Widgets!SetFilterQuery(w, query), w, query)
<1>1. query.combination \in {"all", "any"}
    BY DEF Queries
<1>2. RowsOf(query) \in Seq(Rows) /\ QueryOf(RowsOf(query), query.combination) = query
    BY QueryRoundTrip
<1>3. Widgets!SetFilterQuery(w, query) =
         Widgets!Edited(w, RowsOf(query), query.combination)
    BY SameQueries DEF Widgets!SetFilterQuery
<1> QED BY Zenon, <1>1, <1>2, <1>3, WidgetsEdited

-----------------------------------------------------------------------------
(* The template view model of the Widgets window, whose listeners other    *)
(* than its own list are called by the controllers.                        *)

(* What every choice of a template leaves alone.                           *)
ChosenFields == TemplateFields \ {"catalog"}

WidgetsChosen(r, w) == IsBase(r) /\ Same(r, w, WidgetsFields \ ChosenFields)

LEMMA WidgetsApply ==
    ASSUME NEW w, Widgets!IsWindow(w), Widgets!IsActiveListed(w),
           NEW filter \in Queries, NEW projection \in ValidProjections
    PROVE  WidgetsChosen(Widgets!Templates!Apply(w, filter, projection), w)
<1> DEFINE taken == [w EXCEPT !.filter = filter, !.valid = TRUE,
                              !.projection = projection]
           r == Widgets!Templates!RefreshModified(taken)
<1>1. Widgets!Templates!Apply(w, filter, projection) = r
    BY DEF Widgets!Templates!Apply, Widgets!Templates!Emit, Widgets!Ignored
<1>2. /\ Widgets!IsWindow(taken)
      /\ Same(taken, w, WidgetsFields \ {"filter", "valid", "projection"})
    BY SameQueries, SameProjections DEF Widgets!IsWindow, Same, WidgetsFields
<1> HIDE DEF taken
<1>3. Widgets!IsActiveListed(taken)
    BY <1>2 DEF Widgets!IsActiveListed, Same, WidgetsFields
<1>4. /\ Widgets!IsWindow(r) /\ Same(r, taken, WidgetsFields \ ListFields)
      /\ Widgets!IsActiveListed(r) /\ Widgets!IsModifiedTrue(r)
    BY <1>2, <1>3, WidgetsRefreshModified
<1> HIDE DEF r
<1>5. Same(r, w, WidgetsFields \ ChosenFields)
    BY <1>2, <1>4 DEF Same, WidgetsFields, ListFields, ChosenFields, TemplateFields
<1> QED BY <1>1, <1>4, <1>5 DEF WidgetsChosen, IsBase

LEMMA WidgetsRefreshModel ==
    ASSUME NEW w, Widgets!IsWindow(w)
    PROVE  LET r == Widgets!Templates!RefreshTemplateModel(w)
           IN  Widgets!IsWindow(r) /\ Same(r, w, WidgetsFields \ {"shown"})
<1> DEFINE shown == Widgets!Templates!SetTemplates(w.catalog, w.active, w.modified)
           r == [w EXCEPT !.shown = shown]
<1>1. r = Widgets!Templates!RefreshTemplateModel(w)
    BY DEF Widgets!Templates!RefreshTemplateModel
<1> HIDE DEF shown
<1>2. Widgets!IsWindow(r) /\ Same(r, w, WidgetsFields \ {"shown"})
    BY DEF Widgets!IsWindow, Same, WidgetsFields
<1> QED BY <1>1, <1>2

LEMMA WidgetsSetActive ==
    ASSUME NEW w, Widgets!IsWindow(w), NEW identifier
    PROVE  LET r == Widgets!Templates!SetActiveIdentifier(w, identifier)
           IN  /\ Widgets!IsWindow(r)
               /\ Same(r, w, WidgetsFields \ {"active", "shown"})
               /\ r.active = identifier
<1> DEFINE chosen == [w EXCEPT !.active = identifier]
           r == Widgets!Templates!SetActiveIdentifier(w, identifier)
<1>1. CASE w.active = identifier
    BY <1>1 DEF Widgets!Templates!SetActiveIdentifier, Same
<1>2. CASE w.active # identifier
    <2>1. r = Widgets!Templates!RefreshTemplateModel(chosen)
        BY <1>2 DEF Widgets!Templates!SetActiveIdentifier
    <2>2. /\ Widgets!IsWindow(chosen)
          /\ Same(chosen, w, WidgetsFields \ {"active"})
          /\ chosen.active = identifier
        BY DEF Widgets!IsWindow, Same, WidgetsFields
    <2> HIDE DEF chosen, r
    <2>3. Widgets!IsWindow(r) /\ Same(r, chosen, WidgetsFields \ {"shown"})
        BY <2>1, <2>2, WidgetsRefreshModel
    <2>4. Same(r, w, WidgetsFields \ {"active", "shown"}) /\ r.active = identifier
        BY <2>2, <2>3 DEF Same, WidgetsFields
    <2> QED BY <2>3, <2>4 DEF r
<1> QED BY <1>1, <1>2

LEMMA WidgetsChosenAfterSetActive ==
    ASSUME NEW w, Widgets!IsWindow(w), NEW identifier,
           identifier # NoTemplate =>
              identifier \in DOMAIN w.catalog /\ w.catalog[identifier] # NoTemplate,
           NEW filter \in Queries, NEW projection \in ValidProjections
    PROVE  WidgetsChosen(
              Widgets!Templates!Apply(
                 Widgets!Templates!SetActiveIdentifier(w, identifier),
                 filter, projection), w)
<1> DEFINE v == Widgets!Templates!SetActiveIdentifier(w, identifier)
           r == Widgets!Templates!Apply(v, filter, projection)
<1>1. /\ Widgets!IsWindow(v) /\ Same(v, w, WidgetsFields \ {"active", "shown"})
      /\ v.active = identifier
    BY WidgetsSetActive
<1> HIDE DEF v
<1>2. v.catalog = w.catalog
    BY <1>1 DEF Same, WidgetsFields
<1>3. Widgets!IsActiveListed(v)
    BY <1>1, <1>2 DEF Widgets!IsActiveListed
<1>4. WidgetsChosen(r, v)
    BY <1>1, <1>3, WidgetsApply
<1> HIDE DEF r
<1>5. Same(r, w, WidgetsFields \ ChosenFields)
    BY <1>1, <1>4 DEF WidgetsChosen, Same, WidgetsFields, ChosenFields, TemplateFields
<1> QED BY <1>4, <1>5 DEF WidgetsChosen, v, r

LEMMA WidgetsSavedParts ==
    ASSUME NEW w, Widgets!IsWindow(w), NEW identifier \in DOMAIN w.catalog,
           w.catalog[identifier] # NoTemplate
    PROVE  /\ w.catalog[identifier] \in SavedTemplates
           /\ w.catalog[identifier].filter \in Queries
           /\ w.catalog[identifier].projection \in ValidProjections
<1>1. w.catalog[identifier] \in SavedTemplates
    BY SameProjections DEF Widgets!IsWindow
<1> QED BY <1>1 DEF SavedTemplates

LEMMA WidgetsSameDefaults ==
    /\ Widgets!Templates!NoFilter = NoFilter
    /\ Widgets!Templates!DefaultEventProjection = DefaultEventProjection
<1>1. \A seqs : Widgets!Templates!FlattenSeq(seqs) = FlattenSeq(seqs)
    BY DEF Widgets!Templates!FlattenSeq, FlattenSeq
<1> QED BY <1>1 DEF Widgets!Templates!NoFilter, NoFilter,
       Widgets!Templates!DefaultEventProjection, DefaultEventProjection,
       Widgets!Templates!FieldsWithout, FieldsWithout

LEMMA WidgetsSelectNone ==
    ASSUME NEW w, Widgets!IsWindow(w)
    PROVE  WidgetsChosen(Widgets!Templates!SelectNoTemplate(w), w)
<1>1. w.projection \in ValidProjections
    BY SameProjections DEF Widgets!IsWindow
<1> QED BY <1>1, WidgetsSameDefaults, EmptyFilterIsAQuery, WidgetsChosenAfterSetActive
       DEF Widgets!Templates!SelectNoTemplate

LEMMA WidgetsSelect ==
    ASSUME NEW w, Widgets!IsWindow(w), NEW identifier \in DOMAIN w.catalog
    PROVE  WidgetsChosen(Widgets!Templates!SelectTemplate(w, identifier), w)
<1>1. CASE w.catalog[identifier] = NoTemplate
    BY <1>1, WidgetsSelectNone DEF Widgets!Templates!SelectTemplate
<1>2. CASE w.catalog[identifier] # NoTemplate
    <2>1. identifier # NoTemplate
        BY DEF Widgets!IsWindow
    <2> QED BY <1>2, <2>1, WidgetsSavedParts, WidgetsChosenAfterSetActive
           DEF Widgets!Templates!SelectTemplate, Widgets!Templates!ApplyTemplate
<1> QED BY <1>1, <1>2

LEMMA WidgetsRestore ==
    ASSUME NEW w, Widgets!IsWindow(w), Widgets!IsActiveListed(w)
    PROVE  WidgetsChosen(Widgets!Templates!RestoreForTimeline(w), w)
<1> DEFINE template == Widgets!Templates!ActiveTemplate(w)
<1>1. CASE template # NoTemplate
    <2>1. /\ w.active # NoTemplate /\ w.active \in DOMAIN w.catalog
          /\ template = w.catalog[w.active]
        BY <1>1 DEF Widgets!Templates!ActiveTemplate, Widgets!IsActiveListed
    <2>2. template.filter \in Queries /\ template.projection \in ValidProjections
        BY <1>1, <2>1, WidgetsSavedParts
    <2>3. Widgets!Templates!RestoreForTimeline(w) =
             Widgets!Templates!Apply(w, template.filter, template.projection)
        BY <1>1 DEF Widgets!Templates!RestoreForTimeline, Widgets!Templates!ApplyTemplate
    <2> QED BY <2>2, <2>3, WidgetsApply
<1>2. CASE template = NoTemplate
    BY <1>2, WidgetsSameDefaults, EmptyFilterIsAQuery, DefaultProjectionIsValid,
       WidgetsChosenAfterSetActive DEF Widgets!Templates!RestoreForTimeline
<1> QED BY <1>1, <1>2

(* The commands that store a template.                                     *)
WidgetsStoredIn(r, w) ==
    IsBase(r) /\ Same(r, w, WidgetsFields \ {"catalog", "active", "modified", "shown"})

LEMMA WidgetsStored ==
    ASSUME NEW w, Widgets!IsWindow(w), NEW identifier \in DOMAIN w.catalog,
           NEW template \in SavedTemplates
    PROVE  WidgetsStoredIn(Widgets!Templates!Stored(w, identifier, template), w)
<1> DEFINE stored == [w EXCEPT !.catalog[identifier] = template]
           chosen == Widgets!Templates!SetActiveIdentifier(stored, identifier)
           listed == Widgets!Templates!RefreshTemplateModel(chosen)
           r == Widgets!Templates!RefreshModified(listed)
<1>1. /\ Widgets!IsWindow(stored) /\ Same(stored, w, WidgetsFields \ {"catalog"})
      /\ DOMAIN stored.catalog = DOMAIN w.catalog
      /\ stored.catalog[identifier] = template
    BY SameProjections DEF Widgets!IsWindow, Same, WidgetsFields
<1> HIDE DEF stored
<1>2. /\ Widgets!IsWindow(chosen)
      /\ Same(chosen, stored, WidgetsFields \ {"active", "shown"})
      /\ chosen.active = identifier
    BY <1>1, WidgetsSetActive
<1> HIDE DEF chosen
<1>3. Widgets!IsWindow(listed) /\ Same(listed, chosen, WidgetsFields \ {"shown"})
    BY <1>2, WidgetsRefreshModel
<1> HIDE DEF listed
<1>4. /\ listed.active = identifier
      /\ DOMAIN listed.catalog = DOMAIN w.catalog
      /\ listed.catalog[identifier] = template
      /\ Same(listed, w, WidgetsFields \ {"catalog", "active", "shown"})
    BY <1>1, <1>2, <1>3 DEF Same, WidgetsFields
<1>5. Widgets!IsActiveListed(listed)
    BY <1>4, ConfigurationAssumption DEF Widgets!IsActiveListed
<1>6. /\ Widgets!IsWindow(r) /\ Same(r, listed, WidgetsFields \ ListFields)
      /\ Widgets!IsActiveListed(r) /\ Widgets!IsModifiedTrue(r)
    BY <1>3, <1>5, WidgetsRefreshModified
<1>7. r = Widgets!Templates!Stored(w, identifier, template)
    BY DEF Widgets!Templates!Stored, listed, chosen, stored
<1> HIDE DEF r
<1>8. Same(r, w, WidgetsFields \ {"catalog", "active", "modified", "shown"})
    BY <1>4, <1>6 DEF Same, WidgetsFields, ListFields
<1> QED BY <1>6, <1>7, <1>8 DEF WidgetsStoredIn, IsBase

LEMMA WidgetsUpdateStores ==
    ASSUME NEW w, IsBase(w), NEW r, r \in Widgets!Templates!ActiveUpdated(w)
    PROVE  WidgetsStoredIn(r, w)
<1> DEFINE active == Widgets!Templates!ActiveTemplate(w)
           template == [active EXCEPT !.filter = w.filter,
                                      !.projection = w.projection]
<1>1. w.filter \in Queries /\ w.projection \in ValidProjections /\ Widgets!IsWindow(w)
    BY SameQueries, SameProjections DEF IsBase, Widgets!IsWindow
<1>2. active # NoTemplate =>
         w.active \in DOMAIN w.catalog /\ active \in SavedTemplates
    BY <1>1, WidgetsSavedParts DEF Widgets!Templates!ActiveTemplate, IsBase,
       Widgets!IsActiveListed
<1>3. active # NoTemplate /\ r = Widgets!Templates!Stored(w, w.active, template)
    BY DEF Widgets!Templates!ActiveUpdated
<1>4. template \in SavedTemplates
    <2> HIDE DEF active
    <2> QED BY <1>1, <1>2, <1>3 DEF SavedTemplates
<1> HIDE DEF template, active
<1> QED BY <1>1, <1>2, <1>3, <1>4, WidgetsStored

LEMMA WidgetsCommandsStore ==
    ASSUME NEW w, IsBase(w), NEW name \in Names, NEW r,
           r \in Widgets!Templates!Created(w, name)
                 \cup Widgets!Templates!ActiveRenamed(w, name)
                 \cup Widgets!Templates!ActiveDuplicated(w, name)
    PROVE  WidgetsStoredIn(r, w)
<1> DEFINE active == Widgets!Templates!ActiveTemplate(w)
<1>1. w.filter \in Queries /\ w.projection \in ValidProjections /\ Widgets!IsWindow(w)
    BY SameQueries, SameProjections DEF IsBase, Widgets!IsWindow
<1>2. active # NoTemplate =>
         w.active \in DOMAIN w.catalog /\ active \in SavedTemplates
    BY <1>1, WidgetsSavedParts DEF Widgets!Templates!ActiveTemplate, IsBase,
       Widgets!IsActiveListed
<1>3. \A identifier \in Widgets!Templates!FreshIdentifiers(w) : identifier \in DOMAIN w.catalog
    BY DEF Widgets!Templates!FreshIdentifiers
<1>4. CASE r \in Widgets!Templates!Created(w, name)
    <2> DEFINE template == [name |-> name, filter |-> w.filter,
                            projection |-> w.projection]
    <2>1. template \in SavedTemplates
        BY <1>1 DEF SavedTemplates
    <2>2. \E identifier \in DOMAIN w.catalog :
             r = Widgets!Templates!Stored(w, identifier, template)
        BY <1>3, <1>4 DEF Widgets!Templates!Created
    <2> HIDE DEF template
    <2> QED BY <1>1, <2>1, <2>2, WidgetsStored
<1>5. CASE r \in Widgets!Templates!ActiveRenamed(w, name)
    <2> DEFINE template == [active EXCEPT !.name = name]
    <2>1. active # NoTemplate /\ r = Widgets!Templates!Stored(w, w.active, template)
        BY <1>5 DEF Widgets!Templates!ActiveRenamed
    <2>2. template \in SavedTemplates
        <3> HIDE DEF active
        <3> QED BY <1>2, <2>1 DEF SavedTemplates
    <2> HIDE DEF template, active
    <2> QED BY <1>1, <1>2, <2>1, <2>2, WidgetsStored
<1>6. CASE r \in Widgets!Templates!ActiveDuplicated(w, name)
    <2> DEFINE template == [active EXCEPT !.name = name]
    <2>1. active # NoTemplate
          /\ \E identifier \in DOMAIN w.catalog :
                r = Widgets!Templates!Stored(w, identifier, template)
        BY <1>3, <1>6 DEF Widgets!Templates!ActiveDuplicated
    <2>2. template \in SavedTemplates
        <3> HIDE DEF active
        <3> QED BY <1>2, <2>1 DEF SavedTemplates
    <2> HIDE DEF template, active
    <2> QED BY <1>1, <2>1, <2>2, WidgetsStored
<1> QED BY <1>4, <1>5, <1>6

(* The command that removes the active template.                           *)
LEMMA WidgetsCommandRemoves ==
    ASSUME NEW w, IsBase(w), NEW r, r \in Widgets!Templates!ActiveRemoved(w)
    PROVE  IsBase(r) /\ Same(r, w, WidgetsFields \ TemplateFields)
<1> DEFINE removed == [w EXCEPT !.catalog[w.active] = NoTemplate]
           left == Widgets!Templates!SelectNoTemplate(removed)
<1>1. r = Widgets!Templates!RefreshTemplateModel(left)
    BY DEF Widgets!Templates!ActiveRemoved, Widgets!Templates!ActiveTemplate
<1>2. /\ Widgets!IsWindow(removed)
      /\ Same(removed, w, WidgetsFields \ {"catalog"})
    BY DEF IsBase, Widgets!IsWindow, Same, WidgetsFields
<1> HIDE DEF removed
<1>3. WidgetsChosen(left, removed)
    BY <1>2, WidgetsSelectNone
<1> HIDE DEF left
<1>4. Widgets!IsWindow(r) /\ Same(r, left, WidgetsFields \ {"shown"})
    BY <1>1, <1>3, WidgetsRefreshModel DEF WidgetsChosen, IsBase
<1>5. Same(r, left, BaseFields) /\ Same(r, w, WidgetsFields \ TemplateFields)
    BY <1>2, <1>3, <1>4 DEF WidgetsChosen, Same, WidgetsFields, BaseFields,
       ChosenFields, TemplateFields
<1> QED BY <1>3, <1>4, <1>5, BaseIsKept DEF WidgetsChosen

-----------------------------------------------------------------------------
(* The handlers of the controllers.                                        *)

NoneUnlessLoaded(w) ==
    w.document.state \in {"importing", "failed"} => ~ w.document.loaded

(* Consistent but for the panel, and for the template view model's query.  *)
IsShown(w) ==
    /\ IsBase(w)
    /\ Widgets!IsDocumentShown(w)
    /\ Widgets!IsFilterShown(w)
    /\ NoneUnlessLoaded(w)

ViewFields ==
    {"editors", "rows", "combination", "document", "timeline", "menu", "filterValid"}

LEMMA ConsistencyByParts ==
    ASSUME NEW w
    PROVE  Widgets!IsConsistent(w) <=>
              (/\ IsShown(w)
               /\ Widgets!IsPanelTrue(w)
               /\ w.filter = w.document.query)
BY DEF Widgets!IsConsistent, IsShown, IsBase, NoneUnlessLoaded

LEMMA ViewIsKept ==
    ASSUME NEW w, IsShown(w), NEW r, IsBase(r), Same(r, w, ViewFields)
    PROVE  IsShown(r)
<1>1. /\ r.editors = w.editors /\ r.rows = w.rows
      /\ r.combination = w.combination /\ r.document = w.document
      /\ r.timeline = w.timeline /\ r.menu = w.menu
      /\ r.filterValid = w.filterValid
    BY DEF Same, ViewFields
<1> QED BY <1>1 DEF IsShown, NoneUnlessLoaded, Widgets!IsDocumentShown,
           Widgets!IsFilterShown, Widgets!Query

(* What the controllers' workers and questions are told apart by.          *)
SameWork(r, w) == r.busy = w.busy /\ SameDocument(r, w)

Kept(r, w) == Widgets!IsConsistent(r) /\ SameWork(r, w)

LEMMA PanelIsRefreshed ==
    ASSUME NEW w, IsShown(w), w.filter = w.document.query
    PROVE  LET r == Widgets!RefreshTemplateState(w)
           IN  Kept(r, w) /\ r.projection = w.projection
<1> DEFINE r == Widgets!RefreshTemplateState(w)
<1>1. /\ Widgets!IsWindow(r) /\ Same(r, w, WidgetsFields \ {"panel"})
      /\ Widgets!IsPanelTrue(r)
    BY WidgetsRefreshPanel DEF IsShown, IsBase
<1> HIDE DEF r
<1>2. /\ Same(r, w, BaseFields) /\ Same(r, w, ViewFields)
      /\ r.busy = w.busy /\ r.document = w.document /\ r.filter = w.filter
      /\ r.projection = w.projection
    BY <1>1 DEF Same, WidgetsFields, BaseFields, ViewFields
<1>3. IsBase(r)
    BY <1>1, <1>2, BaseIsKept DEF IsShown
<1>4. IsShown(r)
    BY <1>2, <1>3, ViewIsKept
<1>5. Widgets!IsConsistent(r)
    BY <1>1, <1>2, <1>4, ConsistencyByParts
<1>6. SameWork(r, w)
    BY <1>2 DEF SameWork, SameDocument, Same
<1> QED BY <1>2, <1>5, <1>6 DEF Kept, r

(* A query is applied to rows and document, and the panel written.         *)
LEMMA QueryIsApplied ==
    ASSUME NEW w, IsShown(w)
    PROVE  Kept(Widgets!RefreshTemplateState(Widgets!SetFilterQuery(w, w.filter)), w)
<1> DEFINE query == w.filter
           filtered == Widgets!SetFilterQuery(w, query)
           r == Widgets!RefreshTemplateState(filtered)
<1>1. query \in Queries
    BY SameQueries DEF IsShown, IsBase, Widgets!IsWindow
<1>2. RowsShown(filtered, w, query)
    BY <1>1, WidgetsSetFilterQuery DEF IsShown
<1> HIDE DEF filtered
<1>3. filtered.filter = filtered.document.query
    BY <1>2 DEF RowsShown
<1>4. SameDocument(filtered, w) /\ filtered.busy = w.busy
    BY <1>2 DEF RowsShown, Same, WidgetsFields, EditedWindowFields, ToldFields
<1>5. IsShown(filtered)
    BY <1>2, <1>4 DEF RowsShown, IsShown, NoneUnlessLoaded, SameDocument, Same
<1>6. Kept(r, filtered)
    BY <1>3, <1>5, PanelIsRefreshed
<1> HIDE DEF r
<1>7. Kept(r, w)
    BY <1>4, <1>6 DEF Kept, SameWork, SameDocument, Same
<1> QED BY <1>7 DEF r, filtered

(* A template is chosen, or the defaults.                                  *)
LEMMA ChosenIsShown ==
    ASSUME NEW w, IsShown(w), NEW r, IsBase(r), Same(r, w, WidgetsFields \ TemplateFields)
    PROVE  IsShown(r) /\ SameWork(r, w)
<1>1. Same(r, w, ViewFields) /\ r.busy = w.busy /\ r.document = w.document
    BY DEF Same, WidgetsFields, TemplateFields, ViewFields
<1> QED BY <1>1, ViewIsKept DEF SameWork, SameDocument, Same

LEMMA TemplateIsApplied ==
    ASSUME NEW w, IsShown(w), NEW applied,
           IsBase(applied), Same(applied, w, WidgetsFields \ TemplateFields)
    PROVE  Kept(Widgets!RefreshTemplateState(
                   Widgets!SetFilterQuery(applied, applied.filter)), w)
<1> DEFINE r == Widgets!RefreshTemplateState(
                   Widgets!SetFilterQuery(applied, applied.filter))
<1>1. IsShown(applied) /\ SameWork(applied, w)
    BY ChosenIsShown
<1>2. Kept(r, applied)
    BY <1>1, QueryIsApplied
<1> HIDE DEF r
<1>3. Kept(r, w)
    BY <1>1, <1>2 DEF Kept, SameWork, SameDocument, Same
<1> QED BY <1>3 DEF r

LEMMA ChosenIsApart ==
    ASSUME NEW w, NEW r, WidgetsChosen(r, w)
    PROVE  IsBase(r) /\ Same(r, w, WidgetsFields \ TemplateFields)
BY DEF WidgetsChosen, Same, ChosenFields

(* The user chooses a template.                                            *)
LEMMA WidgetsTemplateApplied ==
    ASSUME NEW w, Widgets!IsConsistent(w),
           NEW identifier \in DOMAIN w.catalog \cup {NoTemplate}
    PROVE  Kept(Widgets!applyTemplate(w, identifier), w)
<1> DEFINE applied == IF identifier = NoTemplate
                      THEN Widgets!Templates!SelectNoTemplate(w)
                      ELSE Widgets!Templates!SelectTemplate(w, identifier)
<1>1. IsShown(w) /\ Widgets!IsWindow(w)
    BY ConsistencyByParts DEF IsShown, IsBase
<1>2. WidgetsChosen(applied, w)
    <2>1. CASE identifier = NoTemplate
        BY <1>1, <2>1, WidgetsSelectNone
    <2>2. CASE identifier # NoTemplate
        <3>1. identifier \in DOMAIN w.catalog
            BY <2>2
        <3> QED BY <1>1, <2>2, <3>1, WidgetsSelect
    <2> QED BY <2>1, <2>2
<1>3. Widgets!applyTemplate(w, identifier) =
         Widgets!RefreshTemplateState(Widgets!SetFilterQuery(applied, applied.filter))
    BY DEF Widgets!applyTemplate
<1> HIDE DEF applied
<1> QED BY <1>1, <1>2, <1>3, ChosenIsApart, TemplateIsApplied

(* The commands on templates.                                              *)
LEMMA WidgetsStoredIsShown ==
    ASSUME NEW w, Widgets!IsConsistent(w), NEW result, WidgetsStoredIn(result, w)
    PROVE  Kept(Widgets!RefreshTemplateState(result), w)
<1> DEFINE r == Widgets!RefreshTemplateState(result)
<1>1. IsShown(w) /\ w.filter = w.document.query
    BY ConsistencyByParts
<1>2. /\ IsBase(result) /\ Same(result, w, WidgetsFields \ TemplateFields)
      /\ result.filter = w.filter /\ result.document = w.document
    BY DEF WidgetsStoredIn, Same, WidgetsFields, TemplateFields
<1>3. IsShown(result) /\ SameWork(result, w)
    BY <1>1, <1>2, ChosenIsShown
<1>4. Kept(r, result)
    BY <1>1, <1>2, <1>3, PanelIsRefreshed
<1> HIDE DEF r
<1>5. Kept(r, w)
    BY <1>3, <1>4 DEF Kept, SameWork, SameDocument, Same
<1> QED BY <1>5 DEF r

LEMMA WidgetsRemovedIsShown ==
    ASSUME NEW w, Widgets!IsConsistent(w), NEW result,
           result \in {Widgets!SetFilterQuery(removed, removed.filter) :
                          removed \in Widgets!Templates!ActiveRemoved(w)}
    PROVE  Kept(Widgets!RefreshTemplateState(result), w)
<1>1. PICK removed \in Widgets!Templates!ActiveRemoved(w) :
         result = Widgets!SetFilterQuery(removed, removed.filter)
    OBVIOUS
<1>2. IsShown(w) /\ IsBase(w)
    BY ConsistencyByParts DEF IsShown
<1>3. IsBase(removed) /\ Same(removed, w, WidgetsFields \ TemplateFields)
    BY <1>2, WidgetsCommandRemoves
<1>4. Kept(Widgets!RefreshTemplateState(Widgets!SetFilterQuery(removed, removed.filter)), w)
    BY <1>2, <1>3, TemplateIsApplied
<1> QED BY <1>1, <1>4

(* The user edits the filter.                                              *)
LEMMA WidgetsFilterEdited ==
    ASSUME NEW w, Widgets!IsConsistent(w), NEW rows \in Seq(Rows),
           NEW combination \in {"all", "any"}
    PROVE  Kept(Widgets!Edited(w, rows, combination), w)
<1> DEFINE r == Widgets!Edited(w, rows, combination)
           query == QueryOf(rows, combination)
<1>1. IsShown(w) /\ w.filter = w.document.query /\ Widgets!IsPanelTrue(w)
    BY ConsistencyByParts
<1>2. RowsShown(r, w, query)
    BY <1>1, WidgetsEdited DEF IsShown
<1> HIDE DEF r
<1>3. r.filter = r.document.query /\ Widgets!IsPanelTrue(r)
    BY <1>1, <1>2 DEF RowsShown
<1>4. SameDocument(r, w) /\ r.busy = w.busy
    BY <1>2 DEF RowsShown, Same, WidgetsFields, EditedWindowFields, ToldFields
<1>5. IsShown(r)
    BY <1>1, <1>2, <1>4 DEF RowsShown, IsShown, NoneUnlessLoaded, SameDocument, Same
<1>6. Kept(r, w)
    BY <1>3, <1>4, <1>5, ConsistencyByParts DEF Kept, SameWork
<1> QED BY <1>6 DEF r

(* The columns go to the template view model.                              *)
LEMMA WidgetsColumnsSet ==
    ASSUME NEW w, Widgets!IsConsistent(w), NEW projection \in ValidProjections
    PROVE  LET r == Widgets!SetEventProjection(w, projection)
           IN  Kept(r, w) /\ r.projection = projection
<1> DEFINE taken == [w EXCEPT !.projection = projection]
           set == Widgets!Templates!SetEventProjection(w, projection)
           r == Widgets!RefreshTemplateState(set)
<1>1. IsShown(w) /\ IsBase(w) /\ w.filter = w.document.query
    BY ConsistencyByParts DEF IsShown
<1>2. /\ IsBase(set) /\ Same(set, w, WidgetsFields \ ({"projection"} \cup ListFields))
      /\ set.projection = projection
    <2>1. Widgets!Templates!IsValidProjection(projection)
        BY DEF Widgets!Templates!IsValidProjection, ValidProjections, IsValidProjection
    <2>2. CASE w.projection = projection
        BY <1>1, <2>2 DEF Widgets!Templates!SetEventProjection, Same
    <2>3. CASE w.projection # projection
        <3>1. set = Widgets!Templates!RefreshModified(taken)
            BY <2>1, <2>3 DEF Widgets!Templates!SetEventProjection, Widgets!Ignored
        <3>2. /\ Widgets!IsWindow(taken) /\ taken.projection = projection
              /\ Same(taken, w, WidgetsFields \ {"projection"})
            BY <1>1, SameProjections DEF IsBase, Widgets!IsWindow, Same, WidgetsFields
        <3> HIDE DEF taken, set
        <3>3. Widgets!IsActiveListed(taken)
            BY <1>1, <3>2 DEF IsBase, Widgets!IsActiveListed, Same, WidgetsFields
        <3>4. /\ Widgets!IsWindow(set) /\ Same(set, taken, WidgetsFields \ ListFields)
              /\ Widgets!IsActiveListed(set) /\ Widgets!IsModifiedTrue(set)
            BY <3>1, <3>2, <3>3, WidgetsRefreshModified
        <3>5. Same(set, w, WidgetsFields \ ({"projection"} \cup ListFields))
              /\ set.projection = projection
            BY <3>2, <3>4 DEF Same, WidgetsFields, ListFields
        <3> QED BY <3>4, <3>5 DEF IsBase
    <2> QED BY <2>2, <2>3
<1>3. r = Widgets!SetEventProjection(w, projection)
    BY DEF Widgets!SetEventProjection
<1> HIDE DEF set
<1>4. /\ Same(set, w, WidgetsFields \ TemplateFields)
      /\ set.filter = w.filter /\ set.document = w.document
    BY <1>2 DEF Same, WidgetsFields, TemplateFields, ListFields
<1>5. IsShown(set) /\ SameWork(set, w)
    BY <1>1, <1>2, <1>4, ChosenIsShown
<1>6. Kept(r, set) /\ r.projection = projection
    BY <1>1, <1>2, <1>4, <1>5, PanelIsRefreshed
<1> HIDE DEF r
<1>7. Kept(r, w)
    BY <1>5, <1>6 DEF Kept, SameWork, SameDocument, Same
<1> QED BY <1>3, <1>6, <1>7

(* All that the copies which agree are made of.                            *)
ConsistentFields == BaseFields \cup ViewFields \cup {"panel"}

LEMMA ConsistencyIsKept ==
    ASSUME NEW w, Widgets!IsConsistent(w), NEW r, Widgets!IsWindow(r),
           Same(r, w, ConsistentFields)
    PROVE  Widgets!IsConsistent(r)
<1>1. IsShown(w) /\ IsBase(w) /\ Widgets!IsPanelTrue(w) /\ w.filter = w.document.query
    BY ConsistencyByParts DEF IsShown
<1>2. /\ Same(r, w, BaseFields) /\ Same(r, w, ViewFields) /\ Same(r, w, PanelFields)
      /\ r.filter = w.filter /\ r.document = w.document
    BY DEF Same, ConsistentFields, BaseFields, ViewFields, PanelFields
<1>3. IsBase(r)
    BY <1>1, <1>2, BaseIsKept
<1>4. IsShown(r) /\ Widgets!IsPanelTrue(r)
    BY <1>1, <1>2, <1>3, ViewIsKept, PanelIsKept
<1> QED BY <1>1, <1>2, <1>4, ConsistencyByParts

LEMMA WidgetsBusySet ==
    ASSUME NEW w, Widgets!IsConsistent(w), NEW busy
    PROVE  LET r == Widgets!SetBusy(w, busy)
           IN  /\ Widgets!IsConsistent(r) /\ r.busy = busy
               /\ Same(r, w, WidgetsFields \ {"busy"})
<1> DEFINE r == [w EXCEPT !.busy = busy]
<1>1. Widgets!IsWindow(w)
    BY DEF Widgets!IsConsistent
<1>2. /\ Widgets!IsWindow(r) /\ r.busy = busy
      /\ Same(r, w, WidgetsFields \ {"busy"})
    BY <1>1 DEF Widgets!IsWindow, Same, WidgetsFields
<1>3. r = Widgets!SetBusy(w, busy)
    BY DEF Widgets!SetBusy
<1> HIDE DEF r
<1>4. Same(r, w, ConsistentFields)
    BY <1>2 DEF Same, WidgetsFields, ConsistentFields, BaseFields, ViewFields
<1> QED BY <1>2, <1>3, <1>4, ConsistencyIsKept

(* The filter's error is written again in another language.                *)
LEMMA WidgetsLanguageSet ==
    ASSUME NEW w, Widgets!IsConsistent(w)
    PROVE  LET r == Widgets!HandleFilterChanged(w)
           IN  Kept(r, w) /\ r.projection = w.projection
<1> DEFINE r == Widgets!HandleFilterChanged(w)
<1>1. IsShown(w) /\ IsBase(w) /\ w.filter = w.document.query
    BY ConsistencyByParts DEF IsShown
<1>2. Told(r, w)
    BY <1>1, WidgetsFilterChanged DEF IsBase
<1> HIDE DEF r
<1>3. /\ r.document = w.document /\ r.timeline = w.timeline /\ r.busy = w.busy
      /\ r.editors = w.editors /\ r.rows = w.rows
      /\ r.combination = w.combination /\ r.projection = w.projection
    BY <1>2 DEF Told, Same, WidgetsFields, ToldFields
<1>4. Widgets!IsDocumentShown(r)
    <2>1. w.menu = [document |-> w.document.loaded, export |-> ~ w.document.error]
          /\ w.timeline = w.document.loaded
        BY <1>1 DEF IsShown, Widgets!IsDocumentShown
    <2>2. r.menu = [w.menu EXCEPT !.export = ~ w.document.error]
          /\ r.filterValid = ~ w.document.error
        BY <1>2 DEF Told
    <2>3. r.menu = [document |-> w.document.loaded, export |-> ~ w.document.error]
        BY <2>1, <2>2
    <2> QED BY <1>3, <2>1, <2>2, <2>3 DEF Widgets!IsDocumentShown
<1>5. Widgets!IsFilterShown(r) /\ NoneUnlessLoaded(r)
    BY <1>1, <1>3 DEF IsShown, Widgets!IsFilterShown, Widgets!Query, NoneUnlessLoaded
<1>6. IsShown(r) /\ Widgets!IsPanelTrue(r) /\ r.filter = r.document.query
    BY <1>2, <1>3, <1>4, <1>5 DEF IsShown, IsBase, Told, Widgets!IsFilterShown
<1>7. Kept(r, w)
    BY <1>3, <1>6, ConsistencyByParts DEF Kept, SameWork, SameDocument, Same
<1> QED BY <1>3, <1>7 DEF r

(* The document takes the template view model's columns.                   *)
LEMMA WidgetsColumnsTaken ==
    ASSUME NEW w, Widgets!IsConsistent(w)
    PROVE  LET r == Widgets!Document!SetEventProjection(w, w.projection)
           IN  /\ Widgets!IsConsistent(r) /\ r.busy = w.busy
               /\ r.document.state = w.document.state
               /\ r.document.projection = r.projection
<1> DEFINE projection == w.projection
           r == [w EXCEPT !.document.projection = projection]
<1>1. IsShown(w) /\ IsBase(w) /\ Widgets!IsWindow(w) /\ Widgets!IsPanelTrue(w)
      /\ w.filter = w.document.query
    BY ConsistencyByParts DEF IsShown, IsBase
<1>2. projection \in ValidProjections
    BY <1>1, SameProjections DEF Widgets!IsWindow
<1>3. r = Widgets!Document!SetEventProjection(w, w.projection)
    BY <1>2 DEF Widgets!Document!SetEventProjection,
       Widgets!Document!IsValidProjection, ValidProjections, IsValidProjection
<1>4. /\ Widgets!IsWindow(r) /\ Same(r, w, WidgetsFields \ {"document"})
      /\ Same(r.document, w.document, DocumentFields \ {"projection"})
      /\ r.document.projection = projection
    BY <1>1 DEF Widgets!IsWindow, Same, WidgetsFields, DocumentFields
<1> HIDE DEF r
<1>5. /\ Same(r, w, BaseFields) /\ Same(r, w, PanelFields)
      /\ r.busy = w.busy /\ r.projection = w.projection
      /\ r.editors = w.editors /\ r.rows = w.rows
      /\ r.combination = w.combination /\ r.timeline = w.timeline
      /\ r.menu = w.menu /\ r.filterValid = w.filterValid /\ r.filter = w.filter
    BY <1>4 DEF Same, WidgetsFields, BaseFields, PanelFields
<1>6. /\ r.document.query = w.document.query /\ r.document.error = w.document.error
      /\ r.document.loaded = w.document.loaded /\ r.document.state = w.document.state
    BY <1>4 DEF Same, DocumentFields
<1>7. IsBase(r) /\ Widgets!IsPanelTrue(r)
    BY <1>1, <1>4, <1>5, BaseIsKept, PanelIsKept
<1>8. IsShown(r)
    BY <1>1, <1>5, <1>6, <1>7 DEF IsShown, Widgets!IsDocumentShown,
       Widgets!IsFilterShown, Widgets!Query, NoneUnlessLoaded
<1> QED BY <1>1, <1>3, <1>4, <1>5, <1>6, <1>7, <1>8, ConsistencyByParts

-----------------------------------------------------------------------------
(* The imports.                                                            *)

LEMMA EmptyRows ==
    /\ <<DefaultRow>> \in Seq(Rows)
    /\ QueryOf(<<DefaultRow>>, "all") = NoFilter
<1>1. RowsOf(NoFilter) = <<DefaultRow>> /\ NoFilter.combination = "all"
    BY DEF RowsOf, NoFilter
<1> QED BY <1>1, EmptyFilterIsAQuery, QueryRoundTrip

(* The document is reset, and all who listen hear of it.                   *)
LEMMA WidgetsDocumentReset ==
    ASSUME NEW w, Widgets!IsConsistent(w)
    PROVE  LET r == Widgets!Document!Import(w)
           IN  /\ IsBase(r)
               /\ Same(r, w, {"editors", "rows", "combination"})
               /\ r.filter = NoFilter
               /\ r.document.state = "importing" /\ ~ r.document.loaded
               /\ r.document.query = NoFilter /\ ~ r.document.error
<1> DEFINE reset == [w EXCEPT !.document.loaded = FALSE,
                              !.document.query = NoFilter,
                              !.document.error = FALSE]
           told == Widgets!HandleFilterChanged(reset)
           r == [told EXCEPT !.document.state = "importing"]
<1>1. IsBase(w) /\ Widgets!IsWindow(w)
    BY ConsistencyByParts DEF IsShown, IsBase
<1>2. r = Widgets!Document!Import(w)
    <2>1. Widgets!Document!NoFilter = NoFilter
        BY DEF Widgets!Document!NoFilter, NoFilter
    <2> QED BY <2>1 DEF Widgets!Document!Import, Widgets!Document!ResetDocument
<1>3. /\ Widgets!IsWindow(reset) /\ Same(reset, w, WidgetsFields \ {"document"})
      /\ ~ reset.document.loaded /\ ~ reset.document.error
      /\ reset.document.query = NoFilter
    BY <1>1, SameQueries, EmptyFilterIsAQuery DEF Widgets!IsWindow, Same, WidgetsFields
<1> HIDE DEF reset
<1>4. IsBase(reset)
    <2>1. Same(reset, w, BaseFields)
        BY <1>3 DEF Same, WidgetsFields, BaseFields
    <2> QED BY <1>1, <1>3, <2>1, BaseIsKept
<1>5. Told(told, reset)
    BY <1>4, WidgetsFilterChanged DEF IsBase
<1> HIDE DEF told
<1>6. /\ told.document = reset.document
      /\ Same(told, w, {"editors", "rows", "combination"})
      /\ told.filter = NoFilter /\ IsBase(told) /\ Widgets!IsWindow(told)
    BY <1>3, <1>5 DEF Told, Same, WidgetsFields, ToldFields, IsBase
<1>7. /\ Widgets!IsWindow(r) /\ Same(r, told, WidgetsFields \ {"document"})
      /\ r.document.state = "importing"
      /\ Same(r.document, told.document, DocumentFields \ {"state"})
    BY <1>6 DEF Widgets!IsWindow, Same, WidgetsFields, DocumentFields
<1> HIDE DEF r
<1>8. IsBase(r)
    <2>1. Same(r, told, BaseFields)
        BY <1>7 DEF Same, WidgetsFields, BaseFields
    <2> QED BY <1>6, <1>7, <2>1, BaseIsKept
<1>9. Same(r, w, {"editors", "rows", "combination"}) /\ r.filter = NoFilter
    BY <1>6, <1>7 DEF Same, WidgetsFields
<1>10. /\ ~ r.document.loaded /\ ~ r.document.error /\ r.document.query = NoFilter
    BY <1>3, <1>6, <1>7 DEF Same, DocumentFields
<1> QED BY <1>2, <1>7, <1>8, <1>9, <1>10

LEMMA WidgetsViewCleared ==
    ASSUME NEW w, IsBase(w), w.editors = w.rows,
           w.document.state = "importing", ~ w.document.loaded,
           w.document.query = NoFilter, ~ w.document.error
    PROVE  LET r == Widgets!ClearView([w EXCEPT !.menu = [document |-> FALSE,
                                                          export |-> TRUE]])
           IN  IsShown(r) /\ r.document = w.document
<1> DEFINE menu == [document |-> FALSE, export |-> TRUE]
           first == [w EXCEPT !.menu = menu]
           edited == Widgets!EditRows(first, <<DefaultRow>>, "all")
           r == [edited EXCEPT !.timeline = FALSE, !.filterValid = TRUE,
                               !.page = "empty"]
<1>1. r = Widgets!ClearView(first)
    BY SameRows DEF Widgets!ClearView
<1>2. /\ Widgets!IsWindow(first) /\ Same(first, w, WidgetsFields \ {"menu"})
      /\ first.menu = menu
    BY DEF IsBase, Widgets!IsWindow, Same, WidgetsFields
<1> HIDE DEF first
<1>3. first.editors = first.rows
    BY <1>2 DEF Same, WidgetsFields
<1>4. /\ Widgets!IsWindow(edited)
      /\ Same(edited, first, WidgetsFields \ {"rows", "combination", "editors"})
      /\ edited.editors = <<DefaultRow>> /\ edited.rows = <<DefaultRow>>
      /\ edited.combination = "all"
    BY <1>2, <1>3, EmptyRows, EditorsFollow
<1> HIDE DEF edited
<1>5. /\ Widgets!IsWindow(r)
      /\ Same(r, edited, WidgetsFields \ {"timeline", "filterValid", "page"})
      /\ ~ r.timeline /\ r.filterValid
      /\ r.timeline = FALSE /\ r.filterValid = TRUE
    BY <1>4 DEF Widgets!IsWindow, Same, WidgetsFields
<1> HIDE DEF r
<1>6. /\ Same(r, w, BaseFields)
      /\ r.document = w.document /\ r.menu = menu
      /\ r.editors = <<DefaultRow>> /\ r.rows = <<DefaultRow>>
      /\ r.combination = "all"
    BY <1>2, <1>4, <1>5 DEF Same, WidgetsFields, BaseFields
<1>7. IsBase(r)
    BY <1>5, <1>6, BaseIsKept
<1>8. Widgets!IsFilterShown(r)
    BY <1>6, SameQueries, EmptyRows DEF Widgets!IsFilterShown, Widgets!Query
<1>9. w.document.loaded = FALSE /\ w.document.error = FALSE
    BY DEF IsBase, Widgets!IsWindow
<1>10. Widgets!IsDocumentShown(r)
    BY <1>5, <1>6, <1>9 DEF Widgets!IsDocumentShown, menu
<1> QED BY <1>1, <1>6, <1>7, <1>8, <1>10 DEF IsShown, NoneUnlessLoaded, first

(* An import begins.                                                       *)
LEMMA WidgetsImportStarts ==
    ASSUME NEW w, Widgets!IsConsistent(w), NEW rate
    PROVE  LET r == Widgets!StartImport(w, rate)
           IN  /\ Widgets!IsConsistent(r) /\ r.busy = TRUE
               /\ r.document.state = "importing"
<1> DEFINE reset == Widgets!Document!Import(w)
           asked == [reset EXCEPT !.requested = rate]
           cleared == Widgets!ClearView([asked EXCEPT !.menu =
                         [document |-> FALSE, export |-> TRUE]])
           restored == Widgets!Templates!RestoreForTimeline(cleared)
           shown == Widgets!RefreshTemplateState(
                       Widgets!SetFilterQuery(restored, restored.filter))
           busy == Widgets!SetBusy(shown, TRUE)
           r == [busy EXCEPT !.page = "loading"]
<1>1. r = Widgets!StartImport(w, rate)
    BY DEF Widgets!StartImport, Widgets!ClearTimeline, Widgets!RestoreForTimeline
<1>2. /\ IsBase(reset) /\ Same(reset, w, {"editors", "rows", "combination"})
      /\ reset.document.state = "importing" /\ ~ reset.document.loaded
      /\ reset.document.query = NoFilter /\ ~ reset.document.error
    BY WidgetsDocumentReset
<1> HIDE DEF reset
<1>3. /\ Widgets!IsWindow(asked) /\ Same(asked, reset, WidgetsFields \ {"requested"})
    BY <1>2 DEF IsBase, Widgets!IsWindow, Same, WidgetsFields
<1> HIDE DEF asked
<1>4. Same(asked, reset, BaseFields) /\ asked.document = reset.document
      /\ asked.editors = asked.rows
    <2>1. w.editors = w.rows
        BY DEF Widgets!IsConsistent, Widgets!IsFilterShown
    <2> QED BY <1>2, <1>3, <2>1 DEF Same, WidgetsFields, BaseFields
<1>5. IsBase(asked)
    BY <1>2, <1>3, <1>4, BaseIsKept
<1>6. IsShown(cleared) /\ cleared.document = asked.document
    BY <1>2, <1>4, <1>5, WidgetsViewCleared
<1> HIDE DEF cleared
<1>7. WidgetsChosen(restored, cleared)
    BY <1>6, WidgetsRestore DEF IsShown, IsBase
<1> HIDE DEF restored
<1>8. Kept(shown, cleared)
    BY <1>6, <1>7, ChosenIsApart, TemplateIsApplied
<1> HIDE DEF shown
<1>9. Widgets!IsConsistent(shown) /\ shown.document.state = "importing"
    BY <1>2, <1>4, <1>6, <1>8 DEF Kept, SameWork, SameDocument, Same
<1>10. /\ Widgets!IsConsistent(busy) /\ busy.busy = TRUE
       /\ Same(busy, shown, WidgetsFields \ {"busy"})
    BY <1>9, WidgetsBusySet
<1> HIDE DEF busy
<1>11. Widgets!IsWindow(busy) /\ busy.document.state = "importing"
    BY <1>9, <1>10 DEF Widgets!IsConsistent, Same, WidgetsFields
<1>12. /\ Widgets!IsWindow(r) /\ Same(r, busy, WidgetsFields \ {"page"})
    BY <1>11 DEF Widgets!IsWindow, Same, WidgetsFields
<1> HIDE DEF r
<1>13. Same(r, busy, ConsistentFields) /\ r.busy = TRUE
       /\ r.document.state = "importing"
    BY <1>10, <1>11, <1>12 DEF Same, WidgetsFields, ConsistentFields, BaseFields, ViewFields
<1> QED BY <1>1, <1>10, <1>12, <1>13, ConsistencyIsKept

(* An import ends without a document.                                      *)
LEMMA WidgetsImportFails ==
    ASSUME NEW w, Widgets!IsConsistent(w), ~ w.document.loaded
    PROVE  LET r == Widgets!Document!NotImported(w)
           IN  /\ Widgets!IsConsistent(r) /\ ~ r.document.loaded
               /\ r.document.state = "failed"
<1> DEFINE r == [w EXCEPT !.document.state = "failed"]
<1>1. IsShown(w) /\ IsBase(w) /\ Widgets!IsWindow(w) /\ Widgets!IsPanelTrue(w)
      /\ w.filter = w.document.query
    BY ConsistencyByParts DEF IsShown, IsBase
<1>2. r = Widgets!Document!NotImported(w)
    BY DEF Widgets!Document!NotImported
<1>3. /\ Widgets!IsWindow(r) /\ Same(r, w, WidgetsFields \ {"document"})
      /\ Same(r.document, w.document, DocumentFields \ {"state"})
      /\ r.document.state = "failed"
    BY <1>1 DEF Widgets!IsWindow, Same, WidgetsFields, DocumentFields
<1> HIDE DEF r
<1>4. /\ Same(r, w, BaseFields) /\ Same(r, w, PanelFields)
      /\ r.editors = w.editors /\ r.rows = w.rows
      /\ r.combination = w.combination /\ r.timeline = w.timeline
      /\ r.menu = w.menu /\ r.filterValid = w.filterValid /\ r.filter = w.filter
    BY <1>3 DEF Same, WidgetsFields, BaseFields, PanelFields
<1>5. /\ r.document.query = w.document.query /\ r.document.error = w.document.error
      /\ r.document.loaded = w.document.loaded
    BY <1>3 DEF Same, DocumentFields
<1>6. IsBase(r) /\ Widgets!IsPanelTrue(r)
    BY <1>1, <1>3, <1>4, BaseIsKept, PanelIsKept
<1>7. IsShown(r)
    BY <1>1, <1>4, <1>5, <1>6 DEF IsShown, Widgets!IsDocumentShown,
       Widgets!IsFilterShown, Widgets!Query, NoneUnlessLoaded
<1> QED BY <1>1, <1>2, <1>3, <1>4, <1>5, <1>6, <1>7, ConsistencyByParts

LEMMA WidgetsFailureShown ==
    ASSUME NEW w, Widgets!IsConsistent(w), ~ w.document.loaded
    PROVE  LET r == Widgets!ShowImportFailure(w)
           IN  Widgets!IsConsistent(r) /\ r.busy = w.busy /\ r.document = w.document
<1> DEFINE r == [w EXCEPT !.timeline = FALSE, !.page = "failure"]
<1>1. Widgets!IsWindow(w) /\ w.timeline = FALSE
    BY DEF Widgets!IsConsistent, Widgets!IsDocumentShown, Widgets!IsWindow
<1>2. r = Widgets!ShowImportFailure(w)
    BY DEF Widgets!ShowImportFailure
<1>3. /\ Widgets!IsWindow(r) /\ Same(r, w, WidgetsFields \ {"timeline", "page"})
      /\ r.timeline = FALSE
    BY <1>1 DEF Widgets!IsWindow, Same, WidgetsFields
<1> HIDE DEF r
<1>4. Same(r, w, ConsistentFields) /\ r.busy = w.busy /\ r.document = w.document
    BY <1>1, <1>3 DEF Same, WidgetsFields, ConsistentFields, BaseFields, ViewFields
<1> QED BY <1>2, <1>3, <1>4, ConsistencyIsKept

(* An import ends with a document: the filter is applied to it, then the   *)
(* page, the filter and the menu are those of a document that is ready.    *)
LEMMA WidgetsImportEnds ==
    ASSUME NEW w, Widgets!IsConsistent(w)
    PROVE  LET r == Widgets!DocumentReady(Widgets!Document!Imported(w))
           IN  /\ Widgets!IsConsistent(r) /\ r.busy = FALSE
               /\ r.document.state = "ready"
<1> DEFINE error == ~ Widgets!Document!Compiles(w.document.query)
           judged == [w EXCEPT !.document.loaded = TRUE, !.document.error = error]
           told == Widgets!HandleFilterChanged(judged)
           ready == [told EXCEPT !.document.state = "ready"]
           page == [ready EXCEPT !.busy = FALSE, !.timeline = TRUE,
                                 !.page = "timeline"]
           again == Widgets!HandleFilterChanged(page)
           r == [again EXCEPT !.menu.document = TRUE]
<1>1. /\ IsShown(w) /\ IsBase(w) /\ Widgets!IsWindow(w)
    BY ConsistencyByParts DEF IsShown, IsBase
<1>2. error \in BOOLEAN
    OBVIOUS
<1>3. r = Widgets!DocumentReady(Widgets!Document!Imported(w))
    <2> DEFINE loaded == [w EXCEPT !.document.loaded = TRUE]
    <2>1. loaded.document.loaded = TRUE /\ loaded.document.query = w.document.query
        BY <1>1 DEF Widgets!IsWindow
    <2>2. judged = [loaded EXCEPT !.document.error = error]
        <3> HIDE DEF error
        <3> QED BY <1>1 DEF Widgets!IsWindow
    <2>3. Widgets!Document!ApplyFilter(loaded) = told
        <3>1. (loaded.document.loaded
               /\ ~ Widgets!Document!Compiles(loaded.document.query)) = error
            BY <2>1
        <3> HIDE DEF loaded, judged, error
        <3> QED BY Zenon, <2>2, <3>1 DEF Widgets!Document!ApplyFilter
    <2>4. Widgets!Document!Imported(w) = ready
        <3> HIDE DEF told
        <3> QED BY <2>3 DEF Widgets!Document!Imported
    <2>5. Widgets!ShowTimeline(Widgets!SetBusy(ready, FALSE)) = page
        <3> HIDE DEF ready
        <3> QED BY DEF Widgets!ShowTimeline, Widgets!SetBusy
    <2> HIDE DEF ready, page
    <2> QED BY <2>4, <2>5 DEF Widgets!DocumentReady
<1> HIDE DEF error
<1>4. /\ Widgets!IsWindow(judged) /\ Same(judged, w, WidgetsFields \ {"document"})
      /\ judged.document.query = w.document.query
    BY <1>1, <1>2 DEF Widgets!IsWindow, Same, WidgetsFields
<1>4a. judged.document.loaded = TRUE /\ judged.document.error = error
    BY <1>1 DEF Widgets!IsWindow
<1> HIDE DEF judged
<1>5. IsBase(judged)
    <2>1. Same(judged, w, BaseFields)
        BY <1>4 DEF Same, WidgetsFields, BaseFields
    <2> QED BY <1>1, <1>4, <2>1, BaseIsKept
<1>6. Told(told, judged)
    BY <1>5, WidgetsFilterChanged DEF IsBase
<1> HIDE DEF told
<1>7. /\ IsBase(told) /\ Widgets!IsWindow(told) /\ told.document = judged.document
      /\ told.menu = [w.menu EXCEPT !.export = ~ error]
      /\ Same(told, w, {"editors", "rows", "combination"})
    BY <1>4, <1>4a, <1>6 DEF Told, IsBase, Same, WidgetsFields, ToldFields
<1>8. /\ Widgets!IsWindow(ready) /\ Same(ready, told, WidgetsFields \ {"document"})
      /\ ready.document.state = "ready"
      /\ Same(ready.document, told.document, DocumentFields \ {"state"})
    BY <1>7 DEF Widgets!IsWindow, Same, WidgetsFields, DocumentFields
<1> HIDE DEF ready
<1>9. /\ Widgets!IsWindow(page)
      /\ Same(page, ready, WidgetsFields \ {"busy", "timeline", "page"})
      /\ page.busy = FALSE /\ page.timeline = TRUE
    BY <1>8 DEF Widgets!IsWindow, Same, WidgetsFields
<1> HIDE DEF page
<1>10. IsBase(page)
    <2>1. Same(page, told, BaseFields)
        BY <1>8, <1>9 DEF Same, WidgetsFields, BaseFields
    <2> QED BY <1>7, <1>9, <2>1, BaseIsKept
<1>11. /\ page.document = ready.document /\ page.menu = told.menu
       /\ Same(page, w, {"editors", "rows", "combination"})
    BY <1>7, <1>8, <1>9 DEF Same, WidgetsFields
<1>12. Told(again, page)
    BY <1>10, WidgetsFilterChanged DEF IsBase
<1> HIDE DEF again
<1>13. /\ IsBase(again) /\ Widgets!IsPanelTrue(again) /\ Widgets!IsWindow(again)
       /\ again.document = page.document /\ again.timeline = TRUE
       /\ again.busy = FALSE /\ again.filter = page.document.query
       /\ again.filterValid = ~ page.document.error
       /\ again.menu = [page.menu EXCEPT !.export = ~ page.document.error]
       /\ Same(again, w, {"editors", "rows", "combination"})
    BY <1>9, <1>11, <1>12 DEF Told, IsBase, Same, WidgetsFields, ToldFields
<1>14. /\ Widgets!IsWindow(r) /\ Same(r, again, WidgetsFields \ {"menu"})
       /\ r.menu = [again.menu EXCEPT !.document = TRUE]
    BY <1>13 DEF Widgets!IsWindow, Same, WidgetsFields
<1> HIDE DEF r
<1>15. /\ r.document = page.document /\ r.timeline = TRUE /\ r.busy = FALSE
       /\ r.filter = again.filter /\ r.filterValid = again.filterValid
       /\ Same(r, w, {"editors", "rows", "combination"})
       /\ Same(r, again, BaseFields) /\ Same(r, again, PanelFields)
    BY <1>13, <1>14 DEF Same, WidgetsFields, BaseFields, PanelFields
<1>16. IsBase(r) /\ Widgets!IsPanelTrue(r)
    BY <1>13, <1>14, <1>15, BaseIsKept, PanelIsKept
<1>17. /\ page.document.loaded = TRUE /\ page.document.query = w.document.query
       /\ page.document.state = "ready"
    BY <1>4, <1>4a, <1>7, <1>8, <1>11 DEF Same, DocumentFields
<1>18. Widgets!IsDocumentShown(r)
    <2>1. w.menu = [document |-> w.document.loaded, export |-> ~ w.document.error]
        BY <1>1 DEF IsShown, Widgets!IsDocumentShown
    <2>2. r.menu = [document |-> TRUE, export |-> ~ page.document.error]
        <3>1. page.menu = [document |-> w.document.loaded, export |-> ~ error]
            BY <2>1, <1>7, <1>11
        <3> DEFINE valid == ~ page.document.error
        <3>2. again.menu = [page.menu EXCEPT !.export = valid]
            BY <1>13
        <3> HIDE DEF valid
        <3>3. again.menu = [document |-> w.document.loaded, export |-> valid]
            BY <3>1, <3>2
        <3>4. r.menu = [document |-> TRUE, export |-> valid]
            <4>1. ASSUME NEW loaded, NEW right, NEW written
                  PROVE  [[document |-> loaded, export |-> right]
                             EXCEPT !.document = written]
                         = [document |-> written, export |-> right]
                OBVIOUS
            <4>2. r.menu = [[document |-> w.document.loaded, export |-> valid]
                               EXCEPT !.document = TRUE]
                BY <3>3, <1>14
            <4> QED BY Zenon, <4>1, <4>2
        <3> QED BY <3>4 DEF valid
    <2> QED BY <1>13, <1>15, <1>17, <2>2 DEF Widgets!IsDocumentShown
<1>19. Widgets!IsFilterShown(r)
    <2>1. w.editors = w.rows /\ Widgets!Query(w) = w.document.query
        BY <1>1 DEF IsShown, Widgets!IsFilterShown
    <2>2. r.editors = w.editors /\ r.rows = w.rows /\ r.combination = w.combination
        BY <1>15 DEF Same
    <2> QED BY <1>15, <1>17, <2>1, <2>2 DEF Widgets!IsFilterShown, Widgets!Query
<1>20. IsShown(r) /\ r.filter = r.document.query
    BY <1>13, <1>15, <1>16, <1>17, <1>18, <1>19 DEF IsShown, NoneUnlessLoaded
<1> QED BY <1>3, <1>15, <1>16, <1>17, <1>20, ConsistencyByParts

-----------------------------------------------------------------------------
(* The steps.                                                              *)

widgetsVars == <<window, dialog, export, bundle, file, commands>>

(* A step that leaves the workers, the document's state and columns, and   *)
(* the questions alone.                                                    *)
LEMMA WidgetsKept ==
    ASSUME Widgets!IInv, Kept(window', window),
           window'.projection = window.projection
              \/ (~ export.runs /\ dialog = Widgets!NoDialog),
           UNCHANGED <<dialog, export, bundle>>
    PROVE  Widgets!IInv'
<1>1. /\ window'.busy = window.busy
      /\ window'.document.state = window.document.state
      /\ window'.document.projection = window.document.projection
    BY DEF Kept, SameWork, SameDocument, Same
<1>2. Widgets!OneWorker'
    BY <1>1 DEF Widgets!IInv, Widgets!OneWorker
<1>3. Widgets!QuestionsWait'
    BY <1>1 DEF Widgets!IInv, Widgets!QuestionsWait, Widgets!NoDialog
<1> QED BY <1>2, <1>3 DEF Widgets!IInv, Kept

(* The filter is enabled only while no worker runs.                        *)
LEMMA WidgetsEnabled ==
    ASSUME Widgets!IInv, ~ window.busy
    PROVE  ~ export.runs /\ ~ bundle /\ window.document.state # "importing"
BY DEF Widgets!IInv, Widgets!OneWorker

LEMMA WidgetsEditFilterStep ==
    ASSUME Widgets!IInv, Widgets!EditFilter
    PROVE  Widgets!IInv'
<1>1. Widgets!IsConsistent(window) /\ Widgets!IsWindow(window)
    BY DEF Widgets!IInv, Widgets!IsConsistent
<1>2. window.rows \in Seq(Rows) /\ window.combination \in {"all", "any"}
    BY <1>1, SameRows DEF Widgets!IsWindow
<1>3. PICK rows \in Seq(Rows), combination \in {"all", "any"} :
         window' = Widgets!Edited(window, rows, combination)
    <2>1. CASE \E row \in DOMAIN window.rows :
                  \E value \in Widgets!SetData(window.rows[row]) :
                     window' = Widgets!Edited(window,
                                  [window.rows EXCEPT ![row] = value],
                                  window.combination)
        <3>0. PICK row \in DOMAIN window.rows :
                 \E value \in Widgets!SetData(window.rows[row]) :
                    window' = Widgets!Edited(window,
                                 [window.rows EXCEPT ![row] = value],
                                 window.combination)
            BY <2>1
        <3>1. PICK value \in Widgets!SetData(window.rows[row]) :
                 window' = Widgets!Edited(window, [window.rows EXCEPT ![row] = value],
                                          window.combination)
            BY <3>0
        <3>2. window.rows[row] \in Rows
            BY <1>2
        <3>3. value \in Rows
            BY <3>2, SameRows, SetDataMakesRows
        <3>4. [window.rows EXCEPT ![row] = value] \in Seq(Rows)
            BY <1>2, <3>3
        <3> QED BY <1>2, <3>1, <3>4
    <2>2. CASE window' = Widgets!Edited(window,
                            Append(window.rows, Widgets!DefaultRow),
                            window.combination)
        <3>1. Append(window.rows, DefaultRow) \in Seq(Rows)
            BY <1>2, DefaultRowIsARow
        <3> QED BY <1>2, <2>2, <3>1, SameRows
    <2>3. CASE \E row \in DOMAIN window.rows :
                  window' = Widgets!Edited(window,
                               Widgets!RemoveAt(window.rows, row),
                               window.combination)
        <3>1. PICK row \in DOMAIN window.rows :
                 window' = Widgets!Edited(window, Widgets!RemoveAt(window.rows, row),
                                          window.combination)
            BY <2>3
        <3>2. Widgets!RemoveAt(window.rows, row) = RemoveAt(window.rows, row)
            BY DEF Widgets!RemoveAt, RemoveAt
        <3>3. row \in 1 .. Len(window.rows)
            BY <1>2
        <3>4. RemoveAt(window.rows, row) \in Seq(Rows)
            BY <1>2, <3>3, RemoveAtProperties
        <3> QED BY <1>2, <3>1, <3>2, <3>4
    <2>4. CASE \E combination \in {"all", "any"} :
                  window' = Widgets!Edited(window, window.rows, combination)
        BY <1>2, <2>4
    <2>5. CASE window' = Widgets!Edited(window, <<Widgets!DefaultRow>>, "all")
        BY <2>5, EmptyRows, SameRows
    <2> QED BY <2>1, <2>2, <2>3, <2>4, <2>5 DEF Widgets!EditFilter
<1>4. Kept(window', window)
    BY <1>1, <1>3, WidgetsFilterEdited
<1>5. ~ export.runs /\ dialog = Widgets!NoDialog
    BY WidgetsEnabled DEF Widgets!EditFilter, Widgets!Idle, Widgets!FilterIsEnabled
<1> QED BY <1>4, <1>5, WidgetsKept DEF Widgets!EditFilter, Widgets!UNCHANGEDButWindow

LEMMA WidgetsSelectTemplateStep ==
    ASSUME Widgets!IInv, Widgets!SelectTemplate
    PROVE  Widgets!IInv'
<1>1. Widgets!IsConsistent(window)
    BY DEF Widgets!IInv
<1>2. PICK identifier \in window.panel.identifiers \cup {NoTemplate} :
         window' = Widgets!applyTemplate(window, identifier)
    BY DEF Widgets!SelectTemplate
<1>3. identifier \in DOMAIN window.catalog \cup {NoTemplate}
    BY <1>1 DEF Widgets!IsConsistent, Widgets!IsPanelTrue, Widgets!SetTemplates
<1>4. Kept(window', window)
    BY <1>1, <1>2, <1>3, WidgetsTemplateApplied
<1>5. ~ export.runs /\ dialog = Widgets!NoDialog
    BY WidgetsEnabled DEF Widgets!SelectTemplate, Widgets!Idle, Widgets!FilterIsEnabled
<1> QED BY <1>4, <1>5, WidgetsKept DEF Widgets!SelectTemplate, Widgets!UNCHANGEDButWindow

LEMMA WidgetsTemplateCommandStep ==
    ASSUME Widgets!IInv, Widgets!TemplateCommand
    PROVE  Widgets!IInv'
<1>1. Widgets!IsConsistent(window) /\ IsBase(window)
    BY ConsistencyByParts DEF Widgets!IInv, IsShown
<1>2. ASSUME NEW name \in Names, NEW results,
             results \subseteq Widgets!Templates!Created(window, name)
                       \cup Widgets!Templates!ActiveRenamed(window, name)
                       \cup Widgets!Templates!ActiveDuplicated(window, name),
             Widgets!Command(results)
      PROVE  Kept(window', window) /\ UNCHANGED <<dialog, export, bundle>>
    <2>1. PICK result \in results : window' = Widgets!RefreshTemplateState(result)
        BY <1>2 DEF Widgets!Command
    <2>2. WidgetsStoredIn(result, window)
        BY <1>1, <1>2, <2>1, WidgetsCommandsStore
    <2> QED BY <1>1, <1>2, <2>1, <2>2, WidgetsStoredIsShown DEF Widgets!Command
<1>3. Kept(window', window) /\ UNCHANGED <<dialog, export, bundle>>
    <2>1. CASE Widgets!saveTemplate
        BY <1>2, <2>1 DEF Widgets!saveTemplate
    <2>2. CASE Widgets!updateTemplate
        <3>1. PICK result \in Widgets!Templates!ActiveUpdated(window) :
                 window' = Widgets!RefreshTemplateState(result)
            BY <2>2 DEF Widgets!updateTemplate, Widgets!Command
        <3>2. WidgetsStoredIn(result, window)
            BY <1>1, <3>1, WidgetsUpdateStores
        <3>3. UNCHANGED <<dialog, export, bundle>>
            BY <2>2 DEF Widgets!updateTemplate, Widgets!Command
        <3> QED BY <1>1, <3>1, <3>2, <3>3, WidgetsStoredIsShown
    <2>3. CASE Widgets!renameTemplate
        BY <1>2, <2>3 DEF Widgets!renameTemplate
    <2>4. CASE Widgets!duplicateTemplate
        BY <1>2, <2>4 DEF Widgets!duplicateTemplate
    <2>5. CASE Widgets!deleteTemplate
        <3>1. PICK result \in {Widgets!SetFilterQuery(removed, removed.filter) :
                                 removed \in Widgets!Templates!ActiveRemoved(window)} :
                 window' = Widgets!RefreshTemplateState(result)
            BY <2>5 DEF Widgets!deleteTemplate, Widgets!Command
        <3>2. Kept(window', window)
            BY <1>1, <3>1, WidgetsRemovedIsShown
        <3> QED BY <2>5, <3>2 DEF Widgets!deleteTemplate, Widgets!Command
    <2> QED BY <2>1, <2>2, <2>3, <2>4, <2>5 DEF Widgets!TemplateCommand
<1>4. ~ export.runs /\ dialog = Widgets!NoDialog
    BY WidgetsEnabled DEF Widgets!TemplateCommand, Widgets!Idle, Widgets!FilterIsEnabled
<1> QED BY <1>3, <1>4, WidgetsKept

LEMMA WidgetsExportColumnsStep ==
    ASSUME Widgets!IInv, Widgets!editExportColumns
    PROVE  Widgets!IInv'
<1>1. PICK projection \in ValidProjections :
         window' = Widgets!SetEventProjection(window, projection)
    BY FrontendWindowsAssumption DEF Widgets!editExportColumns
<1>2. Kept(window', window)
    BY <1>1, WidgetsColumnsSet DEF Widgets!IInv
<1>3. ~ export.runs /\ dialog = Widgets!NoDialog
    BY WidgetsEnabled DEF Widgets!editExportColumns, Widgets!Idle, Widgets!FilterIsEnabled
<1> QED BY <1>2, <1>3, WidgetsKept DEF Widgets!editExportColumns, Widgets!UNCHANGEDButWindow

LEMMA WidgetsLanguageStep ==
    ASSUME Widgets!IInv, Widgets!SetLanguage
    PROVE  Widgets!IInv'
<1>1. Kept(window', window) /\ window'.projection = window.projection
    BY WidgetsLanguageSet DEF Widgets!IInv, Widgets!SetLanguage
<1> QED BY <1>1, WidgetsKept DEF Widgets!SetLanguage, Widgets!UNCHANGEDButWindow

(* An import begins while nothing runs and no question is open.            *)
LEMMA WidgetsImportStep ==
    ASSUME Widgets!IInv, ~ export.runs, ~ bundle, dialog' = Widgets!NoDialog,
           NEW rate, window' = Widgets!StartImport(window, rate),
           UNCHANGED <<export, bundle>>
    PROVE  Widgets!IInv'
<1>1. /\ Widgets!IsConsistent(window') /\ window'.busy = TRUE
      /\ window'.document.state = "importing"
    BY WidgetsImportStarts DEF Widgets!IInv
<1>2. Widgets!OneWorker'
    BY <1>1 DEF Widgets!IInv, Widgets!OneWorker
<1>3. Widgets!QuestionsWait'
    BY DEF Widgets!QuestionsWait, Widgets!NoDialog
<1> QED BY <1>1, <1>2, <1>3 DEF Widgets!IInv

LEMMA WidgetsOpenTimelineStep ==
    ASSUME Widgets!IInv, Widgets!OpenTimeline
    PROVE  Widgets!IInv'
<1>1. ~ export.runs /\ ~ bundle
    BY WidgetsEnabled DEF Widgets!OpenTimeline
<1> QED BY <1>1, WidgetsImportStep DEF Widgets!OpenTimeline, Widgets!Idle,
           Widgets!UNCHANGEDButWindow

(* An import ends, and so its worker.                                      *)
LEMMA WidgetsWorkerEnds ==
    ASSUME Widgets!IInv, Widgets!IsConsistent(window'), window'.busy = FALSE,
           window'.document.state # "importing", ~ export.runs, ~ bundle,
           UNCHANGED <<export, bundle>>,
           dialog' = Widgets!NoDialog
              \/ (/\ dialog' = [Widgets!NoDialog EXCEPT !.kind = "frameRate"]
                  /\ window'.document.state = "failed")
    PROVE  Widgets!IInv'
<1>1. Widgets!OneWorker'
    BY DEF Widgets!IInv, Widgets!OneWorker
<1>2. Widgets!QuestionsWait'
    BY DEF Widgets!QuestionsWait, Widgets!NoDialog
<1> QED BY <1>1, <1>2 DEF Widgets!IInv

LEMMA WidgetsFinishImportStep ==
    ASSUME Widgets!IInv, Widgets!FinishImport
    PROVE  Widgets!IInv'
<1>1. /\ Widgets!IsConsistent(window) /\ window.document.state = "importing"
      /\ ~ window.document.loaded /\ ~ export.runs /\ ~ bundle
    BY DEF Widgets!IInv, Widgets!IsConsistent, Widgets!OneWorker, Widgets!FinishImport
<1>2. UNCHANGED <<export, bundle>> /\ dialog = Widgets!NoDialog
    BY DEF Widgets!FinishImport, Widgets!Idle
<1> DEFINE failed == Widgets!Document!NotImported(window)
           idle == Widgets!SetBusy(failed, FALSE)
<1>3. Widgets!IsConsistent(failed) /\ ~ failed.document.loaded
      /\ failed.document.state = "failed"
    BY <1>1, WidgetsImportFails
<1> HIDE DEF failed
<1>4. Widgets!IsConsistent(idle) /\ idle.busy = FALSE
      /\ Same(idle, failed, WidgetsFields \ {"busy"})
    BY <1>3, WidgetsBusySet
<1> HIDE DEF idle
<1>5. idle.document = failed.document
    BY <1>4 DEF Same, WidgetsFields
<1>6. CASE window' = Widgets!DocumentReady(Widgets!Document!Imported(window))
           /\ UNCHANGED dialog
    <2>1. /\ Widgets!IsConsistent(window') /\ window'.busy = FALSE
          /\ window'.document.state = "ready"
        BY <1>1, <1>6, WidgetsImportEnds
    <2> QED BY <1>1, <1>2, <1>6, <2>1, WidgetsWorkerEnds
<1>7. CASE window' = Widgets!ShowImportFailure(idle) /\ UNCHANGED dialog
    <2>1. /\ Widgets!IsConsistent(window') /\ window'.busy = FALSE
          /\ window'.document.state = "failed"
        BY <1>3, <1>4, <1>5, <1>7, WidgetsFailureShown
    <2> QED BY <1>1, <1>2, <1>7, <2>1, WidgetsWorkerEnds
<1>8. CASE /\ window' = idle
           /\ dialog' = [Widgets!NoDialog EXCEPT !.kind = "frameRate"]
    <2>1. /\ Widgets!IsConsistent(window') /\ window'.busy = FALSE
          /\ window'.document.state = "failed"
        BY <1>3, <1>4, <1>5, <1>8
    <2> QED BY <1>1, <1>2, <1>8, <2>1, WidgetsWorkerEnds
<1> QED BY <1>6, <1>7, <1>8 DEF Widgets!FinishImport, idle, failed

LEMMA WidgetsAnswerFrameRateStep ==
    ASSUME Widgets!IInv, Widgets!AnswerFrameRate
    PROVE  Widgets!IInv'
<1>1. /\ Widgets!IsConsistent(window) /\ dialog.kind = "frameRate"
      /\ dialog' = Widgets!NoDialog /\ UNCHANGED <<export, bundle>>
    BY DEF Widgets!IInv, Widgets!AnswerFrameRate
<1>2. dialog # Widgets!NoDialog
    BY <1>1 DEF Widgets!NoDialog
<1>3. ~ window.busy /\ window.document.state = "failed"
    BY <1>1, <1>2 DEF Widgets!IInv, Widgets!QuestionsWait
<1>4. ~ window.document.loaded /\ ~ export.runs /\ ~ bundle /\ window.busy = FALSE
    BY <1>1, <1>3 DEF Widgets!IInv, Widgets!IsConsistent, Widgets!OneWorker
<1>5. CASE window' = Widgets!StartImport(window, TRUE)
    BY <1>1, <1>4, <1>5, WidgetsImportStep
<1>6. CASE window' = Widgets!ShowImportFailure(window)
    <2>1. /\ Widgets!IsConsistent(window') /\ window'.busy = FALSE
          /\ window'.document.state = "failed"
        BY <1>1, <1>3, <1>4, <1>6, WidgetsFailureShown
    <2> QED BY <1>1, <1>4, <2>1, WidgetsWorkerEnds
<1> QED BY <1>5, <1>6 DEF Widgets!AnswerFrameRate

LEMMA WidgetsExportSpreadsheetStep ==
    ASSUME Widgets!IInv, Widgets!exportSpreadsheet
    PROVE  Widgets!IInv'
<1>1. /\ Widgets!IsConsistent(window) /\ ~ window.busy
      /\ window.document.state = "ready"
      /\ dialog' = [Widgets!NoDialog EXCEPT !.kind = "destination"]
      /\ UNCHANGED <<export, bundle>>
    BY DEF Widgets!IInv, Widgets!exportSpreadsheet, Widgets!CanExport
<1>2. ~ export.runs /\ ~ bundle /\ window.busy = FALSE
    BY <1>1, WidgetsEnabled DEF Widgets!IInv, Widgets!OneWorker
<1>3. PICK projection \in ValidProjections :
         LET chosen == Widgets!SetEventProjection(window, projection)
         IN  window' = Widgets!Document!SetEventProjection(chosen, chosen.projection)
    BY FrontendWindowsAssumption DEF Widgets!exportSpreadsheet
<1> DEFINE chosen == Widgets!SetEventProjection(window, projection)
<1>4. Kept(chosen, window)
    BY <1>1, WidgetsColumnsSet
<1> HIDE DEF chosen
<1>5. /\ Widgets!IsConsistent(chosen) /\ chosen.busy = FALSE
      /\ chosen.document.state = "ready"
    BY <1>1, <1>2, <1>4 DEF Kept, SameWork, SameDocument, Same
<1>6. window' = Widgets!Document!SetEventProjection(chosen, chosen.projection)
    BY <1>3 DEF chosen
<1>7. /\ Widgets!IsConsistent(window') /\ window'.busy = FALSE
      /\ window'.document.state = "ready"
      /\ window'.document.projection = window'.projection
    BY <1>5, <1>6, WidgetsColumnsTaken
<1>8. Widgets!OneWorker'
    BY <1>1, <1>2, <1>7 DEF Widgets!IInv, Widgets!OneWorker
<1>9. Widgets!QuestionsWait'
    BY <1>1, <1>2, <1>7 DEF Widgets!QuestionsWait, Widgets!NoDialog
<1> QED BY <1>7, <1>8, <1>9 DEF Widgets!IInv

(* The window is made busy, or idle again, by a worker other than an       *)
(* import.                                                                 *)
LEMMA WidgetsBusyStep ==
    ASSUME Widgets!IInv, window.document.state # "importing",
           NEW busy, window' = Widgets!SetBusy(window, busy),
           busy = (export'.runs \/ bundle'),
           export'.runs \in BOOLEAN, bundle' \in BOOLEAN,
           DOMAIN export' = {"runs", "replace", "changes", "asked", "written"},
           ~ (export'.runs /\ bundle'),
           dialog' = Widgets!NoDialog,
           export'.runs => window.document.projection = window.projection
    PROVE  Widgets!IInv'
<1>1. /\ Widgets!IsConsistent(window') /\ window'.busy = busy
      /\ Same(window', window, WidgetsFields \ {"busy"})
    BY WidgetsBusySet DEF Widgets!IInv
<1>2. window'.document = window.document /\ window'.projection = window.projection
    BY <1>1 DEF Same, WidgetsFields
<1>3. Widgets!OneWorker'
    BY <1>1, <1>2 DEF Widgets!OneWorker
<1>4. Widgets!QuestionsWait'
    BY <1>2 DEF Widgets!QuestionsWait, Widgets!NoDialog
<1> QED BY <1>1, <1>3, <1>4 DEF Widgets!IInv

LEMMA WidgetsChooseDestinationStep ==
    ASSUME Widgets!IInv, Widgets!ChooseDestination
    PROVE  Widgets!IInv'
<1>1. /\ dialog.kind = "destination" /\ dialog # Widgets!NoDialog
      /\ dialog' = [dialog EXCEPT !.kind = "overwrite",
                                  !.replace = Widgets!Replaces(file)]
      /\ UNCHANGED <<window, export, bundle>>
    BY DEF Widgets!ChooseDestination, Widgets!NoDialog
<1>2. /\ DOMAIN dialog' = {"kind", "replace", "changes"} /\ dialog'.kind = "overwrite"
    BY <1>1 DEF Widgets!IInv, Widgets!QuestionsWait
<1>3. Widgets!QuestionsWait'
    BY <1>1, <1>2 DEF Widgets!IInv, Widgets!QuestionsWait
<1> QED BY <1>1, <1>3 DEF Widgets!IInv, Widgets!OneWorker

LEMMA WidgetsConfirmStep ==
    ASSUME Widgets!IInv, Widgets!ConfirmSpreadsheetOverwrite
    PROVE  Widgets!IInv'
<1>1. /\ dialog.kind = "overwrite" /\ dialog # Widgets!NoDialog
      /\ dialog' = Widgets!NoDialog /\ export'.runs = TRUE /\ bundle' = bundle
      /\ DOMAIN export' = {"runs", "replace", "changes", "asked", "written"}
      /\ window' = Widgets!SetBusy(window, TRUE)
    BY DEF Widgets!ConfirmSpreadsheetOverwrite, Widgets!NoDialog
<1>2. ~ window.busy /\ window.document.projection = window.projection
    BY <1>1 DEF Widgets!IInv, Widgets!QuestionsWait
<1>3. ~ bundle /\ bundle \in BOOLEAN /\ window.document.state # "importing"
    BY <1>2 DEF Widgets!IInv, Widgets!OneWorker
<1> QED BY <1>1, <1>2, <1>3, WidgetsBusyStep

LEMMA WidgetsDismissStep ==
    ASSUME Widgets!IInv, Widgets!DismissExport
    PROVE  Widgets!IInv'
<1>1. dialog' = Widgets!NoDialog /\ UNCHANGED <<window, export, bundle>>
    BY DEF Widgets!DismissExport
<1>2. Widgets!QuestionsWait'
    BY <1>1 DEF Widgets!IInv, Widgets!QuestionsWait, Widgets!NoDialog
<1> QED BY <1>1, <1>2 DEF Widgets!IInv, Widgets!OneWorker

LEMMA WidgetsFinishExportStep ==
    ASSUME Widgets!IInv, Widgets!FinishExport
    PROVE  Widgets!IInv'
<1>1. /\ export.runs /\ export'.runs = FALSE /\ bundle' = bundle
      /\ dialog' = Widgets!NoDialog /\ window' = Widgets!SetBusy(window, FALSE)
      /\ DOMAIN export' = {"runs", "replace", "changes", "asked", "written"}
    BY DEF Widgets!FinishExport, Widgets!NoExport, Widgets!Idle
<1>2. ~ bundle /\ bundle \in BOOLEAN /\ window.document.state # "importing"
    BY <1>1 DEF Widgets!IInv, Widgets!OneWorker
<1> QED BY <1>1, <1>2, WidgetsBusyStep

LEMMA WidgetsBundleStep ==
    ASSUME Widgets!IInv, Widgets!exportDiagnosticLogs \/ Widgets!FinishBundle
    PROVE  Widgets!IInv'
<1>1. CASE Widgets!exportDiagnosticLogs
    <2>1. /\ dialog' = Widgets!NoDialog /\ bundle' = TRUE /\ export' = export
          /\ window' = Widgets!SetBusy(window, TRUE) /\ ~ window.busy
        BY <1>1 DEF Widgets!exportDiagnosticLogs, Widgets!Idle
    <2>2. ~ export.runs /\ export.runs \in BOOLEAN
          /\ DOMAIN export = {"runs", "replace", "changes", "asked", "written"}
          /\ window.document.state # "importing"
        BY <2>1, WidgetsEnabled DEF Widgets!IInv, Widgets!OneWorker
    <2> QED BY <2>1, <2>2, WidgetsBusyStep
<1>2. CASE Widgets!FinishBundle
    <2>1. /\ dialog' = Widgets!NoDialog /\ bundle' = FALSE /\ export' = export
          /\ window' = Widgets!SetBusy(window, FALSE) /\ bundle
        BY <1>2 DEF Widgets!FinishBundle, Widgets!Idle
    <2>2. ~ export.runs /\ export.runs \in BOOLEAN
          /\ DOMAIN export = {"runs", "replace", "changes", "asked", "written"}
          /\ window.document.state # "importing"
        BY <2>1 DEF Widgets!IInv, Widgets!OneWorker
    <2> QED BY <2>1, <2>2, WidgetsBusyStep
<1> QED BY <1>1, <1>2

(* Publishing the workbook leaves the export running.                      *)
LEMMA WidgetsPublishStep ==
    ASSUME Widgets!IInv, Widgets!PublishSpreadsheet
    PROVE  Widgets!IInv'
<1>1. /\ export'.runs = export.runs /\ DOMAIN export' = DOMAIN export
      /\ UNCHANGED <<window, dialog, bundle>>
    BY DEF Widgets!PublishSpreadsheet, Widgets!IInv, Widgets!OneWorker
<1>2. Widgets!OneWorker' /\ Widgets!QuestionsWait'
    BY <1>1 DEF Widgets!IInv, Widgets!OneWorker, Widgets!QuestionsWait
<1> QED BY <1>1, <1>2 DEF Widgets!IInv

(* What another program does is at most noted.                             *)
LEMMA WidgetsOtherProgramStep ==
    ASSUME Widgets!IInv, Widgets!OtherProgram
    PROVE  Widgets!IInv'
<1>1. UNCHANGED <<window, export, bundle>>
    BY DEF Widgets!OtherProgram
<1>2. \/ dialog' = dialog
      \/ /\ dialog.kind = "overwrite" /\ dialog # Widgets!NoDialog
         /\ DOMAIN dialog' = DOMAIN dialog /\ dialog'.kind = dialog.kind
    BY DEF Widgets!OtherProgram, Widgets!IInv, Widgets!QuestionsWait, Widgets!NoDialog
<1>3. Widgets!QuestionsWait'
    BY <1>1, <1>2 DEF Widgets!IInv, Widgets!QuestionsWait
<1> QED BY <1>1, <1>3 DEF Widgets!IInv, Widgets!OneWorker

(* Every step of the Widgets window keeps the inductive invariant.         *)
LEMMA WidgetsStep ==
    ASSUME Widgets!IInv, [Widgets!Next]_widgetsVars
    PROVE  Widgets!IInv'
<1>1. CASE UNCHANGED widgetsVars
    BY <1>1 DEF widgetsVars, Widgets!IInv, Widgets!OneWorker, Widgets!QuestionsWait
<1> QED BY <1>1, WidgetsEditFilterStep, WidgetsSelectTemplateStep,
          WidgetsTemplateCommandStep, WidgetsExportColumnsStep,
          WidgetsOpenTimelineStep, WidgetsFinishImportStep,
          WidgetsAnswerFrameRateStep, WidgetsLanguageStep,
          WidgetsExportSpreadsheetStep, WidgetsChooseDestinationStep,
          WidgetsConfirmStep, WidgetsDismissStep, WidgetsPublishStep,
          WidgetsFinishExportStep, WidgetsOtherProgramStep,
          WidgetsBundleStep DEF Widgets!Next

LEMMA WidgetsInit ==
    ASSUME Widgets!Init
    PROVE  Widgets!IInv
<1>1. PICK catalog \in InitialCatalogs :
         window = Widgets!RefreshTemplateState(Widgets!Templates!RefreshTemplateModel(
             [catalog     |-> catalog,
              active      |-> NoTemplate,
              filter      |-> Widgets!NoFilter,
              valid       |-> TRUE,
              projection  |-> Widgets!DefaultEventProjection,
              modified    |-> FALSE,
              shown       |-> NoTemplate,
              rows        |-> <<Widgets!DefaultRow>>,
              combination |-> "all",
              editors     |-> <<Widgets!DefaultRow>>,
              document    |-> Widgets!Document!EmptyDocument,
              panel       |-> NoTemplate,
              timeline    |-> FALSE,
              filterValid |-> TRUE,
              page        |-> "empty",
              menu        |-> [document |-> FALSE, export |-> TRUE],
              busy        |-> FALSE,
              requested   |-> FALSE,
              readGone    |-> FALSE]))
    BY DEF Widgets!Init
<1> DEFINE empty == Widgets!Document!EmptyDocument
           first == [catalog     |-> catalog,
                     active      |-> NoTemplate,
                     filter      |-> NoFilter,
                     valid       |-> TRUE,
                     projection  |-> DefaultEventProjection,
                     modified    |-> FALSE,
                     shown       |-> NoTemplate,
                     rows        |-> <<DefaultRow>>,
                     combination |-> "all",
                     editors     |-> <<DefaultRow>>,
                     document    |-> empty,
                     panel       |-> NoTemplate,
                     timeline    |-> FALSE,
                     filterValid |-> TRUE,
                     page        |-> "empty",
                     menu        |-> [document |-> FALSE, export |-> TRUE],
                     busy        |-> FALSE,
                     requested   |-> FALSE,
                     readGone    |-> FALSE]
           listed == Widgets!Templates!RefreshTemplateModel(first)
<1>2. window = Widgets!RefreshTemplateState(listed)
    BY Zenon, <1>1, SameRows, SameQueries, SameProjections
<1>3. /\ DOMAIN empty = {"state", "loaded", "query", "error", "projection"}
      /\ empty.loaded = FALSE /\ empty.error = FALSE /\ empty.query = NoFilter
      /\ empty.state = "empty"
    BY DEF Widgets!Document!EmptyDocument, Widgets!Document!NoFilter, NoFilter
<1> HIDE DEF empty
<1>4. /\ catalog \in [DOMAIN catalog -> SavedTemplates \cup {NoTemplate}]
      /\ NoTemplate \notin DOMAIN catalog
    BY ConfigurationAssumption
<1>5. Widgets!IsWindow(first)
    <2>1. /\ NoFilter \in Widgets!Queries
          /\ DefaultEventProjection \in Widgets!ValidProjections
          /\ <<DefaultRow>> \in Seq(Widgets!Rows)
          /\ Widgets!SavedTemplates = SavedTemplates
        BY EmptyFilterIsAQuery, DefaultProjectionIsValid, EmptyRows, SameRows,
           SameQueries, SameProjections
    <2> QED BY <1>3, <1>4, <2>1 DEF Widgets!IsWindow
<1>6. IsShown(first) /\ first.filter = first.document.query
      /\ first.busy = FALSE /\ first.document.state = "empty"
    <2>1. Widgets!IsFilterShown(first)
        BY <1>3, EmptyRows, SameQueries DEF Widgets!IsFilterShown, Widgets!Query
    <2> QED BY <1>3, <1>5, <2>1 DEF IsShown, IsBase, Widgets!IsActiveListed,
           Widgets!IsModifiedTrue, Widgets!IsDocumentShown, NoneUnlessLoaded
<1> HIDE DEF first
<1>7. Widgets!IsWindow(listed) /\ Same(listed, first, WidgetsFields \ {"shown"})
    BY <1>5, WidgetsRefreshModel
<1> HIDE DEF listed
<1>8. /\ Same(listed, first, BaseFields) /\ Same(listed, first, ViewFields)
      /\ listed.filter = first.filter /\ listed.document = first.document
      /\ listed.busy = first.busy
    BY <1>7 DEF Same, WidgetsFields, BaseFields, ViewFields
<1>9. IsShown(listed)
    BY <1>6, <1>7, <1>8, BaseIsKept, ViewIsKept DEF IsShown
<1>10. Kept(window, listed)
    BY <1>2, <1>6, <1>8, <1>9, PanelIsRefreshed
<1>11. /\ Widgets!IsConsistent(window) /\ window.busy = FALSE
       /\ window.document.state = "empty"
    BY <1>6, <1>8, <1>10 DEF Kept, SameWork, SameDocument, Same
<1>12. /\ DOMAIN export = {"runs", "replace", "changes", "asked", "written"}
       /\ export.runs = FALSE /\ bundle = FALSE /\ dialog = Widgets!NoDialog
    BY DEF Widgets!Init, Widgets!NoExport
<1>13. Widgets!OneWorker
    BY <1>11, <1>12 DEF Widgets!OneWorker
<1>14. Widgets!QuestionsWait
    BY <1>12 DEF Widgets!QuestionsWait, Widgets!NoDialog
<1> QED BY <1>11, <1>13, <1>14 DEF Widgets!IInv

(* The inductive invariant of the Widgets window: the copies agree, one    *)
(* worker runs at a time, and none while a question is open.               *)
THEOREM WidgetsInvariant == WidgetsSpec => []Widgets!IInv
<1>1. Widgets!Init => Widgets!IInv
    BY WidgetsInit
<1>2. Widgets!IInv /\ [Widgets!Next]_widgetsVars => Widgets!IInv'
    BY WidgetsStep
<1> QED BY <1>1, <1>2, PTL DEF WidgetsSpec, Widgets!Spec, Widgets!vars, widgetsVars

(* When the main loop is idle, every copy that the two controllers of the  *)
(* Widgets window keep agrees, whatever the user, the imports, the exports *)
(* and the bundles did in whatever order.                                  *)
THEOREM WidgetsWindowAgrees == WidgetsSpec => []WindowAgrees
<1>1. ASSUME Widgets!IInv PROVE WindowAgrees
    <2>1. Widgets!IsConsistent(window) /\ Widgets!OneWorker /\ Widgets!QuestionsWait
        BY <1>1 DEF Widgets!IInv
    <2>2. /\ window.editors = window.rows
          /\ Widgets!Query(window) = window.filter
          /\ window.document.query = window.filter
          /\ window.timeline = window.document.loaded
          /\ window.menu = [document |-> window.document.loaded,
                            export |-> ~ window.document.error]
          /\ window.filterValid = ~ window.document.error
        BY <2>1 DEF Widgets!IsConsistent, Widgets!IsFilterShown, Widgets!IsDocumentShown
    <2>3. /\ window.panel = Widgets!SetTemplates(window.catalog, window.active,
                                                 window.modified)
          /\ window.modified = (/\ window.active # NoTemplate
                                /\ Widgets!Templates!Differs(window,
                                      window.catalog[window.active]))
        BY <2>1 DEF Widgets!IsConsistent, Widgets!IsPanelTrue, Widgets!IsModifiedTrue
    <2>4. /\ window.busy = (\/ export.runs \/ bundle
                            \/ window.document.state = "importing")
          /\ (dialog.kind = "frameRate" => window.document.state = "failed")
          /\ (export.runs => window.document.projection = window.projection)
        BY <2>1 DEF Widgets!OneWorker, Widgets!QuestionsWait
    <2> QED BY <2>2, <2>3, <2>4 DEF WindowAgrees, Widgets!WindowAgrees
<1> QED BY <1>1, WidgetsInvariant, PTL

(* A file is replaced unasked only if another program removed it between   *)
(* the two looks the window takes at the destination, and a replacement    *)
(* the user agreed to lacks authority only if another program created the  *)
(* file between them.  What the first look found is true but for what      *)
(* happened since (DestinationIsWatched), up to the second, which decides  *)
(* the question.                                                           *)
THEOREM WidgetsOverwriteIsAsked ==
    WidgetsSpec => []OnlyAFileThatLeftIsReplacedUnasked
<1> DEFINE Watched == Widgets!DestinationIsWatched
<1>1. Widgets!Init => Watched
    BY DEF Widgets!Init, Widgets!NoExport, Widgets!NoDialog,
       Widgets!DestinationIsWatched
<1>2. Widgets!IInv /\ Watched /\ [Widgets!Next]_widgetsVars => Watched'
    <2> SUFFICES ASSUME Widgets!IInv, Watched, [Widgets!Next]_widgetsVars
                 PROVE  Watched'
        OBVIOUS
    <2>0. /\ Widgets!OneWorker /\ Widgets!QuestionsWait
          /\ DOMAIN dialog = {"kind", "replace", "changes"}
          /\ DOMAIN export = {"runs", "replace", "changes", "asked", "written"}
        BY DEF Widgets!IInv, Widgets!OneWorker, Widgets!QuestionsWait
    <2> USE DEF Widgets!DestinationIsWatched
    <2>1. CASE Widgets!ChooseDestination
        BY <2>0, <2>1 DEF Widgets!ChooseDestination, Widgets!Replaces
    <2>2. CASE Widgets!ConfirmSpreadsheetOverwrite
        BY <2>0, <2>2 DEF Widgets!ConfirmSpreadsheetOverwrite, Widgets!MustAsk,
           Widgets!NoDialog
    <2>3. CASE Widgets!PublishSpreadsheet
        <3>1. dialog = Widgets!NoDialog /\ dialog' = dialog
            BY <2>0, <2>3 DEF Widgets!PublishSpreadsheet, Widgets!OneWorker,
               Widgets!QuestionsWait
        <3>2. dialog'.kind # "overwrite"
            BY <3>1 DEF Widgets!NoDialog
        <3>3. /\ file' = TRUE
              /\ export'.replace = export.replace /\ export'.asked = export.asked
              /\ export'.changes = export.changes
              /\ export'.written = "replaced" => export.replace
            BY <2>0, <2>3 DEF Widgets!PublishSpreadsheet
        <3> QED BY <3>2, <3>3
    <2>4. CASE Widgets!FinishExport
        BY <2>4 DEF Widgets!FinishExport, Widgets!NoExport
    <2>5. CASE Widgets!OtherProgram
        <3>1. file' = ~ file /\ file' \in BOOLEAN /\ export' = export
            BY <2>5 DEF Widgets!OtherProgram
        <3>2. CASE dialog.kind = "overwrite"
            <4>1. /\ dialog'.replace = dialog.replace
                  /\ dialog'.changes = dialog.changes
                        \cup {IF file THEN "removed" ELSE "created"}
                BY <2>0, <2>5, <3>2 DEF Widgets!OtherProgram
            <4> QED BY <3>1, <3>2, <4>1
        <3>3. CASE dialog.kind # "overwrite"
            BY <2>5, <3>1, <3>3 DEF Widgets!OtherProgram
        <3> QED BY <3>2, <3>3
    <2>6. CASE UNCHANGED <<export, file>> /\ dialog'.kind # "overwrite"
        BY <2>6
    <2>7. CASE UNCHANGED <<dialog, export, file>>
        BY <2>7
    <2>8. CASE Widgets!TemplateCommand
        BY <2>7, <2>8 DEF Widgets!TemplateCommand, Widgets!saveTemplate,
           Widgets!updateTemplate, Widgets!renameTemplate,
           Widgets!duplicateTemplate, Widgets!deleteTemplate, Widgets!Command
    <2>9. CASE Widgets!EditFilter \/ Widgets!SelectTemplate \/ Widgets!editExportColumns
        BY <2>7, <2>9 DEF Widgets!EditFilter, Widgets!SelectTemplate,
           Widgets!editExportColumns, Widgets!UNCHANGEDButWindow
    <2>10. CASE Widgets!OpenTimeline \/ Widgets!SetLanguage
        BY <2>7, <2>10 DEF Widgets!OpenTimeline, Widgets!SetLanguage,
           Widgets!UNCHANGEDButWindow
    <2>11. CASE \/ Widgets!FinishImport \/ Widgets!AnswerFrameRate
                \/ Widgets!exportSpreadsheet \/ Widgets!DismissExport
        <3>1. UNCHANGED <<export, file>>
            BY <2>11 DEF Widgets!FinishImport, Widgets!AnswerFrameRate,
               Widgets!exportSpreadsheet, Widgets!DismissExport
        <3>2. \/ dialog' = dialog \/ dialog' = Widgets!NoDialog
              \/ \E kind \in {"frameRate", "destination"} :
                    dialog' = [Widgets!NoDialog EXCEPT !.kind = kind]
            BY <2>11 DEF Widgets!FinishImport, Widgets!AnswerFrameRate,
               Widgets!exportSpreadsheet, Widgets!DismissExport
        <3>3. dialog' = dialog \/ dialog'.kind # "overwrite"
            BY <3>2 DEF Widgets!NoDialog
        <3> QED BY <2>6, <2>7, <3>1, <3>3
    <2>12. CASE Widgets!exportDiagnosticLogs \/ Widgets!FinishBundle
        BY <2>7, <2>12 DEF Widgets!exportDiagnosticLogs, Widgets!FinishBundle
    <2>13. CASE UNCHANGED widgetsVars
        BY <2>7, <2>13 DEF widgetsVars
    <2> QED BY <2>1, <2>2, <2>3, <2>4, <2>5, <2>8, <2>9, <2>10, <2>11, <2>12,
              <2>13 DEF Widgets!Next
<1>3. Watched => OnlyAFileThatLeftIsReplacedUnasked
    BY DEF Widgets!DestinationIsWatched, OnlyAFileThatLeftIsReplacedUnasked,
       Widgets!OnlyAFileThatLeftIsReplacedUnasked
<1> QED BY <1>1, <1>2, <1>3, WidgetsInvariant, PTL
      DEF WidgetsSpec, Widgets!Spec, Widgets!vars, widgetsVars
===============================================================================
