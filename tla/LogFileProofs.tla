---------------------------- MODULE LogFileProofs ----------------------------
(***************************************************************************)
(* Lemmas about the log files: what the packers of LogPacking return, and  *)
(* what LogCompaction leaves of a file.  MainSend and LoraUplink use them. *)
(* Theorems about the packers: there is exactly one packing, an empty one  *)
(* means that all is sent, and which packets overflow the 4G buffer.       *)
(* Theorems about compaction: how much is left of a file, which lines are  *)
(* never removed, and that compacting twice is compacting once.            *)
(***************************************************************************)
EXTENDS LogPacking, LogCompaction, FiniteSetTheorems, SequenceTheorems,
        WellFoundedInduction, TLAPS

-----------------------------------------------------------------------------
(* Numbers and positions.                                                   *)

\* Every set of numbers that is not empty has a least one: the argument by
\* which the lemmas below go through the elements of a sequence or a set.
LEMMA LeastNumber ==
    ASSUME NEW T, T \subseteq Nat, T # {}
    PROVE  \E x \in T : \A y \in T : x <= y
<1>1. PICK x \in T : \A y \in T : ~(<<y, x>> \in OpToRel(<, Nat))
  BY WFMin, NatLessThanWellFounded
<1>2. \A y \in T : ~(y < x)
  BY <1>1 DEF OpToRel
<1> QED
  BY <1>2

\* A bounded set of numbers has a greatest one.
LEMMA GreatestNumber ==
    ASSUME NEW T, T \subseteq Nat, T # {}, NEW hi \in Nat, \A x \in T : x <= hi
    PROVE  \E x \in T : \A y \in T : y <= x
<1> DEFINE D == {hi - x : x \in T}
<1>1. D \subseteq Nat /\ D # {}
  <2>1. \A x \in T : hi - x \in Nat
    OBVIOUS
  <2> QED
    BY <2>1
<1>2. PICK d \in D : \A y \in D : d <= y
  BY <1>1, LeastNumber
<1>3. PICK x \in T : d = hi - x
  OBVIOUS
<1>4. ASSUME NEW y \in T PROVE y <= x
  <2>1. hi - x <= hi - y
    BY <1>2, <1>3
  <2>2. x \in Nat /\ y \in Nat
    OBVIOUS
  <2> QED
    BY <2>1, <2>2
<1> QED
  BY <1>4

\* A finite set of positions can be put in order.
LEMMA InOrderExists ==
    ASSUME NEW S, S \subseteq Nat, IsFiniteSet(S)
    PROVE  \E f : f \in InOrder(S)
<1> DEFINE Bad == {n \in Nat : \E U \in SUBSET Nat :
                      IsFiniteSet(U) /\ Cardinality(U) = n /\ InOrder(U) = {}}
<1>1. Bad = {}
  <2> SUFFICES ASSUME Bad # {} PROVE FALSE
    OBVIOUS
  <2>1. PICK n \in Bad : \A y \in Bad : n <= y
    BY LeastNumber
  <2>2. PICK U \in SUBSET Nat : IsFiniteSet(U) /\ Cardinality(U) = n /\ InOrder(U) = {}
    BY <2>1
  <2>3. CASE U = {}
    <3>1. Cardinality(U) = 0
      BY <2>3, FS_EmptySet
    <3> DEFINE f == [i \in 1..0 |-> 0]
    <3>2. f \in [1..0 -> U] /\ \A i, j \in 1..0 : i < j => f[i] < f[j]
      OBVIOUS
    <3>3. f \in InOrder(U)
      BY <3>1, <3>2 DEF InOrder
    <3> QED
      BY <2>2, <3>3
  <2>4. CASE U # {}
    <3>1. PICK x \in U : \A y \in U : x <= y
      BY <2>4, LeastNumber
    <3> DEFINE V == U \ {x}
    <3>2. IsFiniteSet(V) /\ Cardinality(V) = n - 1 /\ V \in SUBSET Nat
      BY <2>2, FS_RemoveElement
    <3>3. n \in Nat /\ n - 1 \in Nat
      BY <3>2, FS_CardinalityType
    <3>4. n - 1 \notin Bad
      BY <2>1, <3>3
    <3>5. PICK g : g \in InOrder(V)
      BY <3>2, <3>3, <3>4
    <3>6. g \in [1..n - 1 -> V] /\ \A i, j \in 1..n - 1 : i < j => g[i] < g[j]
      BY <3>2, <3>5 DEF InOrder
    <3> DEFINE f == [i \in 1..n |-> IF i = 1 THEN x ELSE g[i - 1]]
    <3>7. \A i \in 1..n : i = 1 \/ i - 1 \in 1..n - 1
      BY <3>3
    <3>8. f \in [1..n -> U]
      BY <3>6, <3>7
    <3>9. ASSUME NEW i \in 1..n, NEW j \in 1..n, i < j PROVE f[i] < f[j]
      <4>1. j - 1 \in 1..n - 1 /\ j # 1
        BY <3>3, <3>9
      <4>2. f[j] = g[j - 1] /\ g[j - 1] \in V
        BY <3>6, <4>1
      <4>3. CASE i = 1
        <5>1. x <= f[j] /\ x # f[j] /\ x \in Nat /\ f[j] \in Nat
          BY <3>1, <4>2
        <5> QED
          BY <4>3, <5>1
      <4>4. CASE i # 1
        <5>1. i - 1 \in 1..n - 1 /\ i - 1 < j - 1
          BY <3>3, <3>9, <4>4
        <5> QED
          BY <3>6, <4>1, <4>2, <4>4, <5>1
      <4> QED
        BY <4>3, <4>4
    <3> HIDE DEF f
    <3>10. f \in InOrder(U)
      BY <2>2, <3>8, <3>9 DEF InOrder
    <3> QED
      BY <2>2, <3>10
  <2> QED
    BY <2>3, <2>4
<1>2. Cardinality(S) \in Nat
  BY FS_CardinalityType
<1>3. Cardinality(S) \notin Bad
  BY <1>1
<1> QED
  BY <1>2, <1>3

-----------------------------------------------------------------------------
(* What the packers return.                                                *)

\* A 4G packing moves each offset forward, never beyond the end of the file
\* it points into, and leaves an offset beyond the end where it is.
LEMMA Packing4GBounds ==
    ASSUME NEW logs, NEW offs \in [Path -> Nat],
           \A p \in Path : Len(logs[p]) \in Nat,
           NEW to \in Packings4G(logs, offs)
    PROVE  /\ to \in [Path -> Nat]
           /\ \A p \in Path : to[p] = offs[p] \/ to[p] \in offs[p]..Len(logs[p])
<1> DEFINE Here(p) == {offs[p]} \cup Reach(logs, p, offs[p], Len(logs[p]))
<1>1. /\ to \in [Path -> UNION {Here(p) : p \in Path}]
      /\ \A p \in Path : to[p] \in Here(p)
  BY DEF Packings4G
<1>2. \A p \in Path : Here(p) \subseteq {offs[p]} \cup (offs[p]..Len(logs[p]))
  BY DEF Reach
<1>3. \A p \in Path : to[p] \in {offs[p]} \cup (offs[p]..Len(logs[p]))
  BY <1>1, <1>2
<1>4. \A p \in Path : to[p] \in Nat
  BY <1>3
<1> QED
  BY <1>1, <1>3, <1>4

\* A BeiDou packing likewise.
LEMMA PackingBDBounds ==
    ASSUME NEW logs, NEW offs \in [Path -> Nat], NEW ends \in [Path -> Nat],
           \A p \in Path : Len(logs[p]) \in Nat,
           NEW to \in PackingsBD(logs, offs, ends)
    PROVE  /\ to \in [Path -> Nat]
           /\ \A p \in Path : to[p] = offs[p] \/ to[p] \in offs[p]..Len(logs[p])
<1> DEFINE Here(p) == {offs[p]} \cup Reach(logs, p, offs[p], ends[p])
<1>1. /\ to \in [Path -> UNION {Here(p) : p \in Path}]
      /\ \A p \in Path : to[p] \in Here(p)
  BY DEF PackingsBD
<1>2. \A p \in Path : Here(p) \subseteq {offs[p]} \cup (offs[p]..Len(logs[p]))
  BY DEF Reach
<1>3. \A p \in Path : to[p] \in {offs[p]} \cup (offs[p]..Len(logs[p]))
  BY <1>1, <1>2
<1>4. \A p \in Path : to[p] \in Nat
  BY <1>3
<1> QED
  BY <1>1, <1>3, <1>4

\* The packet holds every valid line between the two offsets, and only lines
\* of the files.
LEMMA PacketContents ==
    ASSUME NEW logs, NEW from \in [Path -> Nat], NEW to \in [Path -> Nat],
           NEW p \in Path, NEW i \in from[p] + 1 .. to[p], Valid(logs[p][i])
    PROVE  logs[p][i] \in PacketLines(logs, from, to)
<1> DEFINE e == <<p, i>>
<1>1. e \in {p} \X (from[p] + 1 .. to[p])
  OBVIOUS
<1>2. p \in 1..NPaths
  BY DEF Path
<1>3. e \in Entries(logs, from, to, NPaths)
  BY <1>1, <1>2 DEF Entries
<1>4. logs[p][i] = logs[e[1]][e[2]]
  OBVIOUS
<1> QED
  BY <1>3, <1>4 DEF PacketLines

LEMMA PacketType ==
    ASSUME NEW S, NEW logs \in [Path -> Seq(S)],
           NEW from \in [Path -> Nat], NEW to \in [Path -> Nat],
           \A p \in Path : to[p] = from[p] \/ to[p] \in from[p]..Len(logs[p])
    PROVE  PacketLines(logs, from, to) \subseteq S
<1> SUFFICES ASSUME NEW e \in Entries(logs, from, to, NPaths)
             PROVE  logs[e[1]][e[2]] \in S
  BY DEF PacketLines
<1>1. PICK q \in 1..NPaths : e \in {q} \X (from[q] + 1 .. to[q])
  BY DEF Entries
<1>2. q \in Path /\ e[1] = q /\ e[2] \in from[q] + 1 .. to[q]
  BY <1>1 DEF Path
<1>3. logs[q] \in Seq(S) /\ from[q] \in Nat /\ to[q] \in Nat
  BY <1>2
<1>4. e[2] \in 1..Len(logs[q])
  BY <1>2, <1>3
<1> QED
  BY <1>2, <1>3, <1>4

-----------------------------------------------------------------------------
(* The bytes of a packet.                                                   *)

\* The recursion behind Bytes: one step of it, its solutions on the subsets of S, and the
\* one the community modules define.
ByteStep(logs, f, s) ==
    IF s = {} THEN 0
    ELSE LET x == CHOOSE e \in s : TRUE IN logs[x[1]][x[2]].len + f[s \ {x}]

SolvesTo(logs, S, n, f) ==
    \A s \in SUBSET S : Cardinality(s) <= n => f[s] = ByteStep(logs, f, s)

\* What is taken out of a set leaves one element less.
LEMMA TakeOut ==
    ASSUME NEW S, IsFiniteSet(S), NEW s \in SUBSET S, NEW x \in s
    PROVE  /\ IsFiniteSet(s) /\ Cardinality(s) \in Nat \ {0}
           /\ s \ {x} \in SUBSET S /\ IsFiniteSet(s \ {x})
           /\ Cardinality(s \ {x}) = Cardinality(s) - 1 /\ Cardinality(s) - 1 \in Nat
<1>1. IsFiniteSet(s) /\ Cardinality(s) \in Nat
  BY FS_Subset, FS_CardinalityType
<1>2. Cardinality(s) # 0
  BY <1>1, FS_EmptySet
<1>3. IsFiniteSet(s \ {x}) /\ Cardinality(s \ {x}) = Cardinality(s) - 1
  BY <1>1, FS_RemoveElement
<1> QED
  BY <1>1, <1>2, <1>3

\* The step at a set asks for the sum of a smaller set only.
LEMMA StepAsks ==
    ASSUME NEW logs, NEW S, IsFiniteSet(S), NEW s \in SUBSET S, NEW f, NEW g,
           \A r \in SUBSET S : Cardinality(r) < Cardinality(s) => f[r] = g[r]
    PROVE  ByteStep(logs, f, s) = ByteStep(logs, g, s)
<1>1. CASE s = {}
  BY <1>1 DEF ByteStep
<1>2. CASE s # {}
  <2> DEFINE x == CHOOSE e \in s : TRUE
  <2>1. x \in s
    BY <1>2
  <2> HIDE DEF x
  <2>2. s \ {x} \in SUBSET S /\ Cardinality(s \ {x}) < Cardinality(s)
    <3>1. /\ s \ {x} \in SUBSET S /\ Cardinality(s) \in Nat
          /\ Cardinality(s \ {x}) = Cardinality(s) - 1
      BY <2>1, TakeOut
    <3> QED
      BY <3>1
  <2>3. f[s \ {x}] = g[s \ {x}]
    BY <2>2
  <2> QED
    BY <1>2, <2>3 DEF ByteStep, x
<1> QED
  BY <1>1, <1>2

\* A function on the subsets of S that solves the recursion.
SumsOver(logs, S, f) == f = [s \in SUBSET S |-> ByteStep(logs, f, s)]

\* So there is a solution on all subsets of a finite set.
LEMMA SumExists ==
    ASSUME NEW logs, NEW S, IsFiniteSet(S)
    PROVE  \E f : SumsOver(logs, S, f)
<1> DEFINE Bad == {n \in Nat : ~\E f : SolvesTo(logs, S, n, f)}
<1>1. Bad = {}
  <2> SUFFICES ASSUME Bad # {} PROVE FALSE
    OBVIOUS
  <2>1. PICK n \in Nat : n \in Bad /\ \A k \in Bad : n <= k
    <3>1. Bad \subseteq Nat
      OBVIOUS
    <3> HIDE DEF Bad
    <3> QED
      BY <3>1, LeastNumber
  <2>2. \A s \in SUBSET S : Cardinality(s) \in Nat
    BY FS_Subset, FS_CardinalityType
  <2>3. PICK f : \A s \in SUBSET S : Cardinality(s) < n => f[s] = ByteStep(logs, f, s)
    <3>1. CASE n = 0
      BY <2>2, <3>1
    <3>2. CASE n # 0
      <4>1. n - 1 \in Nat /\ ~(n <= n - 1)
        BY <3>2
      <4>2. n - 1 \notin Bad
        <5> HIDE DEF Bad
        <5> QED
          BY <2>1, <4>1
      <4>3. PICK g : SolvesTo(logs, S, n - 1, g)
        BY <4>1, <4>2
      <4>4. \A s \in SUBSET S : Cardinality(s) < n => Cardinality(s) <= n - 1
        BY <2>2
      <4> QED
        BY <4>3, <4>4 DEF SolvesTo
    <3> QED
      BY <3>1, <3>2
  <2> DEFINE h == [s \in SUBSET S |-> IF Cardinality(s) < n THEN f[s] ELSE ByteStep(logs, f, s)]
  <2>4. \A r \in SUBSET S : Cardinality(r) < n => h[r] = f[r]
    OBVIOUS
  <2>5. ASSUME NEW s \in SUBSET S, Cardinality(s) <= n PROVE h[s] = ByteStep(logs, h, s)
    <3>1. h[s] = ByteStep(logs, f, s)
      BY <2>3
    <3> HIDE DEF h
    <3>2. \A r \in SUBSET S : Cardinality(r) < Cardinality(s) => f[r] = h[r]
      <4>1. \A r \in SUBSET S : Cardinality(r) < Cardinality(s) => Cardinality(r) < n
        BY <2>2, <2>5
      <4> QED
        BY <2>4, <4>1
    <3>3. ByteStep(logs, f, s) = ByteStep(logs, h, s)
      BY <3>2, StepAsks
    <3> QED
      BY <3>1, <3>3
  <2> HIDE DEF h
  <2>6. SolvesTo(logs, S, n, h)
    BY <2>5 DEF SolvesTo
  <2>7. n \notin Bad
    BY <2>6
  <2> QED
    BY <2>1, <2>7
<1>2. Cardinality(S) \in Nat /\ \A s \in SUBSET S : Cardinality(s) <= Cardinality(S)
  BY FS_Subset, FS_CardinalityType
<1>3. PICK g : SolvesTo(logs, S, Cardinality(S), g)
  BY <1>1, <1>2
<1> DEFINE f == [s \in SUBSET S |-> g[s]]
<1>4. ASSUME NEW s \in SUBSET S PROVE f[s] = ByteStep(logs, f, s)
  <2>1. f[s] = ByteStep(logs, g, s)
    BY <1>2, <1>3 DEF SolvesTo
  <2>2. \A r \in SUBSET S : Cardinality(r) < Cardinality(s) => g[r] = f[r]
    OBVIOUS
  <2> HIDE DEF f
  <2>3. ByteStep(logs, g, s) = ByteStep(logs, f, s)
    BY <2>2, StepAsks
  <2> QED
    BY <2>1, <2>3
<1>5. f = [s \in SUBSET S |-> f[s]]
  OBVIOUS
<1> HIDE DEF f
<1>6. f = [s \in SUBSET S |-> ByteStep(logs, f, s)]
  BY <1>4, <1>5
<1> QED
  BY <1>6 DEF SumsOver

\* Bytes is the value of a solution, at the set itself.
LEMMA BytesIs ==
    ASSUME NEW logs, NEW S, IsFiniteSet(S)
    PROVE  \E f : SumsOver(logs, S, f) /\ Bytes(logs, S) = f[S]
<1> DEFINE It == CHOOSE it : it = [s \in SUBSET S |->
                    IF s = {} THEN 0
                    ELSE LET x == CHOOSE e \in s : TRUE
                         IN  logs[x[1]][x[2]].len + it[s \ {x}]]
           Jt == CHOOSE it : it = [s \in SUBSET S |-> ByteStep(logs, it, s)]
<1>1. Bytes(logs, S) = It[S]
  BY DEF Bytes, MapThenSumSet, MapThenFoldSet
<1>2. It = Jt
  BY DEF ByteStep
<1>3. Jt = [s \in SUBSET S |-> ByteStep(logs, Jt, s)]
  BY SumExists DEF SumsOver
<1> HIDE DEF It, Jt
<1> QED
  BY <1>1, <1>2, <1>3 DEF SumsOver

\* Two solutions agree wherever both are defined.
LEMMA SumsAgree ==
    ASSUME NEW logs, NEW S, NEW T, IsFiniteSet(S), T \subseteq S,
           NEW f, SumsOver(logs, S, f), NEW g, SumsOver(logs, T, g)
    PROVE  f[T] = g[T]
<1> DEFINE Bad == {n \in Nat : \E s \in SUBSET T : Cardinality(s) = n /\ f[s] # g[s]}
<1>1. Bad = {}
  <2> SUFFICES ASSUME Bad # {} PROVE FALSE
    OBVIOUS
  <2>1. PICK n \in Nat : n \in Bad /\ \A k \in Bad : n <= k
    <3>1. Bad \subseteq Nat
      OBVIOUS
    <3> HIDE DEF Bad
    <3> QED
      BY <3>1, LeastNumber
  <2>2. PICK s \in SUBSET T : Cardinality(s) = n /\ f[s] # g[s]
    BY <2>1
  <2>3. IsFiniteSet(T) /\ s \in SUBSET S
    BY FS_Subset
  <2>4. ASSUME NEW r \in SUBSET T, Cardinality(r) < n PROVE f[r] = g[r]
    <3>1. Cardinality(r) \in Nat
      BY <2>3, FS_Subset, FS_CardinalityType
    <3>2. Cardinality(r) \notin Bad
      <4> HIDE DEF Bad
      <4> QED
        BY <2>1, <2>4, <3>1
    <3> QED
      BY <3>1, <3>2
  <2>5. ByteStep(logs, f, s) = ByteStep(logs, g, s)
    <3>1. \A r \in SUBSET T : Cardinality(r) < Cardinality(s) => f[r] = g[r]
      BY <2>2, <2>4
    <3>2. IsFiniteSet(T) /\ s \in SUBSET T
      BY <2>3
    <3> QED
      BY <3>1, <3>2, StepAsks
  <2>6. f[s] = ByteStep(logs, f, s) /\ g[s] = ByteStep(logs, g, s)
    BY <2>3 DEF SumsOver
  <2> QED
    BY <2>2, <2>5, <2>6
<1>2. Cardinality(T) \in Nat
  BY FS_Subset, FS_CardinalityType
<1>3. Cardinality(T) \notin Bad
  BY <1>1
<1> QED
  BY <1>2, <1>3

\* Entries whose lines have a length.
Measured(logs, S) == IsFiniteSet(S) /\ \A e \in S : logs[e[1]][e[2]].len \in Nat

LEMMA MeasuredPart ==
    ASSUME NEW logs, NEW S, Measured(logs, S), NEW T \in SUBSET S PROVE Measured(logs, T)
BY FS_Subset DEF Measured

\* The bytes of a set: those of the element the fold takes first, and those of the rest.
LEMMA BytesFirst ==
    ASSUME NEW logs, NEW S, Measured(logs, S)
    PROVE  /\ S = {} => Bytes(logs, S) = 0
           /\ S # {} => \E x \in S :
                  Bytes(logs, S) = logs[x[1]][x[2]].len + Bytes(logs, S \ {x})
<1>1. IsFiniteSet(S)
  BY DEF Measured
<1>2. PICK f : SumsOver(logs, S, f) /\ Bytes(logs, S) = f[S]
  BY <1>1, BytesIs
<1>3. f[S] = ByteStep(logs, f, S)
  BY <1>2 DEF SumsOver
<1>4. CASE S = {}
  BY <1>2, <1>3, <1>4 DEF ByteStep
<1>5. CASE S # {}
  <2> DEFINE x == CHOOSE e \in S : TRUE
  <2>1. x \in S
    BY <1>5
  <2>2. f[S] = logs[x[1]][x[2]].len + f[S \ {x}]
    BY <1>3, <1>5 DEF ByteStep
  <2> HIDE DEF x
  <2>3. IsFiniteSet(S \ {x}) /\ S \ {x} \subseteq S
    BY <1>1, FS_RemoveElement
  <2>4. PICK g : SumsOver(logs, S \ {x}, g) /\ Bytes(logs, S \ {x}) = g[S \ {x}]
    BY <2>3, BytesIs
  <2>5. f[S \ {x}] = g[S \ {x}]
    BY <1>1, <1>2, <2>3, <2>4, SumsAgree
  <2> QED
    BY <1>2, <1>5, <2>1, <2>2, <2>4, <2>5
<1> QED
  BY <1>4, <1>5

\* Every element counts in the same way, and the sum is a number.
LEMMA BytesTake ==
    ASSUME NEW logs, NEW S, Measured(logs, S)
    PROVE  /\ Bytes(logs, S) \in Nat
           /\ \A e \in S : Bytes(logs, S) = logs[e[1]][e[2]].len + Bytes(logs, S \ {e})
<1> DEFINE Fine(T) ==
              /\ Bytes(logs, T) \in Nat
              /\ \A e \in T : Bytes(logs, T) = logs[e[1]][e[2]].len + Bytes(logs, T \ {e})
           Bad == {n \in Nat : \E T \in SUBSET S : Cardinality(T) = n /\ ~Fine(T)}
<1>0. IsFiniteSet(S)
  BY DEF Measured
<1>1. Bad = {}
  <2> SUFFICES ASSUME Bad # {} PROVE FALSE
    OBVIOUS
  <2>1. PICK n \in Nat : n \in Bad /\ \A k \in Bad : n <= k
    <3>1. Bad \subseteq Nat
      OBVIOUS
    <3> HIDE DEF Bad
    <3> QED
      BY <3>1, LeastNumber
  <2>2. PICK T \in SUBSET S : Cardinality(T) = n /\ ~Fine(T)
    BY <2>1
  <2>3. ASSUME NEW U \in SUBSET S, Cardinality(U) < n PROVE Fine(U)
    <3>1. Cardinality(U) \in Nat
      BY <1>0, FS_Subset, FS_CardinalityType
    <3>2. Cardinality(U) \notin Bad
      <4> HIDE DEF Bad
      <4> QED
        BY <2>1, <2>3, <3>1
    <3> HIDE DEF Fine
    <3> QED
      BY <3>1, <3>2
  <2>4. Measured(logs, T)
    BY MeasuredPart
  <2>5. T # {}
    BY <2>2, <2>4, BytesFirst
  <2>6. PICK x \in T : Bytes(logs, T) = logs[x[1]][x[2]].len + Bytes(logs, T \ {x})
    BY <2>4, <2>5, BytesFirst
  <2>7. ASSUME NEW y \in T
        PROVE  T \ {y} \in SUBSET S /\ Fine(T \ {y}) /\ logs[y[1]][y[2]].len \in Nat
    <3>1. T \ {y} \in SUBSET S /\ Cardinality(T \ {y}) = n - 1 /\ n - 1 < n
      <4>1. /\ T \ {y} \in SUBSET S /\ Cardinality(T \ {y}) = Cardinality(T) - 1
            /\ Cardinality(T) \in Nat
        BY <1>0, TakeOut
      <4> QED
        BY <2>2, <4>1
    <3>2. Fine(T \ {y})
      <4> HIDE DEF Fine
      <4> QED
        BY <2>3, <3>1
    <3>3. logs[y[1]][y[2]].len \in Nat
      BY DEF Measured
    <3> HIDE DEF Fine
    <3> QED
      BY <3>1, <3>2, <3>3
  <2>8. Bytes(logs, T) \in Nat
    BY <2>6, <2>7
  <2>9. ASSUME NEW e \in T, e # x
        PROVE  Bytes(logs, T) = logs[e[1]][e[2]].len + Bytes(logs, T \ {e})
    <3> DEFINE V == (T \ {x}) \ {e}
               a == logs[x[1]][x[2]].len
               b == logs[e[1]][e[2]].len
    <3>1. V = (T \ {e}) \ {x}
      OBVIOUS
    <3>2. Bytes(logs, T \ {x}) = b + Bytes(logs, V)
      BY <2>7, <2>9
    <3>3. Bytes(logs, T \ {e}) = a + Bytes(logs, (T \ {e}) \ {x})
      BY <2>7, <2>9
    <3>4. a \in Nat /\ b \in Nat /\ Bytes(logs, T \ {e}) \in Nat /\ Bytes(logs, T \ {x}) \in Nat
      BY <2>7
    <3>5. Bytes(logs, V) \in Nat
      <4>1. V \in SUBSET S /\ Cardinality(V) < n
        <5>0. /\ T \ {x} \in SUBSET S /\ Cardinality(T) \in Nat
              /\ Cardinality(T \ {x}) = Cardinality(T) - 1
          BY <1>0, TakeOut
        <5>1. T \ {x} \in SUBSET S /\ e \in T \ {x} /\ Cardinality(T \ {x}) = n - 1
          BY <2>2, <2>7, <2>9, <5>0
        <5>2. V \in SUBSET S /\ Cardinality(V) = Cardinality(T \ {x}) - 1
          BY <1>0, <5>1, TakeOut
        <5> QED
          BY <5>1, <5>2
      <4> HIDE DEF V
      <4>2. Fine(V)
        <5> HIDE DEF Fine
        <5> QED
          BY <2>3, <4>1
      <4> QED
        BY <4>2
    <3>6. Bytes(logs, T) = a + Bytes(logs, T \ {x})
      BY <2>6
    <3>7. Bytes(logs, T \ {e}) = a + Bytes(logs, V)
      BY <3>1, <3>3
    <3> HIDE DEF a, b, V
    <3>8. Bytes(logs, T) = b + Bytes(logs, T \ {e})
      BY <3>2, <3>4, <3>5, <3>6, <3>7
    <3> QED
      BY <3>8 DEF b
  <2>10. Fine(T)
    BY <2>6, <2>8, <2>9
  <2> QED
    BY <2>2, <2>10
<1>2. Cardinality(S) \in Nat
  BY <1>0, FS_CardinalityType
<1>3. Cardinality(S) \notin Bad
  BY <1>1
<1>4. Fine(S)
  <2> HIDE DEF Fine
  <2> QED
    BY <1>2, <1>3
<1> QED
  BY <1>4

\* A larger set has as many bytes at least.
LEMMA BytesMore ==
    ASSUME NEW logs, NEW S, Measured(logs, S), NEW T \in SUBSET S
    PROVE  Bytes(logs, T) <= Bytes(logs, S)
<1> DEFINE Bad == {n \in Nat : \E U \in SUBSET S : /\ Cardinality(U) = n /\ T \subseteq U
                                                   /\ ~(Bytes(logs, T) <= Bytes(logs, U))}
<1>0. IsFiniteSet(S) /\ Bytes(logs, T) \in Nat
  BY MeasuredPart, BytesTake DEF Measured
<1>1. Bad = {}
  <2> SUFFICES ASSUME Bad # {} PROVE FALSE
    OBVIOUS
  <2>1. PICK n \in Nat : n \in Bad /\ \A k \in Bad : n <= k
    <3>1. Bad \subseteq Nat
      OBVIOUS
    <3> HIDE DEF Bad
    <3> QED
      BY <3>1, LeastNumber
  <2>2. PICK U \in SUBSET S : /\ Cardinality(U) = n /\ T \subseteq U
                              /\ ~(Bytes(logs, T) <= Bytes(logs, U))
    BY <2>1
  <2>3. PICK e \in U : e \notin T
    <3>1. U # T
      BY <1>0, <2>2
    <3> QED
      BY <2>2, <3>1
  <2> DEFINE V == U \ {e}
  <2>4. /\ V \in SUBSET S /\ T \subseteq V /\ Cardinality(V) = Cardinality(U) - 1
        /\ Cardinality(V) \in Nat
    <3>1. /\ U \ {e} \in SUBSET S /\ Cardinality(U \ {e}) = Cardinality(U) - 1
          /\ Cardinality(U) - 1 \in Nat
      BY <1>0, TakeOut
    <3> QED
      BY <2>2, <2>3, <3>1
  <2> HIDE DEF V
  <2>5. Cardinality(V) \notin Bad
    <3>1. ~(n <= Cardinality(V))
      BY <2>2, <2>4
    <3> HIDE DEF Bad
    <3> QED
      BY <2>1, <3>1
  <2>6. Bytes(logs, T) <= Bytes(logs, V)
    BY <2>4, <2>5
  <2>7. Bytes(logs, U) = logs[e[1]][e[2]].len + Bytes(logs, V) /\ logs[e[1]][e[2]].len \in Nat
    <3>1. Measured(logs, U)
      BY MeasuredPart
    <3>2. Bytes(logs, U) = logs[e[1]][e[2]].len + Bytes(logs, U \ {e})
      BY <3>1, BytesTake
    <3>3. logs[e[1]][e[2]].len \in Nat
      BY <3>1 DEF Measured
    <3> QED
      BY <3>2, <3>3 DEF V
  <2>8. Bytes(logs, V) \in Nat
    BY <2>4, MeasuredPart, BytesTake
  <2> QED
    BY <1>0, <2>2, <2>6, <2>7, <2>8
<1>2. Cardinality(S) \in Nat
  BY <1>0, FS_CardinalityType
<1>3. Cardinality(S) \notin Bad
  BY <1>1
<1> QED
  BY <1>2, <1>3

\* Valid lines have two bytes each at least.
LEMMA BytesOfValid ==
    ASSUME NEW logs, NEW S, Measured(logs, S), \A e \in S : Valid(logs[e[1]][e[2]])
    PROVE  2 * Cardinality(S) <= Bytes(logs, S)
<1> DEFINE Bad == {n \in Nat : \E U \in SUBSET S : /\ Cardinality(U) = n
                                                   /\ ~(2 * n <= Bytes(logs, U))}
<1>0. IsFiniteSet(S)
  BY DEF Measured
<1>1. Bad = {}
  <2> SUFFICES ASSUME Bad # {} PROVE FALSE
    OBVIOUS
  <2>1. PICK n \in Nat : n \in Bad /\ \A k \in Bad : n <= k
    <3>1. Bad \subseteq Nat
      OBVIOUS
    <3> HIDE DEF Bad
    <3> QED
      BY <3>1, LeastNumber
  <2>2. PICK U \in SUBSET S : Cardinality(U) = n /\ ~(2 * n <= Bytes(logs, U))
    BY <2>1
  <2>3. Measured(logs, U) /\ IsFiniteSet(U) /\ Bytes(logs, U) \in Nat
    BY MeasuredPart, BytesTake DEF Measured
  <2>4. PICK e : e \in U
    <3>1. n # 0
      BY <2>2, <2>3
    <3>2. U # {}
      BY <2>2, <3>1, FS_EmptySet
    <3> QED
      BY <3>2
  <2> DEFINE V == U \ {e}
  <2>5. V \in SUBSET S /\ Cardinality(V) = n - 1 /\ n - 1 \in Nat
    <3>1. /\ U \ {e} \in SUBSET S /\ Cardinality(U \ {e}) = Cardinality(U) - 1
          /\ Cardinality(U) - 1 \in Nat
      BY <1>0, <2>4, TakeOut
    <3> QED
      BY <2>2, <3>1
  <2>6. Bytes(logs, U) = logs[e[1]][e[2]].len + Bytes(logs, V) /\ Bytes(logs, V) \in Nat
    <3>1. Bytes(logs, U) = logs[e[1]][e[2]].len + Bytes(logs, U \ {e})
      BY <2>3, <2>4, BytesTake
    <3>2. Measured(logs, V)
      BY <2>5, MeasuredPart
    <3> HIDE DEF V
    <3>3. Bytes(logs, V) \in Nat
      BY <3>2, BytesTake
    <3> QED
      BY <3>1, <3>3 DEF V
  <2> HIDE DEF V
  <2>7. n - 1 \notin Bad
    <3>1. ~(n <= n - 1)
      OBVIOUS
    <3> HIDE DEF Bad
    <3> QED
      BY <2>1, <3>1
  <2>8. 2 * (n - 1) <= Bytes(logs, V)
    BY <2>5, <2>7
  <2>9. logs[e[1]][e[2]].len >= 2 /\ logs[e[1]][e[2]].len \in Nat
    BY <2>3, <2>4 DEF Valid, Measured
  <2> QED
    BY <2>2, <2>3, <2>6, <2>8, <2>9
<1>2. Cardinality(S) \in Nat
  BY <1>0, FS_CardinalityType
<1>3. Cardinality(S) \notin Bad
  BY <1>1
<1> QED
  BY <1>2, <1>3

\* The two lengths of a packet: each comma is one digit of the text and one byte.
LEMMA LengthsAre ==
    ASSUME NEW logs, NEW S, Measured(logs, S)
    PROVE  /\ HexLen(logs, S) \in Nat /\ RawLen(logs, S) \in Nat /\ Commas(S) \in Nat
           /\ Bytes(logs, S) \in Nat /\ Cardinality(S) \in Nat
           /\ HexLen(logs, S) = 2 * Bytes(logs, S) + Commas(S)
           /\ RawLen(logs, S) = Bytes(logs, S) + Commas(S)
           /\ Cardinality(S) = 0 => Commas(S) = 0
           /\ Cardinality(S) # 0 => Commas(S) = Cardinality(S) - 1
<1>1. IsFiniteSet(S) /\ Cardinality(S) \in Nat /\ (Cardinality(S) = 0 <=> S = {})
  BY FS_CardinalityType, FS_EmptySet DEF Measured
<1>2. Bytes(logs, S) \in Nat
  BY BytesTake
<1>3. /\ Cardinality(S) = 0 => Commas(S) = 0
      /\ Cardinality(S) # 0 => Commas(S) = Cardinality(S) - 1
  BY <1>1 DEF Commas
<1>4. Commas(S) \in Nat
  BY <1>1, <1>3
<1> QED
  BY <1>1, <1>2, <1>3, <1>4 DEF HexLen, RawLen

\* What fits still fits when entries are taken out.
LEMMA LessFits ==
    ASSUME NEW logs, NEW S, Measured(logs, S), NEW T \in SUBSET S
    PROVE  /\ Fits4G(logs, S) => Fits4G(logs, T)
           /\ FitsBD(logs, S) => FitsBD(logs, T)
<1>1. Measured(logs, T) /\ Bytes(logs, T) <= Bytes(logs, S)
  BY MeasuredPart, BytesMore
<1>2. Cardinality(T) <= Cardinality(S)
  BY FS_Subset DEF Measured
<1>3. PICK s \in Nat, t \in Nat : s = Cardinality(S) /\ t = Cardinality(T) /\ t <= s
  BY <1>1, <1>2, LengthsAre
<1>4. Commas(T) <= Commas(S)
  <2>1. /\ (s = 0 => Commas(S) = 0) /\ (s # 0 => Commas(S) = s - 1)
        /\ (t = 0 => Commas(T) = 0) /\ (t # 0 => Commas(T) = t - 1)
    BY <1>1, <1>3, LengthsAre
  <2> QED
    BY <1>3, <2>1
<1>5. PICK a \in Nat, b \in Nat, c \in Nat, d \in Nat :
         a = Bytes(logs, S) /\ b = Bytes(logs, T) /\ c = Commas(S) /\ d = Commas(T)
  BY <1>1, LengthsAre
<1>6. HexLen(logs, T) <= HexLen(logs, S) /\ RawLen(logs, T) <= RawLen(logs, S)
  <2>1. /\ HexLen(logs, S) = 2 * a + c /\ HexLen(logs, T) = 2 * b + d
        /\ RawLen(logs, S) = a + c /\ RawLen(logs, T) = b + d
    BY <1>1, <1>5, LengthsAre
  <2> QED
    BY <1>1, <1>4, <1>5, <2>1
<1>7. /\ {HexLen(logs, S), HexLen(logs, T), RawLen(logs, S), RawLen(logs, T)} \subseteq Nat
      /\ {Hex4G, HexBD, RawBD} \subseteq Nat
  BY <1>1, LengthsAre, PackingAssumption DEF PackingAssumption
<1> QED
  BY <1>6, <1>7 DEF Fits4G, FitsBD
LEMMA NothingFits == ASSUME NEW logs PROVE Fits4G(logs, {}) /\ FitsBD(logs, {})
<1>1. Bytes(logs, {}) = 0
  BY BytesFirst, FS_EmptySet DEF Measured
<1> QED
  BY <1>1, PackingAssumption DEF Fits4G, FitsBD, HexLen, RawLen, Commas, PackingAssumption

-----------------------------------------------------------------------------
(* The entries of a packet, file by file.                                   *)

\* The entries of a packet, one by one.
LEMMA EntryIs ==
    ASSUME NEW logs, NEW from, NEW to, NEW p \in Nat, NEW e
    PROVE  e \in Entries(logs, from, to, p) <=>
              \E q \in 1..p : \E i \in from[q] + 1 .. to[q] :
                  e = <<q, i>> /\ Valid(logs[q][i])
<1>1. ASSUME e \in Entries(logs, from, to, p)
      PROVE  \E q \in 1..p : \E i \in from[q] + 1 .. to[q] :
                  e = <<q, i>> /\ Valid(logs[q][i])
  <2>1. PICK q \in 1..p : e \in {q} \X (from[q] + 1 .. to[q])
    BY <1>1 DEF Entries
  <2>2. Valid(logs[e[1]][e[2]])
    BY <1>1 DEF Entries
  <2>3. PICK i \in from[q] + 1 .. to[q] : e = <<q, i>>
    BY <2>1
  <2> QED
    BY <2>2, <2>3
<1>2. ASSUME NEW q \in 1..p, NEW i \in from[q] + 1 .. to[q], e = <<q, i>>, Valid(logs[q][i])
      PROVE  e \in Entries(logs, from, to, p)
  <2>1. e \in {q} \X (from[q] + 1 .. to[q])
    BY <1>2
  <2>2. Valid(logs[e[1]][e[2]])
    BY <1>2
  <2> QED
    BY <2>1, <2>2 DEF Entries
<1> QED
  BY <1>1, <1>2

\* Only the offsets of the files 1..p matter to their entries.
LEMMA EntriesOfFirst ==
    ASSUME NEW logs, NEW from, NEW to, NEW up, NEW p \in Nat, \A q \in 1..p : to[q] = up[q]
    PROVE  Entries(logs, from, to, p) = Entries(logs, from, up, p)
<1>1. \A e : e \in Entries(logs, from, to, p) <=> e \in Entries(logs, from, up, p)
  BY EntryIs
<1> QED
  BY <1>1

\* A file from which nothing is taken adds no entries.
LEMMA EntriesNone ==
    ASSUME NEW logs, NEW from, NEW to, NEW p \in Path, from[p] \in Nat, to[p] = from[p]
    PROVE  Entries(logs, from, to, p) = Entries(logs, from, to, p - 1)
<1>0. p \in Nat /\ p - 1 \in Nat /\ 1..p = 1..p - 1 \cup {p}
  BY PackingAssumption DEF Path, PackingAssumption
<1>1. from[p] + 1 .. to[p] = {}
  BY <1>0
<1>2. \A e : e \in Entries(logs, from, to, p) <=> e \in Entries(logs, from, to, p - 1)
  BY <1>0, <1>1, EntryIs
<1> QED
  BY <1>2

\* The offset of file p moves on, over invalid lines, to the end of one more line.
MovesOver(logs, from, to, up, p) ==
    /\ \A q \in 1..p - 1 : to[q] = up[q]
    /\ {from[p], to[p], up[p]} \subseteq Nat /\ from[p] <= to[p] /\ to[p] < up[p]
    /\ \A i \in to[p] + 1 .. up[p] - 1 : ~Valid(logs[p][i])

\* That adds the line, if it is valid.
LEMMA EntriesStep ==
    ASSUME NEW logs, NEW from, NEW to, NEW up, NEW p \in Path,
           MovesOver(logs, from, to, up, p)
    PROVE  /\ Valid(logs[p][up[p]]) =>
                  Entries(logs, from, up, p) = Entries(logs, from, to, p) \cup {<<p, up[p]>>}
           /\ ~Valid(logs[p][up[p]]) =>
                  Entries(logs, from, up, p) = Entries(logs, from, to, p)
<1>0. p \in Nat /\ p - 1 \in Nat /\ 1..p = 1..p - 1 \cup {p}
  BY PackingAssumption DEF Path, PackingAssumption
<1>1. PICK f \in Nat, t \in Nat, u \in Nat : f = from[p] /\ t = to[p] /\ u = up[p] /\ f <= t /\ t < u
  BY DEF MovesOver
<1>1a. /\ \A q \in 1..p - 1 : to[q] = up[q]
       /\ \A i \in t + 1 .. u - 1 : ~Valid(logs[p][i])
  BY <1>1 DEF MovesOver
<1>2. f + 1 .. u = (f + 1 .. t) \cup (t + 1 .. u - 1) \cup {u}
  BY <1>1
<1>3. ASSUME NEW e
      PROVE  e \in Entries(logs, from, up, p) <=>
                \/ e \in Entries(logs, from, to, p)
                \/ e = <<p, u>> /\ Valid(logs[p][u])
  <2>1. e \in Entries(logs, from, up, p) <=>
           \/ \E q \in 1..p - 1 : \E i \in from[q] + 1 .. to[q] : e = <<q, i>> /\ Valid(logs[q][i])
           \/ \E i \in f + 1 .. u : e = <<p, i>> /\ Valid(logs[p][i])
    BY <1>0, <1>1, <1>1a, EntryIs
  <2>2. e \in Entries(logs, from, to, p) <=>
           \/ \E q \in 1..p - 1 : \E i \in from[q] + 1 .. to[q] : e = <<q, i>> /\ Valid(logs[q][i])
           \/ \E i \in f + 1 .. t : e = <<p, i>> /\ Valid(logs[p][i])
    BY <1>0, <1>1, <1>1a, EntryIs
  <2>3. (\E i \in f + 1 .. u : e = <<p, i>> /\ Valid(logs[p][i])) <=>
           \/ \E i \in f + 1 .. t : e = <<p, i>> /\ Valid(logs[p][i])
           \/ e = <<p, u>> /\ Valid(logs[p][u])
    BY <1>1, <1>1a, <1>2
  <2> QED
    BY <2>1, <2>2, <2>3
<1> QED
  BY <1>1, <1>3

\* The files up to a file.
LEMMA UpTo ==
    ASSUME NEW m \in Path
    PROVE  m \in Nat /\ m - 1 \in Nat /\ 1..m = 1..m - 1 \cup {m} /\ 1..m \subseteq Path
<1>1. NPaths \in Nat /\ m \in 1..NPaths
  BY PackingAssumption DEF PackingAssumption, Path
<1>2. 1..m \subseteq 1..NPaths
  BY <1>1
<1>3. m \in Nat /\ m - 1 \in Nat /\ 1..m = 1..m - 1 \cup {m}
  BY <1>1
<1> QED
  BY <1>2, <1>3 DEF Path

\* What can be done for one file after the other can be done for all.
LEMMA FileByFile ==
    ASSUME NEW R, R # {}, NEW G,
           \A m \in Path : \A to \in R : (\A q \in 1..m - 1 : to \in G[q]) =>
               \E up \in R : \A q \in 1..m : up \in G[q]
    PROVE  \E to \in R : \A p \in Path : to \in G[p]
<1> DEFINE Bad == {m \in 0..NPaths : ~\E to \in R : \A p \in 1..m : to \in G[p]}
<1>1. NPaths \in Nat /\ Path = 1..NPaths
  BY PackingAssumption DEF PackingAssumption, Path
<1>2. ASSUME Bad # {} PROVE FALSE
  <2>1. Bad \subseteq Nat
    BY <1>1
  <2>2. PICK m \in Bad : \A k \in Bad : m <= k
    <3> HIDE DEF Bad
    <3> QED
      BY <1>2, <2>1, LeastNumber
  <2>3. m \in 0..NPaths /\ 0 \notin Bad
    OBVIOUS
  <2>4. m \in 1..NPaths
    <3>1. m # 0
      BY <2>3
    <3> QED
      BY <1>1, <2>3, <3>1
  <2>5. m - 1 \notin Bad
    <3> HIDE DEF Bad
    <3>1. ~(m <= m - 1)
      BY <2>4
    <3> QED
      BY <2>2, <3>1
  <2>6. m - 1 \in 0..NPaths
    BY <1>1, <2>4
  <2>7. PICK to \in R : \A q \in 1..m - 1 : to \in G[q]
    BY <2>5, <2>6
  <2>8. \E up \in R : \A q \in 1..m : up \in G[q]
    BY <1>1, <2>4, <2>7
  <2> QED
    BY <2>8
<1>3. NPaths \notin Bad /\ NPaths \in 0..NPaths
  BY <1>1, <1>2
<1> QED
  BY <1>1, <1>3

\* The files before a file determine what the packet holds before that file's turn, and
\* what it then holds as long as nothing is taken from it.
LEMMA EntriesBefore ==
    ASSUME NEW logs, NEW offs, NEW m \in Path, NEW to, NEW u, offs[m] \in Nat,
           u[m] = offs[m], \A q \in 1..m - 1 : u[q] = to[q]
    PROVE  /\ Entries(logs, offs, u, m) = Entries(logs, offs, to, m - 1)
           /\ m = 1 => Entries(logs, offs, u, m) = {}
<1>1. m - 1 \in Nat
  BY PackingAssumption DEF Path, PackingAssumption
<1>2. Entries(logs, offs, u, m) = Entries(logs, offs, u, m - 1)
  BY EntriesNone
<1>3. Entries(logs, offs, u, m - 1) = Entries(logs, offs, to, m - 1)
  BY <1>1, EntriesOfFirst
<1>4. ASSUME m = 1 PROVE Entries(logs, offs, u, m - 1) = {}
  <2>1. \A e : e \notin Entries(logs, offs, u, m - 1)
    BY <1>1, <1>4, EntryIs
  <2> QED
    BY <2>1
<1> QED
  BY <1>2, <1>3, <1>4

\* There is always a 4G packing: the files are packed one by one, and in each the offset
\* that the packer reaches is the largest one with which the packet still fits.
LEMMA Packing4GExists ==
    ASSUME NEW logs, NEW offs \in [Path -> Nat], \A p \in Path : Len(logs[p]) \in Nat
    PROVE  Packings4G(logs, offs) # {}
<1> DEFINE Here(p) == {offs[p]} \cup Reach(logs, p, offs[p], Len(logs[p]))
           Taken(to, p) == Entries(logs, offs, to, p)
           Room == [Path -> UNION {Here(p) : p \in Path}]
           Packed(to, p) ==
              /\ to[p] \in Here(p)
              /\ to[p] # offs[p] => Valid(logs[p][to[p]])
              /\ Fits4G(logs, Taken(to, p))
              /\ \A j \in to[p] + 1 .. Len(logs[p]) :
                    \/ ~Valid(logs[p][j])
                    \/ \E i \in to[p] + 1 .. j - 1 : Valid(logs[p][i])
                    \/ ~Fits4G(logs, Taken(to, p) \cup {<<p, j>>})
           G == [p \in Path |-> {to \in Room : Packed(to, p)}]
<1>1. \A p \in Path : Here(p) = {offs[p]} \cup (offs[p] .. Len(logs[p]))
  BY DEF Reach
<1>2. offs \in Room
  OBVIOUS
<1>3. ASSUME NEW m \in Path, NEW to \in Room, \A q \in 1..m - 1 : to \in G[q]
      PROVE  \E up \in Room : \A q \in 1..m : up \in G[q]
  <2>4. m \in Nat /\ m - 1 \in Nat /\ 1..m = 1..m - 1 \cup {m} /\ 1..m \subseteq Path
    BY UpTo
  <2>5. \A p \in 1..m - 1 : Packed(to, p)
    BY <1>3, <2>4
  <2> DEFINE At(t) == [to EXCEPT ![m] = t]
             T == {t \in Here(m) : /\ t # offs[m] => Valid(logs[m][t])
                                   /\ Fits4G(logs, Taken(At(t), m))}
             n == Len(logs[m])
  <2>6. ASSUME NEW t \in Here(m)
        PROVE  /\ At(t) \in Room /\ At(t)[m] = t /\ \A q \in 1..m - 1 : At(t)[q] = to[q]
               /\ \A q \in 1..m - 1 : Packed(At(t), q)
    <3>1. At(t) \in Room /\ At(t)[m] = t
      BY <2>4
    <3>2. ASSUME NEW q \in 1..m - 1 PROVE At(t)[q] = to[q]
      BY <2>4
    <3>3. ASSUME NEW q \in 1..m - 1 PROVE Taken(At(t), q) = Taken(to, q)
      <4>1. q \in Nat /\ \A r \in 1..q : At(t)[r] = to[r]
        <5>1. q \in Nat /\ \A r \in 1..q : r \in 1..m - 1
          BY <2>4
        <5> QED
          BY <3>2, <5>1
      <4> HIDE DEF At
      <4> QED
        BY <4>1, EntriesOfFirst
    <3> HIDE DEF At, Here, Room, Taken
    <3> QED
      BY <2>5, <3>1, <3>2, <3>3
  <2>7. offs[m] \in T
    <3> DEFINE u == At(offs[m])
    <3>1. offs[m] \in Here(m) /\ u[m] = offs[m] /\ \A q \in 1..m - 1 : u[q] = to[q]
      BY <2>4, <2>6
    <3> HIDE DEF u
    <3>2. Taken(u, m) = Taken(to, m - 1) /\ (m = 1 => Taken(u, m) = {})
      <4>1. offs[m] \in Nat /\ u[m] = offs[m] /\ \A q \in 1..m - 1 : u[q] = to[q]
        BY <3>1
      <4>2. /\ Entries(logs, offs, u, m) = Entries(logs, offs, to, m - 1)
            /\ m = 1 => Entries(logs, offs, u, m) = {}
        BY <4>1, EntriesBefore
      <4> QED
        BY <4>2
    <3>3. Fits4G(logs, Taken(u, m))
      <4>1. m # 1 => m - 1 \in 1..m - 1
        BY <2>4
      <4> HIDE DEF Taken
      <4> QED
        BY <2>5, <3>2, <4>1, NothingFits
    <3> HIDE DEF Taken, Here, At
    <3> QED
      BY <3>1, <3>2, <3>3 DEF u
  <2>8. PICK t \in T : \A x \in T : x <= t
    <3>1. n \in Nat /\ offs[m] \in Nat
      BY <2>4
    <3>2. T \subseteq {offs[m]} \cup (offs[m] .. n)
      BY <1>1, <2>4
    <3>3. \E hi \in Nat : T \subseteq Nat /\ \A x \in T : x <= hi
      <4> HIDE DEF T, n
      <4>1. T \subseteq Nat /\ \A x \in T : x <= n \/ x = offs[m]
        <5> SUFFICES ASSUME NEW x \in T PROVE x \in Nat /\ (x <= n \/ x = offs[m])
          OBVIOUS
        <5>1. x = offs[m] \/ x \in offs[m] .. n
          BY <3>2
        <5> QED
          BY <3>1, <5>1
      <4>2. CASE offs[m] <= n
        BY <3>1, <4>1, <4>2
      <4>3. CASE ~(offs[m] <= n)
        <5>1. \A x \in T : x <= offs[m]
          BY <3>1, <4>1, <4>3
        <5> QED
          BY <3>1, <4>1, <5>1
      <4> QED
        BY <4>2, <4>3
    <3> HIDE DEF T
    <3> QED
      BY <2>7, <3>3, GreatestNumber
  <2> DEFINE u == At(t)
  <2>9. t \in Here(m) /\ u[m] = t /\ t \in Nat /\ offs[m] \in Nat /\ n \in Nat /\ offs[m] <= t
    <3>1. t \in Here(m) /\ u[m] = t
      BY <2>6
    <3>2. t \in {offs[m]} \cup (offs[m] .. n) /\ offs[m] \in Nat /\ n \in Nat
      BY <1>1, <2>4, <3>1
    <3> QED
      BY <3>1, <3>2
  <2>10. ASSUME NEW j \in t + 1 .. n
         PROVE  \/ ~Valid(logs[m][j])
                \/ \E i \in t + 1 .. j - 1 : Valid(logs[m][i])
                \/ ~Fits4G(logs, Taken(u, m) \cup {<<m, j>>})
    <3> SUFFICES ASSUME Valid(logs[m][j]), \A i \in t + 1 .. j - 1 : ~Valid(logs[m][i])
                 PROVE  ~Fits4G(logs, Taken(u, m) \cup {<<m, j>>})
      OBVIOUS
    <3> DEFINE w == At(j)
    <3>1. j \in Nat /\ t < j /\ j \in offs[m] .. n /\ j # offs[m]
      BY <2>9
    <3>2. j \in Here(m)
      BY <1>1, <2>4, <3>1
    <3>3. j \notin T
      <4> HIDE DEF T
      <4> QED
        BY <2>8, <2>9, <3>1
    <3>4. w[m] = j /\ \A q \in 1..m - 1 : u[q] = w[q]
      BY <2>6, <2>9, <3>2
    <3>5. ~Fits4G(logs, Taken(w, m))
      BY <3>1, <3>2, <3>3
    <3> HIDE DEF u, w
    <3>6. Taken(w, m) = Taken(u, m) \cup {<<m, j>>}
      <4>1. \A i \in u[m] + 1 .. w[m] - 1 : ~Valid(logs[m][i])
        BY <2>9, <3>4
      <4>2. u[m] \in Nat /\ w[m] \in Nat /\ offs[m] <= u[m] /\ u[m] < w[m] /\ w[m] = j
        BY <2>9, <3>1, <3>4
      <4>3. Valid(logs[m][w[m]])
        BY <4>2
      <4> QED
        <5>1. Entries(logs, offs, w, m) = Entries(logs, offs, u, m) \cup {<<m, w[m]>>}
          <6>1. MovesOver(logs, offs, u, w, m)
            BY <3>4, <4>1, <4>2 DEF MovesOver
          <6> QED
            BY <4>3, <6>1, EntriesStep
        <5> QED
          BY <4>2, <5>1
    <3> HIDE DEF Taken
    <3> QED
      BY <3>5, <3>6
  <2>11. Packed(u, m)
    <3>1. t # offs[m] => Valid(logs[m][t])
      OBVIOUS
    <3>2. Fits4G(logs, Taken(u, m))
      OBVIOUS
    <3> HIDE DEF u, Taken, Here, T
    <3> QED
      BY <2>9, <2>10, <3>1, <3>2
  <2>12. u \in Room /\ \A q \in 1..m : Packed(u, q)
    <3>1. \A q \in 1..m : q \in 1..m - 1 \/ q = m
      BY <2>4
    <3>2. u \in Room /\ \A q \in 1..m - 1 : Packed(u, q)
      BY <2>6, <2>9
    <3> HIDE DEF u, Packed, Room
    <3> QED
      BY <2>11, <3>1, <3>2
  <2> QED
    <3>1. \A q \in 1..m : u \in G[q]
      <4> HIDE DEF u, Packed, Room
      <4> QED
        BY <2>4, <2>12
    <3> QED
      BY <2>12, <3>1
<1>4. PICK to \in Room : \A p \in Path : to \in G[p]
  <2> HIDE DEF G, Room
  <2> QED
    BY <1>2, <1>3, FileByFile
<1>5. \A p \in Path : Packed(to, p)
  BY <1>4
<1>6. to \in Packings4G(logs, offs)
  BY <1>5 DEF Packings4G
<1> QED
  BY <1>6
\* And there is always a BeiDou packing, which stops at the batch end at the latest.
LEMMA PackingBDExists ==
    ASSUME NEW logs, NEW offs \in [Path -> Nat], NEW ends \in [Path -> Nat],
           \A p \in Path : Len(logs[p]) \in Nat
    PROVE  PackingsBD(logs, offs, ends) # {}
<1> DEFINE Here(p) == {offs[p]} \cup Reach(logs, p, offs[p], ends[p])
           End(p) == IF ends[p] < Len(logs[p]) THEN ends[p] ELSE Len(logs[p])
           Taken(to, p) == Entries(logs, offs, to, p)
           Room == [Path -> UNION {Here(p) : p \in Path}]
           Packed(to, p) ==
              /\ to[p] \in Here(p)
              /\ FitsBD(logs, Taken(to, p))
              /\ to[p] + 1 \in Here(p) =>
                    /\ Valid(logs[p][to[p] + 1])
                    /\ ~FitsBD(logs, Taken(to, p) \cup {<<p, to[p] + 1>>})
           G == [p \in Path |-> {to \in Room : Packed(to, p)}]
<1>1. \A p \in Path : Here(p) = {offs[p]} \cup (offs[p] .. End(p)) /\ End(p) \in Nat
  BY DEF Reach
<1>2. offs \in Room
  OBVIOUS
<1>3. ASSUME NEW m \in Path, NEW to \in Room, \A q \in 1..m - 1 : to \in G[q]
      PROVE  \E up \in Room : \A q \in 1..m : up \in G[q]
  <2>4. m \in Nat /\ m - 1 \in Nat /\ 1..m = 1..m - 1 \cup {m} /\ 1..m \subseteq Path
    BY UpTo
  <2>5. \A p \in 1..m - 1 : Packed(to, p)
    BY <1>3, <2>4
  <2> DEFINE At(t) == [to EXCEPT ![m] = t]
             T == {t \in Here(m) : FitsBD(logs, Taken(At(t), m))}
             n == End(m)
  <2>6. ASSUME NEW t \in Here(m)
        PROVE  /\ At(t) \in Room /\ At(t)[m] = t /\ \A q \in 1..m - 1 : At(t)[q] = to[q]
               /\ \A q \in 1..m - 1 : Packed(At(t), q)
    <3>1. At(t) \in Room /\ At(t)[m] = t
      BY <2>4
    <3>2. ASSUME NEW q \in 1..m - 1 PROVE At(t)[q] = to[q]
      BY <2>4
    <3>3. ASSUME NEW q \in 1..m - 1 PROVE Taken(At(t), q) = Taken(to, q)
      <4>1. q \in Nat /\ \A r \in 1..q : At(t)[r] = to[r]
        <5>1. q \in Nat /\ \A r \in 1..q : r \in 1..m - 1
          BY <2>4
        <5> QED
          BY <3>2, <5>1
      <4> HIDE DEF At
      <4> QED
        BY <4>1, EntriesOfFirst
    <3> HIDE DEF At, Here, Room, Taken
    <3> QED
      BY <2>5, <3>1, <3>2, <3>3
  <2>7. offs[m] \in T
    <3> DEFINE u == At(offs[m])
    <3>1. offs[m] \in Here(m) /\ u[m] = offs[m] /\ \A q \in 1..m - 1 : u[q] = to[q]
      BY <2>4, <2>6
    <3> HIDE DEF u
    <3>2. Taken(u, m) = Taken(to, m - 1) /\ (m = 1 => Taken(u, m) = {})
      <4>1. offs[m] \in Nat /\ u[m] = offs[m] /\ \A q \in 1..m - 1 : u[q] = to[q]
        BY <3>1
      <4>2. /\ Entries(logs, offs, u, m) = Entries(logs, offs, to, m - 1)
            /\ m = 1 => Entries(logs, offs, u, m) = {}
        BY <4>1, EntriesBefore
      <4> QED
        BY <4>2
    <3>3. FitsBD(logs, Taken(u, m))
      <4>1. m # 1 => m - 1 \in 1..m - 1
        BY <2>4
      <4> HIDE DEF Taken
      <4> QED
        BY <2>5, <3>2, <4>1, NothingFits
    <3> HIDE DEF Taken, Here, At
    <3> QED
      BY <3>1, <3>2, <3>3 DEF u
  <2>8. PICK t \in T : \A x \in T : x <= t
    <3>1. n \in Nat /\ offs[m] \in Nat
      BY <1>1, <2>4
    <3>2. T \subseteq {offs[m]} \cup (offs[m] .. n)
      BY <1>1, <2>4
    <3>3. \E hi \in Nat : T \subseteq Nat /\ \A x \in T : x <= hi
      <4> HIDE DEF T, n
      <4>1. T \subseteq Nat /\ \A x \in T : x <= n \/ x = offs[m]
        <5> SUFFICES ASSUME NEW x \in T PROVE x \in Nat /\ (x <= n \/ x = offs[m])
          OBVIOUS
        <5>1. x = offs[m] \/ x \in offs[m] .. n
          BY <3>2
        <5> QED
          BY <3>1, <5>1
      <4>2. CASE offs[m] <= n
        BY <3>1, <4>1, <4>2
      <4>3. CASE ~(offs[m] <= n)
        <5>1. \A x \in T : x <= offs[m]
          BY <3>1, <4>1, <4>3
        <5> QED
          BY <3>1, <4>1, <5>1
      <4> QED
        BY <4>2, <4>3
    <3> HIDE DEF T
    <3> QED
      BY <2>7, <3>3, GreatestNumber
  <2> DEFINE u == At(t)
  <2>9. t \in Here(m) /\ u[m] = t /\ t \in Nat /\ offs[m] \in Nat /\ n \in Nat /\ offs[m] <= t
    <3>1. t \in Here(m) /\ u[m] = t
      BY <2>6
    <3>2. t \in {offs[m]} \cup (offs[m] .. n) /\ offs[m] \in Nat /\ n \in Nat
      BY <1>1, <2>4, <3>1
    <3> QED
      BY <3>1, <3>2
  <2>10. ASSUME t + 1 \in Here(m)
         PROVE  /\ Valid(logs[m][t + 1])
                /\ ~FitsBD(logs, Taken(u, m) \cup {<<m, t + 1>>})
    <3> DEFINE j == t + 1
               w == At(j)
    <3>1. j \in Nat /\ t < j /\ j \in Here(m)
      BY <2>9, <2>10
    <3>2. j \notin T
      <4> HIDE DEF T
      <4>1. ~(j <= t)
        BY <2>9
      <4> QED
        BY <2>8, <4>1
    <3>3. w[m] = j /\ \A q \in 1..m - 1 : u[q] = w[q]
      BY <2>6, <2>9, <3>1
    <3>4. ~FitsBD(logs, Taken(w, m)) /\ FitsBD(logs, Taken(u, m))
      BY <3>1, <3>2
    <3>5. u[m] = t /\ w[m] = t + 1
      BY <2>9, <3>3
    <3> HIDE DEF u, w
    <3>6. /\ Valid(logs[m][j]) => Taken(w, m) = Taken(u, m) \cup {<<m, j>>}
          /\ ~Valid(logs[m][j]) => Taken(w, m) = Taken(u, m)
      <4>1. \A i \in u[m] + 1 .. w[m] - 1 : ~Valid(logs[m][i])
        BY <2>9, <3>5
      <4>2. u[m] \in Nat /\ w[m] \in Nat /\ offs[m] <= u[m] /\ u[m] < w[m]
        <5>1. offs[m] \in Nat /\ t \in Nat /\ offs[m] <= t
          BY <2>9
        <5> QED
          BY <3>5, <5>1
      <4>3. \A q \in 1..m - 1 : u[q] = w[q]
        BY <3>3
      <4>4. /\ Valid(logs[m][w[m]]) =>
                  Entries(logs, offs, w, m) = Entries(logs, offs, u, m) \cup {<<m, w[m]>>}
            /\ ~Valid(logs[m][w[m]]) => Entries(logs, offs, w, m) = Entries(logs, offs, u, m)
        <5>1. MovesOver(logs, offs, u, w, m)
          BY <4>1, <4>2, <4>3 DEF MovesOver
        <5> QED
          BY <5>1, EntriesStep
      <4> QED
        BY <3>5, <4>4
    <3> HIDE DEF Taken
    <3> QED
      BY <3>4, <3>6
  <2>11. Packed(u, m)
    <3>1. FitsBD(logs, Taken(u, m))
      OBVIOUS
    <3> HIDE DEF u, Taken, Here, T
    <3> QED
      BY <2>9, <2>10, <3>1
  <2>12. u \in Room /\ \A q \in 1..m : Packed(u, q)
    <3>1. \A q \in 1..m : q \in 1..m - 1 \/ q = m
      BY <2>4
    <3>2. u \in Room /\ \A q \in 1..m - 1 : Packed(u, q)
      BY <2>6, <2>9
    <3> HIDE DEF u, Packed, Room
    <3> QED
      BY <2>11, <3>1, <3>2
  <2> QED
    <3>1. \A q \in 1..m : u \in G[q]
      <4> HIDE DEF u, Packed, Room
      <4> QED
        BY <2>4, <2>12
    <3> QED
      BY <2>12, <3>1
<1>4. PICK to \in Room : \A p \in Path : to \in G[p]
  <2> HIDE DEF G, Room
  <2> QED
    BY <1>2, <1>3, FileByFile
<1>5. \A p \in Path : Packed(to, p)
  BY <1>4
<1>6. to \in PackingsBD(logs, offs, ends)
  BY <1>5 DEF PackingsBD
<1> QED
  BY <1>6
-----------------------------------------------------------------------------
(* There is exactly one packing, and what it holds.                         *)

\* Lines whose payload has a length, as they are in every file.
Readable(logs) ==
    \A p \in Path : Len(logs[p]) \in Nat /\ \A i \in 1..Len(logs[p]) : logs[p][i].len \in Nat

\* The offsets a packing may give: where they are, or at a line of the file.
Within(logs, offs, to) ==
    /\ to \in [Path -> Nat]
    /\ \A p \in Path : to[p] = offs[p] \/ to[p] \in offs[p]..Len(logs[p])

LEMMA EntriesMeasured ==
    ASSUME NEW logs, Readable(logs), NEW offs \in [Path -> Nat], NEW to, Within(logs, offs, to),
           NEW p \in 0..NPaths
    PROVE  /\ Measured(logs, Entries(logs, offs, to, p))
           /\ \A e \in Entries(logs, offs, to, p) : Valid(logs[e[1]][e[2]])
<1> DEFINE E == Entries(logs, offs, to, p)
           Block(q) == {q} \X (offs[q] + 1 .. to[q])
           A == {Block(q) : q \in 1..p}
           f == [q \in 1..p |-> Block(q)]
<1>1. p \in Nat /\ 1..p \subseteq Path
  BY PackingAssumption DEF PackingAssumption, Path
<1>2. ASSUME NEW q \in 1..p PROVE IsFiniteSet(Block(q))
  <2>1. IsFiniteSet({q}) /\ IsFiniteSet(offs[q] + 1 .. to[q])
    <3>1. offs[q] + 1 \in Int /\ to[q] \in Int
      BY <1>1 DEF Within
    <3> QED
      BY <3>1, FS_Singleton, FS_Interval
  <2> QED
    BY <2>1, FS_Product
<1>3. IsFiniteSet(A)
  <2>1. IsFiniteSet(1..p)
    BY <1>1, FS_Interval
  <2>2. f \in Surjection(1..p, A)
    BY DEF Surjection
  <2> HIDE DEF f, A
  <2> QED
    BY <2>1, <2>2, FS_Surjection
<1>4. IsFiniteSet(UNION A)
  <2>1. \A T \in A : IsFiniteSet(T)
    BY <1>2
  <2> HIDE DEF A
  <2> QED
    BY <1>3, <2>1, FS_UNION
<1>5. E \in SUBSET UNION A
  BY DEF Entries
<1>6. IsFiniteSet(E)
  <2> HIDE DEF E, A
  <2> QED
    BY <1>4, <1>5, FS_Subset
<1>7. ASSUME NEW e \in E
      PROVE  Valid(logs[e[1]][e[2]]) /\ logs[e[1]][e[2]].len \in Nat
  <2>1. PICK q \in 1..p : \E i \in offs[q] + 1 .. to[q] : e = <<q, i>> /\ Valid(logs[q][i])
    BY <1>1, EntryIs
  <2>2. PICK i \in offs[q] + 1 .. to[q] : e = <<q, i>> /\ Valid(logs[q][i])
    BY <2>1
  <2>3. q \in Path /\ offs[q] \in Nat /\ to[q] \in Nat
    BY <1>1 DEF Within
  <2>4. i \in 1..Len(logs[q])
    <3>1. to[q] = offs[q] \/ to[q] \in offs[q]..Len(logs[q])
      BY <2>3 DEF Within
    <3>2. Len(logs[q]) \in Nat
      BY <2>3 DEF Readable
    <3> QED
      BY <2>3, <3>1, <3>2
  <2>5. logs[q][i].len \in Nat
    BY <2>3, <2>4 DEF Readable
  <2> QED
    BY <2>2, <2>5
<1> QED
  BY <1>6, <1>7 DEF Measured

\* What a packing says of one file.
LEMMA Packing4GIs ==
    ASSUME NEW logs, Readable(logs), NEW offs \in [Path -> Nat], NEW to \in Packings4G(logs, offs)
    PROVE  /\ Within(logs, offs, to)
           /\ \A p \in Path :
                 /\ to[p] # offs[p] => Valid(logs[p][to[p]])
                 /\ Fits4G(logs, Entries(logs, offs, to, p))
                 /\ \A j \in to[p] + 1 .. Len(logs[p]) :
                       \/ ~Valid(logs[p][j])
                       \/ \E i \in to[p] + 1 .. j - 1 : Valid(logs[p][i])
                       \/ ~Fits4G(logs, Entries(logs, offs, to, p) \cup {<<p, j>>})
<1>1. Within(logs, offs, to)
  BY Packing4GBounds DEF Within, Readable
<1> QED
  BY <1>1 DEF Packings4G

LEMMA PackingBDIs ==
    ASSUME NEW logs, Readable(logs), NEW offs \in [Path -> Nat], NEW ends \in [Path -> Nat],
           NEW to \in PackingsBD(logs, offs, ends)
    PROVE  /\ Within(logs, offs, to)
           /\ \A p \in Path :
                 /\ to[p] = offs[p] \/ (to[p] <= ends[p] /\ to[p] <= Len(logs[p]))
                 /\ FitsBD(logs, Entries(logs, offs, to, p))
                 /\ (offs[p] <= to[p] + 1 /\ to[p] + 1 <= ends[p] /\ to[p] + 1 <= Len(logs[p])) =>
                       /\ Valid(logs[p][to[p] + 1])
                       /\ ~FitsBD(logs, Entries(logs, offs, to, p) \cup {<<p, to[p] + 1>>})
<1> DEFINE Here(p) == {offs[p]} \cup Reach(logs, p, offs[p], ends[p])
<1>1. Within(logs, offs, to)
  BY PackingBDBounds DEF Within, Readable
<1>2. ASSUME NEW p \in Path
      PROVE  /\ to[p] \in Here(p)
             /\ FitsBD(logs, Entries(logs, offs, to, p))
             /\ to[p] + 1 \in Here(p) =>
                   /\ Valid(logs[p][to[p] + 1])
                   /\ ~FitsBD(logs, Entries(logs, offs, to, p) \cup {<<p, to[p] + 1>>})
  BY DEF PackingsBD
<1>3. ASSUME NEW p \in Path, NEW x \in Nat
      PROVE  x \in Here(p) <=> \/ x = offs[p]
                               \/ offs[p] <= x /\ x <= ends[p] /\ x <= Len(logs[p])
  <2>1. offs[p] \in Nat /\ ends[p] \in Nat /\ Len(logs[p]) \in Nat
    BY DEF Readable
  <2> QED
    BY <2>1 DEF Reach
<1>4. ASSUME NEW p \in Path PROVE to[p] \in Nat /\ to[p] + 1 \in Nat
  BY <1>1 DEF Within
<1> HIDE DEF Here
<1> QED
  BY <1>1, <1>2, <1>3, <1>4

\* Two packings of the same files are compared at the first file where they differ.
LEMMA FirstDifference ==
    ASSUME NEW to \in [Path -> Nat], NEW up \in [Path -> Nat], to # up
    PROVE  \E m \in Path : to[m] # up[m] /\ \A q \in 1..m - 1 : to[q] = up[q]
<1> DEFINE D == {p \in Path : to[p] # up[p]}
<1>1. D # {} /\ D \subseteq Nat
  <2>1. to = [p \in Path |-> to[p]] /\ up = [p \in Path |-> up[p]]
    OBVIOUS
  <2>2. \E p \in Path : to[p] # up[p]
    BY <2>1
  <2> QED
    BY <2>2 DEF Path
<1>2. PICK m \in D : \A p \in D : m <= p
  <2> HIDE DEF D
  <2> QED
    BY <1>1, LeastNumber
<1>3. ASSUME NEW q \in 1..m - 1 PROVE to[q] = up[q]
  <2>1. q \in Path /\ ~(m <= q)
    BY UpTo
  <2> QED
    BY <1>2, <2>1
<1> QED
  BY <1>2, <1>3

\* The entries up to the larger offset include those up to the smaller, and every valid
\* line between.
LEMMA EntriesGrow ==
    ASSUME NEW logs, NEW from, NEW m \in Path, NEW to, NEW up,
           \A q \in 1..m - 1 : to[q] = up[q],
           from[m] \in Nat, to[m] \in Nat, up[m] \in Nat, from[m] <= to[m],
           NEW j \in to[m] + 1 .. up[m], Valid(logs[m][j])
    PROVE  Entries(logs, from, to, m) \cup {<<m, j>>} \in SUBSET Entries(logs, from, up, m)
<1>1. m \in Nat /\ m \in 1..m /\ \A q \in 1..m : q \in 1..m - 1 \/ q = m
  BY UpTo
<1>2. j \in from[m] + 1 .. up[m] /\ to[m] <= up[m]
  OBVIOUS
<1>3. <<m, j>> \in Entries(logs, from, up, m)
  BY <1>1, <1>2, EntryIs
<1>4. ASSUME NEW e \in Entries(logs, from, to, m) PROVE e \in Entries(logs, from, up, m)
  <2>1. PICK q \in 1..m : \E i \in from[q] + 1 .. to[q] : e = <<q, i>> /\ Valid(logs[q][i])
    BY <1>1, EntryIs
  <2>2. PICK i \in from[q] + 1 .. to[q] : e = <<q, i>> /\ Valid(logs[q][i])
    BY <2>1
  <2>3. i \in from[q] + 1 .. up[q]
    <3>1. CASE q = m
      BY <1>2, <3>1
    <3>2. CASE q # m
      BY <1>1, <3>2
    <3> QED
      BY <3>1, <3>2
  <2> QED
    BY <1>1, <2>2, <2>3, EntryIs
<1> QED
  BY <1>3, <1>4

\* No two 4G packings differ: the one that stops earlier leaves a line that still fits.
LEMMA Stops4G ==
    ASSUME NEW logs, Readable(logs), NEW offs \in [Path -> Nat],
           NEW to \in Packings4G(logs, offs), NEW up \in Packings4G(logs, offs),
           NEW m \in Path, \A q \in 1..m - 1 : to[q] = up[q], to[m] < up[m]
    PROVE  FALSE
<1>1. /\ Within(logs, offs, to) /\ Within(logs, offs, up)
      /\ up[m] # offs[m] => Valid(logs[m][up[m]])
      /\ Fits4G(logs, Entries(logs, offs, up, m))
  BY Packing4GIs
<1>2. PICK n \in Nat, t \in Nat, u \in Nat, o \in Nat :
         n = Len(logs[m]) /\ t = to[m] /\ u = up[m] /\ o = offs[m]
  BY <1>1 DEF Within, Readable
<1>3. o <= t /\ t < u /\ u <= n
  <2>1. /\ to[m] = offs[m] \/ to[m] \in offs[m]..Len(logs[m])
        /\ up[m] = offs[m] \/ up[m] \in offs[m]..Len(logs[m])
    BY <1>1 DEF Within
  <2> QED
    BY <1>2, <2>1
<1> DEFINE V == {i \in t + 1 .. u : Valid(logs[m][i])}
<1>4. V # {} /\ V \subseteq Nat
  <2>1. u \in V
    BY <1>1, <1>2, <1>3
  <2> QED
    BY <1>2, <2>1
<1>5. PICK j \in V : \A i \in V : j <= i
  <2> HIDE DEF V
  <2> QED
    BY <1>4, LeastNumber
<1>6. j \in t + 1 .. n /\ Valid(logs[m][j]) /\ \A i \in t + 1 .. j - 1 : ~Valid(logs[m][i])
  <2>1. j \in t + 1 .. u /\ Valid(logs[m][j])
    OBVIOUS
  <2>2. ASSUME NEW i \in t + 1 .. j - 1 PROVE ~Valid(logs[m][i])
    <3>1. i \in t + 1 .. u /\ ~(j <= i)
      BY <1>2, <2>1
    <3> QED
      BY <1>5, <3>1
  <2>3. j \in t + 1 .. n
    BY <1>2, <1>3, <2>1
  <2> QED
    BY <2>1, <2>2, <2>3
<1>7. ~Fits4G(logs, Entries(logs, offs, to, m) \cup {<<m, j>>})
  BY <1>2, <1>6, Packing4GIs
<1>8. Entries(logs, offs, to, m) \cup {<<m, j>>} \in SUBSET Entries(logs, offs, up, m)
  <2>1. /\ offs[m] \in Nat /\ to[m] \in Nat /\ up[m] \in Nat /\ offs[m] <= to[m]
        /\ j \in to[m] + 1 .. up[m]
    BY <1>2, <1>3
  <2> QED
    BY <1>6, <2>1, EntriesGrow
<1>9. Measured(logs, Entries(logs, offs, up, m))
  <2>1. m \in 0..NPaths
    BY PackingAssumption DEF Path, PackingAssumption
  <2> QED
    BY <1>1, <2>1, EntriesMeasured
<1> QED
  BY <1>1, <1>7, <1>8, <1>9, LessFits

LEMMA StopsBD ==
    ASSUME NEW logs, Readable(logs), NEW offs \in [Path -> Nat], NEW ends \in [Path -> Nat],
           NEW to \in PackingsBD(logs, offs, ends), NEW up \in PackingsBD(logs, offs, ends),
           NEW m \in Path, \A q \in 1..m - 1 : to[q] = up[q], to[m] < up[m]
    PROVE  FALSE
<1>1. /\ Within(logs, offs, to) /\ Within(logs, offs, up)
      /\ up[m] = offs[m] \/ (up[m] <= ends[m] /\ up[m] <= Len(logs[m]))
      /\ FitsBD(logs, Entries(logs, offs, up, m))
      /\ (offs[m] <= to[m] + 1 /\ to[m] + 1 <= ends[m] /\ to[m] + 1 <= Len(logs[m])) =>
            /\ Valid(logs[m][to[m] + 1])
            /\ ~FitsBD(logs, Entries(logs, offs, to, m) \cup {<<m, to[m] + 1>>})
  BY PackingBDIs
<1>2. PICK n \in Nat, t \in Nat, u \in Nat, o \in Nat, e \in Nat :
         n = Len(logs[m]) /\ t = to[m] /\ u = up[m] /\ o = offs[m] /\ e = ends[m]
  BY <1>1 DEF Within, Readable
<1>3. o <= t /\ t < u /\ u <= n /\ u <= e
  <2>1. /\ to[m] = offs[m] \/ to[m] \in offs[m]..Len(logs[m])
        /\ up[m] = offs[m] \/ up[m] \in offs[m]..Len(logs[m])
    BY <1>1 DEF Within
  <2>2. o <= t /\ t < u /\ u <= n
    BY <1>2, <2>1
  <2>3. u # o
    BY <2>2
  <2> QED
    BY <1>1, <1>2, <2>2, <2>3
<1>4. o <= t + 1 /\ t + 1 <= e /\ t + 1 <= n /\ t + 1 \in t + 1 .. u
  BY <1>3
<1>5. /\ Valid(logs[m][t + 1])
      /\ ~FitsBD(logs, Entries(logs, offs, to, m) \cup {<<m, t + 1>>})
  BY <1>1, <1>2, <1>4
<1>6. Entries(logs, offs, to, m) \cup {<<m, t + 1>>} \in SUBSET Entries(logs, offs, up, m)
  <2>1. /\ offs[m] \in Nat /\ to[m] \in Nat /\ up[m] \in Nat /\ offs[m] <= to[m]
        /\ t + 1 \in to[m] + 1 .. up[m]
    BY <1>2, <1>3, <1>4
  <2> QED
    BY <1>5, <2>1, EntriesGrow
<1>7. Measured(logs, Entries(logs, offs, up, m))
  <2>1. m \in 0..NPaths
    BY PackingAssumption DEF Path, PackingAssumption
  <2> QED
    BY <1>1, <2>1, EntriesMeasured
<1> QED
  BY <1>1, <1>5, <1>6, <1>7, LessFits

\* The 4G packer is deterministic: whatever the files hold and wherever the offsets are,
\* there is exactly one packing.
THEOREM OnePacking4G ==
    ASSUME NEW logs, Readable(logs), NEW offs \in [Path -> Nat]
    PROVE  \E to : Packings4G(logs, offs) = {to}
<1>1. PICK to : to \in Packings4G(logs, offs)
  BY Packing4GExists DEF Readable
<1>2. ASSUME NEW up \in Packings4G(logs, offs) PROVE up = to
  <2> SUFFICES ASSUME up # to PROVE FALSE
    OBVIOUS
  <2>1. to \in [Path -> Nat] /\ up \in [Path -> Nat]
    BY <1>1, Packing4GIs DEF Within
  <2>2. PICK m \in Path : to[m] # up[m] /\ \A q \in 1..m - 1 : to[q] = up[q]
    BY <2>1, FirstDifference
  <2>3. to[m] < up[m] \/ up[m] < to[m]
    BY <2>1, <2>2
  <2>4. CASE to[m] < up[m]
    BY <1>1, <2>2, <2>4, Stops4G
  <2>5. CASE up[m] < to[m]
    <3>1. \A q \in 1..m - 1 : up[q] = to[q]
      BY <2>2
    <3> QED
      BY <1>1, <2>5, <3>1, Stops4G
  <2> QED
    BY <2>3, <2>4, <2>5
<1> QED
  BY <1>1, <1>2

\* So is the BeiDou packer.
THEOREM OnePackingBD ==
    ASSUME NEW logs, Readable(logs), NEW offs \in [Path -> Nat], NEW ends \in [Path -> Nat]
    PROVE  \E to : PackingsBD(logs, offs, ends) = {to}
<1>1. PICK to : to \in PackingsBD(logs, offs, ends)
  BY PackingBDExists DEF Readable
<1>2. ASSUME NEW up \in PackingsBD(logs, offs, ends) PROVE up = to
  <2> SUFFICES ASSUME up # to PROVE FALSE
    OBVIOUS
  <2>1. to \in [Path -> Nat] /\ up \in [Path -> Nat]
    BY <1>1, PackingBDIs DEF Within
  <2>2. PICK m \in Path : to[m] # up[m] /\ \A q \in 1..m - 1 : to[q] = up[q]
    BY <2>1, FirstDifference
  <2>3. to[m] < up[m] \/ up[m] < to[m]
    BY <2>1, <2>2
  <2>4. CASE to[m] < up[m]
    BY <1>1, <2>2, <2>4, StopsBD
  <2>5. CASE up[m] < to[m]
    <3>1. \A q \in 1..m - 1 : up[q] = to[q]
      BY <2>2
    <3> QED
      BY <1>1, <2>5, <3>1, StopsBD
  <2> QED
    BY <2>3, <2>4, <2>5
<1> QED
  BY <1>1, <1>2

\* The whole packet: it fits the limit its packer checks, and its lines are measured.
LEMMA WholePacket ==
    ASSUME NEW logs, Readable(logs), NEW offs \in [Path -> Nat], NEW to \in Packings4G(logs, offs)
    PROVE  /\ Measured(logs, Entries(logs, offs, to, NPaths))
           /\ \A e \in Entries(logs, offs, to, NPaths) : Valid(logs[e[1]][e[2]])
           /\ HexLen(logs, Entries(logs, offs, to, NPaths)) <= Hex4G
<1>1. NPaths \in Path /\ NPaths \in 0..NPaths
  BY PackingAssumption DEF PackingAssumption, Path
<1>2. Within(logs, offs, to) /\ Fits4G(logs, Entries(logs, offs, to, NPaths))
  BY <1>1, Packing4GIs
<1> QED
  BY <1>1, <1>2, EntriesMeasured DEF Fits4G

\* An empty packet means that all is sent: if each line fits a packet of its own, the 4G
\* packer returns nothing (and the sender powers down) only when no file has a line with
\* payload behind its offset.
THEOREM EmptyPacketAllSent ==
    ASSUME NEW logs, Readable(logs), NEW offs \in [Path -> Nat], NEW to \in Packings4G(logs, offs),
           \A p \in Path : \A i \in 1..Len(logs[p]) : 2 * logs[p][i].len <= Hex4G,
           Entries(logs, offs, to, NPaths) = {},
           NEW p \in Path, NEW i \in offs[p] + 1 .. Len(logs[p])
    PROVE  ~Valid(logs[p][i])
<1> SUFFICES ASSUME Valid(logs[p][i]) PROVE FALSE
  OBVIOUS
<1>1. PICK n \in Nat, t \in Nat, o \in Nat : n = Len(logs[p]) /\ t = to[p] /\ o = offs[p]
  BY Packing4GIs DEF Within, Readable
<1>2. p \in Nat /\ p \in 1..p /\ p \in 1..NPaths /\ NPaths \in Nat
  BY PackingAssumption DEF PackingAssumption, Path
<1>3. Entries(logs, offs, to, p) = {}
  <2>1. ASSUME NEW e \in Entries(logs, offs, to, p) PROVE FALSE
    <3>1. PICK q \in 1..p : \E k \in offs[q] + 1 .. to[q] : e = <<q, k>> /\ Valid(logs[q][k])
      BY <1>2, EntryIs
    <3>2. q \in 1..NPaths
      BY <1>2
    <3>3. e \in Entries(logs, offs, to, NPaths)
      BY <1>2, <3>1, <3>2, EntryIs
    <3> QED
      BY <3>3
  <2> QED
    BY <2>1
<1>4. t = o
  <2> SUFFICES ASSUME t # o PROVE FALSE
    OBVIOUS
  <2>1. Valid(logs[p][t])
    BY <1>1, Packing4GIs
  <2>2. to[p] = offs[p] \/ to[p] \in offs[p]..Len(logs[p])
    BY Packing4GIs DEF Within
  <2>3. t \in o + 1 .. t
    BY <1>1, <2>2
  <2>4. <<p, t>> \in Entries(logs, offs, to, p)
    BY <1>1, <1>2, <2>1, <2>3, EntryIs
  <2> QED
    BY <1>3, <2>4
<1> DEFINE V == {k \in o + 1 .. n : Valid(logs[p][k])}
<1>5. V # {} /\ V \subseteq Nat
  <2>1. i \in V
    BY <1>1
  <2> QED
    BY <1>1, <2>1
<1>6. PICK j \in V : \A k \in V : j <= k
  <2> HIDE DEF V
  <2> QED
    BY <1>5, LeastNumber
<1>7. /\ j \in t + 1 .. n /\ j \in 1..n /\ Valid(logs[p][j])
      /\ \A k \in t + 1 .. j - 1 : ~Valid(logs[p][k])
  <2>1. j \in o + 1 .. n /\ Valid(logs[p][j])
    OBVIOUS
  <2>2. ASSUME NEW k \in o + 1 .. j - 1 PROVE ~Valid(logs[p][k])
    <3>1. k \in o + 1 .. n /\ ~(j <= k)
      BY <1>1, <2>1
    <3> QED
      BY <1>6, <3>1
  <2>3. j \in 1..n
    BY <1>1, <2>1
  <2> QED
    BY <1>4, <2>1, <2>2, <2>3
<1>8. ~Fits4G(logs, {<<p, j>>})
  <2>1. ~Fits4G(logs, Entries(logs, offs, to, p) \cup {<<p, j>>})
    BY <1>1, <1>7, Packing4GIs
  <2> QED
    BY <1>3, <2>1
<1>9. Fits4G(logs, {<<p, j>>})
  <2> DEFINE S == {<<p, j>>}
  <2>1. Measured(logs, S)
    <3>1. logs[p][j].len \in Nat
      BY <1>1, <1>7 DEF Readable
    <3>2. \A e \in S : e[1] = p /\ e[2] = j
      OBVIOUS
    <3>3. IsFiniteSet(S)
      BY FS_Singleton
    <3> QED
      BY <3>1, <3>2, <3>3 DEF Measured
  <2>2. Cardinality(S) = 1
    BY FS_Singleton
  <2>3. Bytes(logs, S) = logs[p][j].len + 0
    <3>1. Measured(logs, {}) /\ S \ {<<p, j>>} = {}
      BY FS_EmptySet DEF Measured
    <3>2. Bytes(logs, {}) = 0
      BY <3>1, BytesFirst
    <3>3. Bytes(logs, S) = logs[p][j].len + Bytes(logs, S \ {<<p, j>>})
      BY <2>1, BytesTake
    <3> QED
      BY <3>1, <3>2, <3>3
  <2>4. 2 * logs[p][j].len <= Hex4G /\ logs[p][j].len \in Nat
    BY <1>1, <1>7 DEF Readable
  <2> HIDE DEF S
  <2>5. HexLen(logs, S) = 2 * Bytes(logs, S) + Commas(S) /\ Commas(S) = 1 - 1
    BY <2>1, <2>2, LengthsAre
  <2>6. HexLen(logs, S) <= Hex4G
    BY <2>3, <2>4, <2>5
  <2> QED
    BY <2>6 DEF Fits4G, S
<1> QED
  BY <1>8, <1>9

\* What the code has, a buffer of one byte more than half the hex digits, is too small for
\* packets of four lines or more only: the packet that overflows it (and is then packed
\* again at every pass) has three commas at least.
THEOREM OverflowIsOfShortLines ==
    ASSUME NEW logs, Readable(logs), NEW offs \in [Path -> Nat], NEW to \in Packings4G(logs, offs),
           Raw4G >= (Hex4G \div 2) + 1,
           RawLen(logs, Entries(logs, offs, to, NPaths)) > Raw4G
    PROVE  Cardinality(Entries(logs, offs, to, NPaths)) >= 4
<1> DEFINE E == Entries(logs, offs, to, NPaths)
<1>1. Measured(logs, E) /\ HexLen(logs, E) <= Hex4G
  BY WholePacket
<1> HIDE DEF E
<1>2. PICK b \in Nat, c \in Nat, n \in Nat :
         /\ b = Bytes(logs, E) /\ c = Commas(E) /\ n = Cardinality(E)
         /\ HexLen(logs, E) = 2 * b + c /\ RawLen(logs, E) = b + c
         /\ n = 0 => c = 0
         /\ n # 0 => c = n - 1
  BY <1>1, LengthsAre
<1>3. PICK h \in Nat, r \in Nat : h = Hex4G /\ r = Raw4G
  BY PackingAssumption DEF PackingAssumption
<1>4. 2 * b + c <= h /\ b + c > r /\ r >= (h \div 2) + 1
  BY <1>1, <1>2, <1>3 DEF E
<1>5. c >= 3
  <2>1. PICK k \in Nat : k = h \div 2 /\ h <= 2 * k + 1
    OBVIOUS
  <2>2. 2 * b + c <= 2 * k + 1 /\ b + c >= k + 2
    BY <1>4, <2>1
  <2> QED
    BY <2>2
<1>6. n >= 4
  BY <1>2, <1>5
<1> QED
  BY <1>2, <1>6 DEF E

\* Three bytes of buffer for five hex digits would do for every packet.
THEOREM RoomyBufferSuffices ==
    ASSUME NEW logs, Readable(logs), NEW offs \in [Path -> Nat], NEW to \in Packings4G(logs, offs),
           5 * Raw4G >= 3 * Hex4G
    PROVE  RawLen(logs, Entries(logs, offs, to, NPaths)) <= Raw4G
<1> DEFINE E == Entries(logs, offs, to, NPaths)
<1>1. /\ Measured(logs, E) /\ HexLen(logs, E) <= Hex4G
      /\ \A e \in E : Valid(logs[e[1]][e[2]])
  BY WholePacket
<1> HIDE DEF E
<1>2. PICK b \in Nat, c \in Nat, n \in Nat :
         /\ b = Bytes(logs, E) /\ c = Commas(E) /\ n = Cardinality(E)
         /\ HexLen(logs, E) = 2 * b + c /\ RawLen(logs, E) = b + c
         /\ n = 0 => c = 0
         /\ n # 0 => c = n - 1
  BY <1>1, LengthsAre
<1>3. 2 * n <= b
  BY <1>1, <1>2, BytesOfValid
<1>4. PICK h \in Nat, r \in Nat : h = Hex4G /\ r = Raw4G
  BY PackingAssumption DEF PackingAssumption
<1>5. 2 * c <= b
  BY <1>2, <1>3
<1>6. 2 * b + c <= h /\ 5 * r >= 3 * h
  BY <1>1, <1>2, <1>4
<1>7. b + c <= r
  BY <1>5, <1>6
<1> QED
  BY <1>2, <1>4, <1>7 DEF E

-----------------------------------------------------------------------------
(* What the compaction returns.                                            *)

LEMMA CompactionShape ==
    ASSUME NEW S, NEW lines \in Seq(S), NEW off \in Nat,
           NEW t \in Compactions(lines, off)
    PROVE  LET n == SentCount(lines, off) IN
           /\ n \in 0..Len(lines)
           /\ t \in [lines : Seq(S), off : Nat]
           /\ Len(t.lines) = t.off + Len(lines) - n
           /\ \A i \in 1..t.off : \E j \in 1..n : t.lines[i] = lines[j]
           /\ \A i \in n + 1 .. Len(lines) : t.lines[i - n + t.off] = lines[i]
           /\ \A i, j \in 1..t.off : i < j =>
                 \E a, b \in 1..n : /\ t.lines[i] = lines[a] /\ t.lines[j] = lines[b]
                                   /\ a < b
<1> DEFINE n == SentCount(lines, off)
           kept == KeptLines(lines, n)
           c == Cardinality(kept)
           tail == SubSeq(lines, n + 1, Len(lines))
<1>1. n \in 0..Len(lines) /\ Len(lines) \in Nat
  BY DEF SentCount
<1>2. kept \subseteq 1..n
  BY DEF KeptLines
<1>3. IsFiniteSet(kept) /\ c \in Nat
  <2>1. IsFiniteSet(1..n)
    BY <1>1, FS_Interval
  <2>2. IsFiniteSet(kept)
    BY <1>2, <2>1, FS_Subset
  <2> QED
    BY <2>2, FS_CardinalityType
<1> HIDE DEF n, kept, c
<1>4. PICK f \in [1..c -> kept] :
         /\ t = [lines |-> [i \in 1..c |-> lines[f[i]]] \o tail, off |-> c]
         /\ \A i, j \in 1..c : i < j => f[i] < f[j]
  BY DEF Compactions, InOrder, n, kept, c
<1> DEFINE head == [i \in 1..c |-> lines[f[i]]]
<1>5. \A i \in 1..c : f[i] \in 1..n /\ lines[f[i]] \in S
  <2>1. \A i \in 1..c : f[i] \in 1..n
    BY <1>2, <1>4
  <2>2. \A j \in 1..n : lines[j] \in S
    BY <1>1
  <2> QED
    BY <2>1, <2>2
<1>6. head \in Seq(S) /\ Len(head) = c
  BY <1>3, <1>5
<1>7. /\ tail \in Seq(S)
      /\ Len(tail) = Len(lines) - n
      /\ \A i \in 1..Len(lines) - n : tail[i] = lines[n + i]
  BY <1>1
<1> HIDE DEF tail
<1>8. /\ head \o tail \in Seq(S)
      /\ Len(head \o tail) = c + Len(lines) - n
      /\ \A i \in 1..c : (head \o tail)[i] = lines[f[i]]
      /\ \A i \in 1..Len(tail) : (head \o tail)[c + i] = tail[i]
  <2> HIDE DEF head
  <2>0. /\ head \o tail \in Seq(S)
        /\ Len(head \o tail) = Len(head) + Len(tail)
        /\ \A i \in 1..Len(head) + Len(tail) :
              (head \o tail)[i] = IF i <= Len(head) THEN head[i] ELSE tail[i - Len(head)]
    BY <1>6, <1>7, ConcatProperties
  <2>l. Len(head) \in Nat /\ Len(tail) \in Nat
    BY <1>6, <1>7
  <2>1. /\ \A i \in 1..Len(head) : (head \o tail)[i] = head[i]
        /\ \A i \in 1..Len(tail) : (head \o tail)[Len(head) + i] = tail[i]
    <3>1. ASSUME NEW i \in 1..Len(head) PROVE (head \o tail)[i] = head[i]
      <4>1. i \in 1..Len(head) + Len(tail) /\ i <= Len(head)
        BY <2>l
      <4> QED
        BY <4>1, <2>0
    <3>2. ASSUME NEW i \in 1..Len(tail) PROVE (head \o tail)[Len(head) + i] = tail[i]
      <4>1. /\ Len(head) + i \in 1..Len(head) + Len(tail)
            /\ ~(Len(head) + i <= Len(head)) /\ Len(head) + i - Len(head) = i
        BY <2>l
      <4> QED
        BY <4>1, <2>0
    <3> QED
      BY <3>1, <3>2
  <2>2. \A i \in 1..c : head[i] = lines[f[i]]
    BY DEF head
  <2> QED
    BY <1>1, <1>3, <1>6, <1>7, <2>0, <2>1, <2>2
<1> HIDE DEF head
<1>9. t.lines = head \o tail /\ t.off = c /\ t \in [lines : Seq(S), off : Nat]
  BY <1>3, <1>4, <1>8 DEF head
<1>10. \A i \in n + 1 .. Len(lines) : t.lines[i - n + t.off] = lines[i]
  <2> SUFFICES ASSUME NEW i \in n + 1 .. Len(lines)
               PROVE  t.lines[i - n + t.off] = lines[i]
    OBVIOUS
  <2>1. i - n \in 1..Len(tail) /\ n + (i - n) = i /\ c + (i - n) = i - n + t.off
    BY <1>1, <1>3, <1>7, <1>9
  <2>2. (head \o tail)[c + (i - n)] = tail[i - n]
    BY <1>8, <2>1
  <2>3. tail[i - n] = lines[n + (i - n)]
    BY <1>7, <2>1
  <2> QED
    BY <1>9, <2>1, <2>2, <2>3
<1>11. \A i \in 1..t.off : \E j \in 1..n : t.lines[i] = lines[j]
  <2> SUFFICES ASSUME NEW i \in 1..c PROVE \E j \in 1..n : t.lines[i] = lines[j]
    BY <1>9
  <2>1. t.lines[i] = lines[f[i]] /\ f[i] \in 1..n
    BY <1>5, <1>8, <1>9
  <2> QED
    BY <2>1
<1>12. \A i, j \in 1..t.off : i < j =>
         \E a, b \in 1..n : t.lines[i] = lines[a] /\ t.lines[j] = lines[b] /\ a < b
  <2> SUFFICES ASSUME NEW i \in 1..c, NEW j \in 1..c, i < j
               PROVE  \E a, b \in 1..n : /\ t.lines[i] = lines[a] /\ t.lines[j] = lines[b]
                                         /\ a < b
    BY <1>9
  <2>1. t.lines[i] = lines[f[i]] /\ t.lines[j] = lines[f[j]]
    BY <1>8, <1>9
  <2>2. f[i] \in 1..n /\ f[j] \in 1..n /\ f[i] < f[j]
    BY <1>4, <1>5
  <2> QED
    BY <2>1, <2>2
<1> QED
  BY <1>1, <1>8, <1>9, <1>10, <1>11, <1>12 DEF n

\* A compaction keeps the lines it keeps in their order, and puts only unsent
\* ones behind its offset.
LEMMA CompactionOrder ==
    ASSUME NEW S, NEW lines \in Seq(S), NEW off \in Nat,
           NEW t \in Compactions(lines, off)
    PROVE  /\ \A i \in DOMAIN t.lines : \E a \in DOMAIN lines :
                 t.lines[i] = lines[a] /\ (i > t.off => a > off)
           /\ \A i, j \in DOMAIN t.lines : i < j =>
                 \E a, b \in DOMAIN lines :
                    t.lines[i] = lines[a] /\ t.lines[j] = lines[b] /\ a < b
<1> DEFINE n == SentCount(lines, off)
<1>1. /\ n \in 0..Len(lines)
      /\ t \in [lines : Seq(S), off : Nat]
      /\ Len(t.lines) = t.off + Len(lines) - n
      /\ \A i \in 1..t.off : \E j \in 1..n : t.lines[i] = lines[j]
      /\ \A i \in n + 1 .. Len(lines) : t.lines[i - n + t.off] = lines[i]
      /\ \A i, j \in 1..t.off : i < j =>
            \E a, b \in 1..n : t.lines[i] = lines[a] /\ t.lines[j] = lines[b] /\ a < b
  <2>1. /\ n \in 0..Len(lines)
        /\ t \in [lines : Seq(S), off : Nat]
        /\ Len(t.lines) = t.off + Len(lines) - n
        /\ \A i \in n + 1 .. Len(lines) : t.lines[i - n + t.off] = lines[i]
    BY CompactionShape
  <2>2. \A i \in 1..t.off : \E j \in 1..n : t.lines[i] = lines[j]
    BY CompactionShape
  <2>3. \A i, j \in 1..t.off : i < j =>
            \E a, b \in 1..n : t.lines[i] = lines[a] /\ t.lines[j] = lines[b] /\ a < b
    BY CompactionShape
  <2> QED
    BY <2>1, <2>2, <2>3
<1>2. n < Len(lines) => n = off
  BY DEF SentCount
<1> HIDE DEF n
<1>3. /\ DOMAIN t.lines = 1..Len(t.lines) /\ DOMAIN lines = 1..Len(lines)
      /\ Len(t.lines) \in Nat /\ Len(lines) \in Nat /\ n \in Nat /\ t.off \in Nat
      /\ n <= Len(lines)
  BY <1>1
<1>4. ASSUME NEW i \in DOMAIN t.lines, i > t.off
      PROVE  /\ i - t.off + n \in n + 1 .. Len(lines)
             /\ t.lines[i] = lines[i - t.off + n]
             /\ i - t.off + n > off
  <2>1. i - t.off + n \in n + 1 .. Len(lines) /\ n < Len(lines)
    BY <1>1, <1>3, <1>4
  <2>2. (i - t.off + n) - n + t.off = i
    BY <1>3
  <2>3. t.lines[(i - t.off + n) - n + t.off] = lines[i - t.off + n]
    BY <1>1, <2>1
  <2>4. i - t.off + n > off
    BY <1>2, <1>3, <2>1
  <2> QED
    BY <2>1, <2>2, <2>3, <2>4
<1>5. ASSUME NEW i \in DOMAIN t.lines
      PROVE  \E a \in DOMAIN lines : t.lines[i] = lines[a] /\ (i > t.off => a > off)
  <2>1. CASE i > t.off
    <3>1. i - t.off + n \in DOMAIN lines
      BY <1>3, <1>4, <2>1
    <3> QED
      BY <1>4, <2>1, <3>1
  <2>2. CASE ~(i > t.off)
    <3>1. i \in 1..t.off
      BY <1>3, <2>2
    <3>2. PICK a \in 1..n : t.lines[i] = lines[a]
      BY <1>1, <3>1
    <3>3. a \in DOMAIN lines
      BY <1>1, <1>3
    <3> QED
      BY <2>2, <3>2, <3>3
  <2> QED
    BY <2>1, <2>2
<1>6. ASSUME NEW i \in DOMAIN t.lines, NEW j \in DOMAIN t.lines, i < j
      PROVE  \E a, b \in DOMAIN lines :
                t.lines[i] = lines[a] /\ t.lines[j] = lines[b] /\ a < b
  <2>1. CASE j <= t.off
    <3>1. i \in 1..t.off /\ j \in 1..t.off
      BY <1>3, <1>6, <2>1
    <3>2. PICK a \in 1..n, b \in 1..n : t.lines[i] = lines[a] /\ t.lines[j] = lines[b] /\ a < b
      BY <1>1, <1>6, <3>1
    <3>3. a \in DOMAIN lines /\ b \in DOMAIN lines
      BY <1>1, <1>3
    <3> QED
      BY <3>2, <3>3
  <2>2. CASE i <= t.off /\ j > t.off
    <3>1. i \in 1..t.off
      BY <1>3, <2>2
    <3>2. PICK a \in 1..n : t.lines[i] = lines[a]
      BY <1>1, <3>1
    <3> DEFINE b == j - t.off + n
    <3>3. b \in n + 1 .. Len(lines) /\ t.lines[j] = lines[b]
      BY <1>4, <2>2
    <3> HIDE DEF b
    <3>4. a \in DOMAIN lines /\ b \in DOMAIN lines /\ a < b
      BY <1>3, <3>3
    <3> QED
      BY <3>2, <3>3, <3>4
  <2>3. CASE i > t.off
    <3> DEFINE a == i - t.off + n
               b == j - t.off + n
    <3>1. j > t.off
      BY <1>3, <1>6, <2>3
    <3>2. a \in n + 1 .. Len(lines) /\ t.lines[i] = lines[a]
      BY <1>4, <2>3
    <3>3. b \in n + 1 .. Len(lines) /\ t.lines[j] = lines[b]
      BY <1>4, <3>1
    <3>4. a \in DOMAIN lines /\ b \in DOMAIN lines /\ a < b
      BY <1>3, <1>6, <3>2, <3>3, SMTT(30)
    <3> QED
      BY <3>2, <3>3, <3>4
  <2> QED
    BY <1>3, <2>1, <2>2, <2>3
<1> QED
  BY <1>5, <1>6

\* Each line of a compacted file was in the file, at the same place or further behind, and
\* no two lines come from one place; a line that was unsent is the only one put behind the
\* offset.
LEMMA CompactionPlaces ==
    ASSUME NEW S, NEW lines \in Seq(S), NEW off \in Nat,
           NEW t \in Compactions(lines, off)
    PROVE  \E place \in [1..Len(t.lines) -> 1..Len(lines)] :
              /\ \A i \in 1..Len(t.lines) : t.lines[i] = lines[place[i]]
              /\ \A i, j \in 1..Len(t.lines) : i < j => place[i] < place[j]
<1> DEFINE n == SentCount(lines, off)
           kept == KeptLines(lines, n)
           c == Cardinality(kept)
<1>1. /\ n \in 0..Len(lines) /\ Len(lines) \in Nat
      /\ t \in [lines : Seq(S), off : Nat]
      /\ Len(t.lines) = t.off + Len(lines) - n
      /\ \A i \in n + 1 .. Len(lines) : t.lines[i - n + t.off] = lines[i]
  BY CompactionShape
<1>2. kept \subseteq 1..n
  BY DEF KeptLines
<1>3. c \in Nat
  <2>1. IsFiniteSet(1..n)
    BY <1>1, FS_Interval
  <2>2. IsFiniteSet(kept)
    BY <1>2, <2>1, FS_Subset
  <2> QED
    BY <2>2, FS_CardinalityType
<1> HIDE DEF n, kept, c
<1>4. PICK f \in [1..c -> kept] :
         /\ t = [lines |-> [i \in 1..c |-> lines[f[i]]] \o SubSeq(lines, n + 1, Len(lines)),
                 off |-> c]
         /\ \A i, j \in 1..c : i < j => f[i] < f[j]
  BY DEF Compactions, InOrder, n, kept, c
<1>5. t.off = c /\ Len(t.lines) = c + Len(lines) - n
  BY <1>1, <1>4
<1>6. \A i \in 1..c : f[i] \in 1..n
  BY <1>2, <1>4
<1>7. \A i \in 1..c : t.lines[i] = lines[f[i]]
  <2> DEFINE head == [i \in 1..c |-> lines[f[i]]]
             tail == SubSeq(lines, n + 1, Len(lines))
  <2>1. head \in Seq(S) /\ Len(head) = c
    BY <1>1, <1>3, <1>6
  <2>2. tail \in Seq(S)
    BY <1>1
  <2>3. t.lines = head \o tail
    BY <1>4
  <2> HIDE DEF tail
  <2>4. ASSUME NEW i \in 1..c PROVE t.lines[i] = head[i]
    <3> HIDE DEF head
    <3>1. /\ \A k \in 1..Len(head) + Len(tail) :
                (head \o tail)[k] = IF k <= Len(head) THEN head[k] ELSE tail[k - Len(head)]
      BY <2>1, <2>2, ConcatProperties
    <3>2. i \in 1..Len(head) + Len(tail) /\ i <= Len(head)
      BY <1>3, <2>1, <2>2
    <3> QED
      BY <2>3, <3>1, <3>2
  <2> QED
    BY <2>4
<1> DEFINE place == [i \in 1..Len(t.lines) |-> IF i <= c THEN f[i] ELSE i - c + n]
<1>8. ASSUME NEW i \in 1..Len(t.lines)
      PROVE  place[i] \in 1..Len(lines) /\ t.lines[i] = lines[place[i]]
  <2>1. CASE i <= c
    BY <1>1, <1>3, <1>6, <1>7, <2>1
  <2>2. CASE ~(i <= c)
    <3> DEFINE k == i - c + n
    <3>1. k \in n + 1 .. Len(lines) /\ k - n + t.off = i
      BY <1>1, <1>3, <1>5, <2>2
    <3>2. t.lines[k - n + t.off] = lines[k]
      BY <1>1, <3>1
    <3>3. place[i] = k
      BY <2>2
    <3> HIDE DEF k, place
    <3>4. k \in 1..Len(lines)
      BY <1>1, <3>1
    <3> QED
      BY <3>1, <3>2, <3>3, <3>4
  <2> QED
    BY <2>1, <2>2
<1>9. ASSUME NEW i \in 1..Len(t.lines), NEW j \in 1..Len(t.lines), i < j
      PROVE  place[i] < place[j]
  <2>1. CASE j <= c
    <3>1. i \in 1..c /\ j \in 1..c
      BY <1>3, <1>9, <2>1
    <3>2. f[i] < f[j]
      BY <1>4, <1>9, <3>1
    <3> QED
      BY <2>1, <3>1, <3>2
  <2>2. CASE i <= c /\ ~(j <= c)
    <3>1. f[i] \in 1..n
      BY <1>3, <1>6, <2>2
    <3>2. place[i] = f[i] /\ place[j] = j - c + n
      BY <2>2
    <3> HIDE DEF place
    <3> QED
      BY <1>1, <1>3, <2>2, <3>1, <3>2
  <2>3. CASE ~(i <= c)
    <3>1. place[i] = i - c + n /\ place[j] = j - c + n
      BY <1>3, <1>9, <2>3
    <3> HIDE DEF place
    <3> QED
      BY <1>1, <1>3, <1>9, <3>1
  <2> QED
    BY <1>3, <2>1, <2>2, <2>3
<1>10. place \in [1..Len(t.lines) -> 1..Len(lines)]
  BY <1>8
<1> QED
  BY <1>8, <1>9, <1>10

-----------------------------------------------------------------------------
(* The window of frame ids.                                                *)

\* The recursion behind KeptFrames: one step of it, its solutions on the sets of up to n
\* positions, and the one the community modules define.
WindowStep(lines, f, s) ==
    IF s = {} THEN <<>>
    ELSE LET x == CHOOSE x \in s : \A y \in s : x >= y
         IN  KeepFrameId(f[s \ {x}], lines[x].frame)

WindowTo(lines, S, n, f) ==
    \A s \in SUBSET S : Cardinality(s) <= n => f[s] = WindowStep(lines, f, s)

WindowsOver(lines, S, f) == f = [s \in SUBSET S |-> WindowStep(lines, f, s)]

\* The last position of a finite set of positions.
LEMMA LastPosition ==
    ASSUME NEW n \in Nat, NEW s \in SUBSET (1..n), s # {}
    PROVE  LET x == CHOOSE x \in s : \A y \in s : x >= y
           IN  x \in s /\ \A y \in s : x >= y
<1>1. s \subseteq Nat /\ \A y \in s : y <= n
  OBVIOUS
<1>2. PICK x \in s : \A y \in s : y <= x
  BY <1>1, GreatestNumber
<1>3. \A y \in s : x >= y
  BY <1>1, <1>2
<1> QED
  BY <1>3

\* The step at a set asks for the window of a smaller set only.
LEMMA WindowAsks ==
    ASSUME NEW lines, NEW n \in Nat, NEW s \in SUBSET (1..n), NEW f, NEW g,
           \A r \in SUBSET (1..n) : Cardinality(r) < Cardinality(s) => f[r] = g[r]
    PROVE  WindowStep(lines, f, s) = WindowStep(lines, g, s)
<1>1. CASE s = {}
  BY <1>1 DEF WindowStep
<1>2. CASE s # {}
  <2> DEFINE x == CHOOSE x \in s : \A y \in s : x >= y
  <2>1. x \in s
    BY <1>2, LastPosition
  <2> HIDE DEF x
  <2>2. s \ {x} \in SUBSET (1..n) /\ Cardinality(s \ {x}) < Cardinality(s)
    <3>1. IsFiniteSet(1..n)
      BY FS_Interval
    <3>2. /\ s \ {x} \in SUBSET (1..n) /\ Cardinality(s) \in Nat
          /\ Cardinality(s \ {x}) = Cardinality(s) - 1
      BY <2>1, <3>1, TakeOut
    <3> QED
      BY <3>2
  <2>3. f[s \ {x}] = g[s \ {x}]
    BY <2>2
  <2> QED
    BY <1>2, <2>3 DEF WindowStep, x
<1> QED
  BY <1>1, <1>2

\* So there is a window for every set of positions.
LEMMA WindowsExist ==
    ASSUME NEW lines, NEW m \in Nat
    PROVE  \E f : WindowsOver(lines, 1..m, f)
<1> DEFINE S == 1..m
           Bad == {n \in Nat : ~\E f : WindowTo(lines, S, n, f)}
<1>0. IsFiniteSet(S)
  BY FS_Interval
<1> HIDE DEF S
<1>1. Bad = {}
  <2> SUFFICES ASSUME Bad # {} PROVE FALSE
    OBVIOUS
  <2>1. PICK n \in Nat : n \in Bad /\ \A k \in Bad : n <= k
    <3>1. Bad \subseteq Nat
      OBVIOUS
    <3> HIDE DEF Bad
    <3> QED
      BY <3>1, LeastNumber
  <2>2. \A s \in SUBSET S : Cardinality(s) \in Nat
    BY <1>0, FS_Subset, FS_CardinalityType
  <2>3. PICK f : \A s \in SUBSET S : Cardinality(s) < n => f[s] = WindowStep(lines, f, s)
    <3>1. CASE n = 0
      BY <2>2, <3>1
    <3>2. CASE n # 0
      <4>1. n - 1 \in Nat /\ ~(n <= n - 1)
        BY <3>2
      <4>2. n - 1 \notin Bad
        <5> HIDE DEF Bad
        <5> QED
          BY <2>1, <4>1
      <4>3. PICK g : WindowTo(lines, S, n - 1, g)
        BY <4>1, <4>2
      <4>4. \A s \in SUBSET S : Cardinality(s) < n => Cardinality(s) <= n - 1
        BY <2>2
      <4> QED
        BY <4>3, <4>4 DEF WindowTo
    <3> QED
      BY <3>1, <3>2
  <2> DEFINE h == [s \in SUBSET S |->
                     IF Cardinality(s) < n THEN f[s] ELSE WindowStep(lines, f, s)]
  <2>4. \A r \in SUBSET S : Cardinality(r) < n => h[r] = f[r]
    OBVIOUS
  <2>5. ASSUME NEW s \in SUBSET S, Cardinality(s) <= n PROVE h[s] = WindowStep(lines, h, s)
    <3>1. h[s] = WindowStep(lines, f, s)
      BY <2>3
    <3> HIDE DEF h
    <3>2. \A r \in SUBSET S : Cardinality(r) < Cardinality(s) => f[r] = h[r]
      <4>1. \A r \in SUBSET S : Cardinality(r) < Cardinality(s) => Cardinality(r) < n
        BY <2>2, <2>5
      <4> QED
        BY <2>4, <4>1
    <3>3. /\ s \in SUBSET (1..m)
          /\ \A r \in SUBSET (1..m) : Cardinality(r) < Cardinality(s) => f[r] = h[r]
      BY <3>2 DEF S
    <3>4. WindowStep(lines, f, s) = WindowStep(lines, h, s)
      BY <3>3, WindowAsks
    <3> QED
      BY <3>1, <3>4
  <2> HIDE DEF h
  <2>6. WindowTo(lines, S, n, h)
    BY <2>5 DEF WindowTo
  <2>7. n \notin Bad
    BY <2>6
  <2> QED
    BY <2>1, <2>7
<1>2. Cardinality(S) \in Nat /\ \A s \in SUBSET S : Cardinality(s) <= Cardinality(S)
  BY <1>0, FS_Subset, FS_CardinalityType
<1>3. PICK g : WindowTo(lines, S, Cardinality(S), g)
  BY <1>1, <1>2
<1> DEFINE f == [s \in SUBSET S |-> g[s]]
<1>4. ASSUME NEW s \in SUBSET S PROVE f[s] = WindowStep(lines, f, s)
  <2>1. f[s] = WindowStep(lines, g, s)
    BY <1>2, <1>3 DEF WindowTo
  <2>2. \A r \in SUBSET S : Cardinality(r) < Cardinality(s) => g[r] = f[r]
    OBVIOUS
  <2> HIDE DEF f
  <2>3. WindowStep(lines, g, s) = WindowStep(lines, f, s)
    BY <2>2, WindowAsks DEF S
  <2> QED
    BY <2>1, <2>3
<1>5. f = [s \in SUBSET S |-> f[s]]
  OBVIOUS
<1> HIDE DEF f
<1>6. f = [s \in SUBSET S |-> WindowStep(lines, f, s)]
  BY <1>4, <1>5
<1> QED
  BY <1>6 DEF WindowsOver, S

\* The windows line by line: empty before the first, and each from the one before it.
Windows(lines, n, w) ==
    w[0] = <<>> /\ \A k \in 1..n : w[k] = KeepFrameId(w[k - 1], lines[k].frame)

\* KeptFrames is what is in the window after the last of the first n lines.
LEMMA KeptFramesIs ==
    ASSUME NEW S, NEW lines \in Seq(S), NEW n \in 0..Len(lines)
    PROVE  \E w : Windows(lines, n, w) /\ KeptFrames(lines, n) = Range(w[n])
<1> DEFINE part == SubSeq(lines, 1, n)
           It == CHOOSE it : it = [s \in SUBSET DOMAIN part |->
                    IF s = {} THEN <<>>
                    ELSE LET x == Max(s)
                         IN  KeepFrameId(it[s \ {x}], part[x].frame)]
           Jt == CHOOSE it : it = [s \in SUBSET DOMAIN part |-> WindowStep(part, it, s)]
<1>1. KeptFrames(lines, n) = Range(It[DOMAIN part])
  BY DEF KeptFrames, FoldLeft, MapThenFoldSet
<1>2. It = Jt
  BY DEF WindowStep, Max
<1>3. n \in Nat /\ DOMAIN part = 1..n /\ \A x \in 1..n : part[x] = lines[x]
  OBVIOUS
<1> HIDE DEF part
<1>4. Jt = [s \in SUBSET (1..n) |-> WindowStep(part, Jt, s)]
  BY <1>3, WindowsExist DEF WindowsOver
<1> HIDE DEF It, Jt
<1> DEFINE w == [k \in 0..n |-> Jt[1..k]]
<1>5. w[0] = <<>>
  <2>1. w[0] = Jt[{}]
    BY <1>3
  <2>2. Jt[{}] = WindowStep(part, Jt, {})
    BY <1>4
  <2> QED
    BY <2>1, <2>2 DEF WindowStep
<1>6. ASSUME NEW k \in 1..n PROVE w[k] = KeepFrameId(w[k - 1], lines[k].frame)
  <2>1. k \in 0..n /\ k - 1 \in 0..n /\ 1..k \in SUBSET (1..n) /\ 1..k # {}
    <3>1. k \in Int /\ n \in Int /\ 1 <= k /\ k <= n
      BY <1>3
    <3>2. \A i \in 1..k : i \in 1..n
      BY <3>1
    <3>3. 1 \in 1..k
      BY <3>1
    <3> QED
      BY <3>1, <3>2, <3>3
  <2>2. (1..k) \ {k} = 1..(k - 1)
    BY <2>1
  <2> DEFINE x == CHOOSE x \in 1..k : \A y \in 1..k : x >= y
  <2>3. x = k
    <3>1. x \in 1..k /\ \A y \in 1..k : x >= y
      BY <1>3, <2>1, LastPosition
    <3>2. k \in 1..k
      BY <1>3
    <3> HIDE DEF x
    <3>3. x >= k /\ x <= k /\ x \in Int /\ k \in Int
      BY <1>3, <3>1, <3>2
    <3> QED
      BY <3>3
  <2> HIDE DEF x
  <2>4. WindowStep(part, Jt, 1..k) = KeepFrameId(Jt[(1..k) \ {x}], part[x].frame)
    BY <2>1 DEF WindowStep, x
  <2>5. Jt[1..k] = WindowStep(part, Jt, 1..k)
    BY <1>4, <2>1
  <2>6. part[k] = lines[k]
    BY <1>3
  <2>7. w[k] = Jt[1..k] /\ w[k - 1] = Jt[1..(k - 1)]
    BY <2>1
  <2> HIDE DEF w
  <2> QED
    BY <2>2, <2>3, <2>4, <2>5, <2>6, <2>7
<1>7. w[n] = Jt[1..n]
  BY <1>3
<1> HIDE DEF w
<1>8. KeptFrames(lines, n) = Range(w[n])
  BY <1>1, <1>2, <1>3, <1>7
<1> QED
  BY <1>5, <1>6, <1>8 DEF Windows

\* The frames of the lines from a to b.
FramesOf(lines, a, b) == {lines[j].frame : j \in a..b}

\* A sequence without repetitions.
Distinct(w) == \A i, j \in 1..Len(w) : i # j => w[i] # w[j]

\* One line changes the window in one of three ways: its frame is there already, is
\* added, or takes the place of the oldest.
LEMMA KeepFrameIdIs ==
    ASSUME NEW S, NEW w \in Seq(S), NEW id \in S, Len(w) <= KeepFrames, Distinct(w)
    PROVE  LET v == KeepFrameId(w, id)
               n == Len(w)
           IN  \/ v = w /\ \E j \in 1..n : w[j] = id
               \/ /\ \A j \in 1..n : w[j] # id
                  /\ v \in Seq(S) /\ Len(v) <= KeepFrames /\ Distinct(v)
                  /\ \/ /\ n < KeepFrames /\ Len(v) = n + 1
                        /\ v[n + 1] = id /\ \A j \in 1..n : v[j] = w[j]
                     \/ /\ n = KeepFrames /\ Len(v) = n
                        /\ v[n] = id /\ \A j \in 1..n - 1 : v[j] = w[j + 1]
<1> DEFINE v == KeepFrameId(w, id)
           n == Len(w)
<1>0. /\ n \in Nat /\ n <= KeepFrames /\ KeepFrames \in Nat /\ 1 <= KeepFrames
      /\ DOMAIN w = 1..n
  BY KeepAssumption
<1> HIDE DEF n
<1>1. id \in Range(w) <=> \E j \in 1..n : w[j] = id
  BY <1>0 DEF Range
<1>2. CASE id \in Range(w)
  BY <1>1, <1>2 DEF KeepFrameId, n
<1>3. CASE id \notin Range(w) /\ n < KeepFrames
  <2>1. v = Append(w, id)
    BY <1>3 DEF KeepFrameId, n
  <2>2. /\ v \in Seq(S) /\ Len(v) = n + 1
        /\ v[n + 1] = id /\ \A j \in 1..n : v[j] = w[j]
    BY <2>1 DEF n
  <2> HIDE DEF v
  <2>3. ASSUME NEW i \in 1..n + 1, NEW j \in 1..n + 1, i # j PROVE v[i] # v[j]
    <3>1. CASE i \in 1..n /\ j \in 1..n
      BY <2>2, <2>3, <3>1 DEF Distinct, n
    <3>2. CASE i = n + 1
      <4>1. j \in 1..n
        BY <1>0, <2>3, <3>2
      <4> QED
        BY <1>1, <1>3, <2>2, <3>2, <4>1
    <3>3. CASE j = n + 1
      <4>1. i \in 1..n
        BY <1>0, <2>3, <3>3
      <4> QED
        BY <1>1, <1>3, <2>2, <3>3, <4>1
    <3> QED
      BY <1>0, <3>1, <3>2, <3>3
  <2>4. Distinct(v)
    BY <2>2, <2>3 DEF Distinct
  <2>5. Len(v) <= KeepFrames
    BY <1>0, <1>3, <2>2
  <2> QED
    BY <1>1, <1>3, <2>2, <2>4, <2>5 DEF v, n
<1>4. CASE id \notin Range(w) /\ ~(n < KeepFrames)
  <2>0. n = KeepFrames /\ n >= 1
    BY <1>0, <1>4
  <2>1. v = Append(Tail(w), id)
    BY <1>4 DEF KeepFrameId, n
  <2>2. /\ Tail(w) \in Seq(S) /\ Len(Tail(w)) = n - 1
        /\ \A j \in 1..n - 1 : Tail(w)[j] = w[j + 1]
    <3>1. w # <<>>
      BY <2>0 DEF n
    <3> QED
      BY <3>1 DEF n
  <2>3. /\ v \in Seq(S) /\ Len(v) = n
        /\ v[n] = id /\ \A j \in 1..n - 1 : v[j] = w[j + 1]
    BY <1>0, <2>1, <2>2
  <2> HIDE DEF v
  <2>4. ASSUME NEW i \in 1..n, NEW j \in 1..n, i # j PROVE v[i] # v[j]
    <3>1. CASE i \in 1..n - 1 /\ j \in 1..n - 1
      <4>1. i + 1 \in 1..n /\ j + 1 \in 1..n /\ i + 1 # j + 1
        BY <1>0, <2>4, <3>1
      <4> QED
        BY <2>3, <3>1, <4>1 DEF Distinct, n
    <3>2. CASE i = n
      <4>1. j \in 1..n - 1 /\ j + 1 \in 1..n
        BY <1>0, <2>4, <3>2
      <4> QED
        BY <1>1, <1>4, <2>3, <3>2, <4>1
    <3>3. CASE j = n
      <4>1. i \in 1..n - 1 /\ i + 1 \in 1..n
        BY <1>0, <2>4, <3>3
      <4> QED
        BY <1>1, <1>4, <2>3, <3>3, <4>1
    <3> QED
      BY <1>0, <3>1, <3>2, <3>3
  <2>5. Distinct(v)
    BY <2>3, <2>4 DEF Distinct
  <2>6. Len(v) <= KeepFrames
    BY <2>0, <2>3
  <2> QED
    BY <1>1, <1>4, <2>0, <2>3, <2>5, <2>6 DEF v, n
<1> QED
  BY <1>0, <1>2, <1>3, <1>4 DEF n

\* A window: of no more than KeepFrames frames, each there once.
WindowOK(w, S) == w \in Seq(S) /\ Len(w) <= KeepFrames /\ Distinct(w)

LEMMA WindowsAreOK ==
    ASSUME NEW lines, NEW n \in Nat, NEW w, Windows(lines, n, w)
    PROVE  \A k \in 0..n : WindowOK(w[k], FramesOf(lines, 1, k))
<1> DEFINE Bad == {k \in 0..n : ~WindowOK(w[k], FramesOf(lines, 1, k))}
<1> SUFFICES ASSUME Bad # {} PROVE FALSE
  OBVIOUS
<1>1. PICK k \in Bad : \A y \in Bad : k <= y
  <2>1. Bad \subseteq Nat
    OBVIOUS
  <2> HIDE DEF Bad
  <2> QED
    BY <2>1, LeastNumber
<1>2. k \in 0..n /\ ~WindowOK(w[k], FramesOf(lines, 1, k))
  OBVIOUS
<1>3. k # 0
  <2>1. WindowOK(<<>>, FramesOf(lines, 1, 0))
    BY KeepAssumption DEF WindowOK, Distinct, KeepAssumption
  <2> QED
    BY <1>2, <2>1 DEF Windows
<1>4. k - 1 \in 0..n /\ k - 1 \notin Bad /\ k \in 1..n
  <2>1. k - 1 \in 0..n /\ ~(k <= k - 1) /\ k \in 1..n
    BY <1>2, <1>3
  <2> HIDE DEF Bad
  <2> QED
    BY <1>1, <2>1
<1> DEFINE S == FramesOf(lines, 1, k)
           u == w[k - 1]
<1>5. FramesOf(lines, 1, k - 1) \subseteq S /\ lines[k].frame \in S
  <2>1. 1..(k - 1) \subseteq 1..k /\ k \in 1..k
    BY <1>4
  <2> QED
    BY <2>1 DEF FramesOf
<1>6. u \in Seq(S) /\ Len(u) <= KeepFrames /\ Distinct(u)
  <2>1. WindowOK(u, FramesOf(lines, 1, k - 1))
    BY <1>4
  <2> HIDE DEF S, u
  <2> QED
    BY <1>5, <2>1 DEF WindowOK
<1>7. w[k] = KeepFrameId(u, lines[k].frame)
  BY <1>4 DEF Windows
<1> HIDE DEF S, u
<1>8. WindowOK(w[k], S)
  BY <1>5, <1>6, <1>7, KeepFrameIdIs DEF WindowOK
<1> QED
  BY <1>2, <1>8 DEF S

\* The last q entries of window w are frames of the lines from i to k, the ones before
\* them frames of lines before i, and no frame of the lines from i to k is missing that
\* was not there before i.
NewestAre(lines, w, i, k, q) ==
    /\ q \in 0..Len(w)
    /\ \A j \in 1..Len(w) - q : w[j] \in FramesOf(lines, 1, i - 1)
    /\ \A j \in Len(w) - q + 1 .. Len(w) : w[j] \in FramesOf(lines, i, k)
    /\ \A g \in FramesOf(lines, i, k) :
          g \in FramesOf(lines, 1, i - 1) \/ \E j \in Len(w) - q + 1 .. Len(w) : w[j] = g

\* Distinct entries of a sequence are no more than the elements they are taken from.
LEMMA DistinctFit ==
    ASSUME NEW w, NEW n \in Nat, NEW T, IsFiniteSet(T),
           \A j \in 1..n : w[j] \in T,
           \A i, j \in 1..n : i # j => w[i] # w[j]
    PROVE  n <= Cardinality(T)
<1> DEFINE f == [j \in 1..n |-> w[j]]
<1>1. f \in Injection(1..n, T)
  BY DEF Injection, IsInjective
<1>2. Cardinality(1..n) <= Cardinality(T)
  <2> HIDE DEF f
  <2> QED
    BY <1>1, FS_Injection
<1>3. Cardinality(1..n) = n
  BY FS_Interval
<1> QED
  BY <1>2, <1>3

LEMMA FramesFinite ==
    ASSUME NEW lines, NEW a \in Int, NEW b \in Int
    PROVE  IsFiniteSet(FramesOf(lines, a, b))
<1>1. IsFiniteSet(a..b)
  BY FS_Interval
<1> DEFINE f == [j \in a..b |-> lines[j].frame]
<1>2. f \in Surjection(a..b, FramesOf(lines, a, b))
  BY DEF Surjection, FramesOf
<1> HIDE DEF f
<1> QED
  BY <1>1, <1>2, FS_Surjection

\* As long as no more than KeepFrames frames have come since line i, none of them has
\* left the window that was not there before.
LEMMA NewestStay ==
    ASSUME NEW lines, NEW n \in Nat, NEW w, Windows(lines, n, w),
           NEW i \in 1..n + 1, Cardinality(FramesOf(lines, i, n)) <= KeepFrames
    PROVE  \A k \in i - 1 .. n : \E q : NewestAre(lines, w[k], i, k, q)
<1> DEFINE Bad == {k \in i - 1 .. n : ~\E q : NewestAre(lines, w[k], i, k, q)}
<1> SUFFICES ASSUME Bad # {} PROVE FALSE
  OBVIOUS
<1>1. PICK k \in Bad : \A y \in Bad : k <= y
  <2>1. Bad \subseteq Nat
    OBVIOUS
  <2> HIDE DEF Bad
  <2> QED
    BY <2>1, LeastNumber
<1>2. k \in i - 1 .. n /\ ~\E q : NewestAre(lines, w[k], i, k, q)
  OBVIOUS
<1>3. /\ KeepFrames \in Nat /\ 1 <= KeepFrames
      /\ i \in Nat /\ 1 <= i /\ k \in Nat /\ i - 1 <= k /\ k <= n
  BY <1>2, KeepAssumption
<1>4. k # i - 1
  <2> SUFFICES ASSUME k = i - 1 PROVE FALSE
    OBVIOUS
  <2> DEFINE v == w[k]
  <2>1. v \in Seq(FramesOf(lines, 1, i - 1))
    <3>1. k \in 0..n
      BY <1>3
    <3>2. WindowOK(w[k], FramesOf(lines, 1, k))
      BY <3>1, WindowsAreOK
    <3> QED
      BY <3>2 DEF WindowOK
  <2>2. FramesOf(lines, i, k) = {}
    <3>1. i..k = {}
      BY <1>3
    <3> QED
      BY <3>1 DEF FramesOf
  <2> HIDE DEF v
  <2>3. NewestAre(lines, v, i, k, 0)
    <3>1. Len(v) \in Nat /\ \A j \in 1..Len(v) : v[j] \in FramesOf(lines, 1, i - 1)
      BY <2>1
    <3>2. 1..Len(v) - 0 = 1..Len(v) /\ Len(v) - 0 + 1 .. Len(v) = {}
      BY <3>1
    <3> QED
      BY <2>2, <3>1, <3>2 DEF NewestAre
  <2> QED
    BY <1>2, <2>3 DEF v
<1>5. k - 1 \in i - 1 .. n /\ k - 1 \notin Bad /\ k \in 1..n /\ k \in i..n
  <2>1. k - 1 \in i - 1 .. n /\ ~(k <= k - 1) /\ k \in 1..n /\ k \in i..n
    BY <1>3, <1>4
  <2> HIDE DEF Bad
  <2> QED
    BY <1>1, <2>1
<1> DEFINE u == w[k - 1]
           v == w[k]
           id == lines[k].frame
           m == Len(u)
           Old == FramesOf(lines, 1, i - 1)
           New == FramesOf(lines, i, k - 1)
<1>6. PICK q : NewestAre(lines, u, i, k - 1, q)
  BY <1>5
<1>7. /\ FramesOf(lines, i, k) = New \cup {id}
      /\ Old \subseteq FramesOf(lines, 1, k) /\ id \in FramesOf(lines, 1, k)
      /\ FramesOf(lines, i, k) \subseteq FramesOf(lines, i, n)
  <2>1. i..k = (i..(k - 1)) \cup {k}
    BY <1>3, <1>5
  <2>2. 1..(i - 1) \subseteq 1..k /\ k \in 1..k /\ i..k \subseteq i..n
    BY <1>3, <1>5
  <2> QED
    BY <2>1, <2>2 DEF FramesOf
<1>8. u \in Seq(FramesOf(lines, 1, k)) /\ m <= KeepFrames /\ Distinct(u) /\ m \in Nat
  <2>1. WindowOK(u, FramesOf(lines, 1, k - 1))
    <3>1. k - 1 \in 0..n
      BY <1>3, <1>5
    <3> QED
      BY <3>1, WindowsAreOK
  <2>2. FramesOf(lines, 1, k - 1) \subseteq FramesOf(lines, 1, k)
    <3>1. 1..(k - 1) \subseteq 1..k
      BY <1>3
    <3> QED
      BY <3>1 DEF FramesOf
  <2> HIDE DEF u
  <2> QED
    BY <2>1, <2>2 DEF WindowOK
<1>9. v = KeepFrameId(u, id)
  BY <1>5 DEF Windows
<1> HIDE DEF u, v, id, Old, New
<1>10. /\ q \in 0..m
       /\ \A j \in 1..m - q : u[j] \in Old
       /\ \A j \in m - q + 1 .. m : u[j] \in New
       /\ \A g \in New : g \in Old \/ \E j \in m - q + 1 .. m : u[j] = g
  BY <1>6 DEF NewestAre, Old, New
<1>11. CASE v = u /\ \E j \in 1..m : u[j] = id
  <2>1. id \in Old \/ \E j \in m - q + 1 .. m : u[j] = id
    <3>1. PICK j \in 1..m : u[j] = id
      BY <1>11
    <3>2. j \in 1..m - q \/ j \in m - q + 1 .. m
      BY <1>8, <1>10
    <3> QED
      BY <1>10, <3>1, <3>2
  <2>2. NewestAre(lines, v, i, k, q)
    BY <1>7, <1>10, <1>11, <2>1 DEF NewestAre, Old
  <2> QED
    BY <1>2, <2>2 DEF v
<1>12. CASE /\ m < KeepFrames /\ Len(v) = m + 1
            /\ v[m + 1] = id /\ \A j \in 1..m : v[j] = u[j]
  <2>1. q + 1 \in 0..Len(v) /\ Len(v) - (q + 1) = m - q
    BY <1>8, <1>10, <1>12
  <2>2. ASSUME NEW j \in 1..m - q PROVE v[j] \in Old
    <3>1. j \in 1..m
      BY <1>8, <1>10
    <3> QED
      BY <1>10, <1>12, <3>1
  <2>3. ASSUME NEW j \in m - q + 1 .. m + 1 PROVE v[j] \in New \cup {id}
    <3>1. j = m + 1 \/ (j \in m - q + 1 .. m /\ j \in 1..m)
      BY <1>8, <1>10
    <3> QED
      BY <1>10, <1>12, <3>1
  <2>4. ASSUME NEW g \in New \cup {id}
        PROVE  g \in Old \/ \E j \in m - q + 1 .. m + 1 : v[j] = g
    <3>1. CASE g = id
      <4>1. m + 1 \in m - q + 1 .. m + 1
        BY <1>8, <1>10
      <4> QED
        BY <1>12, <3>1, <4>1
    <3>2. CASE g \in New
      <4>1. CASE g \in Old
        BY <4>1
      <4>2. CASE \E j \in m - q + 1 .. m : u[j] = g
        <5>1. PICK j \in m - q + 1 .. m : u[j] = g
          BY <4>2
        <5>2. j \in 1..m /\ j \in m - q + 1 .. m + 1
          BY <1>8, <1>10
        <5> QED
          BY <1>12, <5>1, <5>2
      <4> QED
        BY <1>10, <3>2, <4>1, <4>2
    <3> QED
      BY <3>1, <3>2
  <2>5. NewestAre(lines, v, i, k, q + 1)
    BY <1>7, <1>12, <2>1, <2>2, <2>3, <2>4 DEF NewestAre, Old
  <2> QED
    BY <1>2, <2>5 DEF v
<1>13. CASE /\ m = KeepFrames /\ Len(v) = m /\ \A j \in 1..m : u[j] # id
            /\ v[m] = id /\ \A j \in 1..m - 1 : v[j] = u[j + 1]
  <2>1. q < m
    <3> SUFFICES ASSUME q = m PROVE FALSE
      BY <1>8, <1>10
    <3> DEFINE T == FramesOf(lines, i, k) \ {id}
    <3>1. IsFiniteSet(FramesOf(lines, i, k)) /\ IsFiniteSet(FramesOf(lines, i, n))
      BY <1>3, FramesFinite
    <3>2. /\ IsFiniteSet(T) /\ Cardinality(T) = Cardinality(FramesOf(lines, i, k)) - 1
          /\ Cardinality(FramesOf(lines, i, k)) \in Nat
      BY <1>7, <3>1, FS_RemoveElement, FS_CardinalityType
    <3>3. Cardinality(FramesOf(lines, i, k)) <= Cardinality(FramesOf(lines, i, n))
      BY <1>7, <3>1, FS_Subset
    <3>4. \A j \in 1..m : u[j] \in T
      <4>1. m - q + 1 .. m = 1..m
        BY <1>8
      <4> QED
        BY <1>7, <1>10, <1>13, <4>1
    <3> HIDE DEF T
    <3>5. m <= Cardinality(T)
      BY <1>8, <3>2, <3>4, DistinctFit DEF Distinct
    <3>6. Cardinality(FramesOf(lines, i, n)) \in Nat /\ Cardinality(T) \in Int
      BY <3>1, <3>2, FS_CardinalityType
    <3> QED
      BY <1>3, <1>13, <3>2, <3>3, <3>5, <3>6
  <2>2. q + 1 \in 0..Len(v) /\ Len(v) - (q + 1) = m - q - 1
    BY <1>8, <1>10, <1>13, <2>1
  <2>3. ASSUME NEW j \in 1..m - q - 1 PROVE v[j] \in Old
    <3>1. j \in 1..m - 1 /\ j + 1 \in 1..m - q
      BY <1>8, <1>10
    <3> QED
      BY <1>10, <1>13, <3>1
  <2>4. ASSUME NEW j \in m - q .. m PROVE v[j] \in New \cup {id}
    <3>1. j = m \/ (j \in 1..m - 1 /\ j + 1 \in m - q + 1 .. m)
      BY <1>8, <1>10, <2>1
    <3> QED
      BY <1>10, <1>13, <3>1
  <2>5. ASSUME NEW g \in New \cup {id}
        PROVE  g \in Old \/ \E j \in m - q .. m : v[j] = g
    <3>1. CASE g = id
      <4>1. m \in m - q .. m
        BY <1>8, <1>10
      <4> QED
        BY <1>13, <3>1, <4>1
    <3>2. CASE g \in New
      <4>1. CASE g \in Old
        BY <4>1
      <4>2. CASE \E j \in m - q + 1 .. m : u[j] = g
        <5>1. PICK j \in m - q + 1 .. m : u[j] = g
          BY <4>2
        <5>2. j - 1 \in 1..m - 1 /\ j - 1 \in m - q .. m /\ (j - 1) + 1 = j
          BY <1>8, <1>10, <2>1
        <5> QED
          BY <1>13, <5>1, <5>2
      <4> QED
        BY <1>10, <3>2, <4>1, <4>2
    <3> QED
      BY <3>1, <3>2
  <2>6. Len(v) - (q + 1) + 1 = m - q
    BY <1>8, <1>10, <1>13
  <2>7. NewestAre(lines, v, i, k, q + 1)
    BY <1>7, <1>13, <2>2, <2>3, <2>4, <2>5, <2>6 DEF NewestAre, Old
  <2> QED
    BY <1>2, <2>7 DEF v
<1> QED
  <2>1. id \in FramesOf(lines, 1, k)
    BY <1>7
  <2> QED
    BY <1>8, <1>9, <1>11, <1>12, <1>13, <2>1, KeepFrameIdIs

-----------------------------------------------------------------------------
(* Which lines a compaction keeps.                                         *)

LEMMA KeptIsOK ==
    ASSUME NEW S, NEW lines \in Seq(S), NEW n \in 0..Len(lines)
    PROVE  /\ KeptLines(lines, n) \subseteq 1..n /\ IsFiniteSet(KeptLines(lines, n))
           /\ Cardinality(KeptLines(lines, n)) \in Nat
           /\ IsFiniteSet(KeptFrames(lines, n))
           /\ Cardinality(KeptFrames(lines, n)) <= KeepFrames
<1>1. KeptLines(lines, n) \subseteq 1..n
  BY DEF KeptLines
<1>2. IsFiniteSet(KeptLines(lines, n)) /\ Cardinality(KeptLines(lines, n)) \in Nat
  <2>1. IsFiniteSet(1..n)
    BY FS_Interval
  <2> QED
    BY <1>1, <2>1, FS_Subset, FS_CardinalityType
<1>3. PICK w : Windows(lines, n, w) /\ KeptFrames(lines, n) = Range(w[n])
  BY KeptFramesIs
<1> DEFINE v == w[n]
<1>4. v \in Seq(FramesOf(lines, 1, n)) /\ Len(v) <= KeepFrames
  <2>1. n \in Nat /\ n \in 0..n
    OBVIOUS
  <2>2. WindowOK(v, FramesOf(lines, 1, n))
    BY <1>3, <2>1, WindowsAreOK
  <2> QED
    BY <2>2 DEF WindowOK
<1> HIDE DEF v
<1> DEFINE m == Len(v)
<1>5. DOMAIN v = 1..m /\ m \in Nat /\ v \in [1..m -> FramesOf(lines, 1, n)]
  BY <1>4
<1> HIDE DEF m
<1>6. v \in Surjection(1..m, Range(v))
  BY <1>5 DEF Surjection, Range
<1>7. IsFiniteSet(1..m) /\ Cardinality(1..m) = m
  BY <1>5, FS_Interval
<1>8. IsFiniteSet(Range(v)) /\ Cardinality(Range(v)) <= m
  BY <1>6, <1>7, FS_Surjection
<1>9. Cardinality(Range(v)) <= KeepFrames
  <2>1. Cardinality(Range(v)) \in Nat /\ KeepFrames \in Nat
    BY <1>8, FS_CardinalityType, KeepAssumption
  <2> QED
    BY <1>4, <1>5, <1>8, <2>1 DEF m
<1> QED
  BY <1>1, <1>2, <1>3, <1>8, <1>9 DEF v

\* What is before the new offset are the kept lines, all of them and no other.
LEMMA KeptInFront ==
    ASSUME NEW S, NEW lines \in Seq(S), NEW off \in Nat,
           NEW t \in Compactions(lines, off)
    PROVE  LET n == SentCount(lines, off) IN
           /\ t.off = Cardinality(KeptLines(lines, n))
           /\ \A i \in 1..t.off : \E j \in KeptLines(lines, n) : t.lines[i] = lines[j]
           /\ \A j \in KeptLines(lines, n) : \E i \in 1..t.off : t.lines[i] = lines[j]
<1> DEFINE n == SentCount(lines, off)
           kept == KeptLines(lines, n)
           c == Cardinality(kept)
           tail == SubSeq(lines, n + 1, Len(lines))
<1>1. n \in 0..Len(lines) /\ Len(lines) \in Nat
  BY DEF SentCount
<1>2. kept \subseteq 1..n /\ IsFiniteSet(kept) /\ c \in Nat
  BY <1>1, KeptIsOK
<1> HIDE DEF n, kept, c
<1>3. PICK f \in [1..c -> kept] :
         /\ t = [lines |-> [i \in 1..c |-> lines[f[i]]] \o tail, off |-> c]
         /\ \A i, j \in 1..c : i < j => f[i] < f[j]
  BY DEF Compactions, InOrder, n, kept, c
<1> DEFINE head == [i \in 1..c |-> lines[f[i]]]
<1>4. head \in Seq(S) /\ Len(head) = c /\ tail \in Seq(S)
  <2>1. \A i \in 1..c : f[i] \in 1..Len(lines)
    <3>1. \A x \in kept : x \in 1..Len(lines)
      BY <1>1, <1>2
    <3> QED
      BY <1>3, <3>1
  <2>2. \A i \in 1..c : lines[f[i]] \in S
    BY <2>1
  <2> QED
    BY <1>1, <1>2, <2>2
<1> HIDE DEF tail
<1>5. \A i \in 1..c : t.lines[i] = lines[f[i]]
  <2> SUFFICES ASSUME NEW i \in 1..c PROVE t.lines[i] = lines[f[i]]
    OBVIOUS
  <2>1. t.lines = head \o tail /\ head[i] = lines[f[i]]
    BY <1>3
  <2> HIDE DEF head
  <2>2. \A k \in 1..Len(head) + Len(tail) :
            (head \o tail)[k] = IF k <= Len(head) THEN head[k] ELSE tail[k - Len(head)]
    BY <1>4, ConcatProperties
  <2>3. i \in 1..Len(head) + Len(tail) /\ i <= Len(head)
    BY <1>2, <1>4
  <2> QED
    BY <2>1, <2>2, <2>3
<1>6. f \in Surjection(1..c, kept)
  <2>1. \A i, j \in 1..c : i # j => f[i] # f[j]
    <3> SUFFICES ASSUME NEW i \in 1..c, NEW j \in 1..c, i # j PROVE f[i] # f[j]
      OBVIOUS
    <3>1. f[i] \in Int /\ f[j] \in Int
      <4>1. \A x \in kept : x \in Int
        BY <1>1, <1>2
      <4> QED
        BY <1>3, <4>1
    <3>2. i < j \/ j < i
      OBVIOUS
    <3> QED
      BY <1>3, <3>1, <3>2
  <2>2. f \in Injection(1..c, kept)
    BY <1>3, <2>1 DEF Injection, IsInjective
  <2>3. Cardinality(1..c) = c
    BY <1>2, FS_Interval
  <2> QED
    BY <1>2, <2>2, <2>3, FS_Injection DEF c
<1>7. t.off = c
  BY <1>3
<1>8. \A j \in kept : \E i \in 1..c : f[i] = j
  BY <1>6 DEF Surjection
<1>9. \A i \in 1..c : f[i] \in kept
  BY <1>3
<1>10. \A i \in 1..c : \E j \in kept : t.lines[i] = lines[j]
  BY <1>5, <1>9
<1>11. \A j \in kept : \E i \in 1..c : t.lines[i] = lines[j]
  BY <1>5, <1>8
<1> HIDE DEF head
<1> QED
  BY <1>7, <1>10, <1>11 DEF n, kept, c

\* The lines of a frame that came lately stay: since its first line no more than
\* KeepFrames frames have come.
LEMMA RecentAreKept ==
    ASSUME NEW S, NEW lines \in Seq(S), NEW n \in 0..Len(lines),
           NEW i \in 1..n + 1, Cardinality(FramesOf(lines, i, n)) <= KeepFrames,
           NEW j \in i..n, lines[j].frame \notin FramesOf(lines, 1, i - 1)
    PROVE  j \in KeptLines(lines, n)
<1>1. PICK w : Windows(lines, n, w) /\ KeptFrames(lines, n) = Range(w[n])
  BY KeptFramesIs
<1> DEFINE v == w[n]
<1>2. n \in Nat /\ n \in i - 1 .. n /\ n \in 0..n /\ j \in 1..n
  OBVIOUS
<1>3. PICK q : NewestAre(lines, v, i, n, q)
  BY <1>1, <1>2, NewestStay
<1>4. v \in Seq(FramesOf(lines, 1, n))
  <2>1. WindowOK(v, FramesOf(lines, 1, n))
    BY <1>1, <1>2, WindowsAreOK
  <2> QED
    BY <2>1 DEF WindowOK
<1> HIDE DEF v
<1>5. Len(v) \in Nat /\ DOMAIN v = 1..Len(v)
  BY <1>4
<1>6. lines[j].frame \in FramesOf(lines, i, n)
  BY DEF FramesOf
<1>7. PICK x \in Len(v) - q + 1 .. Len(v) : v[x] = lines[j].frame
  BY <1>3, <1>6 DEF NewestAre
<1>8. x \in DOMAIN v
  BY <1>3, <1>5 DEF NewestAre
<1>9. lines[j].frame \in KeptFrames(lines, n)
  BY <1>1, <1>7, <1>8 DEF v, Range
<1> QED
  BY <1>2, <1>9 DEF KeptLines

\* After compact_log_file the sent part of a file is of no more than keep_frames frame
\* numbers, however long the file had become.
THEOREM CompactionIsBounded ==
    ASSUME NEW S, NEW lines \in Seq(S), NEW off \in Nat,
           NEW t \in Compactions(lines, off)
    PROVE  Cardinality(FramesOf(t.lines, 1, t.off)) <= KeepFrames
<1> DEFINE n == SentCount(lines, off)
<1>1. n \in 0..Len(lines)
  BY DEF SentCount
<1> HIDE DEF n
<1>2. IsFiniteSet(KeptFrames(lines, n)) /\ Cardinality(KeptFrames(lines, n)) <= KeepFrames
  BY <1>1, KeptIsOK
<1>3. \A i \in 1..t.off : \E j \in KeptLines(lines, n) : t.lines[i] = lines[j]
  BY KeptInFront DEF n
<1>4. FramesOf(t.lines, 1, t.off) \subseteq KeptFrames(lines, n)
  BY <1>3 DEF FramesOf, KeptLines
<1>5. /\ IsFiniteSet(FramesOf(t.lines, 1, t.off))
      /\ Cardinality(FramesOf(t.lines, 1, t.off)) <= Cardinality(KeptFrames(lines, n))
  BY <1>2, <1>4, FS_Subset
<1>6. /\ Cardinality(FramesOf(t.lines, 1, t.off)) \in Nat
      /\ Cardinality(KeptFrames(lines, n)) \in Nat /\ KeepFrames \in Nat
  BY <1>2, <1>5, FS_CardinalityType, KeepAssumption
<1> QED
  BY <1>2, <1>5, <1>6

\* compact_log_file removes no sent line of a frame whose first line in the file has been
\* followed by fewer than keep_frames other frame numbers.  (Lines of an older frame may
\* well be removed that were sent later: keep_frame_id does not move an id that is in the
\* window already.)
THEOREM CompactionKeepsRecent ==
    ASSUME NEW S, NEW lines \in Seq(S), NEW off \in Nat,
           NEW t \in Compactions(lines, off),
           NEW i \in 1..SentCount(lines, off) + 1,
           Cardinality(FramesOf(lines, i, SentCount(lines, off))) <= KeepFrames,
           NEW j \in i..SentCount(lines, off),
           lines[j].frame \notin FramesOf(lines, 1, i - 1)
    PROVE  \E k \in 1..t.off : t.lines[k] = lines[j]
<1>1. SentCount(lines, off) \in 0..Len(lines)
  BY DEF SentCount
<1>2. j \in KeptLines(lines, SentCount(lines, off))
  BY <1>1, RecentAreKept
<1> QED
  BY <1>2, KeptInFront

\* The one order of the first m positions.
LEMMA InOrderOfFirst ==
    ASSUME NEW m \in Nat
    PROVE  InOrder(1..m) = {[i \in 1..m |-> i]}
<1>0. IsFiniteSet(1..m) /\ Cardinality(1..m) = m
  BY FS_Interval
<1>1. [i \in 1..m |-> i] \in InOrder(1..m)
  BY <1>0 DEF InOrder
<1>2. ASSUME NEW f \in InOrder(1..m) PROVE f = [i \in 1..m |-> i]
  <2>1. f \in [1..m -> 1..m] /\ \A i, j \in 1..m : i < j => f[i] < f[j]
    BY <1>0 DEF InOrder
  <2>2. \A i \in 1..m : f[i] \in 1..m /\ f[i] \in Int
    BY <2>1
  <2>3. \A i, j \in 1..m : i # j => f[i] # f[j]
    <3> SUFFICES ASSUME NEW i \in 1..m, NEW j \in 1..m, i # j PROVE f[i] # f[j]
      OBVIOUS
    <3>1. i < j \/ j < i
      OBVIOUS
    <3> QED
      BY <2>1, <2>2, <3>1
  <2>4. f \in Injection(1..m, 1..m)
    BY <2>1, <2>3 DEF Injection, IsInjective
  <2>5. f \in Surjection(1..m, 1..m)
    BY <1>0, <2>4, FS_Injection
  <2> DEFINE Bad == {i \in 1..m : f[i] # i}
  <2>6. Bad = {}
    <3> SUFFICES ASSUME Bad # {} PROVE FALSE
      OBVIOUS
    <3>1. PICK i \in Bad : \A y \in Bad : i <= y
      <4>1. Bad \subseteq Nat
        OBVIOUS
      <4> HIDE DEF Bad
      <4> QED
        BY <4>1, LeastNumber
    <3>2. i \in 1..m /\ f[i] # i
      OBVIOUS
    <3>3. \A y \in 1..m : y < i => f[y] = y
      BY <3>1
    <3> HIDE DEF Bad
    <3>4. PICK x \in 1..m : f[x] = i
      BY <2>5, <3>2 DEF Surjection
    <3>5. i < x
      <4>1. x # i /\ ~(x < i)
        BY <3>2, <3>3, <3>4
      <4> QED
        BY <3>2, <4>1
    <3>6. f[i] < i
      BY <2>1, <3>2, <3>4, <3>5
    <3>7. f[f[i]] = f[i]
      BY <2>2, <3>2, <3>3, <3>6
    <3> QED
      BY <2>2, <2>3, <3>2, <3>7
  <2> QED
    BY <2>1, <2>6
<1> QED
  BY <1>1, <1>2

\* A file of no more than keep_frames sent frames is left as it is.
LEMMA FewAreLeft ==
    ASSUME NEW S, NEW lines \in Seq(S), NEW n \in 0..Len(lines),
           Cardinality(FramesOf(lines, 1, n)) <= KeepFrames
    PROVE  Compactions(lines, n) = {[lines |-> lines, off |-> n]}
<1>1. n \in Nat /\ Len(lines) \in Nat /\ SentCount(lines, n) = n
  BY DEF SentCount
<1>2. KeptLines(lines, n) = 1..n
  <2>1. 1 \in 1..n + 1 /\ FramesOf(lines, 1, 1 - 1) = {}
    <3>1. 1..(1 - 1) = {}
      OBVIOUS
    <3> QED
      BY <1>1, <3>1 DEF FramesOf
  <2>2. \A j \in 1..n : j \in KeptLines(lines, n)
    BY <2>1, RecentAreKept
  <2> QED
    BY <2>2 DEF KeptLines
<1>3. Cardinality(1..n) = n
  BY <1>1, FS_Interval
<1> DEFINE id == [i \in 1..n |-> i]
           head == [i \in 1..n |-> lines[id[i]]]
           tail == SubSeq(lines, n + 1, Len(lines))
<1>4. InOrder(1..n) = {id}
  BY <1>1, InOrderOfFirst
<1>5. Compactions(lines, n) = {[lines |-> head \o tail, off |-> n]}
  <2>1. Compactions(lines, n) =
          {[lines |-> [i \in 1..n |-> lines[f[i]]] \o tail, off |-> n] : f \in InOrder(1..n)}
    BY <1>1, <1>2, <1>3, Zenon DEF Compactions
  <2> HIDE DEF tail, id
  <2> QED
    BY <1>4, <2>1
<1>6. /\ head \in Seq(S) /\ Len(head) = n /\ \A i \in 1..n : head[i] = lines[i]
  OBVIOUS
<1>7. /\ tail \in Seq(S) /\ Len(tail) = Len(lines) - n
      /\ \A i \in 1..Len(lines) - n : tail[i] = lines[n + i]
  BY <1>1
<1> HIDE DEF head, tail
<1>8. head \o tail = lines
  <2>1. /\ head \o tail \in Seq(S)
        /\ Len(head \o tail) = Len(head) + Len(tail)
        /\ \A i \in 1..Len(head) + Len(tail) :
              (head \o tail)[i] = IF i <= Len(head) THEN head[i] ELSE tail[i - Len(head)]
    BY <1>6, <1>7, ConcatProperties
  <2>2. Len(head) + Len(tail) = Len(lines)
    BY <1>1, <1>6, <1>7
  <2>3. ASSUME NEW i \in 1..Len(lines) PROVE (head \o tail)[i] = lines[i]
    <3>1. CASE i <= n
      BY <1>6, <2>1, <2>2, <3>1
    <3>2. CASE ~(i <= n)
      <4>1. i - n \in 1..Len(lines) - n /\ n + (i - n) = i
        BY <1>1, <3>2
      <4>2. tail[i - n] = lines[i]
        BY <1>7, <4>1
      <4> QED
        BY <1>6, <2>1, <2>2, <3>2, <4>2
    <3> QED
      BY <3>1, <3>2
  <2> QED
    BY <2>1, <2>2, <2>3, SeqEqual
<1> QED
  BY <1>5, <1>8

\* Compacting a file again before anything more of it is sent changes nothing:
\* main_send_thread compacts every file after each 4G send and each BeiDou batch, also the
\* files of which that send took no line.
THEOREM CompactionIsIdempotent ==
    ASSUME NEW S, NEW lines \in Seq(S), NEW off \in Nat,
           NEW t \in Compactions(lines, off)
    PROVE  Compactions(t.lines, t.off) = {t}
<1>1. /\ SentCount(lines, off) \in 0..Len(lines)
      /\ t \in [lines : Seq(S), off : Nat]
      /\ Len(t.lines) = t.off + Len(lines) - SentCount(lines, off)
  BY CompactionShape
<1>2. t.lines \in Seq(S) /\ t.off \in 0..Len(t.lines)
  <2>1. t.lines \in Seq(S) /\ t.off \in Nat /\ Len(lines) \in Nat
    BY <1>1
  <2>2. Len(lines) - SentCount(lines, off) \in Nat
    BY <1>1, <2>1
  <2> QED
    BY <1>1, <2>1, <2>2
<1>3. Cardinality(FramesOf(t.lines, 1, t.off)) <= KeepFrames
  BY CompactionIsBounded
<1>4. Compactions(t.lines, t.off) = {[lines |-> t.lines, off |-> t.off]}
  BY <1>2, <1>3, FewAreLeft
<1>5. t = [lines |-> t.lines, off |-> t.off]
  BY <1>1
<1> QED
  BY <1>4, <1>5

=============================================================================
