----------------------------- MODULE Util_proofs -----------------------------
(***************************************************************************)
(* Proofs about pkg/util.  First the list of queue.go (LinkedList), for    *)
(* every set of values and every bound on its size: the chain of cells     *)
(* stays well-formed, and every call implements the call of AbstractList.  *)
(* Then the trigger (Trigger), for every set of callers and every          *)
(* MinInterval.                                                            *)
(*                                                                         *)
(* The proof about the list has four layers.  Linking says that an array c *)
(* of cells is the chain from first to last; WalkIs shows that the loops   *)
(* then visit c and stop.  SpliceLinks and RemoveLinks say what putting    *)
(* new cells in and taking one out make of c.  SplicedRead and WithoutRead *)
(* carry this over to the values, where Join is the abstract effect.  One  *)
(* lemma per operation then shows that its assignments are such a splice   *)
(* or removal, and one per action that it implements the abstract action.  *)
(***************************************************************************)
EXTENDS LinkedList, Trigger, FiniteSetTheorems, FunctionTheorems, SequenceTheorems, TLAPS

(* The chain of cells.                                                     *)

\* The cells c[0], c[1], ... c[n - 1] are those of a list with the first cell
\* f, the last cell l and the links nx.
Linking(c, n, f, l, nx) ==
    /\ n \in 0 .. MaxSize
    /\ c \in [0 .. n - 1 -> Cells]
    /\ nx \in [Cells -> Cells \union {Nil}]
    /\ \A j, k \in 0 .. n - 1 : c[j] = c[k] => j = k
    /\ \A k \in 0 .. n - 1 : nx[c[k]] = IF k = n - 1 THEN Nil ELSE c[k + 1]
    /\ n = 0 => f = Nil /\ l = Nil
    /\ n > 0 => f = c[0] /\ l = c[n - 1]

\* What the loops meet: the cells, and then Nil.
Steps(c, n) == [k \in 0 .. MaxSize |-> IF k < n THEN c[k] ELSE Nil]

\* A set of numbers that is not empty has a least one.
LEMMA Least ==
    ASSUME NEW D \in SUBSET Nat, D # {}
    PROVE  \E m \in D : \A k \in D : m <= k
<1>1. PICK m \in D : \A k \in D : ~(<<k, m>> \in OpToRel(<, Nat))
  BY NatLessThanWellFounded, WFMin
<1>2. \A k \in D : ~(k < m)
  BY <1>1 DEF OpToRel
<1>3. QED
  BY <1>2

\* The equation that defines Walk, which has one solution.
Trail(g, f, nx) ==
    g = [n \in 0 .. MaxSize |-> IF n = 0 THEN f
            ELSE IF g[n - 1] = Nil THEN Nil ELSE nx[g[n - 1]]]

LEMMA TrailsAgree ==
    ASSUME NEW f, NEW nx, NEW g, NEW h, Trail(g, f, nx), Trail(h, f, nx)
    PROVE  g = h
<1> USE SizeAssumption
<1> DEFINE D == {n \in 0 .. MaxSize : g[n] # h[n]}
<1>0. D \in SUBSET Nat
  OBVIOUS
<1>1. SUFFICES ASSUME D # {} PROVE FALSE
  <2>1. \A n \in 0 .. MaxSize : g[n] = h[n]
    BY <1>1
  <2>2. QED
    BY <2>1 DEF Trail
<1>2. PICK m \in D : \A k \in D : m <= k
  <2> HIDE DEF D
  <2> QED
    BY <1>0, <1>1, Least
<1>3. CASE m = 0
  BY <1>3 DEF Trail
<1>4. CASE m # 0
  <2>0. m \in 1 .. MaxSize /\ m - 1 \in 0 .. MaxSize /\ ~(m <= m - 1)
    BY <1>4
  <2>1. m - 1 \notin D
    <3> HIDE DEF D
    <3> QED
      BY <1>2, <2>0
  <2>2. g[m - 1] = h[m - 1]
    BY <2>0, <2>1
  <2>3. QED
    BY <2>0, <2>2 DEF Trail
<1>5. QED
  BY <1>3, <1>4

LEMMA WalkIs ==
    \A c : Linking(c, size, first, last, next) => Walk = Steps(c, size)
<1> SUFFICES ASSUME NEW c, Linking(c, size, first, last, next)
             PROVE  Walk = Steps(c, size)
  OBVIOUS
<1>1. Trail(Steps(c, size), first, next)
  BY SizeAssumption DEF Trail, Linking, Steps, Cells, Nil
<1>2. Trail(Walk, first, next)
  BY <1>1 DEF Walk, Trail
<1>3. QED
  BY <1>1, <1>2, TrailsAgree

-----------------------------------------------------------------------------
(* Allocation.                                                             *)

Distinct(cs, m) == \A j, k \in 1 .. m : cs[j] = cs[k] => j = k

\* Of MaxSize cells, those that a list of n values does not use are enough for
\* m more.
LEMMA EnoughCells ==
    ASSUME NEW n \in 0 .. MaxSize, NEW c \in [0 .. n - 1 -> Cells],
           \A j, k \in 0 .. n - 1 : c[j] = c[k] => j = k,
           NEW m \in 0 .. MaxSize, n + m <= MaxSize
    PROVE  \E cs \in [1 .. m -> Cells \ Range(c)] : Distinct(cs, m)
<1> USE SizeAssumption
<1>1. IsFiniteSet(Cells) /\ Cardinality(Cells) = MaxSize
  BY FS_Interval DEF Cells
<1>2. Cardinality(0 .. n - 1) = n /\ IsFiniteSet(0 .. n - 1)
  BY FS_Interval
<1>3. c \in Injection(0 .. n - 1, Cells)
  BY Fun_IsInj
<1>4. c \in Bijection(0 .. n - 1, Range(c))
  BY <1>3, Fun_InjMeansBijImage
<1>5. IsFiniteSet(Range(c)) /\ Cardinality(Range(c)) = n
  BY <1>2, <1>4, FS_Bijection DEF ExistsBijection
<1>6. Range(c) \subseteq Cells
  BY Fun_RangeProperties
<1> DEFINE F == Cells \ Range(c)
           q == Cardinality(F)
<1>7. IsFiniteSet(F) /\ q = MaxSize - n
  <2>1. Cells \cap Range(c) = Range(c)
    BY <1>6
  <2>2. QED
    BY <1>1, <1>5, <2>1, FS_Difference
<1>8. q \in Nat /\ m <= q
  BY <1>7
<1>9. PICK b : b \in Bijection(1 .. q, F)
  BY <1>7, FS_CardinalityType DEF ExistsBijection
<1>10. /\ b \in [1 .. q -> F]
       /\ \A j, k \in 1 .. q : b[j] = b[k] => j = k
  <2> HIDE DEF F, q
  <2> QED
    BY <1>9 DEF Bijection, Injection, Surjection, IsInjective
<1> HIDE DEF F, q
<1> DEFINE d == [k \in 1 .. m |-> b[k]]
<1>11. d \in [1 .. m -> F]
  BY <1>8, <1>10
<1>12. Distinct(d, m)
  BY <1>8, <1>10 DEF Distinct
<1>13. QED
  BY <1>11, <1>12 DEF F

\* Fresh hands out different cells, none of which is in the list.
LEMMA FreshCells ==
    ASSUME NEW c, Linking(c, size, first, last, next),
           NEW m \in 0 .. MaxSize, size + m <= MaxSize
    PROVE  /\ Fresh(m) \in [1 .. m -> Cells] /\ Distinct(Fresh(m), m)
           /\ \A k \in 1 .. m, j \in 0 .. size - 1 : Fresh(m)[k] # c[j]
<1>1. Walk = Steps(c, size)
  BY WalkIs
<1>2. Free = Cells \ Range(c)
  BY <1>1, SizeAssumption DEF Free, Steps, Range, Linking, Cells, Nil
<1>3. \E cs \in [1 .. m -> Free] : Distinct(cs, m)
  BY <1>2, EnoughCells DEF Linking
<1>4. Fresh(m) \in [1 .. m -> Free] /\ Distinct(Fresh(m), m)
  BY <1>3 DEF Fresh, Distinct
<1>5. QED
  BY <1>2, <1>4 DEF Linking, Range

-----------------------------------------------------------------------------
(* What the calls do to the chain.                                         *)

\* The cells cs[1] ... cs[m] put before the cell with index i.
Spliced(c, n, cs, m, i) ==
    [k \in 0 .. n + m - 1 |-> IF k < i THEN c[k]
                              ELSE IF k < i + m THEN cs[k - i + 1] ELSE c[k - m]]

SplicedAs(d, N, c, cs, m, i) ==
    /\ d \in [0 .. N - 1 -> Cells]
    /\ \A k \in 0 .. i - 1 : d[k] = c[k]
    /\ \A k \in i .. i + m - 1 : d[k] = cs[k - i + 1]
    /\ \A k \in i + m .. N - 1 : d[k] = c[k - m]

LEMMA SplicedCells ==
    ASSUME NEW n \in Nat, NEW c \in [0 .. n - 1 -> Cells], NEW m \in Nat,
           NEW cs \in [1 .. m -> Cells], NEW i \in 0 .. n
    PROVE  SplicedAs(Spliced(c, n, cs, m, i), n + m, c, cs, m, i)
<1> DEFINE B(k) == IF k < i THEN c[k]
                   ELSE IF k < i + m THEN cs[k - i + 1] ELSE c[k - m]
<1>1. Spliced(c, n, cs, m, i) = [k \in 0 .. n + m - 1 |-> B(k)]
  BY DEF Spliced
<1>2. \A k \in 0 .. n + m - 1 : B(k) \in Cells
  <2> SUFFICES ASSUME NEW k \in 0 .. n + m - 1 PROVE B(k) \in Cells
    OBVIOUS
  <2>1. CASE k < i
    BY <2>1
  <2>2. CASE ~(k < i) /\ k < i + m
    <3>1. k - i + 1 \in 1 .. m
      BY <2>2
    <3>2. QED
      BY <2>2, <3>1
  <2>3. CASE ~(k < i) /\ ~(k < i + m)
    <3>1. k - m \in 0 .. n - 1
      BY <2>3
    <3>2. QED
      BY <2>3, <3>1
  <2>4. QED
    BY <2>1, <2>2, <2>3
<1>3. /\ \A k \in 0 .. i - 1 : k \in 0 .. n + m - 1 /\ B(k) = c[k]
      /\ \A k \in i .. i + m - 1 : k \in 0 .. n + m - 1 /\ B(k) = cs[k - i + 1]
      /\ \A k \in i + m .. n + m - 1 : k \in 0 .. n + m - 1 /\ B(k) = c[k - m]
  OBVIOUS
<1> HIDE DEF B
<1>4. QED
  BY <1>1, <1>2, <1>3 DEF SplicedAs

\* The new cells cs are different from each other and from those of the list,
\* y links them between the cells i - 1 and i, and f2 and l2 are the new ends.
NewCells(c, n, cs, m) ==
    /\ m \in Nat \ {0} /\ n + m <= MaxSize
    /\ cs \in [1 .. m -> Cells] /\ Distinct(cs, m)
    /\ \A k \in 1 .. m, j \in 0 .. n - 1 : cs[k] # c[j]

LinksIn(c, n, nx, cs, m, i, y) ==
    /\ y \in [Cells -> Cells \union {Nil}]
    /\ \A k \in 1 .. m - 1 : y[cs[k]] = cs[k + 1]
    /\ y[cs[m]] = IF i = n THEN Nil ELSE c[i]
    /\ i > 0 => y[c[i - 1]] = cs[1]
    /\ \A k \in 0 .. n - 1 : k # i - 1 => y[c[k]] = nx[c[k]]

LEMMA SpliceLinks ==
    ASSUME NEW c, NEW n, NEW f, NEW l, NEW nx, Linking(c, n, f, l, nx),
           NEW m, NEW i, NEW cs, NewCells(c, n, cs, m), i \in 0 .. n,
           NEW y, LinksIn(c, n, nx, cs, m, i, y),
           NEW f2, f2 = IF i = 0 THEN cs[1] ELSE f,
           NEW l2, l2 = IF i = n THEN cs[m] ELSE l
    PROVE  Linking(Spliced(c, n, cs, m, i), n + m, f2, l2, y)
<1> DEFINE d == Spliced(c, n, cs, m, i)
<1>1. /\ n \in Nat /\ m \in Nat \ {0} /\ i \in 0 .. n /\ n + m \in 1 .. MaxSize
      /\ c \in [0 .. n - 1 -> Cells] /\ cs \in [1 .. m -> Cells]
  BY SizeAssumption DEF Linking, NewCells
<1> DEFINE N == n + m
<1>2. /\ \A j, k \in 0 .. n - 1 : c[j] = c[k] => j = k
      /\ \A k \in 0 .. n - 1 : nx[c[k]] = IF k = n - 1 THEN Nil ELSE c[k + 1]
      /\ n > 0 => f = c[0] /\ l = c[n - 1]
  BY DEF Linking
<1>3. /\ d \in [0 .. N - 1 -> Cells]
      /\ \A k \in 0 .. i - 1 : d[k] = c[k]
      /\ \A k \in i .. i + m - 1 : d[k] = cs[k - i + 1]
      /\ \A k \in i + m .. N - 1 : d[k] = c[k - m]
  <2>1. m \in Nat
    BY <1>1
  <2>2. SplicedAs(d, N, c, cs, m, i)
    BY <1>1, <2>1, SplicedCells, Zenon
  <2>3. QED
    BY <2>2, Zenon DEF SplicedAs
<1>4. N = n + m /\ N \in Nat
  BY <1>1
<1> HIDE DEF d, N
<1>5. \A j, k \in 0 .. N - 1 : d[j] = d[k] => j = k
  <2> SUFFICES ASSUME NEW j \in 0 .. N - 1, NEW k \in 0 .. N - 1, d[j] = d[k] PROVE j = k
    OBVIOUS
  <2>0. \A q \in 1 .. m, p \in 0 .. n - 1 : cs[q] # c[p]
    BY DEF NewCells
  <2>1. CASE j \in i .. i + m - 1 /\ k \in i .. i + m - 1
    <3>1. cs[j - i + 1] = cs[k - i + 1] /\ j - i + 1 \in 1 .. m /\ k - i + 1 \in 1 .. m
      BY <1>1, <1>4, <1>3, <2>1
    <3>2. QED
      BY <3>1, <1>1, <1>4 DEF Distinct, NewCells
  <2>2. CASE j \in i .. i + m - 1 /\ k \notin i .. i + m - 1
    BY <1>1, <1>4, <1>3, <2>0, <2>2
  <2>3. CASE j \notin i .. i + m - 1 /\ k \in i .. i + m - 1
    BY <1>1, <1>4, <1>3, <2>0, <2>3
  <2>4. CASE j \notin i .. i + m - 1 /\ k \notin i .. i + m - 1
    BY <1>1, <1>4, <1>2, <1>3, <2>4
  <2>5. QED
    BY <2>1, <2>2, <2>3, <2>4
<1>6. \A k \in 0 .. N - 1 : y[d[k]] = IF k = N - 1 THEN Nil ELSE d[k + 1]
  <2> SUFFICES ASSUME NEW k \in 0 .. N - 1
               PROVE  y[d[k]] = IF k = N - 1 THEN Nil ELSE d[k + 1]
    OBVIOUS
  <2>0. /\ \A q \in 1 .. m - 1 : y[cs[q]] = cs[q + 1]
        /\ y[cs[m]] = IF i = n THEN Nil ELSE c[i]
        /\ i > 0 => y[c[i - 1]] = cs[1]
        /\ \A q \in 0 .. n - 1 : q # i - 1 => y[c[q]] = nx[c[q]]
    BY DEF LinksIn
  <2>1. CASE k < i - 1
    <3>1. k \in 0 .. n - 1 /\ k # i - 1 /\ k # n - 1 /\ k # N - 1
      BY <1>1, <1>4, <2>1
    <3>2. d[k] = c[k] /\ d[k + 1] = c[k + 1]
      BY <1>1, <1>4, <1>3, <2>1
    <3>3. QED
      BY <1>2, <2>0, <3>1, <3>2
  <2>2. CASE k = i - 1
    <3>1. k \in 0 .. i - 1 /\ i > 0 /\ k + 1 \in i .. i + m - 1 /\ k + 1 - i + 1 = 1 /\ k # N - 1
      BY <1>1, <1>4, <2>2
    <3>2. d[k] = c[k]
      BY <1>3, <3>1
    <3>3. d[k + 1] = cs[k + 1 - i + 1]
      BY <1>3, <3>1
    <3>4. QED
      BY <2>0, <2>2, <3>1, <3>2, <3>3
  <2>3. CASE k \in i .. i + m - 2
    <3>1. k - i + 1 \in 1 .. m - 1 /\ d[k] = cs[k - i + 1] /\ d[k + 1] = cs[k - i + 1 + 1]
      BY <1>1, <1>4, <1>3, <2>3
    <3>2. QED
      BY <1>1, <1>4, <2>0, <2>3, <3>1
  <2>4. CASE k = i + m - 1
    <3>1. d[k] = cs[m]
      BY <1>1, <1>4, <1>3, <2>4
    <3>2. i # n => k # N - 1 /\ d[k + 1] = c[i]
      BY <1>1, <1>4, <1>3, <2>4
    <3>3. i = n => k = N - 1
      BY <1>1, <1>4, <2>4
    <3>4. QED
      BY <2>0, <3>1, <3>2, <3>3
  <2>5. CASE k >= i + m
    <3>1. k - m \in i .. n - 1 /\ d[k] = c[k - m] /\ k - m # i - 1
      BY <1>1, <1>4, <1>3, <2>5
    <3>2. y[d[k]] = IF k - m = n - 1 THEN Nil ELSE c[k - m + 1]
      BY <1>1, <1>4, <1>2, <2>0, <3>1
    <3>3. k # N - 1 => d[k + 1] = c[k - m + 1]
      BY <1>1, <1>4, <1>3, <2>5
    <3>4. QED
      BY <1>1, <1>4, <3>1, <3>2, <3>3
  <2>6. \/ k < i - 1 \/ k = i - 1 \/ k \in i .. i + m - 2
        \/ k = i + m - 1 \/ k >= i + m
    BY <1>1, <1>4
  <2>7. QED
    BY <2>1, <2>2, <2>3, <2>4, <2>5, <2>6, Zenon
<1>7. f2 = d[0]
  <2>1. CASE i = 0
    <3>1. 0 \in i .. i + m - 1 /\ 0 - i + 1 = 1
      BY <1>1, <2>1
    <3>2. d[0] = cs[1]
      BY <1>3, <3>1
    <3>3. QED
      BY <2>1, <3>2
  <2>2. CASE i # 0
    <3>1. 0 \in 0 .. i - 1 /\ n > 0
      BY <1>1, <2>2
    <3>2. QED
      BY <1>2, <1>3, <2>2, <3>1
  <2>3. QED
    BY <2>1, <2>2
<1>8. l2 = d[N - 1]
  <2>1. CASE i = n
    BY <1>1, <1>4, <1>3, <2>1
  <2>2. CASE i # n
    BY <1>1, <1>4, <1>2, <1>3, <2>2
  <2>3. QED
    BY <2>1, <2>2
<1>9. Linking(d, N, f2, l2, y)
  <2>1. N \in 0 .. MaxSize /\ N # 0
    BY <1>1, <1>4
  <2>2. y \in [Cells -> Cells \union {Nil}]
    BY DEF LinksIn
  <2>3. QED
    BY <1>3, <1>5, <1>6, <1>7, <1>8, <2>1, <2>2, Zenon DEF Linking
<1>10. QED
  BY <1>4, <1>9 DEF d

\* The cell with index i taken out.
Without(c, n, i) == [k \in 0 .. n - 2 |-> IF k < i THEN c[k] ELSE c[k + 1]]

LEMMA RemoveLinks ==
    ASSUME NEW c, NEW n, NEW f, NEW l, NEW nx, Linking(c, n, f, l, nx), n > 1,
           NEW i \in 0 .. n - 1,
           NEW y \in [Cells -> Cells \union {Nil}],
           i > 0 => y[c[i - 1]] = nx[c[i]],
           \A k \in 0 .. n - 1 : k # i - 1 => y[c[k]] = nx[c[k]],
           NEW f2, f2 = IF i = 0 THEN c[1] ELSE f,
           NEW l2, l2 = IF i = n - 1 THEN c[n - 2] ELSE l
    PROVE  Linking(Without(c, n, i), n - 1, f2, l2, y)
<1> USE SizeAssumption
<1> DEFINE d == Without(c, n, i)
<1>1. /\ n \in 0 .. MaxSize /\ c \in [0 .. n - 1 -> Cells]
      /\ \A j, k \in 0 .. n - 1 : c[j] = c[k] => j = k
      /\ \A k \in 0 .. n - 1 : nx[c[k]] = IF k = n - 1 THEN Nil ELSE c[k + 1]
      /\ f = c[0] /\ l = c[n - 1]
  BY DEF Linking
<1>3. /\ \A k \in 0 .. n - 2 : k < i => d[k] = c[k]
      /\ \A k \in 0 .. n - 2 : k >= i => d[k] = c[k + 1]
  BY <1>1 DEF Without
<1>4. d \in [0 .. n - 2 -> Cells]
  BY <1>1 DEF Without
<1> HIDE DEF d
<1>5. \A j, k \in 0 .. n - 2 : d[j] = d[k] => j = k
  BY <1>1, <1>3
<1>6. \A k \in 0 .. n - 2 : y[d[k]] = IF k = n - 2 THEN Nil ELSE d[k + 1]
  <2> SUFFICES ASSUME NEW k \in 0 .. n - 2
               PROVE  y[d[k]] = IF k = n - 2 THEN Nil ELSE d[k + 1]
    OBVIOUS
  <2>1. CASE k < i - 1
    BY <1>1, <1>3, <2>1
  <2>2. CASE k = i - 1
    BY <1>1, <1>3, <2>2
  <2>3. CASE k >= i
    <3>1. k + 1 \in 0 .. n - 1 /\ k + 1 # i - 1 /\ d[k] = c[k + 1]
      BY <1>1, <1>3, <2>3
    <3>2. y[d[k]] = IF k + 1 = n - 1 THEN Nil ELSE c[k + 1 + 1]
      BY <1>1, <3>1
    <3>3. k # n - 2 => d[k + 1] = c[k + 1 + 1]
      BY <1>1, <1>3, <2>3
    <3>4. QED
      BY <1>1, <3>2, <3>3
  <2>4. QED
    BY <1>1, <2>1, <2>2, <2>3
<1>7. f2 = d[0] /\ l2 = d[n - 2]
  BY <1>1, <1>3
<1>8. QED
  <2>1. n - 1 - 1 = n - 2 /\ n - 1 \in 1 .. MaxSize
    BY <1>1
  <2>2. QED
    <3> DEFINE N == n - 1
    <3>1. N - 1 = n - 2 /\ N \in 1 .. MaxSize /\ N # 0
      BY <2>1
    <3>2. /\ d \in [0 .. N - 1 -> Cells]
          /\ \A j, k \in 0 .. N - 1 : d[j] = d[k] => j = k
          /\ \A k \in 0 .. N - 1 : y[d[k]] = IF k = N - 1 THEN Nil ELSE d[k + 1]
          /\ f2 = d[0] /\ l2 = d[N - 1]
      BY <3>1, <1>4, <1>5, <1>6, <1>7
    <3> HIDE DEF N
    <3>3. Linking(d, N, f2, l2, y)
      BY <3>1, <3>2 DEF Linking
    <3>4. QED
      BY <3>3 DEF d, N

-----------------------------------------------------------------------------
(* Sequences.                                                              *)

LEMMA ArrayIsSeq ==
    ASSUME NEW V, NEW m \in Nat, NEW s \in [1 .. m -> V]
    PROVE  s \in Seq(V) /\ Len(s) = m
OBVIOUS

LEMMA TailThen ==
    ASSUME NEW S, NEW m \in Nat \ {0}, NEW s \in [1 .. m -> S], NEW t
    PROVE  \A k \in 1 .. m : Append(Tail(s), t)[k] = IF k = m THEN t ELSE s[k + 1]
<1>1. s \in Seq(S) /\ Len(s) = m
  BY ArrayIsSeq
<1>2. s # <<>>
  BY <1>1
<1>3. Tail(s) \in Seq(S) /\ Len(Tail(s)) = m - 1 /\ \A k \in 1 .. m - 1 : Tail(s)[k] = s[k + 1]
  BY <1>1, <1>2
<1>4. QED
  BY <1>3

\* The sequence u of V is s, of length p, and then t, of length q.
IsConcat(u, s, p, t, q, V) ==
    /\ u \in Seq(V) /\ Len(u) = p + q
    /\ \A k \in 1 .. p : u[k] = s[k]
    /\ \A k \in 1 .. q : u[p + k] = t[k]

LEMMA Concatenated ==
    ASSUME NEW V, NEW s \in Seq(V), NEW t \in Seq(V),
           NEW p, p = Len(s), NEW q, q = Len(t)
    PROVE  IsConcat(s \o t, s, p, t, q, V)
BY DEF IsConcat

\* A sequence that is put together of a front, new values and a back.
Joined(s, vs, a, b, t) ==
    /\ Len(t) = a + Len(vs) + (Len(s) - b)
    /\ \A k \in 1 .. a : t[k] = s[k]
    /\ \A k \in 1 .. Len(vs) : t[a + k] = vs[k]
    /\ \A k \in 1 .. Len(s) - b : t[a + Len(vs) + k] = s[b + k]

Join(s, vs, a, b) == SubSeq(s, 1, a) \o vs \o SubSeq(s, b + 1, Len(s))

LEMMA JoinedIs ==
    ASSUME NEW V, NEW s \in Seq(V), NEW vs \in Seq(V), NEW a \in 0 .. Len(s),
           NEW b \in a .. Len(s), NEW t \in Seq(V), Joined(s, vs, a, b, t)
    PROVE  t = Join(s, vs, a, b)
<1> DEFINE x == SubSeq(s, 1, a)
           z == SubSeq(s, b + 1, Len(s))
<1>1. x \in Seq(V) /\ Len(x) = a /\ \A k \in 1 .. a : x[k] = s[k]
  OBVIOUS
<1>2. z \in Seq(V) /\ Len(z) = Len(s) - b /\ \A k \in 1 .. Len(s) - b : z[k] = s[b + k]
  OBVIOUS
<1> HIDE DEF x, z
<1>3. /\ x \o vs \in Seq(V) /\ Len(x \o vs) = a + Len(vs)
      /\ \A k \in 1 .. a : (x \o vs)[k] = s[k]
      /\ \A k \in 1 .. Len(vs) : (x \o vs)[a + k] = vs[k]
  <2>1. IsConcat(x \o vs, x, a, vs, Len(vs), V)
    BY <1>1, Concatenated, Zenon
  <2>2. QED
    BY <1>1, <2>1, Zenon DEF IsConcat
<1> DEFINE xv == x \o vs
<1> HIDE DEF xv
<1>4. /\ xv \o z \in Seq(V) /\ Len(xv \o z) = a + Len(vs) + (Len(s) - b)
      /\ \A k \in 1 .. a + Len(vs) : (xv \o z)[k] = xv[k]
      /\ \A k \in 1 .. Len(s) - b : (xv \o z)[a + Len(vs) + k] = s[b + k]
  <2>1. xv \in Seq(V) /\ Len(xv) = a + Len(vs)
    BY <1>3 DEF xv
  <2>2. IsConcat(xv \o z, xv, a + Len(vs), z, Len(s) - b, V)
    BY <1>2, <2>1, Concatenated, Zenon
  <2>3. QED
    BY <1>2, <2>2, Zenon DEF IsConcat
<1>5. t = xv \o z
  <2>1. \A k \in 1 .. Len(t) : t[k] = (xv \o z)[k]
    <3> SUFFICES ASSUME NEW k \in 1 .. Len(t) PROVE t[k] = (xv \o z)[k]
      OBVIOUS
    <3>1. CASE k <= a
      BY <1>3, <1>4, <3>1 DEF Joined, xv
    <3>2. CASE k \in a + 1 .. a + Len(vs)
      <4>1. k - a \in 1 .. Len(vs) /\ a + (k - a) = k /\ k \in 1 .. a + Len(vs)
        BY <3>2
      <4>2. t[k] = vs[k - a] /\ xv[k] = vs[k - a]
        BY <4>1, <1>3 DEF Joined, xv
      <4>3. QED
        BY <4>1, <4>2, <1>4
    <3>3. CASE k > a + Len(vs)
      <4>1. k - a - Len(vs) \in 1 .. Len(s) - b /\ a + Len(vs) + (k - a - Len(vs)) = k
        BY <3>3 DEF Joined
      <4>2. t[k] = s[b + (k - a - Len(vs))]
        BY <4>1, Zenon DEF Joined
      <4>3. (xv \o z)[k] = s[b + (k - a - Len(vs))]
        BY <4>1, <1>4, Zenon
      <4>4. QED
        BY <4>2, <4>3
    <3>4. k \in Int /\ a \in Int /\ Len(vs) \in Int /\ k \in 1 .. Len(t)
      OBVIOUS
    <3>5. \A q, e, v \in Int : q <= e \/ q \in e + 1 .. e + v \/ q > e + v
      OBVIOUS
    <3>6. QED
      BY <3>1, <3>2, <3>3, <3>4, <3>5, Zenon
  <2>2. QED
    BY <2>1, <1>4, SeqEqual DEF Joined
<1>6. QED
  BY <1>5 DEF x, z, xv, Join

-----------------------------------------------------------------------------
(* What the operators of the model do.                                     *)

FilledAs(w, v, cs, m, vs) ==
    /\ w \in [Cells -> Vals \union {Zero}]
    /\ \A k \in 1 .. m : w[cs[k]] = vs[k]
    /\ \A e \in Cells : (\A k \in 1 .. m : cs[k] # e) => w[e] = v[e]

LEMMA FilledCells ==
    ASSUME val \in [Cells -> Vals \union {Zero}],
           NEW m \in Nat, NEW cs \in [1 .. m -> Cells], Distinct(cs, m),
           NEW vs \in [1 .. m -> Vals]
    PROVE  FilledAs(Filled(cs, vs), val, cs, m, vs)
<1>1. DOMAIN cs = 1 .. m
  OBVIOUS
<1>2. \A k \in 1 .. m : (CHOOSE j \in DOMAIN cs : cs[j] = cs[k]) = k
  BY <1>1 DEF Distinct
<1>3. \A k \in 1 .. m : Filled(cs, vs)[cs[k]] = vs[k]
  BY <1>1, <1>2 DEF Filled
<1>4. \A e \in Cells : (\A k \in 1 .. m : cs[k] # e) => Filled(cs, vs)[e] = val[e]
  BY <1>1 DEF Filled
<1>5. \A e \in Cells : Filled(cs, vs)[e] \in Vals \union {Zero}
  BY <1>3, <1>4
<1>6. QED
  BY <1>3, <1>4, <1>5 DEF Filled, FilledAs

LinkedAs(y, nx, cs, m, t) ==
    /\ y \in [Cells -> Cells \union {Nil}]
    /\ \A k \in 1 .. m : y[cs[k]] = IF k = m THEN t ELSE cs[k + 1]
    /\ \A e \in Cells : (\A k \in 1 .. m : cs[k] # e) => y[e] = nx[e]

LEMMA LinkedCells ==
    ASSUME next \in [Cells -> Cells \union {Nil}],
           NEW m \in Nat \ {0}, NEW cs \in [1 .. m -> Cells], Distinct(cs, m),
           NEW t \in Cells \union {Nil}
    PROVE  LinkedAs(Linked(cs, t), next, cs, m, t)
<1>1. DOMAIN cs = 1 .. m
  OBVIOUS
<1>2. \A k \in 1 .. m : (CHOOSE j \in DOMAIN cs : cs[j] = cs[k]) = k
  BY <1>1 DEF Distinct
<1>3. \A k \in 1 .. m : Linked(cs, t)[cs[k]] = IF k = m THEN t ELSE cs[k + 1]
  <2>1. \A k \in 1 .. m : Linked(cs, t)[cs[k]] = Append(Tail(cs), t)[k]
    BY <1>1, <1>2 DEF Linked
  <2>2. QED
    BY <2>1, TailThen
<1>4. \A e \in Cells : (\A k \in 1 .. m : cs[k] # e) => Linked(cs, t)[e] = next[e]
  BY <1>1 DEF Linked
<1>5. \A e \in Cells : Linked(cs, t)[e] \in Cells \union {Nil}
  BY <1>3, <1>4
<1>6. QED
  BY <1>3, <1>4, <1>5 DEF Linked, LinkedAs

\* The list is the chain c of cells, and each has a value.
Holds(c) ==
    /\ Linking(c, size, first, last, next)
    /\ val \in [Cells -> Vals \union {Zero}]
    /\ \A k \in 0 .. size - 1 : val[c[k]] \in Vals

Read(v, c, n) == [k \in 1 .. n |-> v[c[k - 1]]]

LEMMA ContentsAre ==
    \A c : Holds(c) => /\ Contents = Read(val, c, size) /\ Walk = Steps(c, size)
                       /\ Contents \in [1 .. size -> Vals] 
<1> SUFFICES ASSUME NEW c, Holds(c)
             PROVE  /\ Contents = Read(val, c, size) /\ Walk = Steps(c, size)
                    /\ Contents \in [1 .. size -> Vals] 
  OBVIOUS
<1>1. Walk = Steps(c, size)
  BY WalkIs DEF Holds
<1>2. size \in 0 .. MaxSize /\ c \in [0 .. size - 1 -> Cells]
  BY DEF Holds, Linking
<1>3. \A k \in 1 .. size : Walk[k - 1] = c[k - 1] /\ c[k - 1] \in Cells /\ c[k - 1] # Nil
  BY <1>1, <1>2, SizeAssumption DEF Steps, Cells, Nil
<1>4. Contents = Read(val, c, size)
  BY <1>3 DEF Contents, Read
<1>5. \A k \in 1 .. size : val[c[k - 1]] \in Vals
  BY <1>2, SizeAssumption DEF Holds
<1>6. QED
  BY <1>1, <1>4, <1>5 DEF Read

LEMMA ContentsAreNext ==
    ASSUME NEW d, Holds(d)'
    PROVE  /\ Contents' = Read(val', d, size') /\ Contents' \in [1 .. size' -> Vals]
<1>1. (\A c : Holds(c) => /\ Contents = Read(val, c, size) /\ Walk = Steps(c, size)
                          /\ Contents \in [1 .. size -> Vals])'
  BY ContentsAre, PTL
<1>2. QED
  BY <1>1

\* New cells put into the chain put their values into the list of values.
NewValues(c, n, v, cs, m, vs, w) ==
    /\ \A k \in 1 .. m : w[cs[k]] = vs[k]
    /\ \A k \in 0 .. n - 1 : w[c[k]] = v[c[k]] /\ v[c[k]] \in Vals

LEMMA SplicedRead ==
    ASSUME NEW n \in Nat, NEW c \in [0 .. n - 1 -> Cells], NEW v,
           NEW m \in Nat, NEW cs \in [1 .. m -> Cells], NEW i \in 0 .. n,
           NEW vs \in [1 .. m -> Vals], NEW w, NEW d, NEW N, N = n + m,
           SplicedAs(d, N, c, cs, m, i), NewValues(c, n, v, cs, m, vs, w)
    PROVE  /\ \A k \in 0 .. N - 1 : w[d[k]] \in Vals
           /\ Joined(Read(v, c, n), vs, i, i, Read(w, d, N))
<1>0. /\ \A k \in 1 .. m : w[cs[k]] = vs[k]
      /\ \A k \in 0 .. n - 1 : w[c[k]] = v[c[k]] /\ v[c[k]] \in Vals
  BY DEF NewValues
<1>1. /\ d \in [0 .. N - 1 -> Cells]
      /\ \A k \in 0 .. i - 1 : d[k] = c[k]
      /\ \A k \in i .. i + m - 1 : d[k] = cs[k - i + 1]
      /\ \A k \in i + m .. N - 1 : d[k] = c[k - m]
  BY DEF SplicedAs
<1>2. /\ \A k \in 0 .. i - 1 : w[d[k]] = v[c[k]] /\ v[c[k]] \in Vals
      /\ \A k \in 0 .. m - 1 : w[d[i + k]] = vs[k + 1]
      /\ \A k \in 0 .. n - i - 1 : w[d[i + m + k]] = v[c[i + k]] /\ v[c[i + k]] \in Vals
  <2>1. \A k \in 0 .. i - 1 : w[d[k]] = v[c[k]] /\ v[c[k]] \in Vals
    BY <1>0, <1>1
  <2>2. ASSUME NEW k \in 0 .. m - 1 PROVE w[d[i + k]] = vs[k + 1]
    <3>1. i + k \in i .. i + m - 1 /\ i + k - i + 1 = k + 1 /\ k + 1 \in 1 .. m
      OBVIOUS
    <3>2. d[i + k] = cs[k + 1]
      BY <1>1, <3>1
    <3>3. QED
      BY <1>0, <3>1, <3>2
  <2>3. ASSUME NEW k \in 0 .. n - i - 1
        PROVE  w[d[i + m + k]] = v[c[i + k]] /\ v[c[i + k]] \in Vals
    <3>1. i + m + k \in i + m .. N - 1 /\ i + m + k - m = i + k /\ i + k \in 0 .. n - 1
      OBVIOUS
    <3>2. d[i + m + k] = c[i + k]
      BY <1>1, <3>1
    <3>3. QED
      BY <1>0, <3>1, <3>2
  <2>4. QED
    BY <2>1, <2>2, <2>3
<1>3. \A k \in 0 .. N - 1 : w[d[k]] \in Vals
  <2> SUFFICES ASSUME NEW k \in 0 .. N - 1 PROVE w[d[k]] \in Vals
    OBVIOUS
  <2>1. CASE k < i
    BY <1>2, <2>1
  <2>2. CASE k \in i .. i + m - 1
    <3>1. k - i \in 0 .. m - 1 /\ i + (k - i) = k /\ k - i + 1 \in 1 .. m
      BY <2>2
    <3>2. w[d[k]] = vs[k - i + 1]
      BY <1>2, <3>1
    <3>3. QED
      BY <3>1, <3>2
  <2>3. CASE k >= i + m
    <3>1. k - i - m \in 0 .. n - i - 1 /\ i + m + (k - i - m) = k
      BY <2>3
    <3>2. QED
      BY <1>2, <3>1
  <2>4. QED
    BY <2>1, <2>2, <2>3
<1>4. /\ Read(v, c, n) \in [1 .. n -> Vals] /\ Read(w, d, N) \in [1 .. N -> Vals]
      /\ \A k \in 1 .. n : Read(v, c, n)[k] = v[c[k - 1]]
      /\ \A k \in 1 .. N : Read(w, d, N)[k] = w[d[k - 1]]
  BY <1>0, <1>3 DEF Read
<1> DEFINE s == Read(v, c, n)
           t == Read(w, d, N)
<1> HIDE DEF s, t
<1>5. Len(s) = n /\ Len(t) = N /\ Len(vs) = m
  BY <1>4, ArrayIsSeq DEF s, t
<1>6. /\ \A k \in 1 .. i : t[k] = s[k]
      /\ \A k \in 1 .. m : t[i + k] = vs[k]
      /\ \A k \in 1 .. n - i : t[i + m + k] = s[i + k]
  <2>1. ASSUME NEW k \in 1 .. i PROVE t[k] = s[k]
    <3>1. k \in 1 .. n /\ k \in 1 .. N /\ k - 1 \in 0 .. i - 1
      OBVIOUS
    <3>2. QED
      BY <1>2, <1>4, <3>1 DEF s, t
  <2>2. ASSUME NEW k \in 1 .. m PROVE t[i + k] = vs[k]
    <3>1. i + k \in 1 .. N /\ k - 1 \in 0 .. m - 1 /\ i + k - 1 = i + (k - 1) /\ k - 1 + 1 = k
      OBVIOUS
    <3>2. t[i + k] = w[d[i + (k - 1)]]
      BY <1>4, <3>1 DEF t
    <3>3. QED
      BY <1>2, <3>1, <3>2
  <2>3. ASSUME NEW k \in 1 .. n - i PROVE t[i + m + k] = s[i + k]
    <3>1. /\ i + m + k \in 1 .. N /\ k - 1 \in 0 .. n - i - 1 /\ i + k \in 1 .. n
          /\ i + m + k - 1 = i + m + (k - 1) /\ i + k - 1 = i + (k - 1)
      OBVIOUS
    <3>2. t[i + m + k] = w[d[i + m + (k - 1)]]
      BY <1>4, <3>1 DEF t
    <3>3. s[i + k] = v[c[i + (k - 1)]]
      BY <1>4, <3>1 DEF s
    <3>4. QED
      BY <1>2, <3>1, <3>2, <3>3
  <2>4. QED
    BY <2>1, <2>2, <2>3
<1>7. Joined(s, vs, i, i, t)
  <2>1. N = i + m + (n - i)
    OBVIOUS
  <2>2. QED
    BY <1>5, <1>6, <2>1, Zenon DEF Joined
<1>8. QED
  BY <1>3, <1>7 DEF s, t

LEMMA WithoutRead ==
    ASSUME NEW n \in Nat \ {0}, NEW c \in [0 .. n - 1 -> Cells], NEW v,
           NEW i \in 0 .. n - 1,
           \A k \in 0 .. n - 1 : v[c[k]] \in Vals
    PROVE  /\ \A k \in 0 .. n - 2 : v[Without(c, n, i)[k]] \in Vals
           /\ Joined(Read(v, c, n), <<>>, i, i + 1, Read(v, Without(c, n, i), n - 1))
<1> DEFINE d == Without(c, n, i)
           s == Read(v, c, n)
           t == Read(v, d, n - 1)
<1>1. /\ \A k \in 0 .. i - 1 : d[k] = c[k]
      /\ \A k \in i .. n - 2 : d[k] = c[k + 1]
  BY DEF Without
<1>2. \A k \in 0 .. n - 2 : v[d[k]] \in Vals
  <2> SUFFICES ASSUME NEW k \in 0 .. n - 2 PROVE v[d[k]] \in Vals
    OBVIOUS
  <2> HIDE DEF d
  <2>1. CASE k < i
    BY <1>1, <2>1
  <2>2. CASE k >= i
    BY <1>1, <2>2
  <2>3. QED
    BY <2>1, <2>2
<1> HIDE DEF d
<1>3. /\ s \in [1 .. n -> Vals] /\ t \in [1 .. n - 1 -> Vals]
      /\ \A k \in 1 .. n : s[k] = v[c[k - 1]]
      /\ \A k \in 1 .. n - 1 : t[k] = v[d[k - 1]]
  BY <1>2 DEF Read
<1>4. Len(s) = n /\ Len(t) = n - 1 /\ Len(<<>>) = 0
  BY <1>3, ArrayIsSeq
<1> HIDE DEF s, t
<1>5. /\ \A k \in 1 .. i : t[k] = s[k]
      /\ \A k \in 1 .. n - (i + 1) : t[i + 0 + k] = s[i + 1 + k]
  <2>1. ASSUME NEW k \in 1 .. i PROVE t[k] = s[k]
    <3>1. k \in 1 .. n /\ k \in 1 .. n - 1 /\ k - 1 \in 0 .. i - 1
      OBVIOUS
    <3>2. QED
      BY <1>1, <1>3, <3>1
  <2>2. ASSUME NEW k \in 1 .. n - (i + 1) PROVE t[i + 0 + k] = s[i + 1 + k]
    <3>1. /\ i + 0 + k = i + k /\ i + k \in 1 .. n - 1 /\ i + k - 1 \in i .. n - 2
          /\ i + 1 + k \in 1 .. n /\ i + k - 1 + 1 = i + k /\ i + 1 + k - 1 = i + k
      OBVIOUS
    <3>2. t[i + k] = v[d[i + k - 1]]
      BY <1>3, <3>1
    <3>3. d[i + k - 1] = c[i + k]
      BY <1>1, <3>1
    <3>4. s[i + 1 + k] = v[c[i + k]]
      BY <1>3, <3>1
    <3>5. QED
      BY <3>1, <3>2, <3>3, <3>4
  <2>3. QED
    BY <2>1, <2>2
<1>6. Joined(s, <<>>, i, i + 1, t)
  <2>1. n - 1 = i + 0 + (n - (i + 1)) /\ 1 .. 0 = {}
    OBVIOUS
  <2>2. QED
    BY <1>4, <1>5, <2>1, Zenon DEF Joined
<1>7. QED
  BY <1>2, <1>6 DEF d, s, t

\* A step that puts new cells with the values vs before the cell i.
LEMMA SpliceStep ==
    ASSUME NEW c, Holds(c), NEW m \in Nat \ {0}, NEW vs \in [1 .. m -> Vals],
           NEW i \in 0 .. size, NEW cs, NewCells(c, size, cs, m),
           val' = Filled(cs, vs), size' = size + m,
           LinksIn(c, size, next, cs, m, i, next'),
           first' = IF i = 0 THEN cs[1] ELSE first,
           last' = IF i = size THEN cs[m] ELSE last
    PROVE  /\ (\E d : Holds(d))'
           /\ Contents' = Join(Contents, vs, i, i)
<1> PICK d : d = Spliced(c, size, cs, m, i)
  OBVIOUS
<1>1. Linking(c, size, first, last, next)
  BY DEF Holds
<1>2. Linking(d, size', first', last', next')
  <2>1. Linking(d, size + m, first', last', next')
    BY <1>1, SpliceLinks
  <2>2. QED
    BY <2>1, Zenon
<1>3. /\ size \in Nat /\ m \in Nat /\ c \in [0 .. size - 1 -> Cells]
      /\ cs \in [1 .. m -> Cells] /\ Distinct(cs, m)
      /\ \A k \in 1 .. m, j \in 0 .. size - 1 : cs[k] # c[j]
  BY <1>1, SizeAssumption DEF Linking, NewCells
<1>4. SplicedAs(d, size', c, cs, m, i)
  <2>1. SplicedAs(d, size + m, c, cs, m, i)
    BY <1>3, SplicedCells, Zenon
  <2>2. QED
    BY <2>1, Zenon
<1>5. /\ val' \in [Cells -> Vals \union {Zero}]
      /\ \A k \in 1 .. m : val'[cs[k]] = vs[k]
      /\ \A e \in Cells : (\A k \in 1 .. m : cs[k] # e) => val'[e] = val[e]
  <2>1. val \in [Cells -> Vals \union {Zero}]
    BY DEF Holds
  <2>2. FilledAs(Filled(cs, vs), val, cs, m, vs)
    BY <1>3, <2>1, FilledCells, Zenon
  <2>3. FilledAs(val', val, cs, m, vs)
    BY <2>2, Zenon
  <2>4. QED
    BY <2>3, Zenon DEF FilledAs
<1>6. \A k \in 0 .. size - 1 : val'[c[k]] = val[c[k]] /\ val[c[k]] \in Vals
  <2>1. \A k \in 0 .. size - 1 : val[c[k]] \in Vals /\ c[k] \in Cells
    BY <1>3 DEF Holds
  <2>2. QED
    BY <1>3, <1>5, <2>1
<1>7. /\ \A k \in 0 .. size' - 1 : val'[d[k]] \in Vals
      /\ Joined(Read(val, c, size), vs, i, i, Read(val', d, size'))
  <2>1. NewValues(c, size, val, cs, m, vs, val')
    BY <1>5, <1>6 DEF NewValues
  <2>2. QED
    BY <1>3, <1>4, <2>1, SplicedRead, Zenon
<1>8. Holds(d)'
  BY <1>2, <1>5, <1>7 DEF Holds
<1>9. Contents' = Read(val', d, size') /\ Contents' \in [1 .. size' -> Vals]
  BY <1>8, ContentsAreNext, Zenon
<1>10. Contents = Read(val, c, size) /\ Contents \in [1 .. size -> Vals]
  BY ContentsAre
<1>11. /\ Contents \in Seq(Vals) /\ Len(Contents) = size
       /\ Contents' \in Seq(Vals) /\ vs \in Seq(Vals)
  <2>1. size' \in Nat
    BY <1>3
  <2>2. QED
    BY <1>3, <1>9, <1>10, <2>1, ArrayIsSeq, Zenon
<1>12. Contents' = Join(Contents, vs, i, i)
  <2>1. Joined(Contents, vs, i, i, Contents')
    BY <1>7, <1>9, <1>10
  <2>2. i \in 0 .. Len(Contents) /\ i \in i .. Len(Contents)
    BY <1>3, <1>11
  <2>3. QED
    BY <1>11, <2>1, <2>2, JoinedIs, Zenon
<1>13. QED
  BY <1>8, <1>12

\* A step that takes the cell i out, or the only one.
LEMMA RemoveStep ==
    ASSUME NEW c, Holds(c), size > 1, NEW i \in 0 .. size - 1,
           val' = val, size' = size - 1, next' \in [Cells -> Cells \union {Nil}],
           i > 0 => next'[c[i - 1]] = next[c[i]],
           \A k \in 0 .. size - 1 : k # i - 1 => next'[c[k]] = next[c[k]],
           first' = IF i = 0 THEN c[1] ELSE first,
           last' = IF i = size - 1 THEN c[size - 2] ELSE last
    PROVE  /\ (\E d : Holds(d))'
           /\ Contents' = Join(Contents, <<>>, i, i + 1)
<1> PICK d : d = Without(c, size, i)
  OBVIOUS
<1>1. Linking(c, size, first, last, next)
  BY DEF Holds
<1>2. Linking(d, size', first', last', next')
  <2>1. Linking(d, size - 1, first', last', next')
    BY <1>1, RemoveLinks
  <2>2. QED
    BY <2>1, Zenon
<1>3. /\ size \in Nat \ {0} /\ c \in [0 .. size - 1 -> Cells]
      /\ val \in [Cells -> Vals \union {Zero}]
      /\ \A k \in 0 .. size - 1 : val[c[k]] \in Vals
  BY <1>1, SizeAssumption DEF Linking, Holds
<1>4. /\ \A k \in 0 .. size' - 1 : val'[d[k]] \in Vals
      /\ Joined(Read(val, c, size), <<>>, i, i + 1, Read(val', d, size'))
  <2>1. /\ \A k \in 0 .. size - 2 : val[d[k]] \in Vals
        /\ Joined(Read(val, c, size), <<>>, i, i + 1, Read(val, d, size - 1))
    BY <1>3, WithoutRead
  <2>2. size' - 1 = size - 2
    BY <1>3
  <2>3. QED
    BY <2>1, <2>2
<1>5. Holds(d)'
  BY <1>2, <1>3, <1>4 DEF Holds
<1>6. Contents' = Read(val', d, size') /\ Contents' \in [1 .. size' -> Vals]
  BY <1>5, ContentsAreNext, Zenon
<1>7. Contents = Read(val, c, size) /\ Contents \in [1 .. size -> Vals]
  BY ContentsAre
<1>8. /\ Contents \in Seq(Vals) /\ Len(Contents) = size
      /\ Contents' \in Seq(Vals) /\ <<>> \in Seq(Vals)
  <2>1. size' \in Nat /\ size \in Nat
    BY <1>3
  <2>2. <<>> \in Seq(Vals)
    OBVIOUS
  <2>3. QED
    BY <1>6, <1>7, <2>1, <2>2, ArrayIsSeq, Zenon
<1>9. Contents' = Join(Contents, <<>>, i, i + 1)
  <2>1. Joined(Contents, <<>>, i, i + 1, Contents')
    BY <1>4, <1>6, <1>7
  <2>2. i \in 0 .. Len(Contents) /\ i + 1 \in i .. Len(Contents)
    BY <1>3, <1>8
  <2>3. QED
    BY <1>8, <2>1, <2>2, JoinedIs, Zenon
<1>10. QED
  BY <1>5, <1>9

-----------------------------------------------------------------------------
(* The calls that change the list.                                         *)

LEMMA LinkBehind ==
    ASSUME NEW c, NEW n, NEW f, NEW l, NEW nx, Linking(c, n, f, l, nx),
           NEW m, NEW cs, NewCells(c, n, cs, m), NEW i \in 0 .. n,
           NEW z, NEW t, LinkedAs(z, nx, cs, m, t), t = IF i = n THEN Nil ELSE c[i],
           NEW y, y = IF i = 0 THEN z ELSE [z EXCEPT ![c[i - 1]] = cs[1]]
    PROVE  LinksIn(c, n, nx, cs, m, i, y)
<1>1. /\ n \in Nat /\ c \in [0 .. n - 1 -> Cells]
      /\ \A j, k \in 0 .. n - 1 : c[j] = c[k] => j = k
  BY SizeAssumption DEF Linking
<1>2. /\ m \in Nat \ {0} /\ cs \in [1 .. m -> Cells]
      /\ \A k \in 1 .. m, j \in 0 .. n - 1 : cs[k] # c[j]
  BY DEF NewCells
<1>3. /\ z \in [Cells -> Cells \union {Nil}]
      /\ \A k \in 1 .. m : z[cs[k]] = IF k = m THEN t ELSE cs[k + 1]
      /\ \A k \in 0 .. n - 1 : z[c[k]] = nx[c[k]]
  <2>1. \A e \in Cells : (\A k \in 1 .. m : cs[k] # e) => z[e] = nx[e]
    BY DEF LinkedAs
  <2>2. \A k \in 0 .. n - 1 : c[k] \in Cells /\ \A j \in 1 .. m : cs[j] # c[k]
    BY <1>1, <1>2
  <2>3. \A k \in 0 .. n - 1 : z[c[k]] = nx[c[k]]
    BY <2>1, <2>2, Zenon
  <2>4. QED
    BY <2>3 DEF LinkedAs
<1>4. /\ y \in [Cells -> Cells \union {Nil}]
      /\ i > 0 => y[c[i - 1]] = cs[1]
      /\ \A e \in Cells : (i > 0 => e # c[i - 1]) => y[e] = z[e]
  <2>1. CASE i = 0
    BY <1>3, <2>1
  <2>2. CASE i # 0
    <3>1. c[i - 1] \in Cells /\ cs[1] \in Cells /\ i > 0
      BY <1>1, <1>2, <2>2
    <3>2. QED
      BY <1>3, <2>2, <3>1
  <2>3. QED
    BY <2>1, <2>2
<1>5. \A k \in 1 .. m : y[cs[k]] = z[cs[k]]
  <2>1. \A k \in 1 .. m : cs[k] \in Cells /\ (i > 0 => cs[k] # c[i - 1])
    BY <1>1, <1>2
  <2>2. QED
    BY <1>4, <2>1, Zenon
<1>6. \A k \in 0 .. n - 1 : k # i - 1 => y[c[k]] = nx[c[k]]
  <2>1. \A k \in 0 .. n - 1 : k # i - 1 => c[k] \in Cells /\ (i > 0 => c[k] # c[i - 1])
    BY <1>1
  <2>2. \A k \in 0 .. n - 1 : k # i - 1 => y[c[k]] = z[c[k]]
    BY <1>4, <2>1, Zenon
  <2>3. QED
    BY <1>3, <2>2, Zenon
<1>7. \A k \in 1 .. m - 1 : y[cs[k]] = cs[k + 1]
  BY <1>2, <1>3, <1>5
<1>8. y[cs[m]] = IF i = n THEN Nil ELSE c[i]
  BY <1>2, <1>3, <1>5
<1>9. QED
  BY <1>4, <1>6, <1>7, <1>8, Zenon DEF LinksIn

LEMMA Joins ==
    ASSUME NEW s \in Seq(Vals), NEW vs \in Seq(Vals), NEW n, n = Len(s)
    PROVE  /\ Join(s, vs, n, n) = s \o vs
           /\ Join(s, vs, 0, 0) = vs \o s
<1>1. SubSeq(s, 1, n) = s /\ SubSeq(s, n + 1, n) = <<>>
  OBVIOUS
<1>2. SubSeq(s, 1, 0) = <<>>
  OBVIOUS
<1>3. s \o vs \in Seq(Vals)
  OBVIOUS
<1>4. (s \o vs) \o <<>> = s \o vs
  BY <1>3, ConcatEmptySeq
<1>5. <<>> \o vs = vs
  BY ConcatEmptySeq
<1>6. SubSeq(s, 0 + 1, n) = s
  BY <1>1
<1>7. QED
  BY <1>1, <1>2, <1>4, <1>5, <1>6 DEF Join

LEMMA KeepStep ==
    ASSUME NEW c, Holds(c), UNCHANGED list
    PROVE  (\E d : Holds(d))' /\ Contents' = Contents
<1>1. Holds(c)'
  BY DEF list, Holds
<1>2. Contents' = Read(val', c, size')
  BY <1>1, ContentsAreNext, Zenon
<1>3. Contents = Read(val, c, size)
  BY ContentsAre
<1>4. QED
  BY <1>1, <1>2, <1>3 DEF list

\* The facts about a list that its calls start from.
LEMMA HoldsFacts ==
    ASSUME NEW c, Holds(c)
    PROVE  /\ size \in 0 .. MaxSize /\ size \in Nat /\ c \in [0 .. size - 1 -> Cells]
           /\ next \in [Cells -> Cells \union {Nil}]
           /\ val \in [Cells -> Vals \union {Zero}]
           /\ \A j, k \in 0 .. size - 1 : c[j] = c[k] => j = k
           /\ \A k \in 0 .. size - 1 : next[c[k]] = IF k = size - 1 THEN Nil ELSE c[k + 1]
           /\ size = 0 => first = Nil /\ last = Nil
           /\ size > 0 => first = c[0] /\ last = c[size - 1]
           /\ \A k \in 0 .. MaxSize : Walk[k] = IF k < size THEN c[k] ELSE Nil
           /\ Contents \in Seq(Vals) /\ Len(Contents) = size
           /\ \A k \in 0 .. size - 1 : Contents[k + 1] = val[c[k]]
           /\ \A k \in 0 .. size - 1 : val[c[k]] \in Vals
<1>1. /\ size \in 0 .. MaxSize /\ size \in Nat /\ c \in [0 .. size - 1 -> Cells]
      /\ next \in [Cells -> Cells \union {Nil}]
      /\ \A j, k \in 0 .. size - 1 : c[j] = c[k] => j = k
      /\ \A k \in 0 .. size - 1 : next[c[k]] = IF k = size - 1 THEN Nil ELSE c[k + 1]
      /\ size = 0 => first = Nil /\ last = Nil
      /\ size > 0 => first = c[0] /\ last = c[size - 1]
  BY SizeAssumption DEF Holds, Linking
<1>2. Walk = Steps(c, size) /\ Contents = Read(val, c, size) /\ Contents \in [1 .. size -> Vals]
  BY ContentsAre
<1>3. \A k \in 0 .. MaxSize : Walk[k] = IF k < size THEN c[k] ELSE Nil
  BY <1>2 DEF Steps
<1>4. Contents \in Seq(Vals) /\ Len(Contents) = size
  BY <1>1, <1>2, ArrayIsSeq, Zenon
<1>5. \A k \in 0 .. size - 1 : Contents[k + 1] = val[c[k]]
  <2>1. \A k \in 0 .. size - 1 : k + 1 \in 1 .. size /\ k + 1 - 1 = k
    BY <1>1
  <2>2. QED
    BY <1>2, <2>1 DEF Read
<1>6. QED
  BY <1>1, <1>3, <1>4, <1>5 DEF Holds

LEMMA FreshNew ==
    ASSUME NEW c, Holds(c), NEW m \in Nat \ {0}, size + m <= MaxSize
    PROVE  NewCells(c, size, Fresh(m), m)
<1>1. m \in 0 .. MaxSize /\ Linking(c, size, first, last, next)
  BY HoldsFacts, SizeAssumption DEF Holds
<1>2. QED
  BY <1>1, FreshCells DEF NewCells

LEMMA AddStep ==
    ASSUME NEW c, Holds(c), NEW m \in Nat, NEW vs \in [1 .. m -> Vals],
           size + m <= MaxSize, AddValues(vs)
    PROVE  (\E d : Holds(d))' /\ Contents' = Contents \o vs
<1>1. vs \in Seq(Vals) /\ Len(vs) = m
  BY ArrayIsSeq
<1>2. Contents \in Seq(Vals) /\ size = Len(Contents)
  BY HoldsFacts
<1>3. CASE m = 0
  <2>1. vs = <<>>
    BY <1>1, <1>3
  <2>2. UNCHANGED list
    BY <2>1 DEF AddValues
  <2>3. Contents \o vs = Contents
    BY <1>2, <2>1, ConcatEmptySeq
  <2>4. QED
    BY <2>2, <2>3, KeepStep
<1>4. CASE m # 0
  <2>1. vs # <<>>
    BY <1>1, <1>4
  <2> PICK cs : cs = Fresh(m)
    OBVIOUS
  <2>2. /\ val' = Filled(cs, vs)
        /\ next' = IF size = 0 THEN Linked(cs, Nil) ELSE [Linked(cs, Nil) EXCEPT ![last] = cs[1]]
        /\ first' = IF size = 0 THEN cs[1] ELSE first
        /\ last' = cs[Len(cs)]
        /\ size' = size + m
    BY <1>1, <2>1 DEF AddValues
  <2>3. NewCells(c, size, cs, m)
    BY <1>4, FreshNew
  <2>4. m \in Nat \ {0} /\ cs \in [1 .. m -> Cells] /\ Distinct(cs, m) /\ Len(cs) = m
    BY <2>3, ArrayIsSeq DEF NewCells
  <2>5. LinkedAs(Linked(cs, Nil), next, cs, m, Nil)
    <3>1. next \in [Cells -> Cells \union {Nil}] /\ Nil \in Cells \union {Nil}
      BY HoldsFacts
    <3>2. QED
      BY <2>4, <3>1, LinkedCells, Zenon
  <2>6. LinksIn(c, size, next, cs, m, size, next')
    <3>1. Linking(c, size, first, last, next) /\ size \in 0 .. size
      BY HoldsFacts DEF Holds
    <3>2. next' = IF size = 0 THEN Linked(cs, Nil)
                  ELSE [Linked(cs, Nil) EXCEPT ![c[size - 1]] = cs[1]]
      <4>1. size # 0 => last = c[size - 1]
        BY HoldsFacts
      <4>2. QED
        BY <2>2, <4>1
    <3>3. QED
      BY <2>3, <2>5, <3>1, <3>2, LinkBehind
  <2>7. last' = cs[m]
    BY <2>2, <2>4
  <2>8. (\E d : Holds(d))' /\ Contents' = Join(Contents, vs, size, size)
    <3>1. size \in 0 .. size
      BY HoldsFacts
    <3>2. QED
      BY <2>2, <2>3, <2>4, <2>6, <2>7, <3>1, SpliceStep
  <2>9. QED
    BY <1>1, <1>2, <2>8, Joins
<1>5. QED
  BY <1>3, <1>4

LEMMA PrependStep ==
    ASSUME NEW c, Holds(c), NEW m \in Nat \ {0}, NEW vs \in [1 .. m -> Vals],
           size + m <= MaxSize, PrependValues(vs)
    PROVE  (\E d : Holds(d))' /\ Contents' = vs \o Contents
<1>1. vs \in Seq(Vals) /\ Len(vs) = m
  BY ArrayIsSeq
<1>2. Contents \in Seq(Vals) /\ size = Len(Contents)
  BY HoldsFacts
<1> PICK cs : cs = Fresh(m)
  OBVIOUS
<1>3. /\ val' = Filled(cs, vs)
      /\ next' = Linked(cs, first)
      /\ first' = cs[1]
      /\ last' = IF size = 0 THEN cs[Len(cs)] ELSE last
      /\ size' = size + m
  BY <1>1 DEF PrependValues
<1>4. NewCells(c, size, cs, m)
  BY FreshNew
<1>5. cs \in [1 .. m -> Cells] /\ Distinct(cs, m) /\ Len(cs) = m
  BY <1>4, ArrayIsSeq DEF NewCells
<1>6. /\ Linking(c, size, first, last, next) /\ 0 \in 0 .. size
      /\ first = IF 0 = size THEN Nil ELSE c[0]
      /\ first \in Cells \union {Nil}
  BY HoldsFacts DEF Holds
<1>7. LinkedAs(Linked(cs, first), next, cs, m, first)
  <2>1. next \in [Cells -> Cells \union {Nil}]
    BY HoldsFacts
  <2>2. QED
    BY <1>5, <1>6, <2>1, LinkedCells, Zenon
<1>8. LinksIn(c, size, next, cs, m, 0, next')
  <2>1. next' = IF 0 = 0 THEN Linked(cs, first) ELSE [Linked(cs, first) EXCEPT ![c[0 - 1]] = cs[1]]
    BY <1>3
  <2>2. QED
    BY <1>4, <1>6, <1>7, <2>1, LinkBehind
<1>9. last' = IF 0 = size THEN cs[m] ELSE last
  BY <1>3, <1>5
<1>10. (\E d : Holds(d))' /\ Contents' = Join(Contents, vs, 0, 0)
  <2>1. first' = IF 0 = 0 THEN cs[1] ELSE first
    BY <1>3
  <2>2. QED
    BY <1>3, <1>4, <1>6, <1>8, <1>9, <2>1, SpliceStep
<1>11. QED
  BY <1>1, <1>2, <1>10, Joins

\* Nothing put in, nothing taken out.
LEMMA JoinNothing ==
    ASSUME NEW s \in Seq(Vals), NEW i \in 0 .. Len(s)
    PROVE  Join(s, <<>>, i, i) = s
<1>1. Joined(s, <<>>, i, i, s)
  <2>1. Len(<<>>) = 0 /\ Len(s) \in Nat
    OBVIOUS
  <2> PICK n \in Nat : n = Len(s)
    BY <2>1
  <2>2. n = i + 0 + (n - i) /\ \A k \in 1 .. n - i : i + 0 + k = i + k
    OBVIOUS
  <2>3. \A k \in 1 .. 0 : FALSE
    OBVIOUS
  <2>4. QED
    BY <2>1, <2>2, <2>3 DEF Joined
<1>2. <<>> \in Seq(Vals) /\ i \in i .. Len(s)
  OBVIOUS
<1>3. QED
  BY <1>1, <1>2, JoinedIs, Zenon

LEMMA JoinGap ==
    ASSUME NEW s \in Seq(Vals), NEW i \in 0 .. Len(s)
    PROVE  Join(s, <<>>, i, i + 1) = SubSeq(s, 1, i) \o SubSeq(s, i + 1 + 1, Len(s))
<1>1. SubSeq(s, 1, i) \in Seq(Vals)
  OBVIOUS
<1>2. SubSeq(s, 1, i) \o <<>> = SubSeq(s, 1, i)
  BY <1>1, ConcatEmptySeq
<1>3. QED
  BY <1>2 DEF Join

LEMMA CellFacts ==
    ASSUME NEW c, Holds(c), NEW i \in 0 .. size - 1
    PROVE  /\ Walk[i] = c[i] /\ first = c[0] /\ (Walk[i] = first <=> i = 0)
           /\ i > 0 => Walk[i - 1] = c[i - 1] /\ c[i - 1] \in Cells /\ next[c[i - 1]] = c[i]
           /\ c[i] \in Cells
<1>1. /\ size \in 1 .. MaxSize /\ MaxSize \in Nat /\ c \in [0 .. size - 1 -> Cells]
      /\ \A j, k \in 0 .. size - 1 : c[j] = c[k] => j = k
      /\ first = c[0]
  BY HoldsFacts, SizeAssumption
<1>2. \A k \in 0 .. MaxSize : Walk[k] = IF k < size THEN c[k] ELSE Nil
  BY HoldsFacts
<1>3. \A k \in 0 .. size - 1 : next[c[k]] = IF k = size - 1 THEN Nil ELSE c[k + 1]
  BY HoldsFacts
<1>4. Walk[i] = c[i] /\ c[i] \in Cells /\ 0 \in 0 .. size - 1
  BY <1>1, <1>2
<1>5. i > 0 => Walk[i - 1] = c[i - 1] /\ c[i - 1] \in Cells
  BY <1>1, <1>2
<1>6. ASSUME i > 0 PROVE next[c[i - 1]] = c[i]
  <2>1. i - 1 \in 0 .. size - 1 /\ i - 1 # size - 1 /\ i - 1 + 1 = i
    BY <1>1, <1>6
  <2>2. QED
    BY <1>3, <2>1
<1>7. Walk[i] = first <=> i = 0
  BY <1>1, <1>4
<1>8. QED
  BY <1>1, <1>4, <1>5, <1>6, <1>7

LEMMA InsertStep ==
    ASSUME NEW c, Holds(c), NEW m \in Nat, NEW vs \in [1 .. m -> Vals],
           size + m <= MaxSize, NEW i \in 0 .. size - 1, InsertWithin(i, vs)
    PROVE  (\E d : Holds(d))' /\ Contents' = Join(Contents, vs, i, i)
<1>1. vs \in Seq(Vals) /\ Len(vs) = m
  BY ArrayIsSeq
<1>2. Contents \in Seq(Vals) /\ size = Len(Contents) /\ size \in 1 .. MaxSize /\ i \in 0 .. size
  BY HoldsFacts
<1> PICK cs : cs = Fresh(m)
  OBVIOUS
<1>3. val' = Filled(cs, vs) /\ size' = size + m /\ last' = last
  BY <1>1 DEF InsertWithin
<1>4. /\ Walk[i] = c[i] /\ first = c[0] /\ (Walk[i] = first <=> i = 0)
      /\ i > 0 => Walk[i - 1] = c[i - 1] /\ c[i - 1] \in Cells /\ next[c[i - 1]] = c[i]
      /\ c[i] \in Cells
  BY CellFacts
<1>5. CASE m = 0
  <2>1. vs = <<>>
    BY <1>1, <1>5
  <2>2. UNCHANGED <<first, next, last>> /\ size' = size
    BY <1>2, <1>3, <1>5, <2>1 DEF InsertWithin
  <2>3. cs \in [1 .. m -> Cells] /\ Distinct(cs, m)
    <3>1. m \in 0 .. MaxSize /\ Linking(c, size, first, last, next)
      BY <1>5, SizeAssumption DEF Holds
    <3>2. QED
      BY <3>1, FreshCells
  <2>4. FilledAs(val', val, cs, m, vs)
    <3>1. val \in [Cells -> Vals \union {Zero}]
      BY HoldsFacts
    <3>2. FilledAs(Filled(cs, vs), val, cs, m, vs)
      BY <2>3, <3>1, FilledCells, Zenon
    <3>3. QED
      BY <1>3, <3>2, Zenon
  <2>5. val' = val
    <3>1. \A e \in Cells : val'[e] = val[e]
      BY <1>5, <2>4 DEF FilledAs
    <3>2. val \in [Cells -> Vals \union {Zero}] /\ val' \in [Cells -> Vals \union {Zero}]
      BY <2>4, HoldsFacts DEF FilledAs
    <3>3. QED
      BY <3>1, <3>2
  <2>6. UNCHANGED list
    BY <2>2, <2>5 DEF list
  <2>7. Join(Contents, vs, i, i) = Contents
    BY <1>2, <2>1, JoinNothing
  <2>8. QED
    BY <2>6, <2>7, KeepStep
<1>6. CASE m # 0
  <2>1. vs # <<>> /\ m \in Nat \ {0}
    BY <1>1, <1>6
  <2>2. NewCells(c, size, cs, m)
    BY <2>1, FreshNew
  <2>3. cs \in [1 .. m -> Cells] /\ Distinct(cs, m)
    BY <2>2 DEF NewCells
  <2>4. /\ next' = IF i = 0 THEN Linked(cs, c[i]) ELSE [Linked(cs, c[i]) EXCEPT ![c[i - 1]] = cs[1]]
        /\ first' = IF i = 0 THEN cs[1] ELSE first
    <3>1. CASE i = 0
      BY <1>1, <1>4, <2>1, <3>1 DEF InsertWithin
    <3>2. CASE i # 0
      BY <1>1, <1>4, <2>1, <3>2 DEF InsertWithin
    <3>3. QED
      BY <3>1, <3>2
  <2>5. LinkedAs(Linked(cs, c[i]), next, cs, m, c[i])
    <3>1. next \in [Cells -> Cells \union {Nil}] /\ c[i] \in Cells \union {Nil}
      BY <1>4, HoldsFacts
    <3>2. QED
      BY <2>1, <2>3, <3>1, LinkedCells, Zenon
  <2>6. LinksIn(c, size, next, cs, m, i, next')
    <3>1. Linking(c, size, first, last, next) /\ c[i] = IF i = size THEN Nil ELSE c[i]
      BY <1>2 DEF Holds
    <3>2. QED
      BY <1>2, <2>2, <2>4, <2>5, <3>1, LinkBehind
  <2>7. last' = IF i = size THEN cs[m] ELSE last
    BY <1>2, <1>3
  <2>8. QED
    BY <1>2, <1>3, <2>1, <2>2, <2>4, <2>6, <2>7, SpliceStep
<1>7. QED
  BY <1>5, <1>6

LEMMA ClearStep ==
    ASSUME NEW c, Holds(c), ClearList
    PROVE  (\E d : Holds(d))' /\ Contents' = <<>>
<1> PICK d : d = [k \in 0 .. 0 - 1 |-> 1]
  OBVIOUS
<1>1. size' = 0 /\ first' = Nil /\ last' = Nil /\ val' = val /\ next' = next
  BY DEF ClearList
<1>2. Holds(d)'
  <2>1. d \in [0 .. 0 - 1 -> Cells] /\ 0 \in 0 .. MaxSize /\ 0 .. 0 - 1 = {}
    BY SizeAssumption
  <2>2. Linking(d, 0, Nil, Nil, next)
    <3>1. next \in [Cells -> Cells \union {Nil}]
      BY HoldsFacts
    <3>2. QED
      BY <2>1, <3>1 DEF Linking
  <2>3. Linking(d, size', first', last', next')
    BY <1>1, <2>2
  <2>4. val' \in [Cells -> Vals \union {Zero}]
    BY <1>1, HoldsFacts
  <2>5. QED
    BY <1>1, <2>1, <2>3, <2>4 DEF Holds
<1>3. Contents' \in [1 .. 0 -> Vals]
  BY <1>1, <1>2, ContentsAreNext
<1>4. QED
  BY <1>2, <1>3

LEMMA RemoveAtStep ==
    ASSUME NEW c, Holds(c), NEW i \in Int, RemoveAt(i)
    PROVE  /\ (\E d : Holds(d))'
           /\ Contents' = IF i \in 0 .. size - 1 THEN Join(Contents, <<>>, i, i + 1) ELSE Contents
<1>1. /\ size \in Nat /\ c \in [0 .. size - 1 -> Cells]
      /\ Contents \in Seq(Vals) /\ Len(Contents) = size
      /\ WithinRange(i) <=> i \in 0 .. size - 1
  BY HoldsFacts DEF WithinRange
<1>2. CASE i \notin 0 .. size - 1
  BY <1>1, <1>2, KeepStep DEF RemoveAt
<1>3. CASE i \in 0 .. size - 1 /\ size = 1
  <2>1. ClearList
    BY <1>1, <1>3 DEF RemoveAt
  <2>2. (\E d : Holds(d))' /\ Contents' = <<>>
    BY <2>1, ClearStep
  <2>3. i = 0 /\ i \in 0 .. Len(Contents) /\ i + 1 \in i .. Len(Contents) /\ <<>> \in Seq(Vals)
    BY <1>1, <1>3
  <2>4. Joined(Contents, <<>>, i, i + 1, <<>>)
    <3>1. Len(<<>>) = 0 /\ i + 0 + (1 - (i + 1)) = 0 /\ 1 - (i + 1) = 0 /\ Len(Contents) = 1
      BY <1>1, <1>3, <2>3
    <3>2. \A k \in 1 .. 0 : FALSE
      OBVIOUS
    <3>3. QED
      BY <2>3, <3>1, <3>2 DEF Joined
  <2>5. <<>> = Join(Contents, <<>>, i, i + 1)
    BY <1>1, <2>3, <2>4, JoinedIs, Zenon
  <2>6. QED
    BY <1>3, <2>2, <2>5
<1>4. CASE i \in 0 .. size - 1 /\ size # 1
  <2>1. size > 1 /\ c[i] \in Cells /\ Walk[i] = c[i] /\ first = c[0]
    BY <1>1, <1>4, CellFacts
  <2>2. i > 0 => Walk[i - 1] = c[i - 1] /\ c[i - 1] \in Cells /\ c[i - 1] # Nil
    BY <1>4, CellFacts, SizeAssumption DEF Cells, Nil
  <2>3. i = 0 => next[c[i]] = c[1]
    BY <1>1, <2>1, HoldsFacts
  <2>4. (c[i] = first <=> i = 0) /\ (c[i] = last <=> i = size - 1)
    <3>1. last = c[size - 1] /\ size - 1 \in 0 .. size - 1
      BY <1>1, <2>1, HoldsFacts
    <3>2. \A j, k \in 0 .. size - 1 : c[j] = c[k] => j = k
      BY HoldsFacts
    <3>3. QED
      BY <1>1, <1>4, <2>1, <3>1, <3>2
  <2>5. /\ first' = IF i = 0 THEN c[1] ELSE first
        /\ last' = IF i = size - 1 THEN c[size - 2] ELSE last
        /\ next' = IF i = 0 THEN next ELSE [next EXCEPT ![c[i - 1]] = next[c[i]]]
        /\ size' = size - 1 /\ val' = val
    <3>1. CASE i = 0
      <4>1. i # size - 1
        BY <1>1, <2>1, <3>1
      <4>2. QED
        BY <1>1, <1>4, <2>1, <2>3, <2>4, <3>1, <4>1 DEF RemoveAt
    <3>2. CASE i # 0
      <4>1. i > 0 /\ (i = size - 1 => c[i - 1] = c[size - 2])
        BY <1>1, <1>4, <3>2
      <4>2. QED
        BY <1>1, <1>4, <2>1, <2>2, <2>4, <3>2, <4>1 DEF RemoveAt
    <3>3. QED
      BY <3>1, <3>2
  <2>6. /\ next' \in [Cells -> Cells \union {Nil}]
        /\ i > 0 => next'[c[i - 1]] = next[c[i]]
        /\ \A k \in 0 .. size - 1 : k # i - 1 => next'[c[k]] = next[c[k]]
    <3>1. /\ next \in [Cells -> Cells \union {Nil}]
          /\ \A j, k \in 0 .. size - 1 : c[j] = c[k] => j = k
      BY HoldsFacts
    <3>2. \A k \in 0 .. size - 1 : c[k] \in Cells
      BY <1>1
    <3>3. CASE i = 0
      BY <1>1, <2>5, <3>1, <3>3
    <3>4. CASE i # 0
      <4>1. i - 1 \in 0 .. size - 1 /\ i > 0
        BY <1>1, <1>4, <3>4
      <4>2. next' = [next EXCEPT ![c[i - 1]] = next[c[i]]]
        BY <2>5, <3>4
      <4>3. QED
        BY <1>4, <3>1, <3>2, <4>1, <4>2
    <3>5. QED
      BY <3>3, <3>4
  <2>7. (\E d : Holds(d))' /\ Contents' = Join(Contents, <<>>, i, i + 1)
    BY <1>4, <2>1, <2>5, <2>6, RemoveStep
  <2>8. QED
    BY <1>4, <2>7
<1>5. QED
  BY <1>2, <1>3, <1>4

\* A step that changes values only.
LEMMA ValueStep ==
    ASSUME NEW c, Holds(c), UNCHANGED <<first, last, size, next>>,
           val' \in [Cells -> Vals \union {Zero}],
           \A k \in 0 .. size - 1 : val'[c[k]] \in Vals
    PROVE  /\ (\E d : Holds(d))'
           /\ Contents' \in Seq(Vals) /\ Len(Contents') = size
           /\ \A k \in 1 .. size : Contents'[k] = val'[c[k - 1]]
<1>1. Holds(c)'
  BY DEF Holds
<1>2. Contents' = Read(val', c, size') /\ Contents' \in [1 .. size' -> Vals]
  BY <1>1, ContentsAreNext, Zenon
<1>3. size' = size /\ size \in Nat
  BY HoldsFacts
<1>4. Contents' \in [1 .. size -> Vals]
  BY <1>2, <1>3
<1>5. Contents' \in Seq(Vals) /\ Len(Contents') = size
  BY <1>3, <1>4, ArrayIsSeq, Zenon
<1>6. \A k \in 1 .. size : Contents'[k] = val'[c[k - 1]]
  BY <1>2, <1>3 DEF Read
<1>7. QED
  BY <1>1, <1>5, <1>6

LEMMA SetStep ==
    ASSUME NEW c, Holds(c), NEW i \in 0 .. size - 1, NEW v \in Vals,
           val' = [val EXCEPT ![Walk[i]] = v], UNCHANGED <<first, last, size, next>>
    PROVE  (\E d : Holds(d))' /\ Contents' = Join(Contents, <<v>>, i, i + 1)
<1>1. /\ size \in Nat /\ c \in [0 .. size - 1 -> Cells]
      /\ val \in [Cells -> Vals \union {Zero}]
      /\ \A j, k \in 0 .. size - 1 : c[j] = c[k] => j = k
      /\ \A k \in 0 .. size - 1 : val[c[k]] \in Vals
  BY HoldsFacts
<1>2. Contents \in Seq(Vals) /\ Len(Contents) = size
  BY HoldsFacts
<1>3. Walk[i] = c[i] /\ c[i] \in Cells
  BY CellFacts
<1>4. /\ val' \in [Cells -> Vals \union {Zero}]
      /\ \A k \in 0 .. size - 1 : val'[c[k]] = IF k = i THEN v ELSE val[c[k]]
  BY <1>1, <1>3
<1>5. \A k \in 0 .. size - 1 : val'[c[k]] \in Vals
  BY <1>1, <1>4
<1>6. /\ (\E d : Holds(d))'
      /\ Contents' \in Seq(Vals) /\ Len(Contents') = size
      /\ \A k \in 1 .. size : Contents'[k] = val'[c[k - 1]]
  BY <1>4, <1>5, ValueStep
<1>7. \A k \in 1 .. size : Contents'[k] = IF k = i + 1 THEN v ELSE Contents[k]
  <2> SUFFICES ASSUME NEW k \in 1 .. size
               PROVE  Contents'[k] = IF k = i + 1 THEN v ELSE Contents[k]
    OBVIOUS
  <2>1. k - 1 \in 0 .. size - 1 /\ k - 1 + 1 = k /\ (k - 1 = i <=> k = i + 1)
    BY <1>1
  <2>2. \A j \in 0 .. size - 1 : Contents[j + 1] = val[c[j]]
    BY HoldsFacts
  <2>3. Contents[k] = val[c[k - 1]]
    BY <2>1, <2>2
  <2>4. QED
    BY <1>4, <1>6, <2>1, <2>3
<1>8. Joined(Contents, <<v>>, i, i + 1, Contents')
  <2>1. Len(<<v>>) = 1 /\ <<v>>[1] = v
    OBVIOUS
  <2>2. size = i + 1 + (size - (i + 1)) /\ \A k \in 1 .. 1 : k = 1
    BY <1>1
  <2>3. \A k \in 1 .. i : Contents'[k] = Contents[k]
    BY <1>1, <1>7
  <2>4. Contents'[i + 1] = v
    BY <1>1, <1>7
  <2>5. \A k \in 1 .. size - (i + 1) : Contents'[i + 1 + k] = Contents[i + 1 + k]
    <3> SUFFICES ASSUME NEW k \in 1 .. size - (i + 1)
                 PROVE  Contents'[i + 1 + k] = Contents[i + 1 + k]
      OBVIOUS
    <3>1. i + 1 + k \in 1 .. size /\ i + 1 + k # i + 1
      BY <1>1
    <3>2. QED
      BY <1>7, <3>1
  <2>6. QED
    BY <1>2, <1>6, <2>1, <2>2, <2>3, <2>4, <2>5 DEF Joined
<1>9. Contents' = Join(Contents, <<v>>, i, i + 1)
  <2>1. i \in 0 .. Len(Contents) /\ i + 1 \in i .. Len(Contents) /\ <<v>> \in Seq(Vals)
    BY <1>1, <1>2
  <2>2. QED
    BY <1>2, <1>6, <1>8, <2>1, JoinedIs, Zenon
<1>10. QED
  BY <1>6, <1>9

Agree(s, t, D) ==
    s \in [D -> Vals] /\ t \in [D -> Vals] /\ \A k \in D : s[k] = t[k]

LEMMA SameArray ==
    ASSUME NEW s, NEW t, NEW D, Agree(s, t, D)
    PROVE  s = t
BY DEF Agree

LEMMA SwapStep ==
    ASSUME NEW c, Holds(c), NEW i \in 0 .. size - 1, NEW j \in 0 .. size - 1,
           UNCHANGED <<first, last, size, next>>,
           val' = IF i # j
                  THEN [val EXCEPT ![Walk[i]] = val[Walk[j]], ![Walk[j]] = val[Walk[i]]]
                  ELSE val
    PROVE  /\ (\E d : Holds(d))'
           /\ Contents' = [Contents EXCEPT ![i + 1] = Contents[j + 1],
                                           ![j + 1] = Contents[i + 1]]
<1>1. /\ size \in Nat /\ c \in [0 .. size - 1 -> Cells]
      /\ val \in [Cells -> Vals \union {Zero}]
      /\ \A h, k \in 0 .. size - 1 : c[h] = c[k] => h = k
      /\ \A k \in 0 .. size - 1 : val[c[k]] \in Vals
  BY HoldsFacts
<1>2. Contents \in Seq(Vals) /\ Len(Contents) = size
  BY HoldsFacts
<1>3. Walk[i] = c[i] /\ c[i] \in Cells /\ Walk[j] = c[j] /\ c[j] \in Cells
  BY CellFacts
<1>4. /\ val' \in [Cells -> Vals \union {Zero}]
      /\ \A k \in 0 .. size - 1 :
             val'[c[k]] = IF k = j THEN val[c[i]] ELSE IF k = i THEN val[c[j]] ELSE val[c[k]]
  <2>1. CASE i = j
    BY <1>1, <2>1
  <2>2. CASE i # j
    <3>1. val' = [val EXCEPT ![c[i]] = val[c[j]], ![c[j]] = val[c[i]]]
      BY <1>3, <2>2
    <3>2. QED
      BY <1>1, <1>3, <2>2, <3>1
  <2>3. QED
    BY <2>1, <2>2
<1>5. \A k \in 0 .. size - 1 : val'[c[k]] \in Vals
  BY <1>1, <1>4
<1>6. /\ (\E d : Holds(d))'
      /\ Contents' \in Seq(Vals) /\ Len(Contents') = size
      /\ \A k \in 1 .. size : Contents'[k] = val'[c[k - 1]]
  BY <1>4, <1>5, ValueStep
<1> DEFINE new == [Contents EXCEPT ![i + 1] = Contents[j + 1], ![j + 1] = Contents[i + 1]]
<1>7. \A k \in 1 .. size : Contents'[k] = new[k]
  <2> SUFFICES ASSUME NEW k \in 1 .. size PROVE Contents'[k] = new[k]
    OBVIOUS
  <2>1. /\ k - 1 \in 0 .. size - 1 /\ k - 1 + 1 = k
        /\ (k - 1 = i <=> k = i + 1) /\ (k - 1 = j <=> k = j + 1)
    BY <1>1
  <2>2. \A h \in 0 .. size - 1 : Contents[h + 1] = val[c[h]]
    BY HoldsFacts
  <2>3. Contents[k] = val[c[k - 1]] /\ Contents[i + 1] = val[c[i]] /\ Contents[j + 1] = val[c[j]]
    BY <2>1, <2>2
  <2>4. Contents'[k] = IF k = j + 1 THEN Contents[i + 1]
                       ELSE IF k = i + 1 THEN Contents[j + 1] ELSE Contents[k]
    <3>1. val'[c[k - 1]] = IF k - 1 = j THEN val[c[i]]
                           ELSE IF k - 1 = i THEN val[c[j]] ELSE val[c[k - 1]]
      BY <1>4, <2>1
    <3>2. Contents'[k] = val'[c[k - 1]]
      BY <1>6
    <3>3. QED
      BY <2>1, <2>3, <3>1, <3>2, Zenon
  <2>5. DOMAIN Contents = 1 .. size
    BY <1>2
  <2>6. QED
    BY <2>4, <2>5
<1>8. Contents' = new
  <2>1. Contents' \in [1 .. size -> Vals] /\ Contents \in [1 .. size -> Vals]
    BY <1>2, <1>6
  <2>2. new \in [1 .. size -> Vals]
    <3>1. i + 1 \in 1 .. size /\ j + 1 \in 1 .. size
      BY <1>1
    <3>2. QED
      BY <2>1, <3>1
  <2> HIDE DEF new
  <2>3. Agree(Contents', new, 1 .. size)
    BY <1>7, <2>1, <2>2 DEF Agree
  <2>4. QED
    BY <2>3, SameArray, Zenon
<1>9. QED
  BY <1>6, <1>8

-----------------------------------------------------------------------------
(* The calls of a client, and what they return.                            *)

LEMMA CallShape ==
    ASSUME NEW c \in Calls
    PROVE  /\ c # NoCall
           /\ c.op \in {"Add", "Prepend", "Insert"} => c.vs \in Args
           /\ c.op = "Set" => \E v \in Vals : c.vs = <<v>>
           /\ c.i \in Int /\ c.j \in Int
<1>1. Indices \subseteq Int /\ 0 \in Int
  BY SizeAssumption DEF Indices
<1>2. CASE \E op \in {"Add", "Prepend"}, vs \in Args : c = Call(op, 0, 0, vs)
  BY <1>1, <1>2 DEF Call, NoCall
<1>3. CASE \E i \in Indices, vs \in Args : c = Call("Insert", i, 0, vs)
  BY <1>1, <1>3 DEF Call, NoCall
<1>4. CASE \E i \in Indices, v \in Vals : c = Call("Set", i, 0, <<v>>)
  BY <1>1, <1>4 DEF Call, NoCall
<1>5. CASE \E op \in {"Remove", "Get"}, i \in Indices : c = Call(op, i, 0, <<>>)
  BY <1>1, <1>5 DEF Call, NoCall
<1>6. CASE \E i \in Indices, j \in Indices : c = Call("Swap", i, j, <<>>)
  BY <1>1, <1>6 DEF Call, NoCall
<1>7. CASE \E op \in {"Pop", "Values", "Clear"} : c = Call(op, 0, 0, <<>>)
  BY <1>1, <1>7 DEF Call, NoCall
<1>8. \/ \E op \in {"Add", "Prepend"}, vs \in Args : c = Call(op, 0, 0, vs)
      \/ \E i \in Indices, vs \in Args : c = Call("Insert", i, 0, vs)
      \/ \E i \in Indices, v \in Vals : c = Call("Set", i, 0, <<v>>)
      \/ \E op \in {"Remove", "Get"}, i \in Indices : c = Call(op, i, 0, <<>>)
      \/ \E i \in Indices, j \in Indices : c = Call("Swap", i, j, <<>>)
      \/ \E op \in {"Pop", "Values", "Clear"} : c = Call(op, 0, 0, <<>>)
  BY DEF Calls
<1>9. QED
  BY <1>2, <1>3, <1>4, <1>5, <1>6, <1>7, <1>8, Zenon

Results == {None, Panic} \union UNION {[1 .. n -> Vals] : n \in 1 .. MaxSize}

\* The list is a chain of cells with values, and the pending call keeps it
\* within its bound.
ListInv ==
    /\ \E c : Holds(c)
    /\ call \in Calls \union {NoCall}
    /\ call # NoCall => Fits(call, size)
    /\ ret \in Results

\* A call that is carried out: its arguments.
LEMMA Pending ==
    ASSUME ListInv, call.op # "none"
    PROVE  /\ call.op \in {"Add", "Prepend", "Insert"} =>
                  \E m \in Nat : call.vs \in [1 .. m -> Vals] /\ size + m <= MaxSize
           /\ call.op = "Set" =>
                  \E v \in Vals : call.vs = <<v>> /\ (call.i = size => size + 1 <= MaxSize)
           /\ call.i \in Int /\ call.j \in Int
<1>1. call # NoCall
  BY DEF NoCall, Call
<1>2. call \in Calls /\ Fits(call, size)
  BY <1>1 DEF ListInv
<1>3. /\ call.op \in {"Add", "Prepend", "Insert"} => call.vs \in Args
      /\ call.op = "Set" => \E v \in Vals : call.vs = <<v>>
      /\ call.i \in Int /\ call.j \in Int
  BY <1>2, CallShape
<1>4. ASSUME call.op \in {"Add", "Prepend", "Insert"}
      PROVE  \E m \in Nat : call.vs \in [1 .. m -> Vals] /\ size + m <= MaxSize
  <2>1. PICK m \in 0 .. MaxArgs : call.vs \in [1 .. m -> Vals]
    BY <1>3, <1>4 DEF Args
  <2>2. m \in Nat
    BY SizeAssumption
  <2>3. Len(call.vs) = m
    BY <2>1, <2>2, ArrayIsSeq
  <2>4. size + m <= MaxSize
    BY <1>2, <1>4, <2>3 DEF Fits
  <2>5. QED
    BY <2>1, <2>2, <2>4
<1>5. ASSUME call.op = "Set"
      PROVE  \E v \in Vals : call.vs = <<v>> /\ (call.i = size => size + 1 <= MaxSize)
  <2>1. PICK v \in Vals : call.vs = <<v>>
    BY <1>3, <1>5
  <2>2. Len(call.vs) = 1
    BY <2>1
  <2>3. call.i = size => size + 1 <= MaxSize
    BY <1>2, <2>2 DEF Fits
  <2>4. QED
    BY <2>1, <2>3
<1>6. QED
  BY <1>3, <1>4, <1>5

\* AbstractList has the same calls and results.
LEMMA SameCalls ==
    /\ Abstract!None = None /\ Abstract!Panic = Panic /\ Abstract!NoCall = NoCall
    /\ Abstract!Calls = Calls
    /\ \A c, n : Abstract!Fits(c, n) <=> Fits(c, n)
BY DEF Abstract!None, None, Abstract!Panic, Panic, Abstract!NoCall, NoCall,
   Abstract!Call, Call, Abstract!Calls, Calls, Abstract!Args, Args,
   Abstract!Indices, Indices, Abstract!Fits, Fits

LEMMA AddRefines ==
    ASSUME ListInv, Add
    PROVE  (\E d : Holds(d))' /\ Abstract!Add /\ ret' \in Results
<1>1. PICK c : Holds(c)
  BY DEF ListInv
<1>2. call.op = "Add" /\ AddValues(call.vs) /\ ret' = None /\ call' = NoCall
  BY DEF Add, Return
<1>3. PICK m \in Nat : call.vs \in [1 .. m -> Vals] /\ size + m <= MaxSize
  BY <1>2, Pending
<1>4. (\E d : Holds(d))' /\ Contents' = Contents \o call.vs
  BY <1>1, <1>2, <1>3, AddStep
<1>5. QED
  BY <1>2, <1>4, SameCalls, Zenon DEF Abstract!Add, Abstract!Does, Results

LEMMA OneResult == \A v \in Vals : <<v>> \in Results
<1>1. 1 \in 1 .. MaxSize
  BY SizeAssumption
<1>2. \A v \in Vals : <<v>> \in [1 .. 1 -> Vals]
  OBVIOUS
<1>3. QED
  BY <1>1, <1>2 DEF Results

LEMMA PrependRefines ==
    ASSUME ListInv, Prepend
    PROVE  (\E d : Holds(d))' /\ Abstract!Prepend /\ ret' \in Results
<1>1. PICK c : Holds(c)
  BY DEF ListInv
<1>2. /\ call.op = "Prepend" /\ ret' = None /\ call' = NoCall
      /\ IF call.vs = <<>> THEN UNCHANGED list ELSE PrependValues(call.vs)
  BY DEF Prepend, Return
<1>3. PICK m \in Nat : call.vs \in [1 .. m -> Vals] /\ size + m <= MaxSize
  BY <1>2, Pending
<1>4. (\E d : Holds(d))' /\ Contents' = call.vs \o Contents
  <2>1. CASE call.vs = <<>>
    <3>1. Contents \in Seq(Vals)
      BY <1>1, HoldsFacts
    <3>2. call.vs \o Contents = Contents
      BY <2>1, <3>1, ConcatEmptySeq
    <3>3. QED
      BY <1>1, <1>2, <2>1, <3>2, KeepStep
  <2>2. CASE call.vs # <<>>
    <3>1. m # 0
      BY <1>3, <2>2
    <3>2. QED
      BY <1>1, <1>2, <1>3, <2>2, <3>1, PrependStep
  <2>3. QED
    BY <2>1, <2>2
<1>5. QED
  BY <1>2, <1>4, SameCalls, Zenon DEF Abstract!Prepend, Abstract!Does, Results

LEMMA RemoveRefines ==
    ASSUME ListInv, Remove
    PROVE  (\E d : Holds(d))' /\ Abstract!Remove /\ ret' \in Results
<1>1. PICK c : Holds(c)
  BY DEF ListInv
<1>2. call.op = "Remove" /\ RemoveAt(call.i) /\ ret' = None /\ call' = NoCall
  BY DEF Remove, Return
<1>3. call.i \in Int
  BY <1>2, Pending
<1>4. PICK i \in Int : i = call.i
  BY <1>3
<1>5. Contents \in Seq(Vals) /\ Len(Contents) = size /\ size \in Nat
  BY <1>1, HoldsFacts
<1>6. /\ (\E d : Holds(d))'
      /\ Contents' = IF i \in 0 .. size - 1 THEN Join(Contents, <<>>, i, i + 1) ELSE Contents
  BY <1>1, <1>2, <1>4, RemoveAtStep
<1>7. Contents' = IF i \in 0 .. Len(Contents) - 1
                  THEN SubSeq(Contents, 1, i) \o SubSeq(Contents, i + 1 + 1, Len(Contents))
                  ELSE Contents
  <2>1. CASE i \in 0 .. size - 1
    <3>1. i \in 0 .. Len(Contents)
      BY <1>5, <2>1
    <3>2. Join(Contents, <<>>, i, i + 1)
            = SubSeq(Contents, 1, i) \o SubSeq(Contents, i + 1 + 1, Len(Contents))
      BY <1>5, <3>1, JoinGap, Zenon
    <3>3. QED
      BY <1>5, <1>6, <2>1, <3>2
  <2>2. CASE i \notin 0 .. size - 1
    BY <1>5, <1>6, <2>2
  <2>3. QED
    BY <2>1, <2>2
<1>8. Abstract!Remove
  BY <1>2, <1>4, <1>7, SameCalls, Zenon
     DEF Abstract!Remove, Abstract!Does, Abstract!InRange, Abstract!Upto, Abstract!From
<1>9. QED
  BY <1>2, <1>6, <1>8 DEF Results

LEMMA FirstOne ==
    ASSUME NEW s \in Seq(Vals), Len(s) # 0
    PROVE  SubSeq(s, 1, 1) = <<s[1]>>
<1>1. SubSeq(s, 1, 1) \in Seq(Vals) /\ Len(SubSeq(s, 1, 1)) = 1 /\ SubSeq(s, 1, 1)[1] = s[1]
  OBVIOUS
<1> DEFINE t == SubSeq(s, 1, 1)
<1> HIDE DEF t
<1>2. t \in Seq(Vals) /\ Len(t) = 1 /\ t[1] = s[1]
  BY <1>1 DEF t
<1>3. t = <<t[1]>>
  BY <1>2
<1>4. QED
  BY <1>2, <1>3 DEF t

LEMMA PopRefines ==
    ASSUME ListInv, Pop
    PROVE  (\E d : Holds(d))' /\ Abstract!Pop /\ ret' \in Results
<1>1. PICK c : Holds(c)
  BY DEF ListInv
<1>2. Contents \in Seq(Vals) /\ Len(Contents) = size /\ size \in Nat
  BY <1>1, HoldsFacts
<1>3. CASE size = 0
  <2>1. call.op = "Pop" /\ UNCHANGED list /\ ret' = None /\ call' = NoCall
    BY <1>3 DEF Pop, Return
  <2>2. (\E d : Holds(d))' /\ Contents' = Contents
    BY <1>1, <2>1, KeepStep
  <2>3. Contents = <<>>
    BY <1>2, <1>3
  <2>4. SubSeq(<<>>, 1 + 1, Len(<<>>)) = <<>> /\ SubSeq(<<>>, 1, 0) = <<>>
    OBVIOUS
  <2>5. Abstract!Pop
    BY <2>1, <2>2, <2>3, <2>4, SameCalls
       DEF Abstract!Pop, Abstract!Does, Abstract!Upto, Abstract!From, None
  <2>6. QED
    BY <2>1, <2>2, <2>5 DEF Results
<1>4. CASE size # 0
  <2>1. call.op = "Pop" /\ RemoveAt(0) /\ ret' = <<val[first]>> /\ call' = NoCall
    BY <1>4 DEF Pop, Return
  <2>2. 0 \in Int /\ 0 \in 0 .. size - 1 /\ 0 \in 0 .. Len(Contents) /\ Contents # <<>>
    BY <1>2, <1>4
  <2>3. (\E d : Holds(d))' /\ Contents' = Join(Contents, <<>>, 0, 0 + 1)
    BY <1>1, <2>1, <2>2, RemoveAtStep
  <2>4. Contents' = SubSeq(Contents, 1 + 1, Len(Contents))
    <3>1. Contents' = SubSeq(Contents, 1, 0) \o SubSeq(Contents, 0 + 1 + 1, Len(Contents))
      BY <1>2, <2>2, <2>3, JoinGap, Zenon
    <3>2. SubSeq(Contents, 1, 0) = <<>> /\ SubSeq(Contents, 1 + 1, Len(Contents)) \in Seq(Vals)
      BY <1>2
    <3>3. QED
      BY <3>1, <3>2, ConcatEmptySeq
  <2>5. val[first] = Contents[1] /\ val[first] \in Vals
    <3>1. /\ size > 0 => first = c[0]
          /\ \A k \in 0 .. size - 1 : Contents[k + 1] = val[c[k]] /\ val[c[k]] \in Vals
      BY <1>1, HoldsFacts
    <3>2. first = c[0] /\ Contents[0 + 1] = val[c[0]] /\ val[c[0]] \in Vals
      BY <1>2, <1>4, <2>2, <3>1
    <3>3. QED
      BY <3>2
  <2>6. SubSeq(Contents, 1, 1) = <<Contents[1]>>
    BY <1>2, <1>4, FirstOne
  <2>7. Abstract!Pop
    BY <2>1, <2>2, <2>4, <2>5, <2>6, SameCalls
       DEF Abstract!Pop, Abstract!Does, Abstract!Upto, Abstract!From
  <2>8. QED
    BY <2>1, <2>3, <2>5, <2>7, OneResult
<1>5. QED
  BY <1>3, <1>4

LEMMA GetRefines ==
    ASSUME ListInv, Get
    PROVE  (\E d : Holds(d))' /\ Abstract!Get /\ ret' \in Results
<1>1. PICK c : Holds(c)
  BY DEF ListInv
<1>2. /\ call.op = "Get" /\ UNCHANGED list /\ call' = NoCall
      /\ ret' = IF WithinRange(call.i) THEN <<val[Walk[call.i]]>> ELSE None
  BY DEF Get, Return
<1>3. call.i \in Int
  BY <1>2, Pending
<1>4. PICK i \in Int : i = call.i
  BY <1>3
<1>5. /\ Len(Contents) = size /\ size \in Nat
      /\ WithinRange(i) <=> i \in 0 .. size - 1
  BY <1>1, HoldsFacts DEF WithinRange
<1>6. (\E d : Holds(d))' /\ Contents' = Contents
  BY <1>1, <1>2, KeepStep
<1>7. ASSUME i \in 0 .. size - 1
      PROVE  val[Walk[i]] = Contents[i + 1] /\ val[Walk[i]] \in Vals
  <2>1. Walk[i] = c[i]
    BY <1>1, <1>7, CellFacts
  <2>2. \A k \in 0 .. size - 1 : Contents[k + 1] = val[c[k]] /\ val[c[k]] \in Vals
    BY <1>1, HoldsFacts
  <2>3. QED
    BY <1>7, <2>1, <2>2
<1>8. ret' = IF i \in 0 .. Len(Contents) - 1 THEN <<Contents[i + 1]>> ELSE None
  BY <1>2, <1>4, <1>5, <1>7
<1>9. ret' \in Results
  BY <1>2, <1>4, <1>5, <1>7, OneResult DEF Results
<1>10. Abstract!Get
  BY <1>2, <1>4, <1>6, <1>8, SameCalls, Zenon
     DEF Abstract!Get, Abstract!Does, Abstract!InRange
<1>11. QED
  BY <1>6, <1>9, <1>10

LEMMA ValuesRefines ==
    ASSUME ListInv, Values
    PROVE  (\E d : Holds(d))' /\ Abstract!Values /\ ret' \in Results
<1>1. PICK c : Holds(c)
  BY DEF ListInv
<1>2. /\ call.op = "Values" /\ UNCHANGED list /\ call' = NoCall
      /\ ret' = IF Walk[size] # Nil THEN Panic ELSE Contents
  BY DEF Values, Return
<1>3. size \in 0 .. MaxSize /\ \A k \in 0 .. MaxSize : Walk[k] = IF k < size THEN c[k] ELSE Nil
  BY <1>1, HoldsFacts
<1>4. ret' = Contents
  BY <1>2, <1>3
<1>5. (\E d : Holds(d))' /\ Contents' = Contents
  BY <1>1, <1>2, KeepStep
<1>6. Contents \in Results
  <2>1. Contents \in [1 .. size -> Vals]
    BY <1>1, ContentsAre
  <2>2. CASE size = 0
    <3>1. Contents = <<>>
      BY <2>1, <2>2
    <3>2. QED
      BY <3>1 DEF Results, None
  <2>3. CASE size # 0
    <3>1. size \in 1 .. MaxSize
      BY <1>3, <2>3, SizeAssumption
    <3>2. QED
      BY <2>1, <3>1 DEF Results
  <2>4. QED
    BY <2>2, <2>3
<1>7. Abstract!Values
  BY <1>2, <1>4, <1>5, SameCalls, Zenon DEF Abstract!Values, Abstract!Does
<1>8. QED
  BY <1>4, <1>5, <1>6, <1>7

LEMMA ClearRefines ==
    ASSUME ListInv, Clear
    PROVE  (\E d : Holds(d))' /\ Abstract!Clear /\ ret' \in Results
<1>1. PICK c : Holds(c)
  BY DEF ListInv
<1>2. call.op = "Clear" /\ ClearList /\ ret' = None /\ call' = NoCall
  BY DEF Clear, Return
<1>3. (\E d : Holds(d))' /\ Contents' = <<>>
  BY <1>1, <1>2, ClearStep
<1>4. Abstract!Clear
  BY <1>2, <1>3, SameCalls, Zenon DEF Abstract!Clear, Abstract!Does
<1>5. QED
  BY <1>2, <1>3, <1>4 DEF Results

LEMMA SwapRefines ==
    ASSUME ListInv, Swap
    PROVE  (\E d : Holds(d))' /\ Abstract!Swap /\ ret' \in Results
<1>1. PICK c : Holds(c)
  BY DEF ListInv
<1>2. call.op = "Swap" /\ ret' = None /\ call' = NoCall /\ UNCHANGED <<first, last, size, next>>
  BY DEF Swap, Return
<1>3. call.i \in Int /\ call.j \in Int
  BY <1>2, Pending
<1>4. PICK i \in Int, j \in Int : i = call.i /\ j = call.j
  BY <1>3
<1>5. /\ Len(Contents) = size /\ size \in Nat
      /\ WithinRange(i) <=> i \in 0 .. size - 1
      /\ WithinRange(j) <=> j \in 0 .. size - 1
  BY <1>1, HoldsFacts DEF WithinRange
<1>6. val' = IF WithinRange(i) /\ WithinRange(j) /\ i # j
             THEN [val EXCEPT ![Walk[i]] = val[Walk[j]], ![Walk[j]] = val[Walk[i]]]
             ELSE val
  BY <1>4 DEF Swap
<1> DEFINE new == [Contents EXCEPT ![i + 1] = Contents[j + 1], ![j + 1] = Contents[i + 1]]
<1>7. (\E d : Holds(d))' /\ Contents' = IF i \in 0 .. size - 1 /\ j \in 0 .. size - 1
                                        THEN new ELSE Contents
  <2>1. CASE i \in 0 .. size - 1 /\ j \in 0 .. size - 1
    <3>1. val' = IF i # j
                 THEN [val EXCEPT ![Walk[i]] = val[Walk[j]], ![Walk[j]] = val[Walk[i]]]
                 ELSE val
      BY <1>5, <1>6, <2>1
    <3>2. (\E d : Holds(d))' /\ Contents' = new
      BY <1>1, <1>2, <2>1, <3>1, SwapStep
    <3>3. QED
      BY <2>1, <3>2, Zenon
  <2>2. CASE ~(i \in 0 .. size - 1 /\ j \in 0 .. size - 1)
    <3>1. UNCHANGED list
      BY <1>2, <1>5, <1>6, <2>2 DEF list
    <3>2. QED
      BY <1>1, <2>2, <3>1, KeepStep
  <2>3. QED
    BY <2>1, <2>2
<1> HIDE DEF new
<1>8. Contents' = IF i \in 0 .. Len(Contents) - 1 /\ j \in 0 .. Len(Contents) - 1
                  THEN new ELSE Contents
  BY <1>5, <1>7
<1>9. Abstract!Swap
  BY <1>2, <1>4, <1>8, SameCalls, Zenon
     DEF Abstract!Swap, Abstract!Does, Abstract!InRange, new
<1>10. QED
  BY <1>2, <1>7, <1>9 DEF Results

\* Past the end there is nothing left to keep.
LEMMA JoinPast ==
    ASSUME NEW s \in Seq(Vals), NEW vs \in Seq(Vals), NEW n, n = Len(s)
    PROVE  s \o vs = Join(s, vs, n, n + 1)
<1>1. SubSeq(s, 1, n) = s /\ SubSeq(s, n + 1 + 1, Len(s)) = <<>>
  OBVIOUS
<1>2. s \o vs \in Seq(Vals)
  OBVIOUS
<1>3. (s \o vs) \o <<>> = s \o vs
  BY <1>2, ConcatEmptySeq
<1>4. QED
  BY <1>1, <1>3 DEF Join

LEMMA SetRefines ==
    ASSUME ListInv, Set
    PROVE  (\E d : Holds(d))' /\ Abstract!Set /\ ret' \in Results
<1>1. PICK c : Holds(c)
  BY DEF ListInv
<1>2. call.op = "Set" /\ ret' = None /\ call' = NoCall
  BY DEF Set, Return
<1>3. call.i \in Int /\ \E v \in Vals : call.vs = <<v>> /\ (call.i = size => size + 1 <= MaxSize)
  BY <1>2, Pending
<1>4. PICK i \in Int : i = call.i
  BY <1>3
<1>5. PICK v \in Vals : call.vs = <<v>> /\ (i = size => size + 1 <= MaxSize)
  BY <1>3, <1>4
<1>6. /\ Contents \in Seq(Vals) /\ Len(Contents) = size /\ size \in Nat
      /\ WithinRange(i) <=> i \in 0 .. size - 1
  BY <1>1, HoldsFacts DEF WithinRange
<1>7. <<v>> \in [1 .. 1 -> Vals] /\ <<v>> \in Seq(Vals) /\ <<v>>[1] = v /\ 1 \in Nat
  OBVIOUS
<1>8. (\E d : Holds(d))' /\ Contents' = IF i \in 0 .. size
                                        THEN Join(Contents, <<v>>, i, i + 1) ELSE Contents
  <2>1. CASE i \in 0 .. size - 1
    <3>1. i # size /\ i \in 0 .. size
      BY <1>6, <2>1
    <3>2. val' = [val EXCEPT ![Walk[i]] = v] /\ UNCHANGED <<first, last, size, next>>
      BY <1>4, <1>5, <1>6, <1>7, <2>1, <3>1 DEF Set
    <3>3. (\E d : Holds(d))' /\ Contents' = Join(Contents, <<v>>, i, i + 1)
      BY <1>1, <2>1, <3>2, SetStep
    <3>4. QED
      BY <3>1, <3>3, Zenon
  <2>2. CASE i = size
    <3>1. i \notin 0 .. size - 1 /\ i \in 0 .. size
      BY <1>6, <2>2
    <3>2. AddValues(<<v>>) /\ size + 1 <= MaxSize
      BY <1>4, <1>5, <1>6, <2>2, <3>1 DEF Set
    <3>3. (\E d : Holds(d))' /\ Contents' = Contents \o <<v>>
      BY <1>1, <1>7, <3>2, AddStep
    <3>4. Contents \o <<v>> = Join(Contents, <<v>>, i, i + 1)
      BY <1>6, <1>7, <2>2, JoinPast, Zenon
    <3>5. QED
      BY <3>1, <3>3, <3>4, Zenon
  <2>3. CASE i \notin 0 .. size
    <3>1. i \notin 0 .. size - 1 /\ i # size
      BY <1>6, <2>3
    <3>2. UNCHANGED list
      BY <1>4, <1>6, <3>1 DEF Set
    <3>3. QED
      BY <1>1, <2>3, <3>2, KeepStep
  <2>4. QED
    BY <1>6, <2>1, <2>2, <2>3
<1>9. Contents' = IF i \in 0 .. Len(Contents) THEN Join(Contents, call.vs, i, i + 1) ELSE Contents
  BY <1>5, <1>6, <1>8, Zenon
<1>10. Abstract!Set
  BY <1>2, <1>4, <1>9, SameCalls, Zenon
     DEF Abstract!Set, Abstract!Does, Abstract!Upto, Abstract!From, Join
<1>11. QED
  BY <1>2, <1>8, <1>10 DEF Results

LEMMA InsertRefines ==
    ASSUME ListInv, Insert
    PROVE  (\E d : Holds(d))' /\ Abstract!Insert /\ ret' \in Results
<1>1. PICK c : Holds(c)
  BY DEF ListInv
<1>2. call.op = "Insert" /\ call' = NoCall
  BY DEF Insert, InsertWithin, Return
<1>3. call.i \in Int
  BY <1>2, Pending
<1>4. PICK i \in Int : i = call.i
  BY <1>3
<1>5. PICK m \in Nat : call.vs \in [1 .. m -> Vals] /\ size + m <= MaxSize
  BY <1>2, Pending
<1>6. PICK vs \in [1 .. m -> Vals] : vs = call.vs
  BY <1>5
<1>7. /\ Contents \in Seq(Vals) /\ Len(Contents) = size /\ size \in Nat
      /\ WithinRange(i) <=> i \in 0 .. size - 1
  BY <1>1, HoldsFacts DEF WithinRange
<1>8. vs \in Seq(Vals)
  BY ArrayIsSeq
<1>9. \/ WithinRange(i) /\ InsertWithin(i, vs)
      \/ i = size /\ AddValues(vs) /\ Return(None)
      \/ ~WithinRange(i) /\ i # size /\ UNCHANGED list /\ Return(None)
  BY <1>4, <1>6 DEF Insert
<1> DEFINE new == IF i \in 0 .. size THEN Join(Contents, vs, i, i) ELSE Contents
<1> DEFINE nothing == vs = <<>> /\ i = 0 /\ size # 0
<1>10. /\ (\E d : Holds(d))' /\ Contents' = new
       /\ ret' = IF nothing THEN Panic ELSE None
  <2>1. CASE WithinRange(i) /\ InsertWithin(i, vs)
    <3>1. i \in 0 .. size - 1 /\ i \in 0 .. size /\ i \in 0 .. Len(Contents)
      BY <1>7, <2>1
    <3>2. (\E d : Holds(d))' /\ Contents' = Join(Contents, vs, i, i)
      BY <1>1, <1>5, <2>1, <3>1, InsertStep
    <3>3. (Walk[i] = first <=> i = 0) /\ size # 0
      <4>1. Walk[i] = first <=> i = 0
        BY <1>1, <3>1, CellFacts
      <4>2. \A n \in Nat : i \in 0 .. n - 1 => n # 0
        OBVIOUS
      <4>3. QED
        BY <1>7, <3>1, <4>1, <4>2, Zenon
    <3>4. ret' = IF nothing THEN Panic ELSE None
      BY <2>1, <3>3 DEF InsertWithin, Return
    <3>5. QED
      BY <3>1, <3>2, <3>4, Zenon
  <2>2. CASE i = size /\ AddValues(vs) /\ Return(None)
    <3>1. i \in 0 .. size
      BY <1>7, <2>2
    <3>2. (\E d : Holds(d))' /\ Contents' = Contents \o vs
      BY <1>1, <1>5, <2>2, AddStep
    <3>3. Join(Contents, vs, i, i) = Contents \o vs
      BY <1>7, <1>8, <2>2, Joins, Zenon
    <3>4. ret' = None /\ ~nothing
      BY <2>2 DEF Return
    <3>5. QED
      BY <3>1, <3>2, <3>3, <3>4, Zenon
  <2>3. CASE ~WithinRange(i) /\ i # size /\ UNCHANGED list /\ Return(None)
    <3>1. i \notin 0 .. size /\ ~nothing
      BY <1>7, <2>3
    <3>2. (\E d : Holds(d))' /\ Contents' = Contents
      BY <1>1, <2>3, KeepStep
    <3>3. ret' = None
      BY <2>3 DEF Return
    <3>4. QED
      BY <3>1, <3>2, <3>3, Zenon
  <2>4. QED
    BY <1>9, <2>1, <2>2, <2>3
<1>11. new = IF call.i \in 0 .. Len(Contents)
             THEN SubSeq(Contents, 1, call.i) \o call.vs
                    \o SubSeq(Contents, call.i + 1, Len(Contents))
             ELSE Contents
  BY <1>4, <1>6, <1>7, Zenon DEF Join
<1>12. nothing <=> call.vs = <<>> /\ call.i = 0 /\ Len(Contents) # 0
  BY <1>4, <1>6, <1>7, Zenon
<1> HIDE DEF new, nothing
<1>13. Abstract!Insert
  BY <1>2, <1>10, <1>11, <1>12, SameCalls, Zenon
     DEF Abstract!Insert, Abstract!Does, Abstract!Upto, Abstract!From
<1>14. QED
  BY <1>10, <1>13 DEF Results

-----------------------------------------------------------------------------
(* The list.                                                               *)

LEMMA StartsEmpty == ListInit => ListInv /\ Abstract!Init
<1> SUFFICES ASSUME ListInit PROVE ListInv /\ Abstract!Init
  OBVIOUS
<1>1. PICK c : c = [k \in 0 .. 0 - 1 |-> 1]
  OBVIOUS
<1>2. /\ first = Nil /\ last = Nil /\ size = 0 /\ call = NoCall /\ ret = None
      /\ val \in [Cells -> Vals \union {Zero}]
      /\ next \in [Cells -> Cells \union {Nil}]
  BY DEF ListInit
<1>3. Holds(c)
  <2>1. c \in [0 .. 0 - 1 -> Cells] /\ 0 \in 0 .. MaxSize /\ 0 .. 0 - 1 = {}
    BY <1>1, SizeAssumption
  <2>2. QED
    BY <1>2, <2>1 DEF Holds, Linking
<1>4. Contents = <<>>
  BY <1>2, <1>3, HoldsFacts
<1>5. QED
  BY <1>2, <1>3, <1>4, SameCalls DEF ListInv, Results, Abstract!Init

LEMMA InvokeRefines ==
    ASSUME ListInv, NEW c \in Calls, Invoke(c)
    PROVE  ListInv' /\ Abstract!Invoke(c)
<1>1. call = NoCall /\ Fits(c, size) /\ call' = c /\ ret' = None /\ UNCHANGED list
  BY DEF Invoke
<1>2. PICK d : Holds(d)
  BY DEF ListInv
<1>3. (\E e : Holds(e))' /\ Contents' = Contents
  BY <1>1, <1>2, KeepStep
<1>4. size' = size /\ Len(Contents) = size
  BY <1>1, <1>2, HoldsFacts DEF list
<1>5. Fits(call', size')
  BY <1>1, <1>4
<1>6. ListInv'
  BY <1>1, <1>3, <1>5 DEF ListInv, Results
<1>7. Abstract!Invoke(c)
  BY <1>1, <1>3, <1>4, SameCalls, Zenon DEF Abstract!Invoke
<1>8. QED
  BY <1>6, <1>7

LEMMA ListStep ==
    ListInv /\ [ListNext]_listVars => ListInv' /\ [Abstract!Next]_(Abstract!vars)
<1> SUFFICES ASSUME ListInv, [ListNext]_listVars PROVE ListInv' /\ [Abstract!Next]_(Abstract!vars)
  OBVIOUS
<1>1. ASSUME NEW c \in Calls, Invoke(c) PROVE ListInv' /\ Abstract!Next
  BY <1>1, InvokeRefines, SameCalls, Zenon DEF Abstract!Next
<1>2. ASSUME (\E d : Holds(d))', call' = NoCall, ret' \in Results PROVE ListInv'
  BY <1>2 DEF ListInv
<1>3. ASSUME Add \/ Prepend \/ Insert \/ Set \/ Remove \/ Swap \/ Pop \/ Get \/ Values \/ Clear
      PROVE  ListInv' /\ Abstract!Next
  <2>1. call' = NoCall
    BY <1>3 DEF Add, Prepend, Insert, InsertWithin, Set, Remove, Swap, Pop, Get, Values,
       Clear, Return
  <2>2. /\ (\E d : Holds(d))' /\ ret' \in Results
        /\ \/ Abstract!Add \/ Abstract!Prepend \/ Abstract!Insert \/ Abstract!Set
           \/ Abstract!Remove \/ Abstract!Swap \/ Abstract!Pop \/ Abstract!Get
           \/ Abstract!Values \/ Abstract!Clear
    BY <1>3, AddRefines, PrependRefines, InsertRefines, SetRefines, RemoveRefines,
       SwapRefines, PopRefines, GetRefines, ValuesRefines, ClearRefines, Zenon
  <2>3. QED
    BY <1>2, <2>1, <2>2, Zenon DEF Abstract!Next
<1>4. ASSUME UNCHANGED listVars PROVE ListInv' /\ UNCHANGED Abstract!vars
  <2>1. PICK c : Holds(c)
    BY DEF ListInv
  <2>2. UNCHANGED list /\ call' = call /\ ret' = ret /\ size' = size
    BY <1>4 DEF listVars, list
  <2>3. (\E d : Holds(d))' /\ Contents' = Contents
    BY <2>1, <2>2, KeepStep
  <2>4. Fits(call', size') <=> Fits(call, size)
    BY <2>2
  <2>5. QED
    BY <2>2, <2>3, <2>4 DEF ListInv, Abstract!vars
<1>5. QED
  BY <1>1, <1>3, <1>4, Zenon DEF ListNext

LEMMA HoldsWellFormed == ListInv => WellFormed
<1> SUFFICES ASSUME ListInv PROVE WellFormed
  OBVIOUS
<1>1. PICK c : Holds(c)
  BY DEF ListInv
<1>2. /\ size \in 0 .. MaxSize /\ size \in Nat /\ MaxSize \in Nat /\ c \in [0 .. size - 1 -> Cells]
      /\ next \in [Cells -> Cells \union {Nil}]
      /\ val \in [Cells -> Vals \union {Zero}]
      /\ \A j, k \in 0 .. size - 1 : c[j] = c[k] => j = k
      /\ size = 0 => first = Nil /\ last = Nil
      /\ size > 0 => first = c[0] /\ last = c[size - 1]
      /\ \A k \in 0 .. MaxSize : Walk[k] = IF k < size THEN c[k] ELSE Nil
  BY <1>1, HoldsFacts, SizeAssumption
<1>3. \A k \in 0 .. size - 1 : Walk[k] = c[k] /\ c[k] \in Cells /\ c[k] # Nil
  BY <1>2 DEF Cells, Nil
<1>4. Walk[size] = Nil
  BY <1>2
<1>5. last = IF size = 0 THEN Nil ELSE Walk[size - 1]
  BY <1>2, <1>3
<1>6. first \in Cells \union {Nil} /\ last \in Cells \union {Nil}
  BY <1>2, <1>3
<1>7. ListTypeOK
  BY <1>2, <1>6 DEF ListTypeOK, ListInv, Results
<1>8. \A j, k \in 0 .. size - 1 : Walk[j] = Walk[k] => j = k
  BY <1>2, <1>3
<1>9. QED
  BY <1>3, <1>4, <1>5, <1>7, <1>8 DEF WellFormed

\* The chain from first has exactly size different cells and last is its end,
\* whatever calls of queue.go are made in whatever order.
THEOREM ChainKept == ListSpec => []WellFormed
BY StartsEmpty, ListStep, HoldsWellFormed, PTL DEF ListSpec

\* Every call of queue.go does to the chain of cells, and returns, what its
\* comment says it does to the list of values.
THEOREM ListImplemented == ListSpec => ImplementsAbstractList
BY StartsEmpty, ListStep, PTL DEF ListSpec, ImplementsAbstractList, Abstract!Spec
-----------------------------------------------------------------------------
(* The trigger.                                                            *)

LEMMA TypeStep == TypeOK /\ [Next]_vars => TypeOK'
<1> SUFFICES ASSUME TypeOK, [Next]_vars PROVE TypeOK'
  OBVIOUS
<1> USE IntervalAssumption DEF TypeOK
<1>1. ASSUME NEW c \in Callers, SetTrigger(c) PROVE TypeOK'
  BY <1>1 DEF SetTrigger
<1>2. ASSUME NEW c \in Callers, Wakeup(c) PROVE TypeOK'
  BY <1>2 DEF Wakeup
<1>3. CASE Shutdown
  BY <1>3 DEF Shutdown
<1>4. CASE Waiter
  <2>1. CASE Take
    BY <2>1 DEF Take
  <2>2. CASE Start
    <3>1. 0 \in 0 .. MinInterval
      OBVIOUS
    <3>2. QED
      BY <2>2, <3>1, Zenon DEF Start
  <2>3. CASE Delay \/ RunDone \/ SelectWakeup \/ SelectClose \/ ShutdownFunc
    BY <2>3 DEF Delay, RunDone, SelectWakeup, SelectClose, ShutdownFunc
  <2>4. QED
    BY <1>4, <2>1, <2>2, <2>3 DEF Waiter
<1>5. CASE Tick
  BY <1>5 DEF Tick
<1>6. CASE UNCHANGED vars
  BY <1>6 DEF vars
<1>7. QED
  BY <1>1, <1>2, <1>3, <1>4, <1>5, <1>6 DEF Next

LEMMA TypeInit == Init => TypeOK
<1>1. MinInterval \in 0 .. MinInterval
  BY IntervalAssumption
<1>2. QED
  BY <1>1 DEF Init, TypeOK

\* The types of the trigger.
LEMMA TypeCorrect == Spec => []TypeOK
BY TypeInit, TypeStep, PTL DEF Spec

\* A flag that is set is always covered by a wake-up: one in the channel, one
\* about to be sent, or one the waiter has just taken.  So the waiter never
\* goes to sleep over a call of Trigger.
THEOREM NoLostWakeup == Spec => []WakeupInFlight
<1>1. Init => WakeupInFlight
  BY DEF Init, WakeupInFlight
<1>2. TypeOK /\ WakeupInFlight /\ [Next]_vars => WakeupInFlight'
  <2> SUFFICES ASSUME TypeOK, WakeupInFlight, [Next]_vars PROVE WakeupInFlight'
    OBVIOUS
  <2>1. ASSUME NEW c \in Callers, SetTrigger(c) PROVE WakeupInFlight'
    BY <2>1 DEF SetTrigger, WakeupInFlight, TypeOK
  <2>2. ASSUME NEW c \in Callers, Wakeup(c) PROVE WakeupInFlight'
    BY <2>2 DEF Wakeup, WakeupInFlight
  <2>3. CASE Waiter
    BY <2>3 DEF Waiter, Take, Delay, Start, RunDone, SelectWakeup, SelectClose,
       ShutdownFunc, WakeupInFlight
  <2>4. CASE Shutdown \/ Tick \/ UNCHANGED vars
    BY <2>4 DEF Shutdown, Tick, vars, WakeupInFlight
  <2>5. QED
    BY <2>1, <2>2, <2>3, <2>4 DEF Next
<1>3. QED
  BY <1>1, <1>2, TypeCorrect, PTL DEF Spec

\* The waiter is past its sleep only when the interval is over, and time does
\* not run backwards before the run starts.
RestedInv == TypeOK /\ (waiter = "start" => since = MinInterval)

\* Two runs of TriggerFunc start at least MinInterval apart.
THEOREM MinIntervalKept == Spec => RunsApart
<1>1. Init => RestedInv
  BY TypeInit DEF Init, RestedInv
<1>2. RestedInv /\ [Next]_vars => RestedInv'
  <2> SUFFICES ASSUME RestedInv, [Next]_vars PROVE RestedInv'
    OBVIOUS
  <2>1. TypeOK'
    BY TypeStep DEF RestedInv
  <2>2. waiter' = "start" => since' = MinInterval
    BY IntervalAssumption DEF RestedInv, TypeOK, Next, vars, SetTrigger, Wakeup,
       Shutdown, Waiter, Take, Delay, needsDelay, Start, RunDone, SelectWakeup,
       SelectClose, ShutdownFunc, Tick
  <2>3. QED
    BY <2>1, <2>2 DEF RestedInv
<1>3. RestedInv /\ [Next]_vars
        => [waiter # "run" /\ waiter' = "run" => since = MinInterval]_vars
  BY DEF RestedInv, Next, vars, SetTrigger, Wakeup, Shutdown, Waiter, Take, Delay,
     Start, RunDone, SelectWakeup, SelectClose, ShutdownFunc, Tick
<1>4. QED
  BY <1>1, <1>2, <1>3, PTL DEF Spec, RunsApart
=============================================================================
