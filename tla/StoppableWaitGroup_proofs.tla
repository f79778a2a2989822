---------------------- MODULE StoppableWaitGroup_proofs ----------------------
(***************************************************************************)
(* Proofs about StoppableWaitGroup, for every finite set of goroutines.    *)
(***************************************************************************)
EXTENDS StoppableWaitGroup, FiniteSetTheorems, TLAPS

Gone == {"recheck", "close", "end"}

\* Past Add, and past the decrement of Done or past a Done that found the
\* gate open.
Entered == {p \in All : pc[p] \notin {"add", "inc"}}
Left    == {p \in Procs : pc[p] \in Gone}

\* The steps between the increment and the decrement of one process.
Between == {"work", "stop", "done", "check", "decStopped", "decRunning"}

\* The types of the variables but for the ranges of the numbers.
ShapeInv ==
    /\ noopAdd \in BOOLEAN /\ noopDone \in BOOLEAN /\ addsFirst \in BOOLEAN
    /\ i \in Int
    /\ pc \in [All -> Steps]
    /\ a \in [All -> -Cardinality(Procs) .. Cardinality(All)]
    /\ counted \in SUBSET All

\* Each process adds at most one, and takes at most one away; the stopper
\* adds before it takes.
RangeInv ==
    /\ i <= Cardinality(Entered)
    /\ i >= (IF pc[Stopper] \in Between THEN 1 ELSE 0) - Cardinality(Left)

\* Only the stopper closes noopAdd, and who takes the group for stopped has
\* seen it closed.
StopInv ==
    /\ noopDone => noopAdd
    /\ \A p \in All : pc[p] \in {"decStopped", "close"} => noopAdd
    /\ pc[Stopper] \in {"add", "inc", "work", "stop"} => ~noopAdd

\* If all Adds come first: no Done and no Stop starts before.
PhaseInv ==
    addsFirst => \/ Added = Procs
                 \/ pc[Stopper] = "add" /\ \A p \in Procs : pc[p] \in {"add", "inc", "work"}

\* If all Adds come first: who is counted, what the counter says, and what a
\* copy that is not positive says.
ExactInv ==
    addsFirst =>
        /\ counted = {p \in All : pc[p] \in Between}
        /\ ~noopDone => i = Cardinality(counted)
        /\ noopDone => counted \intersect Procs = {}
        /\ \A p \in All : pc[p] \in {"recheck", "close"} /\ a[p] <= 0
                            => counted \intersect Procs = {}

GroupInv == ShapeInv /\ RangeInv /\ StopInv /\ PhaseInv /\ ExactInv

-------------------------------------------------------------------------------
(* Counting processes.                                                     *)

LEMMA Finite ==
    /\ IsFiniteSet(All) /\ Cardinality(All) = Cardinality(Procs) + 1
    /\ Cardinality(Procs) \in Nat
<1>1. Cardinality(Procs) \in Nat
  BY ProcsAssumption, FS_CardinalityType
<1>2. QED
  BY <1>1, ProcsAssumption, StopperAssumption, FS_AddElement DEF All

\* The two counts are numbers, in this state and in the next.
LEMMA Counts ==
    /\ IsFiniteSet(Entered) /\ Cardinality(Entered) \in 0 .. Cardinality(All)
    /\ IsFiniteSet(Left) /\ Cardinality(Left) \in 0 .. Cardinality(Procs)
    /\ Cardinality(Entered') \in 0 .. Cardinality(All)
    /\ Cardinality(Left') \in 0 .. Cardinality(Procs)
<1>1. ASSUME NEW T, IsFiniteSet(T), NEW S \in SUBSET T
      PROVE  IsFiniteSet(S) /\ Cardinality(S) \in 0 .. Cardinality(T)
  BY <1>1, FS_Subset, FS_CardinalityType
<1>2. Entered \in SUBSET All /\ Left \in SUBSET Procs
  BY DEF Entered, Left
<1>3. Entered' \in SUBSET All /\ Left' \in SUBSET Procs
  BY DEF Entered, Left
<1>4. QED
  BY <1>1, <1>2, <1>3, Finite, ProcsAssumption

\* What a move of one process does to the two counts.
LEMMA Moved ==
    ASSUME pc \in [All -> Steps], NEW p \in All, NEW q \in Steps,
           pc' = [pc EXCEPT ![p] = q], q \notin {"add", "inc"}
    PROVE  /\ pc' \in [All -> Steps] /\ pc'[p] = q
           /\ \A r \in All : r # p => pc'[r] = pc[r]
           /\ Cardinality(Entered') =
                Cardinality(Entered) + (IF pc[p] \in {"add", "inc"} THEN 1 ELSE 0)
           /\ pc[p] \notin Gone =>
                Cardinality(Left') =
                  Cardinality(Left) + (IF p \in Procs /\ q \in Gone THEN 1 ELSE 0)
           /\ pc[p] \in Gone /\ q \in Gone => Left' = Left
<1>1. pc' \in [All -> Steps] /\ pc'[p] = q /\ \A r \in All : r # p => pc'[r] = pc[r]
  OBVIOUS
<1>2. Cardinality(Entered') =
        Cardinality(Entered) + (IF pc[p] \in {"add", "inc"} THEN 1 ELSE 0)
  <2>1. CASE pc[p] \in {"add", "inc"}
    <3>1. Entered' = Entered \union {p} /\ p \notin Entered
      BY <1>1, <2>1 DEF Entered
    <3>2. QED
      BY <2>1, <3>1, Counts, FS_AddElement
  <2>2. CASE pc[p] \notin {"add", "inc"}
    <3>1. Entered' = Entered
      BY <1>1, <2>2 DEF Entered
    <3>2. QED
      BY <2>2, <3>1, Counts
  <2>3. QED
    BY <2>1, <2>2
<1>3. ASSUME pc[p] \notin Gone
      PROVE  Cardinality(Left') =
               Cardinality(Left) + (IF p \in Procs /\ q \in Gone THEN 1 ELSE 0)
  <2>0. \A r \in Procs : r \in All
    BY DEF All
  <2>1. CASE p \in Procs /\ q \in Gone
    <3>1. Left' = Left \union {p} /\ p \notin Left
      BY <1>1, <1>3, <2>0, <2>1 DEF Left
    <3>2. QED
      BY <2>1, <3>1, Counts, FS_AddElement
  <2>2. CASE ~(p \in Procs /\ q \in Gone)
    <3>1. Left' = Left
      BY <1>1, <1>3, <2>0, <2>2 DEF Left
    <3>2. QED
      BY <2>2, <3>1, Counts
  <2>3. QED
    BY <2>1, <2>2
<1>4. pc[p] \in Gone /\ q \in Gone => Left' = Left
  BY <1>1 DEF Left, All
<1>5. QED
  BY <1>1, <1>2, <1>3, <1>4

-------------------------------------------------------------------------------
(* Types and ranges.                                                       *)

LEMMA StopperIn == Stopper \in All /\ \A p \in Procs : p \in All /\ p # Stopper
BY StopperAssumption DEF All

\* A move that leaves the counter alone leaves it in its range, unless the
\* stopper passes over its increment.
LEMMA RangeKept ==
    ASSUME ShapeInv, RangeInv, NEW p \in All, NEW q \in Steps,
           pc' = [pc EXCEPT ![p] = q], i' = i,
           q \notin {"add", "inc"}, pc[p] \in Gone => q \in Gone,
           p = Stopper /\ q \in Between => pc[p] \in Between
    PROVE  RangeInv'
<1>1. pc \in [All -> Steps] /\ i \in Int
  BY DEF ShapeInv
<1>2. /\ Cardinality(Entered') =
            Cardinality(Entered) + (IF pc[p] \in {"add", "inc"} THEN 1 ELSE 0)
      /\ pc[p] \notin Gone =>
            Cardinality(Left') =
              Cardinality(Left) + (IF p \in Procs /\ q \in Gone THEN 1 ELSE 0)
      /\ pc[p] \in Gone => Left' = Left
  BY <1>1, Moved
<1>3. /\ Cardinality(Entered') >= Cardinality(Entered)
      /\ Cardinality(Left') >= Cardinality(Left)
  BY <1>2, Counts
<1>4. pc'[Stopper] \in Between => pc[Stopper] \in Between
  BY <1>1, StopperIn
<1>5. QED
  BY <1>1, <1>3, <1>4, Counts DEF RangeInv

LEMMA RangeStep ==
    ASSUME ShapeInv, RangeInv, StopInv, NEW p \in All, Step(p)
    PROVE  RangeInv' /\ ShapeInv'
<1> USE DEF ShapeInv
<1>1. CASE AddSelect(p)
  <2> DEFINE q == IF ~noopAdd THEN "inc" ELSE IF p = Stopper THEN "stop" ELSE "work"
  <2>1. /\ pc[p] = "add" /\ pc' = [pc EXCEPT ![p] = q] /\ i' = i
        /\ q \in {"inc", "work"} /\ q \in Steps /\ (p = Stopper => q = "inc")
    BY <1>1 DEF AddSelect, Goto, StopInv, Steps
  <2>2. ShapeInv'
    BY <1>1, <2>1 DEF AddSelect
  <2>3. CASE q = "work"
    <3> HIDE DEF q
    <3> QED
      BY <2>1, <2>2, <2>3, RangeKept DEF Gone, Between
  <2>4. CASE q = "inc"
    <3>1. Entered' = Entered /\ Left' = Left
      BY <2>1, <2>4, StopperIn DEF Entered, Left, Gone
    <3>2. pc'[Stopper] \in Between => pc[Stopper] \in Between
      BY <2>1, <2>4, StopperIn DEF Between
    <3>3. QED
      BY <2>1, <2>2, <3>1, <3>2, Counts DEF RangeInv
  <2>5. QED
    BY <2>1, <2>3, <2>4
<1>2. CASE AddIncrement(p)
  <2> DEFINE q == IF p = Stopper THEN "stop" ELSE "work"
  <2>1. /\ pc[p] = "inc" /\ pc' = [pc EXCEPT ![p] = q] /\ i' = i + 1
        /\ q \in Between /\ q \in Steps /\ q \notin Gone
        /\ q \notin {"add", "inc"} /\ pc[p] \notin Gone
    BY <1>2 DEF AddIncrement, Goto, Steps, Between, Gone
  <2>2. ShapeInv'
    BY <1>2, <2>1 DEF AddIncrement
  <2> HIDE DEF q
  <2>3. /\ Cardinality(Entered') = Cardinality(Entered) + 1
        /\ Cardinality(Left') = Cardinality(Left)
    <3>1. /\ Cardinality(Entered') =
                Cardinality(Entered) + (IF pc[p] \in {"add", "inc"} THEN 1 ELSE 0)
          /\ Cardinality(Left') =
                Cardinality(Left) + (IF p \in Procs /\ q \in Gone THEN 1 ELSE 0)
      BY <2>1, Moved
    <3>2. QED
      BY <2>1, <3>1, Counts
  <2>4. QED
    BY <2>1, <2>2, <2>3, Counts DEF RangeInv
<1>3. CASE Work(p) \/ DoneSelect(p) \/ DoneCheck(p) \/ DoneRecheck(p) \/ DoneClose(p)
  <2>1. PICK q \in Steps :
          /\ pc' = [pc EXCEPT ![p] = q] /\ i' = i /\ q \notin {"add", "inc"}
          /\ pc[p] \in Gone => q \in Gone
          /\ q \in Between => pc[p] \in Between
    <3>1. CASE Work(p)
      BY <3>1 DEF Work, Goto, Steps, Gone, Between
    <3>2. CASE DoneSelect(p) \/ DoneCheck(p)
      BY <3>2 DEF DoneSelect, DoneCheck, Goto, Steps, Gone, Between
    <3>3. CASE DoneRecheck(p) \/ DoneClose(p)
      BY <3>3 DEF DoneRecheck, DoneClose, Goto, Steps, Gone, Between
    <3>4. QED
      BY <1>3, <3>1, <3>2, <3>3
  <2>2. ShapeInv'
    BY <1>3, <2>1 DEF Work, DoneSelect, DoneCheck, DoneRecheck, DoneClose
  <2>3. QED
    BY <2>1, <2>2, RangeKept
<1>4. CASE DoneDecrement(p)
  <2> DEFINE q == IF pc[p] = "decStopped" THEN "close" ELSE "recheck"
  <2>1. /\ pc' = [pc EXCEPT ![p] = q] /\ i' = i - 1
        /\ a' = [a EXCEPT ![p] = i'] /\ counted' = counted \ {p}
        /\ pc[p] \in Between /\ q \in Steps /\ q \in Gone
        /\ q \notin Between /\ pc[p] \notin {"add", "inc"}
        /\ q \notin {"add", "inc"} /\ pc[p] \notin Gone
    BY <1>4 DEF DoneDecrement, Goto, Steps, Between, Gone
  <2> HIDE DEF q
  <2>2. /\ Cardinality(Entered') = Cardinality(Entered)
        /\ Cardinality(Left') = Cardinality(Left) + (IF p \in Procs THEN 1 ELSE 0)
    <3>1. /\ Cardinality(Entered') =
                Cardinality(Entered) + (IF pc[p] \in {"add", "inc"} THEN 1 ELSE 0)
          /\ Cardinality(Left') =
                Cardinality(Left) + (IF p \in Procs /\ q \in Gone THEN 1 ELSE 0)
      BY <2>1, Moved
    <3>2. QED
      BY <2>1, <3>1, Counts
  <2>3. RangeInv'
    <3>1. CASE p \in Procs
      <4>1. pc'[Stopper] = pc[Stopper]
        BY <2>1, <3>1, StopperIn
      <4>2. QED
        BY <2>1, <2>2, <3>1, <4>1, Counts DEF RangeInv
    <3>2. CASE p \notin Procs
      <4>1. p = Stopper
        BY <3>2 DEF All
      <4>2. pc'[Stopper] \notin Between /\ pc[Stopper] \in Between
        BY <2>1, <4>1
      <4>3. QED
        BY <2>1, <2>2, <3>2, <4>2, Counts DEF RangeInv
    <3>3. QED
      BY <3>1, <3>2
  <2>4. i' \in -Cardinality(Procs) .. Cardinality(All)
    BY <2>1, <2>3, Counts, Finite DEF RangeInv
  <2>5. ShapeInv'
    BY <1>4, <2>1, <2>4 DEF DoneDecrement
  <2>6. QED
    BY <2>3, <2>5
<1>5. QED
  BY <1>1, <1>2, <1>3, <1>4 DEF Step

-------------------------------------------------------------------------------
(* The gates, the phases and the exact count.                              *)

LEMMA StopStep ==
    ASSUME ShapeInv, StopInv, NEW p \in All, Step(p)
    PROVE  StopInv'
<1> USE StopperIn DEF ShapeInv, StopInv
<1>1. CASE AddSelect(p) \/ AddIncrement(p) \/ Work(p)
  BY <1>1 DEF AddSelect, AddIncrement, Work, Goto
<1>2. CASE DoneSelect(p) \/ DoneCheck(p)
  BY <1>2 DEF DoneSelect, DoneCheck, Goto
<1>3. CASE DoneDecrement(p) \/ DoneRecheck(p) \/ DoneClose(p)
  BY <1>3 DEF DoneDecrement, DoneRecheck, DoneClose, Goto
<1>4. QED
  BY <1>1, <1>2, <1>3 DEF Step

\* Every step leaves Add behind for good.
LEMMA AddedStays ==
    ASSUME ShapeInv, NEW p \in All, Step(p) \/ StopClose, Added = Procs
    PROVE  Added' = Procs
<1>1. \A r \in Procs : pc[r] \notin {"add", "inc"}
  BY DEF Added
<1>2. \A r \in Procs : pc'[r] \notin {"add", "inc"}
  BY <1>1, StopperIn DEF ShapeInv, Step, AddSelect, AddIncrement, Work, DoneSelect,
     DoneCheck, DoneDecrement, DoneRecheck, DoneClose, StopClose, Goto
<1>3. QED
  BY <1>2 DEF Added

LEMMA PhaseStep ==
    ASSUME ShapeInv, PhaseInv, NEW p \in All, Step(p)
    PROVE  PhaseInv'
<1> USE StopperIn DEF ShapeInv
<1>0. addsFirst' = addsFirst
  BY DEF Step, AddSelect, AddIncrement, Work, DoneSelect, DoneCheck, DoneDecrement,
     DoneRecheck, DoneClose
<1>1. CASE Added = Procs
  BY <1>1, AddedStays DEF PhaseInv
<1>2. CASE addsFirst /\ Added # Procs
  <2>1. pc[Stopper] = "add" /\ \A r \in Procs : pc[r] \in {"add", "inc", "work"}
    BY <1>2 DEF PhaseInv
  <2>2. p \in Procs /\ (AddSelect(p) \/ AddIncrement(p))
    BY <1>2, <2>1 DEF Step, AddSelect, Work, AddIncrement, DoneSelect, DoneCheck,
       DoneDecrement, DoneRecheck, DoneClose, All
  <2>3. pc'[Stopper] = "add" /\ \A r \in Procs : pc'[r] \in {"add", "inc", "work"}
    BY <2>1, <2>2 DEF AddSelect, AddIncrement, Goto
  <2>4. QED
    BY <2>3 DEF PhaseInv
<1>3. QED
  BY <1>0, <1>1, <1>2 DEF PhaseInv

\* If all Adds come first, the set of the counted has a cardinality that
\* follows the moves of one process.
LEMMA CountedOne ==
    ASSUME counted \in SUBSET All, NEW p \in All
    PROVE  /\ Cardinality(counted) \in Nat
           /\ p \notin counted => Cardinality(counted \union {p}) = Cardinality(counted) + 1
           /\ p \in counted => Cardinality(counted \ {p}) = Cardinality(counted) - 1
           /\ Cardinality(counted \ {p}) \in Nat
           /\ Cardinality(counted \ {p}) = 0 => counted \ {p} = {}
<1>1. IsFiniteSet(counted) /\ IsFiniteSet(counted \ {p})
  BY Finite, FS_Subset
<1>2. QED
  BY <1>1, FS_CardinalityType, FS_AddElement, FS_RemoveElement, FS_EmptySet

LEMMA ExactStep ==
    ASSUME ShapeInv, StopInv, PhaseInv, ExactInv, NEW p \in All, Step(p)
    PROVE  ExactInv'
<1>0. SUFFICES ASSUME addsFirst PROVE ExactInv'
  <2>1. addsFirst' = addsFirst
    BY DEF Step, AddSelect, AddIncrement, Work, DoneSelect, DoneCheck, DoneDecrement,
       DoneRecheck, DoneClose
  <2>2. QED
    BY <2>1 DEF ExactInv
<1> USE StopperIn DEF ShapeInv
<1>a. /\ counted = {r \in All : pc[r] \in Between}
      /\ ~noopDone => i = Cardinality(counted)
      /\ noopDone => counted \intersect Procs = {}
      /\ \A r \in All : pc[r] \in {"recheck", "close"} /\ a[r] <= 0
                           => counted \intersect Procs = {}
  BY <1>0 DEF ExactInv
<1>1. CASE AddSelect(p)
  <2>1. pc[p] = "add" /\ pc' = [pc EXCEPT ![p] = "inc"]
    <3>1. ~noopAdd
      <4>1. CASE p = Stopper
        BY <1>1, <4>1 DEF AddSelect, StopInv
      <4>2. CASE p # Stopper
        <5>1. Added # Procs
          BY <1>1, <4>2 DEF AddSelect, Added, All
        <5>2. QED
          BY <1>0, <5>1 DEF PhaseInv, StopInv
      <4>3. QED
        BY <4>1, <4>2
    <3>2. QED
      BY <1>1, <3>1 DEF AddSelect, Goto
  <2>2. counted' = {r \in All : pc'[r] \in Between}
    BY <1>1, <1>a, <2>1 DEF AddSelect, Between
  <2>3. QED
    BY <1>1, <1>a, <2>1, <2>2 DEF AddSelect, ExactInv
<1>2. CASE AddIncrement(p)
  <2>1. /\ p \notin counted /\ i' = i + 1 /\ counted' = counted \union {p}
        /\ noopDone' = noopDone /\ a' = a
    BY <1>2, <1>a DEF AddIncrement, Between
  <2>2. counted' = {r \in All : pc'[r] \in Between}
    BY <1>2, <1>a, <2>1 DEF AddIncrement, Goto, Between
  <2>3. ~noopDone' => i' = Cardinality(counted')
    BY <1>a, <2>1, CountedOne
  <2>4. p \in Procs => /\ ~noopDone
                       /\ \A r \in All : pc'[r] \notin {"recheck", "close"}
    <3>1. SUFFICES ASSUME p \in Procs
                   PROVE  /\ ~noopDone
                          /\ \A r \in All : pc'[r] \notin {"recheck", "close"}
      OBVIOUS
    <3>2. Added # Procs
      BY <1>2, <3>1 DEF AddIncrement, Added
    <3>3. pc[Stopper] = "add" /\ \A r \in Procs : pc[r] \in {"add", "inc", "work"}
      BY <1>0, <3>2 DEF PhaseInv
    <3>4. QED
      BY <1>2, <3>3 DEF AddIncrement, Goto, StopInv, All
  <2>5. p \notin Procs => /\ counted' \intersect Procs = counted \intersect Procs
                          /\ \A r \in All : pc'[r] \in {"recheck", "close"}
                                              => pc[r] \in {"recheck", "close"}
    BY <1>2, <2>1 DEF AddIncrement, Goto
  <2>6. QED
    BY <1>a, <2>1, <2>2, <2>3, <2>4, <2>5 DEF ExactInv
<1>3. CASE Work(p) \/ DoneCheck(p)
  <2>1. counted' = {r \in All : pc'[r] \in Between}
    BY <1>3, <1>a DEF Work, DoneCheck, Goto, Between
  <2>2. \A r \in All : pc'[r] \in {"recheck", "close"} => pc[r] \in {"recheck", "close"}
    BY <1>3 DEF Work, DoneCheck, Goto
  <2>3. QED
    BY <1>3, <1>a, <2>1, <2>2 DEF Work, DoneCheck, ExactInv
<1>4. CASE DoneSelect(p)
  <2>1. counted' = {r \in All : pc'[r] \in Between}
    BY <1>4, <1>a DEF DoneSelect, Goto, Between
  <2>2. \A r \in All : pc'[r] \in {"recheck", "close"} => pc[r] \in {"recheck", "close"}
    BY <1>4 DEF DoneSelect, Goto
  <2>3. counted' \subseteq counted /\ (~noopDone => counted' = counted)
    BY <1>4 DEF DoneSelect
  <2>4. QED
    BY <1>4, <1>a, <2>1, <2>2, <2>3 DEF DoneSelect, ExactInv
<1>5. CASE DoneDecrement(p)
  <2>1. /\ p \in counted /\ i' = i - 1 /\ counted' = counted \ {p}
        /\ noopDone' = noopDone /\ a' = [a EXCEPT ![p] = i - 1]
    BY <1>5, <1>a DEF DoneDecrement, Between
  <2>2. counted' = {r \in All : pc'[r] \in Between}
    BY <1>5, <1>a, <2>1 DEF DoneDecrement, Goto, Between
  <2>3. ~noopDone' => i' = Cardinality(counted')
    BY <1>a, <2>1, CountedOne
  <2>4. a'[p] <= 0 => counted' \intersect Procs = {}
    <3>1. CASE noopDone
      BY <1>a, <2>1, <3>1
    <3>2. CASE ~noopDone
      <4>1. a'[p] = Cardinality(counted')
        BY <2>1, <2>3, <3>2
      <4>2. QED
        BY <2>1, <4>1, CountedOne
    <3>3. QED
      BY <3>1, <3>2
  <2>5. \A r \in All : r # p => pc'[r] = pc[r] /\ a'[r] = a[r]
    BY <1>5 DEF DoneDecrement, Goto
  <2>6. counted' \subseteq counted
    BY <2>1
  <2>7. QED
    BY <1>a, <2>1, <2>2, <2>3, <2>4, <2>5, <2>6 DEF ExactInv
<1>6. CASE DoneRecheck(p) \/ DoneClose(p)
  <2>1. counted' = counted /\ i' = i /\ a' = a
    BY <1>6 DEF DoneRecheck, DoneClose
  <2>2. counted' = {r \in All : pc'[r] \in Between}
    BY <1>6, <1>a DEF DoneRecheck, DoneClose, Goto, Between
  <2>3. \A r \in All : pc'[r] \in {"recheck", "close"} => pc[r] \in {"recheck", "close"}
    BY <1>6 DEF DoneRecheck, DoneClose, Goto
  <2>4. /\ noopDone => noopDone'
        /\ noopDone' => noopDone \/ (pc[p] \in {"recheck", "close"} /\ a[p] <= 0)
    BY <1>6 DEF DoneRecheck, DoneClose
  <2>5. QED
    BY <1>a, <2>1, <2>2, <2>3, <2>4 DEF ExactInv
<1>7. QED
  BY <1>1, <1>2, <1>3, <1>4, <1>5, <1>6 DEF Step

\* Stop closes noopAdd between its Add and its Done.
LEMMA CloseStep ==
    ASSUME GroupInv, StopClose
    PROVE  GroupInv'
<1> USE StopperIn DEF GroupInv, ShapeInv
<1>1. /\ pc[Stopper] = "stop" /\ pc' = [pc EXCEPT ![Stopper] = "done"]
      /\ noopAdd' /\ noopAdd' \in BOOLEAN
      /\ UNCHANGED <<noopDone, i, a, counted, addsFirst>>
  BY DEF StopClose, Goto
<1>2. ShapeInv'
  BY <1>1 DEF Steps
<1>3. RangeInv'
  <2>1. "done" \in Steps /\ "stop" \in Between /\ "stop" \notin Gone
    BY DEF Steps, Between, Gone
  <2>2. QED
    BY <1>1, <2>1, RangeKept
<1>4. StopInv'
  BY <1>1 DEF StopInv
<1>5. PhaseInv'
  BY <1>1, AddedStays DEF PhaseInv
<1>6. ExactInv'
  <2>1. {r \in All : pc'[r] \in Between} = {r \in All : pc[r] \in Between}
    BY <1>1 DEF Between
  <2>2. \A r \in All : pc'[r] \in {"recheck", "close"} => pc[r] \in {"recheck", "close"}
    BY <1>1
  <2>3. QED
    BY <1>1, <2>1, <2>2 DEF ExactInv
<1>7. QED
  BY <1>2, <1>3, <1>4, <1>5, <1>6

LEMMA GroupInit == Init => GroupInv
<1> SUFFICES ASSUME Init PROVE GroupInv
  OBVIOUS
<1> USE StopperIn, Finite, Counts DEF Init
<1>1. ShapeInv
  <2>1. 0 \in -Cardinality(Procs) .. Cardinality(All) /\ 0 \in Int
    OBVIOUS
  <2>2. pc \in [All -> Steps]
    BY DEF Steps
  <2>3. QED
    BY <2>1, <2>2, Zenon DEF ShapeInv
<1>2. RangeInv
  <2>1. Entered = {} /\ Left = {}
    BY DEF Entered, Left, Gone
  <2>2. QED
    BY <2>1, FS_EmptySet DEF RangeInv, Between
<1>3. StopInv /\ PhaseInv
  BY DEF StopInv, PhaseInv
<1>4. ExactInv
  BY FS_EmptySet DEF ExactInv, Between
<1>5. QED
  BY <1>1, <1>2, <1>3, <1>4 DEF GroupInv

LEMMA GroupStep == GroupInv /\ [Next]_vars => GroupInv'
<1> SUFFICES ASSUME GroupInv, [Next]_vars PROVE GroupInv'
  OBVIOUS
<1>1. ASSUME NEW p \in All, Step(p) PROVE GroupInv'
  BY <1>1, RangeStep, StopStep, PhaseStep, ExactStep DEF GroupInv
<1>2. CASE StopClose
  BY <1>2, CloseStep
<1>3. CASE UNCHANGED vars
  BY <1>3 DEF vars, GroupInv, ShapeInv, RangeInv, StopInv, PhaseInv, ExactInv,
     Entered, Left, Added
<1>4. QED
  BY <1>1, <1>2, <1>3 DEF Next, Finished

\* The inductive invariant of the wait group.
THEOREM GroupCorrect == Spec => []GroupInv
BY GroupInit, GroupStep, PTL DEF Spec

-------------------------------------------------------------------------------
\* Wait does not return while the group runs: a Done opens the gate noopDone
\* only after Stop has closed noopAdd, whatever the goroutines interleave.
THEOREM GateAfterStop == Spec => []ReturnsOnlyStopped
<1>1. GroupInv => ReturnsOnlyStopped
  BY DEF GroupInv, StopInv, ReturnsOnlyStopped
<1>2. QED
  BY <1>1, GroupCorrect, PTL

\* If every Add comes before the first Done and before Stop, Wait returns only
\* when every goroutine that was added has called Done.
THEOREM WaitedForAll == Spec => []WaitsForAll
<1>1. GroupInv => WaitsForAll
  BY DEF GroupInv, ExactInv, WaitsForAll
<1>2. QED
  BY <1>1, GroupCorrect, PTL

\* The counter stays in its range, and if every Add comes first it is the
\* number of goroutines that Wait still waits for, until Wait returns.
THEOREM CounterCounts == Spec => []CounterExact
<1>1. GroupInv => CounterExact
  <2> SUFFICES ASSUME GroupInv PROVE CounterExact
    OBVIOUS
  <2>1. i \in -Cardinality(Procs) .. Cardinality(All)
    BY Counts, Finite DEF GroupInv, ShapeInv, RangeInv
  <2>2. TypeOK
    BY <2>1 DEF GroupInv, ShapeInv, TypeOK
  <2>3. QED
    BY <2>2 DEF GroupInv, ExactInv, CounterExact
<1>2. QED
  BY <1>1, GroupCorrect, PTL
===============================================================================
