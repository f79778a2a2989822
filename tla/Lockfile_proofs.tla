--------------------------- MODULE Lockfile_proofs ---------------------------
(***************************************************************************)
(* Proofs about Lockfile, for every set of Lockfiles on a path and every   *)
(* bound on the cancelled calls.                                           *)
(***************************************************************************)
EXTENDS Lockfile, TLAPS

Clients == [pc : {"idle", "wait", "got"}, mode : Locks, ctx : BOOLEAN]

\* The types, with numbers for the cancelled calls.
ShapeInv ==
    /\ open \in [Files -> BOOLEAN]
    /\ held \in [Files -> Locks]
    /\ client \in [Files -> Clients]
    /\ believes \in [Files -> Locks]
    /\ late \in [Files -> [Modes -> Nat]]
    /\ dropping \in [Files -> Nat]
    /\ overlaps \in [Files -> BOOLEAN]

\* A call that has begun asks for a lock, and counts as one that may yet be
\* cancelled.
RoomInv ==
    \A f \in Files :
        /\ client[f].pc # "idle" => client[f].mode \in Modes
        /\ Waiting(f) + dropping[f] + (IF client[f].pc = "idle" THEN 0 ELSE 1) <= MaxLate

\* The kernel keeps an exclusive lock from everybody else.
KernelInv ==
    \A f, g \in Files : f # g /\ held[f] = "exclusive" => held[g] = "none"

\* The call or the lock of a user that asked when no cancelled call was under
\* way is the only one that its Lockfile has to do with.
Alone(f) == open[f] /\ Waiting(f) = 0 /\ dropping[f] = 0

CareInv ==
    \A f \in Files : ~overlaps[f] =>
        /\ client[f].pc # "idle" => Alone(f) /\ believes[f] = "none"
        /\ client[f].pc = "got" => held[f] = client[f].mode
        /\ believes[f] # "none" => Alone(f) /\ held[f] = believes[f]

LockInv == ShapeInv /\ RoomInv /\ KernelInv /\ CareInv

-------------------------------------------------------------------------------
\* Requests under way are numbers.
LEMMA LateType ==
    ASSUME ShapeInv, NEW f \in Files
    PROVE  /\ late[f]["shared"] \in Nat /\ late[f]["exclusive"] \in Nat
           /\ Waiting(f) \in Nat /\ dropping[f] \in Nat
           /\ \A m \in Modes : late[f][m] \in Nat /\ late[f][m] <= Waiting(f)
BY DEF ShapeInv, Waiting, Modes

\* One more and one less of them.
LEMMA LateMore ==
    ASSUME ShapeInv, NEW f \in Files, NEW m \in Modes,
           late' = [late EXCEPT ![f][m] = @ + 1]
    PROVE  /\ late' \in [Files -> [Modes -> Nat]]
           /\ Waiting(f)' = Waiting(f) + 1
           /\ \A g \in Files : g # f => Waiting(g)' = Waiting(g)
BY LateType DEF ShapeInv, Waiting, Modes

LEMMA LateLess ==
    ASSUME ShapeInv, NEW f \in Files, NEW m \in Modes, late[f][m] > 0,
           late' = [late EXCEPT ![f][m] = @ - 1]
    PROVE  /\ late' \in [Files -> [Modes -> Nat]]
           /\ Waiting(f)' = Waiting(f) - 1
           /\ \A g \in Files : g # f => Waiting(g)' = Waiting(g)
BY LateType DEF ShapeInv, Waiting, Modes

LEMMA LateSame ==
    ASSUME late' = late
    PROVE  \A g \in Files : Waiting(g)' = Waiting(g)
BY DEF Waiting

\* The kernel notes a lock that it can grant, or none.
LEMMA KernelStep ==
    ASSUME ShapeInv, KernelInv, NEW f \in Files, NEW m \in Locks,
           m = "none" \/ (m \in Modes /\ CanGrant(f, m)),
           held' = [held EXCEPT ![f] = m]
    PROVE  KernelInv' /\ held' \in [Files -> Locks]
BY DEF ShapeInv, KernelInv, CanGrant, Modes, Locks

LEMMA IdleType == Idle \in Clients /\ Idle.pc = "idle"
BY DEF Idle, Clients, Locks

-------------------------------------------------------------------------------
(* The actions: a request, the end of a request, the end of a cancelled    *)
(* one, and the end of a lock.                                             *)

\* Who asks when no cancelled call is under way is alone.
LEMMA AskedAlone ==
    ASSUME ShapeInv, NEW f \in Files, open[f],
           overlaps' = [overlaps EXCEPT ![f] = Outstanding(f) > 0]
    PROVE  /\ overlaps' \in [Files -> BOOLEAN]
           /\ ~overlaps'[f] => Alone(f)
           /\ \A g \in Files : g # f => overlaps'[g] = overlaps[g]
<1>1. Waiting(f) \in Nat /\ dropping[f] \in Nat
  BY LateType
<1>2. overlaps'[f] = (Waiting(f) + dropping[f] > 0)
  BY DEF ShapeInv, Outstanding
<1>3. ~(Waiting(f) + dropping[f] > 0) => Alone(f)
  BY <1>1 DEF Alone
<1>4. QED
  BY <1>2, <1>3 DEF ShapeInv

LEMMA AskStep ==
    ASSUME LockInv, NEW f \in Files, NEW m \in Modes, NEW ctx \in BOOLEAN,
           TryLock(f, m) \/ LockCall(f, m, ctx)
    PROVE  LockInv'
<1> USE LateSame DEF LockInv
<1>1. CASE TryLock(f, m)
  <2>1. /\ late' = late /\ client' = client /\ open' = open /\ dropping' = dropping
        /\ held' = [held EXCEPT ![f] = m] /\ believes' = [believes EXCEPT ![f] = m]
        /\ open[f] /\ client[f].pc = "idle" /\ CanGrant(f, m)
        /\ overlaps' = [overlaps EXCEPT ![f] = Outstanding(f) > 0]
    BY <1>1 DEF TryLock, Ask
  <2>0. /\ overlaps' \in [Files -> BOOLEAN]
        /\ ~overlaps'[f] => Alone(f)
        /\ \A g \in Files : g # f => overlaps'[g] = overlaps[g]
    BY <2>1, AskedAlone
  <2>2. KernelInv' /\ held' \in [Files -> Locks]
    BY <2>1, KernelStep DEF Locks
  <2>3. ShapeInv'
    BY <2>0, <2>1, <2>2 DEF ShapeInv, Locks
  <2>4. RoomInv'
    BY <2>1 DEF RoomInv
  <2>5. CareInv'
    BY <2>0, <2>1 DEF CareInv, Alone, ShapeInv
  <2>6. QED
    BY <2>2, <2>3, <2>4, <2>5
<1>2. CASE LockCall(f, m, ctx)
  <2> DEFINE c == [pc |-> "wait", mode |-> m, ctx |-> ctx]
  <2>1. /\ late' = late /\ held' = held /\ open' = open /\ dropping' = dropping
        /\ believes' = believes /\ client' = [client EXCEPT ![f] = c]
        /\ Waiting(f) + dropping[f] < MaxLate
        /\ open[f] /\ believes[f] = "none"
        /\ overlaps' = [overlaps EXCEPT ![f] = Outstanding(f) > 0]
    BY <1>2 DEF LockCall, Ask, Outstanding
  <2>0. /\ overlaps' \in [Files -> BOOLEAN]
        /\ ~overlaps'[f] => Alone(f)
        /\ \A g \in Files : g # f => overlaps'[g] = overlaps[g]
    BY <2>1, AskedAlone
  <2>2. c \in Clients /\ c.pc = "wait" /\ c.mode = m
    BY DEF Clients, Locks
  <2> HIDE DEF c
  <2>3. ShapeInv'
    BY <2>0, <2>1, <2>2 DEF ShapeInv
  <2>4. RoomInv'
    BY <2>1, <2>2, LateType, MaxLateAssumption DEF RoomInv, ShapeInv
  <2>5. KernelInv'
    BY <2>1 DEF KernelInv
  <2>6. CareInv'
    BY <2>0, <2>1, <2>2 DEF CareInv, Alone, ShapeInv
  <2>7. QED
    BY <2>3, <2>4, <2>5, <2>6
<1>3. QED
  BY <1>1, <1>2

LEMMA AnswerStep ==
    ASSUME LockInv, NEW f \in Files, LockGranted(f) \/ LockReturn(f)
    PROVE  LockInv'
<1> USE LateSame DEF LockInv
<1> DEFINE m == client[f].mode
<1>0. client[f] \in Clients
  BY DEF ShapeInv
<1>1. CASE LockGranted(f)
  <2> DEFINE c == [client[f] EXCEPT !.pc = "got"]
  <2>1. /\ late' = late /\ open' = open /\ dropping' = dropping /\ overlaps' = overlaps
        /\ believes' = believes /\ client' = [client EXCEPT ![f] = c]
        /\ held' = [held EXCEPT ![f] = m]
        /\ client[f].pc = "wait" /\ CanGrant(f, m)
    BY <1>1 DEF LockGranted
  <2>2. c \in Clients /\ c.pc = "got" /\ c.mode = m
    BY <1>0 DEF Clients
  <2>3. m \in Modes
    BY <2>1 DEF RoomInv
  <2> HIDE DEF c, m
  <2>4. KernelInv' /\ held' \in [Files -> Locks]
    BY <2>1, <2>3, KernelStep DEF Locks
  <2>5. ShapeInv'
    BY <2>1, <2>2, <2>4 DEF ShapeInv
  <2>6. RoomInv'
    BY <2>1, <2>2, <2>3 DEF RoomInv, ShapeInv
  <2>7. CareInv'
    BY <2>1, <2>2 DEF CareInv, Alone, ShapeInv
  <2>8. QED
    BY <2>4, <2>5, <2>6, <2>7
<1>2. CASE LockReturn(f)
  <2>1. /\ late' = late /\ open' = open /\ dropping' = dropping /\ held' = held
        /\ overlaps' = overlaps
        /\ believes' = [believes EXCEPT ![f] = m]
        /\ client' = [client EXCEPT ![f] = Idle] /\ client[f].pc = "got"
    BY <1>2 DEF LockReturn
  <2>2. m \in Modes
    BY <2>1 DEF RoomInv
  <2>3. ShapeInv'
    BY <2>1, <2>2, IdleType DEF ShapeInv, Locks
  <2>4. RoomInv'
    BY <2>1, IdleType, LateType, MaxLateAssumption DEF RoomInv, ShapeInv
  <2>5. KernelInv'
    BY <2>1 DEF KernelInv
  <2>6. CareInv'
    BY <2>1, IdleType DEF CareInv, Alone, ShapeInv
  <2>7. QED
    BY <2>3, <2>4, <2>5, <2>6
<1>3. QED
  BY <1>1, <1>2

LEMMA CancelStep ==
    ASSUME LockInv, NEW f \in Files, Cancel(f)
    PROVE  LockInv'
<1> USE DEF LockInv
<1> DEFINE m == client[f].mode
<1>1. /\ open' = open /\ believes' = believes /\ held' = held /\ overlaps' = overlaps
      /\ client' = [client EXCEPT ![f] = Idle] /\ client[f].pc # "idle"
  BY DEF Cancel
<1>2. m \in Modes
  BY <1>1 DEF RoomInv
<1>3. /\ late' \in [Files -> [Modes -> Nat]] /\ dropping' \in [Files -> Nat]
      /\ Waiting(f)' + dropping'[f] = Waiting(f) + dropping[f] + 1
      /\ \A g \in Files : g # f => Waiting(g)' = Waiting(g) /\ dropping'[g] = dropping[g]
  <2>1. CASE /\ late' = [late EXCEPT ![f][m] = @ + 1]
             /\ dropping' = dropping
    <3>1. /\ late' \in [Files -> [Modes -> Nat]]
          /\ Waiting(f)' = Waiting(f) + 1
          /\ \A g \in Files : g # f => Waiting(g)' = Waiting(g)
      BY <1>2, <2>1, LateMore
    <3>2. /\ dropping' \in [Files -> Nat] /\ dropping' = dropping
          /\ Waiting(f) \in Nat /\ dropping[f] \in Nat
      BY <2>1, LateType DEF ShapeInv
    <3>3. QED
      BY <3>1, <3>2
  <2>2. CASE /\ late' = late
             /\ dropping' = [dropping EXCEPT ![f] = @ + 1]
    <3>1. /\ late' \in [Files -> [Modes -> Nat]] /\ dropping \in [Files -> Nat]
          /\ \A g \in Files : Waiting(g)' = Waiting(g)
      BY <2>2, LateSame DEF ShapeInv
    <3>2. Waiting(f) \in Nat /\ dropping[f] \in Nat
      BY LateType
    <3>3. /\ dropping' \in [Files -> Nat] /\ dropping'[f] = dropping[f] + 1
          /\ \A g \in Files : g # f => dropping'[g] = dropping[g]
      BY <2>2, <3>1
    <3>4. \A i, j \in Nat : i + (j + 1) = i + j + 1
      OBVIOUS
    <3>5. QED
      BY <3>1, <3>2, <3>3, <3>4, Zenon
  <2>3. QED
    BY <2>1, <2>2 DEF Cancel
<1>4. ShapeInv'
  BY <1>1, <1>3, IdleType DEF ShapeInv
<1>5. RoomInv'
  BY <1>1, <1>3, IdleType, LateType, MaxLateAssumption DEF RoomInv, ShapeInv
<1>6. KernelInv'
  BY <1>1 DEF KernelInv
<1>7. CareInv'
  BY <1>1, <1>3, IdleType DEF CareInv, Alone, ShapeInv
<1>8. QED
  BY <1>4, <1>5, <1>6, <1>7

\* A cancelled call is over, or drops the lock it got: a user that asked after
\* it was over has neither a lock then, nor a call.
LEMMA LateStep ==
    ASSUME LockInv, NEW f \in Files, NEW m \in Modes, LateGranted(f, m) \/ LateDrop(f)
    PROVE  LockInv'
<1> USE DEF LockInv
<1>1. open' = open /\ believes' = believes /\ client' = client /\ overlaps' = overlaps
  BY DEF LateGranted, LateDrop
<1>2. ~Alone(f)
  BY LateType DEF LateGranted, LateDrop, Alone
<1>3. /\ late' \in [Files -> [Modes -> Nat]] /\ dropping' \in [Files -> Nat]
      /\ Waiting(f)' + dropping'[f] <= Waiting(f) + dropping[f]
      /\ \A g \in Files : g # f => Waiting(g)' = Waiting(g) /\ dropping'[g] = dropping[g]
  <2>1. CASE LateGranted(f, m)
    <3>1. /\ late' \in [Files -> [Modes -> Nat]]
          /\ Waiting(f)' = Waiting(f) - 1
          /\ \A g \in Files : g # f => Waiting(g)' = Waiting(g)
      BY <2>1, LateLess DEF LateGranted
    <3>2. /\ dropping' \in [Files -> Nat]
          /\ dropping'[f] <= dropping[f] + 1
          /\ \A g \in Files : g # f => dropping'[g] = dropping[g]
      BY <2>1 DEF LateGranted, ShapeInv
    <3>3. QED
      BY <3>1, <3>2, LateType
  <2>2. CASE LateDrop(f)
    BY <2>2, LateSame, LateType DEF LateDrop, ShapeInv
  <2>3. QED
    BY <2>1, <2>2
<1>4. /\ KernelInv' /\ held' \in [Files -> Locks]
      /\ \A g \in Files : g # f => held'[g] = held[g]
  <2>1. PICK n \in Locks : /\ n = "none" \/ (n \in Modes /\ CanGrant(f, n))
                           /\ held' = [held EXCEPT ![f] = n]
    BY DEF LateGranted, LateDrop, Locks
  <2>2. QED
    BY <2>1, KernelStep DEF ShapeInv
<1>5. ShapeInv'
  BY <1>1, <1>3, <1>4 DEF ShapeInv
<1>6. RoomInv'
  <2>1. \A g \in Files : Waiting(g)' + dropping'[g] <= Waiting(g) + dropping[g]
    BY <1>3, LateType
  <2>2. \A g \in Files : /\ Waiting(g)' \in Nat /\ dropping'[g] \in Nat
                         /\ Waiting(g) \in Nat /\ dropping[g] \in Nat
    BY <1>3, LateType DEF Waiting, Modes
  <2>3. QED
    BY <1>1, <2>1, <2>2, MaxLateAssumption DEF RoomInv
<1>7. CareInv'
  BY <1>1, <1>2, <1>3, <1>4 DEF CareInv, Alone
<1>8. QED
  BY <1>4, <1>5, <1>6, <1>7

LEMMA LeaveStep ==
    ASSUME LockInv, NEW f \in Files, Unlock(f) \/ Close(f)
    PROVE  LockInv'
<1> USE LateSame DEF LockInv
<1>1. /\ late' = late /\ client' = client /\ client[f].pc = "idle" /\ overlaps' = overlaps
      /\ believes' = [believes EXCEPT ![f] = "none"]
  BY DEF Unlock, Close
<1>2. /\ open' \in [Files -> BOOLEAN] /\ dropping' \in [Files -> Nat]
      /\ dropping'[f] <= dropping[f]
      /\ \A g \in Files : g # f => dropping'[g] = dropping[g] /\ open'[g] = open[g]
  <2>1. dropping[f] \in Nat
    BY DEF ShapeInv
  <2>2. CASE Unlock(f)
    BY <2>1, <2>2 DEF Unlock, ShapeInv
  <2>3. CASE Close(f)
    BY <2>1, <2>3 DEF Close, ShapeInv
  <2>4. QED
    BY <2>2, <2>3
<1>3. /\ KernelInv' /\ held' \in [Files -> Locks]
      /\ \A g \in Files : g # f => held'[g] = held[g]
  <2>1. held' = [held EXCEPT ![f] = "none"] \/ held' = held
    BY DEF Unlock, Close
  <2>2. CASE held' = [held EXCEPT ![f] = "none"]
    BY <2>2, KernelStep DEF ShapeInv, Locks
  <2>3. CASE held' = held
    BY <2>3 DEF KernelInv, ShapeInv
  <2>4. QED
    BY <2>1, <2>2, <2>3
<1>4. ShapeInv'
  BY <1>1, <1>2, <1>3 DEF ShapeInv, Locks
<1>5. RoomInv'
  <2>1. \A g \in Files : /\ dropping'[g] <= dropping[g] /\ Waiting(g)' = Waiting(g)
                         /\ Waiting(g) \in Nat /\ dropping[g] \in Nat /\ dropping'[g] \in Nat
    BY <1>1, <1>2, LateType
  <2>2. QED
    BY <1>1, <2>1, MaxLateAssumption DEF RoomInv
<1>6. CareInv'
  <2>1. believes'[f] = "none" /\ \A g \in Files : g # f => believes'[g] = believes[g]
    BY <1>1 DEF ShapeInv
  <2>2. \A g \in Files : g # f /\ Alone(g) => Alone(g)'
    BY <1>1, <1>2 DEF Alone
  <2>3. QED
    BY <1>1, <1>3, <2>1, <2>2 DEF CareInv
<1>7. QED
  BY <1>3, <1>4, <1>5, <1>6

LEMMA LockInit == Init => LockInv
<1> SUFFICES ASSUME Init PROVE LockInv
  OBVIOUS
<1> USE DEF Init
<1>1. ShapeInv
  BY IdleType DEF ShapeInv, Locks
<1>2. \A f \in Files : Waiting(f) = 0 /\ dropping[f] = 0 /\ client[f].pc = "idle"
  BY IdleType DEF Waiting, Modes
<1>3. RoomInv /\ KernelInv /\ CareInv
  BY <1>2, MaxLateAssumption DEF RoomInv, KernelInv, CareInv
<1>4. QED
  BY <1>1, <1>3 DEF LockInv

LEMMA LockStep == LockInv /\ [Next]_vars => LockInv'
<1> SUFFICES ASSUME LockInv, [Next]_vars PROVE LockInv'
  OBVIOUS
<1>1. ASSUME NEW f \in Files, NEW m \in Modes, NEW ctx \in BOOLEAN,
             TryLock(f, m) \/ LockCall(f, m, ctx)
      PROVE  LockInv'
  BY <1>1, AskStep
<1>2. ASSUME NEW f \in Files, LockGranted(f) \/ LockReturn(f) PROVE LockInv'
  BY <1>2, AnswerStep
<1>3. ASSUME NEW f \in Files, Cancel(f) PROVE LockInv'
  BY <1>3, CancelStep
<1>4. ASSUME NEW f \in Files, NEW m \in Modes, LateGranted(f, m) \/ LateDrop(f)
      PROVE  LockInv'
  BY <1>4, LateStep
<1>5. ASSUME NEW f \in Files, Unlock(f) \/ Close(f) PROVE LockInv'
  BY <1>5, LeaveStep
<1>6. CASE UNCHANGED vars
  <2>1. \A f \in Files : Waiting(f)' = Waiting(f)
    BY <1>6 DEF vars, Waiting
  <2>2. QED
    BY <1>6, <2>1 DEF vars, LockInv, ShapeInv, RoomInv, KernelInv, CareInv, Alone
<1>7. "shared" \in Modes /\ TRUE \in BOOLEAN
  BY DEF Modes
<1>8. QED
  BY <1>1, <1>2, <1>3, <1>4, <1>5, <1>6, <1>7 DEF Next, Kernel, Done

\* The inductive invariant of the lock files.
THEOREM LockCorrect == Spec => []LockInv
BY LockInit, LockStep, PTL DEF Spec

LEMMA BoundsHold == LockInv => TypeOK
<1> SUFFICES ASSUME LockInv PROVE TypeOK
  OBVIOUS
<1>1. \A f \in Files : Waiting(f) + dropping[f] <= MaxLate
  BY LateType, MaxLateAssumption DEF LockInv, RoomInv
<1>2. \A f \in Files : /\ dropping[f] \in 0 .. MaxLate
                       /\ \A m \in Modes : late[f][m] \in 0 .. MaxLate
  BY <1>1, LateType, MaxLateAssumption DEF LockInv
<1>3. late \in [Files -> [Modes -> 0 .. MaxLate]]
  BY <1>2 DEF LockInv, ShapeInv
<1>4. QED
  BY <1>2, <1>3 DEF LockInv, ShapeInv, TypeOK, Clients

-------------------------------------------------------------------------------
\* Who was told to have a lock has it, and an exclusive one excludes everybody
\* else, unless a cancelled call of the same Lockfile was under way when it was
\* asked for: no call of another Lockfile, cancelled or not, and no goroutine
\* that drops a lock (lockfile_linux.go:109-114) takes it away.
THEOREM OnlyOwnCallsInterfere == Spec => []LostToOwnPastOnly
<1>1. LockInv => LostToOwnPastOnly
  <2> SUFFICES ASSUME LockInv, NEW f \in Files, believes[f] # "none", ~overlaps[f]
               PROVE  /\ TypeOK
                      /\ held[f] = believes[f]
                      /\ believes[f] = "exclusive" => \A g \in Files \ {f} : held[g] = "none"
    BY BoundsHold DEF LostToOwnPastOnly
  <2>1. TypeOK /\ held[f] = believes[f]
    BY BoundsHold DEF LockInv, CareInv
  <2>2. QED
    BY <2>1 DEF LockInv, KernelInv
<1>2. QED
  BY <1>1, LockCorrect, PTL
===============================================================================
