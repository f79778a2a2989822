--------------------------- MODULE InfraOps_proofs ---------------------------
(***************************************************************************)
(* Proofs about InfraOps, for any number of workers, nodes, interfaces and *)
(* ports, any finite events and any capacities.                            *)
(***************************************************************************)
EXTENDS InfraOps, FiniteSetTheorems, TLAPS

\* A work and a task have the fields of their records.
WorkOf(pc, job, nodes, todo, pods, wg, lost) ==
    [pc |-> pc, job |-> job, nodes |-> nodes, todo |-> todo, pods |-> pods,
     wg |-> wg, lost |-> lost]
IsWork(k) == k = WorkOf(k.pc, k.job, k.nodes, k.todo, k.pods, k.wg, k.lost)
IsTask(t) ==
    t = [kind |-> t.kind, target |-> t.target, n |-> t.n, pairs |-> t.pairs,
         w |-> t.w, job |-> t.job, i |-> t.i, key |-> t.key, leads |-> t.leads]

AssignsOf(w) == {t \in tasks : t.kind = "assign" /\ t.w = w}

\* The requests that the work k still has to make, with A its assignments
\* that are under way.
TodoOK(k, A) ==
    /\ k.pc \in {"create", "attach", "assign", "unassign"} =>
          \A r \in k.todo : r.kind = k.pc
    /\ k.pc = "create" => \A r \in k.todo : r.n \in Int
    /\ k.pc = "remove" => k.todo \subseteq k.nodes
    /\ k.pc = "assign" =>
          \A r \in k.todo :
              /\ r.target \in MainsOf(k.nodes) /\ r.target \in Mains
              /\ r.pairs \subseteq Ports
              /\ \A q \in k.todo : q.target = r.target => q = r
              /\ \A t \in A : t.target # r.target

WorkTyped(k) ==
    /\ IsWork(k)
    /\ k.pc \in Phases \union {"idle"}
    /\ k.wg \in Nat /\ k.lost \in Nat
    /\ k.nodes \in Events \union {{}}
    /\ \A p \in k.pods : p \in Ports /\ p.owner \in Mains /\ p.owner \in MainsOf(k.nodes)

\* The wait group counts the assignments under way and the lost callbacks.
GoodWork(k, A) == WorkTyped(k) /\ TodoOK(k, A) /\ k.wg = k.lost + Cardinality(A)

\* The task t of the work k.  Who has a creation under way has lost a
\* callback; an assignment belongs to the work that asked for it.
GoodTask(t, k) ==
    /\ t.kind = "create" => k.pc = "create" /\ k.lost > 0
    /\ t.kind = "assign" =>
          /\ k.pc \in {"assign", "remove", "unassign"}
          /\ t.job = k.job
          /\ t.target \in MainsOf(k.nodes) /\ t.target \in Mains
          /\ t.pairs \subseteq Ports

WorkInv ==
    /\ wk = [w \in Workers |-> wk[w]]
    /\ \A w \in Workers : GoodWork(wk[w], AssignsOf(w))

TaskInv ==
    /\ IsFiniteSet(tasks)
    /\ \A c \in BOOLEAN : Cardinality(InPool(c)) <= PoolCap
    /\ \A t \in tasks : IsTask(t) /\ t.w \in Workers /\ GoodTask(t, wk[t.w])

\* A shared call is that of one operation on one target, and a work has one
\* assignment for an interface.
KeyOK(t) ==
    /\ t.key # <<>> => t.key[1] = t.kind /\ t.key[2] = t.target
    /\ t.leads => t.key # <<>>
ShareInv ==
    /\ \A t \in tasks : KeyOK(t)
    /\ \A t, u \in tasks :
          t.kind = "assign" /\ u.kind = "assign" /\ t.w = u.w /\ t.target = u.target
              => t = u

RestInv ==
    /\ up \in BOOLEAN
    /\ snevch \in Seq([job : Nat, nodes : Events]) /\ Len(snevch) <= ChanCap
    /\ sent \in 0 .. MaxSent
    /\ cloud \subseteq Ports
    /\ assigned \in [Mains -> SUBSET Ports]

\* A work that creates has lost a callback once it asked for a port; one that
\* goes on has asked for none.
Asked(k) ==
    /\ k.pc = "create" => k.lost > 0 \/ k.todo = Creates(k.nodes)
    /\ k.pc \in Phases \ {"create"} => Creates(k.nodes) = {}
AskedInv == \A w \in Workers : Asked(wk[w])

OpsInv ==
    WorkInv /\ TaskInv /\ ShareInv /\ RestInv /\ AskedInv

-------------------------------------------------------------------------------
\* No work satisfies what is said of works.
LEMMA NoWorkFacts ==
    /\ NoWork = WorkOf("idle", 0, {}, {}, {}, 0, 0)
    /\ WorkTyped(NoWork) /\ TodoOK(NoWork, {}) /\ NoWork.pc = "idle"
    /\ NoWork.wg = 0 /\ NoWork.lost = 0
BY DEF NoWork, WorkOf, WorkTyped, IsWork, TodoOK

\* The fields of a work.
LEMMA WorkFields ==
    ASSUME NEW pc, NEW job, NEW nodes, NEW todo, NEW pods, NEW wg, NEW lost,
           NEW k, k = WorkOf(pc, job, nodes, todo, pods, wg, lost)
    PROVE  /\ IsWork(k) /\ k.pc = pc /\ k.job = job /\ k.nodes = nodes
           /\ k.todo = todo /\ k.pods = pods /\ k.wg = wg /\ k.lost = lost
BY DEF WorkOf, IsWork

\* A record all of whose fields are given.
LEMMA WorkSingle ==
    ASSUME NEW pc, NEW job, NEW nodes, NEW todo, NEW pods, NEW wg, NEW lost,
           NEW x \in [pc : {pc}, job : {job}, nodes : {nodes}, todo : {todo},
                     pods : {pods}, wg : {wg}, lost : {lost}]
    PROVE  x = WorkOf(pc, job, nodes, todo, pods, wg, lost)
BY DEF WorkOf

\* What the edits of one work make of it.
LEMMA RecordSet ==
    ASSUME NEW k, IsWork(k)
    PROVE  k \in [pc : {k.pc}, job : {k.job}, nodes : {k.nodes}, todo : {k.todo},
                  pods : {k.pods}, wg : {k.wg}, lost : {k.lost}]
BY DEF IsWork, WorkOf

\* g is f with the work k for the worker w.
Edited(f, g, w, k) ==
    /\ g = [v \in Workers |-> g[v]]
    /\ g[w] = k
    /\ \A v \in Workers \ {w} : g[v] = f[v]

\* The edit of Advance.
LEMMA MoveEdit ==
    ASSUME NEW f, f = [v \in Workers |-> f[v]], NEW w \in Workers, IsWork(f[w]),
           NEW pc, NEW todo,
           NEW g, g = [f EXCEPT ![w].pc = pc, ![w].todo = todo]
    PROVE  Edited(f, g, w, WorkOf(pc, f[w].job, f[w].nodes, todo, f[w].pods, f[w].wg, f[w].lost))
<1>1. /\ g = [v \in Workers |-> g[v]] /\ \A v \in Workers \ {w} : g[v] = f[v]
      /\ g[w] = [f[w] EXCEPT !.pc = pc, !.todo = todo]
  OBVIOUS
<1>2. f[w] \in [pc : {f[w].pc}, job : {f[w].job}, nodes : {f[w].nodes}, todo : {f[w].todo},
             pods : {f[w].pods}, wg : {f[w].wg}, lost : {f[w].lost}]
  BY RecordSet
<1>3. g[w] \in [pc : {pc}, job : {f[w].job}, nodes : {f[w].nodes}, todo : {todo},
             pods : {f[w].pods}, wg : {f[w].wg}, lost : {f[w].lost}]
  BY <1>1, <1>2
<1>4. g[w] = WorkOf(pc, f[w].job, f[w].nodes, todo, f[w].pods, f[w].wg, f[w].lost)
  BY <1>3, WorkSingle, Zenon
<1>5. QED
  BY <1>1, <1>4, Zenon DEF Edited

\* The edit of EachInterface.
LEMMA ListEdit ==
    ASSUME NEW f, f = [v \in Workers |-> f[v]], NEW w \in Workers, IsWork(f[w]),
           NEW pc, NEW todo, NEW pods,
           NEW g, g = [f EXCEPT ![w].pc = pc, ![w].todo = todo, ![w].pods = pods]
    PROVE  Edited(f, g, w, WorkOf(pc, f[w].job, f[w].nodes, todo, pods, f[w].wg, f[w].lost))
<1>1. /\ g = [v \in Workers |-> g[v]] /\ \A v \in Workers \ {w} : g[v] = f[v]
      /\ g[w] = [f[w] EXCEPT !.pc = pc, !.todo = todo, !.pods = pods]
  OBVIOUS
<1>2. f[w] \in [pc : {f[w].pc}, job : {f[w].job}, nodes : {f[w].nodes}, todo : {f[w].todo},
             pods : {f[w].pods}, wg : {f[w].wg}, lost : {f[w].lost}]
  BY RecordSet
<1>3. g[w] \in [pc : {pc}, job : {f[w].job}, nodes : {f[w].nodes}, todo : {todo},
             pods : {pods}, wg : {f[w].wg}, lost : {f[w].lost}]
  BY <1>1, <1>2
<1>4. g[w] = WorkOf(pc, f[w].job, f[w].nodes, todo, pods, f[w].wg, f[w].lost)
  BY <1>3, WorkSingle, Zenon
<1>5. QED
  BY <1>1, <1>4, Zenon DEF Edited

\* The edit of Issue and RemoveNode.
LEMMA CountEdit ==
    ASSUME NEW f, f = [v \in Workers |-> f[v]], NEW w \in Workers, IsWork(f[w]),
           NEW todo, NEW wg, NEW lost,
           NEW g, g = [f EXCEPT ![w].todo = todo, ![w].wg = wg, ![w].lost = lost]
    PROVE  Edited(f, g, w, WorkOf(f[w].pc, f[w].job, f[w].nodes, todo, f[w].pods, wg, lost))
<1>1. /\ g = [v \in Workers |-> g[v]] /\ \A v \in Workers \ {w} : g[v] = f[v]
      /\ g[w] = [f[w] EXCEPT !.todo = todo, !.wg = wg, !.lost = lost]
  OBVIOUS
<1>2. f[w] \in [pc : {f[w].pc}, job : {f[w].job}, nodes : {f[w].nodes}, todo : {f[w].todo},
             pods : {f[w].pods}, wg : {f[w].wg}, lost : {f[w].lost}]
  BY RecordSet
<1>3. g[w] \in [pc : {f[w].pc}, job : {f[w].job}, nodes : {f[w].nodes}, todo : {todo},
             pods : {f[w].pods}, wg : {wg}, lost : {lost}]
  BY <1>1, <1>2
<1>4. g[w] = WorkOf(f[w].pc, f[w].job, f[w].nodes, todo, f[w].pods, wg, lost)
  BY <1>3, WorkSingle, Zenon
<1>5. QED
  BY <1>1, <1>4, Zenon DEF Edited

\* The edit of Take.
LEMMA TakeEdit ==
    ASSUME NEW f, f = [v \in Workers |-> f[v]], NEW w \in Workers,
           NEW job, NEW nodes, NEW todo, NEW g,
           g = [f EXCEPT ![w] = [NoWork EXCEPT !.pc = "create", !.job = job,
                                               !.nodes = nodes, !.todo = todo]]
    PROVE  Edited(f, g, w, WorkOf("create", job, nodes, todo, {}, 0, 0))
<1> DEFINE k == [NoWork EXCEPT !.pc = "create", !.job = job, !.nodes = nodes, !.todo = todo]
<1>1. NoWork \in [pc : {"idle"}, job : {0}, nodes : {{}}, todo : {{}},
                 pods : {{}}, wg : {0}, lost : {0}]
  BY DEF NoWork
<1>2. k \in [pc : {"create"}, job : {job}, nodes : {nodes}, todo : {todo},
            pods : {{}}, wg : {0}, lost : {0}]
  BY <1>1
<1> HIDE DEF k
<1>3. k = WorkOf("create", job, nodes, todo, {}, 0, 0)
  BY <1>2, WorkSingle, Zenon
<1>4. g = [f EXCEPT ![w] = k]
  BY DEF k
<1>5. Edited(f, g, w, k)
  BY <1>4 DEF Edited
<1>6. QED
  BY <1>3, <1>5, Zenon

\* The edit of a work that ends.
LEMMA IdleEdit ==
    ASSUME NEW f, f = [v \in Workers |-> f[v]], NEW w \in Workers, NEW g,
           g = [f EXCEPT ![w] = NoWork]
    PROVE  Edited(f, g, w, NoWork)
BY DEF Edited

\* The edit of Land.
LEMMA CountedWork ==
    ASSUME NEW k, IsWork(k), NEW x
    PROVE  /\ [k EXCEPT !.wg = x] = WorkOf(k.pc, k.job, k.nodes, k.todo, k.pods, x, k.lost)
           /\ [k EXCEPT !.lost = x] = WorkOf(k.pc, k.job, k.nodes, k.todo, k.pods, k.wg, x)
BY DEF WorkOf, IsWork

\* The fields of a task that began.
LEMMA BegunTask ==
    ASSUME NEW t, NEW key, NEW b,
           NEW u \in [kind : {t.kind}, target : {t.target}, n : {t.n}, pairs : {t.pairs},
                      w : {t.w}, job : {t.job}, i : {t.i}, key : {key}, leads : {b}]
    PROVE  /\ IsTask(u) /\ u.kind = t.kind /\ u.target = t.target
           /\ u.pairs = t.pairs /\ u.w = t.w /\ u.job = t.job
           /\ u.key = key /\ u.leads = b
BY DEF IsTask

-------------------------------------------------------------------------------
\* The image of a finite set.
LEMMA FiniteImage ==
    ASSUME NEW K, IsFiniteSet(K), NEW f, f = [x \in K |-> f[x]], NEW T, T = {f[x] : x \in K}
    PROVE  IsFiniteSet(T) /\ Cardinality(T) <= Cardinality(K)
<1>1. f \in Surjection(K, T)
  BY DEF Surjection
<1>2. QED
  BY <1>1, FS_Surjection, Zenon

\* The channel stays a channel.
LEMMA ChannelFacts ==
    ASSUME NEW S, NEW q \in Seq(S)
    PROVE  /\ Len(q) \in Nat /\ <<>> \in Seq(S) /\ Len(<<>>) = 0
           /\ \A x \in S : Append(q, x) \in Seq(S) /\ Len(Append(q, x)) = Len(q) + 1
           /\ q # <<>> => Head(q) \in S /\ Tail(q) \in Seq(S) /\ Len(Tail(q)) < Len(q)
OBVIOUS

OfPool(T, create) == {t \in T : (t.kind = "create") = create}

\* The tasks of one kind that fit into what is free of a pool.
LEMMA PoolRoom ==
    ASSUME NEW T, IsFiniteSet(T), NEW new, IsFiniteSet(new), NEW b \in BOOLEAN,
           \A t \in new : (t.kind = "create") = b,
           NEW cap \in Nat,
           \A c \in BOOLEAN : Cardinality(OfPool(T, c)) <= cap,
           Cardinality(new) <= cap - Cardinality(OfPool(T, b))
    PROVE  /\ IsFiniteSet(T \union new)
           /\ \A c \in BOOLEAN :
                 Cardinality(OfPool(T \union new, c)) <= cap
<1>1. IsFiniteSet(T \union new)
  BY FS_Union, Zenon
<1>2. ASSUME NEW c \in BOOLEAN
      PROVE  Cardinality(OfPool(T \union new, c)) <= cap
  <2> DEFINE In == OfPool(T, c)
             Both == OfPool(T \union new, c)
  <2>1. IsFiniteSet(In)
    BY FS_Subset DEF OfPool
  <2>2. CASE c = b
    <3>1. Both = In \union new
      BY <2>2 DEF OfPool
    <3>2. /\ Cardinality(In \union new)
               = Cardinality(In) + Cardinality(new) - Cardinality(In \cap new)
      BY <2>1, FS_Union, Zenon
    <3>3. IsFiniteSet(In \cap new)
      BY <2>1, FS_Intersection, Zenon
    <3>4. /\ Cardinality(In) \in Nat /\ Cardinality(new) \in Nat
          /\ Cardinality(In \cap new) \in Nat
      BY <2>1, <3>3, FS_CardinalityType, Zenon
    <3>5. Cardinality(new) <= cap - Cardinality(In)
      BY <2>2
    <3> HIDE DEF In, Both
    <3>6. Cardinality(Both) <= cap
      BY <3>1, <3>2, <3>4, <3>5
    <3>7. QED
      BY <3>6 DEF Both
  <2>3. CASE c # b
    <3>1. Both = In
      BY <2>3 DEF OfPool
    <3>2. QED
      BY <3>1, Zenon
  <2>4. QED
    BY <2>2, <2>3, Zenon
<1>3. QED
  BY <1>1, <1>2, Zenon

\* A pool is never more than full.
LEMMA FreeFacts ==
    ASSUME TaskInv
    PROVE  /\ PoolCap \in Nat
           /\ \A c \in BOOLEAN : Free(c) \in Nat
<1>1. PoolCap \in Nat
  BY CapAssumption
<1>2. \A c \in BOOLEAN : IsFiniteSet(InPool(c))
  BY FS_Subset DEF TaskInv, InPool
<1>3. \A c \in BOOLEAN : Cardinality(InPool(c)) \in Nat
  BY <1>2, FS_CardinalityType, Zenon
<1>4. QED
  BY <1>1, <1>3 DEF TaskInv, Free

\* What Submitted returns fits into the pool.
LEMMA SubmittedFacts ==
    ASSUME TaskInv, NEW w, NEW r, r.kind = "create" => r.n \in Int
    PROVE  LET new == Submitted(w, r)
           IN  /\ \A t \in new : /\ IsTask(t) /\ t.kind = r.kind /\ t.target = r.target
                                 /\ t.pairs = r.pairs /\ t.w = w /\ t.job = wk[w].job
                                 /\ t.key = <<>> /\ t.leads = FALSE
               /\ r.kind # "create" => new \subseteq {Task(w, r, 1)}
               /\ IsFiniteSet(tasks \union new)
               /\ \A c \in BOOLEAN :
                     Cardinality(OfPool(tasks \union new, c)) <= PoolCap
<1> DEFINE new == Submitted(w, r)
           b == r.kind = "create"
           N == IF b THEN r.n ELSE 1
           K == {x \in 1 .. N : x <= Free(b)}
           f == [k \in K |-> Task(w, r, k)]
<1>1. \A t \in new : /\ IsTask(t) /\ t.kind = r.kind /\ t.target = r.target
                     /\ t.pairs = r.pairs /\ t.w = w /\ t.job = wk[w].job
                     /\ t.key = <<>> /\ t.leads = FALSE
  <2> SUFFICES ASSUME NEW t \in new
               PROVE  /\ IsTask(t) /\ t.kind = r.kind /\ t.target = r.target
                      /\ t.pairs = r.pairs /\ t.w = w /\ t.job = wk[w].job
                      /\ t.key = <<>> /\ t.leads = FALSE
    OBVIOUS
  <2>1. PICK k : t = Task(w, r, k)
    BY DEF Submitted
  <2>2. QED
    BY <2>1 DEF Task, IsTask
<1>2. N \in Int /\ b \in BOOLEAN
  OBVIOUS
<1>3. Free(b) \in Nat
  BY <1>2, FreeFacts, Zenon
<1>4. IsFiniteSet(K) /\ Cardinality(K) <= Free(b)
  <2>1. K \in SUBSET (1 .. Free(b))
    BY <1>2, <1>3
  <2>2. /\ IsFiniteSet(1 .. Free(b)) /\ Cardinality(1 .. Free(b)) = Free(b)
    BY <1>3, FS_Interval
  <2>3. IsFiniteSet(K) /\ Cardinality(K) <= Cardinality(1 .. Free(b))
    <3> HIDE DEF K
    <3> QED  BY <2>1, <2>2, FS_Subset, Zenon
  <2>4. QED
    BY <2>2, <2>3, Zenon
<1>5. new = {f[k] : k \in K}
  BY DEF Submitted
<1>6. f = [k \in K |-> f[k]]
  OBVIOUS
<1>7. IsFiniteSet(new) /\ Cardinality(new) <= Cardinality(K)
  <2> HIDE DEF f, K, new
  <2> QED  BY <1>4, <1>5, <1>6, FiniteImage, Zenon
<1>8. r.kind # "create" => new \subseteq {Task(w, r, 1)}
  BY DEF Submitted
<1>9. Cardinality(new) <= Free(b)
  <2>1. Cardinality(new) \in Nat /\ Cardinality(K) \in Nat
    BY <1>4, <1>7, FS_CardinalityType, Zenon
  <2> HIDE DEF new, K, b
  <2>2. QED
    BY <1>3, <1>4, <1>7, <2>1
<1>10. \A t \in new : (t.kind = "create") = b
  BY <1>1, Zenon
<1>11. /\ IsFiniteSet(tasks) /\ PoolCap \in Nat
       /\ \A c \in BOOLEAN : Cardinality(OfPool(tasks, c)) <= PoolCap
  BY FreeFacts DEF TaskInv, InPool, OfPool
<1>12. Cardinality(new) <= PoolCap - Cardinality(OfPool(tasks, b))
  BY <1>9 DEF Free, InPool, OfPool
<1> HIDE DEF new, K, b, N, f
<1>13. /\ IsFiniteSet(tasks \union new)
       /\ \A c \in BOOLEAN :
             Cardinality(OfPool(tasks \union new, c)) <= PoolCap
  BY <1>2, <1>7, <1>10, <1>11, <1>12, PoolRoom, Zenon
<1>14. QED
  BY <1>1, <1>8, <1>13, Zenon DEF new

-------------------------------------------------------------------------------
(* The steps of one worker. *)

AssignsIn(T, w) == {t \in T : t.kind = "assign" /\ t.w = w}

\* The tasks new fit into the pools, and to the work k of the worker w.
Fitting(w, k, new) ==
    /\ IsFiniteSet(tasks \union new)
    /\ \A c \in BOOLEAN : Cardinality(OfPool(tasks \union new, c)) <= PoolCap
    /\ \A t \in new : IsTask(t) /\ t.w = w /\ KeyOK(t)
    /\ \A t \in tasks \union new : t.w = w => GoodTask(t, k)
    /\ GoodWork(k, AssignsIn(tasks \union new, w))
    /\ \A t \in new, u \in tasks \union new :
          t.kind = "assign" /\ u.kind = "assign" /\ u.w = w /\ u.target = t.target
              => u = t

\* Worker w goes on with the work k and submits the tasks new.
LEMMA WorkStep ==
    ASSUME WorkInv, TaskInv, ShareInv, NEW w \in Workers, NEW k, NEW new,
           Edited(wk, wk', w, k), tasks' = tasks \union new, Fitting(w, k, new)
    PROVE  WorkInv' /\ TaskInv' /\ ShareInv'
<1> USE DEF Fitting
<1>1. WorkInv'
  <2>1. wk' = [v \in Workers |-> wk'[v]]
    BY Zenon DEF Edited
  <2>2. ASSUME NEW v \in Workers PROVE GoodWork(wk'[v], AssignsOf(v)')
    <3>1. CASE v = w
      <4>1. AssignsOf(v)' = AssignsIn(tasks \union new, w)
        BY <3>1, Zenon DEF AssignsOf, AssignsIn
      <4>2. QED
        BY <3>1, <4>1, Zenon DEF Edited
    <3>2. CASE v # w
      <4>1. AssignsOf(v)' = AssignsOf(v)
        BY <3>2 DEF AssignsOf
      <4>2. wk'[v] = wk[v]
        BY <3>2, Zenon DEF Edited
      <4>3. QED
        BY <4>1, <4>2, Zenon DEF WorkInv
    <3>3. QED
      BY <3>1, <3>2, Zenon
  <2>3. QED
    BY <2>1, <2>2, Zenon DEF WorkInv
<1>2. TaskInv'
  <2>1. \A c \in BOOLEAN : Cardinality(InPool(c)') <= PoolCap
    BY Zenon DEF InPool, OfPool
  <2>2. ASSUME NEW t \in tasks'
        PROVE  IsTask(t) /\ t.w \in Workers /\ GoodTask(t, wk'[t.w])
    <3>1. IsTask(t) /\ t.w \in Workers
      BY Zenon DEF TaskInv
    <3>2. CASE t.w = w
      BY <3>1, <3>2, Zenon DEF Edited
    <3>3. CASE t.w # w
      <4>1. t \in tasks /\ wk'[t.w] = wk[t.w]
        BY <3>1, <3>3, Zenon DEF Edited
      <4>2. QED
        BY <3>1, <4>1, Zenon DEF TaskInv
    <3>4. QED
      BY <3>1, <3>2, <3>3, Zenon
  <2>3. QED
    BY <2>1, <2>2, Zenon DEF TaskInv
<1>3. ShareInv'
  <2>1. \A t \in tasks' : KeyOK(t)
    BY Zenon DEF ShareInv
  <2>2. ASSUME NEW t \in tasks', NEW u \in tasks', t.kind = "assign", u.kind = "assign",
               t.w = u.w, t.target = u.target
        PROVE  t = u
    <3>1. CASE t \in tasks /\ u \in tasks
      BY <2>2, <3>1, Zenon DEF ShareInv
    <3>2. CASE t \in new
      BY <2>2, <3>2, Zenon
    <3>3. CASE u \in new
      BY <2>2, <3>3, Zenon
    <3>4. QED
      BY <3>1, <3>2, <3>3, Zenon
  <2>3. QED
    BY <2>1, <2>2, Zenon DEF ShareInv
<1>4. QED
  BY <1>1, <1>2, <1>3

\* It submits nothing.
LEMMA QuietStep ==
    ASSUME WorkInv, TaskInv, ShareInv, NEW w \in Workers, NEW k,
           Edited(wk, wk', w, k), tasks' = tasks,
           \A t \in tasks : t.w = w => GoodTask(t, k),
           GoodWork(k, AssignsOf(w))
    PROVE  WorkInv' /\ TaskInv' /\ ShareInv'
<1>1. tasks \union {} = tasks
  OBVIOUS
<1>2. AssignsOf(w) = AssignsIn(tasks, w)
  BY Zenon DEF AssignsOf, AssignsIn
<1>3. IsFiniteSet(tasks) /\ \A c \in BOOLEAN : Cardinality(OfPool(tasks, c)) <= PoolCap
  BY Zenon DEF TaskInv, InPool, OfPool
<1>4. /\ tasks' = tasks \union {} /\ IsFiniteSet(tasks \union {})
      /\ \A c \in BOOLEAN : Cardinality(OfPool(tasks \union {}, c)) <= PoolCap
      /\ \A t \in tasks \union {} : t.w = w => GoodTask(t, k)
      /\ GoodWork(k, AssignsIn(tasks \union {}, w))
  BY <1>1, <1>2, <1>3, Zenon
<1>5. Fitting(w, k, {})
  BY <1>4, Zenon DEF Fitting
<1>6. QED
  BY <1>4, <1>5, WorkStep, Zenon

\* The others are where they were.
LEMMA AskedKept ==
    ASSUME AskedInv, NEW w \in Workers, NEW k, Edited(wk, wk', w, k), Asked(k)
    PROVE  AskedInv'
<1>1. ASSUME NEW v \in Workers PROVE Asked(wk'[v])
  BY Zenon DEF AskedInv, Edited
<1>2. QED
  BY <1>1, Zenon DEF AskedInv

\* Steps that change none of the rest.
LEMMA RestKept ==
    ASSUME RestInv, up' \in BOOLEAN, UNCHANGED <<snevch, sent, cloud, assigned>>
    PROVE  RestInv'
BY DEF RestInv

\* Who does not assign yet has no assignment under way; who does not create
\* any more has no creation under way.
LEMMA TasksOfPhase ==
    ASSUME WorkInv, TaskInv, NEW w \in Workers
    PROVE  /\ IsWork(wk[w]) /\ wk[w].wg \in Nat /\ wk[w].lost \in Nat
           /\ IsFiniteSet(AssignsOf(w)) /\ Cardinality(AssignsOf(w)) \in Nat
           /\ wk[w].wg = wk[w].lost + Cardinality(AssignsOf(w))
           /\ wk[w].pc \notin {"assign", "remove", "unassign"} => AssignsOf(w) = {}
           /\ wk[w].wg = 0 => AssignsOf(w) = {}
           /\ wk[w].pc # "create" \/ wk[w].wg = 0 =>
                 \A t \in tasks : t.w = w => t.kind # "create"
<1>1. /\ IsWork(wk[w]) /\ wk[w].wg \in Nat /\ wk[w].lost \in Nat
      /\ wk[w].wg = wk[w].lost + Cardinality(AssignsOf(w))
  BY Zenon DEF WorkInv, GoodWork, WorkTyped
<1>2. IsFiniteSet(AssignsOf(w))
  BY FS_Subset DEF AssignsOf, TaskInv
<1>3. Cardinality(AssignsOf(w)) \in Nat
  BY <1>2, FS_CardinalityType, Zenon
<1>4. wk[w].pc \notin {"assign", "remove", "unassign"} => AssignsOf(w) = {}
  BY DEF AssignsOf, TaskInv, GoodTask
<1>5. wk[w].wg = 0 => wk[w].lost = 0 /\ Cardinality(AssignsOf(w)) = 0
  BY <1>1, <1>3
<1>6. wk[w].wg = 0 => AssignsOf(w) = {}
  BY <1>2, <1>5, FS_EmptySet, Zenon
<1>7. wk[w].pc # "create" \/ wk[w].lost = 0 =>
          \A t \in tasks : t.w = w => t.kind # "create"
  BY DEF TaskInv, GoodTask
<1>8. QED
  BY <1>1, <1>2, <1>3, <1>4, <1>5, <1>6, <1>7, Zenon

\* A work ends.
LEMMA IdleStep ==
    ASSUME OpsInv, NEW w \in Workers, wk' = [wk EXCEPT ![w] = NoWork],
           AssignsOf(w) = {}, \A t \in tasks : t.w = w => t.kind # "create",
           UNCHANGED <<up, snevch, sent, tasks, cloud, assigned>>
    PROVE  OpsInv'
<1>1. Edited(wk, wk', w, NoWork)
  BY IdleEdit, Zenon DEF OpsInv, WorkInv
<1>2. GoodWork(NoWork, AssignsOf(w))
  <2>1. NoWork.wg = NoWork.lost + Cardinality({})
    BY NoWorkFacts, FS_EmptySet
  <2>2. QED
    BY <2>1, NoWorkFacts, Zenon DEF GoodWork
<1>3. \A t \in tasks : t.w = w => GoodTask(t, NoWork)
  BY Zenon DEF GoodTask, AssignsOf
<1>4. WorkInv' /\ TaskInv' /\ ShareInv'
  BY <1>1, <1>2, <1>3, QuietStep, Zenon DEF OpsInv
<1>5. Asked(NoWork)
  BY NoWorkFacts DEF Asked, Phases
<1>6. AskedInv'
  BY <1>1, <1>5, AskedKept, Zenon DEF OpsInv
<1>7. up' \in BOOLEAN
  BY Zenon DEF OpsInv, RestInv
<1>8. RestInv'
  BY <1>7, RestKept, Zenon DEF OpsInv
<1>9. QED
  BY <1>4, <1>6, <1>8, Zenon DEF OpsInv

LEMMA ErrorStep ==
    ASSUME OpsInv, NEW w \in Workers, EachInterfaceError(w) \/ WaitEnd(w)
    PROVE  OpsInv'
<1>1. AssignsOf(w) = {} /\ \A t \in tasks : t.w = w => t.kind # "create"
  <2>1. WorkInv /\ TaskInv
    BY DEF OpsInv
  <2>2. wk[w].pc = "attach" \/ wk[w].wg = 0
    BY DEF EachInterfaceError, WaitEnd
  <2>3. QED
    BY <2>1, <2>2, TasksOfPhase
<1>2. /\ wk' = [wk EXCEPT ![w] = NoWork]
      /\ UNCHANGED <<up, snevch, sent, tasks, cloud, assigned>>
  BY DEF EachInterfaceError, WaitEnd
<1>3. QED
  BY <1>1, <1>2, IdleStep, Zenon

\* A work goes on, with its counts as they are.
LEMMA OnwardStep ==
    ASSUME OpsInv, NEW w \in Workers, NEW k, Edited(wk, wk', w, k),
           WorkTyped(k), TodoOK(k, AssignsOf(w)), Asked(k),
           k.job = wk[w].job, k.nodes = wk[w].nodes, k.wg = wk[w].wg, k.lost = wk[w].lost,
           k.pc \in {"assign", "remove", "unassign"} \/ AssignsOf(w) = {},
           \A t \in tasks : t.w = w => t.kind # "create",
           UNCHANGED <<up, snevch, sent, tasks, cloud, assigned>>
    PROVE  OpsInv'
<1>1. WorkInv /\ TaskInv /\ ShareInv /\ RestInv /\ AskedInv
  BY DEF OpsInv
<1>2. GoodWork(k, AssignsOf(w))
  BY <1>1, TasksOfPhase, Zenon DEF GoodWork
<1>3. ASSUME NEW t \in tasks, t.w = w PROVE GoodTask(t, k)
  <2>1. GoodTask(t, wk[w]) /\ t.kind # "create"
    BY <1>1, <1>3, Zenon DEF TaskInv
  <2>2. t.kind = "assign" => k.pc \in {"assign", "remove", "unassign"}
    BY <1>3, Zenon DEF AssignsOf
  <2>3. QED
    BY <2>1, <2>2, Zenon DEF GoodTask
<1>4. WorkInv' /\ TaskInv' /\ ShareInv'
  BY <1>1, <1>2, <1>3, QuietStep, Zenon
<1>5. AskedInv'
  BY <1>1, AskedKept, Zenon
<1>6. up' \in BOOLEAN
  BY <1>1, Zenon DEF RestInv
<1>7. RestInv'
  BY <1>1, <1>6, RestKept, Zenon
<1>8. QED
  BY <1>4, <1>5, <1>7, Zenon DEF OpsInv

\* All requests of a phase are made.
LEMMA AdvanceStep ==
    ASSUME OpsInv, NEW w \in Workers, NEW phase \in {"attach", "assign", "remove"},
           NEW to \in {"assign", "remove", "unassign"}, NEW todo,
           wk[w].pc = phase, wk' = [wk EXCEPT ![w].pc = to, ![w].todo = todo],
           UNCHANGED <<up, snevch, sent, tasks, cloud, assigned>>,
           TodoOK(WorkOf(to, wk[w].job, wk[w].nodes, todo, wk[w].pods, wk[w].wg, wk[w].lost),
                  AssignsOf(w))
    PROVE  OpsInv'
<1> DEFINE k == WorkOf(to, wk[w].job, wk[w].nodes, todo, wk[w].pods, wk[w].wg, wk[w].lost)
<1>1. WorkInv /\ TaskInv
  BY DEF OpsInv
<1>2. IsWork(wk[w]) /\ WorkTyped(wk[w])
  BY <1>1, Zenon DEF WorkInv, GoodWork, WorkTyped
<1>3. Edited(wk, wk', w, k)
  BY <1>1, <1>2, MoveEdit, Zenon DEF WorkInv
<1>4. /\ IsWork(k) /\ k.pc = to /\ k.job = wk[w].job /\ k.nodes = wk[w].nodes
      /\ k.pods = wk[w].pods /\ k.wg = wk[w].wg /\ k.lost = wk[w].lost
  BY DEF WorkOf, IsWork
<1>5. TodoOK(k, AssignsOf(w))
  OBVIOUS
<1> HIDE DEF k
<1>6. WorkTyped(k)
  BY <1>2, <1>4 DEF WorkTyped, Phases
<1>7. \A t \in tasks : t.w = w => t.kind # "create"
  BY <1>1, TasksOfPhase
<1>8. Asked(k)
  <2>1. Asked(wk[w])
    BY Zenon DEF OpsInv, AskedInv
  <2>2. QED
    BY <1>4, <2>1 DEF Asked, Phases
<1>9. QED
  BY <1>3, <1>4, <1>5, <1>6, <1>7, <1>8, OnwardStep, Zenon

LEMMA AttachesStep ==
    ASSUME OpsInv, NEW w \in Workers, AttachesIssued(w)
    PROVE  OpsInv'
<1> DEFINE todo == {Request("assign", m, 1, {p \in wk[w].pods : p.owner = m}) :
                       m \in {p.owner : p \in wk[w].pods}}
           k == WorkOf("assign", wk[w].job, wk[w].nodes, todo, wk[w].pods, wk[w].wg, wk[w].lost)
<1>1. WorkInv /\ TaskInv
  BY DEF OpsInv
<1>2. /\ wk[w].pc = "attach" /\ wk' = [wk EXCEPT ![w].pc = "assign", ![w].todo = todo]
      /\ UNCHANGED <<up, snevch, sent, tasks, cloud, assigned>>
  BY DEF AttachesIssued, Advance
<1>3. AssignsOf(w) = {}
  BY <1>1, <1>2, TasksOfPhase
<1>4. k.pc = "assign" /\ k.todo = todo /\ k.nodes = wk[w].nodes
  BY DEF WorkOf
<1>5. ASSUME NEW r \in todo
      PROVE  /\ r.kind = "assign"
             /\ r.target \in MainsOf(wk[w].nodes) /\ r.target \in Mains
             /\ r.pairs \subseteq Ports
             /\ r = Request("assign", r.target, 1, {p \in wk[w].pods : p.owner = r.target})
  <2>1. PICK p \in wk[w].pods :
            r = Request("assign", p.owner, 1, {q \in wk[w].pods : q.owner = p.owner})
    BY <1>5
  <2>2. /\ r.kind = "assign" /\ r.target = p.owner
        /\ r.pairs = {q \in wk[w].pods : q.owner = p.owner}
    BY <2>1 DEF Request
  <2>3. \A q \in wk[w].pods : q \in Ports /\ q.owner \in Mains /\ q.owner \in MainsOf(wk[w].nodes)
    BY <1>1, Zenon DEF WorkInv, GoodWork, WorkTyped
  <2>4. r.pairs \subseteq Ports
    BY <2>2, <2>3
  <2>5. QED
    BY <2>1, <2>2, <2>3, <2>4, Zenon
<1> HIDE DEF k, todo
<1>6. TodoOK(k, {})
  BY <1>4, <1>5, Zenon DEF TodoOK
<1>7. TodoOK(k, AssignsOf(w))
  BY <1>3, <1>6, Zenon
<1>8. QED
  BY <1>2, <1>7, AdvanceStep, Zenon DEF k

LEMMA AssignsStep ==
    ASSUME OpsInv, NEW w \in Workers, AssignsIssued(w)
    PROVE  OpsInv'
<1> DEFINE k == WorkOf("remove", wk[w].job, wk[w].nodes, wk[w].nodes,
                       wk[w].pods, wk[w].wg, wk[w].lost)
<1>1. /\ wk[w].pc = "assign" /\ wk' = [wk EXCEPT ![w].pc = "remove", ![w].todo = wk[w].nodes]
      /\ UNCHANGED <<up, snevch, sent, tasks, cloud, assigned>>
  BY DEF AssignsIssued, Advance
<1>2. k.pc = "remove" /\ k.todo = wk[w].nodes /\ k.nodes = wk[w].nodes
  BY WorkFields
<1> HIDE DEF k
<1>3. TodoOK(k, AssignsOf(w))
  BY <1>2 DEF TodoOK
<1>4. QED
  BY <1>1, <1>3, AdvanceStep, Zenon DEF k

LEMMA RemovesStep ==
    ASSUME OpsInv, NEW w \in Workers, RemovesIssued(w)
    PROVE  OpsInv'
<1> DEFINE todo == {Request("unassign", no.node, 1, UNION {po.remove : po \in no.pools}) :
                       no \in {x \in wk[w].nodes : \E po \in x.pools : po.remove # {}}}
           k == WorkOf("unassign", wk[w].job, wk[w].nodes, todo, wk[w].pods, wk[w].wg, wk[w].lost)
<1>1. /\ wk[w].pc = "remove" /\ wk' = [wk EXCEPT ![w].pc = "unassign", ![w].todo = todo]
      /\ UNCHANGED <<up, snevch, sent, tasks, cloud, assigned>>
  BY DEF RemovesIssued, Advance
<1>2. k.pc = "unassign" /\ k.todo = todo /\ k.nodes = wk[w].nodes
  BY DEF WorkOf
<1>3. \A r \in todo : r.kind = "unassign"
  BY DEF Request
<1> HIDE DEF k, todo
<1>4. TodoOK(k, AssignsOf(w))
  BY <1>2, <1>3 DEF TodoOK
<1>5. QED
  BY <1>1, <1>4, AdvanceStep, Zenon DEF k

\* The list of the ports: the work asked for no creation.
LEMMA CreatedStep ==
    ASSUME OpsInv, NEW w \in Workers, WaitCreated(w)
    PROVE  OpsInv'
<1>1. WorkInv /\ TaskInv /\ RestInv
  BY DEF OpsInv
<1>2. /\ wk[w].pc = "create" /\ wk[w].wg = 0 /\ wk[w].todo = {}
      /\ UNCHANGED <<up, snevch, sent, tasks, cloud, assigned>>
  BY DEF WaitCreated, EachInterface
<1>3. PICK seen \in SUBSET cloud :
        wk' = [wk EXCEPT ![w].pc = "attach",
                   ![w].todo = {Request("attach", p.id, 1, {}) :
                       p \in {x \in seen : /\ x.kind = "vm"
                                           /\ \E no \in wk[w].nodes : no.node = x.owner}},
                   ![w].pods = {p \in seen : p.kind = "pod"
                                             /\ p.owner \in MainsOf(wk[w].nodes)}]
  BY DEF WaitCreated, EachInterface
<1> DEFINE todo == {Request("attach", p.id, 1, {}) :
                       p \in {x \in seen : /\ x.kind = "vm"
                                           /\ \E no \in wk[w].nodes : no.node = x.owner}}
           pods == {p \in seen : p.kind = "pod" /\ p.owner \in MainsOf(wk[w].nodes)}
           k == WorkOf("attach", wk[w].job, wk[w].nodes, todo, pods, wk[w].wg, wk[w].lost)
<1>4. \A r \in todo : r.kind = "attach"
  BY DEF Request
<1>5. \A p \in pods : p \in Ports /\ p.owner \in Mains /\ p.owner \in MainsOf(wk[w].nodes)
  BY <1>1, PortsAssumption DEF RestInv
<1>6. wk' = [wk EXCEPT ![w].pc = "attach", ![w].todo = todo, ![w].pods = pods]
  BY <1>3
<1> HIDE DEF todo, pods
<1>7. IsWork(wk[w]) /\ WorkTyped(wk[w])
  BY <1>1, Zenon DEF WorkInv, GoodWork, WorkTyped
<1>8. Edited(wk, wk', w, k)
  BY <1>1, <1>6, <1>7, ListEdit, Zenon DEF WorkInv
<1>9. /\ IsWork(k) /\ k.pc = "attach" /\ k.job = wk[w].job /\ k.nodes = wk[w].nodes
      /\ k.todo = todo /\ k.pods = pods /\ k.wg = wk[w].wg /\ k.lost = wk[w].lost
  BY WorkFields
<1> HIDE DEF k
<1>10. WorkTyped(k)
  BY <1>5, <1>7, <1>9 DEF WorkTyped, Phases
<1>11. TodoOK(k, AssignsOf(w))
  BY <1>4, <1>9 DEF TodoOK
<1>12. AssignsOf(w) = {} /\ \A t \in tasks : t.w = w => t.kind # "create"
  BY <1>1, <1>2, TasksOfPhase
<1>13. Asked(k)
  <2>1. Asked(wk[w])
    BY Zenon DEF OpsInv, AskedInv
  <2>2. wk[w].lost = 0
    BY <1>1, <1>2, TasksOfPhase
  <2>3. QED
    BY <1>2, <1>9, <2>1, <2>2 DEF Asked
<1>14. QED
  BY <1>2, <1>8, <1>9, <1>10, <1>11, <1>12, <1>13, OnwardStep, Zenon

LEMMA HandleStep ==
    ASSUME OpsInv, NEW ev \in Events, HandleSubnatEvent(ev)
    PROVE  OpsInv'
<1>1. /\ sent < MaxSent /\ sent' = sent + 1
      /\ snevch' = IF Len(snevch) < ChanCap
                   THEN Append(snevch, [job |-> sent + 1, nodes |-> ev]) ELSE snevch
      /\ UNCHANGED <<up, wk, tasks, cloud, assigned>>
  BY DEF HandleSubnatEvent
<1>2. WorkInv' /\ TaskInv' /\ ShareInv' /\ AskedInv'
  BY <1>1 DEF OpsInv, WorkInv, TaskInv, ShareInv, AskedInv, AssignsOf, InPool
<1> DEFINE S == [job : Nat, nodes : Events]
           x == [job |-> sent + 1, nodes |-> ev]
<1>3. /\ up \in BOOLEAN /\ sent \in 0 .. MaxSent /\ cloud \subseteq Ports
      /\ assigned \in [Mains -> SUBSET Ports] /\ snevch \in Seq(S) /\ Len(snevch) <= ChanCap
  BY DEF OpsInv, RestInv
<1>4. sent' \in 0 .. MaxSent /\ x \in S
  BY <1>1, <1>3, CapAssumption
<1> HIDE DEF S, x
<1>5. /\ Append(snevch, x) \in Seq(S) /\ Len(Append(snevch, x)) = Len(snevch) + 1
      /\ Len(snevch) \in Nat
  BY <1>3, <1>4, ChannelFacts, Zenon
<1>6. ChanCap \in Nat
  BY CapAssumption
<1>7. snevch' \in Seq(S) /\ Len(snevch') <= ChanCap
  <2>1. CASE Len(snevch) < ChanCap
    <3>1. snevch' = Append(snevch, x)
      BY <1>1, <2>1, Zenon DEF x
    <3>2. Len(snevch) + 1 <= ChanCap
      BY <1>5, <1>6, <2>1
    <3>3. QED
      BY <1>5, <3>1, <3>2, Zenon
  <2>2. CASE ~ (Len(snevch) < ChanCap)
    BY <1>1, <1>3, <2>2, Zenon
  <2>3. QED
    BY <2>1, <2>2
<1>8. RestInv'
  BY <1>1, <1>3, <1>4, <1>7, Zenon DEF RestInv, S
<1>9. QED
  BY <1>2, <1>8, Zenon DEF OpsInv

\* The requests that Take starts with.
LEMMA CreateRequests ==
    ASSUME NEW nodes \in Events, NEW r \in Creates(nodes)
    PROVE  r.kind = "create" /\ r.n \in Int
<1>1. \/ \E no \in nodes : r = Request("create", no.node, no.add, {})
      \/ \E no \in nodes : \E po \in no.pools : r = Request("create", po.main, po.add, {})
  BY DEF Creates, Pools
<1>2. CASE \E no \in nodes : r = Request("create", no.node, no.add, {})
  BY <1>2, EventsAssumption DEF Request
<1>3. CASE \E no \in nodes : \E po \in no.pools : r = Request("create", po.main, po.add, {})
  <2>1. PICK no \in nodes : \E po \in no.pools : r = Request("create", po.main, po.add, {})
    BY <1>3
  <2>2. PICK po \in no.pools : r = Request("create", po.main, po.add, {})
    BY <2>1
  <2>3. po.add \in Int
    BY EventsAssumption, Zenon
  <2>4. QED
    BY <2>2, <2>3 DEF Request
<1>4. QED
  BY <1>1, <1>2, <1>3

LEMMA TakeStep ==
    ASSUME OpsInv, NEW w \in Workers, Take(w)
    PROVE  OpsInv'
<1> DEFINE ev == Head(snevch)
           k == WorkOf("create", ev.job, ev.nodes, Creates(ev.nodes), {}, 0, 0)
<1>1. WorkInv /\ TaskInv /\ ShareInv /\ RestInv /\ AskedInv
  BY DEF OpsInv
<1>2. /\ wk[w].pc = "idle" /\ snevch # <<>> /\ snevch' = Tail(snevch)
      /\ UNCHANGED <<up, sent, tasks, cloud, assigned>>
      /\ wk' = [wk EXCEPT ![w] = [NoWork EXCEPT !.pc = "create", !.job = ev.job,
                                    !.nodes = ev.nodes, !.todo = Creates(ev.nodes)]]
  BY DEF Take
<1>3. /\ ev \in [job : Nat, nodes : Events]
      /\ Tail(snevch) \in Seq([job : Nat, nodes : Events]) /\ Len(Tail(snevch)) < Len(snevch)
      /\ Len(Tail(snevch)) \in Nat /\ Len(snevch) \in Nat
  <2>1. snevch \in Seq([job : Nat, nodes : Events])
    BY <1>1, Zenon DEF RestInv
  <2>2. /\ ev \in [job : Nat, nodes : Events]
        /\ Tail(snevch) \in Seq([job : Nat, nodes : Events]) /\ Len(Tail(snevch)) < Len(snevch)
    BY <1>2, <2>1, ChannelFacts, Zenon
  <2>3. QED
    BY <2>1, <2>2, ChannelFacts, Zenon
<1> HIDE DEF ev
<1>4. ev.nodes \in Events
  BY <1>3
<1>5. Edited(wk, wk', w, k)
  BY <1>1, <1>2, TakeEdit, Zenon DEF WorkInv
<1>6. /\ IsWork(k) /\ k.pc = "create" /\ k.nodes = ev.nodes /\ k.todo = Creates(ev.nodes)
      /\ k.pods = {} /\ k.wg = 0 /\ k.lost = 0
  BY DEF WorkOf, IsWork
<1> HIDE DEF k
<1>7. AssignsOf(w) = {} /\ \A t \in tasks : t.w = w => t.kind # "create"
  BY <1>1, <1>2, TasksOfPhase
<1>8. \A t \in tasks : t.w = w => GoodTask(t, k)
  BY <1>7, Zenon DEF GoodTask, AssignsOf
<1>9. GoodWork(k, AssignsOf(w))
  <2>1. WorkTyped(k)
    BY <1>4, <1>6 DEF WorkTyped, Phases
  <2>2. TodoOK(k, AssignsOf(w))
    BY <1>4, <1>6, CreateRequests DEF TodoOK
  <2>3. k.wg = k.lost + Cardinality({})
    BY <1>6, FS_EmptySet
  <2>4. QED
    BY <1>7, <2>1, <2>2, <2>3, Zenon DEF GoodWork
<1>10. WorkInv' /\ TaskInv' /\ ShareInv'
  BY <1>1, <1>2, <1>5, <1>8, <1>9, QuietStep, Zenon
<1>11. RestInv'
  <2>1. Len(snevch') <= ChanCap
    <3>1. ChanCap \in Nat /\ Len(snevch) <= ChanCap
      BY <1>1, CapAssumption DEF RestInv
    <3>2. QED
      BY <1>2, <1>3, <3>1
  <2>2. QED
    BY <1>1, <1>2, <1>3, <2>1, Zenon DEF RestInv
<1>12. AskedInv'
  <2>1. Asked(k)
    BY <1>6 DEF Asked
  <2>2. QED
    BY <1>1, <1>5, <2>1, AskedKept, Zenon
<1>13. QED
  BY <1>10, <1>11, <1>12, Zenon DEF OpsInv

\* The tasks new of n requests of the worker w, none of which calls back.
Uncalled(w, n, new) ==
    /\ IsFiniteSet(tasks \union new)
    /\ \A c \in BOOLEAN : Cardinality(OfPool(tasks \union new, c)) <= PoolCap
    /\ \A t \in new : /\ IsTask(t) /\ t.w = w /\ t.key = <<>> /\ t.leads = FALSE
                      /\ t.kind # "assign"
                      /\ t.kind = "create" => wk[w].pc = "create" /\ n > 0

\* Requests without a callback: each is counted, and lost.
LEMMA LostStep ==
    ASSUME OpsInv, NEW w \in Workers, NEW n \in Nat, NEW new, NEW todo,
           todo \subseteq wk[w].todo,
           wk' = [wk EXCEPT ![w].todo = todo, ![w].wg = wk[w].wg + n,
                            ![w].lost = wk[w].lost + n],
           tasks' = tasks \union new, Uncalled(w, n, new),
           wk[w].pc = "create" => n > 0,
           UNCHANGED <<up, snevch, sent, cloud, assigned>>
    PROVE  OpsInv'
<1> USE DEF Uncalled
<1> DEFINE k == WorkOf(wk[w].pc, wk[w].job, wk[w].nodes, todo, wk[w].pods,
                       wk[w].wg + n, wk[w].lost + n)
<1>1. WorkInv /\ TaskInv /\ ShareInv /\ RestInv /\ AskedInv
  BY DEF OpsInv
<1>2. /\ IsWork(wk[w]) /\ WorkTyped(wk[w]) /\ TodoOK(wk[w], AssignsOf(w))
      /\ wk[w].wg \in Nat /\ wk[w].lost \in Nat
  BY <1>1, Zenon DEF WorkInv, GoodWork, WorkTyped
<1>3. Edited(wk, wk', w, k)
  BY <1>1, <1>2, CountEdit, Zenon DEF WorkInv
<1>4. /\ IsWork(k) /\ k.pc = wk[w].pc /\ k.job = wk[w].job /\ k.nodes = wk[w].nodes
      /\ k.todo = todo /\ k.pods = wk[w].pods /\ k.wg = wk[w].wg + n /\ k.lost = wk[w].lost + n
  BY DEF WorkOf, IsWork
<1> HIDE DEF k
<1>5. AssignsIn(tasks \union new, w) = AssignsOf(w)
  BY DEF AssignsIn, AssignsOf
<1>6. GoodWork(k, AssignsOf(w))
  <2>1. WorkTyped(k)
    <3>1. k.wg \in Nat /\ k.lost \in Nat
      BY <1>2, <1>4
    <3>2. QED
      BY <1>2, <1>4, <3>1, Zenon DEF WorkTyped
  <2>2. TodoOK(k, AssignsOf(w))
    BY <1>2, <1>4 DEF TodoOK
  <2>3. k.wg = k.lost + Cardinality(AssignsOf(w))
    BY <1>1, <1>4, TasksOfPhase
  <2>4. QED
    BY <2>1, <2>2, <2>3, Zenon DEF GoodWork
<1>7. ASSUME NEW t \in tasks \union new, t.w = w PROVE GoodTask(t, k)
  <2>1. CASE t \in tasks
    <3>1. GoodTask(t, wk[w])
      BY <1>1, <1>7, <2>1, Zenon DEF TaskInv
    <3>2. wk[w].lost > 0 => k.lost > 0
      BY <1>2, <1>4
    <3>3. QED
      BY <1>4, <3>1, <3>2, Zenon DEF GoodTask
  <2>2. CASE t \in new
    <3>1. n > 0 => k.lost > 0
      BY <1>2, <1>4
    <3>2. QED
      BY <1>4, <2>2, <3>1, Zenon DEF GoodTask
  <2>3. QED
    BY <1>7, <2>1, <2>2
<1>8. \A t \in new : IsTask(t) /\ t.w = w /\ KeyOK(t)
  BY Zenon DEF KeyOK
<1>9. WorkInv' /\ TaskInv' /\ ShareInv'
  <2>1. GoodWork(k, AssignsIn(tasks \union new, w))
    BY <1>5, <1>6, Zenon
  <2>2. \A t \in new, u \in tasks \union new :
            t.kind = "assign" /\ u.kind = "assign" /\ u.w = w /\ u.target = t.target => u = t
    BY Zenon
  <2>3. \A t \in tasks \union new : t.w = w => GoodTask(t, k)
    BY <1>7
  <2>4. Fitting(w, k, new)
    BY <1>8, <2>1, <2>2, <2>3, Zenon DEF Fitting
  <2>5. QED
    BY <1>1, <1>3, <2>4, WorkStep, Zenon
<1>10. AskedInv'
  <2>1. Asked(wk[w])
    BY <1>1, Zenon DEF AskedInv
  <2>2. n > 0 => k.lost > 0
    BY <1>2, <1>4
  <2>3. Asked(k)
    BY <1>4, <2>1, <2>2, Zenon DEF Asked
  <2>4. QED
    BY <1>1, <1>3, <2>3, AskedKept, Zenon
<1>11. up' \in BOOLEAN
  BY <1>1, Zenon DEF RestInv
<1>12. RestInv'
  BY <1>1, <1>11, RestKept, Zenon
<1>13. QED
  BY <1>9, <1>10, <1>12, Zenon DEF OpsInv

\* An assignment is submitted: one more to wait for, and one under way.
LEMMA AssignStep ==
    ASSUME OpsInv, NEW w \in Workers, wk[w].pc = "assign", NEW r \in wk[w].todo, NEW t,
           wk' = [wk EXCEPT ![w].todo = wk[w].todo \ {r}, ![w].wg = wk[w].wg + 1,
                            ![w].lost = wk[w].lost],
           tasks' = tasks \union {t}, IsFiniteSet(tasks \union {t}),
           \A c \in BOOLEAN : Cardinality(OfPool(tasks \union {t}, c)) <= PoolCap,
           IsTask(t), t.kind = "assign", t.w = w, t.key = <<>>, t.leads = FALSE,
           t.target = r.target, t.pairs = r.pairs, t.job = wk[w].job,
           UNCHANGED <<up, snevch, sent, cloud, assigned>>
    PROVE  OpsInv'
<1> DEFINE todo == wk[w].todo \ {r}
           k == WorkOf(wk[w].pc, wk[w].job, wk[w].nodes, todo, wk[w].pods,
                       wk[w].wg + 1, wk[w].lost)
           A == AssignsOf(w)
<1>1. WorkInv /\ TaskInv /\ ShareInv /\ RestInv /\ AskedInv
  BY DEF OpsInv
<1>2. /\ IsWork(wk[w]) /\ WorkTyped(wk[w]) /\ TodoOK(wk[w], A)
      /\ wk[w].wg \in Nat /\ wk[w].lost \in Nat
  BY <1>1, Zenon DEF WorkInv, GoodWork, WorkTyped
<1>3. Edited(wk, wk', w, k)
  <2> HIDE DEF todo
  <2>1. wk' = [wk EXCEPT ![w].todo = todo, ![w].wg = wk[w].wg + 1, ![w].lost = wk[w].lost]
    BY Zenon DEF todo
  <2>2. QED
    BY <1>1, <1>2, <2>1, CountEdit, Zenon DEF WorkInv
<1>4. /\ IsWork(k) /\ k.pc = wk[w].pc /\ k.job = wk[w].job /\ k.nodes = wk[w].nodes
      /\ k.todo = todo /\ k.pods = wk[w].pods /\ k.wg = wk[w].wg + 1 /\ k.lost = wk[w].lost
  <2> HIDE DEF todo
  <2> QED  BY DEF WorkOf, IsWork
<1> HIDE DEF k
<1>5. /\ r.target \in MainsOf(wk[w].nodes) /\ r.target \in Mains /\ r.pairs \subseteq Ports
      /\ \A q \in wk[w].todo : q.target = r.target => q = r
      /\ \A u \in A : u.target # r.target
  BY <1>2, Zenon DEF TodoOK
<1>6. AssignsIn(tasks \union {t}, w) = A \union {t} /\ t \notin A
  BY <1>5 DEF AssignsIn, AssignsOf
<1>7. GoodWork(k, A \union {t})
  <2>1. WorkTyped(k)
    <3>1. k.wg \in Nat /\ k.lost \in Nat
      BY <1>2, <1>4
    <3>2. QED
      BY <1>2, <1>4, <3>1, Zenon DEF WorkTyped
  <2>2. TodoOK(k, A \union {t})
    <3>1. \A q \in todo : q.kind = k.pc /\ q.target # r.target
      BY <1>2, <1>4, <1>5, Zenon DEF TodoOK
    <3>2. ASSUME NEW q \in todo
          PROVE  /\ q.target \in MainsOf(k.nodes) /\ q.target \in Mains /\ q.pairs \subseteq Ports
                 /\ \A p \in k.todo : p.target = q.target => p = q
                 /\ \A u \in A \union {t} : u.target # q.target
      <4> HIDE DEF A
      <4>1. q \in wk[w].todo /\ todo \subseteq wk[w].todo /\ q.target # t.target
        BY <3>1, Zenon
      <4> HIDE DEF todo
      <4>2. /\ q.target \in MainsOf(wk[w].nodes) /\ q.target \in Mains /\ q.pairs \subseteq Ports
            /\ \A p \in wk[w].todo : p.target = q.target => p = q
            /\ \A u \in A : u.target # q.target
        BY <1>2, <4>1, Zenon DEF TodoOK
      <4>3. QED
        BY <1>4, <4>1, <4>2
    <3>3. QED
      BY <1>4, <3>1, <3>2 DEF TodoOK
  <2>3. k.wg = k.lost + Cardinality(A \union {t})
    <3>1. Cardinality(A \union {t}) = Cardinality(A) + 1
      BY <1>1, <1>6, TasksOfPhase, FS_AddElement
    <3>2. /\ Cardinality(A) \in Nat /\ wk[w].wg = wk[w].lost + Cardinality(A)
      BY <1>1, TasksOfPhase, Zenon
    <3> HIDE DEF A
    <3>3. QED
      BY <1>2, <1>4, <3>1, <3>2
  <2>4. QED
    BY <2>1, <2>2, <2>3, Zenon DEF GoodWork
<1>8. ASSUME NEW u \in tasks \union {t}, u.w = w PROVE GoodTask(u, k)
  <2>1. CASE u \in tasks
    <3>1. GoodTask(u, wk[w])
      BY <1>1, <1>8, <2>1, Zenon DEF TaskInv
    <3>2. QED
      BY <1>4, <3>1, Zenon DEF GoodTask
  <2>2. CASE u = t
    BY <1>4, <1>5, <2>2 DEF GoodTask
  <2>3. QED
    BY <1>8, <2>1, <2>2
<1>9. WorkInv' /\ TaskInv' /\ ShareInv'
  <2>1. GoodWork(k, AssignsIn(tasks \union {t}, w))
    BY <1>6, <1>7, Zenon
  <2>2. \A x \in {t} : IsTask(x) /\ x.w = w /\ KeyOK(x)
    BY Zenon DEF KeyOK
  <2>3. \A x \in {t}, u \in tasks \union {t} :
            x.kind = "assign" /\ u.kind = "assign" /\ u.w = w /\ u.target = x.target => u = x
    BY <1>5 DEF AssignsOf
  <2>4. \A u \in tasks \union {t} : u.w = w => GoodTask(u, k)
    BY <1>8
  <2>5. Fitting(w, k, {t})
    BY <2>1, <2>2, <2>3, <2>4, Zenon DEF Fitting
  <2>6. QED
    BY <1>1, <1>3, <2>5, WorkStep, Zenon
<1>10. AskedInv'
  <2>1. Asked(wk[w])
    BY <1>1, Zenon DEF AskedInv
  <2>2. Asked(k)
    BY <1>4, <2>1 DEF Asked
  <2>3. QED
    BY <1>1, <1>3, <2>2, AskedKept, Zenon
<1>11. up' \in BOOLEAN
  BY <1>1, Zenon DEF RestInv
<1>12. RestInv'
  BY <1>1, <1>11, RestKept, Zenon
<1>13. QED
  BY <1>9, <1>10, <1>12, Zenon DEF OpsInv

LEMMA IssueStep ==
    ASSUME OpsInv, NEW w \in Workers,
           NEW phase \in {"create", "attach", "assign", "unassign"}, Issue(w, phase)
    PROVE  OpsInv'
<1>1. WorkInv /\ TaskInv
  BY DEF OpsInv
<1>2. PICK r \in wk[w].todo :
        LET new == Submitted(w, r) IN
        /\ tasks' = tasks \union new
        /\ wk' = [wk EXCEPT ![w].todo = @ \ {r}, ![w].wg = @ + 1,
                            ![w].lost = IF \E t \in new : CallsBack(t) THEN @ ELSE @ + 1]
  BY DEF Issue
<1> DEFINE new == Submitted(w, r)
           todo == wk[w].todo \ {r}
           back == \E t \in new : CallsBack(t)
<1>3. /\ tasks' = tasks \union new
      /\ wk' = [wk EXCEPT ![w].todo = todo, ![w].wg = wk[w].wg + 1,
                          ![w].lost = IF back THEN wk[w].lost ELSE wk[w].lost + 1]
  BY <1>2
<1>4. wk[w].pc = phase /\ UNCHANGED <<up, snevch, sent, cloud, assigned>>
  BY DEF Issue
<1>5. r.kind = phase /\ (phase = "create" => r.n \in Int)
  <2>1. TodoOK(wk[w], AssignsOf(w))
    BY <1>1, Zenon DEF WorkInv, GoodWork
  <2>2. QED
    BY <1>4, <2>1, Zenon DEF TodoOK
<1>6. /\ \A t \in new : /\ IsTask(t) /\ t.kind = r.kind /\ t.target = r.target
                        /\ t.pairs = r.pairs /\ t.w = w /\ t.job = wk[w].job
                        /\ t.key = <<>> /\ t.leads = FALSE
      /\ r.kind # "create" => new \subseteq {Task(w, r, 1)}
      /\ IsFiniteSet(tasks \union new)
      /\ \A c \in BOOLEAN : Cardinality(OfPool(tasks \union new, c)) <= PoolCap
  BY <1>1, <1>5, SubmittedFacts, Zenon
<1>7. todo \subseteq wk[w].todo
  OBVIOUS
<1> HIDE DEF new, todo
<1>9. CASE back
  <2>1. PICK t \in new : t.kind = "assign"
    BY <1>9, Zenon DEF CallsBack
  <2>2. phase = "assign"
    BY <1>5, <1>6, <2>1, Zenon
  <2>3. new = {t}
    BY <1>5, <1>6, <2>1, <2>2
  <2>4. wk' = [wk EXCEPT ![w].todo = todo, ![w].wg = wk[w].wg + 1, ![w].lost = wk[w].lost]
    BY <1>3, <1>9, Zenon
  <2>5. /\ IsTask(t) /\ t.w = w /\ t.key = <<>> /\ t.leads = FALSE
        /\ t.target = r.target /\ t.pairs = r.pairs /\ t.job = wk[w].job
    BY <1>6, <2>1, Zenon
  <2>6. /\ tasks' = tasks \union {t} /\ IsFiniteSet(tasks \union {t})
        /\ \A c \in BOOLEAN : Cardinality(OfPool(tasks \union {t}, c)) <= PoolCap
    BY <1>3, <1>6, <2>3, Zenon
  <2>7. QED
    BY <1>4, <2>1, <2>2, <2>4, <2>5, <2>6, AssignStep, Zenon DEF todo
<1>10. CASE ~back
  <2> DEFINE n == 1
  <2>1. wk' = [wk EXCEPT ![w].todo = todo, ![w].wg = wk[w].wg + n,
                         ![w].lost = wk[w].lost + n]
    BY <1>3, <1>10, Zenon
  <2>2. \A t \in new : /\ IsTask(t) /\ t.w = w /\ t.key = <<>> /\ t.leads = FALSE
                       /\ t.kind # "assign"
                       /\ t.kind = "create" => wk[w].pc = "create" /\ n > 0
    BY <1>4, <1>5, <1>6, <1>10 DEF CallsBack
  <2>3. n \in Nat /\ n > 0
    OBVIOUS
  <2> HIDE DEF n
  <2>4. Uncalled(w, n, new)
    BY <1>6, <2>2, Zenon DEF Uncalled
  <2>5. QED
    BY <1>3, <1>4, <1>7, <2>1, <2>3, <2>4, LostStep, Zenon
<1>11. QED
  BY <1>9, <1>10

\* Arithmetic for the bound of a pool.
LEMMA AtMost == \A a, b, c \in Nat : a <= b /\ b <= c => a <= c
OBVIOUS

\* What a node of an event removes is finite.
LEMMA RemovedFacts ==
    ASSUME NEW ev \in Events, NEW no \in ev, \A po \in no.pools : po.remove # NoSet
    PROVE  /\ IsFiniteSet(no.remove)
           /\ Cardinality(no.remove)
                + Cardinality(UNION {{po} \X po.remove : po \in no.pools}) \in Nat
<1> DEFINE S == {{po} \X po.remove : po \in no.pools}
           f == [po \in no.pools |-> {po} \X po.remove]
<1>1. IsFiniteSet(no.remove) /\ IsFiniteSet(no.pools)
  BY EventsAssumption, Zenon
<1>2. \A po \in no.pools : IsFiniteSet({po} \X po.remove)
  <2>1. \A po \in no.pools : IsFiniteSet(po.remove) /\ IsFiniteSet({po})
    BY EventsAssumption, FS_Singleton, Zenon
  <2>2. QED
    BY <2>1, FS_Product, Zenon
<1>3. f = [po \in no.pools |-> f[po]] /\ S = {f[po] : po \in no.pools}
  OBVIOUS
<1>4. IsFiniteSet(S)
  <2> HIDE DEF f, S
  <2> QED  BY <1>1, <1>3, FiniteImage, Zenon
<1>5. \A T \in S : IsFiniteSet(T)
  BY <1>2, Zenon
<1>6. IsFiniteSet(UNION S)
  <2> HIDE DEF S
  <2> QED  BY <1>4, <1>5, FS_UNION, Zenon
<1>7. Cardinality(no.remove) \in Nat /\ Cardinality(UNION S) \in Nat
  BY <1>1, <1>6, FS_CardinalityType, Zenon
<1> HIDE DEF S
<1>8. Cardinality(no.remove) + Cardinality(UNION S) \in Nat
  BY <1>7
<1>9. QED
  BY <1>1, <1>8 DEF S

LEMMA RemoveStep ==
    ASSUME OpsInv, NEW w \in Workers, RemoveNode(w)
    PROVE  OpsInv'
<1>1. WorkInv /\ TaskInv /\ ShareInv /\ RestInv /\ AskedInv
  BY DEF OpsInv
<1>2. wk[w].pc = "remove" /\ UNCHANGED <<snevch, sent, cloud, assigned>>
  BY DEF RemoveNode
<1>3. CASE up' = FALSE /\ UNCHANGED <<wk, tasks>>
  <2>1. WorkInv' /\ TaskInv' /\ ShareInv' /\ AskedInv'
    BY <1>1, <1>2, <1>3 DEF WorkInv, TaskInv, ShareInv, AskedInv, AssignsOf, InPool
  <2>2. up' \in BOOLEAN
    BY <1>3
  <2>3. RestInv'
    BY <1>1, <1>2, <2>2, RestKept, Zenon
  <2>4. QED
    BY <2>1, <2>3, Zenon DEF OpsInv
<1>4. CASE ~ (up' = FALSE /\ UNCHANGED <<wk, tasks>>)
  <2>1. PICK no \in wk[w].todo :
          /\ \A po \in no.pools : po.remove # NoSet
          /\ \E ids \in SUBSET no.remove :
                /\ Cardinality(ids) <= Free(FALSE)
                /\ tasks' = tasks \union
                      {Task(w, Request("detach", <<no.node, id>>, 1, {}), 1) : id \in ids}
          /\ LET unassign == UNION {{po} \X po.remove : po \in no.pools}
                 added == Cardinality(no.remove) + Cardinality(unassign)
             IN  wk' = [wk EXCEPT ![w].todo = @ \ {no}, ![w].wg = @ + added,
                                  ![w].lost = @ + added]
          /\ UNCHANGED up
    BY <1>4 DEF RemoveNode
  <2>2. PICK ids \in SUBSET no.remove :
          /\ Cardinality(ids) <= Free(FALSE)
          /\ tasks' = tasks \union
                {Task(w, Request("detach", <<no.node, id>>, 1, {}), 1) : id \in ids}
    BY <2>1
  <2> DEFINE added == Cardinality(no.remove)
                        + Cardinality(UNION {{po} \X po.remove : po \in no.pools})
             todo == wk[w].todo \ {no}
             f == [id \in ids |-> Task(w, Request("detach", <<no.node, id>>, 1, {}), 1)]
             new == {f[id] : id \in ids}
  <2>3. PICK ev \in Events : no \in ev
    <3>1. wk[w].todo \subseteq wk[w].nodes /\ wk[w].nodes \in Events \union {{}}
      BY <1>1, <1>2, Zenon DEF WorkInv, GoodWork, WorkTyped, TodoOK
    <3>2. QED
      BY <3>1
  <2>4. IsFiniteSet(no.remove) /\ added \in Nat
    BY <2>1, <2>3, RemovedFacts, Zenon
  <2>5. wk' = [wk EXCEPT ![w].todo = todo, ![w].wg = wk[w].wg + added,
                         ![w].lost = wk[w].lost + added]
    BY <2>1
  <2>6. tasks' = tasks \union new /\ f = [id \in ids |-> f[id]]
    BY <2>2
  <2>7. \A t \in new : /\ IsTask(t) /\ t.w = w /\ t.key = <<>> /\ t.leads = FALSE
                       /\ t.kind = "detach"
    BY DEF Task, Request, IsTask
  <2>8. todo \subseteq wk[w].todo
    OBVIOUS
  <2>9. new = {f[id] : id \in ids}
    OBVIOUS
  <2> HIDE DEF added, todo, f, new
  <2>10. IsFiniteSet(ids)
    BY <2>4, FS_Subset, Zenon
  <2>11. IsFiniteSet(new) /\ Cardinality(new) <= Cardinality(ids)
    BY <2>6, <2>9, <2>10, FiniteImage, Zenon
  <2>12. /\ Cardinality(new) \in Nat /\ Cardinality(ids) \in Nat /\ Free(FALSE) \in Nat
         /\ PoolCap \in Nat /\ FALSE \in BOOLEAN
    BY <1>1, <2>10, <2>11, FS_CardinalityType, FreeFacts, Zenon
  <2>13. Cardinality(new) <= Free(FALSE)
    <3>1. Cardinality(ids) <= Free(FALSE)
      BY <2>2, Zenon
    <3>2. QED
      BY <2>11, <2>12, <3>1, AtMost, Zenon
  <2>14. Cardinality(new) <= PoolCap - Cardinality(OfPool(tasks, FALSE))
    BY <2>13 DEF Free, InPool, OfPool
  <2>15. \A t \in new : (t.kind = "create") = FALSE
    BY <2>7
  <2>16. /\ IsFiniteSet(tasks)
         /\ \A c \in BOOLEAN : Cardinality(OfPool(tasks, c)) <= PoolCap
    BY <1>1, Zenon DEF TaskInv, InPool, OfPool
  <2>17. /\ IsFiniteSet(tasks \union new)
         /\ \A c \in BOOLEAN : Cardinality(OfPool(tasks \union new, c)) <= PoolCap
    BY <2>11, <2>12, <2>14, <2>15, <2>16, PoolRoom, Zenon
  <2>18. \A t \in new : /\ IsTask(t) /\ t.w = w /\ t.key = <<>> /\ t.leads = FALSE
                        /\ t.kind # "assign"
                        /\ t.kind = "create" => wk[w].pc = "create" /\ added > 0
    BY <2>7
  <2>19. wk[w].pc # "create" /\ UNCHANGED <<up, snevch, sent, cloud, assigned>>
    BY <1>2, <2>1
  <2>20. Uncalled(w, added, new)
    BY <2>17, <2>18, Zenon DEF Uncalled
  <2>21. QED
    BY <2>4, <2>5, <2>6, <2>8, <2>19, <2>20, LostStep, Zenon
<1>5. QED
  BY <1>3, <1>4

-------------------------------------------------------------------------------
(* The tasks. *)

\* One element in the place of another.
LEMMA Swapped ==
    ASSUME NEW S, IsFiniteSet(S), NEW t \in S, NEW u
    PROVE  /\ IsFiniteSet((S \ {t}) \union {u})
           /\ Cardinality((S \ {t}) \union {u}) <= Cardinality(S)
           /\ u \notin S \ {t} => Cardinality((S \ {t}) \union {u}) = Cardinality(S)
<1> DEFINE R == S \ {t}
<1>1. IsFiniteSet(R) /\ Cardinality(R) = Cardinality(S) - 1
  BY FS_RemoveElement
<1>2. Cardinality(R) \in Nat /\ Cardinality(S) \in Nat
  BY <1>1, FS_CardinalityType, Zenon
<1> HIDE DEF R
<1>3. /\ IsFiniteSet(R \union {u})
      /\ Cardinality(R \union {u}) = IF u \in R THEN Cardinality(R) ELSE Cardinality(R) + 1
  BY <1>1, FS_AddElement
<1>4. /\ IsFiniteSet(R \union {u})
      /\ Cardinality(R \union {u}) <= Cardinality(S)
      /\ u \notin R => Cardinality(R \union {u}) = Cardinality(S)
  BY <1>1, <1>2, <1>3
<1>5. QED
  BY <1>4 DEF R

LEMMA BeginStep ==
    ASSUME OpsInv, NEW t \in tasks, Begin(t)
    PROVE  OpsInv'
<1>1. WorkInv /\ TaskInv /\ ShareInv /\ RestInv /\ AskedInv
  BY DEF OpsInv
<1>2. t.key = <<>> /\ UNCHANGED <<up, snevch, sent, wk, cloud, assigned>>
  BY DEF Begin
<1>3. PICK key \in Keys(t), b \in BOOLEAN :
        tasks' = (tasks \ {t}) \union {[t EXCEPT !.key = key, !.leads = b]}
  BY DEF Begin
<1> DEFINE v == [t EXCEPT !.key = key, !.leads = b]
<1>4. tasks' = (tasks \ {t}) \union {v}
  BY <1>3
<1>5. IsTask(t) /\ t.w \in Workers /\ GoodTask(t, wk[t.w])
  BY <1>1, Zenon DEF TaskInv
<1>6. key # <<>> /\ key[1] = t.kind /\ key[2] = t.target
  BY DEF Keys
<1>7. /\ IsTask(v) /\ v.kind = t.kind /\ v.target = t.target
      /\ v.pairs = t.pairs /\ v.w = t.w /\ v.job = t.job
      /\ v.key = key /\ v.leads = b
  <2>1. t \in [kind : {t.kind}, target : {t.target}, n : {t.n}, pairs : {t.pairs},
              w : {t.w}, job : {t.job}, i : {t.i}, key : {t.key}, leads : {t.leads}]
    BY <1>5 DEF IsTask
  <2>2. v \in [kind : {t.kind}, target : {t.target}, n : {t.n}, pairs : {t.pairs},
              w : {t.w}, job : {t.job}, i : {t.i}, key : {key}, leads : {b}]
    BY <2>1
  <2> HIDE DEF v
  <2>3. QED
    BY <2>2, BegunTask
<1> HIDE DEF v
<1>8. KeyOK(v) /\ v # t
  BY <1>2, <1>6, <1>7 DEF KeyOK
<1>9. WorkInv'
  <2>1. ASSUME NEW w \in Workers PROVE GoodWork(wk[w], AssignsOf(w)')
    <3>1. GoodWork(wk[w], AssignsOf(w)) /\ IsFiniteSet(AssignsOf(w))
      BY <1>1, TasksOfPhase, Zenon DEF WorkInv
    <3>2. CASE t.kind = "assign" /\ t.w = w
      <4>1. AssignsOf(w)' = (AssignsOf(w) \ {t}) \union {v} /\ t \in AssignsOf(w)
        BY <1>4, <1>7, <3>2 DEF AssignsOf
      <4>2. v \notin AssignsOf(w) \ {t}
        BY <1>1, <1>7, <1>8, <3>2 DEF ShareInv, AssignsOf
      <4>3. Cardinality(AssignsOf(w)') = Cardinality(AssignsOf(w))
        BY <3>1, <4>1, <4>2, Swapped
      <4>4. TodoOK(wk[w], AssignsOf(w)')
        <5> DEFINE A == AssignsOf(w)
                   B == (A \ {t}) \union {v}
        <5>1. t \in A /\ TodoOK(wk[w], A) /\ AssignsOf(w)' = B
          BY <3>1, <4>1, Zenon DEF GoodWork
        <5> HIDE DEF A
        <5>2. \A u \in B : \E x \in A : u.target = x.target
          BY <1>7, <5>1
        <5> HIDE DEF B
        <5>3. TodoOK(wk[w], B)
          BY <5>1, <5>2 DEF TodoOK
        <5>4. QED
          BY <5>1, <5>3, Zenon
      <4>5. QED
        BY <3>1, <4>3, <4>4, Zenon DEF GoodWork
    <3>3. CASE ~ (t.kind = "assign" /\ t.w = w)
      <4>1. AssignsOf(w)' = AssignsOf(w)
        BY <1>4, <1>7, <3>3 DEF AssignsOf
      <4>2. QED
        BY <3>1, <4>1, Zenon
    <3>4. QED
      BY <3>2, <3>3, Zenon
  <2>2. QED
    BY <1>1, <1>2, <2>1, Zenon DEF WorkInv
<1>10. TaskInv'
  <2>1. IsFiniteSet(tasks')
    BY <1>1, <1>4, Swapped, Zenon DEF TaskInv
  <2>2. ASSUME NEW c \in BOOLEAN PROVE Cardinality(InPool(c)') <= PoolCap
    <3>1. IsFiniteSet(InPool(c)) /\ Cardinality(InPool(c)) <= PoolCap
      BY <1>1, FS_Subset DEF TaskInv, InPool
    <3>2. CASE (t.kind = "create") = c
      <4>1. InPool(c)' = (InPool(c) \ {t}) \union {v} /\ t \in InPool(c)
        BY <1>4, <1>7, <3>2 DEF InPool
      <4>2. IsFiniteSet(InPool(c)') /\ Cardinality(InPool(c)') <= Cardinality(InPool(c))
        <5>1. /\ IsFiniteSet((InPool(c) \ {t}) \union {v})
              /\ Cardinality((InPool(c) \ {t}) \union {v}) <= Cardinality(InPool(c))
          BY <3>1, <4>1, Swapped, Zenon
        <5>2. QED
          BY <4>1, <5>1, Zenon
      <4>3. /\ Cardinality(InPool(c)') \in Nat /\ Cardinality(InPool(c)) \in Nat
            /\ PoolCap \in Nat
        BY <1>1, <3>1, <4>2, FS_CardinalityType, FreeFacts, Zenon
      <4>4. QED
        BY <3>1, <4>2, <4>3, AtMost, Zenon
    <3>3. CASE (t.kind = "create") # c
      <4>1. InPool(c)' = InPool(c)
        BY <1>4, <1>7, <3>3 DEF InPool
      <4>2. QED
        BY <3>1, <4>1, Zenon
    <3>4. QED
      BY <3>2, <3>3, Zenon
  <2>3. ASSUME NEW u \in tasks'
        PROVE  IsTask(u) /\ u.w \in Workers /\ GoodTask(u, wk[u.w])
    <3>1. CASE u \in tasks
      BY <1>1, <3>1, Zenon DEF TaskInv
    <3>2. CASE u = v
      BY <1>5, <1>7, <3>2, Zenon DEF GoodTask
    <3>3. QED
      BY <1>4, <3>1, <3>2
  <2>4. QED
    BY <1>2, <2>1, <2>2, <2>3, Zenon DEF TaskInv
<1>11. ShareInv'
  <2>1. \A u \in tasks' : KeyOK(u)
    BY <1>1, <1>4, <1>8, Zenon DEF ShareInv
  <2>2. ASSUME NEW x \in tasks', NEW u \in tasks', x.kind = "assign", u.kind = "assign",
               x.w = u.w, x.target = u.target
        PROVE  x = u
    <3>1. ASSUME NEW y \in tasks, y # t, y.kind = v.kind, v.kind = "assign",
                 y.w = v.w, y.target = v.target
          PROVE  FALSE
      BY <1>1, <1>7, <3>1, Zenon DEF ShareInv
    <3>2. (x = v \/ (x \in tasks /\ x # t)) /\ (u = v \/ (u \in tasks /\ u # t))
      BY <1>4
    <3>3. QED
      BY <1>1, <2>2, <3>1, <3>2, Zenon DEF ShareInv
  <2>3. QED
    BY <2>1, <2>2, Zenon DEF ShareInv
<1>12. AskedInv' /\ RestInv'
  BY <1>1, <1>2 DEF AskedInv, RestInv
<1>13. QED
  BY <1>9, <1>10, <1>11, <1>12, Zenon DEF OpsInv

\* A call returns: its tasks leave, and each work is told of its own.
LEMMA LandStep ==
    ASSUME OpsInv, NEW t \in tasks, NEW ok \in BOOLEAN, Land(t, ok)
    PROVE  OpsInv'
<1> DEFINE S == Sharing(t)
           back(w) == Cardinality({u \in Sharing(t) : CallsBack(u) /\ u.w = w})
<1>1. WorkInv /\ TaskInv /\ ShareInv /\ RestInv /\ AskedInv
  BY DEF OpsInv
<1>2. /\ t.leads /\ tasks' = tasks \ S /\ UNCHANGED <<up, snevch, sent>>
      /\ wk' = [w \in Workers |-> IF ok THEN [wk[w] EXCEPT !.wg = @ - back(w)]
                                  ELSE [wk[w] EXCEPT !.lost = @ + back(w)]]
  BY DEF Land
<1>3. \A u \in S : u \in tasks /\ u.kind = t.kind /\ u.target = t.target
  BY <1>1, <1>2 DEF ShareInv, KeyOK, Sharing
<1>4. t \in S /\ \A u \in tasks : IsTask(u) /\ u.w \in Workers /\ GoodTask(u, wk[u.w])
  BY <1>1 DEF TaskInv, Sharing
<1>5. ASSUME NEW w \in Workers
      PROVE  /\ back(w) = Cardinality(AssignsOf(w) \cap S) /\ back(w) \in Nat
             /\ AssignsOf(w)' = AssignsOf(w) \ S
             /\ Cardinality(AssignsOf(w)') = Cardinality(AssignsOf(w)) - back(w)
             /\ Cardinality(AssignsOf(w)') \in Nat
  <2>1. {u \in Sharing(t) : CallsBack(u) /\ u.w = w} = AssignsOf(w) \cap S
    BY DEF CallsBack, Sharing, AssignsOf
  <2>2. AssignsOf(w)' = AssignsOf(w) \ S
    BY <1>2, Zenon DEF AssignsOf
  <2>3. IsFiniteSet(AssignsOf(w))
    BY <1>1, TasksOfPhase, Zenon
  <2> HIDE DEF S
  <2>4. /\ IsFiniteSet(AssignsOf(w) \cap S) /\ IsFiniteSet(AssignsOf(w) \ S)
        /\ Cardinality(AssignsOf(w) \ S)
             = Cardinality(AssignsOf(w)) - Cardinality(AssignsOf(w) \cap S)
    BY <2>3, FS_Difference, FS_Intersection, Zenon
  <2>5. Cardinality(AssignsOf(w) \cap S) \in Nat /\ Cardinality(AssignsOf(w) \ S) \in Nat
    BY <2>4, FS_CardinalityType, Zenon
  <2>6. QED
    BY <2>1, <2>2, <2>4, <2>5, Zenon
<1> HIDE DEF back
<1>6. ASSUME NEW w \in Workers
      PROVE  /\ IsWork(wk'[w]) /\ wk'[w].pc = wk[w].pc /\ wk'[w].job = wk[w].job
             /\ wk'[w].nodes = wk[w].nodes /\ wk'[w].todo = wk[w].todo
             /\ wk'[w].pods = wk[w].pods
             /\ wk'[w].wg = IF ok THEN wk[w].wg - back(w) ELSE wk[w].wg
             /\ wk'[w].lost = IF ok THEN wk[w].lost ELSE wk[w].lost + back(w)
  <2> DEFINE k == wk[w]
  <2>1. IsWork(k)
    BY <1>1, TasksOfPhase, Zenon
  <2>2. CASE ok
    <3>1. wk'[w] = [k EXCEPT !.wg = k.wg - back(w)]
      BY <1>2, <2>2
    <3>2. wk'[w] = WorkOf(k.pc, k.job, k.nodes, k.todo, k.pods, k.wg - back(w), k.lost)
      <4> HIDE DEF k
      <4> QED  BY <2>1, <3>1, CountedWork, Zenon
    <3>3. QED
      BY <2>2, <3>2 DEF WorkOf, IsWork
  <2>3. CASE ~ok
    <3>1. wk'[w] = [k EXCEPT !.lost = k.lost + back(w)]
      BY <1>2, <2>3
    <3>2. wk'[w] = WorkOf(k.pc, k.job, k.nodes, k.todo, k.pods, k.wg, k.lost + back(w))
      <4> HIDE DEF k
      <4> QED  BY <2>1, <3>1, CountedWork, Zenon
    <3>3. QED
      BY <2>3, <3>2 DEF WorkOf, IsWork
  <2>4. QED
    BY <2>2, <2>3
<1>7. ASSUME NEW w \in Workers
      PROVE  /\ wk'[w].wg \in Nat /\ wk'[w].lost \in Nat
             /\ wk'[w].wg = wk'[w].lost + Cardinality(AssignsOf(w)')
             /\ wk[w].lost > 0 => wk'[w].lost > 0
  <2>1. /\ wk[w].wg \in Nat /\ wk[w].lost \in Nat /\ Cardinality(AssignsOf(w)) \in Nat
        /\ wk[w].wg = wk[w].lost + Cardinality(AssignsOf(w))
    BY <1>1, TasksOfPhase, Zenon
  <2> DEFINE c == Cardinality(AssignsOf(w))
             d == Cardinality(AssignsOf(w)')
  <2>2. c \in Nat /\ d \in Nat /\ back(w) \in Nat /\ d = c - back(w)
    BY <1>5, <2>1, Zenon
  <2>3. wk[w].wg = wk[w].lost + c
    BY <2>1, Zenon
  <2> HIDE DEF c, d
  <2>4. /\ wk'[w].wg \in Nat /\ wk'[w].lost \in Nat /\ wk'[w].wg = wk'[w].lost + d
        /\ wk[w].lost > 0 => wk'[w].lost > 0
    BY <1>6, <2>1, <2>2, <2>3
  <2>5. QED
    BY <2>4 DEF d
<1>8. WorkInv'
  <2>1. ASSUME NEW w \in Workers PROVE GoodWork(wk'[w], AssignsOf(w)')
    <3>1. WorkTyped(wk[w]) /\ TodoOK(wk[w], AssignsOf(w))
      BY <1>1, Zenon DEF WorkInv, GoodWork
    <3>2. WorkTyped(wk'[w])
      BY <1>6, <1>7, <3>1, Zenon DEF WorkTyped
    <3>3. TodoOK(wk'[w], AssignsOf(w)')
      <4>1. \A u \in AssignsOf(w)' : u \in AssignsOf(w)
        BY <1>5
      <4>2. QED
        BY <1>6, <3>1, <4>1 DEF TodoOK
    <3>4. QED
      BY <1>7, <3>2, <3>3, Zenon DEF GoodWork
  <2>2. wk' = [w \in Workers |-> wk'[w]]
    BY <1>2
  <2>3. QED
    BY <2>1, <2>2, Zenon DEF WorkInv
<1>9. TaskInv'
  <2>1. IsFiniteSet(tasks')
    BY <1>1, <1>2, FS_Difference, Zenon DEF TaskInv
  <2>2. ASSUME NEW c \in BOOLEAN PROVE Cardinality(InPool(c)') <= PoolCap
    <3>1. IsFiniteSet(InPool(c)) /\ Cardinality(InPool(c)) <= PoolCap
      BY <1>1, FS_Subset DEF TaskInv, InPool
    <3> DEFINE P == InPool(c)
               Q == InPool(c)'
    <3>2. Q \in SUBSET P
      BY <1>2 DEF InPool
    <3>3. IsFiniteSet(P) /\ Cardinality(P) <= PoolCap
      BY <3>1, Zenon
    <3> HIDE DEF P, Q
    <3>4. IsFiniteSet(Q) /\ Cardinality(Q) <= Cardinality(P)
      BY <3>2, <3>3, FS_Subset, Zenon
    <3>5. Cardinality(P) \in Nat /\ Cardinality(Q) \in Nat /\ PoolCap \in Nat
      BY <1>1, <3>3, <3>4, FS_CardinalityType, FreeFacts, Zenon
    <3>6. Cardinality(Q) <= PoolCap
      BY <3>3, <3>4, <3>5, AtMost, Zenon
    <3>7. QED
      BY <3>6, Zenon DEF Q
  <2>3. ASSUME NEW u \in tasks'
        PROVE  IsTask(u) /\ u.w \in Workers /\ GoodTask(u, wk'[u.w])
    <3>1. u \in tasks
      BY <1>2
    <3>2. IsTask(u) /\ u.w \in Workers /\ GoodTask(u, wk[u.w])
      BY <1>4, <3>1, Zenon
    <3>3. QED
      BY <1>6, <1>7, <3>2, Zenon DEF GoodTask
  <2>4. QED
    BY <2>1, <2>2, <2>3, Zenon DEF TaskInv
<1>10. ShareInv'
  <2>1. \A u \in tasks' : u \in tasks
    BY <1>2
  <2>2. QED
    BY <1>1, <2>1, Zenon DEF ShareInv
<1>11. AskedInv'
  <2>1. ASSUME NEW w \in Workers PROVE Asked(wk'[w])
    <3>1. Asked(wk[w])
      BY <1>1, Zenon DEF AskedInv
    <3>2. QED
      BY <1>6, <1>7, <3>1, Zenon DEF Asked
  <2>2. QED
    BY <2>1, Zenon DEF AskedInv
<1>12. t.kind = "assign" => t.target \in Mains /\ t.pairs \subseteq Ports
  BY <1>4, Zenon DEF GoodTask
<1>13. /\ assigned' = IF ok /\ t.kind = "assign"
                      THEN [assigned EXCEPT ![t.target] = @ \union t.pairs]
                      ELSE assigned
       /\ cloud' = cloud \/ \E p \in Ports : cloud' = cloud \union {p}
  BY DEF Land
<1>14. assigned' \in [Mains -> SUBSET Ports]
  <2>1. assigned \in [Mains -> SUBSET Ports]
    BY <1>1, Zenon DEF RestInv
  <2>2. QED
    BY <1>12, <1>13, <2>1
<1>15. RestInv'
  <2>1. cloud' \subseteq Ports
    BY <1>1, <1>13 DEF RestInv
  <2>2. QED
    BY <1>1, <1>2, <1>14, <2>1, Zenon DEF RestInv
<1>16. QED
  BY <1>8, <1>9, <1>10, <1>11, <1>15, Zenon DEF OpsInv

\* Nobody works, and no task is under way.
LEMMA FreshWorkers ==
    wk = [w \in Workers |-> NoWork] /\ tasks = {} =>
        WorkInv /\ TaskInv /\ ShareInv /\ AskedInv
<1> SUFFICES ASSUME wk = [w \in Workers |-> NoWork], tasks = {}
             PROVE  WorkInv /\ TaskInv /\ ShareInv /\ AskedInv
  OBVIOUS
<1>1. \A w \in Workers : wk[w] = NoWork /\ AssignsOf(w) = {}
  BY DEF AssignsOf
<1>2. GoodWork(NoWork, {})
  <2>1. NoWork.wg = NoWork.lost + Cardinality({})
    BY NoWorkFacts, FS_EmptySet
  <2>2. QED
    BY <2>1, NoWorkFacts, Zenon DEF GoodWork
<1>3. WorkInv
  <2>1. wk = [w \in Workers |-> wk[w]]
    OBVIOUS
  <2>2. QED
    BY <1>1, <1>2, <2>1, Zenon DEF WorkInv
<1>4. TaskInv
  <2>1. \A c \in BOOLEAN : InPool(c) = {}
    BY DEF InPool
  <2>2. PoolCap \in Nat /\ 0 <= PoolCap
    BY CapAssumption
  <2>3. \A c \in BOOLEAN : Cardinality(InPool(c)) <= PoolCap
    BY <2>1, <2>2, FS_EmptySet
  <2>4. QED
    BY <2>3, FS_EmptySet DEF TaskInv
<1>5. ShareInv
  BY DEF ShareInv
<1>6. AskedInv
  <2>1. Asked(NoWork)
    BY NoWorkFacts DEF Asked, Phases
  <2>2. QED
    BY <1>1, <2>1, Zenon DEF AskedInv
<1>7. QED
  BY <1>3, <1>4, <1>5, <1>6

LEMMA RestartStep ==
    ASSUME OpsInv, Restart
    PROVE  OpsInv'
<1>1. /\ up' = TRUE /\ snevch' = <<>> /\ tasks' = {} /\ wk' = [w \in Workers |-> NoWork]
      /\ UNCHANGED <<sent, cloud, assigned>>
  BY DEF Restart
<1>2. (WorkInv /\ TaskInv /\ ShareInv /\ AskedInv)'
  <2>1. (wk = [w \in Workers |-> NoWork] /\ tasks = {})'
    BY <1>1
  <2>2. QED
    BY <2>1, FreshWorkers, PTL
<1>3. snevch' \in Seq([job : Nat, nodes : Events]) /\ Len(snevch') <= ChanCap
  BY <1>1, CapAssumption
<1>4. RestInv'
  BY <1>1, <1>3 DEF OpsInv, RestInv
<1>5. QED
  BY <1>2, <1>4, Zenon DEF OpsInv

LEMMA OpsInit == Init => OpsInv
<1> SUFFICES ASSUME Init PROVE OpsInv
  OBVIOUS
<1>1. WorkInv /\ TaskInv /\ ShareInv /\ AskedInv
  BY FreshWorkers DEF Init
<1>2. snevch \in Seq([job : Nat, nodes : Events]) /\ Len(snevch) <= ChanCap
  BY CapAssumption DEF Init
<1>3. RestInv
  BY <1>2, CapAssumption, PortsAssumption DEF Init, RestInv
<1>4. QED
  BY <1>1, <1>3, Zenon DEF OpsInv

LEMMA OpsStep == OpsInv /\ [Next]_vars => OpsInv'
<1> SUFFICES ASSUME OpsInv, [Next]_vars PROVE OpsInv'
  OBVIOUS
<1>1. CASE \E ev \in Events : HandleSubnatEvent(ev)
  BY <1>1, HandleStep
<1>2. ASSUME NEW w \in Workers, Take(w) \/ Work(w) \/ EachInterfaceError(w)
      PROVE  OpsInv'
  <2>1. CASE \E phase \in {"create", "attach", "assign", "unassign"} : Issue(w, phase)
    BY <2>1, IssueStep, Zenon
  <2>2. CASE WaitCreated(w)
    BY <2>2, CreatedStep, Zenon
  <2>3. CASE AttachesIssued(w)
    BY <2>3, AttachesStep, Zenon
  <2>4. CASE AssignsIssued(w)
    BY <2>4, AssignsStep, Zenon
  <2>5. CASE RemoveNode(w)
    BY <2>5, RemoveStep, Zenon
  <2>6. CASE RemovesIssued(w)
    BY <2>6, RemovesStep, Zenon
  <2>7. CASE WaitEnd(w) \/ EachInterfaceError(w)
    BY <2>7, ErrorStep, Zenon
  <2>8. CASE Take(w)
    BY <2>8, TakeStep, Zenon
  <2>9. QED
    BY <1>2, <2>1, <2>2, <2>3, <2>4, <2>5, <2>6, <2>7, <2>8, Zenon DEF Work
<1>3. CASE Tasks
  <2>1. PICK t \in tasks : Begin(t) \/ \E ok \in BOOLEAN : Land(t, ok)
    BY <1>3, Zenon DEF Tasks
  <2>2. QED
    BY <2>1, BeginStep, LandStep, Zenon
<1>4. CASE Restart
  BY <1>4, RestartStep
<1>5. CASE UNCHANGED vars
  BY <1>5 DEF vars, process, OpsInv, WorkInv, TaskInv, ShareInv, RestInv, AskedInv,
              AssignsOf, InPool
<1>6. QED
  BY <1>1, <1>2, <1>3, <1>4, <1>5, Zenon DEF Next

\* The inductive invariant of the operations: what a wait group counts, what
\* the pools hold, and which works two tasks of one call belong to
\* (infraops.go:94-201, openstack.go:530-575).
THEOREM OpsCorrect == Spec => []OpsInv
BY OpsInit, OpsStep, PTL DEF Spec

\* The tasks of the present work of w that call back are its assignments.
LEMMA CallsOfWork ==
    ASSUME OpsInv, NEW w \in Workers
    PROVE  {t \in TaskOf(w) : CallsBack(t)} = AssignsOf(w)
BY DEF OpsInv, TaskInv, GoodTask, TaskOf, CallsBack, AssignsOf

\* The wait group of a work counts the callbacks that will come and those
\* that never will, for any events and any capacity of the pools, also when
\* a pool refuses a task or a call fails (infraops.go:94-201).
THEOREM WaitGroupCounts == Spec => []CountsCallbacks
<1>1. OpsInv => CountsCallbacks
  <2> SUFFICES ASSUME OpsInv PROVE CountsCallbacks
    OBVIOUS
  <2>1. WorkInv /\ TaskInv /\ RestInv
    BY DEF OpsInv
  <2>2. \A w \in Workers : /\ wk[w].pc \in Phases \union {"idle"}
                           /\ wk[w].wg \in Nat /\ wk[w].lost \in Nat
    BY <2>1, Zenon DEF WorkInv, GoodWork, WorkTyped
  <2>3. TypeOK
    BY <2>1, <2>2, Zenon DEF TypeOK, RestInv, TaskInv
  <2>4. \A w \in Workers :
          wk[w].wg = wk[w].lost + Cardinality({t \in TaskOf(w) : CallsBack(t)})
    BY <2>1, CallsOfWork, Zenon DEF WorkInv, GoodWork
  <2>5. QED
    BY <2>3, <2>4, Zenon DEF CountsCallbacks
<1>2. QED
  BY <1>1, OpsCorrect, PTL

\* Whatever the events, the pools and the answers of the API: a work that
\* asked for a port never gets past its first wait, so the works that list,
\* attach, assign and remove are those that asked for none (infraops.go:121,
\* openstack.go:218-223).
THEOREM CreatorsWaitForever == Spec => []CreatorsNeverList
<1>1. OpsInv => CreatorsNeverList
  BY DEF OpsInv, AskedInv, Asked, CreatorsNeverList
<1>2. QED
  BY <1>1, OpsCorrect, PTL
===============================================================================
