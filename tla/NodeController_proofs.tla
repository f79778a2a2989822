------------------------ MODULE NodeController_proofs ------------------------
(***************************************************************************)
(* Proofs about NodeController, for every set of nodes, every channel      *)
(* capacity and every bound on the watch; and, in the last part, about its *)
(* composition with the pool controller.                                   *)
(***************************************************************************)
EXTENDS NodePools, TLAPS

-------------------------------------------------------------------------------
(* Facts about the operators the actions are built from.                   *)

LEMMA AbsentType == Absent \in Objects
BY DEF Absent, Objects

LEMMA NoInfoType == NoInfo \in NodeInfos
BY DEF NoInfo, NodeInfos

\* A patched or settled object is an object.
LEMMA PatchedType ==
    ASSUME NEW o \in Objects, NEW from, NEW to \in SUBSET (Foreign \union {Ctl})
    PROVE  Settle(o) \in Objects /\ Patched(o, from, to) \in Objects
BY AbsentType DEF Settle, Patched, Objects

\* The operations keep a mutex a mutex.
LEMMA MutexType ==
    ASSUME NEW m \in Mutexes(NodeThreads), NEW t \in NodeThreads
    PROVE  /\ Announce(m, t) \in Mutexes(NodeThreads)
           /\ Lock(m, t) \in Mutexes(NodeThreads)
           /\ Unlock(m) \in Mutexes(NodeThreads)
           /\ RLock(m, t) \in Mutexes(NodeThreads)
           /\ RUnlock(m, t) \in Mutexes(NodeThreads)
BY DEF Mutexes, Announce, Lock, Unlock, RLock, RUnlock

LEMMA UnlockedType == Unlocked \in Mutexes(NodeThreads)
BY DEF Mutexes, Unlocked

LEMMA RecordedType ==
    ASSUME NEW info \in NodeInfos, NEW o \in Objects
    PROVE  Recorded(info, o) \in NodeInfos
BY DEF Recorded, NodeInfos, Objects

\* Edits of one field.
LEMMA EditType ==
    ASSUME NEW o \in Objects, NEW i \in Insts \union {NoInst},
           NEW F \in SUBSET (Foreign \union {Ctl})
    PROVE  /\ [o EXCEPT !.inst = i] \in Objects
           /\ [o EXCEPT !.del = TRUE] \in Objects
           /\ [o EXCEPT !.fins = F] \in Objects
BY DEF Objects

LEMMA IdleType == RecIdle \in Recs /\ HndIdle \in Hnds
BY AbsentType, NoInfoType DEF RecIdle, HndIdle, Recs, Hnds

LEMMA RecStep ==
    ASSUME NEW r \in Recs,
           NEW q \in {"idle", "lock", "wait", "remove", "send", "patch"}
    PROVE  /\ [r EXCEPT !.pc = q] \in Recs
           /\ [r EXCEPT !.pc = q].pc = q
           /\ [r EXCEPT !.pc = q].name = r.name
           /\ [r EXCEPT !.pc = q].in = r.in
BY DEF Recs

LEMMA HndStep ==
    ASSUME NEW h \in Hnds,
           NEW q \in {"idle", "rlock", "copy", "callback", "enter", "each", "stuck"}
    PROVE  /\ [h EXCEPT !.pc = q] \in Hnds
           /\ [h EXCEPT !.pc = q].pc = q
           /\ [h EXCEPT !.pc = q].name = h.name
           /\ [h EXCEPT !.pc = q].ori = h.ori
BY DEF Hnds

LEMMA HndCopied ==
    ASSUME NEW h \in Hnds, NEW info \in NodeInfos
    PROVE  LET g == [h EXCEPT !.pc = "callback", !.ori = info]
           IN  g \in Hnds /\ g.pc = "callback" /\ g.name = h.name /\ g.ori = info
BY DEF Hnds

LEMMA DeepCopyType ==
    ASSUME NEW info \in NodeInfos
    PROVE  DeepCopy(info) \in NodeInfos /\ DeepCopy(info).known = info.known
BY DEF DeepCopy, NodeInfos

\* Storing an object keeps the store and the watch well typed.
LEMMA StoreType ==
    ASSUME apiNode \in [Nodes -> Objects], watch \in [Nodes -> Seq(Objects)],
           NEW n \in Nodes, NEW o \in Objects, Store(n, o)
    PROVE  /\ apiNode' \in [Nodes -> Objects]
           /\ watch' \in [Nodes -> Seq(Objects)]
<1>1. apiNode' \in [Nodes -> Objects]
  BY DEF Store
<1>2. Append(watch[n], o) \in Seq(Objects)
  OBVIOUS
<1>3. watch' \in [Nodes -> Seq(Objects)]
  BY <1>2 DEF Store
<1>4. QED
  BY <1>1, <1>3

-------------------------------------------------------------------------------
(* Type correctness.                                                       *)

\* Every action keeps TypeOK.
LEMMA TypeStep == TypeOK /\ [Next]_vars => TypeOK'
<1> SUFFICES ASSUME TypeOK, [Next]_vars PROVE TypeOK'
  OBVIOUS
<1> USE DEF TypeOK
<1>1. ASSUME NEW n \in Nodes, NEW i \in Insts \union {NoInst}, CreateNode(n, i)
      PROVE  TypeOK'
  <2>1. [ex |-> TRUE, inst |-> i, del |-> FALSE, fins |-> {}] \in Objects
    BY DEF Objects
  <2>2. QED
    BY <1>1, <2>1, StoreType DEF CreateNode, memVars
<1>2. ASSUME NEW n \in Nodes, NEW i \in Insts \union {NoInst}, AnnotateNode(n, i)
      PROVE  TypeOK'
  <2>1. [apiNode[n] EXCEPT !.inst = i] \in Objects
    BY EditType
  <2>2. QED
    BY <1>2, <2>1, StoreType DEF AnnotateNode, memVars
<1>3. ASSUME NEW n \in Nodes, DeleteNode(n) PROVE TypeOK'
  <2>1. [apiNode[n] EXCEPT !.del = TRUE] \in Objects
    BY EditType
  <2>2. Settle([apiNode[n] EXCEPT !.del = TRUE]) \in Objects
    BY <2>1, PatchedType
  <2>3. QED
    BY <1>3, <2>2, StoreType DEF DeleteNode, memVars
<1>4. ASSUME NEW n \in Nodes, NEW f \in Foreign, ForeignFinalizer(n, f)
      PROVE  TypeOK'
  <2> apiNode[n].fins \subseteq Foreign \union {Ctl}
    BY DEF Objects
  <2>1. /\ [apiNode[n] EXCEPT !.fins = @ \ {f}] \in Objects
        /\ [apiNode[n] EXCEPT !.fins = @ \union {f}] \in Objects
    BY EditType
  <2>2. Settle([apiNode[n] EXCEPT !.fins = @ \ {f}]) \in Objects
    BY <2>1, PatchedType
  <2>3. PICK o \in Objects : Store(n, o)
    BY <1>4, <2>1, <2>2 DEF ForeignFinalizer
  <2>4. QED
    BY <1>4, <2>3, StoreType DEF ForeignFinalizer, memVars
<1>5. ASSUME NEW n \in Nodes, SyncNode(n) PROVE TypeOK'
  <2>1. watch[n] \in Seq(Objects) /\ watch[n] # <<>>
    BY <1>5 DEF SyncNode
  <2>2. Head(watch[n]) \in Objects /\ Tail(watch[n]) \in Seq(Objects)
    BY <2>1
  <2>3. QED
    BY <1>5, <2>2 DEF SyncNode
<1>6. ASSUME NEW n \in Nodes, Heartbeat(n) PROVE TypeOK'
  BY <1>6 DEF Heartbeat, kubeVars
<1>7. ASSUME NEW n \in Nodes, ReconcileGet(n) PROVE TypeOK'
  <2>1. cacheNode[n] \in Objects
    OBVIOUS
  <2>2. [pc |-> "lock", name |-> n, in |-> cacheNode[n]] \in Recs
    BY <2>1 DEF Recs
  <2>3. QED
    BY <1>7, <2>2 DEF ReconcileGet, kubeVars
<1>8. ASSUME NEW n \in Nodes, ReconcileGetError(n) PROVE TypeOK'
  BY <1>8 DEF ReconcileGetError, vars
<1>9. CASE ReconcileLock
  BY <1>9, MutexType, RecStep DEF ReconcileLock, NodeThreads, kubeVars
<1>10. CASE ReconcileRecord
  <2>1. rec.name \in Nodes /\ rec.in \in Objects
    BY <1>10 DEF ReconcileRecord, Recs
  <2>2. Recorded(node[rec.name], rec.in) \in NodeInfos
    BY <2>1, RecordedType
  <2>3. node' \in [Nodes -> NodeInfos]
    BY <1>10, <2>1, <2>2 DEF ReconcileRecord
  <2>4. /\ Lock(nodeMu, "rec") \in Mutexes(NodeThreads)
        /\ Unlock(Lock(nodeMu, "rec")) \in Mutexes(NodeThreads)
    BY MutexType DEF NodeThreads
  <2>5. nodeMu' \in Mutexes(NodeThreads)
    BY <1>10, <2>4 DEF ReconcileRecord
  <2>6. rec' \in Recs /\ (rec'.pc # "idle" => rec'.name \in Nodes)
    <3>1. RecIdle.pc = "idle"
      BY DEF RecIdle
    <3>2. /\ [rec EXCEPT !.pc = "remove"] \in Recs
          /\ [rec EXCEPT !.pc = "remove"].name = rec.name
      BY RecStep
    <3>3. /\ [rec EXCEPT !.pc = "send"] \in Recs
          /\ [rec EXCEPT !.pc = "send"].name = rec.name
      BY RecStep
    <3>4. QED
      BY <1>10, <2>1, <3>1, <3>2, <3>3, IdleType DEF ReconcileRecord
  <2>7. QED
    BY <1>10, <2>3, <2>5, <2>6 DEF ReconcileRecord, kubeVars
<1>11. ASSUME NEW again, rec.name \in Nodes, Return(again)
       PROVE  /\ rec' \in Recs /\ rec'.pc = "idle"
              /\ nodeMu' \in Mutexes(NodeThreads)
              /\ nodeQueue' \in SUBSET Nodes
  <2>1. rec' \in Recs /\ rec'.pc = "idle"
    BY <1>11, IdleType DEF Return, RecIdle
  <2>2. QED
    BY <1>11, <2>1, MutexType DEF Return, NodeThreads
<1>12. ASSUME NEW to \in SUBSET (Foreign \union {Ctl}), NEW ok \in BOOLEAN,
              rec.name \in Nodes, PatchFinalizers(to, ok)
       PROVE  /\ apiNode' \in [Nodes -> Objects]
              /\ watch' \in [Nodes -> Seq(Objects)]
              /\ rec' \in Recs /\ rec'.pc = "idle"
              /\ nodeMu' \in Mutexes(NodeThreads)
              /\ nodeQueue' \in SUBSET Nodes
  <2>1. Patched(apiNode[rec.name], rec.in.fins, to) \in Objects
    BY <1>12, PatchedType
  <2>2. /\ apiNode' \in [Nodes -> Objects]
        /\ watch' \in [Nodes -> Seq(Objects)]
    BY <1>12, <2>1, StoreType DEF PatchFinalizers, kubeVars
  <2>3. Return(FALSE) \/ Return(TRUE)
    BY <1>12 DEF PatchFinalizers
  <2>4. QED
    BY <1>11, <1>12, <2>2, <2>3
<1>13. ASSUME NEW could \in BOOLEAN, NEW ok \in BOOLEAN, RemoveFinalizer(could, ok)
       PROVE  TypeOK'
  <2>1. rec.name \in Nodes /\ rec.in.fins \ {Ctl} \in SUBSET (Foreign \union {Ctl})
    BY <1>13 DEF RemoveFinalizer, Recs, Objects
  <2>2. CASE could
    BY <1>12, <1>13, <2>1, <2>2 DEF RemoveFinalizer
  <2>3. CASE ~could
    BY <1>11, <1>13, <2>1, <2>3 DEF RemoveFinalizer, kubeVars
  <2>4. QED
    BY <2>2, <2>3
<1>14. CASE Announcement
  <2>1. rec.name \in Nodes
    BY <1>14 DEF Announcement
  <2>2. nodeCh' \in Seq(Nodes) /\ Len(nodeCh') <= ChanCap
    BY <1>14, <2>1, ChanCapAssumption DEF Announcement
  <2>3. CASE Ctl \in rec.in.fins
    BY <1>11, <1>14, <2>1, <2>2, <2>3 DEF Announcement, kubeVars
  <2>4. CASE Ctl \notin rec.in.fins
    <3>1. /\ [rec EXCEPT !.pc = "patch"] \in Recs
          /\ [rec EXCEPT !.pc = "patch"].name = rec.name
      BY RecStep
    <3>2. QED
      BY <1>14, <2>1, <2>2, <2>4, <3>1 DEF Announcement, kubeVars
  <2>5. QED
    BY <2>3, <2>4
<1>15. ASSUME NEW ok \in BOOLEAN, AddFinalizer(ok) PROVE TypeOK'
  <2>1. rec.name \in Nodes /\ rec.in.fins \union {Ctl} \in SUBSET (Foreign \union {Ctl})
    BY <1>15 DEF AddFinalizer, Recs, Objects
  <2>2. QED
    BY <1>12, <1>15, <2>1 DEF AddFinalizer
<1>16. CASE HandlerReceive
  <2>1. Head(nodeCh) \in Nodes /\ Tail(nodeCh) \in Seq(Nodes)
        /\ Len(Tail(nodeCh)) <= ChanCap
    BY <1>16, ChanCapAssumption DEF HandlerReceive
  <2>2. hnd' \in Hnds /\ hnd'.name \in Nodes
    BY <1>16, <2>1, NoInfoType DEF HandlerReceive, Hnds
  <2>3. QED
    BY <1>16, <2>1, <2>2 DEF HandlerReceive, kubeVars
<1>17. CASE HandlerRLock
  <2>1. nodeMu' \in Mutexes(NodeThreads)
    BY <1>17, MutexType DEF HandlerRLock, NodeThreads
  <2>2. hnd' \in Hnds /\ hnd'.name \in Nodes
    <3>1. /\ [hnd EXCEPT !.pc = "copy"] \in Hnds
          /\ [hnd EXCEPT !.pc = "copy"].name = hnd.name
      BY HndStep
    <3>2. /\ [hnd EXCEPT !.pc = "each"] \in Hnds
          /\ [hnd EXCEPT !.pc = "each"].name = hnd.name
      BY HndStep
    <3>3. QED
      BY <1>17, <3>1, <3>2 DEF HandlerRLock
  <2>3. QED
    BY <1>17, <2>1, <2>2 DEF HandlerRLock, kubeVars
<1>18. CASE HandlerCopy
  <2>1. nodeMu' \in Mutexes(NodeThreads)
    BY <1>18, MutexType DEF HandlerCopy, NodeThreads
  <2>2. hnd' \in Hnds /\ hnd'.name \in Nodes
    <3>1. hnd.name \in Nodes
      BY <1>18 DEF HandlerCopy
    <3>2. DeepCopy(node[hnd.name]) \in NodeInfos
      BY <3>1, DeepCopyType
    <3>3. LET g == [hnd EXCEPT !.pc = "callback", !.ori = DeepCopy(node[hnd.name])]
          IN  g \in Hnds /\ g.name = hnd.name
      BY <3>2, HndCopied
    <3>4. QED
      BY <1>18, <3>1, <3>3 DEF HandlerCopy
  <2>3. QED
    BY <1>18, <2>1, <2>2 DEF HandlerCopy, kubeVars
<1>19. CASE CallbackEachNode
  <2>1. /\ [hnd EXCEPT !.pc = "enter"] \in Hnds
        /\ [hnd EXCEPT !.pc = "enter"].name = hnd.name
    BY HndStep
  <2>2. QED
    BY <1>19, <2>1 DEF CallbackEachNode, kubeVars
<1>20. CASE EachNodeDone
  <2>1. /\ [hnd EXCEPT !.pc = "callback"] \in Hnds
        /\ [hnd EXCEPT !.pc = "callback"].name = hnd.name
    BY HndStep
  <2>2. nodeMu' \in Mutexes(NodeThreads)
    BY <1>20, MutexType DEF EachNodeDone, NodeThreads
  <2>3. QED
    BY <1>20, <2>1, <2>2 DEF EachNodeDone, kubeVars
<1>21. CASE CallbackReturn
  BY <1>21, IdleType DEF CallbackReturn, kubeVars, HndIdle
<1>26. CASE CallbackBlocks
  <2>1. /\ [hnd EXCEPT !.pc = "stuck"] \in Hnds
        /\ [hnd EXCEPT !.pc = "stuck"].name = hnd.name
    BY HndStep
  <2>2. QED
    BY <1>26, <2>1 DEF CallbackBlocks, kubeVars
<1>22. CASE Crash
  <2>2. /\ watch' \in [Nodes -> Seq(Objects)]
        /\ nodeCh' \in Seq(Nodes) /\ Len(nodeCh') <= ChanCap
    BY <1>22, ChanCapAssumption DEF Crash, WipeMemory
  <2>3. RecIdle.pc = "idle" /\ HndIdle.pc = "idle"
    BY DEF RecIdle, HndIdle
  <2>4. QED
    BY <1>22, <2>2, <2>3, AbsentType, NoInfoType, UnlockedType, IdleType
       DEF Crash, WipeMemory
<1>23. CASE Restart
  BY <1>23 DEF Restart, kubeVars
<1>24. CASE UNCHANGED vars
  BY <1>24 DEF vars
<1>25. QED
  BY <1>1, <1>2, <1>3, <1>4, <1>5, <1>6, <1>7, <1>8, <1>9, <1>10, <1>13,
     <1>14, <1>15, <1>16, <1>17, <1>18, <1>19, <1>20, <1>21, <1>22, <1>23,
     <1>24, <1>26 DEF Next, Environment, Worker, Handler

LEMMA TypeInit == Init => TypeOK
<1>1. RecIdle.pc = "idle" /\ HndIdle.pc = "idle"
  BY DEF RecIdle, HndIdle
<1>2. QED
  BY <1>1, AbsentType, NoInfoType, UnlockedType, IdleType, ChanCapAssumption
     DEF Init, TypeOK

\* The type invariant of the node controller: the channel never exceeds its
\* capacity, the worker and the handler are in one of their steps, and every
\* stored, cached or delayed object is well formed.
THEOREM TypeCorrect == Spec => []TypeOK
BY TypeInit, TypeStep, PTL DEF Spec

-------------------------------------------------------------------------------
(* No live node loses its guard.                                           *)

\* The object is being deleted and the controller holds it back.
Held(o) == o.del /\ Ctl \in o.fins

\* The controller has yet to act on a version of n that it holds back.
HeldInReach(n) ==
    \/ Held(cacheNode[n])
    \/ \E k \in DOMAIN watch[n] : Held(watch[n][k])
    \/ rec.name = n /\ Held(rec.in)

\* The strengthening that makes the property inductive: as long as an entry
\* is not flagged, a node with a held version in reach is still held, because
\* only the worker, and only for a flagged entry, lets its deletion complete.
DeletingKept ==
    \A n \in Nodes : HeldInReach(n) /\ ~node[n].deleted => Held(apiNode[n])

Bare(o) == o.ex \/ (~o.del /\ o.fins = {})
MissingIsBare == \A n \in Nodes : Bare(apiNode[n])

WorkerAgrees ==
    /\ rec.pc = "remove" => node[rec.name].deleted
    /\ rec.pc \in {"send", "patch"} => ~node[rec.name].deleted

GuardInv ==
    TypeOK /\ MissingIsBare /\ DeletingKept /\ WorkerAgrees
    /\ FlaggedGuardedIsDeleting

\* What a stored object changes, for its own name and for the others.
LEMMA StoreFacts ==
    ASSUME TypeOK, NEW n \in Nodes, NEW o \in Objects, Store(n, o)
    PROVE  /\ apiNode'[n] = o
           /\ \A m \in Nodes \ {n} : apiNode'[m] = apiNode[m] /\ watch'[m] = watch[m]
           /\ (\E k \in DOMAIN watch'[n] : Held(watch'[n][k]))
                => Held(o) \/ \E k \in DOMAIN watch[n] : Held(watch[n][k])
<1>1. watch[n] \in Seq(Objects)
  BY DEF TypeOK
<1>2. watch'[n] = watch[n] \/ watch'[n] = Append(watch[n], o)
  BY DEF TypeOK, Store
<1>3. \A k \in DOMAIN Append(watch[n], o) :
         \/ k \in DOMAIN watch[n] /\ Append(watch[n], o)[k] = watch[n][k]
         \/ Append(watch[n], o)[k] = o
  BY <1>1
<1>4. QED
  BY <1>2, <1>3 DEF TypeOK, Store

\* A store by anybody keeps the invariant if it never undoes a deletion the
\* controller has not flagged, nor guards a flagged node anew.
LEMMA StoreStep ==
    ASSUME GuardInv, NEW n \in Nodes, NEW o \in Objects, Store(n, o),
           node' = node, cacheNode' = cacheNode, rec' = rec \/ rec' = RecIdle,
           Bare(o),
           Held(apiNode[n]) /\ ~node[n].deleted => Held(o),
           node[n].deleted /\ Ctl \in o.fins => o.del \/ node[n].unguarded
    PROVE  MissingIsBare' /\ DeletingKept' /\ FlaggedGuardedIsDeleting'
<1>1. ~Held(RecIdle.in)
  BY DEF RecIdle, Absent, Held
<1>2. \A m \in Nodes : HeldInReach(m)' => HeldInReach(m) \/ (m = n /\ Held(o))
  BY <1>1, StoreFacts DEF GuardInv, HeldInReach
<1>3. MissingIsBare'
  BY StoreFacts DEF GuardInv, MissingIsBare
<1>4. DeletingKept'
  BY <1>2, StoreFacts DEF GuardInv, DeletingKept
<1>5. FlaggedGuardedIsDeleting'
  BY StoreFacts DEF GuardInv, FlaggedGuardedIsDeleting
<1>6. QED
  BY <1>3, <1>4, <1>5

\* A step that leaves the objects, the entries and the worker's copy alone.
LEMMA QuietStep ==
    ASSUME GuardInv, apiNode' = apiNode, watch' = watch, cacheNode' = cacheNode,
           node' = node, rec' = RecIdle \/ (rec'.name = rec.name /\ rec'.in = rec.in)
    PROVE  MissingIsBare' /\ DeletingKept' /\ FlaggedGuardedIsDeleting'
<1>1. ~Held(RecIdle.in)
  BY DEF RecIdle, Absent, Held
<1>2. \A m \in Nodes : HeldInReach(m)' => HeldInReach(m)
  BY <1>1 DEF HeldInReach
<1>3. QED
  BY <1>2 DEF GuardInv, MissingIsBare, DeletingKept, FlaggedGuardedIsDeleting

\* Fields of the objects the actions store.
LEMMA ObjectFacts ==
    ASSUME NEW o \in Objects, NEW i \in Insts \union {NoInst}
    PROVE  /\ [o EXCEPT !.inst = i].del = o.del
           /\ [o EXCEPT !.inst = i].ex = o.ex
           /\ [o EXCEPT !.inst = i].fins = o.fins
           /\ [o EXCEPT !.del = TRUE].ex = o.ex
           /\ [o EXCEPT !.del = TRUE].fins = o.fins
           /\ [o EXCEPT !.del = TRUE].del
BY DEF Objects

LEMMA SettleFacts ==
    ASSUME NEW o \in Objects
    PROVE  /\ Settle(o) = o \/ (Settle(o) = Absent /\ o.del /\ o.fins = {})
           /\ ~Absent.del /\ ~Absent.ex /\ Absent.fins = {}
BY DEF Settle, Absent

\* What a patch of the finalizers makes of an object.
LEMMA PatchedFacts ==
    ASSUME NEW o \in Objects, NEW from, NEW to \in SUBSET (Foreign \union {Ctl})
    PROVE  LET p == Patched(o, from, to)
           IN  \/ p = o /\ from = to
               \/ p = Absent /\ o.del /\ to = {}
               \/ p.ex = o.ex /\ p.del = o.del /\ p.fins = to
BY DEF Patched, Settle, Objects

LEMMA RecordedFacts ==
    ASSUME NEW info \in NodeInfos, NEW o \in Objects
    PROVE  /\ Recorded(info, o).deleted <=> info.deleted \/ o.del
           /\ Recorded(info, o).known
           /\ info.deleted => Recorded(info, o).unguarded = info.unguarded
           /\ ~info.deleted /\ o.del
                => (Recorded(info, o).unguarded <=> Ctl \notin o.fins)
BY DEF Recorded, NodeInfos, Objects

\* What another controller stores when it takes or leaves its finalizer.
LEMMA ForeignStore ==
    ASSUME TypeOK, NEW n \in Nodes, NEW f \in Foreign, ForeignFinalizer(n, f)
    PROVE  \E o \in Objects :
              /\ Store(n, o) /\ Bare(o)
              /\ o.del => apiNode[n].del
              /\ Ctl \in o.fins => Ctl \in apiNode[n].fins /\ o.del = apiNode[n].del
              /\ Ctl \in apiNode[n].fins => Ctl \in o.fins
              /\ Held(apiNode[n]) => Held(o)
<1>0. apiNode[n] \in Objects /\ apiNode[n].ex /\ f # Ctl
      /\ apiNode[n].fins \subseteq Foreign \union {Ctl}
  BY CtlAssumption DEF TypeOK, ForeignFinalizer, Objects
<1>1. CASE f \in apiNode[n].fins
  <2> DEFINE d == [apiNode[n] EXCEPT !.fins = @ \ {f}]
  <2>1. d \in Objects /\ Settle(d) \in Objects
    BY <1>0, EditType, PatchedType
  <2>2. d.ex /\ d.del = apiNode[n].del /\ d.fins = apiNode[n].fins \ {f}
    BY <1>0 DEF Objects
  <2>3. Store(n, Settle(d))
    BY <1>1 DEF ForeignFinalizer
  <2> HIDE DEF d
  <2>4. Settle(d) = d \/ (Settle(d) = Absent /\ d.fins = {} /\ ~Absent.del
                            /\ ~Absent.ex /\ Absent.fins = {})
    BY <2>1, SettleFacts
  <2>5. QED
    BY <1>0, <2>1, <2>2, <2>3, <2>4 DEF Bare, Held
<1>2. CASE f \notin apiNode[n].fins
  <2> DEFINE d == [apiNode[n] EXCEPT !.fins = @ \union {f}]
  <2>1. d \in Objects
    BY <1>0, EditType
  <2>2. d.ex /\ d.del = apiNode[n].del /\ d.fins = apiNode[n].fins \union {f}
    BY <1>0 DEF Objects
  <2>3. Store(n, d)
    BY <1>2 DEF ForeignFinalizer
  <2> HIDE DEF d
  <2>4. QED
    BY <1>0, <2>1, <2>2, <2>3 DEF Bare, Held
<1>3. QED
  BY <1>1, <1>2

LEMMA GuardStep ==
    ASSUME GuardInv, [Next]_vars
    PROVE  GuardInv'
<1> USE DEF GuardInv
<1>t. TypeOK'
  BY TypeStep
<1>r. RecIdle.pc = "idle"
  BY DEF RecIdle
<1>1. ASSUME NEW n \in Nodes, NEW i \in Insts \union {NoInst}, CreateNode(n, i)
      PROVE  GuardInv'
  <2> DEFINE o == [ex |-> TRUE, inst |-> i, del |-> FALSE, fins |-> {}]
  <2>1. o \in Objects /\ ~o.del /\ o.fins = {} /\ Bare(o)
    BY DEF Objects, Bare
  <2>2. ~Held(apiNode[n])
    BY <1>1 DEF CreateNode, MissingIsBare, Bare, Held
  <2>3. Store(n, o) /\ node' = node /\ cacheNode' = cacheNode /\ rec' = rec
    BY <1>1 DEF CreateNode, memVars
  <2> HIDE DEF o
  <2>4. MissingIsBare' /\ DeletingKept' /\ FlaggedGuardedIsDeleting'
    BY <2>1, <2>2, <2>3, StoreStep
  <2>5. QED
    BY <1>t, <2>3, <2>4 DEF WorkerAgrees
<1>2. ASSUME NEW n \in Nodes, NEW i \in Insts \union {NoInst}, AnnotateNode(n, i)
      PROVE  GuardInv'
  <2> DEFINE o == [apiNode[n] EXCEPT !.inst = i]
  <2>0. apiNode[n] \in Objects
    BY DEF TypeOK
  <2>1. o \in Objects /\ o.ex = apiNode[n].ex /\ o.del = apiNode[n].del
        /\ o.fins = apiNode[n].fins
    BY <2>0, EditType, ObjectFacts
  <2>2. Store(n, o) /\ node' = node /\ cacheNode' = cacheNode /\ rec' = rec
    BY <1>2 DEF AnnotateNode, memVars
  <2> HIDE DEF o
  <2>3. MissingIsBare' /\ DeletingKept' /\ FlaggedGuardedIsDeleting'
    <3>1. Bare(o)
      BY <2>1 DEF MissingIsBare, Bare
    <3>2. node[n].deleted /\ Ctl \in o.fins => o.del \/ node[n].unguarded
      BY <2>1 DEF FlaggedGuardedIsDeleting
    <3>3. Held(apiNode[n]) => Held(o)
      BY <2>1 DEF Held
    <3>4. QED
      BY <2>1, <2>2, <3>1, <3>2, <3>3, StoreStep
  <2>4. QED
    BY <1>t, <2>2, <2>3 DEF WorkerAgrees
<1>3. ASSUME NEW n \in Nodes, DeleteNode(n) PROVE GuardInv'
  <2> DEFINE d == [apiNode[n] EXCEPT !.del = TRUE]
             o == Settle(d)
  <2>0. apiNode[n] \in Objects
    BY DEF TypeOK
  <2>1. d \in Objects /\ d.ex = apiNode[n].ex /\ d.del
    BY <2>0, EditType, ObjectFacts
  <2>2. Store(n, o) /\ node' = node /\ cacheNode' = cacheNode /\ rec' = rec
        /\ apiNode[n].ex /\ ~apiNode[n].del
    BY <1>3 DEF DeleteNode, memVars
  <2> HIDE DEF d
  <2>3. /\ o \in Objects
        /\ Bare(o)
        /\ Ctl \in o.fins => o.del
    BY <2>1, <2>2, SettleFacts, PatchedType DEF Bare
  <2> HIDE DEF o
  <2>4. MissingIsBare' /\ DeletingKept' /\ FlaggedGuardedIsDeleting'
    <3>1. ~Held(apiNode[n])
      BY <2>2 DEF Held
    <3>2. QED
      BY <2>2, <2>3, <3>1, StoreStep
  <2>5. QED
    BY <1>t, <2>2, <2>4 DEF WorkerAgrees
<1>18. ASSUME NEW n \in Nodes, NEW f \in Foreign, ForeignFinalizer(n, f)
       PROVE  GuardInv'
  <2>0. apiNode[n] \in Objects /\ apiNode[n].ex
    BY <1>18 DEF TypeOK, ForeignFinalizer
  <2>1. node' = node /\ cacheNode' = cacheNode /\ rec' = rec
    BY <1>18 DEF ForeignFinalizer, memVars
  <2>2. PICK o \in Objects :
           /\ Store(n, o) /\ Bare(o)
           /\ o.del => apiNode[n].del
           /\ Ctl \in o.fins => Ctl \in apiNode[n].fins /\ o.del = apiNode[n].del
           /\ Held(apiNode[n]) => Held(o)
    BY <1>18, ForeignStore DEF ForeignFinalizer
  <2>3. node[n].deleted /\ Ctl \in o.fins => o.del \/ node[n].unguarded
    BY <2>2 DEF FlaggedGuardedIsDeleting
  <2>4. MissingIsBare' /\ DeletingKept' /\ FlaggedGuardedIsDeleting'
    BY <2>1, <2>2, <2>3, StoreStep
  <2>5. QED
    BY <1>t, <2>1, <2>4 DEF WorkerAgrees
<1>4. ASSUME NEW n \in Nodes, SyncNode(n) PROVE GuardInv'
  <2>1. watch[n] \in Seq(Objects) /\ watch[n] # <<>>
    BY <1>4 DEF SyncNode, TypeOK
  <2>2. 1 \in DOMAIN watch[n] /\ Head(watch[n]) = watch[n][1]
    BY <2>1
  <2>3. \A k \in DOMAIN Tail(watch[n]) :
           k + 1 \in DOMAIN watch[n] /\ Tail(watch[n])[k] = watch[n][k + 1]
    BY <2>1
  <2>4. /\ cacheNode'[n] = watch[n][1] /\ watch'[n] = Tail(watch[n])
        /\ \A m \in Nodes \ {n} : cacheNode'[m] = cacheNode[m] /\ watch'[m] = watch[m]
    BY <1>4, <2>2 DEF SyncNode, TypeOK
  <2>5. rec' = rec /\ node' = node /\ apiNode' = apiNode
    BY <1>4 DEF SyncNode
  <2>6. \A m \in Nodes : HeldInReach(m)' => HeldInReach(m)
    <3>1. \A m \in Nodes \ {n} : HeldInReach(m)' => HeldInReach(m)
      BY <2>4, <2>5 DEF HeldInReach
    <3>2. ASSUME NEW k \in DOMAIN watch'[n], Held(watch'[n][k])
          PROVE  HeldInReach(n)
      BY <2>3, <2>4, <3>2 DEF HeldInReach
    <3>3. HeldInReach(n)' => HeldInReach(n)
      BY <2>2, <2>4, <2>5, <3>2 DEF HeldInReach
    <3>4. QED
      BY <3>1, <3>3
  <2>7. QED
    BY <1>t, <2>5, <2>6 DEF MissingIsBare, DeletingKept, WorkerAgrees,
       FlaggedGuardedIsDeleting
<1>5. ASSUME NEW n \in Nodes, ReconcileGet(n) PROVE GuardInv'
  <2>1. \/ rec' = rec
        \/ rec'.pc = "lock" /\ rec'.name = n /\ rec'.in = cacheNode[n]
    BY <1>5 DEF ReconcileGet
  <2>2. /\ node' = node /\ apiNode' = apiNode
        /\ watch' = watch /\ cacheNode' = cacheNode
    BY <1>5 DEF ReconcileGet, kubeVars
  <2>3. \A m \in Nodes : HeldInReach(m)' => HeldInReach(m)
    BY <2>1, <2>2 DEF HeldInReach
  <2>4. QED
    BY <1>t, <2>1, <2>2, <2>3 DEF MissingIsBare, DeletingKept, WorkerAgrees,
       FlaggedGuardedIsDeleting
<1>6. CASE ReconcileLock
  <2>1. rec \in Recs
    BY DEF TypeOK
  <2>2. LET r == [rec EXCEPT !.pc = "wait"]
        IN  r.pc = "wait" /\ r.name = rec.name /\ r.in = rec.in
    BY <2>1, RecStep
  <2>3. MissingIsBare' /\ DeletingKept' /\ FlaggedGuardedIsDeleting'
    BY <1>6, <2>2, QuietStep DEF ReconcileLock, kubeVars
  <2>4. QED
    BY <1>t, <1>6, <2>2, <2>3 DEF WorkerAgrees, ReconcileLock
<1>7. CASE ReconcileRecord
  <2> DEFINE n == rec.name
  <2>1. n \in Nodes /\ rec.in \in Objects /\ rec \in Recs /\ node[n] \in NodeInfos
    BY <1>7 DEF ReconcileRecord, TypeOK, Recs
  <2>2. /\ node'[n].deleted <=> node[n].deleted \/ rec.in.del
        /\ node[n].deleted => node'[n].unguarded = node[n].unguarded
        /\ ~node[n].deleted /\ rec.in.del
             => (node'[n].unguarded <=> Ctl \notin rec.in.fins)
        /\ \A m \in Nodes \ {n} : node'[m] = node[m]
    <3>1. LET i == Recorded(node[n], rec.in)
          IN  /\ i.deleted <=> node[n].deleted \/ rec.in.del
              /\ node[n].deleted => i.unguarded = node[n].unguarded
              /\ ~node[n].deleted /\ rec.in.del
                   => (i.unguarded <=> Ctl \notin rec.in.fins)
      BY <2>1, RecordedFacts
    <3>2. QED
      BY <1>7, <2>1, <3>1 DEF ReconcileRecord, TypeOK
  <2>3. \/ rec' = RecIdle
        \/ /\ rec'.name = rec.name /\ rec'.in = rec.in
           /\ \/ rec'.pc = "remove" /\ node[n].deleted
              \/ rec'.pc = "send" /\ ~node[n].deleted /\ ~rec.in.del
    <3>1. LET r == [rec EXCEPT !.pc = "remove"]
          IN  r.pc = "remove" /\ r.name = rec.name /\ r.in = rec.in
      BY <2>1, RecStep
    <3>2. LET r == [rec EXCEPT !.pc = "send"]
          IN  r.pc = "send" /\ r.name = rec.name /\ r.in = rec.in
      BY <2>1, RecStep
    <3>3. QED
      BY <1>7, <3>1, <3>2 DEF ReconcileRecord
  <2>4. apiNode' = apiNode /\ watch' = watch /\ cacheNode' = cacheNode
    BY <1>7 DEF ReconcileRecord, kubeVars
  <2>5. ~Held(RecIdle.in)
    BY DEF RecIdle, Absent, Held
  <2>6. \A m \in Nodes : HeldInReach(m)' => HeldInReach(m)
    BY <2>3, <2>4, <2>5 DEF HeldInReach
  <2>7. MissingIsBare' /\ DeletingKept'
    BY <2>1, <2>2, <2>4, <2>6 DEF MissingIsBare, DeletingKept
  <2>8. FlaggedGuardedIsDeleting'
    BY <2>1, <2>2, <2>4 DEF FlaggedGuardedIsDeleting, DeletingKept, HeldInReach, Held
  <2>9. WorkerAgrees'
    BY <1>r, <2>1, <2>2, <2>3 DEF WorkerAgrees
  <2>10. QED
    BY <1>t, <2>7, <2>8, <2>9
<1>8. ASSUME NEW to \in SUBSET (Foreign \union {Ctl}), NEW ok \in BOOLEAN,
             rec.name \in Nodes, PatchFinalizers(to, ok),
             node' = node, cacheNode' = cacheNode,
             ~node[rec.name].deleted => Ctl \in to,
             node[rec.name].deleted => to = rec.in.fins \ {Ctl}
      PROVE  GuardInv'
  <2> DEFINE n == rec.name
             o == Patched(apiNode[n], rec.in.fins, to)
  <2>1. rec' = RecIdle
    BY <1>8 DEF PatchFinalizers, Return
  <2>2. MissingIsBare' /\ DeletingKept' /\ FlaggedGuardedIsDeleting'
    <3>1. CASE ok
      <4>1. apiNode[n] \in Objects
        BY <1>8 DEF TypeOK
      <4>2. Store(n, o) /\ o \in Objects /\ apiNode[n].ex
        BY <1>8, <3>1, <4>1, PatchedType DEF PatchFinalizers, PatchAccepted
      <4>3. \/ o = apiNode[n] /\ rec.in.fins = to
            \/ o = Absent /\ to = {}
            \/ o.ex = apiNode[n].ex /\ o.del = apiNode[n].del /\ o.fins = to
        BY <1>8, <4>1, PatchedFacts
      <4>4. ~Absent.del /\ Absent.fins = {}
        BY DEF Absent
      <4> HIDE DEF o, n
      <4>5. /\ Bare(o)
            /\ Held(apiNode[n]) /\ ~node[n].deleted => Held(o)
            /\ node[n].deleted /\ Ctl \in o.fins => o.del \/ node[n].unguarded
        BY <1>8, <4>2, <4>3, <4>4 DEF Bare, Held, FlaggedGuardedIsDeleting, n
      <4>6. n \in Nodes
        BY <1>8 DEF n
      <4>7. QED
        BY <1>8, <2>1, <4>2, <4>5, <4>6, StoreStep
    <3>2. CASE ~ok
      BY <1>8, <2>1, <3>2, QuietStep DEF PatchFinalizers, kubeVars
    <3>3. QED
      BY <3>1, <3>2
  <2>3. QED
    BY <1>t, <1>r, <2>1, <2>2 DEF WorkerAgrees
<1>9. ASSUME NEW could \in BOOLEAN, NEW ok \in BOOLEAN, RemoveFinalizer(could, ok)
      PROVE  GuardInv'
  <2>1. rec.name \in Nodes /\ rec.in.fins \ {Ctl} \in SUBSET (Foreign \union {Ctl})
        /\ node[rec.name].deleted
    BY <1>9 DEF RemoveFinalizer, TypeOK, Recs, Objects, WorkerAgrees
  <2>2. CASE could
    BY <1>8, <1>9, <2>1, <2>2 DEF RemoveFinalizer
  <2>3. CASE ~could
    <3>1. rec' = RecIdle
      BY <1>9, <2>3 DEF RemoveFinalizer, Return
    <3>2. MissingIsBare' /\ DeletingKept' /\ FlaggedGuardedIsDeleting'
      BY <1>9, <2>3, <3>1, QuietStep DEF RemoveFinalizer, kubeVars
    <3>3. QED
      BY <1>t, <1>r, <3>1, <3>2 DEF WorkerAgrees
  <2>4. QED
    BY <2>2, <2>3
<1>10. CASE Announcement
  <2>1. rec \in Recs
    BY DEF TypeOK
  <2>2. LET r == [rec EXCEPT !.pc = "patch"]
        IN  r.pc = "patch" /\ r.name = rec.name /\ r.in = rec.in
    BY <2>1, RecStep
  <2>3. \/ rec' = RecIdle
        \/ rec'.pc = "patch" /\ rec'.name = rec.name /\ rec'.in = rec.in
    BY <1>10, <2>2 DEF Announcement, Return
  <2>4. MissingIsBare' /\ DeletingKept' /\ FlaggedGuardedIsDeleting'
    BY <1>10, <2>3, QuietStep DEF Announcement, kubeVars
  <2>5. QED
    BY <1>t, <1>r, <1>10, <2>3, <2>4 DEF WorkerAgrees, Announcement
<1>11. ASSUME NEW ok \in BOOLEAN, AddFinalizer(ok) PROVE GuardInv'
  <2>1. rec.name \in Nodes /\ rec.in.fins \union {Ctl} \in SUBSET (Foreign \union {Ctl})
        /\ ~node[rec.name].deleted
    BY <1>11 DEF AddFinalizer, TypeOK, Recs, Objects, WorkerAgrees
  <2>2. QED
    BY <1>8, <1>11, <2>1 DEF AddFinalizer
<1>12. CASE Crash
  <2>1. /\ \A m \in Nodes : watch'[m] = <<>> /\ cacheNode'[m] = Absent
                            /\ node'[m] = NoInfo
        /\ rec' = RecIdle /\ apiNode' = apiNode
    BY <1>12 DEF Crash, WipeMemory
  <2>2. ~Held(Absent) /\ ~Held(RecIdle.in) /\ ~NoInfo.deleted
    BY DEF Absent, RecIdle, NoInfo, Held
  <2>3. \A m \in Nodes : ~HeldInReach(m)'
    BY <2>1, <2>2 DEF HeldInReach
  <2>4. QED
    BY <1>t, <1>r, <2>1, <2>2, <2>3 DEF MissingIsBare, DeletingKept,
       WorkerAgrees, FlaggedGuardedIsDeleting
<1>13. CASE Restart
  <2>1. cacheNode' = apiNode /\ apiNode' = apiNode /\ watch' = watch
        /\ node' = node /\ rec' = rec
    BY <1>13 DEF Restart, kubeVars
  <2>2. \A m \in Nodes : HeldInReach(m)' => HeldInReach(m) \/ Held(apiNode[m])
    BY <2>1 DEF HeldInReach
  <2>3. QED
    BY <1>t, <2>1, <2>2 DEF MissingIsBare, DeletingKept, WorkerAgrees,
       FlaggedGuardedIsDeleting
<1>14. ASSUME apiNode' = apiNode, watch' = watch, cacheNode' = cacheNode,
              node' = node, rec' = rec
       PROVE  GuardInv'
  BY <1>t, <1>14, QuietStep DEF WorkerAgrees
<1>15. CASE Handler \/ UNCHANGED vars
  <2>1. apiNode' = apiNode /\ watch' = watch /\ cacheNode' = cacheNode
        /\ node' = node /\ rec' = rec
    BY <1>15 DEF Handler, HandlerReceive, HandlerRLock, HandlerCopy,
       CallbackEachNode, EachNodeDone, CallbackReturn, CallbackBlocks, kubeVars, vars
  <2>2. QED
    BY <1>14, <2>1
<1>16. ASSUME NEW n \in Nodes, Heartbeat(n) \/ ReconcileGetError(n)
       PROVE  GuardInv'
  <2>1. apiNode' = apiNode /\ watch' = watch /\ cacheNode' = cacheNode
        /\ node' = node /\ rec' = rec
    BY <1>16 DEF Heartbeat, ReconcileGetError, kubeVars, vars
  <2>2. QED
    BY <1>14, <2>1
<1>17. QED
  BY <1>1, <1>2, <1>3, <1>4, <1>5, <1>6, <1>7, <1>9, <1>10, <1>11, <1>12,
     <1>13, <1>15, <1>16, <1>18 DEF Next, Environment, Worker

LEMMA GuardInit == Init => GuardInv
<1> SUFFICES ASSUME Init PROVE GuardInv
  OBVIOUS
<1>1. ~Held(Absent) /\ ~Held(RecIdle.in) /\ ~NoInfo.deleted /\ RecIdle.pc = "idle"
  BY DEF Absent, RecIdle, NoInfo, Held
<1>2. \A n \in Nodes : ~HeldInReach(n) /\ Bare(apiNode[n]) /\ ~node[n].deleted
  BY <1>1 DEF Init, HeldInReach, Bare, Absent
<1>3. WorkerAgrees
  BY <1>1 DEF Init, WorkerAgrees
<1>4. QED
  BY <1>2, <1>3, TypeInit DEF GuardInv, MissingIsBare, DeletingKept,
     FlaggedGuardedIsDeleting

\* An entry that the controller has flagged deleted and whose object still
\* carries its finalizer belongs to an object that is being deleted: however
\* far the cache lags, whatever is deleted and created again in between,
\* whichever finalizers others take and leave, and wherever the process dies;
\* unless the object that set the flag did not carry the finalizer itself.
THEOREM FlaggedSafe == Spec => []FlaggedGuardedIsDeleting
<1>1. GuardInv /\ [Next]_vars => GuardInv'
  BY GuardStep
<1>2. GuardInv => FlaggedGuardedIsDeleting
  BY DEF GuardInv
<1>3. QED
  BY <1>1, <1>2, GuardInit, PTL DEF Spec

\* One step never takes the controller's finalizer from a live node.
LEMMA StripStep ==
    ASSUME GuardInv, [Next]_vars, NEW m \in Nodes,
           Ctl \in apiNode[m].fins, Ctl \notin apiNode'[m].fins
    PROVE  apiNode[m].del \/ node[m].unguarded
<1> SUFFICES ASSUME ~apiNode[m].del, ~node[m].unguarded PROVE FALSE
  OBVIOUS
<1> USE DEF GuardInv
<1>0. apiNode[m] \in Objects
  BY DEF TypeOK
<1>1. ASSUME NEW n \in Nodes, NEW o \in Objects, Store(n, o)
      PROVE  n = m /\ Ctl \notin o.fins
  BY <1>1, StoreFacts
<1>2. ASSUME NEW n \in Nodes, NEW i \in Insts \union {NoInst}, CreateNode(n, i)
      PROVE  FALSE
  <2>1. [ex |-> TRUE, inst |-> i, del |-> FALSE, fins |-> {}] \in Objects
    BY DEF Objects
  <2>2. n = m
    BY <1>1, <1>2, <2>1 DEF CreateNode
  <2>3. QED
    BY <1>2, <2>2 DEF CreateNode, MissingIsBare, Bare
<1>3. ASSUME NEW n \in Nodes, NEW i \in Insts \union {NoInst}, AnnotateNode(n, i)
      PROVE  FALSE
  <2>1. apiNode[n] \in Objects
    BY DEF TypeOK
  <2>2. n = m /\ Ctl \notin [apiNode[n] EXCEPT !.inst = i].fins
    BY <1>1, <1>3, <2>1, EditType DEF AnnotateNode
  <2>3. QED
    BY <2>1, <2>2, ObjectFacts
<1>4. ASSUME NEW n \in Nodes, DeleteNode(n) PROVE FALSE
  <2> DEFINE d == [apiNode[n] EXCEPT !.del = TRUE]
  <2>1. apiNode[n] \in Objects
    BY DEF TypeOK
  <2>2. d \in Objects /\ d.fins = apiNode[n].fins /\ Store(n, Settle(d))
    BY <1>4, <2>1, EditType, ObjectFacts DEF DeleteNode
  <2> HIDE DEF d
  <2>3. n = m /\ Ctl \notin Settle(d).fins
    BY <1>1, <2>2, PatchedType
  <2>4. QED
    BY <2>2, <2>3, SettleFacts
<1>5. ASSUME NEW to \in SUBSET (Foreign \union {Ctl}), NEW ok \in BOOLEAN,
             rec.name \in Nodes, PatchFinalizers(to, ok)
      PROVE  m = rec.name /\ Ctl \notin to
  <2>1. ok
    BY <1>5 DEF PatchFinalizers, kubeVars
  <2>2. apiNode[rec.name] \in Objects
    BY <1>5 DEF TypeOK
  <2> DEFINE o == Patched(apiNode[rec.name], rec.in.fins, to)
  <2>3. Store(rec.name, o) /\ o \in Objects
    BY <1>5, <2>1, <2>2, PatchedType DEF PatchFinalizers
  <2>4. \/ o = apiNode[rec.name]
        \/ to = {}
        \/ o.fins = to
    BY <1>5, <2>2, PatchedFacts
  <2> HIDE DEF o
  <2>5. rec.name = m /\ Ctl \notin o.fins
    BY <1>1, <1>5, <2>3
  <2>6. QED
    BY <2>4, <2>5
<1>6. ASSUME NEW could \in BOOLEAN, NEW ok \in BOOLEAN, RemoveFinalizer(could, ok)
      PROVE  FALSE
  <2>1. rec.name \in Nodes /\ rec.in.fins \ {Ctl} \in SUBSET (Foreign \union {Ctl})
        /\ node[rec.name].deleted
    BY <1>6 DEF RemoveFinalizer, TypeOK, Recs, Objects, WorkerAgrees
  <2>2. could
    BY <1>6 DEF RemoveFinalizer, kubeVars
  <2>3. m = rec.name
    BY <1>5, <1>6, <2>1, <2>2 DEF RemoveFinalizer
  <2>4. QED
    BY <2>1, <2>3 DEF FlaggedGuardedIsDeleting
<1>7. ASSUME NEW ok \in BOOLEAN, AddFinalizer(ok) PROVE FALSE
  <2>1. rec.name \in Nodes /\ rec.in.fins \union {Ctl} \in SUBSET (Foreign \union {Ctl})
    BY <1>7 DEF AddFinalizer, TypeOK, Recs, Objects
  <2>2. QED
    BY <1>5, <1>7, <2>1 DEF AddFinalizer
<1>8. CASE apiNode' = apiNode
  BY <1>8
<1>10. ASSUME NEW n \in Nodes, NEW f \in Foreign, ForeignFinalizer(n, f) PROVE FALSE
  <2>1. PICK o \in Objects : Store(n, o) /\ (Ctl \in apiNode[n].fins => Ctl \in o.fins)
    BY <1>10, ForeignStore
  <2>2. QED
    BY <1>1, <2>1
<1>9. QED
  BY <1>10, <1>2, <1>3, <1>4, <1>6, <1>7, <1>8 DEF Next, Environment, Worker, Handler,
     SyncNode, Heartbeat, ReconcileGet, ReconcileGetError, ReconcileLock,
     ReconcileRecord, Announcement, HandlerReceive, HandlerRLock, HandlerCopy,
     CallbackEachNode, EachNodeDone, CallbackReturn, CallbackBlocks, Crash,
     Restart, kubeVars, vars

\* No step takes the controller's finalizer away from a node that is not
\* being deleted, whoever else keeps finalizers on it, unless the name was
\* flagged from an object that did not carry it.
THEOREM LiveNodesKeepGuard == Spec => NeverStripLive
<1>1. GuardInv /\ [Next]_vars => GuardInv'
  BY GuardStep
<1>2. GuardInv /\ [Next]_vars
        => [\A n \in Nodes : Ctl \in apiNode[n].fins /\ Ctl \notin apiNode'[n].fins
                                => apiNode[n].del \/ node[n].unguarded]_vars
  BY StripStep
<1>3. QED
  BY <1>1, <1>2, GuardInit, PTL DEF Spec, NeverStripLive

-------------------------------------------------------------------------------
(* The callback never gets a nil NodeInfo.                                 *)

\* The worker enters a name into the map before it sends it.
KnownInv ==
    TypeOK /\ AnnouncedNodesKnown /\ (rec.pc = "send" => node[rec.name].known)

\* A step that forgets no entry and changes neither channel nor handler.
LEMMA KnownQuiet ==
    ASSUME KnownInv, TypeOK', nodeCh' = nodeCh, hnd' = hnd,
           \A n \in Nodes : node[n].known => node'[n].known,
           rec'.pc = "send" => node'[rec'.name].known
    PROVE  KnownInv'
<1>1. \A k \in 1 .. Len(nodeCh) : nodeCh[k] \in Nodes
  BY DEF KnownInv, TypeOK
<1>2. QED
  BY <1>1 DEF KnownInv, AnnouncedNodesKnown, TypeOK

LEMMA KnownStep == KnownInv /\ [Next]_vars => KnownInv'
<1> SUFFICES ASSUME KnownInv, [Next]_vars PROVE KnownInv'
  OBVIOUS
<1>t. TypeOK /\ TypeOK'
  BY TypeStep DEF KnownInv
<1>i. RecIdle.pc = "idle" /\ HndIdle.pc = "idle"
  BY DEF RecIdle, HndIdle
<1>r. rec \in Recs /\ hnd \in Hnds
  BY <1>t DEF TypeOK
<1>1. CASE nodeCh' = nodeCh /\ hnd' = hnd /\ node' = node
           /\ (rec' = rec \/ rec'.pc # "send")
  BY <1>1, <1>t, KnownQuiet DEF KnownInv
<1>2. CASE ReconcileRecord
  <2>1. rec.name \in Nodes /\ rec.in \in Objects /\ node[rec.name] \in NodeInfos
    BY <1>2, <1>t DEF ReconcileRecord, TypeOK, Recs
  <2>2. Recorded(node[rec.name], rec.in).known
    BY <2>1, RecordedFacts
  <2>3. /\ node'[rec.name].known
        /\ \A n \in Nodes : node[n].known => node'[n].known
    BY <1>2, <1>t, <2>1, <2>2 DEF ReconcileRecord, TypeOK
  <2>4. LET r == [rec EXCEPT !.pc = "remove"] IN r.name = rec.name
    BY <1>r, RecStep
  <2>5. LET r == [rec EXCEPT !.pc = "send"] IN r.name = rec.name
    BY <1>r, RecStep
  <2>6. rec'.pc = "send" => rec'.name = rec.name
    BY <1>2, <1>i, <2>4, <2>5 DEF ReconcileRecord
  <2>7. QED
    BY <1>2, <1>t, <2>3, <2>6, KnownQuiet DEF ReconcileRecord
<1>3. CASE Announcement
  <2>1. rec.name \in Nodes /\ nodeCh \in Seq(Nodes) /\ node' = node /\ hnd' = hnd
        /\ nodeCh' = Append(nodeCh, rec.name) /\ node[rec.name].known
    BY <1>3, <1>t DEF Announcement, TypeOK, KnownInv
  <2>2. \A k \in 1 .. Len(nodeCh') : node'[nodeCh'[k]].known
    <3>1. \A k \in 1 .. Len(nodeCh') :
             nodeCh'[k] = rec.name \/ (k \in 1 .. Len(nodeCh) /\ nodeCh'[k] = nodeCh[k])
      BY <2>1
    <3>2. QED
      BY <2>1, <3>1 DEF KnownInv, AnnouncedNodesKnown
  <2>3. LET r == [rec EXCEPT !.pc = "patch"] IN r.pc = "patch"
    BY <1>r, RecStep
  <2>4. rec'.pc # "send"
    BY <1>3, <1>i, <2>3 DEF Announcement, Return
  <2>5. QED
    BY <1>t, <2>1, <2>2, <2>4 DEF KnownInv, AnnouncedNodesKnown
<1>4. CASE HandlerReceive
  <2>1. nodeCh \in Seq(Nodes) /\ nodeCh # <<>> /\ nodeCh' = Tail(nodeCh)
        /\ hnd'.pc = "rlock" /\ hnd'.name = Head(nodeCh)
        /\ node' = node /\ rec' = rec
    BY <1>4, <1>t DEF HandlerReceive, TypeOK
  <2>2. 1 \in 1 .. Len(nodeCh) /\ hnd'.name = nodeCh[1]
    BY <2>1
  <2>3. \A k \in 1 .. Len(nodeCh') :
           k + 1 \in 1 .. Len(nodeCh) /\ nodeCh'[k] = nodeCh[k + 1]
    BY <2>1
  <2>4. \A k \in 1 .. Len(nodeCh') : node'[nodeCh'[k]].known
    BY <2>1, <2>3 DEF KnownInv, AnnouncedNodesKnown
  <2>5. node'[hnd'.name].known
    BY <2>1, <2>2 DEF KnownInv, AnnouncedNodesKnown
  <2>6. QED
    BY <1>t, <2>1, <2>4, <2>5 DEF KnownInv, AnnouncedNodesKnown
<1>5. ASSUME nodeCh' = nodeCh, node' = node, rec' = rec,
             hnd'.pc \in {"rlock", "copy"} => node[hnd'.name].known,
             hnd'.pc \in {"callback", "enter", "each", "stuck"} => hnd'.ori.known
      PROVE  KnownInv'
  BY <1>5, <1>t DEF KnownInv, AnnouncedNodesKnown
<1>6. CASE HandlerRLock
  <2>1. LET h == [hnd EXCEPT !.pc = "copy"] IN h.pc = "copy" /\ h.name = hnd.name
    BY <1>r, HndStep
  <2>2. LET h == [hnd EXCEPT !.pc = "each"] IN h.pc = "each" /\ h.ori = hnd.ori
    BY <1>r, HndStep
  <2>3. QED
    BY <1>5, <1>6, <2>1, <2>2 DEF HandlerRLock, KnownInv, AnnouncedNodesKnown
<1>7. CASE HandlerCopy
  <2>1. hnd.name \in Nodes /\ node[hnd.name] \in NodeInfos /\ node[hnd.name].known
    BY <1>7, <1>t DEF HandlerCopy, TypeOK, KnownInv, AnnouncedNodesKnown
  <2>2. DeepCopy(node[hnd.name]) \in NodeInfos /\ DeepCopy(node[hnd.name]).known
    BY <2>1, DeepCopyType
  <2>3. LET h == [hnd EXCEPT !.pc = "callback", !.ori = DeepCopy(node[hnd.name])]
        IN  h.pc = "callback" /\ h.ori = DeepCopy(node[hnd.name])
    BY <1>r, <2>2, HndCopied
  <2>4. QED
    BY <1>5, <1>7, <2>2, <2>3 DEF HandlerCopy
<1>8. CASE CallbackEachNode
  <2>1. LET h == [hnd EXCEPT !.pc = "enter"] IN h.pc = "enter" /\ h.ori = hnd.ori
    BY <1>r, HndStep
  <2>2. QED
    BY <1>5, <1>8, <2>1 DEF CallbackEachNode, KnownInv, AnnouncedNodesKnown
<1>9. CASE EachNodeDone
  <2>1. LET h == [hnd EXCEPT !.pc = "callback"] IN h.pc = "callback" /\ h.ori = hnd.ori
    BY <1>r, HndStep
  <2>2. QED
    BY <1>5, <1>9, <2>1 DEF EachNodeDone, KnownInv, AnnouncedNodesKnown
<1>10. CASE CallbackReturn
  BY <1>5, <1>10, <1>i DEF CallbackReturn
<1>17. CASE CallbackBlocks
  <2>1. LET h == [hnd EXCEPT !.pc = "stuck"] IN h.pc = "stuck" /\ h.ori = hnd.ori
    BY <1>r, HndStep
  <2>2. QED
    BY <1>5, <1>17, <2>1 DEF CallbackBlocks, KnownInv, AnnouncedNodesKnown
<1>11. CASE Crash
  BY <1>11, <1>t, <1>i DEF Crash, WipeMemory, KnownInv, AnnouncedNodesKnown
<1>12. CASE ReconcileLock
  <2>1. LET r == [rec EXCEPT !.pc = "wait"] IN r.pc = "wait"
    BY <1>r, RecStep
  <2>2. QED
    BY <1>1, <1>12, <2>1 DEF ReconcileLock
<1>13. ASSUME NEW n \in Nodes, ReconcileGet(n) PROVE KnownInv'
  BY <1>1, <1>13 DEF ReconcileGet
<1>14. ASSUME NEW could, NEW ok, RemoveFinalizer(could, ok) \/ AddFinalizer(ok)
       PROVE  KnownInv'
  BY <1>1, <1>14, <1>i DEF RemoveFinalizer, AddFinalizer, PatchFinalizers, Return
<1>15. CASE Environment \/ UNCHANGED vars \/ Restart
            \/ \E n \in Nodes : ReconcileGetError(n)
  BY <1>1, <1>15 DEF Environment, CreateNode, AnnotateNode, DeleteNode,
     ForeignFinalizer, SyncNode, Heartbeat, ReconcileGetError, Restart, memVars, vars
<1>16. QED
  BY <1>2, <1>3, <1>4, <1>6, <1>7, <1>8, <1>9, <1>10, <1>11, <1>12, <1>13,
     <1>14, <1>15, <1>17 DEF Next, Worker, Handler

\* Every node name on its way to the callback has an entry, so
\* handlerCallback never calls back with a nil NodeInfo.
THEOREM CallbackGetsInfo == Spec => []AnnouncedNodesKnown
<1>1. Init => KnownInv
  <2>1. RecIdle.pc = "idle" /\ HndIdle.pc = "idle"
    BY DEF RecIdle, HndIdle
  <2>2. QED
    BY <2>1, TypeInit DEF Init, KnownInv, AnnouncedNodesKnown
<1>2. KnownInv => AnnouncedNodesKnown
  BY DEF KnownInv
<1>3. QED
  BY <1>1, <1>2, KnownStep, PTL DEF Spec

-------------------------------------------------------------------------------
(* The mutex of the node map.                                              *)

\* Whether the mutex m is what the steps of the worker (at r) and of the
\* handler (at h) say.
Fit(m, r, h) ==
    /\ m.wr = IF r \in {"remove", "send", "patch"} THEN "rec" ELSE Nobody
    /\ m.pend = IF r = "wait" THEN "rec" ELSE Nobody
    /\ m.wr # Nobody => m.rd = {}
    /\ m.rd \subseteq {"hnd"} /\ m.rwait \subseteq {"hnd"}
    /\ h \in {"copy", "each"} <=> "hnd" \in m.rd \union m.rwait
    /\ m.rd \intersect m.rwait = {}
    /\ m.rwait # {} => r \in {"wait", "remove", "send", "patch"}

LEMMA FitOps ==
    ASSUME NEW m \in Mutexes(NodeThreads), NEW r, NEW h, Fit(m, r, h)
    PROVE  /\ r = "lock" => Fit(Announce(m, "rec"), "wait", h)
           /\ CanLock(m, "rec") =>
                 /\ \A q \in {"remove", "send"} : Fit(Lock(m, "rec"), q, h)
                 /\ Fit(Unlock(Lock(m, "rec")), "idle", h)
           /\ r \in {"remove", "send", "patch"} => Fit(Unlock(m), "idle", h)
           /\ r = "send" => Fit(m, "patch", h)
           /\ r = "idle" => Fit(m, "lock", h)
           /\ h \in {"rlock", "enter"} =>
                 \A q \in {"copy", "each"} : Fit(RLock(m, "hnd"), r, q)
           /\ h \in {"copy", "each"} /\ "hnd" \in m.rd =>
                 Fit(RUnlock(m, "hnd"), r, "callback")
           /\ \A g \in {"idle", "rlock", "callback", "enter", "stuck"} :
                 h \notin {"copy", "each"} => Fit(m, r, g)
           /\ Fit(Unlocked, "idle", "idle")
BY DEF Mutexes, NodeThreads, Fit, Announce, CanLock, Lock, Unlock, RLock, RUnlock,
       Unlocked, Nobody

MutexFits == Fit(nodeMu, rec.pc, hnd.pc)

LEMMA MutexStep == TypeOK /\ MutexFits /\ [Next]_vars => MutexFits'
<1> SUFFICES ASSUME TypeOK, MutexFits, [Next]_vars PROVE MutexFits'
  OBVIOUS
<1>t. /\ nodeMu \in Mutexes(NodeThreads) /\ rec \in Recs /\ hnd \in Hnds
      /\ Fit(nodeMu, rec.pc, hnd.pc)
  BY DEF TypeOK, MutexFits
<1>i. RecIdle.pc = "idle" /\ HndIdle.pc = "idle"
  BY DEF RecIdle, HndIdle
<1>1. CASE UNCHANGED <<nodeMu, rec, hnd>>
  BY <1>1 DEF MutexFits
<1>2. CASE Environment \/ Restart \/ UNCHANGED vars
           \/ \E n \in Nodes : ReconcileGetError(n)
  BY <1>1, <1>2 DEF Environment, CreateNode, AnnotateNode, DeleteNode,
     ForeignFinalizer, SyncNode, Heartbeat, ReconcileGetError, Restart, memVars, vars
<1>3. ASSUME NEW n \in Nodes, ReconcileGet(n) PROVE MutexFits'
  <2>1. rec.pc = "idle" /\ UNCHANGED <<nodeMu, hnd>> /\ (rec' = rec \/ rec'.pc = "lock")
    BY <1>3 DEF ReconcileGet
  <2>2. Fit(nodeMu, "lock", hnd.pc)
    BY <1>t, <2>1, FitOps
  <2>3. QED
    BY <1>t, <2>1, <2>2 DEF MutexFits
<1>4. CASE ReconcileLock
  <2>1. Fit(Announce(nodeMu, "rec"), "wait", hnd.pc)
    BY <1>t, <1>4, FitOps DEF ReconcileLock
  <2>2. [rec EXCEPT !.pc = "wait"].pc = "wait"
    BY <1>t, RecStep
  <2>3. QED
    BY <1>4, <2>1, <2>2 DEF ReconcileLock, MutexFits
<1>5. CASE ReconcileRecord
  <2>1. /\ \A q \in {"remove", "send"} : Fit(Lock(nodeMu, "rec"), q, hnd.pc)
        /\ Fit(Unlock(Lock(nodeMu, "rec")), "idle", hnd.pc)
    BY <1>t, <1>5, FitOps DEF ReconcileRecord
  <2>2. \A q \in {"remove", "send"} : [rec EXCEPT !.pc = q].pc = q
    BY <1>t, RecStep
  <2>3. QED
    BY <1>5, <1>i, <2>1, <2>2 DEF ReconcileRecord, MutexFits
<1>6. ASSUME NEW again, Return(again), rec.pc \in {"remove", "send", "patch"}, hnd' = hnd
      PROVE  MutexFits'
  <2>1. Fit(Unlock(nodeMu), "idle", hnd.pc)
    BY <1>t, <1>6, FitOps
  <2>2. QED
    BY <1>6, <1>i, <2>1 DEF Return, MutexFits
<1>7. ASSUME NEW could, NEW ok, RemoveFinalizer(could, ok) \/ AddFinalizer(ok)
      PROVE  MutexFits'
  <2>1. /\ rec.pc \in {"remove", "send", "patch"} /\ hnd' = hnd
        /\ Return(TRUE) \/ Return(FALSE)
    BY <1>7 DEF RemoveFinalizer, AddFinalizer, PatchFinalizers
  <2>2. QED
    BY <1>6, <2>1
<1>8. CASE Announcement
  <2>1. CASE Ctl \in rec.in.fins
    BY <1>6, <1>8, <2>1 DEF Announcement
  <2>2. CASE Ctl \notin rec.in.fins
    <3>1. Fit(nodeMu, "patch", hnd.pc)
      BY <1>t, <1>8, FitOps DEF Announcement
    <3>2. [rec EXCEPT !.pc = "patch"].pc = "patch"
      BY <1>t, RecStep
    <3>3. QED
      BY <1>8, <2>2, <3>1, <3>2 DEF Announcement, MutexFits
  <2>3. QED
    BY <2>1, <2>2
<1>9. CASE HandlerRLock
  <2>1. \A q \in {"copy", "each"} : Fit(RLock(nodeMu, "hnd"), rec.pc, q)
    BY <1>t, <1>9, FitOps DEF HandlerRLock
  <2>2. \A q \in {"copy", "each"} : [hnd EXCEPT !.pc = q].pc = q
    BY <1>t, HndStep
  <2>3. hnd'.pc \in {"copy", "each"} /\ nodeMu' = RLock(nodeMu, "hnd") /\ rec' = rec
    BY <1>9, <2>2 DEF HandlerRLock
  <2>4. QED
    BY <2>1, <2>3 DEF MutexFits
<1>10. CASE HandlerCopy \/ EachNodeDone
  <2>1. Fit(RUnlock(nodeMu, "hnd"), rec.pc, "callback")
    BY <1>t, <1>10, FitOps DEF HandlerCopy, EachNodeDone
  <2>2. hnd'.pc = "callback" /\ nodeMu' = RUnlock(nodeMu, "hnd") /\ rec' = rec
    BY <1>t, <1>10 DEF HandlerCopy, EachNodeDone, Hnds
  <2>3. QED
    BY <2>1, <2>2 DEF MutexFits
<1>11. CASE HandlerReceive \/ CallbackEachNode \/ CallbackReturn \/ CallbackBlocks
  <2>1. /\ hnd.pc \notin {"copy", "each"}
        /\ hnd'.pc \in {"idle", "rlock", "enter", "stuck"}
        /\ UNCHANGED <<nodeMu, rec>>
    <3>1. CASE HandlerReceive
      BY <3>1 DEF HandlerReceive
    <3>2. CASE CallbackEachNode
      BY <1>t, <3>2, HndStep DEF CallbackEachNode
    <3>3. CASE CallbackReturn
      BY <1>i, <3>3 DEF CallbackReturn
    <3>4. CASE CallbackBlocks
      BY <1>t, <3>4, HndStep DEF CallbackBlocks
    <3>5. QED
      BY <1>11, <3>1, <3>2, <3>3, <3>4
  <2>2. Fit(nodeMu, rec.pc, hnd'.pc)
    BY <1>t, <2>1, FitOps
  <2>3. QED
    BY <2>1, <2>2 DEF MutexFits
<1>12. CASE Crash
  BY <1>t, <1>i, <1>12, FitOps DEF Crash, WipeMemory, MutexFits
<1>13. QED
  BY <1>2, <1>3, <1>4, <1>5, <1>7, <1>8, <1>9, <1>10, <1>11, <1>12
  DEF Next, Worker, Handler

\* From the entry it makes to its return, through a send that may wait for
\* ever and a patch, Reconcile holds the mutex (node.go:131-165): nobody
\* reads the map then, and whoever waits to read it waits for Reconcile.
LockedAlone ==
    /\ rec.pc \in {"remove", "send", "patch"} => nodeMu.rd = {}
    /\ nodeMu.rwait # {} => rec.pc \in {"wait", "remove", "send", "patch"}

\* LockedAlone holds of every behaviour of the node controller.
THEOREM ReconcileAlone == Spec => []LockedAlone
<1>1. Init => MutexFits
  <2>1. Fit(Unlocked, "idle", "idle") /\ RecIdle.pc = "idle" /\ HndIdle.pc = "idle"
    BY DEF RecIdle, HndIdle, Fit, Unlocked, Nobody
  <2>2. QED
    BY <2>1 DEF Init, MutexFits
<1>2. MutexFits => LockedAlone
  BY DEF MutexFits, Fit, LockedAlone, Nobody
<1>3. QED
  BY <1>1, <1>2, MutexStep, TypeCorrect, PTL DEF Spec

-------------------------------------------------------------------------------
(* The node and the pool controller in one process (NodePools).            *)

\* Every step of the composition is a step of the node controller's own
\* specification, or leaves the node controller alone.
LEMMA StepImplements == PoolsNext => [Next]_vars
<1>. SUFFICES ASSUME PoolsNext PROVE [Next]_vars
  OBVIOUS
<1>1. CASE NodeStep
  BY <1>1 DEF NodeStep, Next
<1>2. ASSUME NEW ok \in BOOLEAN, AskAndRemove(ok) PROVE [Next]_vars
  <2>1. CouldRemove(rec.name) \in BOOLEAN
    BY DEF CouldRemove
  <2>2. RemoveFinalizer(CouldRemove(rec.name), ok)
    BY <1>2 DEF AskAndRemove
  <2>3. Worker
    BY <2>1, <2>2 DEF Worker
  <2>. QED
    BY <2>3 DEF Next
<1>3. CASE PoolStep
  BY <1>3 DEF PoolStep
<1>4. CASE ProcessDies
  BY <1>4 DEF ProcessDies, Next
<1>5. CASE ProcessRestarts
  BY <1>5 DEF ProcessRestarts, Next
<1>. QED
  BY <1>1, <1>2, <1>3, <1>4, <1>5 DEF PoolsNext

\* So the composition behaves as the node controller's specification says.
LEMMA PoolsImplementNode == PoolsSpec => Spec
<1>1. PoolsInit => Init
  BY DEF PoolsInit
<1>2. [PoolsNext]_allVars => [Next]_vars
  <2>1. UNCHANGED allVars => UNCHANGED vars
    BY DEF allVars
  <2>. QED
    BY <2>1, StepImplements
<1>. QED
  BY <1>1, <1>2, PTL DEF PoolsSpec, Spec

\* Also next to the pool controller, whose panics end the process at any step
\* of Reconcile, no live node loses its finalizer, unless its name was
\* flagged from an unguarded object.
THEOREM PoolsKeepGuard == PoolsSpec => NeverStripLive
BY PoolsImplementNode, LiveNodesKeepGuard

\* Also next to the pool controller, Reconcile has the node map to itself.
THEOREM PoolsReconcileAlone == PoolsSpec => []LockedAlone
BY PoolsImplementNode, ReconcileAlone
===============================================================================
