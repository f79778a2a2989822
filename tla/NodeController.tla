---------------------------- MODULE NodeController ----------------------------
(***************************************************************************)
(* The node controller of pkg/node: it follows the Kubernetes Node objects *)
(* that carry the instance annotation, keeps an entry per node, announces  *)
(* each reconciled node to a callback through a bounded channel, and holds *)
(* the deletion of a node back with a finalizer.                           *)
(*                                                                         *)
(* Three actors run: the reconcile worker (controller-runtime runs one),   *)
(* the goroutine of handlerCallback, and everybody else (users, kubelets,  *)
(* the API server and the watch that feeds the controller's cache).        *)
(***************************************************************************)
EXTENDS Naturals, Sequences, FiniteSets, RWMutex

CONSTANTS
    Nodes,       \* names of Node objects
    Insts,       \* values of the instance annotation
    NoInst,      \* the annotation is absent
    Ctl,         \* pkg.FinializerController
    Foreign,     \* finalizers that other controllers put on nodes
    ChanCap,     \* capacity of the channel ch (16 in the code)
    MaxLag       \* bound: watch events under way per node

ASSUME NoInstAssumption  == NoInst \notin Insts
ASSUME CtlAssumption     == Ctl \notin Foreign
ASSUME ChanCapAssumption == ChanCap \in Nat \ {0}
ASSUME BoundAssumption   == MaxLag \in Nat \ {0}

VARIABLES
    apiNode,    \* the Node objects in the API server
    watch,      \* per node, the versions the cache has not received yet
    cacheNode,  \* the controller's cached copy of each Node
    nodeQueue,  \* the work queue: names to reconcile, each at most once
    node,       \* controller.node, one entry per name
    nodeCh,     \* controller.ch
    nodeMu,     \* controller.mu
    rec,        \* the reconcile worker
    hnd,        \* the goroutine of handlerCallback
    up          \* the process is running

kubeVars == <<apiNode, watch>>
memVars  == <<cacheNode, nodeQueue, node, nodeCh, nodeMu, rec, hnd>>
vars     == <<apiNode, watch, cacheNode, nodeQueue, node, nodeCh, nodeMu,
              rec, hnd, up>>

NodeThreads == {"rec", "hnd"}

Objects == [ex : BOOLEAN, inst : Insts \union {NoInst}, del : BOOLEAN,
            fins : SUBSET (Foreign \union {Ctl})]

Absent == [ex |-> FALSE, inst |-> NoInst, del |-> FALSE, fins |-> {}]

Annotated(o) == o.ex /\ o.inst # NoInst

\* NodeInfo, without NodeId and NodeIp: the events they go into are never sent.
\* An entry that is not known is a name missing from the map.  The field
\* unguarded is history, which no action looks at: the object that got the
\* entry flagged deleted did not carry the controller's finalizer.
NodeInfos == [known : BOOLEAN, deleted : BOOLEAN, unguarded : BOOLEAN]
NoInfo    == [known |-> FALSE, deleted |-> FALSE, unguarded |-> FALSE]

RecIdle == [pc |-> "idle", name |-> "", in |-> Absent]
HndIdle == [pc |-> "idle", name |-> "", ori |-> NoInfo]

\* The worker: its step, the name it reconciles, the object it has read.
Recs == [pc : {"idle", "lock", "wait", "remove", "send", "patch"},
         name : Nodes \union {""}, in : Objects]

\* The handler: its step, the name it received, the copy for the callback.
Hnds == [pc : {"idle", "rlock", "copy", "callback", "enter", "each", "stuck"},
         name : Nodes \union {""}, ori : NodeInfos]

TypeOK ==
    /\ apiNode \in [Nodes -> Objects]
    /\ watch \in [Nodes -> Seq(Objects)]
    /\ cacheNode \in [Nodes -> Objects]
    /\ nodeQueue \in SUBSET Nodes
    /\ node \in [Nodes -> NodeInfos]
    /\ nodeCh \in Seq(Nodes)
    /\ Len(nodeCh) <= ChanCap
    /\ nodeMu \in Mutexes(NodeThreads)
    /\ rec \in Recs /\ (rec.pc # "idle" => rec.name \in Nodes)
    /\ hnd \in Hnds /\ (hnd.pc # "idle" => hnd.name \in Nodes)
    /\ up \in BOOLEAN

Init ==
    /\ apiNode = [n \in Nodes |-> Absent]
    /\ watch = [n \in Nodes |-> <<>>]
    /\ cacheNode = [n \in Nodes |-> Absent]
    /\ nodeQueue = {}
    /\ node = [n \in Nodes |-> NoInfo]
    /\ nodeCh = <<>>
    /\ nodeMu = Unlocked
    /\ rec = RecIdle
    /\ hnd = HndIdle
    /\ up = TRUE

-------------------------------------------------------------------------------
(* The API server.                                                         *)

\* Object n becomes o; a running controller's watch will tell it.
Store(n, o) ==
    /\ apiNode' = [apiNode EXCEPT ![n] = o]
    /\ watch' = IF up /\ o # apiNode[n]
                THEN [watch EXCEPT ![n] = Append(@, o)] ELSE watch

\* A deleting object disappears with its last finalizer.
Settle(o) == IF o.del /\ o.fins = {} THEN Absent ELSE o

\* A merge patch that turns the finalizers of a read copy from into to.  It
\* replaces the list as a whole, without checking that the object still is
\* the one that was read; the server rejects a patch of a missing object and
\* new finalizers on a deleting one.
PatchAccepted(o, from, to) ==
    o.ex /\ (from = to \/ ~o.del \/ to \subseteq o.fins)
Patched(o, from, to) ==
    IF from = to THEN o ELSE Settle([o EXCEPT !.fins = to])

-------------------------------------------------------------------------------
(* Users and kubelets.                                                     *)

CreateNode(n, i) ==
    /\ ~apiNode[n].ex
    /\ Len(watch[n]) < MaxLag
    /\ Store(n, [ex |-> TRUE, inst |-> i, del |-> FALSE, fins |-> {}])
    /\ UNCHANGED <<memVars, up>>

AnnotateNode(n, i) ==
    /\ apiNode[n].ex /\ apiNode[n].inst # i
    /\ Len(watch[n]) < MaxLag
    /\ Store(n, [apiNode[n] EXCEPT !.inst = i])
    /\ UNCHANGED <<memVars, up>>

DeleteNode(n) ==
    /\ apiNode[n].ex /\ ~apiNode[n].del
    /\ Len(watch[n]) < MaxLag
    /\ Store(n, Settle([apiNode[n] EXCEPT !.del = TRUE]))
    /\ UNCHANGED <<memVars, up>>

\* Another controller adds its finalizer to a live node, or drops it.
ForeignFinalizer(n, f) ==
    /\ apiNode[n].ex
    /\ Len(watch[n]) < MaxLag
    /\ IF f \in apiNode[n].fins
       THEN Store(n, Settle([apiNode[n] EXCEPT !.fins = @ \ {f}]))
       ELSE /\ ~apiNode[n].del
            /\ Store(n, [apiNode[n] EXCEPT !.fins = @ \union {f}])
    /\ UNCHANGED <<memVars, up>>

-------------------------------------------------------------------------------
(* The watch, the event filter and the work queue.                         *)

\* A watch event reaches the cache.  The filter looks at the new version, or
\* at the last known one when the object is gone.
SyncNode(n) ==
    /\ up /\ watch[n] # <<>>
    /\ LET new == Head(watch[n])
           obj == IF new.ex THEN new ELSE cacheNode[n]
       IN /\ cacheNode' = [cacheNode EXCEPT ![n] = new]
          /\ nodeQueue' = IF Annotated(obj) THEN nodeQueue \union {n}
                                            ELSE nodeQueue
    /\ watch' = [watch EXCEPT ![n] = Tail(@)]
    /\ UNCHANGED <<apiNode, node, nodeCh, nodeMu, rec, hnd, up>>

\* An event that changes nothing modelled here: the kubelet reports the
\* node's status, or the cache resyncs.
Heartbeat(n) ==
    /\ up /\ Annotated(cacheNode[n])
    /\ nodeQueue' = nodeQueue \union {n}
    /\ UNCHANGED <<kubeVars, cacheNode, node, nodeCh, nodeMu, rec, hnd, up>>

-------------------------------------------------------------------------------
(* Reconcile.                                                              *)

\* Get: the worker takes a name and reads the cached object; a name that is
\* not found is dropped.
ReconcileGet(n) ==
    /\ up /\ rec.pc = "idle" /\ n \in nodeQueue
    /\ nodeQueue' = nodeQueue \ {n}
    /\ rec' = IF cacheNode[n].ex
              THEN [pc |-> "lock", name |-> n, in |-> cacheNode[n]]
              ELSE rec
    /\ UNCHANGED <<kubeVars, cacheNode, node, nodeCh, nodeMu, hnd, up>>

\* Get failed for another reason: the request is queued again.
ReconcileGetError(n) ==
    /\ up /\ rec.pc = "idle" /\ n \in nodeQueue
    /\ UNCHANGED vars

ReconcileLock ==
    /\ up /\ rec.pc = "lock" /\ CanAnnounce(nodeMu)
    /\ nodeMu' = Announce(nodeMu, "rec")
    /\ rec' = [rec EXCEPT !.pc = "wait"]
    /\ UNCHANGED <<kubeVars, cacheNode, nodeQueue, node, nodeCh, hnd, up>>

\* Mutant: the entry is dropped when the object is deleted.
RecordedForgets(info, o) ==
    [known |-> ~o.del, deleted |-> o.del, unguarded |-> FALSE]

\* Mutant: the deletion of the object is not noted.
RecordedNeverFlags(info, o) ==
    [known |-> TRUE, deleted |-> info.deleted, unguarded |-> FALSE]

\* Mutant: the flag is set before the deletion timestamp is looked at.
RecordedFlagsEarly(info, o) ==
    [known |-> TRUE, deleted |-> TRUE, unguarded |-> o.del /\ Ctl \notin o.fins]

\* The entry of name n after the worker has recorded the object o in it.
\* An entry flagged deleted stays as it is.
Recorded(info, o) ==
    IF info.deleted
    THEN [info EXCEPT !.known = TRUE]
    ELSE [known |-> TRUE, deleted |-> o.del,
          unguarded |-> o.del /\ Ctl \notin o.fins]

\* The locked part up to the first call that can wait.
ReconcileRecord ==
    /\ up /\ rec.pc = "wait" /\ CanLock(nodeMu, "rec")
    /\ LET n == rec.name
       IN /\ node' = [node EXCEPT ![n] = Recorded(@, rec.in)]
          /\ \/ /\ node[n].deleted
                /\ rec' = [rec EXCEPT !.pc = "remove"]
                /\ nodeMu' = Lock(nodeMu, "rec")
             \/ /\ ~node[n].deleted /\ rec.in.del
                /\ rec' = RecIdle
                /\ nodeMu' = Unlock(Lock(nodeMu, "rec"))
             \/ /\ ~node[n].deleted /\ ~rec.in.del
                /\ rec' = [rec EXCEPT !.pc = "send"]
                /\ nodeMu' = Lock(nodeMu, "rec")
    /\ UNCHANGED <<kubeVars, cacheNode, nodeQueue, nodeCh, hnd, up>>

\* The worker returns, with an error iff the name is to be queued again.
Return(again) ==
    /\ rec' = RecIdle
    /\ nodeMu' = Unlock(nodeMu)
    /\ nodeQueue' = IF again THEN nodeQueue \union {rec.name} ELSE nodeQueue

\* Patch of the finalizers of the object that was read, to the set to.  It
\* fails (ok is FALSE) when the server rejects it or the request is lost.
PatchFinalizers(to, ok) ==
    IF ok
    THEN /\ PatchAccepted(apiNode[rec.name], rec.in.fins, to)
         /\ Store(rec.name, Patched(apiNode[rec.name], rec.in.fins, to))
         /\ Return(FALSE)
    ELSE UNCHANGED kubeVars /\ Return(TRUE)

\* Mutant: Reconcile does not return when the node cannot be released yet.
RemoveFallsThrough(could, ok) ==
    /\ up /\ rec.pc = "remove"
    /\ IF could THEN PatchFinalizers(rec.in.fins \ {Ctl}, ok)
                ELSE /\ rec' = [rec EXCEPT !.pc = "send"]
                     /\ UNCHANGED <<kubeVars, nodeQueue, nodeMu>>
    /\ UNCHANGED <<cacheNode, node, nodeCh, hnd, up>>

\* CouldRemove asks the pools of the node to go; could is its answer, which
\* is left open here.
RemoveFinalizer(could, ok) ==
    /\ up /\ rec.pc = "remove"
    /\ IF could THEN PatchFinalizers(rec.in.fins \ {Ctl}, ok)
                ELSE UNCHANGED kubeVars /\ Return(FALSE)
    /\ UNCHANGED <<cacheNode, node, nodeCh, hnd, up>>

\* Mutant: the channel has room for one name too many.
AnnouncementOverflows ==
    /\ up /\ rec.pc = "send" /\ Len(nodeCh) <= ChanCap
    /\ nodeCh' = Append(nodeCh, rec.name)
    /\ IF Ctl \in rec.in.fins
       THEN Return(FALSE)
       ELSE /\ rec' = [rec EXCEPT !.pc = "patch"]
            /\ UNCHANGED <<nodeMu, nodeQueue>>
    /\ UNCHANGED <<kubeVars, cacheNode, node, hnd, up>>

\* Mutant: any finalizer is taken for the controller's own.
AnnouncementAnyFinalizer ==
    /\ up /\ rec.pc = "send" /\ Len(nodeCh) < ChanCap
    /\ nodeCh' = Append(nodeCh, rec.name)
    /\ IF rec.in.fins # {}
       THEN Return(FALSE)
       ELSE /\ rec' = [rec EXCEPT !.pc = "patch"]
            /\ UNCHANGED <<nodeMu, nodeQueue>>
    /\ UNCHANGED <<kubeVars, cacheNode, node, hnd, up>>

\* n.ch <- info.Name, with n.mu locked: waits while the channel is full.
Announcement ==
    /\ up /\ rec.pc = "send" /\ Len(nodeCh) < ChanCap
    /\ nodeCh' = Append(nodeCh, rec.name)
    /\ IF Ctl \in rec.in.fins
       THEN Return(FALSE)
       ELSE /\ rec' = [rec EXCEPT !.pc = "patch"]
            /\ UNCHANGED <<nodeMu, nodeQueue>>
    /\ UNCHANGED <<kubeVars, cacheNode, node, hnd, up>>

AddFinalizer(ok) ==
    /\ up /\ rec.pc = "patch"
    /\ PatchFinalizers(rec.in.fins \union {Ctl}, ok)
    /\ UNCHANGED <<cacheNode, node, nodeCh, hnd, up>>

-------------------------------------------------------------------------------
(* handlerCallback.                                                        *)

\* Mutant: a name received while Reconcile holds the mutex is dropped.
ReceiveGivesUp ==
    /\ up /\ hnd.pc = "idle" /\ nodeCh # <<>>
    /\ hnd' = IF nodeMu.wr = Nobody
              THEN [pc |-> "rlock", name |-> Head(nodeCh), ori |-> NoInfo]
              ELSE hnd
    /\ nodeCh' = Tail(nodeCh)
    /\ UNCHANGED <<kubeVars, cacheNode, nodeQueue, node, nodeMu, rec, up>>

HandlerReceive ==
    /\ up /\ hnd.pc = "idle" /\ nodeCh # <<>>
    /\ hnd' = [pc |-> "rlock", name |-> Head(nodeCh), ori |-> NoInfo]
    /\ nodeCh' = Tail(nodeCh)
    /\ UNCHANGED <<kubeVars, cacheNode, nodeQueue, node, nodeMu, rec, up>>

HandlerRLock ==
    /\ up /\ hnd.pc \in {"rlock", "enter"}
    /\ nodeMu' = RLock(nodeMu, "hnd")
    /\ hnd' = [hnd EXCEPT !.pc = IF hnd.pc = "rlock" THEN "copy" ELSE "each"]
    /\ UNCHANGED <<kubeVars, cacheNode, nodeQueue, node, nodeCh, rec, up>>

\* The copy handed to the callback is nil when the name has no entry, and it
\* leaves the deleted flag out.
DeepCopy(info) == [info EXCEPT !.deleted = FALSE, !.unguarded = FALSE]

HandlerCopy ==
    /\ up /\ hnd.pc = "copy" /\ "hnd" \in nodeMu.rd
    /\ nodeMu' = RUnlock(nodeMu, "hnd")
    /\ hnd' = [hnd EXCEPT !.pc = "callback", !.ori = DeepCopy(node[hnd.name])]
    /\ UNCHANGED <<kubeVars, cacheNode, nodeQueue, node, nodeCh, rec, up>>

\* The callback may walk the nodes (EachNode) any number of times.
CallbackEachNode ==
    /\ up /\ hnd.pc = "callback"
    /\ hnd' = [hnd EXCEPT !.pc = "enter"]
    /\ UNCHANGED <<kubeVars, cacheNode, nodeQueue, node, nodeCh, nodeMu, rec,
                   up>>

EachNodeDone ==
    /\ up /\ hnd.pc = "each" /\ "hnd" \in nodeMu.rd
    /\ nodeMu' = RUnlock(nodeMu, "hnd")
    /\ hnd' = [hnd EXCEPT !.pc = "callback"]
    /\ UNCHANGED <<kubeVars, cacheNode, nodeQueue, node, nodeCh, rec, up>>

CallbackReturn ==
    /\ up /\ hnd.pc = "callback"
    /\ hnd' = HndIdle
    /\ UNCHANGED <<kubeVars, cacheNode, nodeQueue, node, nodeCh, nodeMu, rec,
                   up>>

\* The callback never returns.  That of the vpc manager, the only one there
\* is, stays in its send to a channel that was never made as soon as it has
\* an event, or behind a goroutine that does.
CallbackBlocks ==
    /\ up /\ hnd.pc = "callback"
    /\ hnd' = [hnd EXCEPT !.pc = "stuck"]
    /\ UNCHANGED <<kubeVars, cacheNode, nodeQueue, node, nodeCh, nodeMu, rec,
                   up>>

-------------------------------------------------------------------------------
(* The process.                                                            *)

\* Nothing of the controller survives but the objects in the API server.
WipeMemory ==
    /\ watch' = [n \in Nodes |-> <<>>]
    /\ cacheNode' = [n \in Nodes |-> Absent]
    /\ nodeQueue' = {}
    /\ node' = [n \in Nodes |-> NoInfo]
    /\ nodeCh' = <<>>
    /\ nodeMu' = Unlocked
    /\ rec' = RecIdle
    /\ hnd' = HndIdle

Crash ==
    /\ up
    /\ WipeMemory
    /\ up' = FALSE
    /\ UNCHANGED apiNode

\* NewControllerManager, then the cache is listed and every annotated object
\* comes in as a create event.
Restart ==
    /\ ~up
    /\ up' = TRUE
    /\ cacheNode' = apiNode
    /\ nodeQueue' = {n \in Nodes : Annotated(apiNode[n])}
    /\ UNCHANGED <<kubeVars, node, nodeCh, nodeMu, rec, hnd>>

Environment ==
    \E n \in Nodes :
        \/ \E i \in Insts \union {NoInst} : CreateNode(n, i) \/ AnnotateNode(n, i)
        \/ DeleteNode(n)
        \/ \E f \in Foreign : ForeignFinalizer(n, f)
        \/ SyncNode(n)
        \/ Heartbeat(n)

Worker ==
    \/ \E n \in Nodes : ReconcileGet(n) \/ ReconcileGetError(n)
    \/ ReconcileLock
    \/ ReconcileRecord
    \/ \E could, ok \in BOOLEAN : RemoveFinalizer(could, ok)
    \/ Announcement
    \/ \E ok \in BOOLEAN : AddFinalizer(ok)

Handler ==
    \/ HandlerReceive \/ HandlerRLock \/ HandlerCopy
    \/ CallbackEachNode \/ EachNodeDone \/ CallbackReturn
    \/ CallbackBlocks

Next == Environment \/ Worker \/ Handler \/ Crash \/ Restart

Spec == Init /\ [][Next]_vars

\* What the scheduling justifies.  The watch delivers; every node's kubelet
\* reports its status and the cache resyncs, so events keep coming; the work
\* queue hands every name out; goroutines run; the callback walks the nodes
\* once for each subnet, so it returns in the end or blocks; of a patch retried
\* for ever, one gets through; the process is restarted.
FairSteps ==
    /\ \A n \in Nodes :
          /\ WF_vars(SyncNode(n)) /\ WF_vars(Heartbeat(n))
          /\ SF_vars(ReconcileGet(n))
          /\ SF_vars(rec.name = n /\ AddFinalizer(TRUE))
    /\ WF_vars(ReconcileLock \/ ReconcileRecord \/ Announcement
                  \/ \E ok \in BOOLEAN : AddFinalizer(ok))
    /\ WF_vars(HandlerReceive \/ HandlerRLock \/ HandlerCopy \/ EachNodeDone)
    /\ SF_vars(CallbackReturn \/ CallbackBlocks)
    /\ WF_vars(Restart)

\* The answer of CouldRemove is open here, but not no for ever.
FairRemoval ==
    /\ \A n \in Nodes : SF_vars(rec.name = n /\ RemoveFinalizer(TRUE, TRUE))
    /\ WF_vars(\E could, ok \in BOOLEAN : RemoveFinalizer(could, ok))

Fairness == FairSteps /\ FairRemoval

FairSpec == Spec /\ Fairness

-------------------------------------------------------------------------------
(* Properties.                                                             *)

\* handlerCallback never passes a nil NodeInfo to the callback, which would
\* dereference it: every name on its way through the channel has an entry in
\* the map, so no path of Reconcile may drop an entry.
AnnouncedNodesKnown ==
    /\ \A k \in 1 .. Len(nodeCh) : node[nodeCh[k]].known
    /\ hnd.pc \in {"rlock", "copy"} => node[hnd.name].known
    /\ hnd.pc \in {"callback", "enter", "each", "stuck"} => hnd.ori.known

\* The callback has not returned and never will: nobody receives any more.
HandlerLost == hnd.pc = "stuck"

\* Reconcile stays in its send to the full channel, with n.mu locked: the only
\* receiver waits for n.mu, or is lost in the callback.
Wedged ==
    /\ rec.pc = "send" /\ Len(nodeCh) = ChanCap
    /\ hnd.pc \in {"rlock", "copy", "enter", "each"} \/ HandlerLost

\* A node object the controller has given up (flagged deleted) and still
\* guards with its finalizer is really being deleted, whatever the lag of the
\* cache, wherever the process crashes and whoever else keeps finalizers on
\* nodes, if the object that set the flag carried the controller's finalizer.
\* One that did not was held by somebody else's alone; it may be gone and its
\* successor guarded by a patch that was meant for it (node.go:158).
FlaggedGuardedIsDeleting ==
    \A n \in Nodes :
        node[n].deleted /\ Ctl \in apiNode[n].fins
            => apiNode[n].del \/ node[n].unguarded

\* The finalizer of a node that is not being deleted is never taken away,
\* neither by the patch that releases a node (node.go:140) nor by the one
\* that guards it, unless the name was flagged from an unguarded object.
NeverStripLive ==
    [][\A n \in Nodes : Ctl \in apiNode[n].fins /\ Ctl \notin apiNode'[n].fins
                            => apiNode[n].del \/ node[n].unguarded]_vars

\* A name Reconcile has put into the channel reaches the callback, unless
\* the controller wedges or dies first, or the callback blocks for ever on
\* an earlier name.
AnnouncementsDelivered ==
    \A n \in Nodes :
        (\E k \in 1 .. Len(nodeCh) : nodeCh[k] = n)
            ~> \/ hnd.pc = "callback" /\ hnd.name = n
               \/ Wedged \/ HandlerLost \/ ~up

\* A node that stays annotated and alive gets the controller's finalizer,
\* unless Reconcile is wedged in its send, the name is flagged as deleted or
\* the process dies again and again.  A handler lost in its callback does no
\* harm before the channel is full.
LiveNodesGuarded ==
    \A n \in Nodes :
        []<>(\/ ~Annotated(apiNode[n]) \/ apiNode[n].del
             \/ Ctl \in apiNode[n].fins
             \/ node[n].deleted \/ Wedged \/ ~up)

\* A deleting node that keeps its annotation is released in the end: the
\* event that flags it is followed by one that removes the finalizer, also
\* with a handler lost in its callback, unless Reconcile is wedged or the
\* process dies again and again.
DeletingNodesReleased ==
    \A n \in Nodes :
        []<>(\/ ~Annotated(apiNode[n]) \/ ~apiNode[n].del
             \/ Ctl \notin apiNode[n].fins
             \/ Wedged \/ ~up)

\* Contradicted by the code: a registered callback hears of every node that
\* Reconcile announces (config.go:13), whatever the load, if it returns from
\* every call.
CallbackHears ==
    \A n \in Nodes :
        (\E k \in 1 .. Len(nodeCh) : nodeCh[k] = n)
            ~> (hnd.pc = "callback" /\ hnd.name = n) \/ HandlerLost \/ ~up
===============================================================================
