---------------------------- MODULE PoolController ----------------------------
(***************************************************************************)
(* The pool controller of pkg/ippool/spiderpool: it follows the            *)
(* SpiderIPPool objects that carry the subnet annotation and keeps a map   *)
(* of them, which the node and vpc managers walk with EachPool.  Nothing   *)
(* waits while the mutex of the map is held, so a critical section is one  *)
(* step.                                                                   *)
(*                                                                         *)
(* Reconcile adds the list of addresses of a pool to a hash set as one     *)
(* element; a slice cannot be hashed, so it panics right after it has put  *)
(* the new entry into the map, and the process dies a moment later.        *)
(***************************************************************************)
EXTENDS Naturals, FiniteSets

CONSTANTS
    Pools,   \* names of SpiderIPPool objects
    Nodes,   \* names of nodes
    NoNode   \* Spec.NodeName is empty

VARIABLES
    apiPool,    \* the SpiderIPPool objects, as the API server and cache have them
    poolQueue,  \* names to reconcile
    pools,      \* controller.pools: the NodeName of each entry, or NoNode
    prec,       \* the reconcile worker
    up          \* the process is running

poolVars == <<apiPool, poolQueue, pools, prec>>

NoPool      == [ex |-> FALSE, anno |-> FALSE, nd |-> NoNode]
PoolObjects == [ex : BOOLEAN, anno : BOOLEAN, nd : Nodes \union {NoNode}]

PoolTypeOK ==
    /\ apiPool \in [Pools -> PoolObjects]
    /\ poolQueue \in SUBSET Pools
    /\ pools \in [Pools -> Nodes \union {NoNode}]
    /\ prec \in {"idle", "panic"}

PoolInit ==
    /\ apiPool = [p \in Pools |-> NoPool]
    /\ poolQueue = {}
    /\ pools = [p \in Pools |-> NoNode]
    /\ prec = "idle"

-------------------------------------------------------------------------------
(* Users, spiderpool and the event filter, which looks at the new version  *)
(* of an object, or at the last one when it is gone.                       *)

StorePool(p, o) ==
    /\ apiPool' = [apiPool EXCEPT ![p] = o]
    /\ LET obj == IF o.ex THEN o ELSE apiPool[p]
       IN poolQueue' = IF up /\ obj.anno THEN poolQueue \union {p} ELSE poolQueue
    /\ UNCHANGED <<pools, prec>>

CreatePool(p, anno, n) ==
    /\ ~apiPool[p].ex
    /\ StorePool(p, [ex |-> TRUE, anno |-> anno, nd |-> n])

AnnotatePool(p) ==
    /\ apiPool[p].ex
    /\ StorePool(p, [apiPool[p] EXCEPT !.anno = ~@])

DeletePool(p) ==
    /\ apiPool[p].ex
    /\ StorePool(p, NoPool)

-------------------------------------------------------------------------------
(* Reconcile: a Get from the cache, then a critical section that reads no  *)
(* object but the one it got.  A change of the object in between can as    *)
(* well come after the section, so a request is one step.                  *)

\* Not found: the entry goes.
PoolDrop(p) ==
    /\ up /\ prec = "idle" /\ p \in poolQueue
    /\ ~apiPool[p].ex
    /\ pools' = [pools EXCEPT ![p] = NoNode]
    /\ poolQueue' = poolQueue \ {p}
    /\ UNCHANGED <<apiPool, prec>>

\* The annotation has gone since the event.
PoolSkip(p) ==
    /\ up /\ prec = "idle" /\ p \in poolQueue
    /\ apiPool[p].ex /\ ~apiPool[p].anno
    /\ poolQueue' = poolQueue \ {p}
    /\ UNCHANGED <<apiPool, pools, prec>>

\* A Get that fails otherwise queues the name again.
PoolGetError(p) ==
    /\ up /\ prec = "idle" /\ p \in poolQueue
    /\ UNCHANGED poolVars

\* Mutant: the panic is recovered from and the worker goes on.
PoolInsertRecovers(p) ==
    /\ up /\ prec = "idle" /\ p \in poolQueue
    /\ apiPool[p].ex /\ apiPool[p].anno
    /\ pools' = [pools EXCEPT ![p] = IF @ = NoNode THEN apiPool[p].nd ELSE @]
    /\ poolQueue' = poolQueue \ {p}
    /\ UNCHANGED <<apiPool, prec>>

\* The entry is made, unless indexing the empty NodeName panics first; then
\* CapIp.Add panics.  The deferred Unlock runs in either case.
PoolInsert(p) ==
    /\ up /\ prec = "idle" /\ p \in poolQueue
    /\ apiPool[p].ex /\ apiPool[p].anno
    /\ pools' = [pools EXCEPT ![p] = IF @ = NoNode THEN apiPool[p].nd ELSE @]
    /\ prec' = "panic"
    /\ poolQueue' = poolQueue \ {p}
    /\ UNCHANGED apiPool

\* The pools the manager knows of on node n.
PoolsOf(n) == {p \in Pools : pools[p] = n}

WipePools ==
    /\ poolQueue' = {}
    /\ pools' = [p \in Pools |-> NoNode]
    /\ prec' = "idle"
    /\ UNCHANGED apiPool

RelistPools ==
    /\ poolQueue' = {p \in Pools : apiPool[p].ex /\ apiPool[p].anno}
    /\ UNCHANGED <<apiPool, pools, prec>>

PoolUsers ==
    \E p \in Pools :
        \/ \E anno \in BOOLEAN, n \in Nodes \union {NoNode} : CreatePool(p, anno, n)
        \/ AnnotatePool(p)
        \/ DeletePool(p)

PoolWorker ==
    \E p \in Pools : PoolDrop(p) \/ PoolSkip(p) \/ PoolGetError(p) \/ PoolInsert(p)
===============================================================================
