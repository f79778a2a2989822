------------------------------- MODULE NodePools -------------------------------
(***************************************************************************)
(* The node controller together with the pool controller, in one process.  *)
(* The node controller asks the pool map, through CouldRemove, whether a   *)
(* deleting node may be released; a panic of the pool worker takes the     *)
(* node controller down with it.                                           *)
(***************************************************************************)
EXTENDS NodeController

CONSTANTS Pools, NoNode

ASSUME NoNodeAssumption == NoNode \notin Nodes

VARIABLES apiPool, poolQueue, pools, prec

P == INSTANCE PoolController

poolVars == <<apiPool, poolQueue, pools, prec>>
allVars  == <<vars, poolVars>>

PoolsInit == Init /\ P!PoolInit

\* CouldRemove: every pool of the node is to be deleted.  Reconcile of the
\* pools never sets MainId, so UpdatePool refuses each of them, and the node
\* stays as long as the map has a pool of it.
CouldRemove(n) == P!PoolsOf(n) = {}

AskAndRemove(ok) == RemoveFinalizer(CouldRemove(rec.name), ok) /\ UNCHANGED poolVars

\* The other steps of the node controller.
NodeStep ==
    /\ Environment \/ Handler \/ (rec.pc # "remove" /\ Worker)
    /\ UNCHANGED poolVars

PoolStep == (P!PoolUsers \/ P!PoolWorker) /\ UNCHANGED vars

\* The process dies of the panic, or for a reason of its own.
ProcessDies == Crash /\ P!WipePools

ProcessRestarts == Restart /\ P!RelistPools

PoolsNext ==
    \/ NodeStep
    \/ \E ok \in BOOLEAN : AskAndRemove(ok)
    \/ PoolStep
    \/ ProcessDies
    \/ ProcessRestarts

PoolsSpec == PoolsInit /\ [][PoolsNext]_allVars

\* The scheduling of the node controller, with the answer that CouldRemove
\* really gives; a panic ends the process.
PoolsFairness ==
    /\ FairSteps
    /\ \A n \in Nodes :
          SF_allVars(rec.name = n /\ CouldRemove(n) /\ AskAndRemove(TRUE))
    /\ WF_allVars(\E ok \in BOOLEAN : AskAndRemove(ok))
    /\ WF_allVars(prec = "panic" /\ ProcessDies)

PoolsFairSpec == PoolsSpec /\ PoolsFairness

-------------------------------------------------------------------------------
\* No pool holds a deleting node back for ever in a process that lives on:
\* UpdatePool refuses to delete a pool (node.go:176), so that CouldRemove
\* says no as long as the map has one of the node, and yet the node is
\* released, unless Reconcile is wedged or the process dies again and again.
ReleasedDespitePools ==
    \A n \in Nodes :
        []<>(\/ ~Annotated(apiNode[n]) \/ ~apiNode[n].del
             \/ Ctl \notin apiNode[n].fins
             \/ Wedged \/ ~up)
===============================================================================
