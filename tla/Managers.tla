------------------------------- MODULE Managers -------------------------------
(***************************************************************************)
(* The node controller, the namespace controller and the vpc manager in    *)
(* one process, at the level of what they wait for: the mutex of the node  *)
(* map, the mutex of the map of subnets, and the channels.  The vpc        *)
(* manager is that of VpcManager; of the node controller there is what it  *)
(* shares with the vpc manager, with any requests and objects.             *)
(*                                                                         *)
(* The worker of the node controller sends names to a channel with its     *)
(* mutex locked.  Its handler ("hnd") receives them and calls the callback *)
(* of the vpc manager, as does the namespace worker ("nsw").  A callback   *)
(* holds the mutex of the subnets for reading and takes that of the nodes, *)
(* for each subnet it computes an event for (getSubnatEvent, EachNode).    *)
(***************************************************************************)
EXTENDS VpcManager, Sequences

CONSTANTS
    NoSubnat,  \* the callback does not walk the nodes
    ChanCap    \* capacity of the channel of names (16 in the code)

ASSUME NoSubnatAssumption == NoSubnat \notin Subnets
ASSUME ChanCapAssumption  == ChanCap \in Nat \ {0}

VARIABLES
    nodeMu,   \* the node controller's mu
    nodeCh,   \* the node controller's ch
    nrec,     \* its reconcile worker
    hnd,      \* the goroutine of handlerCallback, outside of the callback
    visit     \* the subnet for which a callback walks the nodes

nodeVars == <<nodeMu, nodeCh, nrec, hnd, visit>>
allVars  == <<vars, nodeVars>>

NrecIdle == [pc |-> "idle", name |-> ""]
HndIdle  == [pc |-> "idle", name |-> ""]

\* Nothing of the node controller's memory is there when the process starts.
NodeMemory(mu, ch, rec, h, v) ==
    /\ mu = Unlocked
    /\ ch = <<>>
    /\ rec = NrecIdle
    /\ h = HndIdle
    /\ v = [t \in Callers |-> NoSubnat]

ManagersInit == Init /\ NodeMemory(nodeMu, nodeCh, nrec, hnd, visit)

-------------------------------------------------------------------------------
(* Reconcile of the node controller.                                       *)

NodeGet(n) ==
    /\ up /\ nrec.pc = "idle"
    /\ nrec' = [pc |-> "lock", name |-> n]
    /\ UNCHANGED <<vars, nodeMu, nodeCh, hnd, visit>>

NodeLock ==
    /\ up /\ nrec.pc = "lock" /\ CanAnnounce(nodeMu)
    /\ nodeMu' = Announce(nodeMu, "nrec")
    /\ nrec' = [nrec EXCEPT !.pc = "wait"]
    /\ UNCHANGED <<vars, nodeCh, hnd, visit>>

\* The entry is made.  A node that is not deleting is announced; what is
\* done for a deleting one waits for nobody here.
NodeRecord ==
    /\ up /\ nrec.pc = "wait" /\ CanLock(nodeMu, "nrec")
    /\ nodeMu' = Lock(nodeMu, "nrec")
    /\ known' = known \union {nrec.name}
    /\ \E pc \in {"send", "return"} : nrec' = [nrec EXCEPT !.pc = pc]
    /\ UNCHANGED <<apiSub, subQueue, subnats, vpcMu, srec, cb, lost, starter,
                   up, nodeCh, hnd, visit>>

NodeSend ==
    /\ up /\ nrec.pc = "send" /\ Len(nodeCh) < ChanCap
    /\ nodeCh' = Append(nodeCh, nrec.name)
    /\ nrec' = [nrec EXCEPT !.pc = "return"]
    /\ UNCHANGED <<vars, nodeMu, hnd, visit>>

\* The patch, if there is one, is done: the deferred Unlock.
NodeReturn ==
    /\ up /\ nrec.pc = "return"
    /\ nodeMu' = Unlock(nodeMu)
    /\ nrec' = NrecIdle
    /\ UNCHANGED <<vars, nodeCh, hnd, visit>>

-------------------------------------------------------------------------------
(* handlerCallback.                                                        *)

HandlerReceive ==
    /\ up /\ hnd.pc = "idle" /\ cb["hnd"].pc = "idle" /\ nodeCh # <<>>
    /\ hnd' = [pc |-> "rlock", name |-> Head(nodeCh)]
    /\ nodeCh' = Tail(nodeCh)
    /\ UNCHANGED <<vars, nodeMu, nrec, visit>>

HandlerRLock ==
    /\ up /\ hnd.pc = "rlock"
    /\ nodeMu' = RLock(nodeMu, "hnd")
    /\ hnd' = [hnd EXCEPT !.pc = "copy"]
    /\ UNCHANGED <<vars, nodeCh, nrec, visit>>

\* Mutant: the read lock is given back only when the callback has returned.
HandlerCallsLocked ==
    /\ hnd.pc = "copy" /\ "hnd" \in nodeMu.rd
    /\ Call("hnd", hnd.name)
    /\ hnd' = HndIdle
    /\ UNCHANGED <<nodeMu, nodeCh, nrec, visit>>

\* The entry is copied, the mutex given back, and the callback called.
HandlerCalls ==
    /\ hnd.pc = "copy" /\ "hnd" \in nodeMu.rd
    /\ nodeMu' = RUnlock(nodeMu, "hnd")
    /\ Call("hnd", hnd.name)
    /\ hnd' = HndIdle
    /\ UNCHANGED <<nodeCh, nrec, visit>>

-------------------------------------------------------------------------------
(* The callback.                                                           *)

\* EachNode, for one of the subnets that the callback selects.
VisitNodes(t) ==
    /\ up /\ cb[t].pc = "walk" /\ t \in vpcMu.rd /\ visit[t] = NoSubnat
    /\ \E s \in Selected(t) : visit' = [visit EXCEPT ![t] = s]
    /\ nodeMu' = RLock(nodeMu, t)
    /\ UNCHANGED <<vars, nodeCh, nrec, hnd>>

\* Mutant: the mutex of the subnets is given back before the send.
VisitDoneUnlocked(t) ==
    /\ up /\ visit[t] # NoSubnat /\ t \in nodeMu.rd
    /\ EventNodes(visit[t]) = {}
    /\ nodeMu' = RUnlock(nodeMu, t)
    /\ vpcMu' = RUnlock(vpcMu, t)
    /\ visit' = [visit EXCEPT ![t] = NoSubnat]
    /\ cb' = [cb EXCEPT ![t].pc = "send"]
    /\ UNCHANGED <<apiSub, subQueue, subnats, srec, known, lost, starter, up,
                   nodeCh, nrec, hnd>>

\* No node of the subnet is known: the event is to be sent.
VisitDone(t) ==
    /\ up /\ visit[t] # NoSubnat /\ t \in nodeMu.rd
    /\ EventNodes(visit[t]) = {}
    /\ nodeMu' = RUnlock(nodeMu, t)
    /\ visit' = [visit EXCEPT ![t] = NoSubnat]
    /\ cb' = [cb EXCEPT ![t].pc = "send"]
    /\ UNCHANGED <<apiSub, subQueue, subnats, vpcMu, srec, known, lost, starter,
                   up, nodeCh, nrec, hnd>>

ProcessDies == Dies /\ NodeMemory(nodeMu', nodeCh', nrec', hnd', visit')

\* A node of the subnet is known: the panic ends the process.
VisitPanic(t) ==
    /\ up /\ visit[t] # NoSubnat /\ t \in nodeMu.rd
    /\ EventNodes(visit[t]) # {}
    /\ ProcessDies

-------------------------------------------------------------------------------
NodeWorker == NodeLock \/ NodeRecord \/ NodeSend \/ NodeReturn

Handler == HandlerReceive \/ HandlerRLock \/ HandlerCalls

Visits(t) ==
    \/ (CallbackRLock(t) \/ CallbackReturn(t)) /\ UNCHANGED nodeVars
    \/ VisitNodes(t) \/ VisitDone(t) \/ VisitPanic(t)

\* What the vpc manager does whatever the node controller does.
VpcSteps == Users \/ StartDefault \/ Reconcile \/ NamespaceEvent \/ Restart

ManagersNext ==
    \/ \E n \in Nodes : NodeGet(n)
    \/ NodeWorker
    \/ Handler
    \/ \E t \in Callers : Visits(t)
    \/ VpcSteps /\ UNCHANGED nodeVars
    \/ up /\ starter /\ ProcessDies

SubnetWorker ==
    /\ SubnetLock \/ SubnetRecord \/ \E ok \in BOOLEAN : SubnetRemove(ok)
    /\ UNCHANGED nodeVars

\* Each of the four goroutines runs when it can.
ManagersFairness ==
    /\ WF_allVars(NodeWorker)
    /\ WF_allVars(SubnetWorker)
    /\ WF_allVars(Handler \/ Visits("hnd"))
    /\ WF_allVars(Visits("nsw"))

ManagersSpec == ManagersInit /\ [][ManagersNext]_allVars /\ ManagersFairness

-------------------------------------------------------------------------------
Waiting(w) ==
    CASE w = "nrec" -> nrec.pc # "idle"
      [] w = "srec" -> srec.pc # "idle"
      [] w = "hnd"  -> hnd.pc # "idle" \/ cb["hnd"].pc # "idle"
      [] w = "nsw"  -> cb["nsw"].pc # "idle"

\* The mutexes alone never stop anybody: each worker comes back from what it
\* does, unless the node worker stays in its send with the mutex locked
\* (node.go:155) or a callback stays in its send (vpc.go:261-277).
OnlySendsBlock ==
    \A w \in {"nrec", "srec", "hnd", "nsw"} :
        <>[]Waiting(w) => <>[](nrec.pc = "send") \/ <>[]Blocked

\* In this company the vpc manager does what it does among any nodes: what
\* holds of VpcManager holds here.
ImplementsVpcManager == Spec
===============================================================================
