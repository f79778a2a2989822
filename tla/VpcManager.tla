----------------------------- MODULE VpcManager -----------------------------
(***************************************************************************)
(* The vpc manager of pkg/vpc.  One worker reconciles the Subnet objects   *)
(* into the map subnats; the goroutine of the node controller ("hnd") and  *)
(* the worker of the namespace controller ("nsw") call its callback, which *)
(* computes an event for every subnet that selects the node or namespace   *)
(* and sends it to the channel ch.  The mutex mu guards the map.           *)
(*                                                                         *)
(* NewManager never makes the channel ch.  A send to a nil channel blocks  *)
(* for ever, so a callback that has an event to send stops there, with the *)
(* read lock held, and processWork never receives anything: its map of     *)
(* events stays empty.                                                     *)
(***************************************************************************)
EXTENDS Naturals, FiniteSets, RWMutex

CONSTANTS
    Subnets,    \* names of Subnet objects
    Default,    \* the name defaultSubnat
    Nodes,      \* names of nodes
    Spaces,     \* names of namespaces
    Specs       \* the specs that users write

\* A selector: the list of the spec if one is given, else that of the status.
Selectors(S) == [given : BOOLEAN, names : SUBSET S]
Every        == [given |-> FALSE, names |-> {}]

\* vpc says whether Spec.Vpc is given (Subnet and Project are required).
AllSpecs == [vpc : BOOLEAN, nodes : Selectors(Nodes), spaces : Selectors(Spaces)]

ASSUME DefaultAssumption == Default \in Subnets
ASSUME SpecsAssumption   == Specs \subseteq AllSpecs

VARIABLES
    apiSub,    \* the Subnet objects, as the API server and the cache have them
    subQueue,  \* names to reconcile
    subnats,   \* Manager.subnats
    vpcMu,     \* Manager.mu
    srec,      \* the reconcile worker
    cb,        \* the threads that call the callback
    known,     \* the nodes in the node controller's map
    lost,      \* names taken from the queue whose read then failed
    starter,   \* Start is still to create the default subnet
    up         \* the process is running

vars == <<apiSub, subQueue, subnats, vpcMu, srec, cb, known, lost, starter, up>>

Callers == {"hnd", "nsw"}
Threads == Callers \union {"srec"}

NoSpec     == [vpc |-> FALSE, nodes |-> Every, spaces |-> Every]
NoSubnet   == [ex |-> FALSE, spec |-> NoSpec, del |-> FALSE, held |-> FALSE]
SubObjects == [ex : BOOLEAN, spec : AllSpecs, del : BOOLEAN, held : BOOLEAN]
Read(o)    == [spec |-> o.spec, del |-> o.del]

\* Sninfo; an entry that is not known is a name missing from the map.
Sninfos  == [known : BOOLEAN, Node : SUBSET Nodes, allnode : BOOLEAN,
             Namespace : SUBSET Spaces, allnamespace : BOOLEAN, Deleted : BOOLEAN]
NoSninfo == [known |-> FALSE, Node |-> {}, allnode |-> FALSE,
             Namespace |-> {}, allnamespace |-> FALSE, Deleted |-> FALSE]

\* The worker: its step, the name it reconciles, what it has read of it.
SrecIdle == [pc |-> "idle", name |-> Default, in |-> Read(NoSubnet)]
CbIdle   == [pc |-> "idle", arg |-> ""]

TypeOK ==
    /\ apiSub \in [Subnets -> SubObjects]
    /\ subQueue \in SUBSET Subnets
    /\ subnats \in [Subnets -> Sninfos]
    /\ vpcMu \in Mutexes(Threads)
    /\ srec \in [pc : {"idle", "lock", "wait", "remove"}, name : Subnets,
                 in : [spec : AllSpecs, del : BOOLEAN]]
    /\ cb \in [Callers -> [pc : {"idle", "rlock", "walk", "send"},
                           arg : Nodes \union Spaces \union {""}]]
    /\ known \in SUBSET Nodes
    /\ lost \in SUBSET Subnets
    /\ starter \in BOOLEAN
    /\ up \in BOOLEAN

Init ==
    /\ apiSub = [s \in Subnets |-> NoSubnet]
    /\ subQueue = {}
    /\ subnats = [s \in Subnets |-> NoSninfo]
    /\ vpcMu = Unlocked
    /\ srec = SrecIdle
    /\ cb = [t \in Callers |-> CbIdle]
    /\ known = {}
    /\ lost = {}
    /\ starter = TRUE
    /\ up = TRUE

-------------------------------------------------------------------------------
(* Subnet objects.  Every change of an object queues its name.             *)

Live(o) == o.ex /\ ~o.del

Store(s, o) ==
    /\ apiSub' = [apiSub EXCEPT ![s] = o]
    /\ subQueue' = IF up THEN subQueue \union {s} ELSE subQueue
    /\ lost' = lost \ {s}

\* held: somebody has put a finalizer on the object; this controller never
\* does.
CreateSubnet(s, spec, held) ==
    /\ ~apiSub[s].ex
    /\ Store(s, [ex |-> TRUE, spec |-> spec, del |-> FALSE, held |-> held])
    /\ UNCHANGED <<subnats, vpcMu, srec, cb, known, starter, up>>

UpdateSubnet(s, spec) ==
    /\ apiSub[s].ex /\ apiSub[s].spec # spec
    /\ Store(s, [apiSub[s] EXCEPT !.spec = spec])
    /\ UNCHANGED <<subnats, vpcMu, srec, cb, known, starter, up>>

DeleteSubnet(s) ==
    /\ Live(apiSub[s])
    /\ Store(s, IF apiSub[s].held THEN [apiSub[s] EXCEPT !.del = TRUE] ELSE NoSubnet)
    /\ UNCHANGED <<subnats, vpcMu, srec, cb, known, starter, up>>

ReleaseSubnet(s) ==
    /\ apiSub[s].ex /\ apiSub[s].held
    /\ Store(s, IF apiSub[s].del THEN NoSubnet ELSE [apiSub[s] EXCEPT !.held = FALSE])
    /\ UNCHANGED <<subnats, vpcMu, srec, cb, known, starter, up>>

\* The process dies, with all it knew.
Dies ==
    /\ up' = FALSE
    /\ subQueue' = {}
    /\ subnats' = [s \in Subnets |-> NoSninfo]
    /\ vpcMu' = Unlocked
    /\ srec' = SrecIdle
    /\ cb' = [c \in Callers |-> CbIdle]
    /\ known' = {}
    /\ lost' = {}
    /\ UNCHANGED <<apiSub, starter>>

\* Start: all retries failed; the manager gives up.
StartFails == up /\ starter /\ Dies

\* Start: the default subnet is created if it is missing, from
\* defaultEniSubnat, which sets no Vpc and no selectors.
StartDefault ==
    /\ up /\ starter
    /\ starter' = FALSE
    /\ IF apiSub[Default].ex
       THEN UNCHANGED <<apiSub, subQueue, lost>>
       ELSE Store(Default, [ex |-> TRUE, spec |-> NoSpec, del |-> FALSE, held |-> FALSE])
    /\ UNCHANGED <<subnats, vpcMu, srec, cb, known, up>>

-------------------------------------------------------------------------------
(* Reconcile.                                                              *)

\* Get and the check of the spec; a missing or incomplete object ends here.
SubnetGet(s) ==
    /\ up /\ srec.pc = "idle" /\ s \in subQueue
    /\ subQueue' = subQueue \ {s}
    /\ srec' = IF apiSub[s].ex /\ apiSub[s].spec.vpc
               THEN [pc |-> "lock", name |-> s, in |-> Read(apiSub[s])]
               ELSE srec
    /\ UNCHANGED <<apiSub, subnats, vpcMu, cb, known, lost, starter, up>>

\* A Get that fails is answered like a missing object: nothing is tried
\* again until the next event of the object.
SubnetGetError(s) ==
    /\ up /\ srec.pc = "idle" /\ s \in subQueue
    /\ subQueue' = subQueue \ {s}
    /\ lost' = lost \union {s}
    /\ UNCHANGED <<apiSub, subnats, vpcMu, srec, cb, known, starter, up>>

\* Mutant: a request that finds the mutex taken is dropped.
SubnetTryLock ==
    /\ up /\ srec.pc = "lock"
    /\ IF CanAnnounce(vpcMu) /\ vpcMu.rd = {}
       THEN /\ vpcMu' = Announce(vpcMu, "srec")
            /\ srec' = [srec EXCEPT !.pc = "wait"]
       ELSE /\ srec' = SrecIdle
            /\ UNCHANGED vpcMu
    /\ UNCHANGED <<apiSub, subQueue, subnats, cb, known, lost, starter, up>>

SubnetLock ==
    /\ up /\ srec.pc = "lock" /\ CanAnnounce(vpcMu)
    /\ vpcMu' = Announce(vpcMu, "srec")
    /\ srec' = [srec EXCEPT !.pc = "wait"]
    /\ UNCHANGED <<apiSub, subQueue, subnats, cb, known, lost, starter, up>>

\* Mutant: the nodes of the spec end up among the namespaces.
SnRecordedSwapped(sn, o) ==
    IF sn.Deleted \/ o.del
    THEN [sn EXCEPT !.known = TRUE, !.Deleted = TRUE]
    ELSE [known |-> TRUE,
          Node |-> sn.Node \union o.spec.nodes.names,
          allnode |-> sn.allnode \/ ~o.spec.nodes.given,
          Namespace |-> sn.Namespace \union o.spec.nodes.names,
          allnamespace |-> sn.allnamespace \/ ~o.spec.spaces.given,
          Deleted |-> FALSE]

\* Mutant: the selectors are taken from the first version only.
SnRecordedOnce(sn, o) ==
    IF sn.known \/ o.del
    THEN [sn EXCEPT !.known = TRUE, !.Deleted = @ \/ o.del]
    ELSE [known |-> TRUE,
          Node |-> o.spec.nodes.names, allnode |-> ~o.spec.nodes.given,
          Namespace |-> o.spec.spaces.names, allnamespace |-> ~o.spec.spaces.given,
          Deleted |-> FALSE]

\* The selectors of an entry only grow, and a flagged entry stays as it is.
SnRecorded(sn, o) ==
    IF sn.Deleted \/ o.del
    THEN [sn EXCEPT !.known = TRUE, !.Deleted = TRUE]
    ELSE [known |-> TRUE,
          Node |-> sn.Node \union o.spec.nodes.names,
          allnode |-> sn.allnode \/ ~o.spec.nodes.given,
          Namespace |-> sn.Namespace \union o.spec.spaces.names,
          allnamespace |-> sn.allnamespace \/ ~o.spec.spaces.given,
          Deleted |-> FALSE]

SubnetRecord ==
    /\ up /\ srec.pc = "wait" /\ CanLock(vpcMu, "srec")
    /\ subnats' = [subnats EXCEPT ![srec.name] = SnRecorded(@, srec.in)]
    /\ IF subnats[srec.name].Deleted
       THEN /\ srec' = [srec EXCEPT !.pc = "remove"]
            /\ vpcMu' = Lock(vpcMu, "srec")
       ELSE /\ srec' = SrecIdle
            /\ vpcMu' = Unlock(Lock(vpcMu, "srec"))
    /\ UNCHANGED <<apiSub, subQueue, cb, known, lost, starter, up>>

\* A flagged subnet: couldRemove finds no pool in its way, and the patch has
\* no finalizer of this controller to remove.  It fails (the name is queued
\* again) when the object is gone or the request is lost.
SubnetRemove(ok) ==
    /\ up /\ srec.pc = "remove"
    /\ ok => apiSub[srec.name].ex
    /\ subQueue' = IF ok THEN subQueue ELSE subQueue \union {srec.name}
    /\ srec' = SrecIdle
    /\ vpcMu' = Unlock(vpcMu)
    /\ UNCHANGED <<apiSub, subnats, cb, known, lost, starter, up>>

-------------------------------------------------------------------------------
(* The callback.                                                           *)

\* The node controller enters a node into its map.
NodeKnown(n) ==
    /\ up /\ n \notin known
    /\ known' = known \union {n}
    /\ UNCHANGED <<apiSub, subQueue, subnats, vpcMu, srec, cb, lost, starter, up>>

Call(t, x) ==
    /\ up /\ cb[t].pc = "idle"
    /\ cb' = [cb EXCEPT ![t] = [pc |-> "rlock", arg |-> x]]
    /\ UNCHANGED <<apiSub, subQueue, subnats, vpcMu, srec, known, lost, starter, up>>

NodeEvent      == \E n \in known : Call("hnd", n)
NamespaceEvent == \E ns \in Spaces : Call("nsw", ns)

CallbackRLock(t) ==
    /\ up /\ cb[t].pc = "rlock"
    /\ vpcMu' = RLock(vpcMu, t)
    /\ cb' = [cb EXCEPT ![t].pc = "walk"]
    /\ UNCHANGED <<apiSub, subQueue, subnats, srec, known, lost, starter, up>>

\* The subnets whose event the callback of t computes.
Selected(t) ==
    {s \in Subnets : /\ subnats[s].known
                     /\ IF t = "hnd"
                        THEN subnats[s].allnode \/ cb[t].arg \in subnats[s].Node
                        ELSE subnats[s].allnamespace \/ cb[t].arg \in subnats[s].Namespace}

CallbackReturn(t) ==
    /\ up /\ cb[t].pc = "walk" /\ t \in vpcMu.rd
    /\ Selected(t) = {}
    /\ vpcMu' = RUnlock(vpcMu, t)
    /\ cb' = [cb EXCEPT ![t] = CbIdle]
    /\ UNCHANGED <<apiSub, subQueue, subnats, srec, known, lost, starter, up>>

\* getSubnatEvent skips the nodes that are not listed in sn.Node, even if
\* the subnet selects every node.
EventNodes(s) == known \intersect subnats[s].Node

\* getSubnatEvent returns, and the send to the nil channel never ends.
CallbackSend(t) ==
    /\ up /\ cb[t].pc = "walk" /\ t \in vpcMu.rd
    /\ \E s \in Selected(t) : EventNodes(s) = {}
    /\ cb' = [cb EXCEPT ![t].pc = "send"]
    /\ UNCHANGED <<apiSub, subQueue, subnats, vpcMu, srec, known, lost, starter, up>>

\* getSubnatEvent visits a node: hashset.New of a slice panics.
CallbackPanic(t) ==
    /\ up /\ cb[t].pc = "walk" /\ t \in vpcMu.rd
    /\ \E s \in Selected(t) : EventNodes(s) # {}
    /\ Dies

Restart ==
    /\ ~up
    /\ up' = TRUE
    /\ starter' = TRUE
    /\ subQueue' = {s \in Subnets : apiSub[s].ex}
    /\ UNCHANGED <<apiSub, subnats, vpcMu, srec, cb, known, lost>>

-------------------------------------------------------------------------------
Users ==
    \E s \in Subnets :
        \/ \E spec \in Specs : \/ \E held \in BOOLEAN : CreateSubnet(s, spec, held)
                               \/ UpdateSubnet(s, spec)
        \/ DeleteSubnet(s)
        \/ ReleaseSubnet(s)

Reconcile ==
    \/ \E s \in Subnets : SubnetGet(s) \/ SubnetGetError(s)
    \/ SubnetLock \/ SubnetRecord
    \/ \E ok \in BOOLEAN : SubnetRemove(ok)

Callback(t) ==
    CallbackRLock(t) \/ CallbackReturn(t) \/ CallbackSend(t) \/ CallbackPanic(t)

Next ==
    \/ Users \/ StartDefault \/ StartFails \/ Reconcile
    \/ \E n \in Nodes : NodeKnown(n)
    \/ NodeEvent \/ NamespaceEvent
    \/ \E t \in Callers : Callback(t)
    \/ Restart

Spec == Init /\ [][Next]_vars

\* Goroutines run, the work queue hands every name out, a patch retried for
\* ever succeeds or its object is gone, the process is restarted.
Fairness ==
    /\ \A s \in Subnets : SF_vars(SubnetGet(s))
    /\ WF_vars(SubnetLock) /\ WF_vars(SubnetRecord)
    /\ WF_vars(\E ok \in BOOLEAN : SubnetRemove(ok))
    /\ \A t \in Callers : WF_vars(Callback(t))
    /\ WF_vars(StartDefault) /\ WF_vars(Restart)

FairSpec == Spec /\ Fairness

-------------------------------------------------------------------------------
Blocked == \E t \in Callers : cb[t].pc = "send"

\* The selectors of an entry include those of a spec.
Covers(sn, spec) ==
    /\ sn.known
    /\ sn.allnode \/ (spec.nodes.given /\ spec.nodes.names \subseteq sn.Node)
    /\ sn.allnamespace \/ (spec.spaces.given /\ spec.spaces.names \subseteq sn.Namespace)

\* The name s is queued or in the worker's hands.
InWork(s) == s \in subQueue \/ (srec.pc # "idle" /\ srec.name = s)

\* Reconcile loses no version of a spec, although it acts on the copy it
\* read before it waited for the lock: a complete Subnet that nobody is
\* about to reconcile is in the map with all it selects, unless the name was
\* flagged as deleted or its last read failed.
SettledIsCovered ==
    /\ TypeOK
    /\ \A s \in Subnets :
        up /\ s \notin lost /\ ~InWork(s) /\ Live(apiSub[s]) /\ apiSub[s].spec.vpc
            => subnats[s].Deleted \/ Covers(subnats[s], apiSub[s].spec)

\* A complete Subnet that stays is taken into the map in the end, as long as
\* no read fails, no callback is stuck and the process does not keep dying.
SubnetsRegistered ==
    \A s \in Subnets :
        []<>(\/ ~Live(apiSub[s]) \/ ~apiSub[s].spec.vpc
             \/ subnats[s].known \/ s \in lost \/ Blocked \/ ~up)
===============================================================================
