------------------------------ MODULE InfraOps ------------------------------
(***************************************************************************)
(* The infra operations (src/pkg/vpc/infraops.go) over the asynchronous    *)
(* part of the OpenStack client (src/pkg/infra/openstack.go).              *)
(*                                                                         *)
(* Workers take events of subnets from a channel.  processSubnatWork makes *)
(* requests, each of which adds one to the wait group of the work and is   *)
(* to take it back in a callback: it creates ports, waits, lists the ports *)
(* of the subnet, attaches and assigns what it finds, removes, and waits.  *)
(* The client runs a request as a task of a goroutine pool; tasks with the *)
(* same key share one call of the API (singleflight).                      *)
(*                                                                         *)
(* Which requests call back is part of the model.  Ports are created,      *)
(* detached and unassigned without a callback; the result of an attachment *)
(* is converted to a wrong type, which panics in the pool and is recovered *)
(* there; an assignment calls back if the API did not fail.  The context   *)
(* of the workers ends with the process, so they do not leave their loops. *)
(***************************************************************************)
EXTENDS Integers, Sequences, FiniteSets

CONSTANTS
    Workers,    \* goroutines of NewInfra
    Nodes,      \* virtual machines
    Mains,      \* main interfaces, which pools belong to
    Ports,      \* ports the subnet may have: records of kind, owner and id
    Present,    \* the ports it has when the controller starts
    Events,     \* the events of a subnet that callers hand over
    NoSet,      \* a nil set
    ChanCap,    \* capacity of snevch (128 in the code)
    PoolCap,    \* capacity of each goroutine pool (50 in the code)
    MaxSent     \* events handed over in a behaviour (bounds the model)

ASSUME CapAssumption == {ChanCap, PoolCap, MaxSent} \subseteq Nat \ {0}
ASSUME PortsAssumption ==
    /\ Present \subseteq Ports
    /\ \A p \in Ports : \/ p.kind = "vm" /\ p.owner \in Nodes
                        \/ p.kind = "pod" /\ p.owner \in Mains
ASSUME EventsAssumption ==
    \A ev \in Events : \A no \in ev :
        /\ no.add \in Int /\ IsFiniteSet(no.remove) /\ IsFiniteSet(no.pools)
        /\ \A po \in no.pools :
              po.add \in Int /\ (po.remove = NoSet \/ IsFiniteSet(po.remove))

VARIABLES
    up,         \* the process runs
    snevch,     \* the channel: events with their serial numbers
    sent,       \* events handed over so far
    wk,         \* what each worker does
    tasks,      \* tasks of the goroutine pools
    cloud,      \* the ports of the subnet
    assigned    \* the address pairs (ports of pods) of each main interface

process == <<up, snevch, wk, tasks>>
vars == <<process, sent, cloud, assigned>>

Phases == {"create", "attach", "assign", "remove", "unassign"}
NoWork == [pc |-> "idle", job |-> 0, nodes |-> {}, todo |-> {}, pods |-> {},
           wg |-> 0, lost |-> 0]

Pools(nodes)   == UNION {n.pools : n \in nodes}
MainsOf(nodes) == {po.main : po \in Pools(nodes)}
Busy(w)        == wk[w].pc \in Phases

Init ==
    /\ up = TRUE
    /\ snevch = <<>> /\ sent = 0
    /\ wk = [w \in Workers |-> NoWork]
    /\ tasks = {}
    /\ cloud = Present
    /\ assigned = [m \in Mains |-> {}]
-----------------------------------------------------------------------------
(* The channel and the loop of a worker. *)

\* A full channel drops the event.
HandleSubnatEvent(ev) ==
    /\ up /\ sent < MaxSent
    /\ sent' = sent + 1
    /\ snevch' = IF Len(snevch) < ChanCap
                 THEN Append(snevch, [job |-> sent + 1, nodes |-> ev]) ELSE snevch
    /\ UNCHANGED <<up, wk, tasks, cloud, assigned>>

\* The requests for new ports, one for each node and each pool that adds.
\* The number may be negative, if a node has more than one pool.
Request(kind, target, n, pairs) ==
    [kind |-> kind, target |-> target, n |-> n, pairs |-> pairs]
Creates(nodes) ==
    {Request("create", no.node, no.add, {}) : no \in {x \in nodes : x.add # 0}}
    \union {Request("create", po.main, po.add, {}) :
               po \in {x \in Pools(nodes) : x.add # 0}}

Take(w) ==
    /\ up /\ wk[w].pc = "idle" /\ snevch # <<>>
    /\ LET ev == Head(snevch) IN
       wk' = [wk EXCEPT ![w] = [NoWork EXCEPT !.pc = "create", !.job = ev.job,
                                  !.nodes = ev.nodes, !.todo = Creates(ev.nodes)]]
    /\ snevch' = Tail(snevch)
    /\ UNCHANGED <<up, sent, tasks, cloud, assigned>>
-----------------------------------------------------------------------------
(* Requests.  createPool runs the tasks that create ports, attPool all     *)
(* others; a full pool refuses a task, and the error is ignored.           *)

InPool(create) == {t \in tasks : (t.kind = "create") = create}
Free(create)   == PoolCap - Cardinality(InPool(create))

\* The task that worker w submits for the request r, in round k of a loop.
Task(w, r, k) ==
    [kind |-> r.kind, target |-> r.target, n |-> r.n, pairs |-> r.pairs,
     w |-> w, job |-> wk[w].job, i |-> k, key |-> <<>>, leads |-> FALSE]

\* The tasks that a request puts into its pool.
Submitted(w, r) ==
    {Task(w, r, k) : k \in {x \in 1 .. (IF r.kind = "create" THEN r.n ELSE 1) :
                               x <= Free(r.kind = "create")}}

\* An assignment is the only request that can be called back.
CallsBack(t) == t.kind = "assign"

\* Mutant: a request is not added to the wait group.
IssueUncounted(w, phase) ==
    /\ up /\ wk[w].pc = phase
    /\ \E r \in wk[w].todo :
        /\ tasks' = tasks \union Submitted(w, r)
        /\ wk' = [wk EXCEPT ![w].todo = @ \ {r}]
    /\ UNCHANGED <<up, snevch, sent, cloud, assigned>>

\* A request is made: wg.Add, and the call of the client.
Issue(w, phase) ==
    /\ up /\ wk[w].pc = phase
    /\ \E r \in wk[w].todo :
        LET new == Submitted(w, r) IN
        /\ tasks' = tasks \union new
        /\ wk' = [wk EXCEPT ![w].todo = @ \ {r}, ![w].wg = @ + 1,
                            ![w].lost = IF \E t \in new : CallsBack(t) THEN @ ELSE @ + 1]
    /\ UNCHANGED <<up, snevch, sent, cloud, assigned>>

\* All requests of a phase are made: on to the next one.
Advance(w, phase, to, todo) ==
    /\ up /\ wk[w].pc = phase /\ wk[w].todo = {}
    /\ wk' = [wk EXCEPT ![w].pc = to, ![w].todo = todo]
    /\ UNCHANGED <<up, snevch, sent, tasks, cloud, assigned>>
-----------------------------------------------------------------------------
(* processSubnatWork, phase by phase. *)

\* EachInterface hands over the first port of each page, so any of them may
\* be left out.  Those of the event's nodes are to be attached; the ports of
\* pods on the event's main interfaces are kept for their assignment.
EachInterface(w) ==
    /\ \E seen \in SUBSET cloud :
        wk' = [wk EXCEPT ![w].pc = "attach",
                   ![w].todo = {Request("attach", p.id, 1, {}) :
                       p \in {x \in seen : /\ x.kind = "vm"
                                           /\ \E no \in wk[w].nodes : no.node = x.owner}},
                   ![w].pods = {p \in seen : p.kind = "pod"
                                             /\ p.owner \in MainsOf(wk[w].nodes)}]
    /\ UNCHANGED <<up, snevch, sent, tasks, cloud, assigned>>

\* Mutant: the wait for the creation of ports is left out.
WaitSkipped(w) ==
    /\ up /\ wk[w].pc = "create" /\ wk[w].todo = {}
    /\ EachInterface(w)

\* wg.Wait after the creation of ports, and the list.
WaitCreated(w) ==
    /\ up /\ wk[w].pc = "create" /\ wk[w].todo = {} /\ wk[w].wg = 0
    /\ EachInterface(w)

\* The list fails, at the first page or at a later one: the work ends without
\* a wait for the attachments it asked for.
EachInterfaceError(w) ==
    /\ up /\ wk[w].pc = "attach"
    /\ wk' = [wk EXCEPT ![w] = NoWork]
    /\ UNCHANGED <<up, snevch, sent, tasks, cloud, assigned>>

AttachesIssued(w) ==
    Advance(w, "attach", "assign",
            {Request("assign", m, 1, {p \in wk[w].pods : p.owner = m}) :
                m \in {p.owner : p \in wk[w].pods}})

AssignsIssued(w) == Advance(w, "assign", "remove", wk[w].nodes)

\* The loop over the nodes to remove what they say, in any order: the pool
\* takes as many detachments as it has room for.  A pool of the event with a
\* nil set panics, and with it the process.
RemoveNode(w) ==
    /\ up /\ wk[w].pc = "remove"
    /\ \E no \in wk[w].todo :
        \/ /\ \E po \in no.pools : po.remove = NoSet
           /\ up' = FALSE
           /\ UNCHANGED <<wk, tasks>>
        \/ /\ \A po \in no.pools : po.remove # NoSet
           /\ \E ids \in SUBSET no.remove :
                /\ Cardinality(ids) <= Free(FALSE)
                /\ ids = no.remove \/ Cardinality(ids) = Free(FALSE)
                /\ tasks' = tasks \union
                      {Task(w, Request("detach", <<no.node, id>>, 1, {}), 1) : id \in ids}
           /\ LET unassign == UNION {{po} \X po.remove : po \in no.pools}
                  added == Cardinality(no.remove) + Cardinality(unassign)
              IN  wk' = [wk EXCEPT ![w].todo = @ \ {no}, ![w].wg = @ + added,
                                   ![w].lost = @ + added]
           /\ UNCHANGED up
    /\ UNCHANGED <<snevch, sent, cloud, assigned>>

\* The pairs to unassign were collected under the id of the node.
RemovesIssued(w) ==
    Advance(w, "remove", "unassign",
            {Request("unassign", no.node, 1, UNION {po.remove : po \in no.pools}) :
                no \in {x \in wk[w].nodes : \E po \in x.pools : po.remove # {}}})

\* The last wg.Wait, and the return.
WaitEnd(w) ==
    /\ up /\ wk[w].pc = "unassign" /\ wk[w].todo = {} /\ wk[w].wg = 0
    /\ wk' = [wk EXCEPT ![w] = NoWork]
    /\ UNCHANGED <<up, snevch, sent, tasks, cloud, assigned>>

Work(w) ==
    \/ \E phase \in {"create", "attach", "assign", "unassign"} : Issue(w, phase)
    \/ WaitCreated(w)
    \/ AttachesIssued(w) \/ AssignsIssued(w)
    \/ RemoveNode(w) \/ RemovesIssued(w)
    \/ WaitEnd(w)
-----------------------------------------------------------------------------
(* Tasks and the API. *)

\* The key under which a task shares its call.  That of a creation has the
\* variable of the loop that submitted it, which has moved on by a number of
\* rounds that nobody knows.  The code writes name and number as one string
\* ("%s%d"); two of them are the same only if name and number are, since the
\* names end in ids of one length, or, for nodes, the number is 0 or 1.
Keys(t) ==
    {<<t.kind, t.target, i>> : i \in IF t.kind = "create" THEN t.i - 1 .. t.n ELSE {0}}

\* A task begins: it makes the call, or shares the one that is under way.
Begin(t) ==
    /\ up /\ t.key = <<>>
    /\ \E key \in Keys(t) :
        tasks' = (tasks \ {t}) \union
                 {[t EXCEPT !.key = key, !.leads = \A u \in tasks : u.key # key]}
    /\ UNCHANGED <<up, snevch, sent, wk, cloud, assigned>>

Sharing(t) == {u \in tasks : u.key = t.key}

\* Mutant: an assignment that succeeded does not call back.
LandQuiet(t, ok) ==
    /\ up /\ t.leads
    /\ tasks' = tasks \ Sharing(t)
    /\ UNCHANGED <<up, snevch, sent, wk, cloud, assigned>>

\* Mutant: who shares a call is not told that it returned.
LandAlone(t, ok) ==
    /\ up /\ t.leads
    /\ tasks' = tasks \ {t}
    /\ UNCHANGED <<up, snevch, sent, wk, cloud, assigned>>

\* The call returns, and everybody who shares it goes on with its result.
\* The pairs that are assigned are those of the task that made the call; an
\* assignment that failed panics before its callback.
Land(t, ok) ==
    LET back(w) == Cardinality({u \in Sharing(t) : CallsBack(u) /\ u.w = w})
    IN  /\ up /\ t.leads
        /\ tasks' = tasks \ Sharing(t)
        /\ wk' = [w \in Workers |->
                     IF ok THEN [wk[w] EXCEPT !.wg = @ - back(w)]
                     ELSE [wk[w] EXCEPT !.lost = @ + back(w)]]
        /\ assigned' = IF ok /\ t.kind = "assign"
                       THEN [assigned EXCEPT ![t.target] = @ \union t.pairs]
                       ELSE assigned
        /\ \/ ok /\ t.kind = "create" /\ \E p \in Ports \ cloud :
                   p.owner = t.target /\ cloud' = cloud \union {p}
           \/ (ok => t.kind # "create") /\ UNCHANGED cloud
        /\ UNCHANGED <<up, snevch, sent>>

\* The process dies, or has died, and starts again.
Restart ==
    /\ ~up
    /\ up' = TRUE /\ snevch' = <<>> /\ tasks' = {}
    /\ wk' = [w \in Workers |-> NoWork]
    /\ UNCHANGED <<sent, cloud, assigned>>

Tasks == \E t \in tasks : Begin(t) \/ \E ok \in BOOLEAN : Land(t, ok)

Next ==
    \/ \E ev \in Events : HandleSubnatEvent(ev)
    \/ \E w \in Workers : Take(w) \/ Work(w) \/ EachInterfaceError(w)
    \/ Tasks
    \/ Restart

\* Goroutines that can run do, and every call of the API returns, at the
\* latest at the timeout of the client.
Fairness ==
    /\ \A w \in Workers : WF_vars(Work(w))
    /\ WF_vars(Tasks)

Spec     == Init /\ [][Next]_vars
FairSpec == Spec /\ Fairness
-----------------------------------------------------------------------------
TaskOf(w) == {t \in tasks : t.w = w /\ t.job = wk[w].job}

TypeOK ==
    /\ up \in BOOLEAN
    /\ Len(snevch) <= ChanCap /\ sent \in 0 .. MaxSent
    /\ \A w \in Workers : /\ wk[w].pc \in Phases \union {"idle"}
                          /\ wk[w].wg \in Nat /\ wk[w].lost \in Nat
    /\ \A c \in BOOLEAN : Cardinality(InPool(c)) <= PoolCap
    /\ cloud \subseteq Ports
    /\ assigned \in [Mains -> SUBSET Ports]

\* The wait group of a work counts the callbacks that will still come and
\* those that never will; it does not go below zero, and returns to zero
\* exactly if no callback was lost (infraops.go:94-201).
CountsCallbacks ==
    /\ TypeOK
    /\ \A w \in Workers :
        wk[w].wg = wk[w].lost + Cardinality({t \in TaskOf(w) : CallsBack(t)})

\* Only a work that asked for no port goes on to list, attach, assign and
\* remove.  Nobody calls back for a creation (openstack.go:218-223), so the
\* wait of a work that asked for one (infraops.go:121) never ends: what it
\* creates is attached or assigned by another event, if at all.
CreatorsNeverList ==
    \A w \in Workers :
        wk[w].pc \in Phases \ {"create"} => Creates(wk[w].nodes) = {}

\* A work comes to its end, unless a callback that it waits for was lost.
WorkEnds ==
    \A w \in Workers : Busy(w) ~> (~Busy(w) \/ wk[w].lost > 0 \/ ~up)

\* The pools do not fill up with tasks whose callbacks panicked: each task
\* that a work submits comes to its end, whether or not it shares a call.
TasksEnd == []<>(tasks = {} \/ ~up)
=============================================================================
