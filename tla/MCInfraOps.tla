----------------------------- MODULE MCInfraOps -----------------------------
(* An instance of InfraOps: one node, two main interfaces. *)
EXTENDS InfraOps

CONSTANTS n1, m1, m2

Port(kind, owner, id) == [kind |-> kind, owner |-> owner, id |-> id]

MCPresent == {Port("vm", n1, 1), Port("pod", m1, 2), Port("pod", m2, 3)}
MCPorts   == MCPresent \union {Port("pod", m1, 4)}

NodeEvent(add, remove, pools) ==
    [node |-> n1, add |-> add, remove |-> remove, pools |-> pools]
PoolEvent(main, add, remove) == [main |-> main, add |-> add, remove |-> remove]

\* One node each: without a pool; and with one pool, as it is, that grows by
\* two, with something to remove for node and pool, and with a nil set.
MCEvents ==
    {{NodeEvent(1, {}, {})},
     {NodeEvent(0, {}, {PoolEvent(m2, 0, {})})},
     {NodeEvent(0, {}, {PoolEvent(m1, 2, {})})},
     {NodeEvent(0, {1}, {PoolEvent(m1, 0, {Port("pod", m1, 2)})})},
     {NodeEvent(0, {}, {PoolEvent(m1, 0, NoSet)})}}
=============================================================================
