---------------------------- MODULE MCVpcManager ----------------------------
(* An instance of VpcManager for TLC: two specs that differ in what they   *)
(* select, and one that leaves the Vpc out; and a history variable.        *)
EXTENDS VpcManager

CONSTANTS n1, ns1

Only(x) == [given |-> TRUE, names |-> {x}]

MCSpecs == {[vpc |-> TRUE, nodes |-> Only(n1), spaces |-> Every],
            [vpc |-> TRUE, nodes |-> Every, spaces |-> Only(ns1)],
            [vpc |-> FALSE, nodes |-> Every, spaces |-> Every]}

\* The specs that each object has had while this process runs.
VARIABLE asked

Current(s) == IF apiSub[s].ex THEN {apiSub[s].spec} ELSE {}

HistoryInit == Init /\ asked = [s \in Subnets |-> {}]

HistoryNext ==
    /\ Next
    /\ asked' = [s \in Subnets |-> IF ~up' THEN {}
                                   ELSE asked[s] \union Current(s)']

HistorySpec ==
    /\ HistoryInit
    /\ [][HistoryNext]_<<vars, asked>>
    /\ Fairness

\* What an entry selects, it selects because some complete version of the
\* object did while this process ran, although selectors only grow and the
\* name may since have been deleted and created anew.
SelectsOnlyAsked ==
    \A s \in Subnets :
        LET sn == subnats[s]
            versions == {v \in asked[s] : v.vpc}
        IN /\ sn.Node \subseteq UNION {v.nodes.names : v \in versions}
           /\ sn.Namespace \subseteq UNION {v.spaces.names : v \in versions}
           /\ sn.allnode => \E v \in versions : ~v.nodes.given
           /\ sn.allnamespace => \E v \in versions : ~v.spaces.given
==============================================================================
