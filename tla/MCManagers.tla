------------------------------ MODULE MCManagers ------------------------------
(* An instance of Managers for TLC: a spec that selects every node and one *)
(* namespace, and one that lists a node and no namespace.                  *)
EXTENDS Managers

CONSTANTS n1, ns1

Names(S) == [given |-> TRUE, names |-> S]

MCSpecs == {[vpc |-> TRUE, nodes |-> Every, spaces |-> Names({ns1})],
            [vpc |-> TRUE, nodes |-> Names({n1}), spaces |-> Names({})]}
===============================================================================
