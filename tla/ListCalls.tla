------------------------------ MODULE ListCalls ------------------------------
(***************************************************************************)
(* The calls that a client can make on a List of src/pkg/util/queue.go,    *)
(* and what they return: shared by AbstractList and LinkedList.  Indices   *)
(* are those of the code: the first value has index 0.                     *)
(***************************************************************************)
EXTENDS Integers, Sequences

CONSTANTS
    Vals,       \* the values a list holds
    MaxSize,    \* no list grows beyond this size (bounds the model)
    MaxArgs     \* no call passes more values than this (bounds the model)

ASSUME SizeAssumption == MaxSize \in Nat \ {0} /\ MaxArgs \in 1 .. MaxSize

\* Results are sequences, of one value for Get and Pop.
None  == <<>>           \* no result, or nothing found
Panic == <<"panic">>    \* the call panicked

Args    == UNION {[1 .. n -> Vals] : n \in 0 .. MaxArgs}
Indices == -1 .. MaxSize + 1

Call(op, i, j, vs) == [op |-> op, i |-> i, j |-> j, vs |-> vs]
NoCall == Call("none", 0, 0, <<>>)

Calls ==
    {Call(op, 0, 0, vs) : op \in {"Add", "Prepend"}, vs \in Args}
    \union {Call("Insert", i, 0, vs) : i \in Indices, vs \in Args}
    \union {Call("Set", i, 0, <<v>>) : i \in Indices, v \in Vals}
    \union {Call(op, i, 0, <<>>) : op \in {"Remove", "Get"}, i \in Indices}
    \union {Call("Swap", i, j, <<>>) : i \in Indices, j \in Indices}
    \union {Call(op, 0, 0, <<>>) : op \in {"Pop", "Values", "Clear"}}

\* A call that keeps a list of n values within MaxSize.
Fits(c, n) == n + Len(c.vs) <= MaxSize \/ (c.op = "Set" /\ c.i # n)
==============================================================================
