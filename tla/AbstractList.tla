---------------------------- MODULE AbstractList ----------------------------
(***************************************************************************)
(* What the comments of src/pkg/util/queue.go promise of a List: it is a   *)
(* finite sequence of values.  LinkedList is shown to implement it.        *)
(***************************************************************************)
EXTENDS ListCalls

VARIABLES
    items,      \* the values of the list, in order
    call,       \* the call the client has made, or NoCall
    ret         \* what the last call returned

vars == <<items, call, ret>>

Init == items = <<>> /\ call = NoCall /\ ret = None

InRange(i) == i \in 0 .. Len(items) - 1
From(n)    == SubSeq(items, n + 1, Len(items))
Upto(n)    == SubSeq(items, 1, n)

Invoke(c) ==
    /\ call = NoCall /\ Fits(c, Len(items))
    /\ call' = c /\ ret' = None
    /\ UNCHANGED items

\* The pending call is of op; it leaves the values new and returns r.
Does(op, new, r) ==
    /\ call.op = op
    /\ items' = new /\ ret' = r
    /\ call' = NoCall

Add     == Does("Add", items \o call.vs, None)
Prepend == Does("Prepend", call.vs \o items, None)

\* Out of range nothing happens; at the size, Insert and Set append.  An
\* Insert of no value at all changes nothing.  Before the first value it
\* panics (queue.go:200), which the comments do not say.
Insert ==
    LET new == IF call.i \in 0 .. Len(items)
               THEN Upto(call.i) \o call.vs \o From(call.i) ELSE items
        nothing == call.vs = <<>> /\ call.i = 0 /\ Len(items) # 0
    IN  Does("Insert", new, IF nothing THEN Panic ELSE None)

Set ==
    Does("Set", IF call.i \in 0 .. Len(items)
                THEN Upto(call.i) \o call.vs \o From(call.i + 1) ELSE items, None)

Remove ==
    Does("Remove", IF InRange(call.i) THEN Upto(call.i) \o From(call.i + 1) ELSE items, None)

Swap ==
    Does("Swap", IF InRange(call.i) /\ InRange(call.j)
                 THEN [items EXCEPT ![call.i + 1] = items[call.j + 1],
                                    ![call.j + 1] = items[call.i + 1]]
                 ELSE items, None)

Pop == Does("Pop", From(1), Upto(IF items = <<>> THEN 0 ELSE 1))

Get ==
    Does("Get", items, IF InRange(call.i) THEN <<items[call.i + 1]>> ELSE None)

Values == Does("Values", items, items)
Clear  == Does("Clear", <<>>, None)

Next ==
    \/ \E c \in Calls : Invoke(c)
    \/ Add \/ Prepend \/ Insert \/ Set \/ Remove \/ Swap
    \/ Pop \/ Get \/ Values \/ Clear

Spec == Init /\ [][Next]_vars
=============================================================================
