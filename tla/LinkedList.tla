----------------------------- MODULE LinkedList -----------------------------
(***************************************************************************)
(* util.List of src/pkg/util/queue.go, the singly linked list behind       *)
(* MultiQueue, with its elements as cells of a heap.  Cells that cannot be *)
(* reached from the list are garbage and may be allocated again.  The list *)
(* is "not thread safe": calls do not overlap, and each is carried out in  *)
(* one step after the client made it.                                      *)
(*                                                                         *)
(* New is Add on the empty list of ListInit; Append is Add.  Empty, Size   *)
(* and String only read.                                                   *)
(***************************************************************************)
EXTENDS ListCalls

VARIABLES
    first,      \* the first cell, or Nil
    last,       \* the last cell, or Nil
    size,       \* the number of values
    val,        \* the value of each cell
    next,       \* the cell after each cell, or Nil
    call,       \* the call the client has made, or NoCall
    ret         \* what the last call returned

list == <<first, last, size, val, next>>
listVars == <<list, call, ret>>

Cells == 1 .. MaxSize
Nil   == 0
Zero  == "zero"         \* the zero value of T

ListTypeOK ==
    /\ first \in Cells \union {Nil}
    /\ last \in Cells \union {Nil}
    /\ size \in 0 .. MaxSize
    /\ val \in [Cells -> Vals \union {Zero}]
    /\ next \in [Cells -> Cells \union {Nil}]
    /\ call \in Calls \union {NoCall}
    /\ ret \in {None, Panic} \union UNION {[1 .. n -> Vals] : n \in 1 .. MaxSize}

ListInit ==
    /\ first = Nil /\ last = Nil /\ size = 0
    /\ val = [c \in Cells |-> Zero]
    /\ next = [c \in Cells |-> Nil]
    /\ call = NoCall /\ ret = None
-----------------------------------------------------------------------------
\* The cell n links after the first; the loops that look for an index.
Walk ==
    LET w[n \in 0 .. MaxSize] ==
            IF n = 0 THEN first
            ELSE IF w[n - 1] = Nil THEN Nil ELSE next[w[n - 1]]
    IN  w

WithinRange(i) == i >= 0 /\ i < size

\* Cells to allocate: n different ones that the list does not reach.
Free     == Cells \ {Walk[k] : k \in 0 .. MaxSize}
Fresh(n) == CHOOSE cs \in [1 .. n -> Free] :
                \A j, k \in 1 .. n : cs[j] = cs[k] => j = k

\* New cells cs with the values vs, linked to each other and then to tail.
Filled(cs, vs) ==
    [c \in Cells |-> IF \E k \in DOMAIN cs : cs[k] = c
                     THEN vs[CHOOSE k \in DOMAIN cs : cs[k] = c] ELSE val[c]]
Linked(cs, tail) ==
    [c \in Cells |-> IF \E k \in DOMAIN cs : cs[k] = c
                     THEN Append(Tail(cs), tail)[CHOOSE k \in DOMAIN cs : cs[k] = c]
                     ELSE next[c]]
-----------------------------------------------------------------------------
Invoke(c) ==
    /\ call = NoCall /\ Fits(c, size)
    /\ call' = c /\ ret' = None
    /\ UNCHANGED list

Return(r) == ret' = r /\ call' = NoCall

AddValues(vs) ==
    IF vs = <<>> THEN UNCHANGED list
    ELSE LET cs == Fresh(Len(vs)) IN
         /\ val' = Filled(cs, vs)
         /\ next' = IF size = 0 THEN Linked(cs, Nil)
                    ELSE [Linked(cs, Nil) EXCEPT ![last] = cs[1]]
         /\ first' = IF size = 0 THEN cs[1] ELSE first
         /\ last' = cs[Len(cs)]
         /\ size' = size + Len(vs)

Add == call.op = "Add" /\ AddValues(call.vs) /\ Return(None)

\* Mutant: the loop of Prepend runs forwards and turns the values round.
PrependTurned(vs) ==
    LET cs == Fresh(Len(vs)) IN
    /\ val' = Filled(cs, [k \in DOMAIN vs |-> vs[Len(vs) + 1 - k]])
    /\ next' = Linked(cs, first)
    /\ first' = cs[1]
    /\ last' = IF size = 0 THEN cs[Len(cs)] ELSE last
    /\ size' = size + Len(vs)

\* The loop of Prepend runs backwards, so the values keep their order.
PrependValues(vs) ==
    LET cs == Fresh(Len(vs)) IN
    /\ val' = Filled(cs, vs)
    /\ next' = Linked(cs, first)
    /\ first' = cs[1]
    /\ last' = IF size = 0 THEN cs[Len(cs)] ELSE last
    /\ size' = size + Len(vs)

Prepend ==
    /\ call.op = "Prepend"
    /\ IF call.vs = <<>> THEN UNCHANGED list ELSE PrependValues(call.vs)
    /\ Return(None)

Get ==
    /\ call.op = "Get"
    /\ Return(IF WithinRange(call.i) THEN <<val[Walk[call.i]]>> ELSE None)
    /\ UNCHANGED list

ClearList ==
    /\ size' = 0 /\ first' = Nil /\ last' = Nil
    /\ UNCHANGED <<val, next>>

Clear == call.op = "Clear" /\ ClearList /\ Return(None)

\* Mutant: the cell before a removed last one does not become the last.
RemoveKeepsLast(i) ==
    LET c      == Walk[i]
        before == IF i = 0 THEN Nil ELSE Walk[i - 1]
    IN  IF ~WithinRange(i) THEN UNCHANGED list
        ELSE IF size = 1 THEN ClearList
        ELSE /\ first' = IF c = first THEN next[c] ELSE first
             /\ next' = IF before = Nil THEN next ELSE [next EXCEPT ![before] = next[c]]
             /\ size' = size - 1
             /\ UNCHANGED <<last, val>>

RemoveAt(i) ==
    LET c      == Walk[i]
        before == IF i = 0 THEN Nil ELSE Walk[i - 1]
    IN  IF ~WithinRange(i) THEN UNCHANGED list
        ELSE IF size = 1 THEN ClearList
        ELSE /\ first' = IF c = first THEN next[c] ELSE first
             /\ last' = IF c = last THEN before ELSE last
             /\ next' = IF before = Nil THEN next ELSE [next EXCEPT ![before] = next[c]]
             /\ size' = size - 1
             /\ UNCHANGED val

Remove == call.op = "Remove" /\ RemoveAt(call.i) /\ Return(None)

Pop ==
    /\ call.op = "Pop"
    /\ IF size = 0 THEN UNCHANGED list /\ Return(None)
       ELSE RemoveAt(0) /\ Return(<<val[first]>>)

\* Values copies the list into an array of size values.
Contents ==
    [k \in 1 .. size |-> IF Walk[k - 1] = Nil THEN Zero ELSE val[Walk[k - 1]]]

Values ==
    /\ call.op = "Values"
    /\ Return(IF Walk[size] # Nil THEN Panic ELSE Contents)
    /\ UNCHANGED list

Swap ==
    LET i == call.i
        j == call.j
    IN  /\ call.op = "Swap"
        /\ val' = IF WithinRange(i) /\ WithinRange(j) /\ i # j
                  THEN [val EXCEPT ![Walk[i]] = val[Walk[j]], ![Walk[j]] = val[Walk[i]]]
                  ELSE val
        /\ Return(None)
        /\ UNCHANGED <<first, last, size, next>>

\* Insert at an index in range.  Without values, there is no cell to link to
\* the old first one, and the code dereferences nil.
InsertWithin(i, vs) ==
    LET cs     == Fresh(Len(vs))
        before == IF i = 0 THEN Nil ELSE Walk[i - 1]
    IN  /\ val' = Filled(cs, vs)
        /\ size' = size + Len(vs)
        /\ IF vs = <<>> THEN UNCHANGED <<first, next>>
           ELSE IF Walk[i] = first
           THEN first' = cs[1] /\ next' = Linked(cs, first)
           ELSE /\ next' = [Linked(cs, next[before]) EXCEPT ![before] = cs[1]]
                /\ UNCHANGED first
        /\ Return(IF vs = <<>> /\ Walk[i] = first THEN Panic ELSE None)
        /\ UNCHANGED last

Insert ==
    /\ call.op = "Insert"
    /\ \/ WithinRange(call.i) /\ InsertWithin(call.i, call.vs)
       \/ call.i = size /\ AddValues(call.vs) /\ Return(None)
       \/ ~WithinRange(call.i) /\ call.i # size /\ UNCHANGED list /\ Return(None)

Set ==
    /\ call.op = "Set"
    /\ \/ /\ WithinRange(call.i)
          /\ val' = [val EXCEPT ![Walk[call.i]] = call.vs[1]]
          /\ UNCHANGED <<first, last, size, next>>
       \/ call.i = size /\ AddValues(call.vs)
       \/ ~WithinRange(call.i) /\ call.i # size /\ UNCHANGED list
    /\ Return(None)

ListNext ==
    \/ \E c \in Calls : Invoke(c)
    \/ Add \/ Prepend \/ Insert \/ Set \/ Remove \/ Swap
    \/ Pop \/ Get \/ Values \/ Clear

ListSpec == ListInit /\ [][ListNext]_listVars
-----------------------------------------------------------------------------
\* The chain from first has exactly size cells, all different, and last is
\* its end: what Add relies on when it links a new value behind last, and
\* Values when it fills an array of size values.  Every call of queue.go
\* that moves first, last, size or a link has to keep it.
WellFormed ==
    /\ ListTypeOK
    /\ Walk[size] = Nil
    /\ \A k \in 0 .. size - 1 : Walk[k] # Nil
    /\ \A j, k \in 0 .. size - 1 : Walk[j] = Walk[k] => j = k
    /\ last = IF size = 0 THEN Nil ELSE Walk[size - 1]

Abstract == INSTANCE AbstractList WITH items <- Contents

\* Every call does to the chain of cells, and returns, what the comments of
\* queue.go say it does to the list of values.
ImplementsAbstractList == Abstract!Spec
=============================================================================
