-------------------------- MODULE StoppableWaitGroup --------------------------
(***************************************************************************)
(* lock.StoppableWaitGroup of pkg/lock.  Every process calls Add, works    *)
(* and calls Done; the stopper calls Stop, which is an Add and a Done      *)
(* around the close of noopAdd.  Each select and each atomic operation is  *)
(* a step, so the processes interleave as the goroutines do.               *)
(***************************************************************************)
EXTENDS Integers, FiniteSets

CONSTANTS
    Procs,      \* goroutines that call Add and then Done, once each
    Stopper     \* the goroutine that calls Stop

ASSUME StopperAssumption == Stopper \notin Procs
ASSUME ProcsAssumption   == IsFiniteSet(Procs)

VARIABLES
    noopAdd,    \* the channel noopAdd is closed
    noopDone,   \* the channel noopDone is closed
    i,          \* the counter
    pc,         \* where each process is
    a,          \* each process's local copy of the counter, from Done
    addsFirst,  \* how the group is used: no Done and no Stop is called before
                \* every Add has returned
    counted     \* the processes whose Add took effect and that are not done

vars == <<noopAdd, noopDone, i, pc, a, addsFirst, counted>>

All == Procs \union {Stopper}

Steps == {"add", "inc", "work", "stop", "done", "check", "decStopped",
          "decRunning", "recheck", "close", "end"}

TypeOK ==
    /\ noopAdd \in BOOLEAN
    /\ noopDone \in BOOLEAN
    /\ i \in -Cardinality(Procs) .. Cardinality(All)
    /\ pc \in [All -> Steps]
    /\ a \in [All -> -Cardinality(Procs) .. Cardinality(All)]
    /\ addsFirst \in BOOLEAN
    /\ counted \in SUBSET All

Init ==
    /\ noopAdd = FALSE /\ noopDone = FALSE
    /\ i = 0
    /\ pc = [p \in All |-> "add"]
    /\ a = [p \in All |-> 0]
    /\ addsFirst \in BOOLEAN
    /\ counted = {}

Goto(p, step) == pc' = [pc EXCEPT ![p] = step]

\* Processes whose Add has returned.
Added == {p \in Procs : pc[p] \notin {"add", "inc"}}

\* Add: the select.  Once the group is stopped Add does nothing.
AddSelect(p) ==
    /\ pc[p] = "add"
    /\ p = Stopper /\ addsFirst => Added = Procs
    /\ Goto(p, IF ~noopAdd THEN "inc" ELSE IF p = Stopper THEN "stop" ELSE "work")
    /\ UNCHANGED <<noopAdd, noopDone, i, a, counted, addsFirst>>

\* Add: atomic.AddInt64(l.i, 1).
AddIncrement(p) ==
    /\ pc[p] = "inc"
    /\ i' = i + 1
    /\ counted' = counted \union {p}
    /\ Goto(p, IF p = Stopper THEN "stop" ELSE "work")
    /\ UNCHANGED <<noopAdd, noopDone, a, addsFirst>>

\* The process is through with its work and calls Done.
Work(p) ==
    /\ pc[p] = "work"
    /\ addsFirst => Added = Procs
    /\ Goto(p, "done")
    /\ UNCHANGED <<noopAdd, noopDone, i, a, counted, addsFirst>>

\* Stop: close(l.noopAdd), between its Add and its Done.
StopClose ==
    /\ pc[Stopper] = "stop"
    /\ noopAdd' = TRUE
    /\ Goto(Stopper, "done")
    /\ UNCHANGED <<noopDone, i, a, counted, addsFirst>>

\* Done: the outer select.
DoneSelect(p) ==
    /\ pc[p] = "done"
    /\ Goto(p, IF noopDone THEN "end" ELSE "check")
    /\ counted' = IF noopDone THEN counted \ {p} ELSE counted
    /\ UNCHANGED <<noopAdd, noopDone, i, a, addsFirst>>

\* Done: the inner select.
DoneCheck(p) ==
    /\ pc[p] = "check"
    /\ Goto(p, IF noopAdd THEN "decStopped" ELSE "decRunning")
    /\ UNCHANGED <<noopAdd, noopDone, i, a, counted, addsFirst>>

\* Mutant: a Done of a stopped group does not count down.
DecrementRunningOnly(p) ==
    /\ pc[p] \in {"decStopped", "decRunning"}
    /\ i' = IF pc[p] = "decRunning" THEN i - 1 ELSE i
    /\ a' = [a EXCEPT ![p] = i - 1]
    /\ counted' = counted \ {p}
    /\ Goto(p, IF pc[p] = "decStopped" THEN "close" ELSE "recheck")
    /\ UNCHANGED <<noopAdd, noopDone, addsFirst>>

\* Done: a := atomic.AddInt64(l.i, -1), in either branch.
DoneDecrement(p) ==
    /\ pc[p] \in {"decStopped", "decRunning"}
    /\ i' = i - 1
    /\ a' = [a EXCEPT ![p] = i - 1]
    /\ counted' = counted \ {p}
    /\ Goto(p, IF pc[p] = "decStopped" THEN "close" ELSE "recheck")
    /\ UNCHANGED <<noopAdd, noopDone, addsFirst>>

\* Mutant: the group is taken for stopped.
RecheckSkipped(p) ==
    /\ pc[p] = "recheck"
    /\ Goto(p, "close")
    /\ UNCHANGED <<noopAdd, noopDone, i, a, counted, addsFirst>>

\* Mutant: a Stop that comes between the two selects is not noticed.
RecheckMissing(p) ==
    /\ pc[p] = "recheck"
    /\ Goto(p, "end")
    /\ UNCHANGED <<noopAdd, noopDone, i, a, counted, addsFirst>>

\* Done: the select that looks whether the group was stopped meanwhile.
DoneRecheck(p) ==
    /\ pc[p] = "recheck"
    /\ Goto(p, IF noopAdd THEN "close" ELSE "end")
    /\ UNCHANGED <<noopAdd, noopDone, i, a, counted, addsFirst>>

\* Mutant: the gate opens one Done too early.
CloseEarly(p) ==
    /\ pc[p] = "close"
    /\ noopDone' = (noopDone \/ a[p] <= 1)
    /\ Goto(p, "end")
    /\ UNCHANGED <<noopAdd, i, a, counted, addsFirst>>

\* Done: close noopDone, once, if the local copy is not positive.
DoneClose(p) ==
    /\ pc[p] = "close"
    /\ noopDone' = (noopDone \/ a[p] <= 0)
    /\ Goto(p, "end")
    /\ UNCHANGED <<noopAdd, i, a, counted, addsFirst>>

Step(p) ==
    \/ AddSelect(p) \/ AddIncrement(p) \/ Work(p)
    \/ DoneSelect(p) \/ DoneCheck(p) \/ DoneDecrement(p)
    \/ DoneRecheck(p) \/ DoneClose(p)

Finished == (\A p \in All : pc[p] = "end") /\ UNCHANGED vars

Next == (\E p \in All : Step(p)) \/ StopClose \/ Finished

Spec == Init /\ [][Next]_vars

\* Every goroutine that can run does.
FairSpec == Spec /\ (\A p \in All : WF_vars(Step(p))) /\ WF_vars(StopClose)

-------------------------------------------------------------------------------
\* Wait returns only after Stop has closed the group: no Done, however its
\* steps fall among those of Add and Stop, opens the gate of a running group.
ReturnsOnlyStopped == noopDone => noopAdd

\* Wait returns in the end: among the Dones that race with each other and
\* with Stop, one finds both the group stopped and its copy not positive.
WaitReturns == <>noopDone

\* Wait returns only when every goroutine whose Add took effect has called
\* Done (stoppable_waitgroup.go:48), if all Adds come first.  It does not hold
\* otherwise, even if the Adds precede Stop: Done decides on a copy of the
\* counter that a later Add has overtaken.
WaitsForAll == addsFirst /\ noopDone => counted \intersect Procs = {}

\* If all Adds come first, the counter is the number of goroutines that are
\* still to be waited for, until Wait returns.
CounterExact ==
    /\ TypeOK
    /\ addsFirst /\ ~noopDone => i = Cardinality(counted)
===============================================================================
