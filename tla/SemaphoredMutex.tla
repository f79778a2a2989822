--------------------------- MODULE SemaphoredMutex ---------------------------
(***************************************************************************)
(* lock.SemaphoredMutex of pkg/lock: a reader-writer lock with downgrade,  *)
(* made of a weighted semaphore (golang.org/x/sync).  A reader takes one   *)
(* token, a writer takes all of them.  The semaphore's own mutex makes     *)
(* each of its critical sections one step, but for the loop of             *)
(* notifyWaiters, whose iterations are steps with that mutex held          *)
(* (notifying).                                                            *)
(***************************************************************************)
EXTENDS Integers, Sequences, FiniteSets

CONSTANTS
    Threads,
    maxReaders   \* 1 << 30 in the code

ASSUME ThreadsAssumption    == IsFiniteSet(Threads)
ASSUME MaxReadersAssumption == maxReaders \in Nat \ {0}

VARIABLES
    cur,        \* the tokens that are taken
    waiters,    \* the threads that wait for tokens, first come first
    st,         \* what each thread has or waits for
    notifying   \* a Release is in notifyWaiters

vars == <<cur, waiters, st, notifying>>

TypeOK ==
    /\ cur \in 0 .. maxReaders
    /\ waiters \in Seq(Threads)
    /\ st \in [Threads -> {"out", "waitW", "waitR", "writer", "reader"}]
    /\ notifying \in BOOLEAN

Init ==
    /\ cur = 0
    /\ waiters = <<>>
    /\ st = [t \in Threads |-> "out"]
    /\ notifying = FALSE

-------------------------------------------------------------------------------
(* Acquire, with a context that is never done.                             *)

\* Mutant: a newcomer passes those who wait.
AcquireBarging(t, n, wait, held) ==
    /\ st[t] = "out" /\ ~notifying
    /\ IF maxReaders - cur >= n
       THEN /\ cur' = cur + n
            /\ st' = [st EXCEPT ![t] = held]
            /\ UNCHANGED waiters
       ELSE /\ waiters' = Append(waiters, t)
            /\ st' = [st EXCEPT ![t] = wait]
            /\ UNCHANGED cur
    /\ UNCHANGED notifying

Acquire(t, n, wait, held) ==
    /\ st[t] = "out" /\ ~notifying
    /\ IF maxReaders - cur >= n /\ waiters = <<>>
       THEN /\ cur' = cur + n
            /\ st' = [st EXCEPT ![t] = held]
            /\ UNCHANGED waiters
       ELSE /\ waiters' = Append(waiters, t)
            /\ st' = [st EXCEPT ![t] = wait]
            /\ UNCHANGED cur
    /\ UNCHANGED notifying

Lock(t)  == Acquire(t, maxReaders, "waitW", "writer")
RLock(t) == Acquire(t, 1, "waitR", "reader")

-------------------------------------------------------------------------------
(* Release: t gives n tokens back, then the waiters are looked at.         *)

Release(t, n, from, to) ==
    /\ st[t] = from /\ ~notifying
    /\ cur' = cur - n
    /\ st' = [st EXCEPT ![t] = to]
    /\ notifying' = TRUE
    /\ UNCHANGED waiters

Unlock(t)  == Release(t, maxReaders, "writer", "out")
RUnlock(t) == Release(t, 1, "reader", "out")

\* Mutant: all tokens are given back.
UnlockToRLockAll(t) == Release(t, maxReaders, "writer", "reader")

\* Mutant: the waiting readers are not told.
UnlockToRLockQuiet(t) ==
    /\ st[t] = "writer" /\ ~notifying
    /\ cur' = 1
    /\ st' = [st EXCEPT ![t] = "reader"]
    /\ UNCHANGED <<waiters, notifying>>

UnlockToRLock(t) == Release(t, maxReaders - 1, "writer", "reader")

\* The tokens that the first waiter wants.
Wanted == IF st[Head(waiters)] = "waitW" THEN maxReaders ELSE 1

FrontFits == waiters # <<>> /\ maxReaders - cur >= Wanted

\* notifyWaiters, an iteration: the first waiter gets its tokens.
Notify ==
    /\ notifying /\ FrontFits
    /\ cur' = cur + Wanted
    /\ st' = [st EXCEPT ![Head(waiters)] = IF @ = "waitW" THEN "writer" ELSE "reader"]
    /\ waiters' = Tail(waiters)
    /\ UNCHANGED notifying

\* notifyWaiters, the end of the loop.
NotifyDone ==
    /\ notifying /\ ~FrontFits
    /\ notifying' = FALSE
    /\ UNCHANGED <<cur, waiters, st>>

-------------------------------------------------------------------------------
Next ==
    \/ \E t \in Threads : \/ Lock(t) \/ RLock(t)
                          \/ Unlock(t) \/ RUnlock(t) \/ UnlockToRLock(t)
    \/ Notify \/ NotifyDone

Spec == Init /\ [][Next]_vars

\* Goroutines run, and who holds the lock lets go of it.
FairSpec ==
    /\ Spec
    /\ WF_vars(Notify \/ NotifyDone)
    /\ \A t \in Threads : SF_vars(Unlock(t)) /\ SF_vars(RUnlock(t))

-------------------------------------------------------------------------------
Writers == {t \in Threads : st[t] = "writer"}
Readers == {t \in Threads : st[t] = "reader"}

\* A writer is alone: no other thread reads or writes while it holds the
\* lock, whatever way the others came by theirs (at once, from the queue, or
\* by a downgrade with UnlockToRLock).
Exclusion == \A t, u \in Threads : t \in Writers /\ u \in Writers \union Readers => t = u

\* Nobody is forgotten: outside notifyWaiters the first waiter does not fit,
\* so the thread that will wake it holds the lock.
NobodyForgotten ==
    /\ TypeOK
    /\ ~notifying => ~FrontFits
    /\ waiters # <<>> /\ ~notifying => Writers \union Readers # {}

\* Who calls Lock or RLock gets the lock, however many readers come and go.
LockGranted ==
    \A t \in Threads : (st[t] \in {"waitW", "waitR"}) ~> (st[t] \in {"writer", "reader"})
===============================================================================
