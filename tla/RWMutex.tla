------------------------------- MODULE RWMutex -------------------------------
(***************************************************************************)
(* lock.RWMutex of pkg/lock, which is Go's sync.RWMutex in a build without *)
(* the lockdebug tag.  A mutex is a record and the operations are          *)
(* functions on it, so that a component keeps its mutex in a variable of   *)
(* its own.                                                                *)
(*                                                                         *)
(*   wr     the thread that holds the write lock, or Nobody                *)
(*   pend   the writer that has announced itself and waits for the readers *)
(*          to leave, or Nobody; it keeps new readers out                  *)
(*   rd     the threads that hold the read lock                            *)
(*   rwait  the readers that came while a writer held or awaited the lock  *)
(*                                                                         *)
(* A thread takes the read lock at most once at a time here: no reachable  *)
(* path of the modelled code nests read locks on the same mutex.           *)
(***************************************************************************)

Nobody == "nobody"

Mutexes(Threads) ==
    [wr : Threads \union {Nobody}, pend : Threads \union {Nobody},
     rd : SUBSET Threads, rwait : SUBSET Threads]

Unlocked == [wr |-> Nobody, pend |-> Nobody, rd |-> {}, rwait |-> {}]

\* Lock, first half: the writer announces itself.  Writers exclude each
\* other, so this waits for another writer to finish.
CanAnnounce(m) == m.wr = Nobody /\ m.pend = Nobody
Announce(m, t) == [m EXCEPT !.pend = t]

\* Mutant: the writer does not wait for the readers.
CanLockOverReaders(m, t) == m.pend = t

\* Lock, second half: the last reader has left.
CanLock(m, t) == m.pend = t /\ m.rd = {}
Lock(m, t)    == [m EXCEPT !.pend = Nobody, !.wr = t]

\* Unlock admits every reader that queued up, before the next writer.
Unlock(m) == [m EXCEPT !.wr = Nobody, !.rd = m.rwait, !.rwait = {}]

\* RLock enters at once unless a writer holds or awaits the mutex.
RLock(m, t) ==
    IF m.wr = Nobody /\ m.pend = Nobody
    THEN [m EXCEPT !.rd = @ \union {t}]
    ELSE [m EXCEPT !.rwait = @ \union {t}]

RUnlock(m, t) == [m EXCEPT !.rd = @ \ {t}]
==============================================================================
