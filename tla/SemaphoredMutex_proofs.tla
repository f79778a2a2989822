------------------------ MODULE SemaphoredMutex_proofs ------------------------
(***************************************************************************)
(* Proofs about SemaphoredMutex, for every finite set of threads and every *)
(* number of tokens.                                                       *)
(***************************************************************************)
EXTENDS SemaphoredMutex, FiniteSetTheorems, TLAPS

\* The queue: who is in it waits, and nobody is in it twice.
QueueInv ==
    /\ waiters \in Seq(Threads)
    /\ st \in [Threads -> {"out", "waitW", "waitR", "writer", "reader"}]
    /\ notifying \in BOOLEAN
    /\ \A k \in 1 .. Len(waiters) : st[waiters[k]] \in {"waitW", "waitR"}
    /\ \A j, k \in 1 .. Len(waiters) : waiters[j] = waiters[k] => j = k

\* The tokens that are taken are those of the readers, or all of them are a
\* single writer's.
ReadersHold == Writers = {} /\ cur = Cardinality(Readers) /\ cur <= maxReaders
WriterHolds == Readers = {} /\ cur = maxReaders /\ \E t \in Threads : Writers = {t}
TokenInv    == ReadersHold \/ WriterHolds

\* The counted tokens, the queue and the promise of Release together are
\* inductive.
SemInv == QueueInv /\ TokenInv /\ (~notifying => ~FrontFits)

-------------------------------------------------------------------------------
(* The tokens.                                                             *)

LEMMA ReadersFinite ==
    IsFiniteSet(Readers) /\ Cardinality(Readers) \in Nat
<1>1. Readers \subseteq Threads
  BY DEF Readers
<1>2. IsFiniteSet(Readers)
  BY <1>1, ThreadsAssumption, FS_Subset
<1>3. QED
  BY <1>2, FS_CardinalityType

\* Whoever is given n tokens that are there leaves the tokens counted: a
\* writer takes all of them only when nobody has one.
LEMMA Granted ==
    ASSUME QueueInv, TokenInv, NEW t \in Threads, st[t] \in {"out", "waitW", "waitR"},
           NEW held \in {"writer", "reader"},
           NEW n, n = (IF held = "writer" THEN maxReaders ELSE 1),
           maxReaders - cur >= n,
           cur' = cur + n, st' = [st EXCEPT ![t] = held]
    PROVE  TokenInv'
<1> USE MaxReadersAssumption
<1>1. ReadersHold
  <2> SUFFICES ASSUME cur = maxReaders PROVE FALSE
    BY DEF TokenInv, WriterHolds
  <2> QED
    OBVIOUS
<1>2. cur = Cardinality(Readers) /\ cur \in Nat /\ Writers = {}
  BY <1>1, ReadersFinite DEF ReadersHold
<1>3. CASE held = "writer"
  <2>1. cur = 0
    BY <1>2, <1>3
  <2>2. Readers = {}
    BY <2>1, <1>2, ReadersFinite, FS_EmptySet
  <2>3. Readers' = {} /\ Writers' = {t}
    BY <1>2, <1>3, <2>2 DEF Readers, Writers, QueueInv
  <2>4. QED
    BY <1>3, <2>1, <2>3 DEF TokenInv, WriterHolds
<1>4. CASE held = "reader"
  <2>1. Readers' = Readers \union {t} /\ t \notin Readers /\ Writers' = {}
    BY <1>2, <1>4 DEF Readers, Writers, QueueInv
  <2>2. Cardinality(Readers') = Cardinality(Readers) + 1
    BY <2>1, ReadersFinite, FS_AddElement
  <2>3. cur' = Cardinality(Readers') /\ cur' <= maxReaders
    BY <1>2, <1>4, <2>2
  <2>4. QED
    BY <2>1, <2>3 DEF TokenInv, ReadersHold
<1>5. QED
  BY <1>3, <1>4

\* A thread that waits holds nothing.
LEMMA Queued ==
    ASSUME QueueInv, TokenInv, NEW t \in Threads, st[t] = "out",
           NEW wait \in {"waitW", "waitR"},
           cur' = cur, st' = [st EXCEPT ![t] = wait]
    PROVE  TokenInv'
<1>1. Readers' = Readers /\ Writers' = Writers
  BY DEF Readers, Writers, QueueInv
<1>2. QED
  BY <1>1 DEF TokenInv, ReadersHold, WriterHolds

\* Release gives back what its caller holds; a downgrade keeps one token.
LEMMA Released ==
    ASSUME QueueInv, TokenInv, NEW t \in Threads,
           Unlock(t) \/ RUnlock(t) \/ UnlockToRLock(t)
    PROVE  TokenInv'
<1> USE MaxReadersAssumption
<1>1. CASE RUnlock(t)
  <2>1. t \in Readers
    BY <1>1 DEF RUnlock, Release, Readers
  <2>2. ReadersHold
    BY <2>1 DEF TokenInv, WriterHolds
  <2>3. Readers' = Readers \ {t} /\ Writers' = {}
    BY <1>1, <2>2 DEF RUnlock, Release, Readers, Writers, QueueInv, ReadersHold
  <2>4. Cardinality(Readers') = Cardinality(Readers) - 1
    BY <2>1, <2>3, ReadersFinite, FS_RemoveElement
  <2>5. cur' = Cardinality(Readers') /\ cur' <= maxReaders
    BY <1>1, <2>2, <2>4, ReadersFinite DEF RUnlock, Release, ReadersHold
  <2>6. QED
    BY <2>3, <2>5 DEF TokenInv, ReadersHold
<1>2. CASE Unlock(t) \/ UnlockToRLock(t)
  <2>1. t \in Writers
    BY <1>2 DEF Unlock, UnlockToRLock, Release, Writers
  <2>2. Readers = {} /\ cur = maxReaders /\ Writers = {t}
    BY <2>1 DEF TokenInv, ReadersHold, WriterHolds
  <2>3. CASE Unlock(t)
    <3>1. Readers' = {} /\ Writers' = {}
      BY <2>2, <2>3 DEF Unlock, Release, Readers, Writers, QueueInv
    <3>2. cur' = 0
      BY <2>2, <2>3 DEF Unlock, Release
    <3>3. cur' = Cardinality(Readers')
      BY <3>1, <3>2, FS_EmptySet
    <3>4. QED
      BY <3>1, <3>2, <3>3 DEF TokenInv, ReadersHold
  <2>4. CASE UnlockToRLock(t)
    <3>1. Readers' = {t} /\ Writers' = {}
      BY <2>2, <2>4 DEF UnlockToRLock, Release, Readers, Writers, QueueInv
    <3>2. cur' = 1
      BY <2>2, <2>4 DEF UnlockToRLock, Release
    <3>3. cur' = Cardinality(Readers')
      BY <3>1, <3>2, FS_Singleton
    <3>4. QED
      BY <3>1, <3>2, <3>3 DEF TokenInv, ReadersHold
  <2>5. QED
    BY <1>2, <2>3, <2>4
<1>3. QED
  BY <1>1, <1>2

-------------------------------------------------------------------------------
(* The queue.                                                              *)

\* A newcomer goes to the end of the queue, which changes neither who is
\* first nor what the first one wants.
LEMMA Enqueued ==
    ASSUME QueueInv, NEW t \in Threads, st[t] = "out",
           NEW wait \in {"waitW", "waitR"},
           waiters' = Append(waiters, t), st' = [st EXCEPT ![t] = wait],
           notifying' \in BOOLEAN
    PROVE  /\ QueueInv'
           /\ waiters # <<>> => Wanted' = Wanted
           /\ waiters = <<>> => Wanted' = (IF wait = "waitW" THEN maxReaders ELSE 1)
<1>1. waiters' \in Seq(Threads) /\ Len(waiters') = Len(waiters) + 1
  BY DEF QueueInv
<1>2. /\ \A k \in 1 .. Len(waiters) : waiters'[k] = waiters[k] /\ waiters[k] # t
      /\ waiters'[Len(waiters) + 1] = t
  BY DEF QueueInv
<1>3. st' \in [Threads -> {"out", "waitW", "waitR", "writer", "reader"}]
  BY DEF QueueInv
<1>4. \A k \in 1 .. Len(waiters') : st'[waiters'[k]] \in {"waitW", "waitR"}
  BY <1>1, <1>2 DEF QueueInv
<1>5. \A j, k \in 1 .. Len(waiters') : waiters'[j] = waiters'[k] => j = k
  BY <1>1, <1>2 DEF QueueInv
<1>6. QueueInv'
  BY <1>1, <1>3, <1>4, <1>5 DEF QueueInv
<1>7. ASSUME waiters # <<>> PROVE Wanted' = Wanted
  <2>1. 1 \in 1 .. Len(waiters)
    BY <1>7 DEF QueueInv
  <2>2. Head(waiters') = Head(waiters) /\ Head(waiters) # t /\ Head(waiters) \in Threads
    BY <1>2, <2>1 DEF QueueInv
  <2>3. QED
    BY <2>2 DEF Wanted, QueueInv
<1>8. ASSUME waiters = <<>>
      PROVE  Wanted' = (IF wait = "waitW" THEN maxReaders ELSE 1)
  <2>1. Head(waiters') = t
    BY <1>2, <1>8
  <2>2. QED
    BY <2>1 DEF Wanted, QueueInv
<1>9. QED
  BY <1>6, <1>7, <1>8

\* A thread that is not in the queue may change its state among those of a
\* thread that does not wait.
LEMMA QueueKept ==
    ASSUME QueueInv, NEW t \in Threads, st[t] \notin {"waitW", "waitR"},
           NEW to \in {"out", "writer", "reader"},
           waiters' = waiters, st' = [st EXCEPT ![t] = to], notifying' \in BOOLEAN
    PROVE  QueueInv'
BY DEF QueueInv

\* The first waiter is served: it leaves the queue and is in it no more.
LEMMA Dequeued ==
    ASSUME QueueInv, waiters # <<>>, NEW to \in {"writer", "reader"},
           waiters' = Tail(waiters), st' = [st EXCEPT ![Head(waiters)] = to],
           notifying' \in BOOLEAN
    PROVE  QueueInv'
<1>1. /\ waiters' \in Seq(Threads) /\ Len(waiters') = Len(waiters) - 1
      /\ \A k \in 1 .. Len(waiters') : waiters'[k] = waiters[k + 1]
      /\ Head(waiters) = waiters[1] /\ Len(waiters) \in Nat \ {0}
  BY DEF QueueInv
<1>2. \A k \in 1 .. Len(waiters') : waiters'[k] # Head(waiters)
  BY <1>1 DEF QueueInv
<1>3. st' \in [Threads -> {"out", "waitW", "waitR", "writer", "reader"}]
  BY DEF QueueInv
<1>4. \A k \in 1 .. Len(waiters') : waiters'[k] \in Threads
  BY <1>1
<1>5. \A k \in 1 .. Len(waiters') : st'[waiters'[k]] \in {"waitW", "waitR"}
  BY <1>1, <1>2, <1>4 DEF QueueInv
<1>6. \A j, k \in 1 .. Len(waiters') : waiters'[j] = waiters'[k] => j = k
  BY <1>1 DEF QueueInv
<1>7. QED
  BY <1>1, <1>3, <1>5, <1>6 DEF QueueInv

-------------------------------------------------------------------------------
(* The inductive invariant.                                                *)

LEMMA SemInit == Init => SemInv
<1> SUFFICES ASSUME Init PROVE SemInv
  OBVIOUS
<1>1. Readers = {} /\ Writers = {}
  BY DEF Init, Readers, Writers
<1>2. TokenInv
  BY <1>1, FS_EmptySet, MaxReadersAssumption DEF Init, TokenInv, ReadersHold
<1>3. QueueInv
  <2>1. waiters \in Seq(Threads) /\ 1 .. Len(waiters) = {}
    BY DEF Init
  <2>2. /\ st \in [Threads -> {"out", "waitW", "waitR", "writer", "reader"}]
        /\ notifying \in BOOLEAN
    BY DEF Init
  <2>3. QED
    BY <2>1, <2>2, Zenon DEF QueueInv
<1>4. ~FrontFits
  BY DEF Init, FrontFits
<1>5. QED
  BY <1>2, <1>3, <1>4 DEF SemInv

LEMMA AcquireStep ==
    ASSUME SemInv, NEW t \in Threads, Lock(t) \/ RLock(t)
    PROVE  SemInv'
<1> DEFINE wait == IF Lock(t) THEN "waitW" ELSE "waitR"
           held == IF Lock(t) THEN "writer" ELSE "reader"
           n    == IF Lock(t) THEN maxReaders ELSE 1
<1>1. Acquire(t, n, wait, held)
  BY DEF Lock, RLock
<1>2. /\ held \in {"writer", "reader"} /\ wait \in {"waitW", "waitR"}
      /\ n = (IF held = "writer" THEN maxReaders ELSE 1)
      /\ n = (IF wait = "waitW" THEN maxReaders ELSE 1)
  OBVIOUS
<1>3. /\ QueueInv /\ TokenInv /\ ~notifying
      /\ notifying' = notifying /\ notifying' \in BOOLEAN
  BY <1>1 DEF Acquire, SemInv, QueueInv
<1> HIDE DEF wait, held, n
<1>4. CASE maxReaders - cur >= n /\ waiters = <<>>
  <2>1. cur' = cur + n /\ st' = [st EXCEPT ![t] = held] /\ waiters' = waiters
    BY <1>1, <1>4 DEF Acquire
  <2>2. st[t] = "out"
    BY <1>1 DEF Acquire
  <2>3. QueueInv'
    BY <1>2, <1>3, <2>1, <2>2, QueueKept
  <2>4. TokenInv'
    BY <1>2, <1>3, <1>4, <2>1, <2>2, Granted
  <2>5. QED
    BY <1>4, <2>1, <2>3, <2>4 DEF SemInv, FrontFits
<1>5. CASE ~(maxReaders - cur >= n /\ waiters = <<>>)
  <2>1. /\ waiters' = Append(waiters, t) /\ st' = [st EXCEPT ![t] = wait]
        /\ cur' = cur
    BY <1>1, <1>5 DEF Acquire
  <2>2. st[t] = "out"
    BY <1>1 DEF Acquire
  <2>3. /\ QueueInv'
        /\ waiters # <<>> => Wanted' = Wanted
        /\ waiters = <<>> => Wanted' = n
    BY <1>2, <1>3, <2>1, <2>2, Enqueued
  <2>4. TokenInv'
    BY <1>2, <1>3, <2>1, <2>2, Queued
  <2>5. ~FrontFits'
    BY <1>3, <1>5, <2>1, <2>3 DEF SemInv, FrontFits
  <2>6. QED
    BY <2>3, <2>4, <2>5 DEF SemInv
<1>6. QED
  BY <1>4, <1>5

LEMMA NotifyStep ==
    ASSUME SemInv, Notify
    PROVE  SemInv'
<1> DEFINE t    == Head(waiters)
           held == IF st[t] = "waitW" THEN "writer" ELSE "reader"
<1>1. QueueInv /\ TokenInv /\ waiters # <<>> /\ notifying' = notifying /\ notifying
  BY DEF SemInv, Notify, FrontFits
<1>2. t \in Threads /\ st[t] \in {"waitW", "waitR"}
  <2>1. 1 \in 1 .. Len(waiters) /\ t = waiters[1]
    BY <1>1 DEF QueueInv
  <2>2. QED
    BY <1>1, <2>1 DEF QueueInv
<1>3. held \in {"writer", "reader"} /\ Wanted = (IF held = "writer" THEN maxReaders ELSE 1)
  BY <1>2 DEF Wanted
<1>4. /\ maxReaders - cur >= Wanted /\ cur' = cur + Wanted
      /\ st' = [st EXCEPT ![t] = held] /\ waiters' = Tail(waiters)
  BY DEF Notify, FrontFits
<1> HIDE DEF held
<1>5. QueueInv'
  BY <1>1, <1>3, <1>4, Dequeued
<1>6. TokenInv'
  <2> HIDE DEF t
  <2> QED
    BY <1>1, <1>2, <1>3, <1>4, Granted
<1>7. QED
  BY <1>1, <1>5, <1>6 DEF SemInv

LEMMA SemStep == SemInv /\ [Next]_vars => SemInv'
<1> SUFFICES ASSUME SemInv, [Next]_vars PROVE SemInv'
  OBVIOUS
<1>1. ASSUME NEW t \in Threads, Lock(t) \/ RLock(t) PROVE SemInv'
  BY <1>1, AcquireStep
<1>2. ASSUME NEW t \in Threads, Unlock(t) \/ RUnlock(t) \/ UnlockToRLock(t)
      PROVE  SemInv'
  <2>1. QueueInv /\ TokenInv
    BY DEF SemInv
  <2>2. TokenInv'
    BY <1>2, <2>1, Released
  <2>3. /\ st[t] \in {"writer", "reader"} /\ waiters' = waiters /\ notifying'
        /\ \E to \in {"out", "reader"} : st' = [st EXCEPT ![t] = to]
    BY <1>2 DEF Unlock, RUnlock, UnlockToRLock, Release
  <2>4. QueueInv'
    BY <2>1, <2>3, QueueKept
  <2>5. QED
    BY <2>2, <2>3, <2>4 DEF SemInv
<1>3. CASE Notify
  BY <1>3, NotifyStep
<1>4. CASE NotifyDone
  BY <1>4 DEF NotifyDone, SemInv, QueueInv, TokenInv, ReadersHold, WriterHolds,
     Readers, Writers, FrontFits, Wanted
<1>5. CASE UNCHANGED vars
  BY <1>5 DEF vars, SemInv, QueueInv, TokenInv, ReadersHold, WriterHolds,
     Readers, Writers, FrontFits, Wanted
<1>6. QED
  BY <1>1, <1>2, <1>3, <1>4, <1>5 DEF Next

\* The tokens are counted and the queue is in order, always.
THEOREM TokensCounted == Spec => []SemInv
BY SemInit, SemStep, PTL DEF Spec

-------------------------------------------------------------------------------
\* SemaphoredMutex is a reader-writer lock: while a thread holds it for
\* writing nobody else holds it, though threads come by the lock in Lock and
\* RLock, from the queue and by UnlockToRLock.
THEOREM WriterAlone == Spec => []Exclusion
<1>1. SemInv => Exclusion
  <2> SUFFICES ASSUME TokenInv PROVE Exclusion
    BY DEF SemInv
  <2>1. CASE ReadersHold
    BY <2>1 DEF ReadersHold, Exclusion
  <2>2. CASE WriterHolds
    BY <2>2 DEF WriterHolds, Exclusion
  <2>3. QED
    BY <2>1, <2>2 DEF TokenInv
<1>2. QED
  BY <1>1, TokensCounted, PTL

\* Once Release has gone through the queue its first waiter does not fit, and
\* somebody holds the lock who will release it: no waiter is forgotten.
THEOREM WaitersRemembered == Spec => []NobodyForgotten
<1>1. SemInv => NobodyForgotten
  <2> SUFFICES ASSUME SemInv PROVE NobodyForgotten
    OBVIOUS
  <2> USE MaxReadersAssumption
  <2>1. cur \in 0 .. maxReaders
    BY ReadersFinite DEF SemInv, TokenInv, ReadersHold, WriterHolds
  <2>2. TypeOK
    BY <2>1 DEF SemInv, QueueInv, TypeOK
  <2>3. ASSUME waiters # <<>>, ~notifying PROVE Writers \union Readers # {}
    <3>1. cur # 0
      BY <2>1, <2>3 DEF SemInv, FrontFits, Wanted
    <3>2. CASE ReadersHold
      BY <3>1, <3>2, FS_EmptySet DEF ReadersHold
    <3>3. CASE WriterHolds
      BY <3>3 DEF WriterHolds
    <3>4. QED
      BY <3>2, <3>3 DEF SemInv, TokenInv
  <2>4. QED
    BY <2>2, <2>3 DEF SemInv, NobodyForgotten
<1>2. QED
  BY <1>1, TokensCounted, PTL
===============================================================================
