------------------------------- MODULE Lockfile -------------------------------
(***************************************************************************)
(* lockfile.Lockfile of pkg/lock/lockfile: several Lockfiles, each with an *)
(* open file description of its own, on one path.  A system call that      *)
(* waits for a lock cannot be cancelled.  When the context of a Lock ends, *)
(* Lock returns and leaves the call to a goroutine, which drops the lock   *)
(* if the call gets it after all.  Users do not wait for that, and cannot: *)
(* a Lockfile whose Lock was cancelled may be used at once.                *)
(*                                                                         *)
(* The locks of the kernel (held) are those of open file descriptions; the *)
(* kernel is modelled from how flock uses it.                              *)
(***************************************************************************)
EXTENDS Naturals, FiniteSets

CONSTANTS
    Files,     \* Lockfiles on the same path
    MaxLate    \* bound: cancelled calls of a Lockfile that are not over

ASSUME MaxLateAssumption == MaxLate \in Nat \ {0}

VARIABLES
    open,      \* fp is not closed
    held,      \* the lock the kernel has noted for the file description
    client,    \* the user of the Lockfile: its step and the lock it asks for
    believes,  \* the lock that the user has been told it has
    late,      \* cancelled calls that wait in the kernel, by lock
    dropping,  \* cancelled calls that got their lock and are to drop it
    overlaps   \* a cancelled call was not over when its user last asked for
               \* a lock (a history variable)

vars == <<open, held, client, believes, late, dropping, overlaps>>

Modes == {"shared", "exclusive"}
Locks == Modes \union {"none"}

TypeOK ==
    /\ open \in [Files -> BOOLEAN]
    /\ held \in [Files -> Locks]
    /\ client \in [Files -> [pc : {"idle", "wait", "got"}, mode : Locks,
                             ctx : BOOLEAN]]
    /\ believes \in [Files -> Locks]
    /\ late \in [Files -> [Modes -> 0 .. MaxLate]]
    /\ dropping \in [Files -> 0 .. MaxLate]
    /\ overlaps \in [Files -> BOOLEAN]

Idle == [pc |-> "idle", mode |-> "none", ctx |-> FALSE]

\* NewLockfile, for each of them.
Init ==
    /\ open = [f \in Files |-> TRUE]
    /\ held = [f \in Files |-> "none"]
    /\ client = [f \in Files |-> Idle]
    /\ believes = [f \in Files |-> "none"]
    /\ late = [f \in Files |-> [m \in Modes |-> 0]]
    /\ dropping = [f \in Files |-> 0]
    /\ overlaps = [f \in Files |-> FALSE]

-------------------------------------------------------------------------------
\* The kernel grants m to f: nobody else's lock is in its way.  A lock that
\* f has already is converted.
CanGrant(f, m) ==
    \A g \in Files \ {f} :
        IF m = "exclusive" THEN held[g] = "none" ELSE held[g] # "exclusive"

Waiting(f) == late[f]["shared"] + late[f]["exclusive"]

\* Calls of a Lockfile that were cancelled and are not over.
Outstanding(f) == Waiting(f) + dropping[f]

\* The user asks for a lock.  A user that has one does not ask for another
\* one, as none does in the tests.
Ask(f) ==
    /\ open[f] /\ client[f].pc = "idle" /\ believes[f] = "none"
    /\ overlaps' = [overlaps EXCEPT ![f] = Outstanding(f) > 0]

\* Mutant: the lock is always a shared one.
TryLockShared(f, m) ==
    /\ Ask(f) /\ CanGrant(f, "shared")
    /\ held' = [held EXCEPT ![f] = "shared"]
    /\ believes' = [believes EXCEPT ![f] = m]
    /\ UNCHANGED <<open, client, late, dropping>>

\* TryLock.  One that fails changes nothing.
TryLock(f, m) ==
    /\ Ask(f) /\ CanGrant(f, m)
    /\ held' = [held EXCEPT ![f] = m]
    /\ believes' = [believes EXCEPT ![f] = m]
    /\ UNCHANGED <<open, client, late, dropping>>

\* Lock: the system call begins, in a goroutine if the context can end.
LockCall(f, m, ctx) ==
    /\ Ask(f)
    /\ Outstanding(f) < MaxLate
    /\ client' = [client EXCEPT ![f] = [pc |-> "wait", mode |-> m, ctx |-> ctx]]
    /\ UNCHANGED <<open, held, believes, late, dropping>>

LockGranted(f) ==
    /\ client[f].pc = "wait" /\ CanGrant(f, client[f].mode)
    /\ held' = [held EXCEPT ![f] = client[f].mode]
    /\ client' = [client EXCEPT ![f].pc = "got"]
    /\ UNCHANGED <<open, believes, late, dropping, overlaps>>

\* Lock returns what it received from lockCh.
LockReturn(f) ==
    /\ client[f].pc = "got"
    /\ believes' = [believes EXCEPT ![f] = client[f].mode]
    /\ client' = [client EXCEPT ![f] = Idle]
    /\ UNCHANGED <<open, held, late, dropping, overlaps>>

\* Mutant: nobody waits for the outcome of a cancelled call.
CancelAbandons(f) ==
    /\ client[f].ctx /\ client[f].pc \in {"wait", "got"}
    /\ late' = IF client[f].pc = "wait"
               THEN [late EXCEPT ![f][client[f].mode] = @ + 1] ELSE late
    /\ client' = [client EXCEPT ![f] = Idle]
    /\ UNCHANGED <<open, held, believes, dropping, overlaps>>

\* The context ends: Lock returns its error.  The select may choose this
\* although the outcome is in lockCh already.
Cancel(f) ==
    /\ client[f].ctx
    /\ \/ /\ client[f].pc = "wait"
          /\ late' = [late EXCEPT ![f][client[f].mode] = @ + 1]
          /\ UNCHANGED dropping
       \/ /\ client[f].pc = "got"
          /\ dropping' = [dropping EXCEPT ![f] = @ + 1]
          /\ UNCHANGED late
    /\ client' = [client EXCEPT ![f] = Idle]
    /\ UNCHANGED <<open, held, believes, overlaps>>

\* A cancelled call gets its lock.  If the file was closed meanwhile, the
\* kernel undoes it and the call fails.
LateGranted(f, m) ==
    /\ late[f][m] > 0 /\ CanGrant(f, m)
    /\ late' = [late EXCEPT ![f][m] = @ - 1]
    /\ held' = [held EXCEPT ![f] = IF open[f] THEN m ELSE "none"]
    /\ dropping' = IF open[f] THEN [dropping EXCEPT ![f] = @ + 1] ELSE dropping
    /\ UNCHANGED <<open, client, believes, overlaps>>

\* The goroutine drops the lock of a cancelled call.
LateDrop(f) ==
    /\ dropping[f] > 0
    /\ held' = [held EXCEPT ![f] = "none"]
    /\ dropping' = [dropping EXCEPT ![f] = @ - 1]
    /\ UNCHANGED <<open, client, believes, late, overlaps>>

Unlock(f) ==
    /\ open[f] /\ client[f].pc = "idle"
    /\ held' = [held EXCEPT ![f] = "none"]
    /\ believes' = [believes EXCEPT ![f] = "none"]
    /\ UNCHANGED <<open, client, late, dropping, overlaps>>

\* Close.  A call that waits keeps the file description, and its lock, until
\* it ends; a drop that is still to come fails.
Close(f) ==
    /\ open[f] /\ client[f].pc = "idle"
    /\ open' = [open EXCEPT ![f] = FALSE]
    /\ held' = IF Waiting(f) = 0 THEN [held EXCEPT ![f] = "none"] ELSE held
    /\ believes' = [believes EXCEPT ![f] = "none"]
    /\ dropping' = [dropping EXCEPT ![f] = 0]
    /\ UNCHANGED <<client, late, overlaps>>

Kernel(f) == LockGranted(f) \/ \E m \in Modes : LateGranted(f, m)

\* Nobody uses a Lockfile any more.
Done == (\A f \in Files : ~open[f]) /\ UNCHANGED vars

Next ==
    \/ \E f \in Files :
          \/ \E m \in Modes : TryLock(f, m) \/ \E ctx \in BOOLEAN : LockCall(f, m, ctx)
          \/ Kernel(f) \/ LockReturn(f) \/ Cancel(f)
          \/ LateDrop(f) \/ Unlock(f) \/ Close(f)
    \/ Done

Spec == Init /\ [][Next]_vars

\* Goroutines run; the kernel wakes a call whose lock is free again and
\* again; users let go of the locks they have.
FairSpec ==
    /\ Spec
    /\ \A f \in Files :
          /\ WF_vars(LockReturn(f)) /\ WF_vars(LateDrop(f))
          /\ SF_vars(Unlock(f) /\ believes[f] # "none")
          /\ SF_vars(LockGranted(f)) /\ \A m \in Modes : SF_vars(LateGranted(f, m))

-------------------------------------------------------------------------------
\* A lock is lost to the past of its own Lockfile only: who was told to have
\* a lock has it, and an exclusive one excludes, whatever becomes of the calls
\* of the other Lockfiles, cancelled, late or closed with a call under way,
\* unless its own Lockfile had a cancelled call under way when it asked.  The
\* goroutine of such a call drops whatever lock the Lockfile has by then
\* (lockfile_linux.go:109-114), and the call itself may turn an exclusive
\* lock into a shared one.
LostToOwnPastOnly ==
    /\ TypeOK
    /\ \A f \in Files : believes[f] # "none" /\ ~overlaps[f] =>
          /\ held[f] = believes[f]
          /\ believes[f] = "exclusive" => \A g \in Files \ {f} : held[g] = "none"

\* No lock is left behind: a Lockfile without a user that has or awaits the
\* lock lets go of it, also when its call was cancelled or it was closed with
\* a call under way.  The exception is a lock that was taken while a cancelled
\* call waited, and closed with the call still waiting: two such calls wait
\* for each other's locks for ever, although Close says that it "removes all
\* locks held" (lockfile_linux.go:40).
NothingLeftLocked ==
    \A f \in Files :
        []<>(\/ held[f] = "none" \/ believes[f] # "none" \/ client[f].pc # "idle"
             \/ ~open[f] /\ overlaps[f] /\ Waiting(f) > 0)
===============================================================================
