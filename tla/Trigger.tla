------------------------------- MODULE Trigger -------------------------------
(***************************************************************************)
(* util.Trigger of pkg/util: calls of Trigger fold into runs of            *)
(* TriggerFunc that one goroutine (waiter) makes, at least MinInterval     *)
(* apart.  The mutex guards single critical sections, each of which is one *)
(* step here.  numFolds, the number of calls of a run, goes to the log     *)
(* only and is left out.                                                   *)
(***************************************************************************)
EXTENDS Naturals

CONSTANTS
    Callers,      \* goroutines that call Trigger, again and again
    MinInterval   \* params.MinInterval, in ticks of the clock

ASSUME IntervalAssumption == MinInterval \in Nat

VARIABLES
    trigger,    \* the flag
    wakeup,     \* wakeupChan, of capacity 1, is full
    closed,     \* closeChan is closed
    since,      \* time since lastTrigger, which matters up to MinInterval
    waiter,     \* where the waiter is
    caller,     \* where each caller is
    pending     \* some call has set the flag and no run has started since

vars == <<trigger, wakeup, closed, since, waiter, caller, pending>>

TypeOK ==
    /\ trigger \in BOOLEAN
    /\ wakeup \in BOOLEAN
    /\ closed \in BOOLEAN
    /\ since \in 0 .. MinInterval
    /\ waiter \in {"take", "delay", "start", "run", "select", "shutdown", "end"}
    /\ caller \in [Callers -> {"out", "wake"}]
    /\ pending \in BOOLEAN

\* NewTrigger: the first run needs no delay.
Init ==
    /\ trigger = FALSE
    /\ wakeup = FALSE
    /\ closed = FALSE
    /\ since = MinInterval
    /\ waiter = "take"
    /\ caller = [c \in Callers |-> "out"]
    /\ pending = FALSE

\* Trigger, the critical section.
SetTrigger(c) ==
    /\ caller[c] = "out"
    /\ trigger' = TRUE
    /\ pending' = TRUE
    /\ caller' = [caller EXCEPT ![c] = "wake"]
    /\ UNCHANGED <<wakeup, closed, since, waiter>>

\* Mutant: wakeupChan has no buffer, so the send succeeds only if the waiter
\* is at its select.
WakeupUnbuffered(c) ==
    /\ caller[c] = "wake"
    /\ wakeup' = (wakeup \/ waiter = "select")
    /\ caller' = [caller EXCEPT ![c] = "out"]
    /\ UNCHANGED <<trigger, closed, since, waiter, pending>>

\* Trigger, the send that gives up when the channel is full.
Wakeup(c) ==
    /\ caller[c] = "wake"
    /\ wakeup' = TRUE
    /\ caller' = [caller EXCEPT ![c] = "out"]
    /\ UNCHANGED <<trigger, closed, since, waiter, pending>>

\* Shutdown; a second call would close a closed channel.
Shutdown ==
    /\ ~closed
    /\ closed' = TRUE
    /\ UNCHANGED <<trigger, wakeup, since, waiter, caller, pending>>

\* waiter: take the flag.
Take ==
    /\ waiter = "take"
    /\ trigger' = FALSE
    /\ waiter' = IF trigger THEN "delay" ELSE "select"
    /\ UNCHANGED <<wakeup, closed, since, caller, pending>>

\* Mutant: the interval is not waited for.
NoDelay == FALSE

\* waiter: needsDelay, and the sleep that lasts until the interval is over.
needsDelay == since < MinInterval

Delay ==
    /\ waiter = "delay" /\ ~needsDelay
    /\ waiter' = "start"
    /\ UNCHANGED <<trigger, wakeup, closed, since, caller, pending>>

\* waiter: the second critical section, then TriggerFunc begins.
Start ==
    /\ waiter = "start"
    /\ since' = 0
    /\ pending' = FALSE
    /\ waiter' = "run"
    /\ UNCHANGED <<trigger, wakeup, closed, caller>>

\* Mutant: the flag is cleared after the run instead of before it.
RunDoneClears ==
    /\ waiter = "run"
    /\ waiter' = "select"
    /\ trigger' = FALSE
    /\ UNCHANGED <<wakeup, closed, since, caller, pending>>

RunDone ==
    /\ waiter = "run"
    /\ waiter' = "select"
    /\ UNCHANGED <<trigger, wakeup, closed, since, caller, pending>>

\* waiter: the select; either case is taken when both are ready.
SelectWakeup ==
    /\ waiter = "select" /\ wakeup
    /\ wakeup' = FALSE
    /\ waiter' = "take"
    /\ UNCHANGED <<trigger, closed, since, caller, pending>>

SelectClose ==
    /\ waiter = "select" /\ closed
    /\ waiter' = "shutdown"
    /\ UNCHANGED <<trigger, wakeup, closed, since, caller, pending>>

ShutdownFunc ==
    /\ waiter = "shutdown"
    /\ waiter' = "end"
    /\ UNCHANGED <<trigger, wakeup, closed, since, caller, pending>>

Tick ==
    /\ since < MinInterval
    /\ since' = since + 1
    /\ UNCHANGED <<trigger, wakeup, closed, waiter, caller, pending>>

Waiter == Take \/ Delay \/ Start \/ RunDone \/ SelectWakeup \/ SelectClose
          \/ ShutdownFunc

Next == (\E c \in Callers : SetTrigger(c) \/ Wakeup(c)) \/ Shutdown \/ Waiter \/ Tick

Spec == Init /\ [][Next]_vars

\* Time passes, goroutines run and TriggerFunc returns.
FairSpec == Spec /\ (\A c \in Callers : WF_vars(Wakeup(c)))
                 /\ WF_vars(Waiter) /\ WF_vars(Tick)

-------------------------------------------------------------------------------
\* No call is lost: whatever the order of the flag and the wake-up among the
\* waiter's steps, a set flag is one the waiter will still look at.
WakeupInFlight ==
    trigger => \/ wakeup
               \/ \E c \in Callers : caller[c] = "wake"
               \/ waiter = "take"

\* Every call of Trigger is followed by a run of TriggerFunc that starts
\* after it, unless the trigger is shut down.
CallsServed == pending ~> (~pending \/ closed)

\* Two runs of TriggerFunc start at least MinInterval apart.
RunsApart == [][waiter # "run" /\ waiter' = "run" => since = MinInterval]_vars
===============================================================================
