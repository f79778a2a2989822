-------------------------------- MODULE Daemon --------------------------------
(***************************************************************************)
(* The life of the process eni-controller (cmd/eni-controller): what it    *)
(* reads, builds, wires and starts, in which order, and how it stops.      *)
(*                                                                         *)
(* DaemonMain runs in one goroutine; the manager of controller-runtime     *)
(* ("mgr"), a worker for each controller and the handler of the node       *)
(* controller run beside it.  Of the controllers there is what a stop must *)
(* wait for: the worker of the nodes sends to a channel with its mutex     *)
(* locked; a callback that has selected a subnet waits for that mutex with *)
(* the one of the subnets held for reading, and then stays in its send for *)
(* ever; the worker of the subnets needs their mutex.                      *)
(* The worker of the pools waits for nothing: it returns, or its panic     *)
(* ends the process.                                                       *)
(***************************************************************************)
EXTENDS Naturals, Sequences

CONSTANTS
    ChanCap,    \* capacity of the node controller's channel (16 in the code)
    MaxQueue    \* bound on the names in a work queue

ASSUME DaemonAssumption == ChanCap \in Nat \ {0} /\ MaxQueue \in Nat \ {0}

VARIABLES
    pc,      \* what DaemonMain does next
    ids,     \* Cfg has a default subnet and a default project
    made,    \* how many of the Services are made
    regs,    \* the controllers that the callback is registered with
    ctx,     \* InnerCtx: "none", "live" or "done"
    sigCh,   \* a signal is in sigCh
    gops,    \* the agent of gops: "off", "listening", or "signalled"
    mgr,     \* mgr.Start: its step, and the error it will return
    work,    \* the worker of each controller
    queue,   \* the number of names in its work queue
    ch,      \* the number of names in the node controller's channel
    hnd      \* the goroutine of handlerCallback

vars == <<pc, ids, made, regs, ctx, sigCh, gops, mgr, work, queue, ch, hnd>>

\* initControllerServiceManagers, in its order.
Services    == <<"pool", "api", "ns", "node", "vpc">>
Wired       == <<"pool", "node", "ns">>
Controllers == {"node", "ns", "subnet"}

TypeOK ==
    /\ pc \in {"parse", "config", "servers", "crd", "clients", "make", "wire",
              "start", "sync", "notify", "watch", "dead"}
    /\ ids \in BOOLEAN /\ sigCh \in BOOLEAN
    /\ made \in 0 .. Len(Services)
    /\ \E n \in 0 .. Len(Wired) : regs = SubSeq(Wired, 1, n)
    /\ ctx \in {"none", "live", "done"}
    /\ gops \in {"off", "listening", "signalled"}
    /\ mgr \in [pc : {"off", "caches", "synced", "running", "stopping",
                     "returned"},
               err : BOOLEAN]
    /\ work["node"] \in {"none", "idle", "send", "patch", "done"}
    /\ work["ns"] \in {"none", "idle", "call", "walk", "nodes", "stuck", "done"}
    /\ work["subnet"] \in {"none", "idle", "lock", "done"}
    /\ queue \in [Controllers -> 0 .. MaxQueue]
    /\ ch \in 0 .. ChanCap
    /\ hnd \in {"none", "select", "rlock", "call", "walk", "nodes", "stuck", "gone"}

\* The memory of a process that has just begun, or ended.
Fresh(id, m, r, c, s, a, g, w, q, n, h) ==
    /\ id = FALSE /\ m = 0 /\ r = <<>> /\ c = "none" /\ s = FALSE /\ a = "off"
    /\ g = [pc |-> "off", err |-> FALSE]
    /\ w = [k \in Controllers |-> "none"] /\ q = [k \in Controllers |-> 0]
    /\ n = 0 /\ h = "none"

Init ==
    /\ pc = "parse"
    /\ Fresh(ids, made, regs, ctx, sigCh, gops, mgr, work, queue, ch, hnd)

\* klog.Fatal, klog.Exitf, a panic or a kill.
Exit ==
    /\ pc' = "dead"
    /\ Fresh(ids', made', regs', ctx', sigCh', gops', mgr', work', queue', ch', hnd')

Crash == pc # "dead" /\ Exit

Restart ==
    /\ pc = "dead"
    /\ pc' = "parse"
    /\ UNCHANGED <<ids, made, regs, ctx, sigCh, gops, mgr, work, queue, ch, hnd>>

-------------------------------------------------------------------------------
(* DaemonMain.                                                             *)

others == <<sigCh, gops, mgr, work, queue, ch>>

\* ParseConfiguration, in init: an empty value that is required, or one that
\* does not parse, ends the process.
ParseConfiguration(ok) ==
    /\ pc = "parse"
    /\ IF ok THEN /\ pc' = "config"
                  /\ ids' = TRUE
                  /\ UNCHANGED <<made, regs, ctx, hnd, others>>
             ELSE Exit

\* LoadConfigmap: the file may set the ids anew, to nothing too.  A file that
\* cannot be read or parsed is only warned of.
LoadConfigmap ==
    /\ pc = "config"
    /\ pc' = "servers"
    /\ ids' \in BOOLEAN
    /\ UNCHANGED <<made, regs, ctx, hnd, others>>

\* gops and pyroscope, if they are asked for; then the context.  gops is
\* asked for unless its port is set to nothing.
InitServers(ok) ==
    /\ pc = "servers"
    /\ IF ok THEN /\ pc' = "crd"
                  /\ ctx' = "live"
                  /\ gops' \in {"off", "listening"}
                  /\ UNCHANGED <<ids, made, regs, hnd, sigCh, mgr, work, queue, ch>>
             ELSE Exit

\* A step of which DaemonMain keeps no more than that it succeeded.
Proceed(from, to, ok) ==
    /\ pc = from
    /\ IF ok THEN pc' = to /\ UNCHANGED <<ids, made, regs, ctx, hnd, others>>
             ELSE Exit

newCRDManager(ok) == Proceed("crd", "clients", ok)
InitClients(ok)   == Proceed("clients", "make", ok)

\* Mutant: the manager is started before the callbacks are registered.
MakeAndStart(ok) ==
    /\ pc = "make"
    /\ LET m == Services[made + 1]
       IN IF ok /\ (m = "vpc" => ids)
          THEN /\ made' = made + 1
               /\ hnd' = IF m = "node" THEN "select" ELSE hnd
               /\ pc' = IF made' = Len(Services) THEN "start" ELSE pc
               /\ UNCHANGED <<ids, regs, ctx, others>>
          ELSE Exit

\* The next of the managers is made; that of the nodes starts its handler,
\* that of the vpc needs the ids.
MakeManager(ok) ==
    /\ pc = "make"
    /\ LET m == Services[made + 1]
       IN IF ok /\ (m = "vpc" => ids)
          THEN /\ made' = made + 1
               /\ hnd' = IF m = "node" THEN "select" ELSE hnd
               /\ pc' = IF made' = Len(Services) THEN "wire" ELSE pc
               /\ UNCHANGED <<ids, regs, ctx, others>>
          ELSE Exit

RegistCallback ==
    /\ pc = "wire"
    /\ regs' = Append(regs, Wired[Len(regs) + 1])
    /\ pc' = IF Len(regs') = Len(Wired) THEN "start" ELSE pc
    /\ UNCHANGED <<ids, made, ctx, hnd, others>>

\* Mutant: the cache is waited for before the manager is started.
SyncThenStart ==
    /\ pc = "start" /\ mgr.pc = "synced"
    /\ mgr' = [mgr EXCEPT !.pc = "caches"]
    /\ pc' = "sync"
    /\ UNCHANGED <<ids, made, regs, ctx, hnd, sigCh, gops, work, queue, ch>>

GoStart ==
    /\ pc = "start"
    /\ mgr' = [mgr EXCEPT !.pc = "caches"]
    /\ pc' = "sync"
    /\ UNCHANGED <<ids, made, regs, ctx, hnd, sigCh, gops, work, queue, ch>>

\* The context cannot end here, so WaitForCacheSync does not return FALSE.
WaitForCacheSync ==
    /\ pc = "sync" /\ mgr.pc \in {"synced", "running"}
    /\ pc' = "notify"
    /\ UNCHANGED <<ids, made, regs, ctx, hnd, others>>

Notify ==
    /\ pc = "notify"
    /\ pc' = "watch"
    /\ UNCHANGED <<ids, made, regs, ctx, hnd, others>>

\* SIGTERM or SIGINT ends a process in which nobody has asked for them yet;
\* a signal that finds a channel full is dropped.
Signal ==
    /\ pc # "dead"
    /\ IF pc # "watch" /\ gops = "off" THEN Exit
       ELSE /\ sigCh' = (pc = "watch")
            /\ gops' = IF gops = "off" THEN gops ELSE "signalled"
            /\ UNCHANGED <<pc, ids, made, regs, ctx, hnd, mgr, work, queue, ch>>

\* gracefulShutdown of gops, which main does not know of: it exits, whatever
\* WatchSignal has made of the same signal.
GopsExit == gops = "signalled" /\ Exit

\* Mutant: the context is cancelled by the second signal only.
WatchSignalTwice ==
    /\ pc = "watch" /\ sigCh
    /\ sigCh' = FALSE
    /\ ctx' = IF ctx = "live" THEN "asked" ELSE "done"
    /\ UNCHANGED <<pc, ids, made, regs, gops, hnd, mgr, work, queue, ch>>

WatchSignal ==
    /\ pc = "watch" /\ sigCh
    /\ sigCh' = FALSE
    /\ ctx' = "done"
    /\ UNCHANGED <<pc, ids, made, regs, gops, hnd, mgr, work, queue, ch>>

-------------------------------------------------------------------------------
(* mgr.Start.                                                              *)

main == <<pc, ids, made, regs, ctx, sigCh, gops>>

CachesSynced ==
    /\ mgr.pc = "caches"
    /\ mgr' = [mgr EXCEPT !.pc = "synced"]
    /\ UNCHANGED <<main, work, queue, ch, hnd>>

\* The workers are started; with leader election, once this is the leader.
Launch ==
    /\ mgr.pc = "synced"
    /\ mgr' = [mgr EXCEPT !.pc = "running"]
    /\ work' = [k \in Controllers |-> "idle"]
    /\ UNCHANGED <<main, queue, ch, hnd>>

\* engageStopProcedure.  StopAndWait starts a group that was not started: a
\* controller launches its worker, and its queue may have names by then, or
\* finds that it is to stop before its caches are synced.
Engage(err) ==
    /\ mgr' = [pc |-> "stopping", err |-> err]
    /\ IF mgr.pc = "running" THEN UNCHANGED <<work, queue>>
       ELSE /\ work' \in [Controllers -> {"none", "idle"}]
            /\ queue' \in [Controllers -> 0 .. MaxQueue]
            /\ \A k \in Controllers : work'[k] = "none" => queue'[k] = 0
    /\ UNCHANGED <<main, ch, hnd>>

\* A runnable returns an error (Start of the vpc manager, a cache, a server):
\* the workers are stopped, and InnerCtx is not cancelled.  That Start ends by
\* itself, after a number of retries.
RunnableFails == mgr.pc \in {"caches", "synced", "running"} /\ Engage(TRUE)

Stop == ctx = "done" /\ mgr.pc \in {"synced", "running"} /\ Engage(FALSE)

\* Leader election is lost: there is no grace period, Start returns an error.
LeaseLost == mgr.pc = "running" /\ Exit

Drained == \A k \in Controllers : work[k] \in {"none", "done"}

\* Start returns nil, and DaemonMain stays in WatchSignal; or an error, and
\* the process ends.
StartReturns ==
    /\ mgr.pc = "stopping" /\ Drained
    /\ IF mgr.err THEN Exit
       ELSE /\ mgr' = [mgr EXCEPT !.pc = "returned"]
            /\ UNCHANGED <<main, work, queue, ch, hnd>>

-------------------------------------------------------------------------------
(* The workers.  A work queue that is shut down still hands out what is in *)
(* it, and takes nothing more.                                             *)

Event(k) ==
    /\ mgr.pc = "running" /\ queue[k] < MaxQueue
    /\ queue' = [queue EXCEPT ![k] = @ + 1]
    /\ UNCHANGED <<main, mgr, work, ch, hnd>>

Goto(k, step) == work' = [work EXCEPT ![k] = step]

\* The node worker locks the mutex, and has a name to send unless the node is
\* deleting.  Nobody keeps that mutex for reading while it waits.
Take(k) ==
    /\ work[k] = "idle" /\ queue[k] > 0
    /\ queue' = [queue EXCEPT ![k] = @ - 1]
    /\ \/ k = "node" /\ (Goto(k, "send") \/ Goto(k, "patch"))
       \/ k = "ns" /\ Goto(k, "call")
       \/ k = "subnet" /\ Goto(k, "lock")
    /\ UNCHANGED <<main, mgr, ch, hnd>>

Quit(k) ==
    /\ work[k] = "idle" /\ queue[k] = 0 /\ mgr.pc = "stopping"
    /\ Goto(k, "done")
    /\ UNCHANGED <<main, mgr, queue, ch, hnd>>

NodeLocked == work["node"] \in {"send", "patch"}

\* Mutant: the channel has no buffer, and a send waits for the receiver.
ReceiverWaits == work["node"] = "send" /\ hnd = "select" /\ ch = 0

CanSend == work["node"] = "send" /\ ch < ChanCap

NodeSend ==
    /\ CanSend
    /\ ch' = ch + 1
    /\ Goto("node", "patch")
    /\ UNCHANGED <<main, mgr, queue, hnd>>

\* The patch is done, or fails, as it does once InnerCtx is done, or there
\* was nothing to patch; the mutex is unlocked.
NodeReturn(again) ==
    /\ work["node"] = "patch"
    /\ Goto("node", "idle")
    /\ queue' = IF again /\ mgr.pc = "running" /\ queue["node"] < MaxQueue
                THEN [queue EXCEPT !["node"] = @ + 1] ELSE queue
    /\ UNCHANGED <<main, mgr, ch, hnd>>

\* The mutex of the subnets, for writing.
CanLock ==
    /\ work["subnet"] = "lock"
    /\ \A step \in {hnd, work["ns"]} : step \notin {"walk", "nodes", "stuck"}

SubnetReturn ==
    /\ CanLock
    /\ Goto("subnet", "idle")
    /\ UNCHANGED <<main, mgr, queue, ch, hnd>>

\* The callback, called by the handler or by the namespace worker: it takes
\* the mutex of the subnets, which no reader gets while a writer waits.  If
\* it selects no subnet it returns; else it waits for the mutex of the nodes,
\* to make the event, and stays in the send to the nil channel.
Callback(step, next, back) ==
    \/ step = "call" /\ work["subnet"] # "lock" /\ next = "walk"
    \/ step = "walk" /\ next \in {back, "nodes"}
    \/ step = "nodes" /\ ~NodeLocked /\ next = "stuck"

NsCallback ==
    \E next \in {"walk", "nodes", "idle", "stuck"} :
        /\ Callback(work["ns"], next, "idle")
        /\ Goto("ns", next)
        /\ UNCHANGED <<main, mgr, queue, ch, hnd>>

-------------------------------------------------------------------------------
(* handlerCallback.                                                        *)

HandlerReceive ==
    /\ hnd = "select" /\ ch > 0
    /\ ch' = ch - 1
    /\ hnd' = "rlock"
    /\ UNCHANGED <<main, mgr, work, queue>>

HandlerCalls ==
    /\ hnd = "rlock" /\ ~NodeLocked
    /\ hnd' = "call"
    /\ UNCHANGED <<main, mgr, work, queue, ch>>

HandlerCallback ==
    \E next \in {"walk", "nodes", "select", "stuck"} :
        /\ Callback(hnd, next, "select")
        /\ hnd' = next
        /\ UNCHANGED <<main, mgr, work, queue, ch>>

HandlerDone ==
    /\ hnd = "select" /\ ctx = "done"
    /\ hnd' = "gone"
    /\ UNCHANGED <<main, mgr, work, queue, ch>>

-------------------------------------------------------------------------------
NodeWorker   == \/ Take("node") \/ NodeSend \/ Quit("node")
                \/ \E again \in BOOLEAN : NodeReturn(again)
NsWorker     == Take("ns") \/ NsCallback \/ Quit("ns")
SubnetWorker == Take("subnet") \/ SubnetReturn \/ Quit("subnet")
Handler      == HandlerReceive \/ HandlerCalls \/ HandlerCallback \/ HandlerDone
Goroutines   == NodeWorker \/ NsWorker \/ SubnetWorker \/ Handler

\* Some goroutine can go on: ENABLED Goroutines, spelt out.
CanRun ==
    \/ \E k \in Controllers : work[k] = "idle" /\ (queue[k] > 0 \/ mgr.pc = "stopping")
    \/ CanSend \/ work["node"] = "patch" \/ CanLock
    \/ \E step \in {hnd, work["ns"]} :
          \/ step = "walk"
          \/ step = "call" /\ work["subnet"] # "lock"
          \/ step = "nodes" /\ ~NodeLocked
    \/ hnd = "rlock" /\ ~NodeLocked
    \/ hnd = "select" /\ (ch > 0 \/ ctx = "done")

\* Nothing that a stop waits for can happen any more.
Stalled == mgr.pc = "stopping" /\ ~Drained /\ ~CanRun

\* The grace period of the manager is over.  It is long enough for whatever
\* can still go on.  If the lease was lost in the meantime, Start returns what
\* it would have returned without.
GraceExpires ==
    /\ Stalled
    /\ \/ Exit
       \/ /\ ~mgr.err
          /\ mgr' = [mgr EXCEPT !.pc = "returned"]
          /\ UNCHANGED <<main, work, queue, ch, hnd>>

DaemonMain ==
    \/ \E ok \in BOOLEAN :
          \/ ParseConfiguration(ok) \/ InitServers(ok) \/ newCRDManager(ok)
          \/ InitClients(ok) \/ MakeManager(ok)
    \/ LoadConfigmap \/ RegistCallback \/ GoStart \/ WaitForCacheSync \/ Notify
    \/ WatchSignal

Manager ==
    \/ CachesSynced \/ Launch \/ RunnableFails \/ LeaseLost
    \/ Stop \/ StartReturns \/ GraceExpires

Next ==
    \/ DaemonMain
    \/ Manager
    \/ Goroutines
    \/ \E k \in Controllers : Event(k)
    \/ Signal \/ GopsExit \/ Crash \/ Restart

Spec == Init /\ [][Next]_vars

\* Goroutines run; caches are synced, or fail, in the end; a leader is
\* elected.
FairSpec ==
    /\ Spec
    /\ WF_vars(DaemonMain) /\ WF_vars(GopsExit) /\ WF_vars(Restart)
    /\ WF_vars(CachesSynced \/ Launch) /\ WF_vars(Stop)
    /\ WF_vars(StartReturns) /\ WF_vars(GraceExpires)
    /\ WF_vars(NodeWorker) /\ WF_vars(NsWorker) /\ WF_vars(SubnetWorker)
    /\ WF_vars(Handler)

-------------------------------------------------------------------------------
Calling(step) == step \in {"call", "walk", "nodes", "stuck"}

\* The handler of the nodes runs before the callbacks are registered, and
\* reads the list of them without a lock (node.go:75): it never does so while
\* the list is still being made (daemon.go:186-188).
CallbacksWired ==
    /\ TypeOK
    /\ Calling(hnd) \/ Calling(work["ns"]) => regs = Wired

\* A stop comes to a standstill only behind a send: the node worker in its
\* send to a full channel whose receiver has left or waits for a mutex
\* (node.go:81, 155), or a callback in its own (vpc.go:269, 277).  The two
\* mutexes, which the callback takes one inside the other, do not suffice.
OnlySendsStall ==
    Stalled => \/ work["node"] = "send" /\ ch = ChanCap
               \/ hnd = "stuck" \/ work["ns"] = "stuck"

\* A signal that the process has taken in stops the manager, by draining it
\* or by the end of the process (daemon.go:138-144).
SignalStops == sigCh ~> (mgr.pc = "returned" \/ pc = "dead")

\* DaemonMain comes to the point where it listens to signals, or the process
\* ends: no step of it waits for what only a later one brings about
\* (daemon.go:120-133).
StartupEnds == (pc = "parse") ~> (pc \in {"watch", "dead"})
===============================================================================
