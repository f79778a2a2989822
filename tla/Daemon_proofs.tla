---------------------------- MODULE Daemon_proofs ----------------------------
(***************************************************************************)
(* Proofs about Daemon, for every capacity of the channel and every bound  *)
(* on the work queues.                                                     *)
(***************************************************************************)
EXTENDS Daemon, Integers, SequenceTheorems, TLAPS

Early == {"parse", "config", "servers", "crd", "clients", "make", "dead"}
Late  == {"sync", "notify", "watch"}

Mgrs  == [pc : {"off", "caches", "synced", "running", "stopping", "returned"},
          err : BOOLEAN]

\* The list of registered callbacks is a prefix of the whole.
Names == {"pool", "node", "ns"}

Registered ==
    /\ regs \in Seq(Names) /\ Len(regs) <= 3
    /\ \A i \in 1 .. Len(regs) : regs[i] = Wired[i]

\* The steps of the workers.
WorkSteps == {"none", "idle", "send", "patch", "call", "walk", "nodes", "stuck",
              "lock", "done"}

Workers ==
    /\ work \in [Controllers -> WorkSteps]
    /\ work["node"] \in {"none", "idle", "send", "patch", "done"}
    /\ work["ns"] \in {"none", "idle", "call", "walk", "nodes", "stuck", "done"}
    /\ work["subnet"] \in {"none", "idle", "lock", "done"}

\* The types, with a worker for each controller.
ShapeInv ==
    /\ pc \in Early \union Late \union {"wire", "start"}
    /\ ids \in BOOLEAN /\ sigCh \in BOOLEAN
    /\ made \in 0 .. 5
    /\ Registered
    /\ ctx \in {"none", "live", "done"}
    /\ gops \in {"off", "listening", "signalled"}
    /\ mgr \in Mgrs
    /\ Workers
    /\ queue \in [Controllers -> 0 .. MaxQueue]
    /\ ch \in 0 .. ChanCap
    /\ hnd \in {"none", "select", "rlock", "call", "walk", "nodes", "stuck", "gone"}

\* How far DaemonMain is says what it has made, wired and started.
MainInv ==
    /\ pc \in Early => Len(regs) = 0 /\ made < 5
    /\ pc = "wire" => Len(regs) < 3
    /\ pc \in Late \union {"start"} => Len(regs) = 3
    /\ pc \in Late <=> mgr.pc # "off"
    /\ ctx = "done" => pc \in Late

\* Until the manager is started nothing comes to the handler or to a worker.
QuietInv ==
    mgr.pc = "off" => /\ \A k \in Controllers : work[k] = "none"
                      /\ ch = 0 /\ hnd \in {"none", "select"}

DaemonInv == ShapeInv /\ MainInv /\ QuietInv

-------------------------------------------------------------------------------
Begins ==
    /\ pc \in {"parse", "dead"}
    /\ Fresh(ids, made, regs, ctx, sigCh, gops, mgr, work, queue, ch, hnd)

LEMMA BeginsInv == Begins => DaemonInv
<1> SUFFICES ASSUME Begins PROVE DaemonInv
  OBVIOUS
<1> USE DaemonAssumption DEF Begins, Fresh
<1>1. /\ pc \in Early /\ pc \notin Late /\ pc \notin {"make", "wire", "start"}
  BY DEF Early, Late
<1>2. /\ Registered /\ Len(regs) = 0 /\ mgr \in Mgrs /\ mgr.pc = "off"
      /\ 0 \in 0 .. 5 /\ 0 \in 0 .. ChanCap /\ 0 \in 0 .. MaxQueue
  BY DEF Registered, Mgrs
<1>3. /\ Workers /\ \A k \in Controllers : work[k] = "none"
      /\ queue \in [Controllers -> 0 .. MaxQueue]
  BY <1>2 DEF Workers, WorkSteps, Controllers
<1>4. ShapeInv
  <2>1. ids \in BOOLEAN /\ sigCh \in BOOLEAN /\ made \in 0 .. 5 /\ ch \in 0 .. ChanCap
    BY <1>2
  <2>2. ctx \in {"none", "live", "done"} /\ hnd = "none" /\ gops = "off"
    OBVIOUS
  <2>3. QED
    BY <1>1, <1>2, <1>3, <2>1, <2>2 DEF ShapeInv
<1>5. QED
  BY <1>1, <1>2, <1>3, <1>4 DEF DaemonInv, MainInv, QuietInv

\* However the process ends, it begins anew.
LEMMA ExitStep == Exit => DaemonInv'
<1>1. Exit => Begins'
  BY DEF Exit, Begins, Fresh
<1>2. Begins' => DaemonInv'
  BY BeginsInv, PTL
<1>3. QED
  BY <1>1, <1>2

LEMMA MgrMoves ==
    ASSUME NEW m \in Mgrs,
           NEW q \in {"caches", "synced", "running", "stopping", "returned"}
    PROVE  [m EXCEPT !.pc = q] \in Mgrs /\ [m EXCEPT !.pc = q].pc = q
BY DEF Mgrs

LEMMA WiredNames == Wired \in Seq(Names) /\ Len(Wired) = 3 /\ \A i \in 1 .. 3 : Wired[i] \in Names
<1>1. Len(Wired) = 3 /\ Wired[1] = "pool" /\ Wired[2] = "node" /\ Wired[3] = "ns"
  BY DEF Wired
<1>2. Wired \in Seq(Names)
  BY DEF Wired, Names
<1>3. QED
  BY <1>1, <1>2 DEF Names

\* A registration adds the next name to the list.
LEMMA ListGrows ==
    ASSUME Registered, Len(regs) < 3, regs' = Append(regs, Wired[Len(regs) + 1])
    PROVE  Registered' /\ Len(regs') = Len(regs) + 1
<1> USE DEF Registered
<1>1. Len(regs) + 1 \in 1 .. 3 /\ Len(regs) \in Nat
  OBVIOUS
<1>2. Wired[Len(regs) + 1] \in Names
  BY <1>1, WiredNames
<1>3. regs' \in Seq(Names) /\ Len(regs') = Len(regs) + 1
  BY <1>2
<1>4. \A i \in 1 .. Len(regs') : regs'[i] = Wired[i]
  BY <1>1, <1>2
<1>5. QED
  BY <1>1, <1>3, <1>4

-------------------------------------------------------------------------------
(* DaemonMain.                                                             *)

LEMMA MainStep ==
    ASSUME DaemonInv, DaemonMain
    PROVE  DaemonInv'
<1> USE DEF DaemonInv
<1>1. ASSUME NEW ok \in BOOLEAN, ParseConfiguration(ok) \/ InitServers(ok) PROVE DaemonInv'
  <2>1. CASE Exit
    BY <2>1, ExitStep
  <2>2. CASE ~Exit
    <3>1. UNCHANGED <<made, regs, hnd, sigCh, mgr, work, queue, ch>>
      BY <1>1, <2>2 DEF ParseConfiguration, InitServers, others
    <3>2. /\ pc \in Early /\ pc' \in {"config", "crd"} /\ ids' \in BOOLEAN
          /\ ctx' \in {ctx, "live"} /\ gops' \in {gops, "off", "listening"}
      BY <1>1, <2>2 DEF ParseConfiguration, InitServers, others, Early, ShapeInv
    <3>3. mgr.pc = "off" /\ Len(regs) = 0 /\ ctx' \in {"none", "live"}
      BY <3>2 DEF ShapeInv, MainInv, Early, Late
    <3>4. ShapeInv'
      BY <3>1, <3>2, <3>3 DEF ShapeInv, Workers, Registered, Early
    <3>5. MainInv' /\ QuietInv'
      BY <3>1, <3>2, <3>3 DEF MainInv, QuietInv, Early, Late
    <3>6. QED
      BY <3>4, <3>5
  <2>3. QED
    BY <2>1, <2>2
<1>2. ASSUME NEW ok \in BOOLEAN, newCRDManager(ok) \/ InitClients(ok) PROVE DaemonInv'
  <2>1. CASE Exit
    BY <2>1, ExitStep
  <2>2. CASE ~Exit
    <3>1. UNCHANGED <<ids, made, regs, ctx, hnd, sigCh, gops, mgr, work, queue, ch>>
      BY <1>2, <2>2 DEF newCRDManager, InitClients, Proceed, others
    <3>2. pc \in {"crd", "clients"} /\ pc' \in {"clients", "make"}
      BY <1>2, <2>2 DEF newCRDManager, InitClients, Proceed
    <3>3. QED
      BY <3>1, <3>2 DEF ShapeInv, Workers, Registered, MainInv, QuietInv, Early, Late
  <2>3. QED
    BY <2>1, <2>2
<1>3. CASE LoadConfigmap \/ WaitForCacheSync \/ Notify \/ WatchSignal
  <2>1. UNCHANGED <<made, regs, gops, hnd, mgr, work, queue, ch>>
    BY <1>3 DEF LoadConfigmap, WaitForCacheSync, Notify, WatchSignal, others
  <2>2. /\ ids' \in BOOLEAN /\ sigCh' \in BOOLEAN
        /\ \/ pc = "config" /\ pc' = "servers" /\ ctx' = ctx
           \/ pc = "sync" /\ pc' = "notify" /\ ctx' = ctx
           \/ pc = "notify" /\ pc' = "watch" /\ ctx' = ctx
           \/ pc = "watch" /\ pc' = "watch" /\ ctx' = "done"
    BY <1>3 DEF LoadConfigmap, WaitForCacheSync, Notify, WatchSignal, others, ShapeInv
  <2>3. QED
    BY <2>1, <2>2 DEF ShapeInv, Workers, Registered, MainInv, QuietInv, Early, Late
<1>4. ASSUME NEW ok \in BOOLEAN, MakeManager(ok) PROVE DaemonInv'
  <2>1. CASE Exit
    BY <2>1, ExitStep
  <2>2. CASE ~Exit
    <3>1. UNCHANGED <<ids, regs, ctx, sigCh, gops, mgr, work, queue, ch>>
      BY <1>4, <2>2 DEF MakeManager, others
    <3>2. /\ pc = "make" /\ made' = made + 1
          /\ hnd' \in {hnd, "select"}
          /\ pc' = IF made' = Len(Services) THEN "wire" ELSE pc
      BY <1>4, <2>2 DEF MakeManager
    <3>3. Len(Services) = 5
      BY DEF Services
    <3>4. made \in 0 .. 4 /\ Len(regs) = 0 /\ mgr.pc = "off" /\ ctx # "done"
      BY <3>2 DEF ShapeInv, MainInv, Early, Late
    <3>5. made' \in 0 .. 5 /\ (pc' = "make" => made' < 5) /\ pc' \in {"make", "wire"}
      BY <3>2, <3>3, <3>4
    <3>6. QED
      BY <3>1, <3>2, <3>4, <3>5 DEF ShapeInv, Workers, Registered, MainInv, QuietInv, Early, Late
  <2>3. QED
    BY <2>1, <2>2
<1>5. CASE RegistCallback
  <2>1. UNCHANGED <<ids, made, ctx, hnd, sigCh, gops, mgr, work, queue, ch>>
    BY <1>5 DEF RegistCallback, others
  <2>2. pc = "wire" /\ Registered /\ Len(regs) < 3
    BY <1>5 DEF RegistCallback, ShapeInv, MainInv
  <2>3. Registered' /\ Len(regs') = Len(regs) + 1 /\ Len(regs) \in Nat
    BY <1>5, <2>2, ListGrows DEF RegistCallback, Registered
  <2>4. \/ pc' = "start" /\ Len(regs') = 3
        \/ pc' = "wire" /\ Len(regs') < 3
    BY <1>5, <2>2, <2>3, WiredNames DEF RegistCallback
  <2>5. QED
    BY <2>1, <2>2, <2>3, <2>4 DEF ShapeInv, Workers, Registered, MainInv, QuietInv, Early, Late
<1>6. CASE GoStart
  <2>1. /\ UNCHANGED <<ids, made, regs, ctx, hnd, sigCh, gops, work, queue, ch>>
        /\ pc = "start" /\ pc' = "sync" /\ mgr' = [mgr EXCEPT !.pc = "caches"]
    BY <1>6 DEF GoStart
  <2>2. mgr' \in Mgrs /\ mgr'.pc = "caches"
    BY <2>1, MgrMoves DEF ShapeInv
  <2>3. QED
    BY <2>1, <2>2 DEF ShapeInv, Workers, Registered, MainInv, QuietInv, Early, Late
<1>7. QED
  BY <1>1, <1>2, <1>3, <1>4, <1>5, <1>6 DEF DaemonMain

-------------------------------------------------------------------------------
(* mgr.Start, the workers and the handler.                                 *)

\* The start of the workers, whole or in part, and the names they find.
LEMMA Launches ==
    ASSUME Workers, queue \in [Controllers -> 0 .. MaxQueue],
           \/ UNCHANGED <<work, queue>>
           \/ work' = [k \in Controllers |-> "idle"] /\ queue' = queue
           \/ /\ work' \in [Controllers -> {"none", "idle"}]
              /\ queue' \in [Controllers -> 0 .. MaxQueue]
    PROVE  Workers' /\ queue' \in [Controllers -> 0 .. MaxQueue]
<1>1. CASE UNCHANGED <<work, queue>>
  BY <1>1 DEF Workers
<1>2. CASE work' = [k \in Controllers |-> "idle"] /\ queue' = queue
  BY <1>2 DEF Workers, WorkSteps, Controllers
<1>3. CASE /\ work' \in [Controllers -> {"none", "idle"}]
           /\ queue' \in [Controllers -> 0 .. MaxQueue]
  BY <1>3 DEF Workers, WorkSteps, Controllers
<1>4. QED
  BY <1>1, <1>2, <1>3

LEMMA ManagerStep ==
    ASSUME DaemonInv, Manager
    PROVE  DaemonInv'
<1> USE DEF DaemonInv
<1>1. CASE Exit
  BY <1>1, ExitStep
<1>2. CASE ~Exit
  <2>0. CachesSynced \/ Launch \/ RunnableFails \/ Stop \/ StartReturns \/ GraceExpires
    BY <1>2 DEF Manager, LeaseLost
  <2>1. UNCHANGED <<pc, ids, made, regs, ctx, sigCh, gops, ch, hnd>>
    BY <1>2, <2>0 DEF CachesSynced, Launch, RunnableFails, Stop, Engage, StartReturns,
       GraceExpires, main
  <2>2. mgr.pc # "off" /\ mgr' \in Mgrs /\ mgr'.pc # "off"
    <3>1. mgr \in Mgrs
      BY DEF ShapeInv
    <3>2. CASE CachesSynced \/ Launch
      BY <3>1, <3>2, MgrMoves DEF CachesSynced, Launch
    <3>3. CASE RunnableFails \/ Stop
      <4>1. /\ [pc |-> "stopping", err |-> TRUE] \in Mgrs
            /\ [pc |-> "stopping", err |-> FALSE] \in Mgrs
        BY DEF Mgrs
      <4>2. \/ mgr' = [pc |-> "stopping", err |-> TRUE]
            \/ mgr' = [pc |-> "stopping", err |-> FALSE]
        BY <3>3 DEF RunnableFails, Stop, Engage
      <4>3. mgr' \in Mgrs
        BY <4>1, <4>2
      <4>4. mgr'.pc = "stopping"
        BY <4>2
      <4>5. mgr.pc # "off"
        BY <3>3 DEF RunnableFails, Stop
      <4>6. QED
        BY <4>3, <4>4, <4>5
    <3>4. CASE StartReturns \/ GraceExpires
      BY <1>2, <3>1, <3>4, MgrMoves DEF StartReturns, GraceExpires, Stalled
    <3>5. QED
      BY <2>0, <3>2, <3>3, <3>4
  <2>3. \/ UNCHANGED <<work, queue>>
        \/ work' = [k \in Controllers |-> "idle"] /\ queue' = queue
        \/ /\ work' \in [Controllers -> {"none", "idle"}]
           /\ queue' \in [Controllers -> 0 .. MaxQueue]
    BY <1>2, <2>0 DEF CachesSynced, Launch, RunnableFails, Stop, Engage, StartReturns,
       GraceExpires
  <2>4. Workers' /\ queue' \in [Controllers -> 0 .. MaxQueue]
    BY <2>3, Launches DEF ShapeInv
  <2>5. QED
    BY <2>1, <2>2, <2>4 DEF ShapeInv, Workers, Registered, MainInv, QuietInv
<1>3. QED
  BY <1>1, <1>2

\* A worker goes to one of its own steps.
LEMMA WorkMoves ==
    ASSUME Workers,
           \/ \E q \in {"idle", "send", "patch", "done"} : Goto("node", q)
           \/ \E q \in {"idle", "call", "walk", "nodes", "stuck", "done"} : Goto("ns", q)
           \/ \E q \in {"idle", "lock", "done"} : Goto("subnet", q)
    PROVE  Workers'
<1>1. ASSUME NEW q \in {"idle", "send", "patch", "done"}, Goto("node", q) PROVE Workers'
  BY <1>1 DEF Goto, Workers, WorkSteps, Controllers
<1>2. ASSUME NEW q \in {"idle", "call", "walk", "nodes", "stuck", "done"}, Goto("ns", q)
      PROVE  Workers'
  BY <1>2 DEF Goto, Workers, WorkSteps, Controllers
<1>3. ASSUME NEW q \in {"idle", "lock", "done"}, Goto("subnet", q) PROVE Workers'
  BY <1>3 DEF Goto, Workers, WorkSteps, Controllers
<1>4. QED
  BY <1>1, <1>2, <1>3

\* A goroutine that moves is one that the start of the manager has woken.
LEMMA WorkerStep ==
    ASSUME DaemonInv, NodeWorker \/ NsWorker \/ SubnetWorker
    PROVE  DaemonInv'
<1> USE DaemonAssumption DEF DaemonInv
<1>1. UNCHANGED <<pc, ids, made, regs, ctx, sigCh, gops, mgr, hnd>>
  BY DEF NodeWorker, NsWorker, SubnetWorker, Take, NodeSend, Quit, NodeReturn,
     NsCallback, SubnetReturn, main
<1>2. mgr.pc # "off"
  <2>1. \E k \in Controllers : work[k] # "none"
    BY DEF NodeWorker, NsWorker, SubnetWorker, Take, NodeSend, Quit, NodeReturn,
       NsCallback, Callback, SubnetReturn, CanSend, CanLock, Controllers
  <2>2. QED
    BY <2>1 DEF QuietInv
<1>3. Workers'
  <2>0. Workers
    BY DEF ShapeInv
  <2>1. CASE NodeWorker
    <3>1. \E q \in {"idle", "send", "patch", "done"} : Goto("node", q)
      BY <2>1 DEF NodeWorker, Take, NodeSend, Quit, NodeReturn
    <3>2. QED
      BY <2>0, <3>1, WorkMoves
  <2>2. CASE NsWorker
    <3>1. \E q \in {"idle", "call", "walk", "nodes", "stuck", "done"} : Goto("ns", q)
      BY <2>2 DEF NsWorker, Take, NsCallback, Quit
    <3>2. QED
      BY <2>0, <3>1, WorkMoves
  <2>3. CASE SubnetWorker
    <3>1. \E q \in {"idle", "lock", "done"} : Goto("subnet", q)
      BY <2>3 DEF SubnetWorker, Take, SubnetReturn, Quit
    <3>2. QED
      BY <2>0, <3>1, WorkMoves
  <2>4. QED
    BY <2>1, <2>2, <2>3
<1>4. queue' \in [Controllers -> 0 .. MaxQueue] /\ ch' \in 0 .. ChanCap
  <2>0. queue \in [Controllers -> 0 .. MaxQueue] /\ ch \in 0 .. ChanCap
    BY DEF ShapeInv
  <2>1. CASE NodeWorker
    BY <2>0, <2>1 DEF NodeWorker, Take, NodeSend, CanSend, Quit, NodeReturn, Controllers
  <2>2. CASE NsWorker
    BY <2>0, <2>2 DEF NsWorker, Take, NsCallback, Quit, Controllers
  <2>3. CASE SubnetWorker
    BY <2>0, <2>3 DEF SubnetWorker, Take, SubnetReturn, Quit, Controllers
  <2>4. QED
    BY <2>1, <2>2, <2>3
<1>5. QED
  BY <1>1, <1>2, <1>3, <1>4 DEF ShapeInv, Workers, Registered, MainInv, QuietInv

LEMMA HandlerStep ==
    ASSUME DaemonInv, Handler
    PROVE  DaemonInv'
<1> USE DaemonAssumption DEF DaemonInv
<1>1. UNCHANGED <<pc, ids, made, regs, ctx, sigCh, gops, mgr, work, queue>>
  BY DEF Handler, HandlerReceive, HandlerCalls, HandlerCallback, HandlerDone, main
<1>2. mgr.pc # "off"
  <2>1. ch > 0 \/ hnd \notin {"none", "select"} \/ ctx = "done"
    BY DEF Handler, HandlerReceive, HandlerCalls, HandlerCallback, Callback, HandlerDone
  <2>2. QED
    BY <2>1 DEF QuietInv, MainInv
<1>3. /\ ch' \in 0 .. ChanCap
      /\ hnd' \in {"none", "select", "rlock", "call", "walk", "nodes", "stuck", "gone"}
  BY DEF Handler, HandlerReceive, HandlerCalls, HandlerCallback, HandlerDone, ShapeInv
<1>4. QED
  BY <1>1, <1>2, <1>3 DEF ShapeInv, Workers, Registered, MainInv, QuietInv

LEMMA DaemonStep == DaemonInv /\ [Next]_vars => DaemonInv'
<1> SUFFICES ASSUME DaemonInv, [Next]_vars PROVE DaemonInv'
  OBVIOUS
<1>1. CASE DaemonMain
  BY <1>1, MainStep
<1>2. CASE Manager
  BY <1>2, ManagerStep
<1>3. CASE Goroutines
  BY <1>3, WorkerStep, HandlerStep DEF Goroutines
<1>4. ASSUME NEW k \in Controllers, Event(k) PROVE DaemonInv'
  <2>1. UNCHANGED <<pc, ids, made, regs, ctx, sigCh, gops, mgr, work, ch, hnd>>
    BY <1>4 DEF Event, main
  <2>2. queue' \in [Controllers -> 0 .. MaxQueue]
    BY <1>4, DaemonAssumption DEF Event, DaemonInv, ShapeInv
  <2>3. QED
    BY <2>1, <2>2 DEF DaemonInv, ShapeInv, Workers, Registered, MainInv, QuietInv
<1>5. CASE Signal
  <2>1. CASE Exit
    BY <2>1, ExitStep
  <2>2. CASE ~Exit
    BY <1>5, <2>2 DEF Signal, DaemonInv, ShapeInv, Workers, Registered, MainInv, QuietInv
  <2>3. QED
    BY <2>1, <2>2
<1>6. CASE Crash \/ GopsExit
  BY <1>6, ExitStep DEF Crash, GopsExit
<1>7. CASE Restart
  BY <1>7 DEF Restart, DaemonInv, ShapeInv, Workers, Registered, MainInv, QuietInv, Early, Late
<1>8. CASE UNCHANGED vars
  BY <1>8 DEF vars, DaemonInv, ShapeInv, Workers, Registered, MainInv, QuietInv
<1>9. QED
  BY <1>1, <1>2, <1>3, <1>4, <1>5, <1>6, <1>7, <1>8 DEF Next

\* The inductive invariant of the process.
THEOREM DaemonCorrect == Spec => []DaemonInv
<1>1. Init => DaemonInv
  BY BeginsInv DEF Init, Begins
<1>2. QED
  BY <1>1, DaemonStep, PTL DEF Spec

LEMMA ListIsPrefix ==
    ASSUME Registered
    PROVE  /\ Len(regs) \in 0 .. 3 /\ regs = SubSeq(Wired, 1, Len(regs))
           /\ Len(regs) = 3 => regs = Wired
<1>1. regs \in Seq(Names) /\ Len(regs) \in 0 .. 3
  <2>1. regs \in Seq(Names) /\ Len(regs) \in Nat /\ Len(regs) <= 3
    BY DEF Registered
  <2>2. \A n \in Nat : n <= 3 => n \in 0 .. 3
    OBVIOUS
  <2>3. QED
    BY <2>1, <2>2, Zenon
<1>2. \A i \in 1 .. Len(regs) : Wired[i] \in Names
  <2>1. \A n \in 0 .. 3 : \A i \in 1 .. n : i \in 1 .. 3
    OBVIOUS
  <2>2. QED
    BY <1>1, <2>1, WiredNames, Zenon
<1>3. /\ SubSeq(Wired, 1, Len(regs)) \in Seq(Names)
      /\ Len(SubSeq(Wired, 1, Len(regs))) =
            IF 1 <= Len(regs) THEN Len(regs) - 1 + 1 ELSE 0
      /\ \A i \in 1 .. Len(regs) - 1 + 1 :
            SubSeq(Wired, 1, Len(regs))[i] = Wired[1 + i - 1]
  <2>1. Len(regs) \in Int /\ 1 \in Int
    BY <1>1
  <2>2. QED
    BY <1>2, <2>1, SubSeqProperties
<1>4. /\ Len(SubSeq(Wired, 1, Len(regs))) = Len(regs)
      /\ \A i \in 1 .. Len(regs) : SubSeq(Wired, 1, Len(regs))[i] = regs[i]
  BY <1>1, <1>3 DEF Registered
<1>5. regs = SubSeq(Wired, 1, Len(regs))
  BY <1>1, <1>3, <1>4, SeqEqual
<1>6. ASSUME Len(regs) = 3 PROVE regs = Wired
  <2>1. Len(regs) = Len(Wired) /\ Wired \in Seq(Names)
    BY <1>6, WiredNames
  <2>2. \A i \in 1 .. Len(regs) : regs[i] = Wired[i]
    BY DEF Registered
  <2>3. QED
    BY <1>1, <2>1, <2>2, SeqEqual
<1>7. QED
  BY <1>1, <1>5, <1>6

\* The handler goroutine, which node.NewManager starts long before the
\* callbacks are registered, and the namespace worker go through the list of
\* callbacks only when it is complete (daemon.go:186-188).
THEOREM WiredBeforeUse == Spec => []CallbacksWired
<1>1. DaemonInv => CallbacksWired
  <2> SUFFICES ASSUME DaemonInv PROVE CallbacksWired
    OBVIOUS
  <2>1. TypeOK
    <3>1. Len(Services) = 5
      BY DEF Services
    <3>2. \E n \in 0 .. Len(Wired) : regs = SubSeq(Wired, 1, n)
      <4>1. Registered
        BY DEF DaemonInv, ShapeInv
      <4>2. Len(regs) \in 0 .. Len(Wired)
        BY <4>1, ListIsPrefix, WiredNames, Zenon
      <4>3. QED
        BY <4>1, <4>2, ListIsPrefix
    <3>3. QED
      BY <3>1, <3>2 DEF DaemonInv, ShapeInv, TypeOK, Workers, Early, Late, Mgrs
  <2>2. ASSUME Calling(hnd) \/ Calling(work["ns"]) PROVE regs = Wired
    <3>1. mgr.pc # "off"
      BY <2>2 DEF DaemonInv, QuietInv, Calling, Controllers
    <3>2. QED
      BY <3>1, ListIsPrefix DEF DaemonInv, ShapeInv, MainInv
  <2>3. QED
    BY <2>1, <2>2 DEF CallbacksWired
<1>2. QED
  BY <1>1, DaemonCorrect, PTL

-------------------------------------------------------------------------------
(* The stop.                                                               *)

\* CanRun is as weak as the goroutines need it: none of them moves without.
LEMMA MovesCanRun ==
    ASSUME DaemonInv, Goroutines
    PROVE  CanRun
<1>1. CASE NodeWorker \/ NsWorker \/ SubnetWorker
  BY <1>1, DaemonAssumption DEF NodeWorker, NsWorker, SubnetWorker, Take, NodeSend, Quit,
     NodeReturn, NsCallback, Callback, SubnetReturn, CanRun, Controllers
<1>2. CASE Handler
  BY <1>2 DEF Handler, HandlerReceive, HandlerCalls, HandlerCallback, Callback,
     HandlerDone, CanRun
<1>3. QED
  BY <1>1, <1>2 DEF Goroutines

\* What OnlySendsStall names.
InSend ==
    \/ work["node"] = "send" /\ ch = ChanCap
    \/ hnd = "stuck" \/ work["ns"] = "stuck"

\* A callback waits for the mutex of the nodes behind the send of their worker.
LEMMA SelectedWaits ==
    ASSUME DaemonInv, ~CanRun, NEW step \in {hnd, work["ns"]}, step = "nodes"
    PROVE  InSend
<1>1. ch \in 0 .. ChanCap /\ NodeLocked
  BY DEF DaemonInv, ShapeInv, CanRun
<1>2. work["node"] = "send" /\ ~(ch < ChanCap)
  BY <1>1 DEF NodeLocked, CanRun, CanSend
<1>3. QED
  BY <1>1, <1>2, DaemonAssumption DEF InSend

\* Behind a writer that waits for the mutex of the subnets there is a reader
\* that goes on, one that is in its send, or one that waits behind a send.
LEMMA WriterWaits ==
    ASSUME DaemonInv, work["subnet"] = "lock", ~CanRun
    PROVE  InSend
<1>1. PICK step \in {hnd, work["ns"]} : step \in {"walk", "nodes", "stuck"}
  BY DEF CanRun, CanLock
<1>2. step # "walk"
  BY DEF CanRun
<1>3. CASE step = "nodes"
  BY <1>3, SelectedWaits
<1>4. CASE step = "stuck"
  BY <1>4 DEF InSend
<1>5. QED
  BY <1>1, <1>2, <1>3, <1>4

LEMMA StallsBehindSend == DaemonInv => OnlySendsStall
<1> SUFFICES ASSUME DaemonInv, Stalled PROVE InSend
  BY DEF OnlySendsStall, InSend
<1>1. Workers /\ ch \in 0 .. ChanCap /\ ~CanRun
  BY DEF DaemonInv, ShapeInv, Stalled
<1>2. PICK k \in Controllers : work[k] \notin {"none", "done"}
  BY DEF Stalled, Drained
<1>3. work[k] # "idle"
  BY <1>2 DEF Stalled, CanRun
<1>4. CASE k = "node"
  <2>1. work["node"] = "send"
    BY <1>1, <1>2, <1>3, <1>4 DEF Workers, CanRun
  <2>2. ~(ch < ChanCap)
    BY <1>1, <2>1 DEF CanRun, CanSend
  <2>3. QED
    BY <1>1, <2>1, <2>2, DaemonAssumption DEF InSend
<1>5. CASE k = "ns"
  <2>1. work["ns"] \in {"stuck", "nodes"} \/ work["subnet"] = "lock"
    BY <1>1, <1>2, <1>3, <1>5 DEF Workers, CanRun
  <2>2. QED
    BY <1>1, <2>1, WriterWaits, SelectedWaits DEF InSend
<1>6. CASE k = "subnet"
  <2>1. work["subnet"] = "lock"
    BY <1>1, <1>2, <1>3, <1>6 DEF Workers
  <2>2. QED
    BY <1>1, <2>1, WriterWaits
<1>7. QED
  BY <1>2, <1>4, <1>5, <1>6 DEF Controllers

\* When mgr.Start waits for its workers and no goroutine can go on, it is a
\* send that holds them up: that of the node worker into the full channel
\* (node.go:155), or that of a callback (vpc.go:269, 277).  A callback that
\* waits for the mutex of the nodes with that of the subnets held
\* (vpc.go:268), and the writer behind it, wait for no more than such a send.
THEOREM StopWaitsForSends == Spec => []OnlySendsStall
BY DaemonCorrect, StallsBehindSend, PTL

\* A stop that has stalled is over: no worker and no handler moves from there,
\* so what the grace period ends is nothing that was still going on.
THEOREM NothingRunsOn == Spec => [][Stalled => ~Goroutines]_vars
<1>1. DaemonInv /\ [Next]_vars => [Stalled => ~Goroutines]_vars
  BY MovesCanRun DEF Stalled
<1>2. QED
  BY <1>1, DaemonCorrect, PTL DEF Spec
===============================================================================
