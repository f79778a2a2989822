# A verification of enipam's controller

TLA+ models of the eni-controller (Go, `src/pkg`, `src/cmd`), TLC runs that
check them on small instances, and TLAPS proofs for every value of the
constants.  `PROJECT.json` lists the runs, the mutants that show each property
can fail, the map from definitions to source lines, the findings, the hazards
and the theorems.

## The system

The eni-controller is one process of several controller-runtime workers and
goroutines.  It follows Kubernetes objects and is meant to keep network
interfaces of virtual machines, and IP pools on them, in step with `Subnet`
objects.

| component | state | operations | interacts with |
|---|---|---|---|
| node controller (`pkg/node`) | map of `NodeInfo`, mutex, channel of 16 names | `Reconcile`, `handlerCallback`, `CouldRemove`, `EachNode`, `GetNode` | Node objects (finalizer); pool controller; callback of the vpc manager |
| pool controller (`pkg/ippool/spiderpool`) | map of `Pool`, mutex | `Reconcile`, `EachPool`, `UpdatePool` | SpiderIPPool objects; asked by the node and vpc managers |
| vpc manager (`pkg/vpc/vpc.go`) | map of `Sninfo`, mutex, channel | `Start`, `Reconcile`, `callback`, `getSubnatEvent`, `calPoolEvent`, `processWork` | Subnet objects; walks nodes and pools; infra operations |
| infra operations (`pkg/vpc/infraops.go`, `pkg/infra`) | wait groups, goroutine pools | `processSubnatWork`, `UpdatePort`, ... | OpenStack API |
| namespace controller (`pkg/namespace`) | none | `Reconcile` | callback of the vpc manager |
| lock primitives (`pkg/lock`) | | `RWMutex`, `StoppableWaitGroup`, `SemaphoredMutex`, `Lockfile` | |
| utilities (`pkg/util`) | | `Trigger`, `List`, `MultiQueue`, `Allocat`, `Backoff` | |
| daemon (`cmd/eni-controller`) | configuration, context, manager | `ParseConfiguration`, `LoadConfigmap`, `DaemonMain`, `initControllerServiceManagers`, `WatchSignal` | makes, wires and starts all of the above; stops them on a signal |

What is hard in it:

* Workers act on cached objects that lag, and patch objects that have changed
  since.  A node may be deleted and registered again under its name meanwhile.
* Callbacks run under read locks of one manager and take those of another; a
  send to a channel is made with a mutex locked.
* A stop asks every worker to come back, while the goroutine that receives from
  one of them has left already.
* The process dies (several code paths panic) and loses its maps, while the
  finalizers it has set remain.
* The primitives of `pkg/lock` and `pkg/util` are lock-free in part and rely on
  the order of a flag, a counter and a channel.

What makes each component correct: a live node keeps its finalizer and a
deleting one is released once its pools are gone; the callback hears of every
node; no version of a Subnet is lost; `Wait` waits for everybody; a writer is
alone and nobody starves; no call of `Trigger` is lost; a lock that was granted
stays until it is given back.

## Modules

| module | models | remarks |
|---|---|---|
| `RWMutex` | `lock.RWMutex` | operators on a record: announcing a writer, entering, and readers that wait behind it |
| `NodeController` | `pkg/node` with the API server, the watch and the work queue | |
| `PoolController` | `pkg/ippool/spiderpool` | instantiated by `NodePools` |
| `NodePools` | both in one process | `CouldRemove` reads the pool map; a panic of the pool worker ends the process |
| `VpcManager` | `pkg/vpc/vpc.go`, `pkg/namespace` | |
| `Managers` | the node controller, the namespace controller and the vpc manager in one process | extends `VpcManager` and implements it |
| `Daemon` | `cmd/eni-controller`: start-up, wiring, signals, stop | |
| `InfraOps` | `pkg/vpc/infraops.go` and the asynchronous part of `pkg/infra/openstack.go` | |
| `StoppableWaitGroup`, `SemaphoredMutex`, `Lockfile` | `pkg/lock` | |
| `Trigger` | `pkg/util/trigger.go` | |
| `LinkedList` | `pkg/util/queue.go` on a heap of cells | implements `AbstractList` |
| `ListCalls`, `AbstractList` | the calls on a `List`; what the comments of `queue.go` promise | implemented by `LinkedList` |
| `MCVpcManager`, `MCManagers`, `MCInfraOps` | instances for TLC | the specs of Subnets, and a history of them; ports and events |
| `NodeController_proofs`, `VpcManager_proofs`, `Daemon_proofs`, `InfraOps_proofs`, `StoppableWaitGroup_proofs`, `SemaphoredMutex_proofs`, `Lockfile_proofs`, `Util_proofs` | the theorems | the first also has those of `NodePools`, the second those of `Managers` and `MCVpcManager` |

Operators named as mutants in a comment are used by no specification; they are
the altered definitions under which a run's property fails.

### NodeController

`apiNode` is the truth, `watch` the versions on their way, `cacheNode` what the
worker reads.  The worker (`rec`) goes `idle` - `lock` - `wait` (Get done, Lock
announced) - `remove` or `send` - `patch`; the steps between the Lock and the
first call that can wait are one action (`ReconcileRecord`).  `Recorded` is what
Reconcile writes into the entry: `deleted`, for ever.  The handler (`hnd`) goes
`idle` - `rlock` - `copy` - `callback`, and from the callback any number of times
through `EachNode` (`enter`, `each`).  The callback may also never return
(`CallbackBlocks`, `stuck`): the one that is registered, that of the vpc manager,
stays in its send to a nil channel as soon as it selects a subnet, which
`VpcManager` shows.  A patch of finalizers is the JSON merge patch the code sends:
it replaces the list of the object that is there by the one computed from the
object that was read.  The process may die at any step, any number of times.

The field `unguarded` of an entry is history: the object that got the entry
flagged `deleted` did not carry the controller's finalizer.  It bounds the one way
in which a live node can lose its guard.  Somebody else's finalizer alone holds a
deleting node; Reconcile flags its name; the node goes and its successor is
registered; a patch computed from a guarded, cached copy of the predecessor puts
the predecessor's list on the successor; and since the name is flagged, the next
event strips it.  `FlaggedGuardedIsDeleting` and `NeverStripLive` except names
flagged from such an object and nothing else.

Left out: addresses and `NodeId` of nodes, which only go into events that are never
sent, `GetNode` (a read), and more than one reconcile worker (controller-runtime's
default is one).

### NodePools

`PoolController`'s worker enters a pool into the map and panics in the same
critical section (`CapIp.Add` of a slice); another goroutine may read the map
before the process ends, so the panic is a state of its own.  A request is one
step (`PoolDrop`, `PoolSkip`, `PoolInsert`): it waits for nobody between the Get and
its critical section, and reads nothing else.  `MainId` of an
entry is never set, hence `UpdatePool` refuses every deletion and `CouldRemove`
says no for a node with an entry.  The steps of the node controller are those of
`NodeController`, with the answer of `CouldRemove` no longer open, and so is the
fairness: a release is only asked for when `CouldRemove` says yes.  An entry that
lived on would hold its node for ever; `ReleasedDespitePools` says that none does,
and fails if the panic is recovered from.

### InfraOps

A worker's record has its phase, the requests still to make (`todo`), the wait
group `wg` and a ghost `lost`, the number of callbacks that will never come.
`Issue` is `wg.Add` with the call of the client, which submits tasks to a pool
that refuses them when it is full (`Free` is the room that is left).  `RemoveNode`
adds one for every port and every pair to remove, and the pool takes as many of
the detachments as it has room for, whichever come first.  A task begins (`Begin`) by making the API
call or joining the one under way for its key, and `Land` is the return of that
call to everybody who shares it.  The wait and the list that follows it are one
step, as nobody else can add to the wait group in between.  `EachInterface` returns from its loop at the first port of a page,
hence any subset of the ports.  What a port is attached to is not kept: nothing
in the code reads it back.  The key of a creation is name and number in one
string (`openstack.go:488`), in the model a tuple: names of pods' ports end in ids
of one length, and a node never asks for more than one port, so equal strings have
equal parts.

Which requests call back follows the client: `UpdatePort`, detachment and
unassignment never do when they are not to wait; `attachPort` converts the result
to `ports.CreateResult`, which it is not, and panics before the callback;
`assignPort` panics before it if the API failed.  So a worker whose event creates
or removes anything, or that finds a port to attach, waits for ever, although the
code says "wait create done" (`infraops.go:120`).  `CreatorsNeverList` states what this
means: whoever lists, attaches, assigns or removes has asked for no port.  After `WorkerNumber` of them no
event is handled and the channel drops what comes after 128.  And if two workers
assign to one interface at once, the second is called back though its pairs were
never sent.  `HandleSubnatEvent` has no caller at this commit; the events of the
model have the shape that `getSubnatEvent` and the types of `config.go` give them.

### LinkedList

`first`, `last`, `size` and the two functions `val` and `next` are the list and
its elements.  The loops that build a chain of new elements are the operators
`Filled` and `Linked`, on cells that the list does not reach (`Fresh`); the one that
looks for an index is `Walk`.  The refinement
maps the chain to the sequence of its values and keeps the call and its result,
so the abstract list has to agree with every call on its arguments.  Lists of
three cells have a first, a middle and a last one, which is what the cases of the
code tell apart.

### VpcManager

`Reconcile` acts on the copy it read before it waited for the mutex; a failed
Get is not retried (`lost` remembers such names).  A selector is the list of the
spec, or that of the status if the spec has none.  `callback` computes an event
for each selected subnet: it panics if the subnet lists a known node
(`hashset.New` of a slice), and else blocks in the send to the nil channel.
`processWork` receives nothing, ever, and the subnet's pools are empty, so their
parts of `getSubnatEvent` are not in the model.  The cache is taken to be
current; what the callbacks hear of (nodes, namespaces) is left open.

The selectors of an entry only grow, and the entry outlives its object, so old
selectors stay: a node taken out of a Subnet is still selected.  What bounds them
is `SelectsOnlyAsked`, over a history variable of `MCVpcManager` (`asked`, the
specs each name has had while the process runs): nothing is selected that no
complete version asked for, also when a name is deleted and created anew between
a Get and the recording of what it read.

### Managers

Here the nodes that the vpc manager walks come from the node controller, and both
mutexes are there.  Of the node controller there is what others can wait for: the
worker (`nrec`) locks the mutex, enters the node, sends its name with the mutex
locked, and unlocks; the handler (`hnd`) receives, copies under the read lock, and
calls the callback.  The callback holds the mutex of the subnets for reading and
takes that of the nodes for each subnet it selects (`visit`).  Which requests come
and which nodes are deleting is left open, so is what the patches do.

The composition has two standstills.  One is that of `node_wedge`.  The other
needs four: the node worker in its send to the full channel with the node mutex
locked; a namespace callback inside the mutex of the subnets, waiting for that of
the nodes; the Subnet worker waiting to write; and the handler, the only one who
could empty the channel, waiting behind that writer.  `OnlySendsBlock` says that
every standstill has one of the two sends in it: without them the two mutexes,
which are always taken in one order, stop nobody.  `ImplementsVpcManager` is the
refinement: each step is a step of `VpcManager` or leaves its variables alone, so
`SettledIsCovered` and the other safety properties hold here too.

### Daemon

`pc` goes through `DaemonMain` in its order, with the exits of `klog.Fatal`:
configuration, servers, manager, clients, the five constructors, the three
registrations, the start of the manager in a goroutine, the wait for the cache,
the subscription to signals, and the loop of `WatchSignal`, which the process
never leaves: after a clean stop it lingers until it is killed.  The file of
`LoadConfigmap` can empty the ids that `ParseConfiguration` required; the vpc
manager's constructor refuses them then.

Unless its port is set to nothing, the agent of gops listens to the same signals
and exits on its own (`GopsExit`), before, during or after the stop that
`WatchSignal` begins; both cases are in the model.

`mgr` is `Start` of controller-runtime's manager as the vendored version has it:
on the end of the context, or the error of a runnable, work queues are shut
down, which hand out what they have and take nothing more; `Start` returns when
all workers have, or with an error when the grace period is over, and the error
ends the process.  A stop of a manager that has not launched its workers launches
them first (`Engage`), since `StopAndWait` starts a group that was not started; a
lost lease ends the process without a grace period (`LeaseLost`).  On the error of a runnable `InnerCtx` is not cancelled, so the
handler goes on; on a signal the handler leaves at once while the worker drains
its queue, so that more names than the channel has room for stop the drain.
The grace period is taken to be long enough for whatever can go on: it ends only
when nothing that a stop waits for can go on (`Stalled`).  The mutexes are those
of `Managers` with the waits that cannot last folded into the step after them.  A
callback holds that of the subnets while it walks (`walk`); if it selects one it
waits for the mutex of the nodes inside (`nodes`), and then stays in its send.
The command `shutdown` does nothing.

## Runs

| run | question | bounds |
|---|---|---|
| `node_live` | nil nodes, live nodes stripped of their finalizer; announcements, guards and releases happen | 1 node, 1 instance, 1 foreign finalizer, channel 1, lag 1 |
| `node_wedge` (violation) | every announcement is heard | channel 1 |
| `pools_main` | a pool in the map holds its node back for ever | 1 node, 1 instance, 1 pool, channel 1, lag 1 |
| `vpc_main` | lost versions, selectors nobody asked for, registration | 1 subnet, 1 node, 1 namespace, 3 specs |
| `managers_main` | what can stop the workers; the composition implements the vpc manager | 1 subnet, 1 node, 1 namespace, 2 specs, channel 1 |
| `daemon_main` | order of start-up and wiring; a signal stops the process | channel 1, work queues of 2 |
| `waitgroup_main` | `Wait`, used in any way and with all `Add`s first | 3 goroutines and the stopper |
| `trigger_main` | lost calls, interval | 2 callers, interval of 2 ticks |
| `semaphored_main` | exclusion, lost wake-ups, starvation | 4 threads, 3 tokens: one thread more than readers allowed |
| `infra_main` | waits, callbacks and shared calls of the infra operations | 2 workers, 2 events, pools of 2 goroutines, channel 1, 1 node, 2 main interfaces |
| `list_main` | the linked list implements a sequence | 3 values, lists of up to 3, up to 2 values in a call, indices from -1 to 4 |
| `lockfile_main` | locks that are lost, late locks of cancelled calls | 2 Lockfiles, 2 cancelled calls of each at a time |

Why these are enough to be interesting: the entries of the node map do not
influence each other but through the channel, the mutex and the worker, so one
node with deletions and registrations under the same name and a cache that lags
shows the races of Reconcile with itself over time; the theorems cover any number
of nodes, any lag and any capacity.  In `managers_main` one subnet is enough for
a standstill, as every callback and the worker meet at one mutex; a second subnet
would only repeat the walk.  In `daemon_main` a queue of two and a channel of one
leave a name over when the handler has gone.  In `lockfile_main` two cancelled
calls of one Lockfile can ask for different locks.  `pools_main` has no foreign
finalizers: what they do to the release of a node is in `node_live`, and with one
the same property holds, in 1.9 million states and eleven minutes.  Bounds on
lag, queues and late calls are in the guards (`MaxLag`, `MaxQueue`, `MaxLate`); the
number of crashes, and that of the calls that `Trigger` folds, is not bounded.

Fairness: goroutines that can run do (weak); the work queue hands out every
name and a patch retried again and again gets through (strong); kubelets report
the status of each node every few seconds and the cache resyncs, so events of an
existing node keep coming (`Heartbeat`); the callback of the node controller walks
the nodes once for each subnet, so it comes back or blocks for good, and nothing is
assumed of which; a process that died is restarted, and one that panicked dies.
Where the answer of `CouldRemove` is open (`node_live`) it is not no for ever; where
it is not (`pools_main`) nothing is assumed of it.  Every
call of the OpenStack API returns, at the latest at the timeout of the client.
`Managers` asks for no more than that each of its four goroutines runs when it
can, and `Daemon` for the same of its own, that the caches are synced (or fail,
or the process is killed), that a leader is elected in the end and that the agent
of gops exits once it has the signal.  For the locks:
who holds one lets go.

What the violation shows, in short (quote and line in `PROJECT.json`): the send
under the mutex can deadlock with the handler.

A deleting node can be released while a pool of it exists that the pool worker
has not taken into its map; the comment of `Reconcile` (`node.go:105`) accepts it.

`NewManager` of the vpc manager never makes its channel, so a callback that has an
event to send stays in the send for ever, with the read lock of the subnets held,
and with it in the end the Subnet worker and every other callback, although the
comment of `Reconcile` promises "2 vpcEvent trigger" (`vpc.go:137`).
`OnlySendsBlock`, `OnlySendsStall` and `SubnetsRegistered` except it by name.  For the
node controller it means a handler that is lost in its callback (`HandlerLost`): names
stay in the channel, and once it is full Reconcile stays in its send with the mutex
locked (`Wedged`), as in the violation.  `AnnouncementsDelivered` excepts both, the
other liveness properties only `Wedged`: a lost handler does no harm before the
channel is full.

More disagreements are written into the preconditions of properties instead of
runs of their own.  The flag `deleted` of an entry outlives the node: a live node
registered under the name of a deleted one is handled as deleted, and logged as
"being deleted", until the process restarts (`LiveNodesGuarded` excepts flagged
entries).  Works of the infra operations that lost a callback never end
(`WorkEnds` excepts them).  A Subnet without a Vpc, the default one included, is
never registered, although the API declares the field optional
(`SubnetsRegistered` speaks of complete Subnets).  `Wait` can return early if a
`Done` precedes an `Add`, even if all of them precede `Stop` (`WaitsForAll` has
`addsFirst`).  A `Lock` that was cancelled can take away the lock that a later call
on the same Lockfile was granted, and no user can tell when a cancelled call is
over (`LostToOwnPastOnly` excepts a lock that was asked for while one was under
way, and `overlaps` remembers it).  `Close` "implicitly removes all locks held"
(`lockfile_linux.go:40`), but not while cancelled calls are in the kernel with the
file: two closed Lockfiles, each with one late call that holds a lock and another
that waits for the other's, keep their locks for ever (the exception of
`NothingLeftLocked`).  A merge patch can put a predecessor's finalizers on a new
node and undo those of others (see `NodeController` above).  A call of `Trigger`
between the waiter's two critical sections is counted by `numFolds`, which the model
leaves out, into the run before the one it causes.  `List.Insert` of no values at
index 0 of a list that is not empty dereferences nil, where its comment has no
such case (`AbstractList` lets exactly this call panic).

## Proofs

`NodeController_proofs`.  `TypeCorrect` is by one step per action.
`FlaggedSafe` and `LiveNodesKeepGuard` hold for any foreign finalizers.  The
inductive invariant `GuardInv` adds to `FlaggedGuardedIsDeleting`: a missing object
has no finalizer and is not deleting; a deleting object still has a finalizer;
and the worker agrees with its entry (whoever is about to add the finalizer works
on an unflagged entry, whoever is about to remove it on a flagged one).  The
middle part is what a stale patch needs: a patch that adds the finalizer is
accepted only by an object that is not deleting, and the worker that flags the
entry is the same that sends it.  `CallbackGetsInfo` needs that the worker, when it
sends, works on a known entry.

`ReconcileAlone` needs `MutexFits`, which says for each step of the worker and of the
handler what the record of the mutex is: the two never disagree about who holds
it, across crashes.  In the last part of the module are the theorems of
`NodePools`: every step of the composition is a step of `NodeController` or leaves
its variables alone (the lemma `PoolsImplementNode`, which holds by the way
`NodePools` is made), and so `PoolsKeepGuard` and `PoolsReconcileAlone` carry
theorems over.

`VpcManager_proofs`.  `VpcInv` adds two parts to `SettledIsCovered`.  `CopyInv`: the
copy that `Reconcile` took before it waited for the mutex is that of the object,
or the name is queued again, or its last read failed; without it the late write
of an old copy could not be excluded.  `MuInv`: the mutex is in a possible state
and a callback in its send holds it for reading.  `StuckCallbackFreezes` follows
from the second part alone and says what the nil channel costs: once a callback is in its send
no entry changes before the process ends.  `NothingInvented` adds to `VpcInv` the
history (`HistInv`): what the object says now has been asked for, and so has what
the worker has read.

`ManagersRefine` is the refinement of `VpcManager` by `Managers`.  Its invariant
`JointInv` has, beyond `VpcInv`, that names in the channel and with the handler
are known nodes (`NamesInv`; a callback of `VpcManager` may only be about a known
node) and that a callback that walks the nodes holds the read lock of the subnets
and still selects the subnet it walks for (`VisitInv`), so that the end of its walk
is a visit that `VpcManager` allows.  `ManagersInherit` carries the results over.

`Daemon_proofs`.  `DaemonInv` relates how far `DaemonMain` is to what it has made,
registered and started (`MainInv`) and says that nothing reaches the handler or a
worker before the manager is started (`QuietInv`).  The second part is the reason
that the handler, which runs from the fourth constructor on, does not go through
an incomplete list.  `StopWaitsForSends` proves `OnlySendsStall` by going back along the
waits: of a stop that has stalled some worker is left; the node worker is in its
send to a full channel; a callback that waits for the node mutex inside that of the
subnets waits for the node worker, which can go on unless it is in that send
(`SelectedWaits`); the namespace worker is in its send, waits so, or waits to read
the subnets behind the Subnet worker; and the Subnet worker waits for a reader,
which is in its send or waits so, since one that walks can go on (`WriterWaits`).  `Stalled`
says with guards written out (`CanRun`) that no goroutine can take a step;
`NothingRunsOn` shows that it says at least that: from a stalled state no step of a
goroutine is possible.

`StoppableWaitGroup_proofs`.  `GroupInv`: the counter lies between minus those that
have left and those that have entered (`RangeInv`); who takes the group for
stopped has seen it stopped (`StopInv`); and, if the Adds come first, the counter
is the number of processes between their increment and their decrement as long as the gate is
shut, and a copy that is not positive means that only the stopper is left
(`ExactInv`).  The last clause is what a `Done` acts on after it has lost the
processor between its decrement and its close of the gate.

`SemaphoredMutex_proofs`.  `TokenInv`: the tokens that are taken are one for each
reader and no writer is there, or all of them are one writer's and no reader is
there.  `QueueInv` keeps the queue free of duplicates, so that nobody is granted
twice.  `WaitersRemembered` needs both: a first waiter that does not fit means that
somebody has tokens.

`Lockfile_proofs`.  `LockInv` has what the kernel guarantees (an exclusive lock is the
only one) and, for each Lockfile whose user did not ask while a cancelled call was
under way, that the call or the lock of the user is the only one the Lockfile has
to do with.  Nothing is assumed about users.

`InfraOps_proofs`.  `OpsInv`, for any events, workers and capacities.  `WorkInv`: the
wait group of a work is its lost callbacks plus its assignments under way, and an
assignment still to be made has no other of its work and interface, made or to
be made.  `TaskInv`: the pools keep their bounds; an assignment belongs to the present work of
its worker, since the last wait holds the work until it is over.  `ShareInv`: tasks
that share a call have the same operation and target, and a work has one assignment
for an interface.  `AskedInv`: a work in its first phase has made none of its
requests or has lost a callback, and one in a later phase had none to make; this is
`CreatorsNeverList` made inductive, since the first wait ends only at zero.

The attempt at this proof found two places where the model was right only for the
instance that TLC ran: with several ports to remove a full pool could be
overfilled, and a pair listed by two pools of a node was counted once, where the
code counts it twice.  Both are repaired in `RemoveNode`.

`Util_proofs`, the list.  `ListInv` says that there is an array `c` of different
cells that the links join from `first` to `last`, each with a value (`Holds`), and
that the pending call fits.  `WellFormed` speaks of the loops of the code
instead, and the two have to be brought together first: `WalkIs` shows that a
loop from `first` visits the cells of `c` in turn and then stops, from the least
index at which two walks differ (`TrailsAgree`, `Least`), because an induction with an
operator for its hypothesis is beyond the provers.  `FreshCells` counts: as long as the
list does not exceed its bound there are enough cells that it does not reach.
`SpliceLinks` and `RemoveLinks` say which array the links join after new cells are
put before the cell `i` or the cell `i` is taken out, with `first` and `last` moved or
not, and `SplicedRead` and `WithoutRead` what this does to the values.  Every
call that changes the list is shown to be one of the two, or to change values in place
(`AddStep`, `PrependStep`, `InsertStep`, `RemoveAtStep`, `SetStep`, `SwapStep`, `ClearStep`),
and every action to implement that of `AbstractList` (`AddRefines` and the
others).  `ChainKept` and `ListImplemented` hold for any values and any bound on
the size, so the 3 cells of the run are no restriction.

`Util_proofs`, the trigger.  `NoLostWakeup` and `MinIntervalKept`, for every number
of callers and every interval; the latter needs that the waiter past its delay sees
the interval over until it starts the run.  The module extends both `LinkedList`
and `Trigger`, which is why the former has `ListInit`, `ListNext` and `ListSpec`.

Assumptions about constants are those named in the modules: capacities and bounds
are positive numbers, threads and processes are finite sets, the sets and numbers
in events are finite sets and integers, present ports are ports with an owner.

Only model-checked: the liveness properties (`AnnouncementsDelivered`,
`LiveNodesGuarded`, `DeletingNodesReleased`, `ReleasedDespitePools`, `SubnetsRegistered`, `OnlySendsBlock`,
`SignalStops`, `StartupEnds`, `WaitReturns`, `CallsServed`, `LockGranted`,
`NothingLeftLocked`, `WorkEnds`, `TasksEnd`), since the prover does not reason about
fairness.  Every invariant, action property and refinement that a run checks is also a
theorem.

## The plan

Modelling is complete up to what is listed below, and of the properties of the runs
only liveness is without a proof.  What remains is upkeep: shorter arguments for
the long proofs, and the modules for the pool controller and the events once the
code behind them can run.

## Not modelled

* The rest of the pool controller.  `Reconcile` panics on every pool that it
  enters into its map, before the end of its critical section; nothing behind the
  panic is ever run, and no entry lives on.  `UpdatePool` has callers but needs
  `MainId`, which no entry has, and refuses each of them; `updatePool` would
  dereference an unset `CapIp`; `deletePool` has no other caller.  A module for
  them would model a program that does not exist at this commit.
* `calPoolEvent`, `getNodeInterface` and the second half of `getSubnatEvent` in the
  vpc manager: every visit of a node that a subnet lists panics (`hashset.New` of a
  slice) before an event is complete, and `calPoolEvent` needs an entry of the pool
  map.
* Requests of the OpenStack client that wait (`UpdatePort` with its wait group,
  `deletePort`): no caller.  `GetInstance` and the other reads: I/O.
* `MultiQueue` and `Allocat`: no user in the program, and each call is under one
  mutex.  The comment of `MultiQueue` (`multiqueue.go:33`) promises a fallback
  that `Pop` does not have.
* `NodeId` of a node that is registered again with another instance keeps the old
  value (`node.go:142`); nothing that runs reads it.

Out of scope: the OpenStack client's authentication and reads, the metadata service (I/O),
lock debugging (a build tag), generated API code, flags and packaging.
