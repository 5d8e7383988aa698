# Verification of the GC service in gcaas-kk-art

This directory holds TLA+ models of the parts of this Android runtime (ART with
garbage collection as a service) whose correctness depends on the order in which
processes and threads act, together with the TLC instances that check them and
TLAPS proofs of the properties that matter most.

Contents

1. The system
2. Modules and the code they model
3. What the runs check
4. Bounds
5. Fairness
6. What is proved
7. Disagreements between code and text
8. What is only model-checked, and what is not modelled
9. Plan

## 1. The system

### 1.1 Parts

Each application of an Android device is a process forked from the zygote. In
this runtime the zygote first forks one more process, the GC service, which
collects the heaps of the applications together with them.

| part | source (under `src/runtime/`) | state | operations |
|---|---|---|---|
| launch | `gc/service/global_allocator.cc`, `gc/service/gcservice_daemon.cc`, `native/dalvik_system_Zygote.cc`, `runtime.cc` | `GCServiceHeader::status_`, `counter_`, in memory shared by all processes | fork of the service, `BlockOnGCProcessCreation`, constructors of `GCServiceProcess` and `GCServiceDaemon`, `RunDaemon`, `GCSrvcNotifySystemServer`, `GCSrvcePostZygoteFork`, `AllocateSharableSpace` |
| request buffer | `gc/service/global_allocator.cc` | `GCServiceRequestsBuffer`: a ring of requests and a ring of mapper records, one mutex, one condition variable | the `Req*` calls, `ListenToRequests`, `ProcessGCRequest` |
| requests | `gc/service/service_client.cc`, `gc/service/gcservice_daemon.cc` | `active_requests_` of each client, the agents and their `active_requests_`, the status word of each entry | the `Request*` calls, `signalMyCollectorDaemon`, `UpdateRequestStatus`, `RemoveGCSrvcActiveRequest` |
| collection cycle | `gc/service/server_collector.cc`, `gc/collector/ipc_mark_sweep.cc` | `conc_flag_`, `gc_phase_`, `current_collector_`, `is_gc_running_` in shared memory; `ServerCollector::status_`, `cycles_count_`, the static `performed_cycle_index_` | `ServerCollector::Run`, the pool's listener and marker tasks, the client's `RunCollectorDaemon`, `CollectGarbageIPC` |
| thread pools | `thread_pool.cc`, `barrier.cc` | task queue, `waiting_count_`, reference counts of stealing tasks | `AddTask`, `GetTask`, `Wait`, `StartWorkers`, stealing, destruction |
| marking and sweeping | `gc/collector/*.cc`, `gc/accounting/*` | bitmaps, cards, mark and allocation stacks | not modelled yet (section 9) |
| thread suspension | `thread_list.cc`, `thread.cc` | suspend counts, thread states | not modelled yet |
| locks | `base/mutex.cc`, `monitor.cc` | futex words, lock words | not modelled yet |
| everything else | verifier, interpreter, compiler, dex and oat files, JDWP, profiler | | not modelled; reasons in `PROJECT.json` |

### 1.2 How they interact

```
 zygote --fork--> GC service: main thread --pthread--> daemon thread
   |                                                     |  ListenToRequests
   fork                                                  v
   |        Req*            ring of requests      ProcessGCRequest
   v   ------------------>  [ | | | | | ]  ---->         |
 application                                             | signalMyCollectorDaemon
   RunCollectorDaemon  <---- conc_flag_ 0..6 ---->  ServerCollector of this client
   collector           <---- gc_phase_ ---------->    pool: listener, marker
```

A request passes the buffer, is put on the list of the process's agent, and is
signalled to the process's `ServerCollector`. That thread asks the client (through
`conc_flag_`) to start a collection and starts two pool tasks: a listener that
follows `conc_flag_` and a marker that takes over parts of marking and sweeping when
`gc_phase_` of the client's collector says so. The client strikes the request off its
own list, answers, and the server closes the request.

### 1.3 What is hard

The list of hazards with their lines is in `PROJECT.json`. They come in four groups.

* One shared word, many writers. `status_` of the header is written by the zygote,
  the service's main thread and its daemon; `conc_flag_` by four threads in two
  processes; `gc_phase_` by two. A writer may overwrite what another still has to see.
* Pointers into reused memory. Lists keep pointers to slots of the buffer after the
  slots were given back; mapper records have no free count; a thief holds a pointer
  to a task its owner is about to finalize.
* Waiting. One condition variable serves two conditions; the owner of a pool is woken
  only by the last worker that falls asleep; a loop spins with a mutex held.
* State that is older than it looks. `current_collector_` is read again without its
  mutex, `waiting_count_` counts workers that are already awake, the index of the
  last cycle is shared by collectors that count their cycles separately.

## 2. Modules and the code they model

| module | models | extends / instantiates |
|---|---|---|
| `RequestQueue` | what the buffer promises: a bounded FIFO queue | |
| `HandshakeRing` | the request buffer with sleeping producers and a sleeping daemon | implements `RequestQueue` |
| `CycleContract` | what the service promises a client: send, take, strike off, answer, close | |
| `ServiceRequests` | the life of a request: buffer, status words, lists on both sides | extends `HandshakeRing`, implements `CycleContract` |
| `CollectionCycle` | the handshakes over `conc_flag_` and `gc_phase_` | implements `CycleContract` |
| `ServiceLaunch` | how the service comes into being | |
| `WorkStealingPool` | both kinds of thread pool | |
| `HandshakeRingProofs`, `ServiceLaunchProofs` | theorems | extend the modules of those names |
| `MCHandshakeRing`, `MCServiceRequests`, `MCCollectionCycle`, `MCWorkStealingPool` | model values for TLC | |

`PROJECT.json` maps each definition to its lines. Definitions whose name starts with
`Mut_` are deliberate faults; each one stands before the definition it is a variant
of, and no specification uses them. They show that the properties can fail.

### Granularity

A critical section that does not wait is one step, and so is a code path that touches
shared memory once. A section that waits is split at the wait. In `HandshakeRing` the
sleeping state is explicit, because whether a wake-up can be lost is the question; in
the other modules every loop around a condition variable tests a condition whose
changes are all followed by a broadcast under the same mutex, and the wait is a guard.
In `WorkStealingPool` a signalled worker is `"woken"` until it runs, because
`waiting_count_` still counts it.

### HandshakeRing

State: `entries`, `head`, `tail`, `available`, `queued`, the mapper ring, and where each
client and the daemon are. `CallReq` is the decision to call; `PushWait` and `Push` are
the two outcomes of the macro `GC_BUFFER_PUSH_REQUEST`; `Push` also fills a mapper
record for a registration (`FillMapper`). `ListenWait` and `Listen` are
`ListenToRequests`. A process is in `"registering"` while it blocks in
`BlockForServerInitialization` and makes no other call before it is released; the
service releases it by `register_gc_`. Before it registers a process already has its
`service_client_`, and an allocation (of the peer of its collector daemon, say) may make
a request: `EarlyCalls` names the types an instance lets it make.

### ServiceRequests

Adds to the buffer the status word of each slot, the clients' and agents' lists as
sequences of slots, and the `ServerCollector`'s mask and `curr_srvc_reqs_`. As in the
code, everything about a listed request (its process, its type, its status) is read
through the pointer, from whatever the slot holds by then. The collection is reduced
to the stages of the contract.

### CollectionCycle

One record `heap` per client for the shared words, `phase` and `sync` per collector, a
place per thread: the server thread, the two tasks, the client's daemon, and a
mutator that collects by itself after failed allocations. The values of `conc_flag_`
are listed at the head of the module. Which collector a collection uses, and whether a
trim follows, depend on heap sizes and time and are free choices.

### ServiceLaunch

The places of the zygote, the constructor steps of the service, the daemon's loop, and
the children's unlocked read of the status. `GCSrvcNotifySystemServer` is two steps:
it takes the mutex, and it releases it when its compare-and-swap has found exactly
`RUNNING`. `ForkerFirst` states which of the two processes is faster after `fork()`.
Either kind of fork may fail if `Failures` says so. A failed fork of a child is the
action `ForkFails`, which skips everything the code does for `pid > 0`. The fork of the
service has no such path in the code: `GCSrvcForkGCService` waits in both cases.

### WorkStealingPool

`stealing` is chosen initially from `Kinds`, so one instance covers both pools. The
construction is modelled, including the barrier of the plain pool and the moment at
which the virtual `Run` is dispatched. References are counted as in the code; a
task's `Run` is one step during which tasks may be added.

## 3. What the runs check

Every run takes a `.cfg` of this directory, for instance
`tlc -config HandshakeRing.cfg MCHandshakeRing`.

| run | module, cfg | checks | distinct states |
|---|---|---|---|
| `ring` | `MCHandshakeRing`, `HandshakeRing.cfg` | `TypeOK`, `RingAccounted`, `SleepersJustified`, `RegistrationCompletes`, `ImplementsQueue`; no deadlock | 33 990 |
| `requests` | `MCServiceRequests`, `ServiceRequests.cfg` | `SignalledRequestsLive`, `AgentListExact`, `FinalizesStarted`, `ImplementsContract` | 151 750 |
| `requests_wrap` | `MCServiceRequests`, `ServiceRequestsWrap.cfg` | `TypeOKRequests`, `AgentKnown`, `NewestRecordsOwned` | 128 295 |
| `requests_reuse` | `MCServiceRequests`, `ServiceRequestsReuse.cfg` | `FinalizesStarted`: violated | |
| `cycle` | `MCCollectionCycle`, `CollectionCycle.cfg` | `TypeOK`, `TourDone`, `HandshakeOrder`, `CollectionsServed`, `ImplementsContract` | 4 732 |
| `cycle_mutator` | `MCCollectionCycle`, `CollectionCycleMutator.cfg` | `FreesAfterServerWork`, `AddressFresh`, `NothingToSteal`, `PhaseOrder` | 23 302 |
| `cycle_last_resort` | `MCCollectionCycle`, `CollectionCycleLastResort.cfg` | `LastResortEnds`: violated | |
| `cycle_two_clients` | `MCCollectionCycle`, `CollectionCycleTwoClients.cfg` | `TourDone`: violated | |
| `launch` | `ServiceLaunch`, `ServiceLaunch.cfg` | `TypeOK`, `ServiceServesClients`, `ApplicationsShare`, `ForkReturns` | 1 544 |
| `launch_race` | `ServiceLaunch`, `ServiceLaunchRace.cfg` | `WaitSeesChange`: violated | |
| `pool` | `MCWorkStealingPool`, `WorkStealingPool.cfg` | `TypeOK`, `NoUseAfterFinalize`, `NoSelfSteal`, `WaitCompletes`, `ActiveBounded`, `WaitReturns`, `Destroyed` | 204 555 |
| `pool_early` | `MCWorkStealingPool`, `WorkStealingPoolEarly.cfg` | `WaitReturns`: violated | |

What they show:

* The buffer is a bounded FIFO queue in which no wake-up is lost, although producers
  and consumer share a condition variable, and every registration completes as long
  as there are enough mapper records. With too few records a registration loses its
  record exactly when as many others are queued behind it as there are records.
* Whatever the order of registrations, no request made after its process registered
  reaches the daemon before the process has an agent. Early calls do, and are silently
  dropped; since the client keeps such a request on its list, `ShouldPushNewGCRequest`
  refuses its later collection requests for as long as the slot holds one. `requests_wrap` allows early calls; `requests`,
  which is about requests that are served, does not.
* As long as slots are not reused while their requests are served, the lists on both
  sides are exact and requests carry out the contract. `requests_reuse` shows that the
  condition is needed.
* `conc_flag_` and `gc_phase_` go through their values in order; the marker works on
  the collector that is running, although it reads its address twice; objects are
  freed only after the server swept this very collection; each request is served.
* A launched service stays up for its clients and every fork returns, if there is a
  service and the zygote reaches its wait before the new daemon runs. The daemon's
  window is the only one: the zygote may overwrite the statuses the service stores
  earlier without harm. A failed fork of a child does no harm to later ones, with one
  exception: if it is the system server's, nothing sets `SYS_SERVER_CREATED` and all
  applications keep private heaps.
* If the fork of the service fails, the zygote waits for ever
  (`dalvik_system_Zygote.cc:468`). `ForkReturns` names this case, so the run shows that
  it is the only one; `ServiceLaunchNoService.cfg` gives the behaviour.
* In a pool no task is used after it was finalized, though a task is withdrawn from
  thieves without a lock; `Wait` returns, and only when all work, including work that
  was added by tasks, is finalized; the limit on active workers holds although it is
  computed from a count that lags.

Two more configurations belong to no run. They show how a property fails outside the
bounds of the runs: `ServiceLaunchNoService.cfg` (`WaitSeesChange` with a failed fork of
the service) and `CollectionCycleOneWorker.cfg` (`CollectionsServed` with a pool of one
worker, which the option of `global_allocator.cc:157` permits).

Some passing runs exclude a hazard on purpose and leave it to a run of its own: reused
slots (`requests` against `requests_reuse`), several clients on the static index (`cycle`
against `cycle_two_clients`), collections a mutator runs by itself (`cycle`,
`cycle_mutator` against `cycle_last_resort`), a daemon faster than the zygote (`launch`
against `launch_race`), a thread earlier than its constructor (`pool` against
`pool_early`). The notes of the hazards in `PROJECT.json` say so one by one.

`CHECK_DEADLOCK FALSE` appears where the system really comes to rest: all bounded
requests were served, all children forked, the pool deleted or idle. In
`HandshakeRing.cfg` the calls are not bounded, so deadlock is checked.

## 4. Bounds

| constant | value | why it is enough |
|---|---|---|
| `Capacity` 2 (`ring`), 3 (`requests_wrap`), 5 (`requests`) | in the code 128 | Two slots make full, empty and wrap-around happen with three clients; five slots for five calls keep every request in a slot of its own, which isolates the lists from slot reuse; three slots for five calls force reuse. |
| `MapCapacity` 3 or 2 | | Two records for three registrations make the overflow happen. |
| `MaxCalls` 5, 6 | bound on request calls | Registration of both clients, then requests that overlap in one client and meet those of the other. |
| `MaxRequests` 3 | bound on collections per client | A cycle, a second one that meets what the first left in flags and indices, and a third request that arrives in between. |
| `Collectors` sticky and full | | The partial collector takes the same path as the sticky one; two make a stale address differ from a fresh one. |
| `PoolSize` 2 (`cycle`), 3 | in the code 3 unless an option changes it | Two is the smallest pool in which listener and marker can run at once, the second on the thread that joins; with three one worker is free to try to steal. |
| `EarlyCalls` one type (`ring`, `requests_wrap`), none | | One early request is enough to be dropped and to precede a registration in the buffer. |
| `Children` 4 | | The system server and three applications: the second fork is the first that does not launch the service or notify; later ones repeat it. |
| `Failures` both kinds (`launch`), none (`launch_race`) | | Any fork may fail; without failures the race is the only way not to return. |
| `Workers` 3, `Tasks` 3, `Limits` 2 and 3 | | Two thieves on one task; a limit below the number of workers. |

`requests_wrap` uses the symmetry of the clients, which nothing in the module tells
apart; runs with liveness properties use none.

## 5. Fairness

Only weak fairness, only of steps a running thread takes by itself: a thread that
holds what it needs is scheduled at some point, and mutexes are handed on. In the
code each of these threads is in a loop with no exit but shutdown. Nothing is assumed
of the environment: that a client asks for a collection, that the zygote is asked for
a child, that the owner of a pool adds tasks or waits. A task's `Run` is assumed to
end. In `ServiceRequests` and `CollectionCycle` fairness is stated per thread, not per
step.

## 6. What is proved

`tlapm HandshakeRingProofs.tla` and `tlapm ServiceLaunchProofs.tla` check all proofs.

**The request buffer**, for every set of clients, every non-empty capacity and every
set of calls and early calls (`CapacityAssumption`, `MapCapacityAssumption`,
`CallsAssumption`, `EarlyCallsAssumption`):

* `TypeCorrect`: `Spec => []TypeOK`; no index leaves its array.
* `RingIsAccounted`: `Spec => []RingAccounted`; the two counters add up to the capacity
  and agree with the two indices.
* `NoLostWakeup`: `Spec => []SleepersJustified`.

None of the three is inductive alone: the range of `available` after a push needs
`available + queued = Capacity`, and that a sleeper's condition stays true needs both.
`RingInv` is their conjunction. The argument for the indices is arithmetic modulo the
capacity, isolated in `ModBelow` and `ModIncrement`; for the sleepers, that each step
that changes a counter also wakes everybody (`BroadcastWakes`). `PushInv` and
`ListenInv` treat the two steps that change the ring, `NextInv` combines them.

**The launch**, for every number of children, both values of `ForkerFirst` and every
choice of forks that may fail:

* `LaunchTypeCorrect`: `Spec => []TypeOK`.
* `ClientsAreServed`: `Spec => []ServiceServesClients`.
* `ApplicationsAlwaysShare`: `Spec => []ApplicationsShare`.

The invariant `Launched` says who may still write a small status. A status of
`RUNNING` or more was stored by the daemon and not overwritten; once the zygote has
passed its wait, everybody who stores smaller values is done; between two forks the
`SYS_SERVER_CREATED` bit is set exactly if the system server was forked (`Settled`). The
safety theorems hold even for a service that is faster than its parent, and for one
whose fork failed: then no child is ever forked. What fails in the first case is
`ForkReturns`, a liveness property.

## 7. Disagreements between code and text

Five runs end in a counterexample. Each property restates a sentence, message or
comment of the repository, which `PROJECT.json` quotes under `findings`.

| run | text | what the code does |
|---|---|---|
| `requests_reuse` | `gcservice_daemon.cc:482` reports a completed request that is not `STARTED` as an error | a slot is given back when its request is popped; a later push may overwrite it while the request is served |
| `cycle_last_resort` | `ipc_mark_sweep.cc:683` says a collecting mutator does not involve the service | the condition above it raises the server flag in this case too, and without a cycle in the service the mutator waits for ever |
| `cycle_two_clients` | `server_collector.cc:328` says a skipped tour was done already | the index is static and shared by the collectors of all clients |
| `launch_race` | `thread_state.h:42` says the zygote waits for the GC process to change state | the zygote stores a small status after `fork()`, possibly over `RUNNING` |
| `pool_early` | `thread_pool.h:86` says `Wait` waits for the queued tasks to get completed | a thread that starts before its worker's constructor is over runs the base class's `Run` and blocks on a barrier that was passed before |

## 8. What is only model-checked, and what is not modelled

Only model-checked:

* liveness (`RegistrationCompletes`, `CollectionsServed`, `ForkReturns`, `WaitReturns`,
  `Destroyed`) and the refinements, whose abstract specifications include fairness;
* everything about `ServiceRequests`, `CollectionCycle` and `WorkStealingPool`.

Abstracted inside modelled parts:

* inter-process mutexes and condition variables are the locks they are meant to be;
* `std::vector` operations are atomic, also where two threads race on them
  (the agent's list);
* the mapping of a client's memory into the service is reduced to its effect, the
  release of the client;
* the runtime's shutdown, which makes `ConcurrentGC` return early, is not modelled; for the
  same reason `RunDaemon` always attaches its thread (`gcservice_daemon.cc:199`);
* a process that was launched does not die. A service that aborts before its first
  store looks like a failed fork; a system server that dies takes the zygote with it;
* `ProcessGCRequest` drops requests while `daemon_` is unset (`global_allocator.cc:808`,
  `816`). `ServiceRequests` leaves the test out: a registration in that window makes
  `ListenToRequests` follow the unset pointer (hazard at `gcservice_daemon.cc:597`), and a
  request before any registration has no agent and is dropped anyway;
* `zygote_creation_busy_` is left out: nothing ever raises it;
* statistics, thread affinity, logging.

Parts that are not modelled at all are listed in `PROJECT.json` with the reason. In
short: the verifier, interpreter and compiler are sequential transformations whose
state is the program they are given; file formats, JDWP and profiling are input and
output; the rest is planned.

## 9. Plan

In this order:

1. `ThreadSuspension`: `ThreadList::SuspendAll`, `ResumeAll`, `RunCheckpoint`, suspension
   by the debugger, registration of threads, against threads that change state.
   Abstract specification: a mutator runs only while nobody has suspended it.
2. `FutexLock`: `Mutex`, `ReaderWriterMutex` and `ConditionVariable` of `base/mutex.cc` and
   their inter-process variants; shown to implement the locks the other modules use.
3. `ConcurrentMarking`: marking with dirty cards, allocation stack and the swap of the
   bitmaps; the invariant that no reachable object is swept. It then replaces
   the phases of `CollectionCycle` by work on bitmaps.
4. `ReferenceTable` (`indirect_reference_table.cc`) and `AtomicStack`, against sequences and
   sets as abstract specifications; the address translation of `service_space.cc`.
5. `HeapGrowth`: the sequence of attempts of an allocation and the size limits, with
   integers of their width.
6. Proofs: `RingInv` extended to the refinement `ImplementsQueue` (safety part); the
   reference-count invariant behind `NoUseAfterFinalize`; `HandshakeOrder` and
   `FreesAfterServerWork` from an inductive invariant of `CollectionCycle`;
   `AgentKnown` from one of `ServiceRequests`.
