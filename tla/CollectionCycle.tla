-------------------------- MODULE CollectionCycle --------------------------
(***************************************************************************)
(* One collection of a client process, carried out by two processes.  In   *)
(* the service, the client's ServerCollector thread takes the requests and *)
(* starts two tasks in its thread pool: a listener, which follows the word *)
(* conc_flag_, and a marker, which marks and sweeps when gc_phase_ of the  *)
(* running collector says so.  In the client, the collector daemon runs    *)
(* the collection; a mutator whose allocation keeps failing runs one too.  *)
(*                                                                         *)
(* conc_flag_: 0 no cycle, 1 the service asks for a collection or a trim,  *)
(* 2 a collector is running, 3 the service has its address, 4 the          *)
(* collector is done, 5 the client has answered, 6 the listener is done.   *)
(*                                                                         *)
(* Every loop around a condition variable tests a condition whose changes  *)
(* are all followed by a broadcast under the same mutex, so a waiting      *)
(* thread is modelled by a guard.                                          *)
(***************************************************************************)
EXTENDS Integers, Sequences, FiniteSets

CONSTANTS
  Clients,      \* the client processes
  Collectors,   \* the collectors of a client: "sticky", "partial", "full"
  PoolSize,     \* the workers of a ServerCollector's pool
  MaxRequests,  \* bound: the collections each client asks for
  LastResort    \* the clients in which a mutator runs a collection itself

ASSUME CollectorsAssumption ==
  /\ Collectors \subseteq {"sticky", "partial", "full"}
  /\ "full" \in Collectors /\ Collectors \cap {"sticky", "partial"} # {}
ASSUME BoundsAssumption == PoolSize \in Nat \ {0} /\ MaxRequests \in Nat
ASSUME LastResortAssumption == LastResort \subseteq Clients

CONC == "CONC"
EXPLICIT == "EXPLICIT"
GC_ALLOC == "GC_ALLOC"
TRIM == "TRIM"
GC_ANY == {CONC, EXPLICIT, GC_ALLOC}
Types == GC_ANY \cup {TRIM}

NULL == "null"      \* no collector: current_collector_ NULL, collect_index_ -1
Threads == {"daemon", "mutator"}

Phases == {"NONE", "PRE_INIT", "INIT", "ROOT_MARK", "ROOT_CONC_MARK", "MARK_REACHABLES",
           "MARK_RECURSIVE", "CONC_MARK", "SWEEP", "FINALIZE_SWEEP", "FINISH"}

VARIABLES
  active,    \* client: the types in active_requests_
  ring,      \* the client's requests on their way through the request buffer
  made,      \* how many collections the client asked for or ran by itself
  heap,      \* shared heap_meta_: conc_flag_, gc_type_, is_gc_running_,
             \*   current_collector_; and the client's ipc_flag_raised_
  phase,     \* gc_phase_ of each collector of each client
  sync,      \* server_synchronize_ of each collector of each client
  pc,        \* where the client's daemon and its mutator are
  col,       \* the collector each of them runs
  task,      \* _curr_type, the requests the daemon was asked to serve
  server,    \* ServerCollector: its thread's place, status_, the types being
             \*   served, curr_collector_addr_ and cycles_count_
  listener, marker,  \* the two tasks in the pool
  marker_addr,       \* the marker's own curr_collector_addr_
  heard, marked      \* performed_cycle_index_ of the two tasks: static members

clientvars == <<active, ring, made>>
threadvars == <<pc, col, task>>
taskvars == <<listener, marker, marker_addr, heard, marked>>
vars == <<clientvars, heap, phase, sync, threadvars, server, taskvars>>

\* The type invariant.  A cycle takes at least one request off status_, so
\* cycles_count_ never runs ahead of the requests.
TypeOK ==
  /\ active \in [Clients -> SUBSET Types]
  /\ \A c \in Clients : ring[c] \in Seq(Types) /\ Len(ring[c]) <= 2
  /\ made \in [Clients -> 0 .. MaxRequests]
  /\ heap \in [Clients -> [flag: 0 .. 6, type: SUBSET Types, running: BOOLEAN,
                           raised: BOOLEAN, current: Collectors \cup {NULL}]]
  /\ phase \in [Clients -> [Collectors -> Phases]]
  /\ sync \in [Clients -> [Collectors -> BOOLEAN]]
  /\ pc \in [Clients -> [Threads -> {"idle", "check", "wait", "begin", "preinit", "setcurrent",
        "update", "handshake", "sweep", "finalsweep", "finish", "reset", "end", "notify", "answer"}]]
  /\ col \in [Clients -> [Threads -> Collectors \cup {NULL}]]
  /\ task \in [Clients -> SUBSET Types]
  /\ server \in [Clients -> [pc: {"waiting", "trim", "trimwait", "gc", "raise", "pool", "finalize"},
        status: SUBSET Types, job: SUBSET Types, addr: Collectors \cup {NULL},
        cycles: 0 .. MaxRequests]]
  /\ listener \in [Clients -> {"none", "queued", "collector", "completion", "done"}]
  /\ marker \in [Clients -> {"none", "queued", "address", "reach", "sweep", "done"}]
  /\ marker_addr \in [Clients -> Collectors \cup {NULL}]
  /\ heard \in -1 .. MaxRequests /\ marked \in -1 .. MaxRequests

Init ==
  /\ active = [c \in Clients |-> {}]
  /\ ring = [c \in Clients |-> <<>>]
  /\ made = [c \in Clients |-> 0]
  /\ heap = [c \in Clients |-> [flag |-> 0, type |-> {}, running |-> FALSE,
                                raised |-> FALSE, current |-> NULL]]
  /\ phase = [c \in Clients |-> [k \in Collectors |-> "NONE"]]
  /\ sync = [c \in Clients |-> [k \in Collectors |-> FALSE]]
  /\ pc = [c \in Clients |-> [t \in Threads |-> "idle"]]
  /\ col = [c \in Clients |-> [t \in Threads |-> NULL]]
  /\ task = [c \in Clients |-> {}]
  /\ server = [c \in Clients |-> [pc |-> "waiting", status |-> {}, job |-> {}, addr |-> NULL,
                                  cycles |-> 0]]
  /\ listener = [c \in Clients |-> "none"]
  /\ marker = [c \in Clients |-> "none"]
  /\ marker_addr = [c \in Clients |-> NULL]
  /\ heard = -1 /\ marked = -1

----------------------------------------------------------------------------
(* Requests. *)

\* ShouldPushNewGCRequest: at most one collecting request and one trim are
\* outstanding.
ShouldPushNewGCRequest(c, t) ==
  IF t \in GC_ANY THEN active[c] \cap GC_ANY = {} ELSE t \notin active[c]

\* RequestConcGC, RequestExplicitGC, RequestAllocateGC, by any mutator.
Request(c, t) ==
  /\ made[c] < MaxRequests
  /\ ShouldPushNewGCRequest(c, t)
  /\ active' = [active EXCEPT ![c] = @ \cup {t}]
  /\ ring' = [ring EXCEPT ![c] = Append(@, t)]
  /\ made' = [made EXCEPT ![c] = @ + 1]
  /\ UNCHANGED <<heap, phase, sync, threadvars, server, taskvars>>

\* The service daemon forwards the client's oldest request: SignalCollector.
SignalCollector(c) ==
  /\ ring[c] # <<>>
  /\ ring' = [ring EXCEPT ![c] = Tail(@)]
  /\ server' = [server EXCEPT ![c].status = @ \cup {Head(ring[c])}]
  /\ UNCHANGED <<active, made, heap, phase, sync, threadvars, taskvars>>

----------------------------------------------------------------------------
(* The ServerCollector thread. *)

\* Variant of WaitForRequest: status_ is not cleared.
Mut_WaitForRequest(c) ==
  /\ server[c].pc = "waiting"
  /\ server[c].status # {}
  /\ server' = [server EXCEPT ![c].pc = IF server[c].status = {TRIM} THEN "trim" ELSE "gc",
                              ![c].job = server[c].status]
  /\ UNCHANGED <<clientvars, heap, phase, sync, threadvars, taskvars>>

\* WaitForRequest takes all the requests signalled so far; Run trims when
\* there is nothing but a trim, and otherwise collects.
WaitForRequest(c) ==
  /\ server[c].pc = "waiting"
  /\ server[c].status # {}
  /\ server' = [server EXCEPT ![c].pc = IF server[c].status = {TRIM} THEN "trim" ELSE "gc",
                              ![c].job = server[c].status,
                              ![c].status = {}]
  /\ UNCHANGED <<clientvars, heap, phase, sync, threadvars, taskvars>>

\* Variant of ExecuteTrim: gc_type_ keeps the type of the last cycle.
Mut_ExecuteTrim(c) ==
  /\ server[c].pc = "trim"
  /\ server' = [server EXCEPT ![c].pc = "trimwait", ![c].addr = NULL]
  /\ heap' = [heap EXCEPT ![c].flag = 1]
  /\ UNCHANGED <<clientvars, phase, sync, threadvars, taskvars>>

\* ExecuteTrim up to its wait: forget the collector's address, ask the client.
ExecuteTrim(c) ==
  /\ server[c].pc = "trim"
  /\ server' = [server EXCEPT ![c].pc = "trimwait", ![c].addr = NULL]
  /\ heap' = [heap EXCEPT ![c].flag = 1, ![c].type = {TRIM}]
  /\ UNCHANGED <<clientvars, phase, sync, threadvars, taskvars>>

TrimAnswered(c) ==
  /\ server[c].pc = "trimwait"
  /\ heap[c].flag >= 5
  /\ server' = [server EXCEPT ![c].pc = "finalize"]
  /\ UNCHANGED <<clientvars, heap, phase, sync, threadvars, taskvars>>

\* Variants of ExecuteGC: the old address survives; the cycle is not counted.
Mut_ExecuteGCKeepsAddr(c) ==
  /\ server[c].pc = "gc"
  /\ server' = [server EXCEPT ![c].pc = "raise", ![c].cycles = @ + 1]
  /\ listener' = [listener EXCEPT ![c] = "queued"]
  /\ marker' = [marker EXCEPT ![c] = "queued"]
  /\ marker_addr' = [marker_addr EXCEPT ![c] = NULL]
  /\ UNCHANGED <<clientvars, heap, phase, sync, threadvars, heard, marked>>

Mut_ExecuteGCKeepsCount(c) ==
  /\ server[c].pc = "gc"
  /\ server' = [server EXCEPT ![c].pc = "raise", ![c].addr = NULL]
  /\ listener' = [listener EXCEPT ![c] = "queued"]
  /\ marker' = [marker EXCEPT ![c] = "queued"]
  /\ marker_addr' = [marker_addr EXCEPT ![c] = NULL]
  /\ UNCHANGED <<clientvars, heap, phase, sync, threadvars, heard, marked>>

\* ExecuteGC up to StartWorkers: the tasks may run before the flag is raised.
ExecuteGC(c) ==
  /\ server[c].pc = "gc"
  /\ server' = [server EXCEPT ![c].pc = "raise", ![c].addr = NULL, ![c].cycles = @ + 1]
  /\ listener' = [listener EXCEPT ![c] = "queued"]
  /\ marker' = [marker EXCEPT ![c] = "queued"]
  /\ marker_addr' = [marker_addr EXCEPT ![c] = NULL]
  /\ UNCHANGED <<clientvars, heap, phase, sync, threadvars, heard, marked>>

\* ExecuteGC: conc_flag_ = 1 with the union of the types being served.
RaiseFlag(c) ==
  /\ server[c].pc = "raise"
  /\ server' = [server EXCEPT ![c].pc = "pool"]
  /\ heap' = [heap EXCEPT ![c].flag = 1, ![c].type = server[c].job]
  /\ UNCHANGED <<clientvars, phase, sync, threadvars, taskvars>>

\* ThreadPool::Wait returns when both tasks have run; StopWorkers.
PoolWaited(c) ==
  /\ server[c].pc = "pool"
  /\ listener[c] = "done" /\ marker[c] = "done"
  /\ server' = [server EXCEPT ![c].pc = "finalize"]
  /\ UNCHANGED <<clientvars, heap, phase, sync, threadvars, taskvars>>

\* Variant of FinalizeGC: conc_flag_ is not cleared.
Mut_FinalizeGC(c) ==
  /\ server[c].pc = "finalize"
  /\ server' = [server EXCEPT ![c].pc = "waiting"]
  /\ UNCHANGED <<clientvars, heap, phase, sync, threadvars, taskvars>>

\* FinalizeGC; the request's own status word is in ServiceRequests.
FinalizeGC(c) ==
  /\ server[c].pc = "finalize"
  /\ server' = [server EXCEPT ![c].pc = "waiting"]
  /\ heap' = [heap EXCEPT ![c].flag = 0]
  /\ UNCHANGED <<clientvars, phase, sync, threadvars, taskvars>>

----------------------------------------------------------------------------
(* The pool and its two tasks. *)

\* The workers allowed to run, and the ServerCollector thread once it waits
\* for the pool (do_work), each run one task.
ThreadFree(c) ==
  LET running == Cardinality({t \in {listener[c], marker[c]} :
                                t \notin {"none", "queued", "done"}})
  IN running < PoolSize - 1 + (IF server[c].pc = "pool" THEN 1 ELSE 0)

\* ServerIPCListenerTask::Run: skipped when the static index says it was run.
StartListener(c) ==
  /\ listener[c] = "queued"
  /\ ThreadFree(c)
  /\ listener' = [listener EXCEPT ![c] = IF heard = server[c].cycles THEN "done" ELSE "collector"]
  /\ UNCHANGED <<clientvars, heap, phase, sync, threadvars, server, marker, marker_addr, heard, marked>>

\* WaitForCollector: a running collector's address is passed on once.
WaitForCollector(c) ==
  /\ listener[c] = "collector"
  /\ \/ /\ heap[c].flag = 2 /\ heap[c].current # NULL
        /\ server' = [server EXCEPT ![c].addr = heap[c].current]
        /\ heap' = [heap EXCEPT ![c].flag = 3]
     \/ /\ heap[c].flag >= 3
        /\ UNCHANGED <<server, heap>>
  /\ listener' = [listener EXCEPT ![c] = "completion"]
  /\ UNCHANGED <<clientvars, phase, sync, threadvars, marker, marker_addr, heard, marked>>

\* Variant of HearCompletion: performed_cycle_index_ is not set.
Mut_HearCompletion(c) ==
  /\ listener[c] = "completion"
  /\ heap[c].flag >= 5
  /\ heap' = [heap EXCEPT ![c].flag = 6]
  /\ listener' = [listener EXCEPT ![c] = "done"]
  /\ UNCHANGED <<clientvars, phase, sync, threadvars, server, marker, marker_addr, heard, marked>>

\* The rest of the listener's Run: wait for the client's answer.
HearCompletion(c) ==
  /\ listener[c] = "completion"
  /\ heap[c].flag >= 5
  /\ IF heap[c].flag = 5
       THEN /\ heap' = [heap EXCEPT ![c].flag = 6]
            /\ heard' = server[c].cycles
       ELSE UNCHANGED <<heap, heard>>
  /\ listener' = [listener EXCEPT ![c] = "done"]
  /\ UNCHANGED <<clientvars, phase, sync, threadvars, server, marker, marker_addr, marked>>

\* ServerMarkReachableTask::Run; the queue is first in, first out.
StartMarker(c) ==
  /\ marker[c] = "queued" /\ listener[c] # "queued"
  /\ ThreadFree(c)
  /\ marker' = [marker EXCEPT ![c] = IF marked = server[c].cycles THEN "done" ELSE "address"]
  /\ UNCHANGED <<clientvars, heap, phase, sync, threadvars, server, listener, marker_addr, heard, marked>>

\* WaitForPhaseAddress: wait for the address, then read it again from the heap.
WaitForPhaseAddress(c) ==
  /\ marker[c] = "address"
  /\ server[c].addr # NULL
  /\ marker_addr' = [marker_addr EXCEPT ![c] = heap[c].current]
  /\ marker' = [marker EXCEPT ![c] = "reach"]
  /\ UNCHANGED <<clientvars, heap, phase, sync, threadvars, server, listener, heard, marked>>

\* WaitForReachablePhaseAddress: mark everything reachable.
MarkReachable(c) ==
  LET k == marker_addr[c]
  IN /\ marker[c] = "reach"
     /\ k # NULL /\ phase[c][k] = "MARK_REACHABLES"
     /\ phase' = [phase EXCEPT ![c][k] = "MARK_RECURSIVE"]
     /\ marker' = [marker EXCEPT ![c] = "sweep"]
     /\ UNCHANGED <<clientvars, heap, sync, threadvars, server, listener, marker_addr, heard, marked>>

\* Variant of SweepSpaces: does not wait for the client to ask for the sweep.
Mut_SweepSpaces(c) ==
  LET k == marker_addr[c]
  IN /\ marker[c] = "sweep"
     /\ k # NULL
     /\ phase' = [phase EXCEPT ![c][k] = "FINALIZE_SWEEP"]
     /\ marker' = [marker EXCEPT ![c] = "done"]
     /\ marked' = server[c].cycles
     /\ UNCHANGED <<clientvars, heap, sync, threadvars, server, listener, marker_addr, heard>>

\* WaitForSweepPhase: sweep, and only now count the cycle as performed.
SweepSpaces(c) ==
  LET k == marker_addr[c]
  IN /\ marker[c] = "sweep"
     /\ k # NULL /\ phase[c][k] = "SWEEP"
     /\ phase' = [phase EXCEPT ![c][k] = "FINALIZE_SWEEP"]
     /\ marker' = [marker EXCEPT ![c] = "done"]
     /\ marked' = server[c].cycles
     /\ UNCHANGED <<clientvars, heap, sync, threadvars, server, listener, marker_addr, heard>>

----------------------------------------------------------------------------
(* The client: the collector daemon, and a mutator of last resort. *)

Go(c, th, place) == pc' = [pc EXCEPT ![c][th] = place]

\* The request RunCollectorDaemon serves: the first of its tests that holds.
Served(types) ==
  CASE CONC \in types -> CONC
    [] EXPLICIT \in types -> EXPLICIT
    [] GC_ALLOC \in types -> GC_ALLOC
    [] OTHER -> TRIM

\* RunCollectorDaemon wakes up.  A trim is done locally, without a handshake.
TakeTask(c) ==
  /\ pc[c]["daemon"] = "idle"
  /\ heap[c].flag = 1
  /\ task' = [task EXCEPT ![c] = heap[c].type]
  /\ Go(c, "daemon", IF heap[c].type \cap GC_ANY # {} THEN "check" ELSE "notify")
  /\ UNCHANGED <<clientvars, heap, phase, sync, col, server, taskvars>>

\* WaitForConcurrentIPCGcToComplete before the collection: is one running?
CheckRunning(c) ==
  /\ pc[c]["daemon"] = "check"
  /\ Go(c, "daemon", IF heap[c].running THEN "wait" ELSE "begin")
  /\ UNCHANGED <<clientvars, heap, phase, sync, col, task, server, taskvars>>

\* ... and its end.  A concurrent request is content with the collection it
\* waited for; the others still run their own.
WaitForConcurrentIPCGcToComplete(c) ==
  /\ pc[c]["daemon"] = "wait"
  /\ ~heap[c].running
  /\ Go(c, "daemon", IF Served(task[c]) = CONC THEN "notify" ELSE "begin")
  /\ UNCHANGED <<clientvars, heap, phase, sync, col, task, server, taskvars>>

\* CollectGarbageInternal(kGcTypeFull, kGcCauseForAlloc) in the mutator whose
\* allocation failed: RequestInternalGC runs the collection on its thread.
MutatorCollect(c) ==
  /\ c \in LastResort
  /\ made[c] < MaxRequests
  /\ pc[c]["mutator"] = "idle"
  /\ made' = [made EXCEPT ![c] = @ + 1]
  /\ Go(c, "mutator", "begin")
  /\ UNCHANGED <<active, ring, heap, phase, sync, col, task, server, taskvars>>

\* The collectors CollectGarbageIPC may pick: a background collection has the
\* heap's next type, an explicit one is full, one for an allocation is sticky
\* or, in a small space, partial.
CollectorsFor(c, th) ==
  IF th = "mutator" THEN {"full"}
  ELSE CASE Served(task[c]) = CONC -> Collectors
         [] Served(task[c]) = EXPLICIT -> {"full"}
         [] OTHER -> Collectors \ {"full"}

\* The start of CollectGarbageIPC, under gc_complete_mu_: one collection at a
\* time, and RaiseServerFlag (whatever the cause).
Begin(c, th) ==
  /\ pc[c][th] = "begin"
  /\ ~heap[c].running /\ ~heap[c].raised
  /\ heap' = [heap EXCEPT ![c].running = TRUE, ![c].raised = TRUE]
  /\ \E k \in CollectorsFor(c, th) : col' = [col EXCEPT ![c][th] = k]
  /\ Go(c, th, "preinit")
  /\ UNCHANGED <<clientvars, phase, sync, task, server, taskvars>>

\* UpdateGCPhase
SetPhase(c, th, p) == phase' = [phase EXCEPT ![c][col[c][th]] = p]

PreInitializePhase(c, th) ==
  /\ pc[c][th] = "preinit"
  /\ SetPhase(c, th, "PRE_INIT")
  /\ Go(c, th, "setcurrent")
  /\ UNCHANGED <<clientvars, heap, sync, col, task, server, taskvars>>

SetCurrentCollector(c, th) ==
  LET k == col[c][th]
  IN /\ pc[c][th] = "setcurrent"
     /\ sync' = [sync EXCEPT ![c][k] = heap[c].raised]
     /\ heap' = IF heap[c].raised THEN [heap EXCEPT ![c].flag = 2, ![c].current = k] ELSE heap
     /\ Go(c, th, "update")
     /\ UNCHANGED <<clientvars, phase, col, task, server, taskvars>>

\* The phases of InitializePhase and MarkingPhase up to the handshake.
NextPhase == [PRE_INIT |-> "INIT", INIT |-> "ROOT_MARK", ROOT_MARK |-> "ROOT_CONC_MARK",
              ROOT_CONC_MARK |-> "MARK_REACHABLES"]

MarkingPhase(c, th) ==
  LET p == NextPhase[phase[c][col[c][th]]]
  IN /\ pc[c][th] = "update"
     /\ SetPhase(c, th, p)
     /\ Go(c, th, IF p = "MARK_REACHABLES" THEN "handshake" ELSE "update")
     /\ UNCHANGED <<clientvars, heap, sync, col, task, server, taskvars>>

\* RequestAppSuspension: BlockForGCPhase(MARK_RECURSIVE), then CONC_MARK.
\* Without a synchronised server HandshakeIPCSweepMarkingPhase aborts.
HandshakeMarking(c, th) ==
  LET k == col[c][th]
  IN /\ pc[c][th] = "handshake"
     /\ sync[c][k] /\ phase[c][k] = "MARK_RECURSIVE"
     /\ SetPhase(c, th, "CONC_MARK")
     /\ Go(c, th, "sweep")
     /\ UNCHANGED <<clientvars, heap, sync, col, task, server, taskvars>>

Sweep(c, th) ==
  /\ pc[c][th] = "sweep"
  /\ SetPhase(c, th, "SWEEP")
  /\ Go(c, th, "finalsweep")
  /\ UNCHANGED <<clientvars, heap, sync, col, task, server, taskvars>>

\* Variant of FinalizeSweep: the client does not wait for the server's sweep.
Mut_FinalizeSweep(c, th) ==
  /\ pc[c][th] = "finalsweep"
  /\ Go(c, th, "finish")
  /\ UNCHANGED <<clientvars, heap, phase, sync, col, task, server, taskvars>>

\* Sweep: with a synchronised server wait for it, then free what it listed.
FinalizeSweep(c, th) ==
  LET k == col[c][th]
  IN /\ pc[c][th] = "finalsweep"
     /\ sync[c][k] => phase[c][k] = "FINALIZE_SWEEP"
     /\ Go(c, th, "finish")
     /\ UNCHANGED <<clientvars, heap, phase, sync, col, task, server, taskvars>>

\* FinishPhase up to ResetCurrentCollector.  ApplyTrimming may ask for a trim:
\* utilisation, the time since the last one and the pause policy decide.
FinishPhase(c, th) ==
  /\ pc[c][th] = "finish"
  /\ SetPhase(c, th, "FINISH")
  /\ \/ /\ ShouldPushNewGCRequest(c, TRIM)
        /\ active' = [active EXCEPT ![c] = @ \cup {TRIM}]
        /\ ring' = [ring EXCEPT ![c] = Append(@, TRIM)]
     \/ UNCHANGED <<active, ring>>
  /\ Go(c, th, "reset")
  /\ UNCHANGED <<made, heap, sync, col, task, server, taskvars>>

ResetCurrentCollector(c, th) ==
  LET k == col[c][th]
  IN /\ pc[c][th] = "reset"
     /\ IF sync[c][k]
          THEN /\ heap[c].flag >= 3
               /\ heap' = [heap EXCEPT ![c].flag = 4, ![c].current = NULL]
               /\ sync' = [sync EXCEPT ![c][k] = FALSE]
          ELSE UNCHANGED <<heap, sync>>
     /\ Go(c, th, "end")
     /\ UNCHANGED <<clientvars, phase, col, task, server, taskvars>>

\* The end of CollectGarbageIPC: ResetServerFlag, is_gc_running_ = 0.
End(c, th) ==
  /\ pc[c][th] = "end"
  /\ heap' = [heap EXCEPT ![c].running = FALSE, ![c].raised = FALSE]
  /\ col' = [col EXCEPT ![c][th] = NULL]
  /\ Go(c, th, IF th = "daemon" THEN "notify" ELSE "idle")
  /\ UNCHANGED <<clientvars, phase, sync, task, server, taskvars>>

\* Variant of RemoveActiveRequest: the request stays listed.
Mut_RemoveActiveRequest(c) ==
  /\ pc[c]["daemon"] = "notify"
  /\ Go(c, "daemon", "answer")
  /\ UNCHANGED <<clientvars, heap, phase, sync, col, task, server, taskvars>>

\* NotifyCompleteConcurrentTask: first RemoveGCSrvcActiveRequest ...
RemoveActiveRequest(c) ==
  /\ pc[c]["daemon"] = "notify"
  /\ active' = [active EXCEPT ![c] = @ \ {Served(task[c])}]
  /\ Go(c, "daemon", "answer")
  /\ UNCHANGED <<ring, made, heap, phase, sync, col, task, server, taskvars>>

\* ... then conc_flag_ = 5.
NotifyComplete(c) ==
  /\ pc[c]["daemon"] = "answer"
  /\ heap' = [heap EXCEPT ![c].flag = 5]
  /\ task' = [task EXCEPT ![c] = {}]
  /\ Go(c, "daemon", "idle")
  /\ UNCHANGED <<clientvars, phase, sync, col, server, taskvars>>

----------------------------------------------------------------------------
Server(c) ==
  \/ WaitForRequest(c) \/ ExecuteTrim(c) \/ TrimAnswered(c)
  \/ ExecuteGC(c) \/ RaiseFlag(c) \/ PoolWaited(c) \/ FinalizeGC(c)
Listener(c) == StartListener(c) \/ WaitForCollector(c) \/ HearCompletion(c)
Marker(c) == StartMarker(c) \/ WaitForPhaseAddress(c) \/ MarkReachable(c) \/ SweepSpaces(c)
Collection(c, th) ==
  \/ Begin(c, th) \/ PreInitializePhase(c, th) \/ SetCurrentCollector(c, th)
  \/ MarkingPhase(c, th) \/ HandshakeMarking(c, th) \/ Sweep(c, th) \/ FinalizeSweep(c, th)
  \/ FinishPhase(c, th) \/ ResetCurrentCollector(c, th) \/ End(c, th)
Daemon(c) ==
  \/ TakeTask(c) \/ CheckRunning(c) \/ WaitForConcurrentIPCGcToComplete(c)
  \/ Collection(c, "daemon") \/ RemoveActiveRequest(c) \/ NotifyComplete(c)

Next ==
  \E c \in Clients :
    \/ \E t \in GC_ANY : Request(c, t)
    \/ SignalCollector(c) \/ Server(c) \/ Listener(c) \/ Marker(c)
    \/ Daemon(c) \/ MutatorCollect(c) \/ Collection(c, "mutator")

\* Every thread that can take a step takes one; when mutators ask for a
\* collection is up to the program.
Fairness ==
  \A c \in Clients :
    /\ WF_vars(SignalCollector(c)) /\ WF_vars(Server(c))
    /\ WF_vars(Listener(c)) /\ WF_vars(Marker(c))
    /\ WF_vars(Daemon(c)) /\ WF_vars(Collection(c, "mutator"))

Spec == Init /\ [][Next]_vars /\ Fairness

----------------------------------------------------------------------------
(* Properties. *)

\* conc_flag_ is written by the server thread, the listener, the client's
\* daemon and whoever collects.  Each value follows its predecessor: no writer
\* overwrites a value another one still has to see.
HandshakeOrder ==
  [][\A c \in Clients :
       LET from == heap[c].flag
           to == heap'[c].flag
       IN from # to => \/ <<from, to>> \in {<<0, 1>>, <<6, 0>>}
                       \/ from = 1 /\ to \in {2, 5}
                       \/ from \in 2 .. 5 /\ to = from + 1
                       \/ from = 5 /\ to = 0 /\ server[c].job = {TRIM}]_vars

\* The phase words of a collector move forward through one collection: the
\* server marks only after the roots were marked, sweeps only after the client
\* asked for it, and nobody skips or repeats a phase.
PhaseRank == [NONE |-> 0, PRE_INIT |-> 1, INIT |-> 2, ROOT_MARK |-> 3, ROOT_CONC_MARK |-> 4,
              MARK_REACHABLES |-> 5, MARK_RECURSIVE |-> 6, CONC_MARK |-> 7, SWEEP |-> 8,
              FINALIZE_SWEEP |-> 9, FINISH |-> 10]
PhaseOrder ==
  [][\A c \in Clients, k \in Collectors :
       LET from == PhaseRank[phase[c][k]]
           to == PhaseRank[phase'[c][k]]
       IN from # to => to = from + 1 \/ (from = 10 /\ to = 1)]_vars

\* The client frees objects (after FINALIZE_SWEEP) only in a cycle in which the
\* server has marked and swept this very collection: both tasks' work is this
\* cycle's, not left over from an earlier one.
FreesAfterServerWork ==
  \A c \in Clients, th \in Threads :
    pc[c][th] \in {"finish", "reset"} =>
      /\ marker[c] = "done" /\ marked = server[c].cycles
      /\ marker_addr[c] = col[c][th]

\* The marker works on the collector that is running now: the address it read
\* without conc_flag_'s mutex is neither NULL nor one of an earlier cycle.
AddressFresh ==
  \A c \in Clients :
    marker[c] \in {"reach", "sweep"} =>
      /\ marker_addr[c] # NULL
      /\ marker_addr[c] = heap[c].current
      /\ \E th \in Threads : col[c][th] = marker_addr[c]

\* A listener that is over has heard the client's answer in this tour: its
\* message "No need to Run since we already done for that tour" is true
\* whenever it is printed.
TourDone ==
  \A c \in Clients :
    listener[c] = "done" /\ server[c].pc \in {"raise", "pool"} => heap[c].flag = 6

\* No finished worker steals: StealFrom runs the other task a second time only
\* if the static index of the finished one differs from cycles_count_.
NothingToSteal ==
  \A c \in Clients :
    /\ listener[c] = "done" => heard = server[c].cycles
    /\ marker[c] = "done" => marked = server[c].cycles

\* Every collecting request leaves active_requests_: as long as it is there no
\* other collecting request is made.
CollectionsServed ==
  \A c \in Clients, t \in GC_ANY : t \in active[c] ~> t \notin active[c]

\* A mutator that collects because its allocation failed is done at some point,
\* whether or not the service is in a cycle.
LastResortEnds ==
  \A c \in Clients : pc[c]["mutator"] # "idle" ~> pc[c]["mutator"] = "idle"

\* The promise of the service to a client.
Contract == INSTANCE CycleContract WITH
  outstanding <- active,
  sent <- [c \in Clients |-> server[c].status \cup {ring[c][i] : i \in DOMAIN ring[c]}],
  job <- [c \in Clients |-> IF server[c].pc = "waiting" THEN {} ELSE server[c].job],
  stage <- [c \in Clients |->
              IF server[c].pc = "waiting" THEN "waiting"
              ELSE IF pc[c]["daemon"] = "answer" THEN "struck"
              ELSE IF heap[c].flag >= 5 THEN "answered" ELSE "asked"]

\* The two handshakes carry out the contract: every step of server thread,
\* pool tasks and client is one of its steps or invisible, and each job is
\* struck off, answered and closed.
ImplementsContract == Contract!Spec

============================================================================
