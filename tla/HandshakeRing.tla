--------------------------- MODULE HandshakeRing ---------------------------
(***************************************************************************)
(* The request buffer shared by every process: clients push requests, the  *)
(* GC service daemon pops them (GCSrvcClientHandShake and its memory,      *)
(* GCServiceRequestsBuffer).  One inter-process mutex protects it and one  *)
(* condition variable is used by producers (buffer full) and by the        *)
(* consumer (buffer empty); every change of the buffer broadcasts.         *)
(*                                                                         *)
(* A critical section that does not wait is one step.  A thread that finds *)
(* its condition false goes to sleep and is runnable again only after a    *)
(* broadcast, when it evaluates the condition again.                       *)
(*                                                                         *)
(* The status word of an entry is also written after the entry has left    *)
(* the buffer; it belongs to the module ServiceRequests.                   *)
(***************************************************************************)
EXTENDS Integers, FiniteSets, Sequences

CONSTANTS
  Clients,     \* the client processes (their pids)
  Calls,       \* the request types the clients make calls for
  EarlyCalls,  \* those a process may make before it registers
  Capacity,    \* KGCRequestBufferCapacity
  MapCapacity  \* KProcessMapperCapacity

ASSUME CapacityAssumption == Capacity \in Nat \ {0}
ASSUME MapCapacityAssumption == MapCapacity \in Nat \ {0}

\* GC_SERVICE_TASK: the request types that travel through the buffer.
REG == "REG"
CONC == "CONC"
EXPLICIT == "EXPLICIT"
GC_ALLOC == "GC_ALLOC"
TRIM == "TRIM"
STATS == "STATS"
Tasks == {REG, CONC, EXPLICIT, GC_ALLOC, TRIM, STATS}

ASSUME CallsAssumption == Calls \subseteq Tasks
ASSUME EarlyCallsAssumption == EarlyCalls \subseteq Calls \ {REG}

\* GC_SERVICE_TASK_GC_ANY: the union of the collecting types.
GC_ANY == {CONC, EXPLICIT, GC_ALLOC}

NoPid == "nopid"
NoTask == "NOP"
NoRec == -1

Slots == 0 .. Capacity - 1
Records == 0 .. MapCapacity - 1

VARIABLES
  entries,        \* entries_[]: pid_, req_type_ and data_addr_ (REG: a mapper record)
  head, tail,     \* head_: last slot written; tail_: next slot to read
  available, queued,
  mappers,        \* process_mappers_[]: the process_id_ of each record
  mapper_head, mapper_tail,
  register_gc,    \* the processes whose register_gc_ the service has set
  client,         \* each client's requesting thread: new, ready, asleep, registering, idle
  pending,        \* the request each client is pushing
  listener        \* the daemon in ListenToRequests: ready, asleep

ringvars == <<entries, head, tail, available, queued, mappers, mapper_head, mapper_tail,
              register_gc>>
vars == <<ringvars, client, pending, listener>>

ClientStates == {"new", "ready", "asleep", "registering", "idle"}

Entry == [pid: Clients \cup {NoPid}, req_type: Tasks \cup {NoTask}, data: Records \cup {NoRec}]

\* The type invariant: every index stays inside its array and the two
\* counters inside the capacity, so no push or pop of the code ever
\* addresses a slot outside entries_ or process_mappers_.
TypeOK ==
  /\ entries \in [Slots -> Entry]
  /\ head \in Slots /\ tail \in Slots
  /\ available \in 0 .. Capacity /\ queued \in 0 .. Capacity
  /\ mappers \in [Records -> Clients \cup {NoPid}]
  /\ mapper_head \in Records /\ mapper_tail \in Records
  /\ register_gc \subseteq Clients
  /\ client \in [Clients -> ClientStates]
  /\ pending \in [Clients -> Tasks \cup {NoTask}]
  /\ listener \in {"ready", "asleep"}

----------------------------------------------------------------------------
\* memset of the whole entry: pid 0, type NOP, no data.
ResetRequestEntry == [pid |-> NoPid, req_type |-> NoTask, data |-> NoRec]

\* GCSrvcClientHandShake::Init
RingInit ==
  /\ available = Capacity /\ queued = 0
  /\ tail = 0 /\ head = Capacity - 1
  /\ mapper_head = MapCapacity - 1 /\ mapper_tail = 0
  /\ mappers = [i \in Records |-> NoPid]
  /\ entries = [i \in Slots |-> ResetRequestEntry]
  /\ register_gc = {}

Init ==
  /\ RingInit
  /\ client = [c \in Clients |-> "new"]
  /\ pending = [c \in Clients |-> NoTask]
  /\ listener = "ready"

\* Variant of Awake: the broadcast is forgotten.
Mut_Awake(state) == state

\* cond_->Broadcast: every sleeping thread may run again.
Awake(state) == IF state = "asleep" THEN "ready" ELSE state

BroadcastClients(st) == [c \in Clients |-> Awake(st[c])]

----------------------------------------------------------------------------
(* Producers. *)

\* Variant of CallReq: a process makes any call before it is registered.
Mut_CallReq(c, t) ==
  /\ client[c] \in (IF t = REG THEN {"new"} ELSE {"new", "idle"})
  /\ client' = [client EXCEPT ![c] = "ready"]
  /\ pending' = [pending EXCEPT ![c] = t]
  /\ UNCHANGED <<ringvars, listener>>

\* A client enters one of the Req* calls, one at a time: they are made under
\* gcservice_client_lock_.  A process registers once (FinalizeHeapAfterInit)
\* and makes the other calls when it is registered.  An allocation of a process
\* that has its service_client_ and has not registered yet, such as the peer of
\* the collector daemon that StartCollectorDaemon waits for, may call early.
CallReq(c, t) ==
  /\ \/ client[c] = "new" /\ t \in {REG} \cup EarlyCalls
     \/ client[c] = "idle" /\ t # REG
  /\ client' = [client EXCEPT ![c] = "ready"]
  /\ pending' = [pending EXCEPT ![c] = t]
  /\ UNCHANGED <<ringvars, listener>>

\* Wait in GC_BUFFER_PUSH_REQUEST: no slot is available.
PushWait(c) ==
  /\ client[c] = "ready"
  /\ available = 0
  /\ client' = [client EXCEPT ![c] = "asleep"]
  /\ UNCHANGED <<ringvars, pending, listener>>

\* Variants of PushEntry: without the wait for a free slot, and writing the
\* entry before head_ moves.
Mut_PushUnguarded(c, t, d) ==
  LET h == (head + 1) % Capacity
  IN /\ head' = h
     /\ available' = available - 1
     /\ queued' = queued + 1
     /\ entries' = [entries EXCEPT ![h] = [pid |-> c, req_type |-> t, data |-> d]]

Mut_PushAtOldHead(c, t, d) ==
  /\ available # 0
  /\ head' = (head + 1) % Capacity
  /\ available' = available - 1
  /\ queued' = queued + 1
  /\ entries' = [entries EXCEPT ![head] = [pid |-> c, req_type |-> t, data |-> d]]

\* GC_BUFFER_PUSH_REQUEST: the next slot becomes c's entry.
PushEntry(c, t, d) ==
  LET h == (head + 1) % Capacity
  IN /\ available # 0
     /\ head' = h
     /\ available' = available - 1
     /\ queued' = queued + 1
     /\ entries' = [entries EXCEPT ![h] = [pid |-> c, req_type |-> t, data |-> d]]

\* Variant of FillMapper: the record is filled before mapper_head_ moves.
Mut_FillOldMapper(c) ==
  /\ mapper_head' = (mapper_head + 1) % MapCapacity
  /\ mappers' = [mappers EXCEPT ![mapper_head] = c]

\* The part of ReqRegistration that fills the next mapper record; nothing
\* checks that the record is free.
FillMapper(c) ==
  LET m == (mapper_head + 1) % MapCapacity
  IN /\ mapper_head' = m
     /\ mappers' = [mappers EXCEPT ![m] = c]

\* data_addr_: a trim and a statistics request leave what the slot held; the
\* collecting requests store an address the daemon never follows.
DataOf(t) ==
  CASE t = REG -> (mapper_head + 1) % MapCapacity
    [] t \in GC_ANY -> NoRec
    [] OTHER -> entries[(head + 1) % Capacity].data

\* Where a client is after its request was pushed: a registration goes on to
\* BlockForServerInitialization, an early call back to the registration.
AfterPush(c, t) ==
  CASE t = REG -> "registering"
    [] c \in register_gc -> "idle"
    [] OTHER -> "new"

\* The rest of a Req* call once a slot is available, broadcast included.
Push(c) ==
  LET t == pending[c]
  IN /\ client[c] = "ready"
     /\ PushEntry(c, t, DataOf(t))
     /\ IF t = REG THEN FillMapper(c) ELSE UNCHANGED <<mapper_head, mappers>>
     /\ client' = BroadcastClients([client EXCEPT ![c] = AfterPush(c, t)])
     /\ pending' = [pending EXCEPT ![c] = NoTask]
     /\ listener' = Awake(listener)
     /\ UNCHANGED <<tail, mapper_tail, register_gc>>

----------------------------------------------------------------------------
(* The consumer. *)

\* ListenToRequests: nothing queued, wait.
ListenWait ==
  /\ listener = "ready"
  /\ queued = 0
  /\ listener' = "asleep"
  /\ UNCHANGED <<ringvars, client, pending>>

\* Variant of PopEntry: available_ is not given back.
Mut_PopKeepsSlot ==
  /\ queued # 0
  /\ tail' = (tail + 1) % Capacity
  /\ queued' = queued - 1
  /\ mapper_tail' = IF entries[tail].req_type = REG THEN (mapper_tail + 1) % MapCapacity
                                                   ELSE mapper_tail
  /\ UNCHANGED available

\* The buffer side of ProcessGCRequest: the slot at tail_ is released before
\* the request it holds is handled.
PopEntry ==
  /\ queued # 0
  /\ tail' = (tail + 1) % Capacity
  /\ available' = available + 1
  /\ queued' = queued - 1
  /\ mapper_tail' = IF entries[tail].req_type = REG THEN (mapper_tail + 1) % MapCapacity
                                                   ELSE mapper_tail

\* The process a popped registration releases from BlockForServerInitialization:
\* the new agent follows data_addr_ to the mapper record and sets register_gc_
\* of the process named there.
Released(e) == IF e.req_type = REG THEN {mappers[e.data]} ELSE {}

\* ListenToRequests with a queued entry: process it, broadcast.
Listen ==
  /\ listener = "ready"
  /\ PopEntry
  /\ register_gc' = {c \in Clients : c \in register_gc \cup Released(entries[tail])}
  /\ LET woken == BroadcastClients(client)
     IN client' = [c \in Clients |->
                     IF c \in Released(entries[tail]) /\ woken[c] = "registering"
                       THEN "idle" ELSE woken[c]]
  /\ UNCHANGED <<entries, head, mapper_head, mappers, pending, listener>>

Next ==
  \/ \E c \in Clients : PushWait(c) \/ Push(c) \/ \E t \in Calls : CallReq(c, t)
  \/ ListenWait
  \/ Listen

\* The daemon loops in ListenToRequests and a thread inside a Req* call runs
\* on; when and whether a client calls is up to the program.
Fairness ==
  /\ WF_vars(Listen) /\ WF_vars(ListenWait)
  /\ \A c \in Clients : WF_vars(PushWait(c)) /\ WF_vars(Push(c))

Spec == Init /\ [][Next]_vars /\ Fairness

----------------------------------------------------------------------------
(* Properties. *)

\* The i-th queued slot, counted from tail_.
Nth(i) == (tail + i) % Capacity

\* The slots between tail_ and head_ are exactly the queued ones, and the two
\* counters that producers and consumer test separately (available_ == 0,
\* queued_ == 0) never disagree with them.
RingAccounted ==
  /\ available + queued = Capacity
  /\ (head + 1) % Capacity = (tail + queued) % Capacity

\* One condition variable serves two conditions.  No thread sleeps on it while
\* its own condition is false: the daemon sleeps only on an empty buffer and a
\* producer only on a full one, so no wake-up is ever lost between the test
\* and the wait.
SleepersJustified ==
  /\ listener = "asleep" => queued = 0
  /\ \A c \in Clients : client[c] = "asleep" => available = 0

\* The mapper records have no free count of their own.  A queued registration
\* still finds its own process in its record as long as fewer than
\* KProcessMapperCapacity registrations were queued behind it.
NewestRecordsOwned ==
  LET RegAt(i) == entries[Nth(i)].req_type = REG
  IN \A i \in 0 .. queued - 1 :
       /\ RegAt(i)
       /\ Cardinality({j \in i + 1 .. queued - 1 : RegAt(j)}) < MapCapacity
       => mappers[entries[Nth(i)].data] = entries[Nth(i)].pid

\* A process blocked in BlockForServerInitialization is released: its
\* registration is popped and names it.
RegistrationCompletes ==
  \A c \in Clients : client[c] = "registering" ~> client[c] = "idle"

\* The abstract queue this buffer implements, oldest request first.
Queue == INSTANCE RequestQueue WITH
  queue <- [i \in 1 .. queued |->
              LET e == entries[Nth(i - 1)] IN [pid |-> e.pid, req_type |-> e.req_type]]

\* Requests leave in the order they entered, none lost, none twice, and each
\* one does leave: the buffer implements a bounded FIFO queue.
ImplementsQueue == Queue!Spec

============================================================================
