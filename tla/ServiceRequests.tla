-------------------------- MODULE ServiceRequests --------------------------
(***************************************************************************)
(* The life of a request, from the client that makes it to the service     *)
(* that completes it: the request buffer (HandshakeRing) with the status   *)
(* word of its entries, the lists of active requests that each client and  *)
(* each of its agents in the service keep as pointers into the buffer, and *)
(* the ServerCollector that serves them.  The collection itself is the one *)
(* of CollectionCycle, reduced to the steps of its contract.               *)
(*                                                                         *)
(* A list holds slots of the buffer, not requests: pid_, req_type_ and     *)
(* status_ are read through the pointer each time, whatever the slot holds *)
(* by then.                                                                *)
(***************************************************************************)
EXTENDS HandshakeRing

CONSTANTS
  MaxCalls,     \* bound: the request calls made in all
  TrimHandling  \* isTrimHandlingEnabled

ASSUME MaxCallsAssumption == MaxCalls \in Nat
ASSUME TrimHandlingAssumption == TrimHandling \in BOOLEAN

VARIABLES
  status,      \* status_ of each slot
  calls,       \* how many request calls were made
  active,      \* each client's active_requests_: a sequence of slots
  agents,      \* agents_map_: the processes with an agent
  agent_active,  \* each agent's active_requests_: a sequence of slots
  mask,        \* status_ of each ServerCollector
  curr_reqs,   \* curr_srvc_reqs_[] of each ServerCollector, by type
  stage,       \* waiting, taken, asked, struck, answered
  job, jobslot \* the types being served, and the request they are served for

agentvars == <<agents, agent_active>>
cyclevars == <<mask, curr_reqs, stage, job, jobslot>>
svars == <<vars, status, calls, active, agentvars, cyclevars>>

REQ_NONE == "NONE"
REQ_NEW == "NEW"
REQ_STARTED == "STARTED"
REQ_COMPLETE == "COMPLETE"

NoSlot == -1
Service == GC_ANY \cup {TRIM}   \* what a ServerCollector is signalled for

TypeOKRequests ==
  /\ TypeOK
  /\ status \in [Slots -> {REQ_NONE, REQ_NEW, REQ_STARTED, REQ_COMPLETE}]
  /\ calls \in 0 .. MaxCalls
  /\ active \in [Clients -> Seq(Slots)]
  /\ agents \subseteq Clients
  /\ agent_active \in [Clients -> Seq(Slots)]
  /\ mask \in [Clients -> SUBSET Service]
  /\ curr_reqs \in [Clients -> [Service -> Slots \cup {NoSlot}]]
  /\ stage \in [Clients -> {"waiting", "taken", "asked", "struck", "answered"}]
  /\ job \in [Clients -> SUBSET Service]
  /\ jobslot \in [Clients -> Slots \cup {NoSlot}]

InitRequests ==
  /\ Init
  /\ status = [s \in Slots |-> REQ_NONE]
  /\ calls = 0
  /\ active = [c \in Clients |-> <<>>]
  /\ agents = {}
  /\ agent_active = [c \in Clients |-> <<>>]
  /\ mask = [c \in Clients |-> {}]
  /\ curr_reqs = [c \in Clients |-> [t \in Service |-> NoSlot]]
  /\ stage = [c \in Clients |-> "waiting"]
  /\ job = [c \in Clients |-> {}]
  /\ jobslot = [c \in Clients |-> NoSlot]

----------------------------------------------------------------------------
(* The client. *)

\* req_type_ read through each pointer of a list.
TypesOf(list) == {entries[list[i]].req_type : i \in DOMAIN list}

\* std::vector::erase of the first element whose entry has type t.
EraseFirst(list, t) ==
  LET hits == {i \in DOMAIN list : entries[list[i]].req_type = t}
      first == CHOOSE i \in hits : \A j \in hits : i <= j
  IN IF hits = {} THEN list
     ELSE SubSeq(list, 1, first - 1) \o SubSeq(list, first + 1, Len(list))

\* Variant: any collecting request hides only those of its own type.
Mut_ShouldPushNewGCRequest(c, t) == t \notin TypesOf(active[c])

\* ShouldPushNewGCRequest
ShouldPushNewGCRequest(c, t) ==
  IF t \in GC_ANY THEN TypesOf(active[c]) \cap GC_ANY = {} ELSE t \notin TypesOf(active[c])

\* The Request* calls up to the push.  A registration and a statistics update
\* are not kept in the list.
RequestCall(c, t) ==
  /\ calls < MaxCalls
  /\ calls' = calls + 1
  /\ t \in Service => ShouldPushNewGCRequest(c, t)
  /\ CallReq(c, t)
  /\ UNCHANGED <<status, active, agentvars, cyclevars>>

RequestWait(c) == PushWait(c) /\ UNCHANGED <<status, calls, active, agentvars, cyclevars>>

\* The push: status NEW, and the entry goes on the client's list.
RequestPush(c) ==
  /\ Push(c)
  /\ status' = [status EXCEPT ![head'] = REQ_NEW]
  /\ active' = IF pending[c] \in Service THEN [active EXCEPT ![c] = Append(@, head')] ELSE active
  /\ UNCHANGED <<calls, agentvars, cyclevars>>

----------------------------------------------------------------------------
(* The service daemon. *)

\* signalMyCollectorDaemon and SignalCollector.
Forward(c, t, s) ==
  /\ agent_active' = [agent_active EXCEPT ![c] = Append(@, s)]
  /\ mask' = [mask EXCEPT ![c] = @ \cup {t}]
  /\ curr_reqs' = [curr_reqs EXCEPT ![c][t] = s]

\* Variant of ProcessGCRequest: the request is forwarded but not started.
Mut_ProcessGCRequest(s) ==
  LET e == entries[s]
  IN IF e.req_type \in {REG, STATS}
       THEN /\ status' = [status EXCEPT ![s] = REQ_NONE]
            /\ agents' = IF e.req_type = REG THEN agents \cup {mappers[e.data]} ELSE agents
            /\ UNCHANGED <<agent_active, mask, curr_reqs>>
       ELSE /\ UNCHANGED status
            /\ Forward(e.pid, e.req_type, s)
            /\ UNCHANGED agents

\* ProcessGCRequest on the entry in slot s.  A registration makes an agent for
\* the process in its mapper record; a statistics update is done at once;
\* everything else is started and, unless it is a trim and trims are off,
\* forwarded to the process's agent; without an agent it is dropped.  The code
\* also drops it while daemon_ is unset.  Only a request that comes before any
\* registration can meet that, and it has no agent either: a registration
\* would make ListenToRequests follow the unset pointer.
ProcessGCRequest(s) ==
  LET e == entries[s]
  IN CASE e.req_type = REG ->
            /\ status' = [status EXCEPT ![s] = REQ_NONE]
            /\ agents' = agents \cup {mappers[e.data]}
            /\ UNCHANGED <<agent_active, mask, curr_reqs>>
       [] e.req_type = STATS ->
            /\ status' = [status EXCEPT ![s] = REQ_NONE]
            /\ UNCHANGED <<agentvars, mask, curr_reqs>>
       [] OTHER ->
            /\ status' = [status EXCEPT ![s] = REQ_STARTED]
            /\ IF e.pid \in agents /\ (e.req_type = TRIM => TrimHandling)
                 THEN Forward(e.pid, e.req_type, s)
                 ELSE UNCHANGED <<agent_active, mask, curr_reqs>>
            /\ UNCHANGED agents

ServeRequest ==
  /\ Listen
  /\ ProcessGCRequest(tail)
  /\ UNCHANGED <<calls, active, stage, job, jobslot>>

DaemonWait == ListenWait /\ UNCHANGED <<status, calls, active, agentvars, cyclevars>>

----------------------------------------------------------------------------
(* The ServerCollector and the client's collector daemon. *)

\* GetServiceIndex: the highest bit of the mask.
GetServiceIndex(types) ==
  CASE TRIM \in types -> TRIM
    [] GC_ALLOC \in types -> GC_ALLOC
    [] EXPLICIT \in types -> EXPLICIT
    [] OTHER -> CONC

\* The type RunCollectorDaemon serves and strikes off: its tests start at the
\* lowest bit.
Served(types) ==
  CASE CONC \in types -> CONC
    [] EXPLICIT \in types -> EXPLICIT
    [] GC_ALLOC \in types -> GC_ALLOC
    [] OTHER -> TRIM

\* Variant of WaitForRequest: status_ is not cleared.
Mut_WaitForRequest(c) ==
  /\ stage[c] = "waiting"
  /\ mask[c] # {}
  /\ job' = [job EXCEPT ![c] = mask[c]]
  /\ stage' = [stage EXCEPT ![c] = "taken"]
  /\ UNCHANGED <<vars, status, calls, active, agentvars, mask, curr_reqs, jobslot>>

\* WaitForRequest, under run_mu_.
WaitForRequest(c) ==
  /\ stage[c] = "waiting"
  /\ mask[c] # {}
  /\ job' = [job EXCEPT ![c] = mask[c]]
  /\ mask' = [mask EXCEPT ![c] = {}]
  /\ stage' = [stage EXCEPT ![c] = "taken"]
  /\ UNCHANGED <<vars, status, calls, active, agentvars, curr_reqs, jobslot>>

\* Run reads curr_srvc_reqs_ after run_mu_ was released, then executes.
Execute(c) ==
  /\ stage[c] = "taken"
  /\ jobslot' = [jobslot EXCEPT ![c] = curr_reqs[c][GetServiceIndex(job[c])]]
  /\ stage' = [stage EXCEPT ![c] = "asked"]
  /\ UNCHANGED <<vars, status, calls, active, agentvars, mask, curr_reqs, job>>

\* RemoveGCSrvcActiveRequest, in the client's daemon.  It needs the lock that
\* a thread inside a Req* call holds.
RemoveGCSrvcActiveRequest(c) ==
  /\ stage[c] = "asked"
  /\ client[c] = "idle"
  /\ active' = [active EXCEPT ![c] = EraseFirst(@, Served(job[c]))]
  /\ stage' = [stage EXCEPT ![c] = "struck"]
  /\ UNCHANGED <<vars, status, calls, agentvars, mask, curr_reqs, job, jobslot>>

\* conc_flag_ = 5
Answer(c) ==
  /\ stage[c] = "struck"
  /\ stage' = [stage EXCEPT ![c] = "answered"]
  /\ UNCHANGED <<vars, status, calls, active, agentvars, mask, curr_reqs, job, jobslot>>

\* Variant of UpdateRequestStatus: completes the entry, keeps it listed.
Mut_UpdateRequestStatus(c, s) ==
  /\ status' = IF status[s] = REQ_STARTED THEN [status EXCEPT ![s] = REQ_NONE] ELSE status
  /\ UNCHANGED agent_active

\* UpdateRequestStatus: complete the request, then reset and drop the first
\* entry of the agent's list that has its type.
UpdateRequestStatus(c, s) ==
  IF status[s] # REQ_STARTED THEN UNCHANGED <<status, agent_active>>
  ELSE LET t == entries[s].req_type
           list == agent_active[c]
           hits == {i \in DOMAIN list : entries[list[i]].req_type = t}
           first == list[CHOOSE i \in hits : \A j \in hits : i <= j]
           completed == [status EXCEPT ![s] = REQ_COMPLETE]
       IN /\ status' = IF hits = {} THEN completed ELSE [completed EXCEPT ![first] = REQ_NONE]
          /\ agent_active' = [agent_active EXCEPT ![c] = EraseFirst(list, t)]

\* FinalizeGC
FinalizeGC(c) ==
  /\ stage[c] = "answered"
  /\ UpdateRequestStatus(c, jobslot[c])
  /\ job' = [job EXCEPT ![c] = {}]
  /\ jobslot' = [jobslot EXCEPT ![c] = NoSlot]
  /\ stage' = [stage EXCEPT ![c] = "waiting"]
  /\ UNCHANGED <<vars, calls, active, agents, mask, curr_reqs>>

Collector(c) ==
  \/ WaitForRequest(c) \/ Execute(c) \/ RemoveGCSrvcActiveRequest(c)
  \/ Answer(c) \/ FinalizeGC(c)

NextRequests ==
  \/ \E c \in Clients :
       \/ \E t \in Calls : RequestCall(c, t)
       \/ RequestWait(c) \/ RequestPush(c) \/ Collector(c)
  \/ DaemonWait \/ ServeRequest

\* As in HandshakeRing and CollectionCycle: every thread that can run does,
\* and the lock of a client is handed on.
FairnessRequests ==
  /\ WF_svars(DaemonWait) /\ WF_svars(ServeRequest)
  /\ \A c \in Clients :
       WF_svars(RequestWait(c)) /\ WF_svars(RequestPush(c)) /\ WF_svars(Collector(c))

SpecRequests == InitRequests /\ [][NextRequests]_svars /\ FairnessRequests

----------------------------------------------------------------------------
(* Properties. *)

\* A request that reaches the daemon finds its agent, so GetAgentByPid does not
\* return NULL and the request is not dropped: a process in
\* BlockForServerInitialization makes no call before the agent of its
\* registration exists.  The exception are the early calls of a process that
\* was not released yet; those are dropped.
AgentKnown ==
  \A i \in 0 .. queued - 1 :
    LET e == entries[Nth(i)]
    IN e.req_type # REG /\ e.pid \notin agents
         => e.req_type \in EarlyCalls /\ e.pid \notin register_gc

\* A signalled type comes with its own request: curr_srvc_reqs_ points to an
\* entry of this client and this type that was started and is on the agent's
\* list, until the ServerCollector has taken it.
SignalledRequestsLive ==
  \A c \in Clients :
    \A t \in mask[c] \cup (IF stage[c] = "taken" THEN job[c] ELSE {}) :
      LET s == curr_reqs[c][t]
      IN /\ s # NoSlot
         /\ entries[s].pid = c /\ entries[s].req_type = t /\ status[s] = REQ_STARTED
         /\ \E i \in DOMAIN agent_active[c] : agent_active[c][i] = s

\* The list of an agent is exactly the set of its process's requests that were
\* started and not reset, each once: nothing is dropped, nothing is left.
AgentListExact ==
  \A c \in Clients :
    LET list == agent_active[c]
    IN /\ \A i, j \in DOMAIN list : list[i] = list[j] => i = j
       /\ {list[i] : i \in DOMAIN list} =
            {s \in Slots : entries[s].pid = c /\ status[s] \in {REQ_STARTED, REQ_COMPLETE}}

\* UpdateRequestStatus finds the request it completes started: "status was not
\* started.." is never logged.
FinalizesStarted ==
  \A c \in Clients : stage[c] = "answered" => status[jobslot[c]] = REQ_STARTED

\* The contract of CycleContract, read off the entries.
Contract == INSTANCE CycleContract WITH
  outstanding <- [c \in Clients |-> TypesOf(active[c])],
  sent <- [c \in Clients |->
             mask[c] \cup {entries[Nth(i)].req_type :
                             i \in {j \in 0 .. queued - 1 : entries[Nth(j)].pid = c
                                                /\ entries[Nth(j)].req_type \in Service}}],
  job <- job,
  stage <- [c \in Clients |-> IF stage[c] = "taken" THEN "asked" ELSE stage[c]]

\* Requests of all clients through one buffer, with lists of pointers on both
\* sides, carry out the contract.
ImplementsContract == Contract!Spec

============================================================================
