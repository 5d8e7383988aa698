------------------------ MODULE HandshakeRingProofs ------------------------
(***************************************************************************)
(* Proofs about the shared request buffer, for every number of clients and *)
(* every capacity.                                                         *)
(***************************************************************************)
EXTENDS HandshakeRing, TLAPS

\* The buffer's indices only ever meet sums below twice the capacity.
LEMMA ModBelow ==
  ASSUME NEW n \in Nat \ {0}, NEW a \in 0 .. 2 * n - 1
  PROVE  a % n = IF a < n THEN a ELSE a - n
<1>1. CASE a < n
  BY <1>1, SMT
<1>2. CASE a >= n
  <2>1. a - n \in 0 .. n - 1
    BY <1>2
  <2>2. a = 1 * n + (a - n)
    OBVIOUS
  <2> QED
    BY <1>2, <2>1, <2>2, SMT
<1> QED
  BY <1>1, <1>2

\* One step of an index around a ring of n cells.
LEMMA ModIncrement ==
  ASSUME NEW n \in Nat \ {0}, NEW x \in 0 .. n - 1
  PROVE  /\ (x + 1) % n = IF x + 1 = n THEN 0 ELSE x + 1
         /\ (x + 1) % n \in 0 .. n - 1
<1>1. x + 1 \in 0 .. 2 * n - 1
  OBVIOUS
<1>2. (x + 1) % n = IF x + 1 < n THEN x + 1 ELSE (x + 1) - n
  BY <1>1, ModBelow
<1> QED
  BY <1>2

\* The inductive invariant: the accounting of the slots is what keeps the
\* counters in range, and a sleeper's condition can only become false in a
\* step that wakes it.
RingInv == TypeOK /\ RingAccounted /\ SleepersJustified

LEMMA InitInv == Init => RingInv
<1> SUFFICES ASSUME Init PROVE RingInv
  OBVIOUS
<1> USE CapacityAssumption, MapCapacityAssumption
<1>1. TypeOK
  BY DEF Init, RingInit, TypeOK, Slots, Records, Entry, ResetRequestEntry, ClientStates
<1>2. RingAccounted
  <2>1. (head + 1) % Capacity = 0
    BY ModIncrement DEF Init, RingInit
  <2>2. (tail + queued) % Capacity = 0
    BY ModBelow DEF Init, RingInit
  <2> QED
    BY <2>1, <2>2 DEF Init, RingInit, RingAccounted
<1>3. SleepersJustified
  BY DEF Init, SleepersJustified
<1> QED
  BY <1>1, <1>2, <1>3 DEF RingInv

\* After a broadcast nobody sleeps.
LEMMA BroadcastWakes ==
  ASSUME NEW st \in [Clients -> ClientStates]
  PROVE  /\ BroadcastClients(st) \in [Clients -> ClientStates]
         /\ \A c \in Clients : BroadcastClients(st)[c] # "asleep"
  BY DEF BroadcastClients, Awake, ClientStates

LEMMA PushInv ==
  ASSUME RingInv, NEW c \in Clients, Push(c)
  PROVE  RingInv'
<1> USE CapacityAssumption, MapCapacityAssumption
<1> DEFINE h == (head + 1) % Capacity
<1> DEFINE t == pending[c]
<1>1. h \in Slots /\ h = (tail + queued) % Capacity
  BY ModIncrement DEF RingInv, TypeOK, Slots, RingAccounted
<1>2. (mapper_head + 1) % MapCapacity \in Records
  BY ModIncrement DEF RingInv, TypeOK, Records
<1>3. DataOf(t) \in Records \cup {NoRec}
  BY <1>1, <1>2 DEF DataOf, RingInv, TypeOK, Entry
<1>4. /\ available # 0 /\ head' = h
      /\ available' = available - 1 /\ queued' = queued + 1
      /\ entries' = [entries EXCEPT ![h] = [pid |-> c, req_type |-> t, data |-> DataOf(t)]]
  BY DEF Push, PushEntry
<1>5. client' \in [Clients -> ClientStates] /\ \A d \in Clients : client'[d] # "asleep"
  <2> DEFINE st == [client EXCEPT ![c] = AfterPush(c, t)]
  <2>1. st \in [Clients -> ClientStates]
    BY DEF RingInv, TypeOK, ClientStates, AfterPush
  <2>2. client' = BroadcastClients(st)
    BY DEF Push
  <2> HIDE DEF st
  <2> QED
    BY <2>1, <2>2, BroadcastWakes
<1>6. listener' = "ready"
  BY DEF Push, Awake, RingInv, TypeOK
<1>7. TypeOK'
  <2>1. entries' \in [Slots -> Entry]
    <3>1. [pid |-> c, req_type |-> t, data |-> DataOf(t)] \in Entry
      BY <1>3 DEF Entry, RingInv, TypeOK
    <3> HIDE DEF h, t
    <3> QED
      BY <3>1, <1>1, <1>4 DEF RingInv, TypeOK
  <2>2. head' \in Slots /\ tail' \in Slots
    BY <1>1, <1>4 DEF Push, RingInv, TypeOK
  <2>3. available' \in 0 .. Capacity /\ queued' \in 0 .. Capacity
    BY <1>4 DEF RingInv, TypeOK, RingAccounted
  <2>4. mappers' \in [Records -> Clients \cup {NoPid}] /\ mapper_head' \in Records
        /\ mapper_tail' \in Records
    BY <1>2 DEF Push, FillMapper, RingInv, TypeOK
  <2>5. pending' \in [Clients -> Tasks \cup {NoTask}] /\ register_gc' \subseteq Clients
    BY DEF Push, RingInv, TypeOK
  <2> QED
    BY <2>1, <2>2, <2>3, <2>4, <2>5, <1>5, <1>6 DEF TypeOK
<1>8. RingAccounted'
  <2> DEFINE a == tail + queued
  <2> DEFINE b == a + 1
  <2>1. a \in 0 .. 2 * Capacity - 1 /\ b \in 0 .. 2 * Capacity - 1 /\ b = a + 1
    BY <1>4 DEF RingInv, TypeOK, RingAccounted, Slots
  <2>0. h = a % Capacity
    BY <1>1
  <2> HIDE DEF h, a, b
  <2>2. a % Capacity = IF a < Capacity THEN a ELSE a - Capacity
    BY <2>1, ModBelow
  <2>3. b % Capacity = IF b < Capacity THEN b ELSE b - Capacity
    BY <2>1, ModBelow
  <2>4. (h + 1) % Capacity = IF h + 1 = Capacity THEN 0 ELSE h + 1
    BY <1>1, ModIncrement DEF Slots
  <2>5. (h + 1) % Capacity = b % Capacity
    BY <2>0, <2>1, <2>2, <2>3, <2>4
  <2>6. tail' = tail
    BY DEF Push
  <2>7. tail' + queued' = b
    BY <1>4, <2>6 DEF a, b, RingInv, TypeOK, Slots
  <2>8. available' + queued' = Capacity
    BY <1>4 DEF RingInv, TypeOK, RingAccounted
  <2> QED
    BY <1>4, <2>5, <2>7, <2>8 DEF RingAccounted
<1>9. SleepersJustified'
  BY <1>5, <1>6 DEF SleepersJustified
<1> QED
  BY <1>7, <1>8, <1>9 DEF RingInv

LEMMA ListenInv ==
  ASSUME RingInv, Listen
  PROVE  RingInv'
<1> USE CapacityAssumption, MapCapacityAssumption
<1> DEFINE nxt == (tail + 1) % Capacity
<1>1. /\ queued # 0 /\ tail' = nxt
      /\ available' = available + 1 /\ queued' = queued - 1
      /\ UNCHANGED <<entries, head, mapper_head, mappers, pending, listener>>
  BY DEF Listen, PopEntry
<1>2. nxt \in Slots /\ nxt = IF tail + 1 = Capacity THEN 0 ELSE tail + 1
  BY ModIncrement DEF RingInv, TypeOK, Slots
<1>3. mapper_tail' \in Records
  BY ModIncrement DEF Listen, PopEntry, RingInv, TypeOK, Records
<1>4. client' \in [Clients -> ClientStates] /\ \A d \in Clients : client'[d] # "asleep"
  <2> DEFINE woken == BroadcastClients(client)
  <2>1. woken \in [Clients -> ClientStates] /\ \A d \in Clients : woken[d] # "asleep"
    BY BroadcastWakes DEF RingInv, TypeOK
  <2>2. client' = [c \in Clients |-> IF c \in Released(entries[tail]) /\ woken[c] = "registering"
                                       THEN "idle" ELSE woken[c]]
    BY DEF Listen
  <2> HIDE DEF woken
  <2> QED
    BY <2>1, <2>2 DEF ClientStates
<1>5. listener' = "ready" /\ register_gc' \subseteq Clients
  BY DEF Listen
<1> HIDE DEF nxt
<1>6. TypeOK'
  BY <1>1, <1>2, <1>3, <1>4, <1>5 DEF RingInv, TypeOK, RingAccounted
<1>7. RingAccounted'
  <2> DEFINE a == tail + queued
  <2> DEFINE b == nxt + (queued - 1)
  <2>1. /\ a \in 0 .. 2 * Capacity - 1 /\ b \in 0 .. 2 * Capacity - 1
        /\ b = IF tail + 1 = Capacity THEN a - Capacity ELSE a
        /\ tail + 1 = Capacity => a >= Capacity
    BY <1>1, <1>2 DEF RingInv, TypeOK, Slots
  <2> HIDE DEF a, b
  <2>2. a % Capacity = IF a < Capacity THEN a ELSE a - Capacity
    BY <2>1, ModBelow
  <2>3. b % Capacity = IF b < Capacity THEN b ELSE b - Capacity
    BY <2>1, ModBelow
  <2>4. (nxt + (queued - 1)) % Capacity = (tail + queued) % Capacity
    BY <2>1, <2>2, <2>3 DEF a, b
  <2>5. available' + queued' = Capacity
    BY <1>1 DEF RingInv, TypeOK, RingAccounted
  <2> QED
    BY <1>1, <2>4, <2>5 DEF RingInv, RingAccounted
<1>8. SleepersJustified'
  BY <1>4, <1>5 DEF SleepersJustified
<1> QED
  BY <1>6, <1>7, <1>8 DEF RingInv

LEMMA NextInv == RingInv /\ [Next]_vars => RingInv'
<1> SUFFICES ASSUME RingInv, [Next]_vars PROVE RingInv'
  OBVIOUS
<1>1. ASSUME NEW c \in Clients, PushWait(c) PROVE RingInv'
  BY <1>1 DEF PushWait, ringvars, RingInv, TypeOK, RingAccounted, SleepersJustified, ClientStates
<1>2. ASSUME NEW c \in Clients, Push(c) PROVE RingInv'
  BY <1>2, PushInv
<1>3. ASSUME NEW c \in Clients, NEW t \in Calls, CallReq(c, t) PROVE RingInv'
  <2>1. t \in Tasks
    BY CallsAssumption
  <2> QED
    BY <1>3, <2>1 DEF CallReq, ringvars, RingInv, TypeOK, RingAccounted, SleepersJustified,
                      ClientStates
<1>4. ASSUME ListenWait PROVE RingInv'
  BY <1>4 DEF ListenWait, ringvars, RingInv, TypeOK, RingAccounted, SleepersJustified
<1>5. ASSUME Listen PROVE RingInv'
  BY <1>5, ListenInv
<1>6. ASSUME UNCHANGED vars PROVE RingInv'
  BY <1>6 DEF vars, ringvars, RingInv, TypeOK, RingAccounted, SleepersJustified
<1> QED
  BY <1>1, <1>2, <1>3, <1>4, <1>5, <1>6 DEF Next

\* No push and no pop ever indexes outside entries_ or process_mappers_, for
\* every capacity and any number of processes.
THEOREM TypeCorrect == Spec => []TypeOK
<1>1. RingInv => TypeOK
  BY DEF RingInv
<1> QED
  BY InitInv, NextInv, <1>1, PTL DEF Spec

\* The slots between tail_ and head_ are the queued ones: available_, queued_,
\* head_ and tail_ agree after every push and every pop.
THEOREM RingIsAccounted == Spec => []RingAccounted
<1>1. RingInv => RingAccounted
  BY DEF RingInv
<1> QED
  BY InitInv, NextInv, <1>1, PTL DEF Spec

\* Neither side of the shared condition variable can miss the wake-up it
\* waits for, although producers and daemon wait for opposite conditions.
THEOREM NoLostWakeup == Spec => []SleepersJustified
<1>1. RingInv => SleepersJustified
  BY DEF RingInv
<1> QED
  BY InitInv, NextInv, <1>1, PTL DEF Spec
============================================================================
