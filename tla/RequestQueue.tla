---------------------------- MODULE RequestQueue ----------------------------
(***************************************************************************)
(* What the shared request buffer promises: a bounded FIFO queue.  A       *)
(* request enters at the back while there is room, the oldest one is taken *)
(* out at the front, and the daemon keeps taking.                          *)
(***************************************************************************)
EXTENDS Integers, Sequences

CONSTANTS Clients, Tasks, Capacity

VARIABLE queue

Request == [pid: Clients, req_type: Tasks]

Init == queue = <<>>

Enqueue(r) == Len(queue) < Capacity /\ queue' = Append(queue, r)

Dequeue == queue # <<>> /\ queue' = Tail(queue)

Next == Dequeue \/ \E r \in Request : Enqueue(r)

Spec == Init /\ [][Next]_queue /\ WF_queue(Dequeue)

=============================================================================
