--------------------------- MODULE CycleContract ---------------------------
(***************************************************************************)
(* What the GC service promises a client, seen from outside: a request is  *)
(* sent, the service takes everything sent so far as one job, the client   *)
(* strikes the request it served off its list and answers, the service     *)
(* closes the job.  A job may contain a trim beside a collecting request;  *)
(* the client serves one request per job, a collecting one first.          *)
(*                                                                         *)
(* CollectionCycle (the flag and phase handshakes) and ServiceRequests     *)
(* (the request entries and their status words) both implement it.         *)
(***************************************************************************)
CONSTANTS Clients

VARIABLES
  outstanding,  \* the requests on each client's list
  sent,         \* the requests no job has taken yet
  job,          \* the requests of the running job
  stage         \* waiting, asked, struck, answered

cvars == <<outstanding, sent, job, stage>>

Collecting == {"CONC", "EXPLICIT", "GC_ALLOC"}
Requests == Collecting \cup {"TRIM"}

\* The request of a job that the client serves.
Chosen(types) ==
  CASE "CONC" \in types -> "CONC"
    [] "EXPLICIT" \in types -> "EXPLICIT"
    [] "GC_ALLOC" \in types -> "GC_ALLOC"
    [] OTHER -> "TRIM"

Init ==
  /\ outstanding = [c \in Clients |-> {}]
  /\ sent = [c \in Clients |-> {}]
  /\ job = [c \in Clients |-> {}]
  /\ stage = [c \in Clients |-> "waiting"]

\* At most one collecting request and one trim of a client are outstanding.
Send(c, t) ==
  /\ outstanding[c] \cap (IF t = "TRIM" THEN {t} ELSE Collecting) = {}
  /\ outstanding' = [outstanding EXCEPT ![c] = @ \cup {t}]
  /\ sent' = [sent EXCEPT ![c] = @ \cup {t}]
  /\ UNCHANGED <<job, stage>>

\* A job is any part of what was sent: the rest is still on its way.
Take(c) ==
  /\ stage[c] = "waiting"
  /\ \E types \in SUBSET sent[c] \ {{}} :
       /\ job' = [job EXCEPT ![c] = types]
       /\ sent' = [sent EXCEPT ![c] = @ \ types]
  /\ stage' = [stage EXCEPT ![c] = "asked"]
  /\ UNCHANGED outstanding

Strike(c) ==
  /\ stage[c] = "asked"
  /\ outstanding' = [outstanding EXCEPT ![c] = @ \ {Chosen(job[c])}]
  /\ stage' = [stage EXCEPT ![c] = "struck"]
  /\ UNCHANGED <<sent, job>>

Answer(c) ==
  /\ stage[c] = "struck"
  /\ stage' = [stage EXCEPT ![c] = "answered"]
  /\ UNCHANGED <<outstanding, sent, job>>

Close(c) ==
  /\ stage[c] = "answered"
  /\ stage' = [stage EXCEPT ![c] = "waiting"]
  /\ job' = [job EXCEPT ![c] = {}]
  /\ UNCHANGED <<outstanding, sent>>

Step(c) == Take(c) \/ Strike(c) \/ Answer(c) \/ Close(c)

Next == \E c \in Clients : Step(c) \/ \E t \in Requests : Send(c, t)

Spec == Init /\ [][Next]_cvars /\ \A c \in Clients : WF_cvars(Step(c))

============================================================================
