-------------------------- MODULE WorkStealingPool --------------------------
(***************************************************************************)
(* The thread pools of the runtime: ThreadPool, whose workers run one task *)
(* after the other, and WorkStealingThreadPool, whose workers, when the    *)
(* queue is empty, help tasks that other workers are still running.  A     *)
(* work-stealing task is deleted by whoever drops its last reference.      *)
(*                                                                         *)
(* Everything under task_queue_lock_ or work_steal_lock_ is one step.  A   *)
(* worker asleep on task_queue_condition_ is still counted in              *)
(* waiting_count_ after it was signalled, until it runs again ("woken").   *)
(***************************************************************************)
EXTENDS Integers, Sequences, FiniteSets

CONSTANTS
  Workers,     \* the worker threads
  Tasks,       \* bound: the tasks that are ever added
  Kinds,       \* the pools looked at: TRUE is a WorkStealingThreadPool
  Limits,      \* the arguments SetMaxActiveWorkers is called with
  EarlyStart   \* whether a new thread may run before its worker's constructor is over

ASSUME WorkersAssumption == IsFiniteSet(Workers) /\ Workers # {}
ASSUME LimitsAssumption == Limits \subseteq 1 .. Cardinality(Workers)
ASSUME KindAssumption == Kinds \subseteq BOOLEAN /\ EarlyStart \in BOOLEAN

NULL == "null"

VARIABLES
  stealing,    \* whether this is a WorkStealingThreadPool
  barrier,     \* creation_barier_.count_
  listed,      \* threads_: the workers whose constructor is over
  tasks,       \* tasks_
  started, shutting_down, waiting_count, max_active,
  wpc,         \* where each worker is
  task_,       \* WorkStealingWorker::task_, what others may steal from
  mine, from,  \* the worker's own task, the one it steals from
  ref,         \* ref_count_ of each task
  freed,       \* the finalized tasks
  added,       \* the tasks added so far
  main, helping  \* the thread that owns the pool, and the task it runs in Wait

poolvars == <<tasks, started, shutting_down, waiting_count, max_active>>
stealvars == <<task_, from, ref>>
vars == <<stealing, barrier, listed, poolvars, wpc, stealvars, mine, freed, added, main, helping>>

Size == Cardinality(Workers)

TypeOK ==
  /\ stealing \in Kinds
  /\ barrier \in -Size .. Size + 1
  /\ listed \subseteq Workers
  /\ tasks \in Seq(Tasks)
  /\ started \in BOOLEAN /\ shutting_down \in BOOLEAN
  /\ waiting_count \in 0 .. Size /\ max_active \in 0 .. Size
  /\ wpc \in [Workers -> {"none", "attach", "barrier", "get", "asleep", "woken", "exit", "register",
                          "run", "clear", "look", "find", "unref", "freefrom", "drop", "free"}]
  /\ task_ \in [Workers -> Tasks \cup {NULL}]
  /\ mine \in [Workers -> Tasks \cup {NULL}]
  /\ from \in [Workers -> Tasks \cup {NULL}]
  /\ ref \in [Tasks -> 0 .. Size]
  /\ freed \subseteq Tasks /\ added \subseteq Tasks
  /\ main \in {"create", "barrier", "ctorwait", "idle", "help", "helping", "wait", "asleep",
               "join", "gone"}
  /\ helping \in Tasks \cup {NULL}

\* The base constructor: one more than the workers it creates itself.
Init ==
  /\ stealing \in Kinds
  /\ barrier = (IF stealing THEN 0 ELSE Size) + 1
  /\ listed = {}
  /\ tasks = <<>>
  /\ started = FALSE /\ shutting_down = FALSE /\ waiting_count = 0
  /\ max_active = IF stealing THEN 0 ELSE Size
  /\ wpc = [w \in Workers |-> "none"]
  /\ task_ = [w \in Workers |-> NULL]
  /\ mine = [w \in Workers |-> NULL]
  /\ from = [w \in Workers |-> NULL]
  /\ ref = [t \in Tasks |-> 0]
  /\ freed = {} /\ added = {}
  /\ main = IF stealing THEN "barrier" ELSE "create"
  /\ helping = NULL

At(w, place) == wpc' = [wpc EXCEPT ![w] = place]

----------------------------------------------------------------------------
(* Construction. *)

\* pthread_create in the constructor of the next worker.
CreateWorker(w) ==
  /\ main = "create" /\ wpc[w] = "none"
  /\ \A v \in Workers : wpc[v] = "none" \/ v \in listed
  /\ w = CHOOSE v \in Workers : wpc[v] = "none"
  /\ At(w, "attach")
  /\ UNCHANGED <<stealing, barrier, listed, poolvars, stealvars, mine, freed, added, main, helping>>

\* The rest of the constructor, and threads_.push_back.
ListWorker(w) ==
  /\ main = "create"
  /\ w \notin listed /\ wpc[w] # "none"
  /\ listed' = listed \cup {w}
  /\ main' = IF listed' # Workers THEN main ELSE IF stealing THEN "idle" ELSE "barrier"
  /\ UNCHANGED <<stealing, barrier, poolvars, wpc, stealvars, mine, freed, added, helping>>

\* Barrier::Wait of a thread: the last one wakes the others.
Arrived(st) ==
  [w \in Workers |-> IF barrier - 1 = 0 /\ st[w] = "barrier" THEN "get" ELSE st[w]]

\* Callback: the virtual call of Run.  WorkStealingWorker::Run goes straight
\* to the queue; ThreadPoolWorker::Run first waits on the barrier.  While the
\* constructor runs the worker is still a ThreadPoolWorker.
Dispatch(w) ==
  /\ wpc[w] = "attach"
  /\ w \in listed \/ EarlyStart \/ ~stealing
  /\ IF stealing /\ w \in listed
       THEN At(w, "get") /\ UNCHANGED <<barrier, main>>
       ELSE /\ barrier' = barrier - 1
            /\ wpc' = Arrived([wpc EXCEPT ![w] = IF barrier - 1 = 0 THEN "get" ELSE "barrier"])
            /\ main' = IF barrier - 1 = 0 /\ main = "ctorwait" THEN "idle" ELSE main
  /\ UNCHANGED <<stealing, listed, poolvars, stealvars, mine, freed, added, helping>>

\* The constructor of ThreadPool waits for its own threads; a stealing pool
\* creates its threads after that.
CreationWait ==
  /\ main = "barrier"
  /\ barrier' = barrier - 1
  /\ wpc' = Arrived(wpc)
  /\ main' = IF barrier - 1 # 0 THEN "ctorwait" ELSE IF stealing THEN "create" ELSE "idle"
  /\ UNCHANGED <<stealing, listed, poolvars, stealvars, mine, freed, added, helping>>

----------------------------------------------------------------------------
(* The owner's operations. *)

\* Signal: one of the workers asleep, if there is one.
SignalOne(st) ==
  LET asleep == {w \in Workers : st[w] = "asleep"}
  IN IF asleep = {} THEN {st} ELSE {[st EXCEPT ![w] = "woken"] : w \in asleep}
SignalAll(st) == [w \in Workers |-> IF st[w] = "asleep" THEN "woken" ELSE st[w]]

\* AddTask of a new task, from the owner or from inside a running task.
AddTask ==
  /\ added # Tasks
  /\ LET t == CHOOSE t \in Tasks : t \notin added
     IN added' = added \cup {t} /\ tasks' = Append(tasks, t)
  /\ wpc' \in IF started /\ waiting_count # 0 THEN SignalOne(wpc) ELSE {wpc}
  /\ UNCHANGED <<stealing, barrier, listed, started, shutting_down, waiting_count, max_active,
                 stealvars, mine, freed, main, helping>>

OwnerAdds == main = "idle" /\ AddTask
TaskAdds == (main = "helping" \/ \E w \in Workers : wpc[w] = "run") /\ AddTask

SetMaxActiveWorkers(n) ==
  /\ main = "idle"
  /\ max_active' = n
  /\ UNCHANGED <<stealing, barrier, listed, tasks, started, shutting_down, waiting_count,
                 wpc, stealvars, mine, freed, added, main, helping>>

\* Every owner of a stealing pool has set the limit before.
StartWorkers ==
  /\ main = "idle"
  /\ max_active # 0
  /\ started' = TRUE
  /\ wpc' = SignalAll(wpc)
  /\ UNCHANGED <<stealing, barrier, listed, tasks, shutting_down, waiting_count, max_active,
                 stealvars, mine, freed, added, main, helping>>

StopWorkers ==
  /\ main = "idle"
  /\ started' = FALSE
  /\ UNCHANGED <<stealing, barrier, listed, tasks, shutting_down, waiting_count, max_active,
                 wpc, stealvars, mine, freed, added, main, helping>>

\* Wait, with or without do_work.  On a stopped pool it would wait for ever.
Wait ==
  /\ main = "idle" /\ started
  /\ main' \in {"help", "wait"}
  /\ UNCHANGED <<stealing, barrier, listed, poolvars, wpc, stealvars, mine, freed, added, helping>>

\* do_work: TryGetTask ...
Help ==
  /\ main = "help"
  /\ IF started /\ tasks # <<>>
       THEN main' = "helping" /\ helping' = Head(tasks) /\ tasks' = Tail(tasks)
       ELSE main' = "wait" /\ UNCHANGED <<helping, tasks>>
  /\ UNCHANGED <<stealing, barrier, listed, started, shutting_down, waiting_count, max_active,
                 wpc, stealvars, mine, freed, added>>

\* ... and Finalize after the task's Run.
HelpDone ==
  /\ main = "helping"
  /\ freed' = freed \cup {helping}
  /\ helping' = NULL
  /\ main' = "help"
  /\ UNCHANGED <<stealing, barrier, listed, poolvars, wpc, stealvars, mine, added>>

\* Variant of WaitDone: it looks at the queue only.
Mut_WaitDone ==
  /\ main = "wait"
  /\ main' = IF shutting_down \/ tasks = <<>> THEN "idle" ELSE "asleep"
  /\ UNCHANGED <<stealing, barrier, listed, poolvars, wpc, stealvars, mine, freed, added, helping>>

\* The loop of Wait on completion_condition_.
WaitDone ==
  /\ main = "wait"
  /\ main' = IF shutting_down \/ (waiting_count = Cardinality(listed) /\ tasks = <<>>)
               THEN "idle" ELSE "asleep"
  /\ UNCHANGED <<stealing, barrier, listed, poolvars, wpc, stealvars, mine, freed, added, helping>>

\* Variant of Destroy: the waiting workers are not told.
Mut_Destroy ==
  /\ ~stealing
  /\ main = "idle"
  /\ shutting_down' = TRUE
  /\ main' = "join"
  /\ UNCHANGED <<stealing, barrier, listed, tasks, started, waiting_count, max_active, wpc,
                 stealvars, mine, freed, added, helping>>

\* ~ThreadPool, and the join in ~ThreadPoolWorker.  The work-stealing pools
\* are never deleted.
Destroy ==
  /\ ~stealing
  /\ main = "idle"
  /\ shutting_down' = TRUE
  /\ wpc' = SignalAll(wpc)
  /\ main' = "join"
  /\ UNCHANGED <<stealing, barrier, listed, tasks, started, waiting_count, max_active,
                 stealvars, mine, freed, added, helping>>
Join ==
  /\ main = "join"
  /\ \A w \in Workers : wpc[w] = "exit"
  /\ main' = "gone"
  /\ UNCHANGED <<stealing, barrier, listed, poolvars, wpc, stealvars, mine, freed, added, helping>>

----------------------------------------------------------------------------
(* The workers. *)

\* Variant of MayTake: the asking worker does not count itself.
Mut_MayTake(asleep) == Cardinality(listed) - asleep - 1 <= max_active

\* No more than max_active_workers_ at work, the asking worker included.
MayTake(asleep) == Cardinality(listed) - asleep <= max_active

\* Variant of LastAsleep: nobody tells the owner that the work is done.
Mut_LastAsleep(asleep) == FALSE

\* The worker about to sleep is the last one, and there is nothing left to do.
LastAsleep(asleep) == asleep + 1 = Cardinality(listed) /\ tasks = <<>>

\* GetTask, up to the wait or the return: a woken worker first takes itself
\* off waiting_count_; no more than max_active_workers_ take tasks; the last
\* one to fall asleep on an empty queue wakes the owner.
GetTask(w) ==
  LET asleep == waiting_count - (IF wpc[w] = "woken" THEN 1 ELSE 0)
  IN /\ wpc[w] \in {"get", "woken"}
     /\ IF shutting_down
          THEN /\ waiting_count' = asleep /\ At(w, "exit")
               /\ UNCHANGED <<tasks, mine, main>>
        ELSE IF started /\ tasks # <<>> /\ MayTake(asleep)
          THEN /\ waiting_count' = asleep
               /\ mine' = [mine EXCEPT ![w] = Head(tasks)]
               /\ tasks' = Tail(tasks)
               /\ At(w, IF stealing THEN "register" ELSE "run")
               /\ UNCHANGED main
        ELSE /\ waiting_count' = asleep + 1
             /\ At(w, "asleep")
             /\ main' = IF LastAsleep(asleep) /\ main = "asleep" THEN "wait" ELSE main
             /\ UNCHANGED <<tasks, mine>>
     /\ UNCHANGED <<stealing, barrier, listed, started, shutting_down, max_active,
                    stealvars, freed, added, helping>>

\* WorkStealingWorker::Run registers the task it runs ...
Register(w) ==
  /\ wpc[w] = "register"
  /\ ref' = [ref EXCEPT ![mine[w]] = @ + 1]
  /\ task_' = [task_ EXCEPT ![w] = mine[w]]
  /\ At(w, "run")
  /\ UNCHANGED <<stealing, barrier, listed, poolvars, from, mine, freed, added, main, helping>>

\* ... runs it; a plain worker then finalizes it ...
RunTask(w) ==
  /\ wpc[w] = "run"
  /\ At(w, IF task_[w] # NULL THEN "clear" ELSE "free")
  /\ UNCHANGED <<stealing, barrier, listed, poolvars, stealvars, mine, freed, added, main, helping>>

\* Variant of ClearTask: the task stays visible to thieves.
Mut_ClearTask(w) ==
  /\ wpc[w] = "clear"
  /\ At(w, "look")
  /\ UNCHANGED <<stealing, barrier, listed, poolvars, stealvars, mine, freed, added, main, helping>>

\* ... withdraws it, without a lock ...
ClearTask(w) ==
  /\ wpc[w] = "clear"
  /\ task_' = [task_ EXCEPT ![w] = NULL]
  /\ At(w, "look")
  /\ UNCHANGED <<stealing, barrier, listed, poolvars, from, ref, mine, freed, added, main, helping>>

\* ... and steals as long as the queue is empty (GetTaskCount) ...
Look(w) ==
  /\ wpc[w] = "look"
  /\ At(w, IF tasks = <<>> THEN "find" ELSE "drop")
  /\ UNCHANGED <<stealing, barrier, listed, poolvars, stealvars, mine, freed, added, main, helping>>

\* Variant of FindTaskToStealFrom: no reference is taken.
Mut_FindTaskToStealFrom(w) ==
  LET running == {task_[v] : v \in Workers} \ {NULL}
  IN /\ wpc[w] = "find"
     /\ \/ \E t \in running : from' = [from EXCEPT ![w] = t] /\ At(w, "unref")
        \/ running = {} /\ At(w, "drop") /\ UNCHANGED from
     /\ UNCHANGED <<stealing, barrier, listed, poolvars, task_, ref, mine, freed, added, main,
                    helping>>

\* ... from a task some worker is running; the round robin of
\* FindTaskToStealFrom is left open.
FindTaskToStealFrom(w) ==
  LET running == {task_[v] : v \in Workers} \ {NULL}
  IN /\ wpc[w] = "find"
     /\ \/ \E t \in running : /\ from' = [from EXCEPT ![w] = t]
                              /\ ref' = [ref EXCEPT ![t] = @ + 1]
                              /\ At(w, "unref")
        \/ running = {} /\ At(w, "drop") /\ UNCHANGED <<from, ref>>
     /\ UNCHANGED <<stealing, barrier, listed, poolvars, task_, mine, freed, added, main, helping>>

\* After StealFrom: drop the reference, then finalize what nobody refers to.
Unref(w) ==
  /\ wpc[w] = "unref"
  /\ ref' = [ref EXCEPT ![from[w]] = @ - 1]
  /\ IF ref[from[w]] = 1 THEN At(w, "freefrom") /\ UNCHANGED from
                         ELSE At(w, "look") /\ from' = [from EXCEPT ![w] = NULL]
  /\ UNCHANGED <<stealing, barrier, listed, poolvars, task_, mine, freed, added, main, helping>>
FinalizeStolen(w) ==
  /\ wpc[w] = "freefrom"
  /\ freed' = freed \cup {from[w]}
  /\ from' = [from EXCEPT ![w] = NULL]
  /\ At(w, "look")
  /\ UNCHANGED <<stealing, barrier, listed, poolvars, task_, ref, mine, added, main, helping>>

\* The worker's own reference.
Drop(w) ==
  /\ wpc[w] = "drop"
  /\ ref' = [ref EXCEPT ![mine[w]] = @ - 1]
  /\ IF ref[mine[w]] = 1 THEN At(w, "free") /\ UNCHANGED mine
                         ELSE At(w, "get") /\ mine' = [mine EXCEPT ![w] = NULL]
  /\ UNCHANGED <<stealing, barrier, listed, poolvars, task_, from, freed, added, main, helping>>
Finalize(w) ==
  /\ wpc[w] = "free"
  /\ freed' = freed \cup {mine[w]}
  /\ mine' = [mine EXCEPT ![w] = NULL]
  /\ At(w, "get")
  /\ UNCHANGED <<stealing, barrier, listed, poolvars, stealvars, added, main, helping>>

Worker(w) ==
  \/ Dispatch(w) \/ GetTask(w) \/ Register(w) \/ RunTask(w) \/ ClearTask(w) \/ Look(w)
  \/ FindTaskToStealFrom(w) \/ Unref(w) \/ FinalizeStolen(w) \/ Drop(w) \/ Finalize(w)

\* What the owner does without being asked to: construct, wait, join.
Owner ==
  \/ CreationWait \/ Help \/ HelpDone \/ WaitDone \/ Join
  \/ \E w \in Workers : CreateWorker(w) \/ ListWorker(w)

Next ==
  \/ \E w \in Workers : Worker(w)
  \/ Owner
  \/ OwnerAdds \/ TaskAdds \/ StartWorkers \/ StopWorkers \/ Wait \/ Destroy
  \/ \E n \in Limits : SetMaxActiveWorkers(n)

\* Threads that can run do; every task's Run comes to an end.
Fairness == WF_vars(Owner) /\ \A w \in Workers : WF_vars(Worker(w))

Spec == Init /\ [][Next]_vars /\ Fairness

----------------------------------------------------------------------------
(* Properties. *)

\* A task is finalized once and never used afterwards: every pointer to it, a
\* worker's own, a thief's, the one published in task_ and the queue's, is
\* gone by then.
NoUseAfterFinalize ==
  /\ \A w \in Workers : {task_[w], mine[w], from[w]} \cap freed = {}
  /\ \A i \in DOMAIN tasks : tasks[i] \notin freed
  /\ helping \notin freed

\* A worker never steals from its own completed task: CHECK_NE in
\* WorkStealingWorker::Run does not fail.
NoSelfSteal == \A w \in Workers : from[w] # NULL => from[w] # mine[w]

\* Wait returns only when every task added so far, by the owner or by other
\* tasks, was run and finalized.
WaitCompletes ==
  [][main = "wait" /\ main' = "idle" /\ ~shutting_down => added = freed]_vars

\* The workers that have a task.
Busy == {w \in Workers : mine[w] # NULL}

\* A worker takes a task only while fewer than max_active_workers_ are at work,
\* whatever waiting_count_ says of workers that are on their way in or out of
\* the wait.
ActiveBounded ==
  [][\A w \in Workers :
       mine[w] = NULL /\ mine'[w] # NULL => Cardinality(Busy) < max_active]_vars

\* Wait returns: neither the signal to a worker nor the one to the owner is
\* lost.
WaitReturns == main \in {"help", "wait", "asleep"} ~> main \in {"idle", "gone"}

\* A deleted pool has no thread left.
Destroyed == main = "join" ~> main = "gone"

============================================================================
