--------------------------- MODULE ServiceLaunch ---------------------------
(***************************************************************************)
(* How the GC service comes into being.  The zygote forks the service      *)
(* before its first child, waits until the service's daemon runs, and then *)
(* forks its children: the system server first, applications after it.     *)
(* Zygote, service process, daemon thread and children meet in the status  *)
(* word of the shared GCServiceHeader.  Each fork() may fail; only the     *)
(* forks of children look at the result.                                   *)
(*                                                                         *)
(* Every section under the header's mu_ is one step, except the one of     *)
(* GCSrvcNotifySystemServer, which spins with mu_ held.  Each section that *)
(* changes the status broadcasts the condition variable, so the wait for a *)
(* status is a guard.  zygote_creation_busy_ is left out: RaiseSemaphore   *)
(* has no caller, so it is 0 whenever BlockOnGCZygoteCreation reads it.    *)
(* So is service_pid_, which nothing reads.  RunDaemon also returns early  *)
(* when its thread cannot be attached; Thread::Attach refuses only in a    *)
(* runtime that is shutting down, and the service's main thread never      *)
(* leaves SetGCDaemon to shut it down.                                     *)
(***************************************************************************)
EXTENDS Integers

CONSTANTS
  Children,     \* how many processes the zygote forks after the service
  ForkerFirst,  \* TRUE: after fork() the zygote gets to its wait before the
                \* new process has its daemon running
  Failures      \* the forks that may fail

ASSUME ChildrenAssumption == Children \in Nat \ {0}
ASSUME ForkerFirstAssumption == ForkerFirst \in BOOLEAN
ASSUME FailuresAssumption == Failures \subseteq {"service", "child"}

VARIABLES
  status,    \* status_
  counter,   \* counter_: how many sharable spaces were handed out
  zygote,    \* where the zygote is
  forked,    \* how many children it was asked for; child 1 is the system server
  service,   \* where the service's main thread is
  daemon,    \* where the service's daemon thread is
  child      \* where each child is

vars == <<status, counter, zygote, forked, service, daemon, child>>

NONE == 0
WAITINGSERVER == 1
SERVER_INITIALIZED == 2
STARTING == 4
RUNNING == 8
SYS_SERVER_CREATED == 16

SystemServer == 1
Procs == 1 .. Children

\* status_ & GCSERVICE_STATUS_RUNNING and status_ & ..._SYS_SERVER_CREATED.
Running(s) == (s \div RUNNING) % 2 = 1
SysServerCreated(s) == (s \div SYS_SERVER_CREATED) % 2 = 1

TypeOK ==
  /\ status \in {NONE, WAITINGSERVER, SERVER_INITIALIZED, STARTING, RUNNING,
                 RUNNING + SYS_SERVER_CREATED}
  /\ counter \in Nat
  /\ zygote \in {"idle", "fork_service", "block", "wait", "fork", "forked", "notify", "spin"}
  /\ forked \in 0 .. Children
  /\ service \in {"none", "failed", "new", "connect", "daemon", "create", "shutdown"}
  /\ daemon \in {"none", "start", "loop", "listen", "left"}
  /\ child \in [Procs -> {"none", "failed", "new", "share", "shared", "private"}]

\* CreateServiceAllocator, which the first ShouldForkService calls.
Init ==
  /\ status = NONE
  /\ counter = 0
  /\ zygote = "idle"
  /\ forked = 0
  /\ service = "none"
  /\ daemon = "none"
  /\ child = [p \in Procs |-> "none"]

MuFree == zygote # "spin"

----------------------------------------------------------------------------
(* The zygote. *)

\* GCSrvcePreZygoteFork: the service is forked first when ShouldForkService
\* finds that there is none.
PreFork ==
  /\ zygote = "idle" /\ forked < Children
  /\ zygote' = IF status = NONE THEN "fork_service" ELSE "fork"
  /\ UNCHANGED <<status, counter, forked, service, daemon, child>>

\* GCSrvcForkGCService tests its pid only for 0: with a service, and with none
\* (fork() returned -1, or the new process aborted in setresgid or setresuid,
\* before it wrote anything), the zygote goes on to BlockOnGCProcessCreation.
GCSrvcForkGCService ==
  /\ zygote = "fork_service"
  /\ service' \in {"new"} \cup (IF "service" \in Failures THEN {"failed"} ELSE {})
  /\ zygote' = "block"
  /\ UNCHANGED <<status, counter, forked, daemon, child>>

\* BlockOnGCProcessCreation: UpdateForkService stores WAITINGSERVER, whatever
\* the new process has stored by then.
BlockOnGCProcessCreation ==
  /\ zygote = "block"
  /\ status' = WAITINGSERVER
  /\ zygote' = "wait"
  /\ UNCHANGED <<counter, forked, service, daemon, child>>

\* Variant: the wait ends when the daemon is starting.
Mut_ServiceCreated ==
  /\ zygote = "wait" /\ status >= STARTING
  /\ zygote' = "fork"
  /\ UNCHANGED <<status, counter, forked, service, daemon, child>>

\* The end of its wait.
ServiceCreated ==
  /\ zygote = "wait" /\ status >= RUNNING
  /\ zygote' = "fork"
  /\ UNCHANGED <<status, counter, forked, service, daemon, child>>

\* fork() of the next child.
Fork ==
  /\ zygote = "fork"
  /\ forked' = forked + 1
  /\ child' = [child EXCEPT ![forked'] = "new"]
  /\ zygote' = "forked"
  /\ UNCHANGED <<status, counter, service, daemon>>

\* The same fork() with pid < 0: GCSrvcForkAndSpecializeCommon returns at once
\* and nativeForkSystemServer, which goes on only with pid > 0, does not notify.
ForkFails ==
  /\ zygote = "fork" /\ "child" \in Failures
  /\ forked' = forked + 1
  /\ child' = [child EXCEPT ![forked'] = "failed"]
  /\ zygote' = "idle"
  /\ UNCHANGED <<status, counter, service, daemon>>

\* Variant: the system server is not announced.
Mut_BlockOnGCZygoteCreation ==
  /\ zygote = "forked"
  /\ zygote' = "idle"
  /\ UNCHANGED <<status, counter, forked, service, daemon, child>>

\* BlockOnGCZygoteCreation and the return to the caller; the caller of the
\* first fork, nativeForkSystemServer, goes on to notify.
BlockOnGCZygoteCreation ==
  /\ zygote = "forked"
  /\ zygote' = IF forked = SystemServer THEN "notify" ELSE "idle"
  /\ UNCHANGED <<status, counter, forked, service, daemon, child>>

\* GCSrvcNotifySystemServer: mu_ is taken ...
GCSrvcNotifySystemServer ==
  /\ zygote = "notify"
  /\ zygote' = "spin"
  /\ UNCHANGED <<status, counter, forked, service, daemon, child>>

\* Variant: the new status does not keep the old bits.
Mut_CompareAndSwap ==
  /\ zygote = "spin" /\ status = RUNNING
  /\ status' = SYS_SERVER_CREATED
  /\ zygote' = "idle"
  /\ UNCHANGED <<counter, forked, service, daemon, child>>

\* ... and released when the compare-and-swap has found exactly RUNNING.
CompareAndSwap ==
  /\ zygote = "spin" /\ status = RUNNING
  /\ status' = status + SYS_SERVER_CREATED
  /\ zygote' = "idle"
  /\ UNCHANGED <<counter, forked, service, daemon, child>>

----------------------------------------------------------------------------
(* The service process: its main thread and its daemon. *)

\* GCServiceProcess's constructor.
NewServiceProcess ==
  /\ service = "new" /\ MuFree
  /\ status' = WAITINGSERVER
  /\ service' = "connect"
  /\ UNCHANGED <<counter, zygote, forked, daemon, child>>

\* initSvcFD: the file mapper may be ready or not, the service goes on.
InitSvcFD ==
  /\ service = "connect" /\ MuFree
  /\ \E ready \in BOOLEAN : status' = IF ready THEN SERVER_INITIALIZED ELSE status
  /\ service' = "daemon"
  /\ UNCHANGED <<counter, zygote, forked, daemon, child>>

\* GCServiceDaemon's constructor under mu_ ...
NewServiceDaemon ==
  /\ service = "daemon" /\ MuFree
  /\ status' = STARTING
  /\ service' = "create"
  /\ UNCHANGED <<counter, zygote, forked, daemon, child>>

\* ... and pthread_create, after which the main thread waits for a shutdown
\* that no code asks for.
StartDaemon ==
  /\ service = "create"
  /\ service' = "shutdown"
  /\ daemon' = "start"
  /\ UNCHANGED <<status, counter, zygote, forked, child>>

\* RunDaemon up to its loop.
RunDaemon ==
  /\ daemon = "start" /\ MuFree
  /\ ForkerFirst => zygote # "block"
  /\ status' = RUNNING
  /\ daemon' = "loop"
  /\ UNCHANGED <<counter, zygote, forked, service, child>>

\* The test of its loop.
TestRunning ==
  /\ daemon = "loop"
  /\ daemon' = IF Running(status) THEN "listen" ELSE "left"
  /\ UNCHANGED <<status, counter, zygote, forked, service, child>>

\* One ListenToRequests, which returns when a request came: from a process
\* with a sharable space.
MainLoop ==
  /\ daemon = "listen" /\ counter > 0
  /\ daemon' = "loop"
  /\ UNCHANGED <<status, counter, zygote, forked, service, child>>

----------------------------------------------------------------------------
(* A child of the zygote. *)

\* GCSrvcePostZygoteFork: whether to share is read from the status, without mu_.
GCSrvcePostZygoteFork(p) ==
  /\ child[p] = "new"
  /\ child' = [child EXCEPT ![p] = IF SysServerCreated(status) THEN "share" ELSE "private"]
  /\ UNCHANGED <<status, counter, zygote, forked, service, daemon>>

\* AllocateSharableSpace, by way of PostZygoteForkWithSpaceFork.
AllocateSharableSpace(p) ==
  /\ child[p] = "share" /\ MuFree
  /\ counter' = counter + 1
  /\ child' = [child EXCEPT ![p] = "shared"]
  /\ UNCHANGED <<status, zygote, forked, service, daemon>>

----------------------------------------------------------------------------
Zygote ==
  \/ GCSrvcForkGCService \/ BlockOnGCProcessCreation \/ ServiceCreated
  \/ Fork \/ ForkFails
  \/ BlockOnGCZygoteCreation \/ GCSrvcNotifySystemServer \/ CompareAndSwap

Service == NewServiceProcess \/ InitSvcFD \/ NewServiceDaemon \/ StartDaemon

Daemon == RunDaemon \/ TestRunning

Child(p) == GCSrvcePostZygoteFork(p) \/ AllocateSharableSpace(p)

Next == PreFork \/ Zygote \/ Service \/ Daemon \/ MainLoop \/ \E p \in Procs : Child(p)

\* Every thread that can run does; whether the zygote is asked for another
\* child, or the daemon for a service, is up to others.
Fairness ==
  /\ WF_vars(Zygote)
  /\ WF_vars(Service)
  /\ WF_vars(Daemon)
  /\ \A p \in Procs : WF_vars(Child(p))

Spec == Init /\ [][Next]_vars /\ Fairness

----------------------------------------------------------------------------
(* Properties. *)

\* A child with a sharable space finds a service whose daemon is in its loop
\* and whose status tells it to stay there: RunDaemon, BlockOnGCProcessCreation
\* and GCSrvcNotifySystemServer all write the status, and no write loses the
\* RUNNING bit once a client depends on it.
ServiceServesClients ==
  (\E p \in Procs : child[p] \in {"share", "shared"})
    => Running(status) /\ daemon \in {"loop", "listen"}

\* Every application shares its heap with the service: the zygote has set
\* SYS_SERVER_CREATED before it forks again, so the unlocked read in
\* GCSrvcePostZygoteFork can only be early in the system server itself.  The
\* one exception is a zygote whose fork of the system server failed: it never
\* notifies, and its applications keep private heaps beside a running service.
ApplicationsShare ==
  \A p \in Procs :
    child[p] = "private" => p = SystemServer \/ child[SystemServer] = "failed"

\* A zygote that started to fork a child returns to its caller, also when that
\* fork fails: the wait of BlockOnGCProcessCreation ends and the spin of
\* GCSrvcNotifySystemServer does.  It holds only for a zygote that has a
\* service to wait for: GCSrvcForkGCService does not test for pid < 0, and when
\* the fork of the service fails nobody ends the wait.
ForkReturns == (zygote # "idle") ~> (zygote = "idle" \/ service = "failed")

\* A zygote that waits for the GC process to change state sees it do so
\* (BlockOnGCProcessCreation, in state kWaitingForGCProcess).
WaitSeesChange == (zygote = "wait") ~> (zygote # "wait")
=============================================================================
