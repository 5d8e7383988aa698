------------------------ MODULE ServiceLaunchProofs ------------------------
(***************************************************************************)
(* For any number of children, whether or not the zygote reaches its wait  *)
(* before the service runs, and whichever forks fail: no client depends on *)
(* a service that is not there, and every application shares its heap      *)
(* unless the fork of the system server failed.                            *)
(***************************************************************************)
EXTENDS ServiceLaunch, TLAPS

\* The zygote has passed its wait for the service.
Passed == zygote \in {"fork", "forked", "notify", "spin"} \/ forked > 0

\* The status between two forks: SYS_SERVER_CREATED is set exactly when the
\* system server was forked, for a failed fork is not announced.
Settled ==
  status = IF child[SystemServer] = "failed" THEN RUNNING ELSE RUNNING + SYS_SERVER_CREATED

\* The inductive invariant.  A status of RUNNING or more was stored by
\* RunDaemon and not overwritten since; all who write smaller values are done
\* once the zygote has passed its wait; the status is settled when the zygote
\* is between two forks.
Launched ==
  /\ TypeOK
  /\ service = "none" <=> (zygote \in {"idle", "fork_service"} /\ forked = 0)
  /\ service = "none" => status = NONE
  /\ status = NONE => service \in {"none", "failed", "new"}
  /\ daemon # "none" <=> service = "shutdown"
  /\ status >= RUNNING => daemon \in {"loop", "listen"}
  /\ daemon = "start" => status < RUNNING
  /\ Passed => status >= RUNNING
  /\ zygote = "fork" => forked < Children
  /\ zygote \in {"idle", "fork"} /\ forked > 0 => Settled
  /\ zygote \in {"forked", "notify", "spin"} => forked > 0
  /\ zygote \in {"fork_service", "block", "wait"} => forked = 0
  /\ zygote \in {"notify", "spin"} => forked = SystemServer
  /\ zygote \in {"forked", "notify", "spin"} /\ forked = SystemServer
       => child[SystemServer] # "failed" /\ status = RUNNING
  /\ zygote = "forked" /\ forked > SystemServer => Settled
  /\ forked = 0 => status <= RUNNING
  /\ \A p \in Procs : p > forked => child[p] = "none"
  /\ \A p \in Procs : child[p] \in {"share", "shared"} => status = RUNNING + SYS_SERVER_CREATED
  /\ ApplicationsShare

\* The bits of the status words that can occur (GC_SERVICE_STATUS).
LEMMA StatusBits ==
  /\ Running(RUNNING) /\ Running(RUNNING + SYS_SERVER_CREATED)
  /\ SysServerCreated(RUNNING + SYS_SERVER_CREATED) /\ ~SysServerCreated(RUNNING)
  /\ ~SysServerCreated(NONE) /\ ~SysServerCreated(WAITINGSERVER)
  /\ ~SysServerCreated(SERVER_INITIALIZED) /\ ~SysServerCreated(STARTING)
BY DEF Running, SysServerCreated, NONE, WAITINGSERVER, SERVER_INITIALIZED, STARTING, RUNNING,
       SYS_SERVER_CREATED

\* The allocator's first state: no service, no child.
LEMMA LaunchedInit == Init => Launched
BY ChildrenAssumption
DEF Init, Launched, TypeOK, Passed, Settled, ApplicationsShare, Procs, NONE, RUNNING, SystemServer

\* Every step of zygote, service, daemon and children keeps the invariant.
LEMMA LaunchedNext == Launched /\ [Next]_vars => Launched'
<1> SUFFICES ASSUME Launched, [Next]_vars PROVE Launched'
  OBVIOUS
<1> USE ChildrenAssumption
        DEF Launched, TypeOK, Passed, Settled, ApplicationsShare, Procs, SystemServer,
            NONE, WAITINGSERVER, SERVER_INITIALIZED, STARTING, RUNNING, SYS_SERVER_CREATED
<1>1. CASE PreFork
  BY <1>1 DEF PreFork
<1>2. CASE GCSrvcForkGCService
  BY <1>2 DEF GCSrvcForkGCService
<1>3. CASE BlockOnGCProcessCreation
  BY <1>3 DEF BlockOnGCProcessCreation
<1>4. CASE ServiceCreated
  BY <1>4 DEF ServiceCreated
<1>5. CASE Fork
  BY <1>5 DEF Fork
<1>6. CASE ForkFails
  BY <1>6 DEF ForkFails
<1>7. CASE BlockOnGCZygoteCreation
  BY <1>7 DEF BlockOnGCZygoteCreation
<1>8. CASE GCSrvcNotifySystemServer
  BY <1>8 DEF GCSrvcNotifySystemServer
<1>9. CASE CompareAndSwap
  BY <1>9 DEF CompareAndSwap
<1>10. CASE NewServiceProcess
  BY <1>10 DEF NewServiceProcess
<1>11. CASE InitSvcFD
  BY <1>11 DEF InitSvcFD
<1>12. CASE NewServiceDaemon
  BY <1>12 DEF NewServiceDaemon
<1>13. CASE StartDaemon
  BY <1>13 DEF StartDaemon
<1>14. CASE RunDaemon
  BY <1>14 DEF RunDaemon
<1>15. CASE TestRunning
  BY <1>15, StatusBits DEF TestRunning
<1>16. CASE MainLoop
  BY <1>16 DEF MainLoop
<1>17. ASSUME NEW p \in Procs, GCSrvcePostZygoteFork(p) PROVE Launched'
  BY <1>17, StatusBits DEF GCSrvcePostZygoteFork
<1>18. ASSUME NEW p \in Procs, AllocateSharableSpace(p) PROVE Launched'
  BY <1>18 DEF AllocateSharableSpace
<1>19. CASE UNCHANGED vars
  BY <1>19 DEF vars
<1>q. QED
  BY <1>1, <1>2, <1>3, <1>4, <1>5, <1>6, <1>7, <1>8, <1>9, <1>10,
     <1>11, <1>12, <1>13, <1>14, <1>15, <1>16, <1>17, <1>18, <1>19
  DEF Next, Zygote, Service, Daemon, Child

\* What a client may rely on follows from the invariant.
LEMMA LaunchedServes == Launched => ServiceServesClients /\ ApplicationsShare
BY StatusBits DEF Launched, ServiceServesClients, RUNNING, SYS_SERVER_CREATED

\* No behaviour of the launch leaves the type invariant (GCServiceHeader's
\* status_ takes only the values the code stores).
THEOREM LaunchTypeCorrect == Spec => []TypeOK
<1>1. Launched => TypeOK
  BY DEF Launched
<1>q. QED
  BY <1>1, LaunchedInit, LaunchedNext, PTL DEF Spec

\* In every launch, with any number of children and whichever forks fail, a
\* child that shares its heap has a service whose daemon runs (BlockOnGCProcessCreation, RunDaemon,
\* GCSrvcNotifySystemServer).
THEOREM ClientsAreServed == Spec => []ServiceServesClients
  BY LaunchedServes, LaunchedInit, LaunchedNext, PTL DEF Spec

\* In every launch only the system server can miss SYS_SERVER_CREATED, unless
\* its own fork failed and was never announced (GCSrvcePostZygoteFork against
\* GCSrvcNotifySystemServer).
THEOREM ApplicationsAlwaysShare == Spec => []ApplicationsShare
  BY LaunchedServes, LaunchedInit, LaunchedNext, PTL DEF Spec
============================================================================
