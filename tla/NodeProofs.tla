----------------------------- MODULE NodeProofs -----------------------------
(***************************************************************************)
(* What the readers of a primary's state file may rely on, for any number  *)
(* of models, any parallelism and any workers.  First, PrimarySupervisor   *)
(* implements Deployment: every step of the supervisor is a step of the    *)
(* deployment its readers see, or none.  Then Node: the file itself is     *)
(* such a deployment, hung loops and former lives included, and the health *)
(* check's verdict was true.                                               *)
(***************************************************************************)
EXTENDS Node, PrimarySupervisorProofs

USE NAssumption, ParallelismAssumption, WriteFaultsAssumption


\* Where the main coroutine is, by the phase it has announced.
StageShape ==
    /\ pc \in {"bind", "ssh", "router"} => phase = "starting"
    /\ pc \in {"batch", "prepare", "barrier", "launch"} => phase = "loading"
    /\ pc \in {"monitor", "probe", "idle"} => phase \in {"ready", "degraded"}
    /\ pc = "shutdown" => phase \in {"starting", "ready", "degraded"}
    /\ pc \in {"drain", "join", "stopping"} => phase = "stopping"
    /\ pc = "exited" => phase \in {"stopping", "stopped"}

LEMMA StageInit == Init => StageShape
BY DEF Init, StageShape

LEMMA StageLoop == TypeOK /\ StageShape /\ Loop => StageShape'
<1> SUFFICES ASSUME TypeOK, StageShape, Loop PROVE StageShape'
    OBVIOUS
<1> USE DEF StageShape
<1>1. CASE StartCoordinator \/ StartSsh \/ StartRouter
      BY <1>1 DEF StartCoordinator, StartSsh, StartRouter, Raise
<1>2. CASE NextBatch \/ BatchPrepared \/ BarrierPasses
      BY <1>2 DEF NextBatch, BatchPrepared, BarrierPasses
<1>3. CASE BarrierRaises \/ FinishBatch \/ LeaveLoading
      BY <1>3 DEF BarrierRaises, FinishBatch, Launched, LeaveLoading
<1>4. CASE \E bad \in SUBSET Engines : MonitorRest(bad)
      BY <1>4 DEF MonitorRest
<1>5. CASE MonitorExits \/ MonitorWakes \/ MonitorReturns
      BY <1>5 DEF MonitorExits, MonitorWakes, MonitorReturns
<1>6. CASE BeginShutdown \/ CloseCoordinator
      BY <1>6 DEF BeginShutdown, CloseCoordinator
<1>7. CASE JoinHeartbeat \/ EndShutdown
      BY <1>7 DEF JoinHeartbeat, EndShutdown
<1> QED BY <1>1, <1>2, <1>3, <1>4, <1>5, <1>6, <1>7 DEF Loop

\* No task and nothing around the loop moves it or announces a phase.
LEMMA TaskKeepsStage ==
    ASSUME NEW i \in Engines, Task(i) PROVE UNCHANGED <<pc, phase>>
BY DEF Task, BeginPrepare, EndPrepare, BeginLaunch, Spawn, CheckEngine, EngineReady,
       EngineNotReady, WaitRaises, HandleRaised, Reaped

LEMMA AroundKeepsStage ==
    ASSUME Children \/ Signal \/ HeartbeatEnds \/ HeartbeatBreaks \/ Environment
    PROVE  UNCHANGED <<pc, phase, engine>>
<1>1. CASE Children
      BY <1>1 DEF Children, StopEngine, EngineExits, StopService, ServiceExits, loopVars
<1>2. CASE Signal \/ HeartbeatEnds \/ HeartbeatBreaks
      BY <1>2 DEF Signal, HeartbeatEnds, HeartbeatBreaks, loopVars
<1>3. CASE Environment
      BY <1>3 DEF Environment, HandlePoll, ReportAges, loopVars
<1> QED BY <1>1, <1>2, <1>3

LEMMA StageNext == TypeOK /\ StageShape /\ [Next]_vars => StageShape'
<1> SUFFICES ASSUME TypeOK, StageShape, [Next]_vars PROVE StageShape'
    OBVIOUS
<1>1. CASE UNCHANGED <<pc, phase>>
      BY <1>1 DEF StageShape
<1>2. CASE Loop
      BY <1>2, StageLoop
<1> QED BY <1>1, <1>2, TaskKeepsStage, AroundKeepsStage
        DEF Next, System, Terminated, vars, loopVars

---------------------------------------------------------------------------
(* The steps.                                                              *)

\* An engine whose task is under way is of a batch, and the phase is "loading".
LEMMA TaskIsLoading ==
    ASSUME TypeOK, BatchShape, StageShape, NEW i \in Engines, task[i] # "none"
    PROVE  phase = "loading" /\ i \in Batch
BY EnginesInt DEF TypeOK, BatchShape, InBatch, Untouched, Batch, StageShape

\* Engines that move on one step, or stay, while the phase is "loading".
LEMMA MovesAreProgress ==
    ASSUME TypeOK, phase = "loading", UNCHANGED phase,
           engine' \in [Engines -> EngineStatus],
           \A i \in Engines : engine'[i] \in {engine[i]} \union D!Onward(engine[i])
    PROVE  D!Progress
BY DEF D!Progress, D!Engines, Engines, EngineStatus

LEMMA TaskProgresses ==
    ASSUME TypeOK, BatchShape, StageShape, NEW i \in Engines, Task(i)
    PROVE  D!Progress
<1>1. task[i] # "none"
      BY DEF Task, BeginPrepare, EndPrepare, BeginLaunch, Spawn, CheckEngine,
             EngineReady, EngineNotReady, WaitRaises, HandleRaised, Reaped
<1>2. phase = "loading" /\ i \in Batch /\ InBatch(i)
      BY <1>1, TaskIsLoading DEF BatchShape
<1>3. engine' \in [Engines -> EngineStatus]
      BY TypeTask DEF TypeOK
<1>4. \A j \in Engines : engine'[j] \in {engine[j]} \union D!Onward(engine[j])
  <2> USE DEF TypeOK, D!Onward
  <2>1. CASE BeginPrepare(i)
        BY <2>1, <1>2 DEF BeginPrepare, InBatch, Untouched
  <2>2. CASE BeginLaunch(i)
        BY <2>2, <1>2 DEF BeginLaunch, InBatch, Untouched
  <2>3. CASE EngineReady(i)
        BY <2>3, <1>2 DEF EngineReady, InBatch, Untouched
  <2>4. CASE HandleRaised(i)
        BY <2>4, <1>2 DEF HandleRaised, Launched, InBatch, Untouched
  <2>5. CASE UNCHANGED engine
        BY <2>5
  <2> QED BY <2>1, <2>2, <2>3, <2>4, <2>5
          DEF Task, EndPrepare, Spawn, CheckEngine, EngineNotReady, WaitRaises, Reaped
<1> QED BY <1>2, <1>3, <1>4, TaskKeepsStage, MovesAreProgress

\* A batch that has prepared, and one that missed the barrier, fail together.
LEMMA BatchProgresses ==
    ASSUME TypeOK, BatchShape, StageShape, BatchPrepared \/ BarrierRaises
    PROVE  D!Progress
<1>1. TypeOK'
      BY TypeLoop DEF Loop
<1>2. phase = "loading" /\ UNCHANGED phase
      BY DEF StageShape, BatchPrepared, BarrierRaises
<1>3. \A i \in Engines : engine'[i] = engine[i]
                          \/ (engine[i] = "preparing" /\ engine'[i] = "failed")
  <2>1. CASE BatchPrepared
        BY <2>1 DEF BatchPrepared, MarkFailed, BatchShape, InBatch, TypeOK, Batch
  <2>2. CASE BarrierRaises
        BY <2>2 DEF BarrierRaises, MarkFailed, Prepared, BatchShape, InBatch, TypeOK, Batch
  <2> QED BY <2>1, <2>2
<1> QED BY <1>1, <1>2, <1>3, MovesAreProgress DEF D!Onward, TypeOK

\* Outside a batch no engine is on its way, and only served ones have a process.
LEMMA Settled ==
    ASSUME TypeOK, BatchShape, pc \notin {"prepare", "barrier", "launch"},
           NEW i \in Engines
    PROVE  /\ engine[i] \in {"pending", "ready", "failed"}
           /\ engine[i] = "pending" => proc[i] = "none"
BY EnginesInt DEF TypeOK, BatchShape, InBatch, Untouched, Batch

LEMMA LeaveAnnounces ==
    ASSUME TypeOK, BatchShape, StageShape, LeaveLoading PROVE D!Announce
<1>1. pc = "batch" /\ phase = "loading" /\ UNCHANGED engine
      BY DEF LeaveLoading, StageShape
<1>2. \A i \in Engines : engine[i] \in {"pending", "ready", "failed"}
      BY <1>1, Settled
<1>3. (AllReady(engine) /\ phase' = "ready") \/ phase' = "degraded"
      BY DEF LeaveLoading
<1> QED BY <1>1, <1>2, <1>3 DEF D!Announce, D!Complete, D!Engines, Engines, AllReady

\* Ready engines that fail after the announcement.
LEMMA LossesShrink ==
    ASSUME TypeOK, phase \in {"ready", "degraded"}, phase' \in {phase, "degraded"},
           engine' \in [Engines -> EngineStatus],
           \A i \in Engines : engine'[i] = engine[i]
                               \/ (engine[i] = "ready" /\ engine'[i] = "failed")
    PROVE  D!Shrink
<1> DEFINE lost == {i \in Engines : engine'[i] # engine[i]}
<1>1. lost \in SUBSET {i \in Engines : engine[i] = "ready"}
      OBVIOUS
<1>2. engine' = [i \in Engines |-> IF i \in lost THEN "failed" ELSE engine[i]]
      BY DEF TypeOK
<1> HIDE DEF lost
<1> QED BY <1>1, <1>2 DEF D!Shrink, D!Engines, Engines

LEMMA MonitorShrinks ==
    ASSUME TypeOK, BatchShape, StageShape,
           MonitorExits \/ \E bad \in SUBSET Engines : MonitorRest(bad)
    PROVE  D!Shrink
<1>1. engine' \in [Engines -> EngineStatus]
      BY TypeLoop DEF Loop, TypeOK
<1>2. CASE MonitorExits
  <2>1. pc = "monitor" /\ phase \in {"ready", "degraded"} /\ UNCHANGED phase
        BY <1>2 DEF MonitorExits, StageShape
  <2>2. \A i \in Gone : engine[i] = "ready"
        BY <2>1, Settled DEF Gone
  <2>3. \A i \in Engines : engine'[i] = engine[i]
                            \/ (engine[i] = "ready" /\ engine'[i] = "failed")
        BY <1>2, <2>2 DEF MonitorExits, MarkFailed
  <2> QED BY <1>1, <2>1, <2>3, LossesShrink
<1>3. CASE \E bad \in SUBSET Engines : MonitorRest(bad)
  <2>1. PICK bad \in SUBSET Engines : MonitorRest(bad)
        BY <1>3
  <2>2. phase \in {"ready", "degraded"} /\ phase' \in {phase, "degraded"}
        BY <2>1 DEF MonitorRest, StageShape
  <2> QED BY <1>1, <2>1, <2>2, MonitorRestEngine, LossesShrink
<1> QED BY <1>2, <1>3

\* Every step of the main coroutine maps to a step of Deployment or to none.
LEMMA LoopImplements ==
    ASSUME TypeOK, BatchShape, StageShape, Loop PROVE [D!Next]_D!vars
<1> USE DEF D!Next, D!vars
<1>1. CASE StartCoordinator \/ StartSsh
      BY <1>1 DEF StartCoordinator, StartSsh
<1>2. CASE StartRouter
      BY <1>2 DEF StartRouter, StageShape, D!Begin
<1>3. CASE NextBatch \/ BarrierPasses \/ FinishBatch
      BY <1>3 DEF NextBatch, BarrierPasses, FinishBatch
<1>4. CASE BatchPrepared \/ BarrierRaises
      BY <1>4, BatchProgresses
<1>5. CASE LeaveLoading
      BY <1>5, LeaveAnnounces
<1>6. CASE MonitorExits \/ \E bad \in SUBSET Engines : MonitorRest(bad)
      BY <1>6, MonitorShrinks
<1>7. CASE MonitorWakes \/ MonitorReturns \/ CloseCoordinator \/ JoinHeartbeat
      BY <1>7 DEF MonitorWakes, MonitorReturns, CloseCoordinator, JoinHeartbeat
<1>8. CASE BeginShutdown \/ EndShutdown
      BY <1>8 DEF BeginShutdown, EndShutdown, StageShape, D!Stop
<1> QED BY <1>1, <1>2, <1>3, <1>4, <1>5, <1>6, <1>7, <1>8 DEF Loop

LEMMA StepImplements ==
    ASSUME TypeOK, BatchShape, StageShape, [Next]_vars PROVE [D!Next]_D!vars
<1>1. CASE Loop
      BY <1>1, LoopImplements
<1>2. CASE \E i \in Engines : Task(i)
      BY <1>2, TaskProgresses DEF D!Next
<1>3. CASE UNCHANGED <<phase, engine>>
      BY <1>3 DEF D!vars
<1> QED BY <1>1, <1>2, <1>3, AroundKeepsStage DEF Next, System, Terminated, vars, loopVars

\* What the state file shows of a primary is a behaviour of Deployment
\* (supervisor.py:190-279, 458-503, 640-660).
THEOREM ImplementsDeploymentSafely == Spec => D!Spec
<1>1. Init => StageShape /\ D!Init
      BY StageInit DEF Init, D!Init, D!Engines, Engines
<1>2. TypeOK /\ BatchShape /\ StageShape /\ [Next]_vars
          => StageShape' /\ [D!Next]_D!vars
      BY StageNext, StepImplements
<1> QED BY <1>1, <1>2, BatchShapeHolds, PTL DEF Spec, D!Spec

---------------------------------------------------------------------------
(* The node: each of its steps is a step of the supervisor or none.        *)

LEMMA SupervisorSteps == SupervisorStep => Next
BY DEF SupervisorStep, Next, System, Children

LEMMA ChildSteps == ChildExits => Next
BY DEF ChildExits, Next, System, Children

LEMMA HealthCheckKeeps == HealthCheck => UNCHANGED <<vars, file, age, hung>>
BY DEF HealthCheck, ReadFile, CheckPids, ProbeRouter, CheckEnginePid, EnginesChecked,
       CheckSshd, CheckOnly

LEMMA NodeSteps == [NodeNext]_nodeVars => [Next]_vars
<1> SUFFICES ASSUME [NodeNext]_nodeVars PROVE [Next]_vars
    OBVIOUS
<1>1. CASE SupervisorStep \/ ChildExits
      BY <1>1, SupervisorSteps, ChildSteps
<1>2. CASE InitializeState \/ Ages
      BY <1>2 DEF InitializeState, Ages
<1>3. CASE HealthCheck
      BY <1>3, HealthCheckKeeps
<1>4. CASE Terminated
      BY <1>4 DEF Terminated
<1>5. CASE UNCHANGED nodeVars
      BY <1>5 DEF nodeVars
<1> QED BY <1>1, <1>2, <1>3, <1>4, <1>5 DEF NodeNext

\* A primary with a file, a hung loop and a health check is a primary: whatever
\* holds of every behaviour of the supervisor holds of the node's.
THEOREM NodeImplementsPrimary == NodeSpec => Spec
<1>1. NodeInit => Init
      BY DEF NodeInit
<1> QED BY <1>1, NodeSteps, PTL DEF NodeSpec, Spec

---------------------------------------------------------------------------
(* Type correctness of the file and the check.                             *)

LEMMA SnapshotType ==
    ASSUME TypeOK
    PROVE  /\ Snapshot.life = "this" /\ Snapshot.phase = phase /\ Snapshot.engine = engine
           /\ Snapshot.service \in [Services -> {"off", "running", "failed"}]
BY DEF TypeOK, Snapshot, Services

LEMMA FormerType ==
    ASSUME NEW last \in {"ready", "stopped"}, NEW ssh \in {"off", "running"}
    PROVE  /\ Former(last, ssh).life = "former" /\ Former(last, ssh).phase = last
           /\ Former(last, ssh).engine \in [Engines -> EngineStatus]
           /\ Former(last, ssh).service \in [Services -> {"off", "running", "failed"}]
BY DEF Former, Services, EngineStatus

\* The first half of NodeTypeOK and the second, by who changes them.
FileType ==
    /\ file = Absent \/
          /\ file.life \in {"former", "this"}
          /\ file.phase \in {"starting", "loading", "ready", "degraded", "stopping",
                             "stopped"}
          /\ file.engine \in [Engines -> EngineStatus]
          /\ file.service \in [Services -> {"off", "running", "failed"}]
    /\ age \in {"fresh", "late", "stale"}
    /\ hung \in BOOLEAN

CheckType ==
    check \in [at : {"idle", "pids", "probe", "engines", "sshd", "healthy",
                     "unhealthy"},
               life : {"none", "former", "this"}, next : 1..N + 1,
               ssh : BOOLEAN, served : BOOLEAN]

LEMMA NodeTypeHalves == NodeTypeOK <=> FileType /\ CheckType
BY DEF NodeTypeOK, FileType, CheckType

LEMMA NewCheckType ==
    ASSUME NEW at \in {"idle", "pids", "unhealthy"},
           NEW life \in {"none", "former", "this"}, NEW ssh \in BOOLEAN,
           check = [at |-> at, life |-> life, next |-> 1, ssh |-> ssh, served |-> FALSE]
    PROVE  CheckType
<1>1. 1 \in 1..N + 1
      OBVIOUS
<1> QED BY <1>1 DEF CheckType

LEMMA NodeTypeInit == NodeInit => NodeTypeOK
<1> SUFFICES ASSUME NodeInit PROVE FileType /\ CheckType
    BY NodeTypeHalves
<1>1. FileType
  <2>1. age \in {"fresh", "late", "stale"}
        BY DEF NodeInit
  <2>2. hung \in BOOLEAN
        BY DEF NodeInit
  <2>3. CASE file = Absent
        BY <2>1, <2>2, <2>3 DEF FileType
  <2>4. CASE \E last \in {"ready", "stopped"}, ssh \in {"off", "running"} :
                file = Former(last, ssh)
        BY <2>1, <2>2, <2>4, FormerType DEF FileType
  <2>5. file = Absent \/ \E last \in {"ready", "stopped"}, ssh \in {"off", "running"} :
                             file = Former(last, ssh)
        BY DEF NodeInit
  <2> QED BY <2>3, <2>4, <2>5
<1>2. CheckType
      BY NewCheckType DEF NodeInit, NoCheck
<1> QED BY <1>1, <1>2

LEMMA FileTypeNext ==
    ASSUME TypeOK, TypeOK', FileType, [NodeNext]_nodeVars PROVE FileType'
<1>1. CASE UNCHANGED <<file, age, hung>>
      BY <1>1 DEF FileType
<1>2. CASE InitializeState
  <2>1. age' \in {"fresh", "late", "stale"} /\ hung' \in BOOLEAN
        BY <1>2 DEF InitializeState, FileType
  <2> QED BY <1>2, <2>1, SnapshotType DEF InitializeState, FileType, TypeOK
<1>3. CASE SupervisorStep
  <2>1. age' \in {"fresh", "late", "stale"}
        BY <1>3 DEF SupervisorStep, FileType
  <2>2. hung' \in BOOLEAN
        BY <1>3 DEF SupervisorStep, FileType
  <2>3. CASE file' = Snapshot'
    <3>1. /\ Snapshot'.life = "this" /\ Snapshot'.phase = phase'
          /\ Snapshot'.engine = engine'
          /\ Snapshot'.service \in [Services -> {"off", "running", "failed"}]
          BY DEF TypeOK, Snapshot, Services
    <3> QED BY <2>1, <2>2, <2>3, <3>1 DEF FileType, TypeOK
  <2>4. CASE file' = file
        BY <2>1, <2>2, <2>4 DEF FileType
  <2> QED BY <1>3, <2>3, <2>4 DEF SupervisorStep, Interrupted
<1>4. CASE Ages
      BY <1>4 DEF Ages, FileType
<1> QED BY <1>1, <1>2, <1>3, <1>4, HealthCheckKeeps
        DEF NodeNext, ChildExits, nodeVars

\* Where a check goes and what it takes along.
LEMMA GoesTo ==
    ASSUME CheckType, NEW to \in {"probe", "engines", "sshd", "healthy"}, Goes(to),
           to = "engines" /\ check.at = to => check.next <= N
    PROVE  /\ CheckType'
           /\ check'.at = to /\ check'.life = check.life
           /\ check'.served <=> check.served \/ Serving
           /\ check'.next = IF to = "engines" /\ check.at = to THEN check.next + 1 ELSE 1
<1> DEFINE next == IF to = "engines" /\ check.at = to THEN check.next + 1 ELSE 1
           served == check.served \/ Serving
<1>1. next \in 1..N + 1
      BY DEF CheckType
<1>2. served \in BOOLEAN
      OBVIOUS
<1>3. check' = [check EXCEPT !.at = to, !.served = served, !.next = next]
      BY DEF Goes
<1> HIDE DEF next, served
<1>4. CheckType'
      BY <1>1, <1>2, <1>3 DEF CheckType
<1>5. /\ check'.at = to /\ check'.life = check.life
      /\ check'.served = served /\ check'.next = next
      BY <1>3 DEF CheckType
<1> QED BY <1>4, <1>5 DEF next, served

LEMMA CheckTypeNext ==
    ASSUME TypeOK, FileType, CheckType, [NodeNext]_nodeVars PROVE CheckType'
<1>1. CASE UNCHANGED check
      BY <1>1 DEF CheckType
<1>2. CASE Fails
  <2>1. check' = [at |-> "unhealthy", life |-> "none", next |-> 1, ssh |-> FALSE,
                  served |-> FALSE]
        BY <1>2 DEF Fails, NoCheck
  <2>2. 1 \in 1..N + 1
        OBVIOUS
  <2> QED BY <2>1, <2>2 DEF CheckType
<1>3. CASE ReadFile /\ ~Fails
  <2> DEFINE ssh == file.service["sshd"] = "running"
  <2>1. /\ file.life \in {"former", "this"}
        /\ check' = [at |-> "pids", life |-> file.life, next |-> 1, ssh |-> ssh,
                     served |-> FALSE]
        BY <1>3 DEF ReadFile, Acceptable, Ready
  <2>2. ssh \in BOOLEAN /\ 1 \in 1..N + 1
        OBVIOUS
  <2> HIDE DEF ssh
  <2> QED BY <2>1, <2>2 DEF CheckType
<1>4. CASE CheckPids
      BY <1>2, <1>4, GoesTo DEF CheckPids
<1>5. CASE ProbeRouter
      BY <1>2, <1>5, GoesTo DEF ProbeRouter
<1>6. CASE CheckEnginePid
      BY <1>2, <1>6, GoesTo DEF CheckEnginePid
<1>7. CASE EnginesChecked
      BY <1>7, GoesTo DEF EnginesChecked
<1>8. CASE CheckSshd
      BY <1>2, <1>8, GoesTo DEF CheckSshd
<1> QED BY <1>1, <1>2, <1>3, <1>4, <1>5, <1>6, <1>7, <1>8
        DEF NodeNext, HealthCheck, InitializeState, SupervisorStep, ChildExits, Ages,
            nodeVars

LEMMA NodeTypeNext ==
    TypeOK /\ TypeOK' /\ NodeTypeOK /\ [NodeNext]_nodeVars => NodeTypeOK'
<1> SUFFICES ASSUME TypeOK, TypeOK', NodeTypeOK, [NodeNext]_nodeVars PROVE NodeTypeOK'
    OBVIOUS
<1>1. FileType /\ CheckType
      BY NodeTypeHalves
<1>2. FileType' /\ CheckType'
      BY <1>1, FileTypeNext, CheckTypeNext
<1> QED BY <1>2 DEF NodeTypeOK, FileType, CheckType

\* The file and the check hold only what their writers put there, whichever life
\* of the container wrote the file (state.py:30-45, healthcheck.py:16-82).
THEOREM NodeTypeCorrect == NodeSpec => [](TypeOK /\ NodeTypeOK)
<1>1. NodeInit => NodeTypeOK
      BY NodeTypeInit
<1>2. NodeSpec => []TypeOK
      BY NodeImplementsPrimary, TypeCorrect, PTL
<1>3. TypeOK /\ TypeOK' /\ NodeTypeOK /\ [NodeNext]_nodeVars => NodeTypeOK'
      BY NodeTypeNext
<1> QED BY <1>1, <1>2, <1>3, PTL DEF NodeSpec

---------------------------------------------------------------------------
(* What the file says.                                                     *)

\* A process that was started is never unstarted, one that has exited stays so,
\* and an engine is announced ready only when it has a process.
ServedHaveProcess == \A i \in Engines : engine[i] = "ready" => proc[i] # "none"

ProcessesRemain ==
    \A i \in Engines :
        /\ proc[i] # "none" => proc'[i] # "none"
        /\ proc[i] = "exited" => proc'[i] = "exited"
        /\ engine'[i] = "ready" => engine[i] = "ready" \/ proc[i] # "none"

LEMMA RemainLoop == TypeOK /\ Loop => ProcessesRemain
<1> SUFFICES ASSUME TypeOK, Loop PROVE ProcessesRemain
    OBVIOUS
<1> USE DEF ProcessesRemain, TypeOK, procVars
<1>1. CASE StartCoordinator \/ StartSsh \/ StartRouter
      BY <1>1 DEF StartCoordinator, StartSsh, StartRouter
<1>2. CASE NextBatch \/ BarrierPasses \/ FinishBatch \/ LeaveLoading
      BY <1>2 DEF NextBatch, BarrierPasses, FinishBatch, LeaveLoading
<1>3. CASE BatchPrepared \/ BarrierRaises \/ MonitorExits
      BY <1>3 DEF BatchPrepared, BarrierRaises, MonitorExits, MarkFailed
<1>4. CASE \E bad \in SUBSET Engines : MonitorRest(bad)
  <2>1. PICK bad \in SUBSET Engines : MonitorRest(bad)
        BY <1>4
  <2> QED BY <2>1, MonitorRestEngine DEF MonitorRest
<1>5. CASE MonitorWakes \/ MonitorReturns
      BY <1>5 DEF MonitorWakes, MonitorReturns
<1>6. CASE BeginShutdown \/ CloseCoordinator \/ JoinHeartbeat \/ EndShutdown
      BY <1>6 DEF BeginShutdown, CloseCoordinator, JoinHeartbeat, EndShutdown
<1> QED BY <1>1, <1>2, <1>3, <1>4, <1>5, <1>6 DEF Loop

LEMMA RemainTask ==
    ASSUME TypeOK, BatchShape, NEW i \in Engines, Task(i) PROVE ProcessesRemain
<1> USE DEF ProcessesRemain, TypeOK, procVars
<1>1. CASE BeginPrepare(i) \/ BeginLaunch(i) \/ HandleRaised(i)
      BY <1>1 DEF BeginPrepare, BeginLaunch, HandleRaised
<1>2. CASE EngineReady(i)
      BY <1>2, EnginesInt DEF EngineReady, BatchShape, InBatch, Untouched, Batch
<1>3. CASE Spawn(i)
      BY <1>3, EnginesInt DEF Spawn, BatchShape, InBatch, Untouched, Batch
<1>4. CASE EndPrepare(i) \/ CheckEngine(i) \/ EngineNotReady(i) \/ WaitRaises(i)
      BY <1>4 DEF EndPrepare, CheckEngine, EngineNotReady, WaitRaises
<1>5. CASE Reaped(i)
      BY <1>5 DEF Reaped
<1> QED BY <1>1, <1>2, <1>3, <1>4, <1>5 DEF Task

LEMMA RemainNext ==
    ASSUME TypeOK, BatchShape, [Next]_vars PROVE ProcessesRemain
<1> USE DEF ProcessesRemain, TypeOK, loopVars, procVars
<1>1. CASE \E i \in Engines : StopEngine(i) \/ EngineExits(i)
      BY <1>1 DEF StopEngine, EngineExits
<1>2. CASE \E s \in Services : StopService(s) \/ ServiceExits(s)
      BY <1>2 DEF StopService, ServiceExits
<1>3. CASE Signal \/ HeartbeatEnds \/ HeartbeatBreaks
      BY <1>3 DEF Signal, HeartbeatEnds, HeartbeatBreaks
<1>4. CASE Environment
      BY <1>4 DEF Environment, HandlePoll, ReportAges
<1>5. CASE UNCHANGED vars
      BY <1>5 DEF vars
<1> QED BY <1>1, <1>2, <1>3, <1>4, <1>5, RemainLoop, RemainTask
        DEF Next, System, Children, Terminated

LEMMA ServedNext ==
    ASSUME TypeOK, BatchShape, ServedHaveProcess, [Next]_vars PROVE ServedHaveProcess'
BY RemainNext DEF ServedHaveProcess, ProcessesRemain

\* The supervisor is over once a write of its shutdown has failed, and does nothing
\* more.
LEMMA ExitedIsFinal ==
    ASSUME TypeOK, BatchShape, StageShape, SupervisorStep PROVE pc # "exited"
<1>1. ASSUME Loop PROVE pc # "exited"
      BY <1>1 DEF Loop, StartCoordinator, StartSsh, StartRouter, NextBatch, BatchPrepared,
                  BarrierPasses, BarrierRaises, FinishBatch, Launched, LeaveLoading,
                  MonitorRest, MonitorExits, MonitorWakes, MonitorReturns, BeginShutdown,
                  CloseCoordinator, JoinHeartbeat, EndShutdown
<1>2. ASSUME NEW i \in Engines, Task(i) PROVE pc # "exited"
  <2>1. task[i] # "none"
        BY <1>2 DEF Task, BeginPrepare, EndPrepare, BeginLaunch, Spawn, CheckEngine,
                    EngineReady, EngineNotReady, WaitRaises, HandleRaised, Reaped
  <2> QED BY <2>1, TaskIsLoading DEF StageShape
<1> QED BY <1>1, <1>2
        DEF SupervisorStep, StopEngine, StopService, Signal, HeartbeatEnds, HeartbeatBreaks

LEMMA WritesFail == TypeOK /\ [Next]_vars => unwritten' = unwritten \/ unwritten' # {}
<1> SUFFICES ASSUME TypeOK, [Next]_vars PROVE unwritten' = unwritten \/ unwritten' # {}
    OBVIOUS
<1>1. CASE Loop
      BY <1>1 DEF Loop, StartCoordinator, StartSsh, StartRouter, NextBatch, BatchPrepared,
                  BarrierPasses, BarrierRaises, FinishBatch, LeaveLoading, MonitorRest,
                  MonitorExits, MonitorWakes, MonitorReturns, BeginShutdown,
                  CloseCoordinator, JoinHeartbeat, EndShutdown, writeVars
<1>2. ASSUME NEW i \in Engines, Task(i) PROVE UNCHANGED unwritten
      BY <1>2 DEF Task, BeginPrepare, EndPrepare, BeginLaunch, Spawn, CheckEngine,
                  EngineReady, EngineNotReady, WaitRaises, HandleRaised, Reaped, writeVars
<1>3. CASE Children \/ Signal \/ HeartbeatEnds \/ HeartbeatBreaks \/ Environment
      BY <1>3 DEF Children, StopEngine, EngineExits, StopService, ServiceExits, Signal,
                  HeartbeatEnds, HeartbeatBreaks, Environment, HandlePoll, ReportAges,
                  writeVars
<1>4. CASE UNCHANGED vars
      BY <1>4 DEF vars, writeVars
<1> QED BY <1>1, <1>2, <1>3, <1>4 DEF Next, System, Terminated

\* Until this life has written the file, nothing has been started.  From then on
\* the file is the supervisor's state, or what that was when the loop hung or when
\* a write of the shutdown failed.
FileShape ==
    /\ file.life # "this" =>
          /\ phase = "starting" /\ engine = [i \in Engines |-> "pending"]
          /\ \A s \in Services : service[s] = "off"
    /\ file.life = "this" /\ ~hung /\ unwritten = {} => file = Snapshot
    /\ file.life = "this" =>
          \A i \in Engines : file.engine[i] = "ready" => proc[i] # "none"

LEMMA FileShapeInit == NodeInit => FileShape /\ ServedHaveProcess
<1> SUFFICES ASSUME NodeInit PROVE FileShape /\ ServedHaveProcess
    OBVIOUS
<1>1. file.life # "this"
      BY FormerType DEF NodeInit, Absent
<1>2. /\ phase = "starting" /\ engine = [i \in Engines |-> "pending"]
      /\ \A s \in Services : service[s] = "off"
      BY DEF NodeInit, Init
<1> QED BY <1>1, <1>2 DEF FileShape, ServedHaveProcess

LEMMA FileShapeNext ==
    ASSUME TypeOK, BatchShape, FileShape, ServedHaveProcess, [NodeNext]_nodeVars
    PROVE  FileShape'
<1>1. ProcessesRemain /\ ServedHaveProcess'
      BY NodeSteps, RemainNext, ServedNext
<1>2. CASE UNCHANGED <<vars, file, hung>>
      BY <1>2 DEF FileShape, Snapshot, vars, loopVars, procVars, writeVars
<1>3. CASE InitializeState
  <2>1. file'.life = "this" /\ file' = Snapshot' /\ file'.engine = engine'
        BY <1>3, SnapshotType DEF InitializeState, Snapshot, vars, loopVars, procVars
  <2> QED BY <1>1, <2>1 DEF FileShape, ServedHaveProcess
<1>4. CASE SupervisorStep
  <2>1. CASE file' = Snapshot' /\ UNCHANGED hung
    <3>1. file'.life = "this" /\ file'.engine = engine'
          BY <2>1 DEF Snapshot
    <3> QED BY <1>1, <2>1, <3>1 DEF FileShape, ServedHaveProcess
  <2>2. CASE file' = file /\ (hung' \/ unwritten' # {})
        BY <1>1, <1>4, <2>2 DEF SupervisorStep, FileShape, ProcessesRemain
  <2>3. unwritten' = unwritten \/ unwritten' # {}
        BY NodeSteps, WritesFail
  <2> QED BY <1>4, <2>1, <2>2, <2>3 DEF SupervisorStep, Interrupted
<1>5. CASE ChildExits
  <2>1. UNCHANGED <<file, hung, phase, engine, unwritten>>
        BY <1>5 DEF ChildExits, EngineExits, ServiceExits, loopVars, writeVars
  <2>2. file.life = "this" /\ ~hung => Snapshot' = Snapshot
        BY <1>5 DEF ChildExits, EngineExits, ServiceExits, loopVars, Snapshot, TypeOK
  <2>3. (\A s \in Services : service[s] = "off") => UNCHANGED service
        BY <1>5 DEF ChildExits, EngineExits, ServiceExits
  <2> QED BY <1>1, <2>1, <2>2, <2>3 DEF FileShape, ProcessesRemain
<1>6. CASE HealthCheck \/ Ages \/ (Terminated /\ UNCHANGED <<file, age, hung, check>>)
      BY <1>2, <1>6, HealthCheckKeeps DEF Ages, Terminated
<1> QED BY <1>2, <1>3, <1>4, <1>5, <1>6 DEF NodeNext, nodeVars

---------------------------------------------------------------------------
(* What the health check has seen.                                         *)

\* A check that has passed the probe saw the service whole, or will still look at
\* an engine whose process is gone; one that has passed the engines saw it whole.
CheckShape ==
    /\ check.at \in {"pids", "probe", "engines"} => check.life # "none"
    /\ check.at = "engines" =>
          \/ check.served
          \/ check.life = "this" /\ \E i \in check.next..N : proc[i] = "exited"
    /\ check.at \in {"sshd", "healthy"} => check.served

\* The probe of a ready router: every engine's process is there, or has exited.
LEMMA ProbeSees ==
    ASSUME TypeOK, CheckType, FileShape, check.at = "probe", check.life # "none",
           service["router"] = "running", Readiness
    PROVE  Serving \/ (check.life = "this" /\ \E i \in Engines : proc[i] = "exited")
<1>1. file.life = "this" /\ Ready(file)
      BY DEF FileShape, Services, Readiness
<1>2. \A i \in Engines : proc[i] \in {"running", "exited"}
      BY <1>1 DEF FileShape, Ready, TypeOK
<1>3. CASE check.life = "former"
      BY <1>1, <1>3 DEF Serving, PidExists
<1>4. CASE check.life = "this"
      BY <1>1, <1>2, <1>4 DEF Serving, PidExists
<1> QED BY <1>3, <1>4 DEF CheckType

LEMMA CheckShapeProbe ==
    ASSUME TypeOK, CheckType, FileShape, CheckShape, ProbeRouter PROVE CheckShape'
<1>1. check.at = "probe" /\ check.life # "none" /\ UNCHANGED proc
      BY DEF ProbeRouter, CheckShape, CheckOnly, vars, procVars
<1>2. CASE Fails
      BY <1>2 DEF Fails, NoCheck, CheckShape
<1>3. CASE service["router"] = "running" /\ Readiness /\ Goes("engines")
  <2>1. /\ check'.at = "engines" /\ check'.life = check.life /\ check'.next = 1
        /\ check'.served <=> check.served \/ Serving
        BY <1>1, <1>3, GoesTo
  <2>2. Serving \/ (check.life = "this" /\ \E i \in Engines : proc[i] = "exited")
        BY <1>1, <1>3, ProbeSees
  <2> QED BY <1>1, <2>1, <2>2 DEF CheckShape, Engines
<1> QED BY <1>2, <1>3 DEF ProbeRouter

LEMMA CheckShapeEngine ==
    ASSUME TypeOK, CheckType, CheckShape, CheckEnginePid PROVE CheckShape'
<1>1. check.at = "engines" /\ check.life # "none" /\ check.next <= N /\ UNCHANGED proc
      BY DEF CheckEnginePid, CheckShape, CheckOnly, vars, procVars
<1>2. CASE Fails
      BY <1>2 DEF Fails, NoCheck, CheckShape
<1>3. CASE PidExists(proc[check.next] = "running") /\ Goes("engines")
  <2>1. /\ check'.at = "engines" /\ check'.life = check.life
        /\ check'.next = check.next + 1
        /\ check'.served <=> check.served \/ Serving
        BY <1>1, <1>3, GoesTo
  <2>2. CASE check.served
        BY <1>1, <2>1, <2>2 DEF CheckShape
  <2>3. CASE check.life = "this" /\ \E i \in check.next..N : proc[i] = "exited"
    <3>1. PICK i \in check.next..N : proc[i] = "exited"
          BY <2>3
    <3>2. i # check.next
          BY <1>3, <2>3, <3>1 DEF PidExists
    <3>3. i \in check'.next..N
          BY <2>1, <3>1, <3>2 DEF CheckType
    <3> QED BY <1>1, <2>1, <2>3, <3>1, <3>3 DEF CheckShape
  <2> QED BY <1>1, <2>2, <2>3 DEF CheckShape
<1> QED BY <1>2, <1>3 DEF CheckEnginePid

LEMMA CheckShapeNext ==
    ASSUME TypeOK, BatchShape, CheckType, FileShape, CheckShape, [NodeNext]_nodeVars
    PROVE  CheckShape'
<1>1. CASE UNCHANGED check
  <2>1. \A i \in Engines : proc[i] = "exited" => proc'[i] = "exited"
        BY NodeSteps, RemainNext DEF ProcessesRemain
  <2>2. check.next..N \subseteq Engines
        BY DEF CheckType, Engines
  <2> QED BY <1>1, <2>1, <2>2 DEF CheckShape
<1>2. CASE ReadFile
      BY <1>2 DEF ReadFile, Acceptable, Ready, Fails, NoCheck, CheckShape
<1>3. CASE CheckPids
  <2>1. CASE Fails
        BY <2>1 DEF Fails, NoCheck, CheckShape
  <2>2. CASE Goes("probe")
        BY <1>3, <2>2, GoesTo DEF CheckPids, CheckShape
  <2> QED BY <1>3, <2>1, <2>2 DEF CheckPids
<1>4. CASE EnginesChecked
  <2>1. check.at = "engines" /\ check.next..N = {} /\ Goes("sshd")
        BY <1>4 DEF EnginesChecked, CheckType
  <2> QED BY <2>1, GoesTo DEF CheckShape
<1>5. CASE CheckSshd
  <2>1. CASE Fails
        BY <2>1 DEF Fails, NoCheck, CheckShape
  <2>2. CASE Goes("healthy")
        BY <1>5, <2>2, GoesTo DEF CheckSshd, CheckShape
  <2> QED BY <1>5, <2>1, <2>2 DEF CheckSshd
<1> QED BY <1>1, <1>2, <1>3, <1>4, <1>5, CheckShapeProbe, CheckShapeEngine
        DEF NodeNext, HealthCheck, InitializeState, SupervisorStep, ChildExits, Ages,
            nodeVars

\* What the proofs of the node rest on, all of it inductive together.
NodeShape == FileShape /\ ServedHaveProcess /\ CheckShape

LEMMA NodeShapeNext ==
    ASSUME TypeOK, BatchShape, NodeTypeOK, NodeShape, [NodeNext]_nodeVars
    PROVE  NodeShape'
BY NodeTypeHalves, NodeSteps, FileShapeNext, ServedNext, CheckShapeNext DEF NodeShape

LEMMA NodeShapeHolds == NodeSpec => [](TypeOK /\ BatchShape /\ NodeShape)
<1>1. NodeInit => NodeShape
  <2>1. NodeInit => CheckShape
        BY DEF NodeInit, NoCheck, CheckShape
  <2> QED BY <2>1, FileShapeInit DEF NodeShape
<1>2. NodeSpec => [](TypeOK /\ BatchShape)
      BY NodeImplementsPrimary, BatchShapeHolds, PTL
<1>3. TypeOK /\ BatchShape /\ NodeTypeOK /\ NodeShape /\ [NodeNext]_nodeVars
          => NodeShape'
      BY NodeShapeNext
<1> QED BY <1>1, <1>2, <1>3, NodeTypeCorrect, PTL DEF NodeSpec

\* A check that ends "healthy" found, at one moment, this life's announcement that
\* every engine is ready and, unless it had begun with a former life's file, every
\* engine's process (healthcheck.py:16-82).
THEOREM HealthyHolds == NodeSpec => []HealthyMeansServing
<1>1. NodeShape => HealthyMeansServing
      BY DEF NodeShape, CheckShape, HealthyMeansServing
<1> QED BY <1>1, NodeShapeHolds, PTL

---------------------------------------------------------------------------
(* The file itself is a deployment.                                        *)

\* What the file says of this life: nothing yet, while it is a former life's.
FileEngine == IF file.life = "this" THEN file.engine ELSE [i \in Engines |-> "pending"]
FilePhase == IF file.life = "this" THEN file.phase ELSE "starting"

F == INSTANCE Deployment WITH engine <- FileEngine, phase <- FilePhase

\* As long as the loop runs, the file says what the supervisor's state is.
LEMMA FileTells ==
    ASSUME FileShape, (~hung /\ unwritten = {}) \/ file.life # "this"
    PROVE  FileEngine = engine /\ FilePhase = phase
BY DEF FileShape, FileEngine, FilePhase, Snapshot

\* Hence a step of the supervisor's deployment is one of the file's.
LEMMA SameDeployment ==
    ASSUME FileEngine = engine, FilePhase = phase, FileEngine' = engine',
           FilePhase' = phase', [D!Next]_D!vars
    PROVE  [F!Next]_F!vars
<1>1. CASE D!Begin \/ D!Stop \/ D!Withdraw
      BY <1>1 DEF D!Begin, D!Stop, D!Withdraw, D!Complete, D!Engines, F!Next, F!Begin,
                  F!Stop, F!Withdraw, F!Complete, F!Engines
<1>2. CASE D!Progress
      BY <1>2 DEF D!Progress, D!Engines, D!Onward, F!Next, F!Progress, F!Engines, F!Onward
<1>3. CASE D!Announce
      BY <1>3 DEF D!Announce, D!Complete, D!Engines, F!Next, F!Announce, F!Complete,
                  F!Engines
<1>4. CASE D!Shrink
      BY <1>4 DEF D!Shrink, D!Engines, F!Next, F!Shrink, F!Engines
<1>5. CASE UNCHANGED D!vars
      BY <1>5 DEF D!vars, F!vars
<1> QED BY <1>1, <1>2, <1>3, <1>4, <1>5 DEF D!Next

LEMMA FileStep ==
    ASSUME TypeOK, BatchShape, StageShape, ChildShape, FileShape, FileShape',
           [NodeNext]_nodeVars
    PROVE  [F!Next]_F!vars
<1>1. CASE UNCHANGED file
      BY <1>1 DEF F!vars, FileEngine, FilePhase
<1>2. CASE InitializeState
      BY <1>2, SnapshotType
         DEF InitializeState, FileShape, F!vars, FileEngine, FilePhase
<1>3. CASE SupervisorStep /\ file' = Snapshot' /\ UNCHANGED hung
  <2>1. [D!Next]_D!vars
        BY <1>3, SupervisorSteps, StepImplements
  <2>2. FileEngine = engine /\ FilePhase = phase
    <3>1. unwritten = {}
          BY <1>3, ExitedIsFinal DEF ChildShape
    <3> QED BY <1>3, <3>1, FileTells DEF SupervisorStep
  <2>3. FileEngine' = engine' /\ FilePhase' = phase'
        BY <1>3 DEF FileEngine, FilePhase, Snapshot
  <2> QED BY <2>1, <2>2, <2>3, SameDeployment
<1> QED BY <1>1, <1>2, <1>3, HealthCheckKeeps
        DEF NodeNext, SupervisorStep, Interrupted, ChildExits, Ages, nodeVars

\* A reader that looks at the file whenever it likes sees a behaviour of Deployment:
\* the life of each engine in order, one announcement, of settled batches, and its
\* withdrawal, and no step of it twice or torn, whatever a former life left and
\* wherever the loop hangs or a write of the shutdown fails (state.py:23-42).
THEOREM FileImplementsDeployment == NodeSpec => F!Spec
<1>1. NodeInit => F!Init
  <2>1. NodeInit => file.life # "this"
        BY FormerType DEF NodeInit, Absent
  <2> QED BY <2>1 DEF F!Init, F!Engines, Engines, FileEngine, FilePhase
<1>2. Init /\ [][Next]_vars => []StageShape
  <2>1. Init => StageShape
        BY StageInit
  <2>2. TypeOK /\ StageShape /\ [Next]_vars => StageShape'
        BY StageNext
  <2> QED BY <2>1, <2>2, TypeCorrect, PTL DEF Spec
<1>3. NodeSpec => [](TypeOK /\ BatchShape /\ StageShape /\ ChildShape /\ FileShape)
  <2>1. NodeShape => FileShape
        BY DEF NodeShape
  <2>2. Calm => ChildShape
        BY DEF Calm
  <2> QED BY <1>2, <2>1, <2>2, NodeImplementsPrimary, NodeShapeHolds, CalmHolds, PTL
          DEF Spec
<1>4. TypeOK /\ BatchShape /\ StageShape /\ ChildShape /\ FileShape /\ FileShape'
      /\ [NodeNext]_nodeVars
          => [F!Next]_F!vars
      BY FileStep
<1> QED BY <1>1, <1>3, <1>4, PTL DEF NodeSpec, F!Spec
=============================================================================
