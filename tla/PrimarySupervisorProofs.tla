---------------------- MODULE PrimarySupervisorProofs ----------------------
(***************************************************************************)
(* Theorems about PrimarySupervisor, for any number of models, any startup *)
(* parallelism and any set of workers: the shape of a batched startup, and *)
(* from it, with four small invariants, the safety properties.             *)
(***************************************************************************)
EXTENDS PrimarySupervisor, FiniteSetTheorems, TLAPS

USE NAssumption, ParallelismAssumption, WriteFaultsAssumption

---------------------------------------------------------------------------
(* What the helpers return.                                                *)

\* Marking engines failed yields engine states again.
LEMMA MarkFailedType ==
    ASSUME NEW states \in [Engines -> EngineStatus], NEW ids
    PROVE  MarkFailed(states, ids) \in [Engines -> EngineStatus]
BY DEF MarkFailed, EngineStatus

\* The desired set names configured engines only.
LEMMA DesiredType ==
    ASSUME NEW states
    PROVE  DesiredOf(states) \in SUBSET Engines
BY DEF DesiredOf

---------------------------------------------------------------------------
(* Type correctness.                                                       *)

LEMMA TypeInit == Init => TypeOK
<1> SUFFICES ASSUME Init PROVE TypeOK
    OBVIOUS
<1>1. /\ pc = "bind" /\ phase = "starting" /\ heartbeat = "running" /\ unwritten = {}
      /\ first \in Nat \ {0} /\ desired \in SUBSET Engines
      BY DEF Init
<1>2. /\ failed \in BOOLEAN /\ hadFailure \in BOOLEAN /\ stop \in BOOLEAN
      /\ listening \in BOOLEAN /\ draining \in BOOLEAN
      BY DEF Init
<1>3. engine \in [Engines -> EngineStatus]
      BY DEF Init, EngineStatus
<1>4. task \in [Engines -> {"none", "prepare", "adapters", "prepared", "launch",
                           "spawn", "check", "probe", "ok", "raised", "reap"}]
      BY DEF Init
<1>5. /\ proc \in [Engines -> {"none", "running", "exited"}]
      /\ service \in [Services -> {"off", "running", "exited", "failed"}]
      BY DEF Init
<1>6. [i \in Engines |-> "absent"] \in [Engines -> ReportStatus]
      BY DEF ReportStatus
<1>7. report \in [Workers -> [Engines -> ReportStatus]] /\ fresh \in [Workers -> BOOLEAN]
      BY <1>6 DEF Init
<1>8. exit \in {-1, 0, 1}
      BY DEF Init
<1> QED BY <1>1, <1>3, <1>4, <1>5, <1>7, <1>8, <1>2 DEF TypeOK

\* One step per handler of the main coroutine.
LEMMA TypeLoop == TypeOK /\ Loop => TypeOK'
<1> SUFFICES ASSUME TypeOK, Loop PROVE TypeOK'
    OBVIOUS
<1> USE DEF TypeOK, vars, loopVars, procVars, coordVars, pollVars, writeVars
<1>1. CASE StartCoordinator
      BY <1>1 DEF StartCoordinator, Raise
<1>2. CASE StartSsh
      BY <1>2 DEF StartSsh, Raise
<1>3. CASE StartRouter
      BY <1>3 DEF StartRouter, Raise
<1>4. CASE NextBatch
      BY <1>4 DEF NextBatch
<1>5. CASE BatchPrepared
      BY <1>5, MarkFailedType DEF BatchPrepared, Released, LaunchTasks
<1>6. CASE BarrierPasses
      BY <1>6 DEF BarrierPasses, LaunchTasks
<1>7. CASE BarrierRaises
      BY <1>7, MarkFailedType, DesiredType DEF BarrierRaises
<1>8. CASE FinishBatch
      BY <1>8, DesiredType DEF FinishBatch
<1>9. CASE LeaveLoading
      BY <1>9 DEF LeaveLoading
<1>10. CASE \E bad \in SUBSET Engines : MonitorRest(bad)
  <2> PICK bad \in SUBSET Engines : MonitorRest(bad)
      BY <1>10
  <2>1. engine' \in [Engines -> EngineStatus]
        BY MarkFailedType DEF MonitorRest
  <2>2. desired' \in SUBSET Engines
        BY DesiredType DEF MonitorRest
  <2> QED BY <2>1, <2>2 DEF MonitorRest
<1>11. CASE MonitorExits
      BY <1>11, MarkFailedType DEF MonitorExits
<1>12. CASE MonitorWakes
      BY <1>12 DEF MonitorWakes
<1>13. CASE MonitorReturns
      BY <1>13 DEF MonitorReturns
<1>14. CASE BeginShutdown
      BY <1>14 DEF BeginShutdown
<1>15. CASE CloseCoordinator
      BY <1>15 DEF CloseCoordinator
<1>16. CASE JoinHeartbeat
      BY <1>16 DEF JoinHeartbeat
<1>17. CASE EndShutdown
      BY <1>17 DEF EndShutdown
<1> QED BY <1>1, <1>2, <1>3, <1>4, <1>5, <1>6, <1>7, <1>8, <1>9, <1>10, <1>11,
           <1>12, <1>13, <1>14, <1>15, <1>16, <1>17 DEF Loop

\* One step per action of a gathered task.
LEMMA TypeTask == ASSUME TypeOK, NEW i \in Engines, Task(i) PROVE TypeOK'
<1> USE DEF TypeOK, EngineStatus, vars, loopVars, procVars, coordVars, pollVars, writeVars
<1>1. CASE BeginPrepare(i)
      BY <1>1 DEF BeginPrepare
<1>2. CASE EndPrepare(i)
      BY <1>2 DEF EndPrepare
<1>3. CASE BeginLaunch(i)
      BY <1>3 DEF BeginLaunch
<1>4. CASE Spawn(i)
      BY <1>4 DEF Spawn
<1>5. CASE CheckEngine(i)
      BY <1>5 DEF CheckEngine
<1>6. CASE EngineReady(i)
      BY <1>6 DEF EngineReady
<1>7. CASE EngineNotReady(i)
      BY <1>7 DEF EngineNotReady
<1>8. CASE WaitRaises(i)
      BY <1>8 DEF WaitRaises
<1>9. CASE HandleRaised(i)
      BY <1>9 DEF HandleRaised
<1>10. CASE Reaped(i)
      BY <1>10 DEF Reaped
<1> QED BY <1>1, <1>2, <1>3, <1>4, <1>5, <1>6, <1>7, <1>8, <1>9, <1>10 DEF Task

\* The children, the signal handler, the heartbeat and the workers' polls.
LEMMA TypeAround ==
    TypeOK /\ (Children \/ Signal \/ HeartbeatEnds \/ HeartbeatBreaks \/ Environment)
        => TypeOK'
<1> SUFFICES ASSUME TypeOK,
                    Children \/ Signal \/ HeartbeatEnds \/ HeartbeatBreaks \/ Environment
             PROVE TypeOK'
    OBVIOUS
<1> USE DEF TypeOK, vars, loopVars, procVars, coordVars, pollVars, writeVars
<1>1. CASE \E i \in Engines : StopEngine(i) \/ EngineExits(i)
  <2> PICK i \in Engines : StopEngine(i) \/ EngineExits(i)
      BY <1>1
  <2>1. proc' = [proc EXCEPT ![i] = "exited"]
        BY DEF StopEngine, EngineExits
  <2>2. UNCHANGED <<loopVars, service, coordVars, pollVars, stop, writeVars>>
        BY DEF StopEngine, EngineExits
  <2>3. proc' \in [Engines -> {"none", "running", "exited"}]
        BY <2>1
  <2> QED BY <2>2, <2>3
<1>2. CASE \E s \in Services : StopService(s) \/ ServiceExits(s)
  <2> PICK s \in Services : StopService(s) \/ ServiceExits(s)
      BY <1>2
  <2>1. service' = [service EXCEPT ![s] = "exited"]
        BY DEF StopService, ServiceExits
  <2>2. UNCHANGED <<loopVars, proc, coordVars, pollVars, stop, writeVars>>
        BY DEF StopService, ServiceExits
  <2>3. service' \in [Services -> {"off", "running", "exited", "failed"}]
        BY <2>1
  <2> QED BY <2>2, <2>3
<1>3. CASE Signal
      BY <1>3 DEF Signal
<1>4. CASE HeartbeatEnds
      BY <1>4 DEF HeartbeatEnds
<1>5. CASE HeartbeatBreaks
      BY <1>5 DEF HeartbeatBreaks
<1>6. CASE Environment
  <2> PICK w \in Workers :
          (\E r \in [Engines -> ReportStatus] : HandlePoll(w, r)) \/ ReportAges(w)
      BY <1>6 DEF Environment
  <2>1. report' \in [Workers -> [Engines -> ReportStatus]]
        BY DEF HandlePoll, ReportAges
  <2>2. fresh' \in [Workers -> BOOLEAN]
        BY DEF HandlePoll, ReportAges
  <2>3. UNCHANGED <<loopVars, procVars, coordVars, stop, writeVars>>
        BY DEF HandlePoll, ReportAges
  <2> QED BY <2>1, <2>2, <2>3
<1> QED BY <1>1, <1>3, <1>4, <1>5, <1>6, <1>2 DEF Children

LEMMA TypeNext == TypeOK /\ [Next]_vars => TypeOK'
<1> SUFFICES ASSUME TypeOK, [Next]_vars PROVE TypeOK'
    OBVIOUS
<1>1. CASE UNCHANGED vars
      BY <1>1 DEF TypeOK, vars, loopVars, procVars, coordVars, pollVars, writeVars
<1>2. CASE Next
      BY <1>1, <1>2, TypeLoop, TypeTask, TypeAround DEF Next, System, Terminated
<1> QED BY <1>1, <1>2

\* The supervisor's state always has its type.
THEOREM TypeCorrect == Spec => []TypeOK
<1>1. Init => TypeOK
      BY TypeInit
<1>2. TypeOK /\ [Next]_vars => TypeOK'
      BY TypeNext
<1> QED BY <1>1, <1>2, PTL DEF Spec

\* A monitor iteration may only turn ready engines into failed ones.
LEMMA MonitorRestEngine ==
    ASSUME NEW bad \in SUBSET Engines, MonitorRest(bad), TypeOK
    PROVE  /\ pc = "probe" /\ pc' = "idle" /\ UNCHANGED <<first, task, proc, exit, failed>>
           /\ \A i \in Engines : engine'[i] = engine[i] \/ (engine[i] = "ready" /\ engine'[i] = "failed")
<1> DEFINE probed == MarkFailed(engine, bad)
           ready == {i \in Engines : probed[i] = "ready"}
<1>1. /\ pc = "probe" /\ pc' = "idle" /\ UNCHANGED <<first, task, proc, exit, failed>>
      /\ \A i \in bad : engine[i] = "ready"
      BY DEF MonitorRest
<1>2. engine' = MarkFailed(probed, ready) \/ engine' = probed
      BY DEF MonitorRest
<1>3. \A i \in Engines : probed[i] = IF i \in bad THEN "failed" ELSE engine[i]
      BY DEF MarkFailed
<1>4. \A i \in Engines : MarkFailed(probed, ready)[i]
                           = IF i \in ready THEN "failed" ELSE probed[i]
      BY DEF MarkFailed
<1> HIDE DEF probed
<1> QED BY <1>1, <1>2, <1>3, <1>4

---------------------------------------------------------------------------
(* The startup batches.                                                    *)

\* Indices of models are positive integers.
LEMMA EnginesInt == Engines \subseteq Nat \ {0}
BY DEF Engines

LEMMA BatchInit == Init => BatchShape
BY EnginesInt DEF Init, BatchShape, InBatch, Untouched, Batch

\* The steps of the main coroutine: BatchPrepared, BarrierPasses and
\* BarrierRaises move the batch from stage to stage, FinishBatch passes it by.
LEMMA BatchLoop == TypeOK /\ BatchShape /\ Loop => BatchShape'
<1> SUFFICES ASSUME TypeOK, BatchShape, Loop PROVE BatchShape'
    OBVIOUS
<1> USE EnginesInt DEF TypeOK, BatchShape, InBatch, Untouched, Batch
<1>1. CASE StartCoordinator
      BY <1>1 DEF StartCoordinator, Raise, procVars
<1>2. CASE StartSsh
      BY <1>2 DEF StartSsh, Raise
<1>3. CASE StartRouter
      BY <1>3 DEF StartRouter, Raise
<1>4. CASE NextBatch
      BY <1>4 DEF NextBatch, procVars
<1>5. CASE BatchPrepared
  <2>1. /\ pc = "prepare" /\ UNCHANGED <<first, proc>>
        /\ \A i \in Batch : task[i] \in {"prepared", "raised"}
        /\ engine' = [i \in Engines |-> IF i \in Batch /\ task[i] = "raised"
                                       THEN "failed" ELSE engine[i]]
        BY <1>5 DEF BatchPrepared, MarkFailed, procVars
  <2>2. CASE pc' = "barrier" /\ task' = [i \in Engines |->
                IF i \in Batch /\ task[i] = "raised" THEN "none" ELSE task[i]]
        BY <2>1, <2>2
  <2>3. CASE pc' = "launch" /\ task' = [i \in Engines |->
                IF i \in Batch /\ task[i] = "prepared" THEN "launch" ELSE "none"]
        BY <2>1, <2>3
  <2> QED BY <1>5, <2>2, <2>3 DEF BatchPrepared, LaunchTasks, Prepared
<1>6. CASE BarrierPasses
      BY <1>6 DEF BarrierPasses, LaunchTasks, Prepared, procVars
<1>7. CASE BarrierRaises
      BY <1>7 DEF BarrierRaises, Prepared, MarkFailed, procVars
<1>8. CASE FinishBatch
      BY <1>8 DEF FinishBatch, Launched, procVars
<1>9. CASE LeaveLoading
      BY <1>9 DEF LeaveLoading, procVars
<1>10. CASE \E bad \in SUBSET Engines : MonitorRest(bad)
  <2>1. PICK bad \in SUBSET Engines : MonitorRest(bad)
        BY <1>10
  <2>2. /\ pc = "probe" /\ pc' = "idle" /\ UNCHANGED <<first, task, proc>>
        /\ \A i \in Engines : engine'[i] = engine[i] \/ (engine[i] = "ready" /\ engine'[i] = "failed")
        BY <2>1, MonitorRestEngine
  <2> QED BY <2>2
<1>11. CASE MonitorExits
      BY <1>11 DEF MonitorExits, Gone, MarkFailed, procVars
<1>12. CASE MonitorWakes
      BY <1>12 DEF MonitorWakes, procVars
<1>13. CASE MonitorReturns
      BY <1>13 DEF MonitorReturns, procVars
<1>14. CASE BeginShutdown
      BY <1>14 DEF BeginShutdown, procVars
<1>15. CASE CloseCoordinator
      BY <1>15 DEF CloseCoordinator, procVars
<1>16. CASE JoinHeartbeat
      BY <1>16 DEF JoinHeartbeat, procVars
<1>17. CASE EndShutdown
      BY <1>17 DEF EndShutdown, procVars
<1> QED BY <1>1, <1>2, <1>3, <1>4, <1>5, <1>6, <1>7, <1>8, <1>9, <1>10, <1>11,
           <1>12, <1>13, <1>14, <1>15, <1>16, <1>17 DEF Loop

\* The steps of one task change its own engine only.
LEMMA BatchTask ==
    ASSUME TypeOK, BatchShape, NEW i \in Engines, Task(i) PROVE BatchShape'
<1> USE EnginesInt DEF TypeOK, BatchShape, InBatch, Untouched, Batch
<1>1. CASE BeginPrepare(i)
      BY <1>1 DEF BeginPrepare, procVars
<1>2. CASE EndPrepare(i)
      BY <1>2 DEF EndPrepare, procVars
<1>3. CASE BeginLaunch(i)
      BY <1>3 DEF BeginLaunch, procVars
<1>4. CASE Spawn(i)
      BY <1>4 DEF Spawn
<1>5. CASE CheckEngine(i)
      BY <1>5 DEF CheckEngine, procVars
<1>6. CASE EngineReady(i)
      BY <1>6 DEF EngineReady, procVars
<1>7. CASE EngineNotReady(i)
      BY <1>7 DEF EngineNotReady, procVars
<1>8. CASE WaitRaises(i)
      BY <1>8 DEF WaitRaises, procVars
<1>9. CASE HandleRaised(i)
      BY <1>9 DEF HandleRaised, procVars, Launched
<1>10. CASE Reaped(i)
      BY <1>10 DEF Reaped
<1> QED BY <1>1, <1>2, <1>3, <1>4, <1>5, <1>6, <1>7, <1>8, <1>9, <1>10 DEF Task

\* Around the loop only processes change, and a process that stops was started.
LEMMA BatchAround ==
    ASSUME TypeOK, BatchShape,
           Children \/ Signal \/ HeartbeatEnds \/ HeartbeatBreaks \/ Environment
    PROVE  BatchShape'
<1>1. /\ UNCHANGED <<pc, first, task, engine>>
      /\ \A i \in Engines : (proc'[i] = "none") <=> (proc[i] = "none")
  <2>1. CASE \E i \in Engines : StopEngine(i) \/ EngineExits(i)
        BY <2>1 DEF StopEngine, EngineExits, TypeOK, loopVars
  <2>2. CASE \E s \in Services : StopService(s) \/ ServiceExits(s)
        BY <2>2 DEF StopService, ServiceExits, loopVars
  <2>3. CASE Signal \/ HeartbeatEnds \/ HeartbeatBreaks
        BY <2>3 DEF Signal, HeartbeatEnds, HeartbeatBreaks, loopVars, procVars
  <2>4. CASE Environment
        BY <2>4 DEF Environment, HandlePoll, ReportAges, loopVars, procVars
  <2> QED BY <2>1, <2>2, <2>3, <2>4 DEF Children
<1> QED BY <1>1 DEF BatchShape, InBatch, Untouched, Batch

LEMMA BatchNext == TypeOK /\ BatchShape /\ [Next]_vars => BatchShape'
<1> SUFFICES ASSUME TypeOK, BatchShape, [Next]_vars PROVE BatchShape'
    OBVIOUS
<1>1. CASE UNCHANGED vars
      BY <1>1 DEF BatchShape, InBatch, Untouched, Batch, vars, loopVars, procVars
<1>2. CASE Next
      BY <1>1, <1>2, BatchLoop, BatchTask, BatchAround DEF Next, System, Terminated
<1> QED BY <1>1, <1>2

\* Every reachable state has the shape of a batched startup.
THEOREM BatchShapeHolds == Spec => [](TypeOK /\ BatchShape)
<1>1. Init => TypeOK /\ BatchShape
      BY TypeInit, BatchInit
<1>2. TypeOK /\ BatchShape /\ [Next]_vars => TypeOK' /\ BatchShape'
      BY TypeNext, BatchNext
<1> QED BY <1>1, <1>2, PTL DEF Spec

---------------------------------------------------------------------------
(* Batched start.                                                          *)

\* At most Parallelism models prepare or start: they are all in the batch, and
\* a batch is an interval of that length.
LEMMA BatchBound ==
    ASSUME TypeOK, BatchShape PROVE BatchedStart
<1> DEFINE busy == {i \in Engines : engine[i] \in {"preparing", "starting"}}
           span == first..(first + Parallelism - 1)
<1>1. \A i \in Engines : /\ first + Parallelism <= i => engine[i] = "pending"
                         /\ i < first => engine[i] \in {"ready", "failed"}
      BY DEF BatchShape, Untouched
<1>2. busy \subseteq span
  <2> SUFFICES ASSUME NEW i \in busy PROVE i \in span
      OBVIOUS
  <2>1. i \in Int /\ first \in Int /\ Parallelism \in Int
        BY EnginesInt DEF TypeOK
  <2>2. ~(first + Parallelism <= i) /\ ~(i < first)
        BY <1>1
  <2> QED BY <2>1, <2>2
<1>3. IsFiniteSet(span) /\ Cardinality(span) = Parallelism
      BY FS_Interval DEF TypeOK
<1>4. Cardinality(busy) <= Cardinality(span)
      BY <1>2, <1>3, FS_Subset
<1> QED BY <1>1, <1>3, <1>4 DEF BatchedStart

\* Startup is released batch by batch (the loop of _run_primary).
THEOREM BatchedStartHolds == Spec => []BatchedStart
<1>1. TypeOK /\ BatchShape => BatchedStart
      BY BatchBound
<1> QED BY <1>1, BatchShapeHolds, PTL

---------------------------------------------------------------------------
(* No restart.                                                             *)

NoRestartStep ==
    \A i \in Engines :
        /\ engine[i] = "failed" => engine'[i] = "failed"
        /\ proc'[i] = "running" /\ proc[i] # "running"
              => proc[i] = "none" /\ engine[i] = "starting"

LEMMA NoRestartLoop == TypeOK /\ BatchShape /\ Loop => NoRestartStep
<1> SUFFICES ASSUME TypeOK, BatchShape, Loop PROVE NoRestartStep
    OBVIOUS
<1> USE DEF NoRestartStep, TypeOK, procVars
<1>1. CASE StartCoordinator \/ StartSsh \/ StartRouter
      BY <1>1 DEF StartCoordinator, StartSsh, StartRouter
<1>2. CASE NextBatch \/ BarrierPasses \/ FinishBatch \/ LeaveLoading
      BY <1>2 DEF NextBatch, BarrierPasses, FinishBatch, LeaveLoading
<1>3. CASE BatchPrepared \/ BarrierRaises \/ MonitorExits
      BY <1>3 DEF BatchPrepared, BarrierRaises, MonitorExits, MarkFailed
<1>4. CASE \E bad \in SUBSET Engines : MonitorRest(bad)
      BY <1>4, MonitorRestEngine
<1>5. CASE MonitorWakes \/ MonitorReturns
      BY <1>5 DEF MonitorWakes, MonitorReturns
<1>6. CASE BeginShutdown \/ CloseCoordinator \/ JoinHeartbeat \/ EndShutdown
      BY <1>6 DEF BeginShutdown, CloseCoordinator, JoinHeartbeat, EndShutdown
<1> QED BY <1>1, <1>2, <1>3, <1>4, <1>5, <1>6 DEF Loop

\* Only BeginPrepare, BeginLaunch and EngineReady give an engine a state other
\* than failed, and only Spawn starts a process: in a batch, an engine whose
\* task is at one of these points has not failed and has no process yet.
LEMMA NoRestartTask ==
    ASSUME TypeOK, BatchShape, NEW i \in Engines, Task(i) PROVE NoRestartStep
<1> USE EnginesInt DEF NoRestartStep, TypeOK, procVars
<1>1. CASE BeginPrepare(i)
      BY <1>1 DEF BeginPrepare, BatchShape, InBatch, Untouched, Batch
<1>2. CASE BeginLaunch(i)
      BY <1>2 DEF BeginLaunch, BatchShape, InBatch, Untouched, Batch
<1>3. CASE EngineReady(i)
      BY <1>3 DEF EngineReady, BatchShape, InBatch, Untouched, Batch
<1>4. CASE Spawn(i)
      BY <1>4 DEF Spawn, BatchShape, InBatch, Untouched, Batch
<1>5. CASE EndPrepare(i) \/ CheckEngine(i) \/ EngineNotReady(i) \/ WaitRaises(i)
      BY <1>5 DEF EndPrepare, CheckEngine, EngineNotReady, WaitRaises
<1>6. CASE HandleRaised(i) \/ Reaped(i)
      BY <1>6 DEF HandleRaised, Reaped
<1> QED BY <1>1, <1>2, <1>3, <1>4, <1>5, <1>6 DEF Task

LEMMA NoRestartAround ==
    ASSUME TypeOK,
           Children \/ Signal \/ HeartbeatEnds \/ HeartbeatBreaks \/ Environment
    PROVE  NoRestartStep
<1> USE DEF NoRestartStep, TypeOK, loopVars, procVars
<1>1. CASE \E i \in Engines : StopEngine(i) \/ EngineExits(i)
      BY <1>1 DEF StopEngine, EngineExits
<1>2. CASE \E s \in Services : StopService(s) \/ ServiceExits(s)
      BY <1>2 DEF StopService, ServiceExits
<1>3. CASE Signal \/ HeartbeatEnds \/ HeartbeatBreaks
      BY <1>3 DEF Signal, HeartbeatEnds, HeartbeatBreaks
<1>4. CASE Environment
      BY <1>4 DEF Environment, HandlePoll, ReportAges
<1> QED BY <1>1, <1>2, <1>3, <1>4 DEF Children

LEMMA NoRestartNext == TypeOK /\ BatchShape /\ [Next]_vars => [NoRestartStep]_vars
<1> SUFFICES ASSUME TypeOK, BatchShape, Next PROVE NoRestartStep \/ UNCHANGED vars
    OBVIOUS
<1> QED BY NoRestartLoop, NoRestartTask, NoRestartAround DEF Next, System, Terminated

\* A failed engine stays failed, and no process is started twice
\* (README.md:744: no automatic restart loop).
THEOREM NoRestartHolds == Spec => NoRestart
<1>1. TypeOK /\ BatchShape /\ [Next]_vars => [NoRestartStep]_vars
      BY NoRestartNext
<1>2. Spec => [][NoRestartStep]_vars
      BY <1>1, BatchShapeHolds, PTL DEF Spec
<1> QED BY <1>2 DEF NoRestart, NoRestartStep

---------------------------------------------------------------------------
(* Phase and exit status.                                                  *)

\* Outside prepare, barrier and launch no task is running.
LEMMA TasksInBatch ==
    ASSUME TypeOK, BatchShape, NEW i \in Engines, task[i] # "none"
    PROVE  pc \in {"prepare", "barrier", "launch"}
BY EnginesInt DEF TypeOK, BatchShape, InBatch, Untouched, Batch

\* The parts that do not speak of the batch: phase, exit status, children.
Calm == PhaseShape /\ ExitShape /\ ChildShape

LEMMA CalmInit == Init => Calm
BY DEF Init, Calm, PhaseShape, ExitShape, ChildShape

LEMMA CalmLoop == TypeOK /\ BatchShape /\ Calm /\ Loop => Calm'
<1> SUFFICES ASSUME TypeOK, BatchShape, Calm, Loop PROVE Calm'
    OBVIOUS
<1> USE DEF Calm, PhaseShape, ExitShape, ChildShape, AllReady, procVars, writeVars
<1>1. CASE StartCoordinator \/ StartSsh \/ StartRouter
      BY <1>1 DEF StartCoordinator, StartSsh, StartRouter, Raise
<1>2. CASE NextBatch \/ BarrierPasses \/ FinishBatch
  <2>1. /\ pc \in {"batch", "barrier", "launch"} /\ pc' \in {"prepare", "launch", "batch"}
        /\ UNCHANGED <<phase, exit, proc, service, writeVars>>
        BY <1>2 DEF NextBatch, BarrierPasses, FinishBatch, Launched
  <2> QED BY <2>1
<1>3. CASE BatchPrepared \/ BarrierRaises
      BY <1>3 DEF BatchPrepared, BarrierRaises
<1>4. CASE LeaveLoading
      BY <1>4 DEF LeaveLoading
<1>5. CASE \E bad \in SUBSET Engines : MonitorRest(bad)
  <2>1. PICK bad \in SUBSET Engines : MonitorRest(bad)
        BY <1>5
  <2>2. PhaseShape'
        BY <2>1 DEF MonitorRest
  <2>3. ChildShape'
        BY <2>1 DEF MonitorRest
  <2>4. ASSUME Workers = {}, ~failed', ~hadFailure' PROVE AllReady(engine)'
    <3>1. bad = {} /\ ~hadFailure /\ ~failed /\ pc = "probe"
          BY <2>1, <2>4 DEF MonitorRest
    <3>2. engine' = MarkFailed(engine, {})
          BY <2>1, <2>4, <3>1 DEF MonitorRest
    <3> QED BY <3>1, <3>2, <2>4 DEF MarkFailed, TypeOK
  <2>5. exit' # 0 \/ Workers # {}
        BY <2>1, MonitorRestEngine
  <2> QED BY <2>2, <2>3, <2>4, <2>5
<1>6. CASE MonitorExits
  <2>1. Gone = {} => MarkFailed(engine, Gone) = engine
        BY DEF MarkFailed, TypeOK
  <2>2. /\ pc = "monitor" /\ pc' = "probe" /\ engine' = MarkFailed(engine, Gone)
        /\ UNCHANGED <<phase, failed, exit, proc, service, writeVars>>
        BY <1>6 DEF MonitorExits
  <2>3. ~hadFailure' => ~hadFailure /\ Gone = {}
        BY <1>6 DEF MonitorExits
  <2> QED BY <2>1, <2>2, <2>3
<1>7. CASE MonitorWakes \/ MonitorReturns
      BY <1>7 DEF MonitorWakes, MonitorReturns
<1>8. CASE BeginShutdown \/ CloseCoordinator \/ JoinHeartbeat
      BY <1>8 DEF BeginShutdown, CloseCoordinator, JoinHeartbeat
<1>9. CASE EndShutdown
      BY <1>9 DEF EndShutdown, ChildrenStopped
<1> QED BY <1>1, <1>2, <1>3, <1>4, <1>5, <1>6, <1>7, <1>8, <1>9 DEF Loop

\* A task runs only inside a batch, where none of the three parts says anything.
LEMMA CalmTask ==
    ASSUME TypeOK, BatchShape, Calm, NEW i \in Engines, Task(i) PROVE Calm'
<1>1. task[i] # "none"
      BY DEF Task, BeginPrepare, EndPrepare, BeginLaunch, Spawn, CheckEngine, EngineReady,
             EngineNotReady, WaitRaises, HandleRaised, Reaped
<1>2. UNCHANGED <<pc, phase, exit, writeVars>>
      BY DEF Task, BeginPrepare, EndPrepare, BeginLaunch, Spawn, CheckEngine, EngineReady,
             EngineNotReady, WaitRaises, HandleRaised, Reaped
<1>3. pc \in {"prepare", "barrier", "launch"}
      BY <1>1, TasksInBatch
<1> QED BY <1>2, <1>3 DEF Calm, PhaseShape, ExitShape, ChildShape, writeVars

LEMMA CalmAround ==
    ASSUME TypeOK, Calm,
           Children \/ Signal \/ HeartbeatEnds \/ HeartbeatBreaks \/ Environment
    PROVE  Calm'
<1> USE DEF Calm, PhaseShape, ExitShape, ChildShape, AllReady, loopVars, procVars,
           writeVars
<1>1. CASE \E i \in Engines : StopEngine(i) \/ EngineExits(i)
  <2>1. UNCHANGED <<loopVars, service, writeVars>>
        /\ \A i \in Engines : proc'[i] = "running" => proc[i] = "running"
        BY <1>1 DEF StopEngine, EngineExits, TypeOK
  <2> QED BY <2>1 DEF ChildrenStopped
<1>2. CASE \E s \in Services : StopService(s) \/ ServiceExits(s)
  <2>1. UNCHANGED <<loopVars, proc, writeVars>>
        /\ \A s \in Services : service'[s] = "running" => service[s] = "running"
        BY <1>2 DEF StopService, ServiceExits, TypeOK
  <2> QED BY <2>1 DEF ChildrenStopped
<1>3. CASE Signal \/ HeartbeatEnds \/ HeartbeatBreaks
      BY <1>3 DEF Signal, HeartbeatEnds, HeartbeatBreaks, ChildrenStopped
<1>4. CASE Environment
      BY <1>4 DEF Environment, HandlePoll, ReportAges, ChildrenStopped
<1> QED BY <1>1, <1>2, <1>3, <1>4 DEF Children

LEMMA CalmNext == TypeOK /\ BatchShape /\ Calm /\ [Next]_vars => Calm'
<1> SUFFICES ASSUME TypeOK, BatchShape, Calm, [Next]_vars PROVE Calm'
    OBVIOUS
<1>1. CASE UNCHANGED vars
      BY <1>1 DEF Calm, PhaseShape, ExitShape, ChildShape, AllReady, ChildrenStopped,
                  vars, loopVars, procVars, writeVars
<1>2. CASE Next
      BY <1>1, <1>2, CalmLoop, CalmTask, CalmAround DEF Next, System, Terminated
<1> QED BY <1>1, <1>2

LEMMA CalmHolds == Spec => []Calm
<1>1. Init => Calm
      BY CalmInit
<1>2. TypeOK /\ BatchShape /\ Calm /\ [Next]_vars => Calm'
      BY CalmNext
<1> QED BY <1>1, <1>2, BatchShapeHolds, PTL DEF Spec

\* The phase "ready" is not a leftover (supervisor.py:260, 500).
THEOREM ReadyPhaseHolds == Spec => []ReadyPhaseIsHonest
<1>1. Calm => ReadyPhaseIsHonest
      BY DEF Calm, PhaseShape, ReadyPhaseIsHonest
<1> QED BY <1>1, CalmHolds, PTL

\* Exit status 0 of a single node means every model was served to the end.
THEOREM CleanExitHolds == Spec => []CleanExitMeansServed
<1>1. Calm => CleanExitMeansServed
      BY DEF Calm, ExitShape, CleanExitMeansServed
<1> QED BY <1>1, CalmHolds, PTL

\* A child survives the supervisor only if the heartbeat's write of the state file
\* had failed, or the first write of _shutdown (supervisor.py:643, 651), ...
THEOREM OrphansHolds == Spec => []OrphansOnlyAfterFault
<1>1. Calm => OrphansOnlyAfterFault
      BY DEF Calm, ChildShape, ChildrenStopped, OrphansOnlyAfterFault, NoOrphans
<1> QED BY <1>1, CalmHolds, PTL

\* ... and never where those writes cannot fail.
THEOREM NoOrphansHolds == ASSUME ~WriteFaults PROVE Spec => []NoOrphans
<1>1. Calm => NoOrphans
      BY DEF Calm, ChildShape, ChildrenStopped, NoOrphans
<1> QED BY <1>1, CalmHolds, PTL

---------------------------------------------------------------------------
(* What the workers are asked to run.                                      *)

LEMMA DesiredInit == Init => DesiredShape
BY DEF Init, DesiredShape, DesiredOf

LEMMA DesiredLoop == TypeOK /\ BatchShape /\ DesiredShape /\ Loop => DesiredShape'
<1> SUFFICES ASSUME TypeOK, BatchShape, DesiredShape, Loop PROVE DesiredShape'
    OBVIOUS
<1> USE DEF DesiredShape, coordVars
<1>1. CASE StartCoordinator \/ StartSsh \/ StartRouter
      BY <1>1 DEF StartCoordinator, StartSsh, StartRouter, Raise
<1>2. CASE NextBatch \/ BarrierPasses \/ LeaveLoading
      BY <1>2 DEF NextBatch, BarrierPasses, LeaveLoading
<1>3. CASE BatchPrepared
  <2>1. pc' \in {"barrier", "launch"} /\ (desired' = desired \/ desired' = Released(engine'))
        BY <1>3 DEF BatchPrepared
  <2>2. \A j \in Engines : engine[j] # "pending" => engine'[j] # "pending"
        BY <1>3 DEF BatchPrepared, MarkFailed
  <2>3. desired \subseteq Engines
        BY DEF TypeOK
  <2>4. ASSUME NEW i \in Released(engine') PROVE engine'[i] # "pending"
    <3>1. PICK j \in Prepared : i <= j
          BY <2>4 DEF Released
    <3>2. i \in Engines /\ j \in Engines /\ j < first + Parallelism
          BY <2>4, <3>1 DEF Released, Prepared, Batch
    <3>3. i < first \/ i \in Batch
          BY <3>1, <3>2, EnginesInt DEF Batch, TypeOK
    <3>4. engine[i] # "pending"
          BY <1>3, <3>2, <3>3 DEF BatchShape, InBatch, BatchPrepared
    <3> QED BY <2>2, <3>2, <3>4
  <2> QED BY <2>1, <2>2, <2>3, <2>4
<1>4. CASE BarrierRaises
      BY <1>4 DEF BarrierRaises, DesiredOf
<1>5. CASE FinishBatch
      BY <1>5 DEF FinishBatch, DesiredOf
<1>6. CASE \E bad \in SUBSET Engines : MonitorRest(bad)
  <2>1. desired' = DesiredOf(engine')
        BY <1>6 DEF MonitorRest
  <2> QED BY <2>1 DEF DesiredOf
<1>7. CASE MonitorExits
      BY <1>7 DEF MonitorExits, MarkFailed, TypeOK
<1>8. CASE MonitorWakes \/ MonitorReturns
      BY <1>8 DEF MonitorWakes, MonitorReturns
<1>9. CASE BeginShutdown \/ CloseCoordinator \/ JoinHeartbeat \/ EndShutdown
      BY <1>9 DEF BeginShutdown, CloseCoordinator, JoinHeartbeat, EndShutdown
<1> QED BY <1>1, <1>2, <1>3, <1>4, <1>5, <1>6, <1>7, <1>8, <1>9 DEF Loop

LEMMA DesiredTask ==
    ASSUME TypeOK, BatchShape, DesiredShape, NEW i \in Engines, Task(i)
    PROVE  DesiredShape'
<1>1. task[i] # "none" /\ UNCHANGED <<pc, desired>>
      BY DEF Task, BeginPrepare, EndPrepare, BeginLaunch, Spawn, CheckEngine, EngineReady,
             EngineNotReady, WaitRaises, HandleRaised, Reaped, coordVars
<1>2. \A j \in Engines : engine[j] # "pending" => engine'[j] # "pending"
      BY DEF Task, BeginPrepare, EndPrepare, BeginLaunch, Spawn, CheckEngine, EngineReady,
             EngineNotReady, WaitRaises, HandleRaised, Reaped, TypeOK
<1>3. pc \in {"prepare", "barrier", "launch"}
      BY <1>1, TasksInBatch
<1> QED BY <1>1, <1>2, <1>3 DEF DesiredShape, TypeOK

LEMMA DesiredNext == TypeOK /\ BatchShape /\ DesiredShape /\ [Next]_vars => DesiredShape'
<1> SUFFICES ASSUME TypeOK, BatchShape, DesiredShape, [Next]_vars PROVE DesiredShape'
    OBVIOUS
<1>1. CASE UNCHANGED <<pc, engine, desired>>
      BY <1>1 DEF DesiredShape, DesiredOf
<1>2. CASE Loop \/ \E i \in Engines : Task(i)
      BY <1>2, DesiredLoop, DesiredTask
<1>3. CASE Children \/ Signal \/ HeartbeatEnds \/ HeartbeatBreaks \/ Environment
  <2>1. UNCHANGED <<pc, engine, desired>>
        BY <1>3 DEF Children, StopEngine, EngineExits, StopService, ServiceExits, Signal,
                    HeartbeatEnds, HeartbeatBreaks, Environment, HandlePoll, ReportAges,
                    loopVars, coordVars
  <2> QED BY <1>1, <2>1
<1> QED BY <1>1, <1>2, <1>3 DEF Next, System, Terminated, vars, loopVars, coordVars

\* The desired set follows the engines' states (cluster.py:237).
THEOREM DesiredHolds == Spec => []DesiredIsLive
<1>1. Init => DesiredShape
      BY DesiredInit
<1>2. TypeOK /\ BatchShape /\ DesiredShape /\ [Next]_vars => DesiredShape'
      BY DesiredNext
<1>3. DesiredShape => DesiredIsLive
      BY DEF DesiredShape, DesiredIsLive, DesiredOf
<1> QED BY <1>1, <1>2, <1>3, BatchShapeHolds, PTL DEF Spec

---------------------------------------------------------------------------
(* What a cluster relies on: steps of the primary, as its workers see them. *)

\* An engine the workers are no longer asked to run, for it has failed.
Withdrawn(i) == engine[i] = "failed" /\ i \notin desired

\* The engines of a batch are asked for when the batch is prepared, not before.
BatchIsNew == pc = "prepare" => \A i \in desired : i < first

\* An engine is withdrawn only when it fails, and for good.
WithdrawnStep ==
    \A i \in Engines :
        /\ Withdrawn(i) => Withdrawn(i)'
        /\ i \in desired => i \in desired' \/ Withdrawn(i)'

LEMMA WithdrawnLoop ==
    ASSUME Workers # {}, TypeOK, BatchShape, DesiredShape, BatchIsNew, Loop
    PROVE  WithdrawnStep /\ BatchIsNew'
<1>1. \A i \in Engines : engine[i] = "failed" => engine'[i] = "failed"
      BY NoRestartLoop DEF NoRestartStep
<1>2. desired \subseteq Engines /\ \A i \in desired : engine[i] # "pending"
      BY DEF TypeOK, DesiredShape
<1>3. CASE desired' = desired /\ pc' # "prepare"
      BY <1>1, <1>3 DEF WithdrawnStep, Withdrawn, BatchIsNew
<1>4. CASE NextBatch
  <2>1. UNCHANGED <<engine, first, desired>> /\ desired = DesiredOf(engine)
        BY <1>4 DEF NextBatch, coordVars, DesiredShape
  <2>2. ASSUME NEW i \in desired PROVE i < first
    <3>1. i \in Engines /\ engine[i] \notin {"pending", "failed"}
          BY <2>1, <2>2 DEF DesiredOf
    <3>2. i \notin Batch /\ ~(first + Parallelism <= i)
          BY <1>4, <3>1 DEF NextBatch, BatchShape, InBatch, Untouched
    <3> QED BY <3>1, <3>2, EnginesInt DEF Batch, TypeOK
  <2> QED BY <2>1, <2>2 DEF WithdrawnStep, Withdrawn, BatchIsNew
<1>5. CASE BatchPrepared
  <2>1. /\ pc = "prepare" /\ pc' # "prepare"
        /\ \/ desired' = desired
           \/ Prepared # {} /\ desired' = Released(engine')
        BY <1>5 DEF BatchPrepared
  <2>2. ASSUME Prepared # {}, desired' = Released(engine'), NEW i \in desired
        PROVE  i \in desired' \/ engine'[i] = "failed"
    <3>1. PICK j \in Prepared : TRUE
          BY <2>2
    <3>2. i \in Engines /\ i < first /\ first <= j
          BY <1>2, <2>1, <2>2, <3>1 DEF BatchIsNew, Prepared, Batch
    <3>3. i <= j
          BY <3>1, <3>2, EnginesInt DEF Prepared, Batch, TypeOK
    <3> QED BY <2>2, <3>1, <3>2, <3>3 DEF Released
  <2>3. \A i \in Released(engine') : engine'[i] # "failed"
        BY DEF Released
  <2> QED BY <1>1, <1>2, <2>1, <2>2, <2>3 DEF WithdrawnStep, Withdrawn, BatchIsNew
<1>6. CASE BarrierRaises \/ FinishBatch \/ \E bad \in SUBSET Engines : MonitorRest(bad)
  <2>1. desired' = DesiredOf(engine') /\ pc' # "prepare"
    <3>1. CASE BarrierRaises \/ FinishBatch
          BY <3>1 DEF BarrierRaises, FinishBatch
    <3>2. CASE \E bad \in SUBSET Engines : MonitorRest(bad)
          BY <3>2 DEF MonitorRest
    <3> QED BY <1>6, <3>1, <3>2
  <2>2. \A i \in Engines : engine'[i] = engine[i] \/ engine'[i] = "failed"
    <3>1. CASE BarrierRaises \/ FinishBatch
          BY <3>1 DEF BarrierRaises, FinishBatch, MarkFailed
    <3>2. CASE \E bad \in SUBSET Engines : MonitorRest(bad)
          BY <3>2, MonitorRestEngine
    <3> QED BY <1>6, <3>1, <3>2
  <2>3. \A i \in desired : engine'[i] \in {"preparing", "starting", "ready", "failed"}
        BY <1>2, <2>2 DEF TypeOK, EngineStatus
  <2>4. \A i \in Engines :
           i \in desired' <=> engine'[i] \in {"preparing", "starting", "ready"}
        BY <2>1 DEF DesiredOf
  <2> QED BY <1>1, <1>2, <2>1, <2>3, <2>4 DEF WithdrawnStep, Withdrawn, BatchIsNew
<1>7. CASE StartCoordinator \/ StartSsh \/ StartRouter
      BY <1>3, <1>7 DEF StartCoordinator, StartSsh, StartRouter, Raise, coordVars
<1>8. CASE BarrierPasses \/ LeaveLoading \/ MonitorExits \/ MonitorWakes \/ MonitorReturns
      BY <1>3, <1>8 DEF BarrierPasses, LeaveLoading, MonitorExits, MonitorWakes,
                        MonitorReturns, coordVars
<1>9. CASE BeginShutdown \/ CloseCoordinator \/ JoinHeartbeat \/ EndShutdown
      BY <1>3, <1>9 DEF BeginShutdown, CloseCoordinator, JoinHeartbeat, EndShutdown,
                        coordVars
<1> QED BY <1>4, <1>5, <1>6, <1>7, <1>8, <1>9 DEF Loop

LEMMA WithdrawnNext ==
    ASSUME Workers # {}, TypeOK, BatchShape, DesiredShape, BatchIsNew, System
    PROVE  WithdrawnStep /\ BatchIsNew'
<1>1. CASE \E i \in Engines : Task(i)
  <2>1. UNCHANGED <<pc, first, desired>>
        BY <1>1 DEF Task, BeginPrepare, EndPrepare, BeginLaunch, Spawn, CheckEngine,
                    EngineReady, EngineNotReady, WaitRaises, HandleRaised, Reaped, coordVars
  <2>2. \A i \in Engines : engine[i] = "failed" => engine'[i] = "failed"
        BY <1>1, NoRestartTask DEF NoRestartStep
  <2> QED BY <2>1, <2>2 DEF WithdrawnStep, Withdrawn, BatchIsNew
<1>2. CASE Children \/ Signal \/ HeartbeatEnds \/ HeartbeatBreaks
  <2>1. UNCHANGED <<pc, first, engine, desired>>
        BY <1>2 DEF Children, StopEngine, EngineExits, StopService, ServiceExits, Signal,
                    HeartbeatEnds, HeartbeatBreaks, loopVars, coordVars
  <2> QED BY <2>1 DEF WithdrawnStep, Withdrawn, BatchIsNew
<1> QED BY <1>1, <1>2, WithdrawnLoop DEF System

\* A head is spawned by its task, which is there because the barrier has passed.
LaunchStep ==
    \A i \in Engines :
        /\ task'[i] \in {"launch", "spawn"} =>
              \/ task[i] \in {"launch", "spawn"}
              \/ engine[i] = "preparing" /\ \A w \in Workers : report[w][i] = "running"
        /\ proc'[i] # "none" /\ proc[i] = "none" => task[i] = "spawn"

LEMMA LaunchNext ==
    ASSUME Workers # {}, TypeOK, BatchShape, System PROVE LaunchStep /\ UNCHANGED report
<1> USE DEF pollVars, loopVars, procVars, LaunchStep
<1>1. CASE Loop
  <2>1. UNCHANGED <<proc, report>>
        BY <1>1 DEF Loop, StartCoordinator, StartSsh, StartRouter, NextBatch, BatchPrepared,
                    BarrierPasses, BarrierRaises, FinishBatch, LeaveLoading, MonitorRest,
                    MonitorExits, MonitorWakes, MonitorReturns, BeginShutdown,
                    CloseCoordinator, JoinHeartbeat, EndShutdown
  <2>2. CASE BarrierPasses
    <3>1. task' = LaunchTasks /\ AllWorkersRunning(Prepared) /\ pc = "barrier"
          BY <2>2 DEF BarrierPasses
    <3>2. ASSUME NEW i \in Prepared
          PROVE  engine[i] = "preparing" /\ \A w \in Workers : report[w][i] = "running"
          BY <3>1, <3>2 DEF AllWorkersRunning, BatchShape, InBatch, Prepared, Batch
    <3>3. \A i \in Engines : task'[i] = IF i \in Prepared THEN "launch" ELSE "none"
          BY <3>1 DEF LaunchTasks
    <3> QED BY <2>1, <3>2, <3>3
  <2>3. CASE BatchPrepared
    <3>1. CASE Prepared = {}
      <4>1. \A i \in Engines : LaunchTasks[i] = "none"
            BY <3>1 DEF LaunchTasks
      <4>2. task' = LaunchTasks
            BY <2>3, <3>1 DEF BatchPrepared
      <4> QED BY <2>1, <4>1, <4>2
    <3>2. CASE Prepared # {}
      <4>1. \A i \in Engines : task'[i] = "none" \/ task'[i] = task[i]
            BY <2>3, <3>2 DEF BatchPrepared
      <4> QED BY <2>1, <4>1
    <3> QED BY <3>1, <3>2
  <2>4. CASE NextBatch \/ BarrierRaises \/ FinishBatch
        BY <2>1, <2>4 DEF NextBatch, BarrierRaises, FinishBatch
  <2>5. CASE UNCHANGED task
        BY <2>1, <2>5
  <2> QED BY <1>1, <2>1, <2>2, <2>3, <2>4, <2>5
          DEF Loop, StartCoordinator, StartSsh, StartRouter, LeaveLoading, MonitorRest,
              MonitorExits, MonitorWakes, MonitorReturns, BeginShutdown, CloseCoordinator,
              JoinHeartbeat, EndShutdown
<1>2. ASSUME NEW i \in Engines, Task(i) PROVE LaunchStep /\ UNCHANGED report
  <2>1. CASE Spawn(i)
        BY <2>1 DEF Spawn, TypeOK
  <2>2. CASE Reaped(i)
        BY <2>2 DEF Reaped, TypeOK
  <2>3. CASE BeginPrepare(i) \/ EndPrepare(i) \/ BeginLaunch(i) \/ HandleRaised(i)
        BY <2>3 DEF BeginPrepare, EndPrepare, BeginLaunch, HandleRaised, TypeOK
  <2>4. CASE CheckEngine(i) \/ EngineReady(i) \/ EngineNotReady(i) \/ WaitRaises(i)
        BY <2>4 DEF CheckEngine, EngineReady, EngineNotReady, WaitRaises, TypeOK
  <2> QED BY <1>2, <2>1, <2>2, <2>3, <2>4 DEF Task
<1>3. CASE \E i \in Engines : StopEngine(i) \/ EngineExits(i)
      BY <1>3 DEF StopEngine, EngineExits, TypeOK
<1>4. CASE \/ \E s \in Services : StopService(s) \/ ServiceExits(s)
           \/ Signal \/ HeartbeatEnds \/ HeartbeatBreaks
      BY <1>4 DEF StopService, ServiceExits, Signal, HeartbeatEnds, HeartbeatBreaks
<1> QED BY <1>1, <1>2, <1>3, <1>4 DEF System, Children

\* An engine whose head is about to start has not failed.
LEMMA LaunchingLives ==
    ASSUME TypeOK, BatchShape, NEW i \in Engines, task[i] \in {"launch", "spawn"}
    PROVE  engine[i] # "failed"
BY EnginesInt DEF TypeOK, BatchShape, InBatch, Untouched, Batch

\* A poll changes what is known of the workers only.
LEMMA PollKeeps ==
    ASSUME TypeOK, BatchShape, DesiredShape, BatchIsNew, NEW w \in Workers,
           ReportAges(w) \/ \E r \in [Engines -> ReportStatus] : HandlePoll(w, r)
    PROVE  /\ TypeOK' /\ BatchShape' /\ DesiredShape' /\ BatchIsNew'
           /\ UNCHANGED <<loopVars, procVars, coordVars, stop, writeVars>>
<1>1. UNCHANGED <<loopVars, procVars, coordVars, stop, writeVars>>
      BY DEF ReportAges, HandlePoll
<1>2. report' \in [Workers -> [Engines -> ReportStatus]] /\ fresh' \in [Workers -> BOOLEAN]
  <2>1. /\ report \in [Workers -> [Engines -> ReportStatus]]
        /\ fresh \in [Workers -> BOOLEAN]
        BY DEF TypeOK
  <2> QED BY <2>1 DEF ReportAges, HandlePoll
<1>3. TypeOK'
      BY <1>1, <1>2 DEF TypeOK, loopVars, procVars, coordVars, writeVars
<1>4. BatchShape'
      BY <1>1 DEF BatchShape, InBatch, Untouched, Batch, loopVars, procVars
<1>5. DesiredShape' /\ BatchIsNew'
      BY <1>1 DEF DesiredShape, DesiredOf, BatchIsNew, loopVars, coordVars
<1> QED BY <1>1, <1>3, <1>4, <1>5
=============================================================================
