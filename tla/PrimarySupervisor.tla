------------------------- MODULE PrimarySupervisor -------------------------
(***************************************************************************)
(* The primary's supervisor process: Supervisor.run on rank 0              *)
(* (supervisor.py) with the part of ClusterCoordinator (cluster.py) that   *)
(* shares its memory.  The code is one asyncio event loop, so an action is *)
(* the code between two awaits of one coroutine; what may happen at an     *)
(* await (another coroutine, a child's exit, a worker's poll, a signal) is *)
(* another action.  Engines are the configured models, by index.           *)
(***************************************************************************)
EXTENDS Integers, FiniteSets

CONSTANTS
    N,                  \* number of configured models
    Parallelism,        \* startup.parallelism
    Workers,            \* ranks 1..node_count-1; {} when not clustered
    WriteFaults         \* may a write of the state file by the heartbeat or by
                        \* _shutdown fail?

ASSUME NAssumption == N \in Nat \ {0}
ASSUME ParallelismAssumption == Parallelism \in Nat \ {0}
ASSUME WriteFaultsAssumption == WriteFaults \in BOOLEAN

VARIABLES
    pc,         \* where the coroutine `run` is suspended
    first,      \* index that starts the current startup batch
    task,       \* the gathered task of each engine of the batch
    engine,     \* state.data["engines"][id]["state"]
    proc,       \* the vLLM head process of each engine; "exited": and waited for
    service,    \* sshd and the router: process (likewise) and registry entry
    phase,      \* state.data["supervisor"]["phase"]
    failed,     \* the local `failed` of _run_primary
    hadFailure, \* self._had_failure
    stop,       \* self.stop_event
    exit,       \* exit status of the container, -1 until it has one; 1: not zero
    heartbeat,  \* self._heartbeat_task
    unwritten,  \* (history) the phases _shutdown could not write to the state file
    desired,    \* coordinator.desired
    report,     \* coordinator.reports[rank].engines
    fresh,      \* is coordinator.reports[rank] within stale_after?
    listening,  \* is the coordinator's server accepting?
    draining    \* coordinator.shutting_down

loopVars == <<pc, first, task, engine, phase, failed, hadFailure, exit>>
procVars == <<proc, service>>
coordVars == <<desired, listening, draining>>
pollVars == <<report, fresh>>
writeVars == <<heartbeat, unwritten>>
vars == <<loopVars, procVars, coordVars, pollVars, stop, writeVars>>

Engines == 1..N
Services == {"sshd", "router"}
EngineStatus == {"pending", "preparing", "starting", "ready", "failed"}
ReportStatus == {"absent", "running", "failed"}

TypeOK ==
    /\ pc \in {"bind", "ssh", "router", "batch", "prepare", "barrier", "launch",
               "monitor", "probe", "idle", "shutdown", "drain", "join",
               "stopping", "exited"}
    /\ first \in Nat \ {0}
    /\ task \in [Engines -> {"none", "prepare", "adapters", "prepared", "launch",
                             "spawn", "check", "probe", "ok", "raised", "reap"}]
    /\ engine \in [Engines -> EngineStatus]
    /\ proc \in [Engines -> {"none", "running", "exited"}]
    /\ service \in [Services -> {"off", "running", "exited", "failed"}]
    /\ phase \in {"starting", "loading", "ready", "degraded", "stopping",
                  "stopped"}
    /\ failed \in BOOLEAN /\ hadFailure \in BOOLEAN /\ stop \in BOOLEAN
    /\ exit \in {-1, 0, 1}
    /\ heartbeat \in {"running", "ended", "raised"}
    /\ unwritten \in SUBSET {"stopping", "stopped"}
    /\ desired \in SUBSET Engines
    /\ report \in [Workers -> [Engines -> ReportStatus]]
    /\ fresh \in [Workers -> BOOLEAN]
    /\ listening \in BOOLEAN /\ draining \in BOOLEAN

Init ==
    /\ pc = "bind" /\ first = 1 /\ phase = "starting"
    /\ task = [i \in Engines |-> "none"]
    /\ engine = [i \in Engines |-> "pending"]
    /\ proc = [i \in Engines |-> "none"]
    /\ service = [s \in Services |-> "off"]
    /\ failed = FALSE /\ hadFailure = FALSE /\ stop = FALSE /\ exit = -1
    /\ heartbeat = "running" /\ unwritten = {}
    /\ desired = {} /\ listening = FALSE /\ draining = FALSE
    /\ report = [w \in Workers |-> [i \in Engines |-> "absent"]]
    /\ fresh = [w \in Workers |-> FALSE]

---------------------------------------------------------------------------
(* Helpers the handlers share.                                             *)

\* The batch chunked() yields: Parallelism consecutive indices.
Batch_OneMore == {i \in Engines : first <= i /\ i <= first + Parallelism}
Batch == {i \in Engines : first <= i /\ i < first + Parallelism}

\* ready_indices: the members of the batch whose adapters were resolved.
Prepared == {i \in Batch : task[i] = "prepared"}

\* _mark_engine_failed over a set of engines.
MarkFailed_AsStopped(states, ids) ==
    [i \in Engines |-> IF i \in ids THEN "stopped" ELSE states[i]]
MarkFailed(states, ids) ==
    [i \in Engines |-> IF i \in ids THEN "failed" ELSE states[i]]

\* _sync_coordinator_desired: what the workers are asked to run.
DesiredOf_KeepsFailed(states) ==
    IF Workers = {} THEN {} ELSE {i \in Engines : states[i] # "pending"}
DesiredOf(states) ==
    IF Workers = {} THEN {}
    ELSE {i \in Engines : states[i] \in {"preparing", "starting", "ready"}}

\* all_workers_running: every rank has reported, recently, every id running.
\* (A rank that never reported has no fresh report.)
AllWorkersRunning_NotFailed(ids) ==
    \A w \in Workers : fresh[w] /\ \A i \in ids : report[w][i] # "failed"
AllWorkersRunning_NoAge(ids) ==
    \A w \in Workers : \A i \in ids : report[w][i] = "running"
AllWorkersRunning(ids) ==
    \A w \in Workers : fresh[w] /\ \A i \in ids : report[w][i] = "running"

\* An exception in _run_primary: `finally: await self._shutdown()`.
Raise == pc' = "shutdown" /\ exit' = 1

---------------------------------------------------------------------------
(* Start of the node services.                                             *)

StartCoordinator ==
    /\ pc = "bind"
    /\ \/ /\ pc' = "ssh" /\ listening' = (Workers # {})
          /\ UNCHANGED exit
       \/ /\ Workers # {}               \* the control port cannot be bound
          /\ Raise /\ UNCHANGED listening
    /\ UNCHANGED <<first, task, engine, phase, failed, hadFailure, procVars,
                   desired, draining, pollVars, stop, writeVars>>

StartSsh ==
    /\ pc = "ssh"
    /\ \/ pc' = "router" /\ UNCHANGED <<exit, service>>     \* no key found
       \/ /\ pc' = "router" /\ service' = [service EXCEPT !["sshd"] = "running"]
          /\ UNCHANGED exit
       \/ Raise /\ service' \in {service, [service EXCEPT !["sshd"] = "exited"]}
    /\ UNCHANGED <<first, task, engine, phase, failed, hadFailure, proc,
                   coordVars, pollVars, stop, writeVars>>

\* Spawn the router and wait for /health/live: it answers, it exits, or it is
\* still running and silent after thirty seconds.
StartRouter ==
    /\ pc = "router"
    /\ \/ /\ pc' = "batch" /\ phase' = "loading"
          /\ service' = [service EXCEPT !["router"] = "running"]
          /\ UNCHANGED exit
       \/ /\ Raise /\ UNCHANGED phase
          /\ \E s \in {"running", "exited"} :
                service' = [service EXCEPT !["router"] = s]
    /\ UNCHANGED <<first, task, engine, failed, hadFailure, proc, coordVars,
                   pollVars, stop, writeVars>>

---------------------------------------------------------------------------
(* The startup loop of _run_primary, one batch per iteration.              *)

NextBatch ==
    /\ pc = "batch" /\ first <= N /\ ~stop
    /\ pc' = "prepare"
    /\ task' = [i \in Engines |-> IF i \in Batch THEN "prepare" ELSE "none"]
    /\ UNCHANGED <<first, engine, phase, failed, hadFailure, exit, procVars,
                   coordVars, pollVars, stop, writeVars>>

\* _prepare_model up to the thread that resolves the adapters, and its result.
BeginPrepare(i) ==
    /\ task[i] = "prepare"
    /\ task' = [task EXCEPT ![i] = "adapters"]
    /\ engine' = [engine EXCEPT ![i] = "preparing"]
    /\ UNCHANGED <<pc, first, phase, failed, hadFailure, exit, procVars,
                   coordVars, pollVars, stop, writeVars>>

EndPrepare(i) ==
    /\ task[i] = "adapters"
    /\ \E r \in {"prepared", "raised"} : task' = [task EXCEPT ![i] = r]
    /\ UNCHANGED <<pc, first, engine, phase, failed, hadFailure, exit, procVars,
                   coordVars, pollVars, stop, writeVars>>

\* The second gather: one launch task per prepared engine.
LaunchTasks_WholeBatch == [i \in Engines |-> IF i \in Batch THEN "launch" ELSE "none"]
LaunchTasks == [i \in Engines |-> IF i \in Prepared THEN "launch" ELSE "none"]

\* What the batch releases to the workers: every engine up to its last prepared
\* one that has not failed.
Released_WholeConfig(states) == {i \in Engines : states[i] # "failed"}
Released_WithFailed(states) == {i \in Engines : \E j \in Prepared : i <= j}
Released(states) ==
    {i \in Engines : (\E j \in Prepared : i <= j) /\ states[i] # "failed"}

\* The first gather has returned: failures are marked, and on a cluster the
\* prepared engines are released to the workers before the barrier.
BatchPrepared ==
    LET broken == {i \in Batch : task[i] = "raised"}
    IN  /\ pc = "prepare"
        /\ \A i \in Batch : task[i] \in {"prepared", "raised"}
        /\ engine' = MarkFailed(engine, broken)
        /\ failed' = (failed \/ broken # {})
        /\ hadFailure' = (hadFailure \/ broken # {})
        /\ IF Workers # {} /\ Prepared # {}
           THEN /\ pc' = "barrier" /\ desired' = Released(engine')
                /\ task' = [i \in Engines |-> IF i \in broken THEN "none" ELSE task[i]]
           ELSE /\ pc' = "launch" /\ UNCHANGED desired
                /\ task' = LaunchTasks
        /\ UNCHANGED <<first, phase, exit, procVars, listening, draining,
                       pollVars, stop, writeVars>>

BarrierPasses ==
    /\ pc = "barrier" /\ AllWorkersRunning(Prepared)
    /\ pc' = "launch"
    /\ task' = LaunchTasks
    /\ UNCHANGED <<first, engine, phase, failed, hadFailure, exit, procVars,
                   coordVars, pollVars, stop, writeVars>>

\* wait_workers raises, for a report of a failed engine or at the deadline: the
\* whole batch fails and the loop continues with the next one.
BarrierRaises ==
    /\ pc = "barrier" /\ ~AllWorkersRunning(Prepared)
    /\ engine' = MarkFailed(engine, Prepared)
    /\ failed' = TRUE /\ hadFailure' = TRUE
    /\ desired' = DesiredOf(engine')
    /\ pc' = "batch" /\ first' = first + Parallelism
    /\ task' = [i \in Engines |-> "none"]
    /\ UNCHANGED <<phase, exit, procVars, listening, draining, pollVars, stop,
                   writeVars>>

---------------------------------------------------------------------------
(* _launch_primary_engine and _wait_engine_ready, one task per engine.      *)

BeginLaunch(i) ==
    /\ task[i] = "launch"
    /\ task' = [task EXCEPT ![i] = "spawn"]
    /\ engine' = [engine EXCEPT ![i] = "starting"]
    /\ UNCHANGED <<pc, first, phase, failed, hadFailure, exit, procVars,
                   coordVars, pollVars, stop, writeVars>>

Spawn(i) ==
    /\ task[i] = "spawn"
    /\ \/ /\ task' = [task EXCEPT ![i] = "check"]
          /\ proc' = [proc EXCEPT ![i] = "running"]
       \/ task' = [task EXCEPT ![i] = "raised"] /\ UNCHANGED proc
    /\ UNCHANGED <<pc, first, engine, phase, failed, hadFailure, exit, service,
                   coordVars, pollVars, stop, writeVars>>

\* The head of the readiness loop with nothing wrong: probe the backend.
CheckEngine(i) ==
    /\ task[i] = "check" /\ ~stop /\ proc[i] = "running"
    /\ task' = [task EXCEPT ![i] = "probe"]
    /\ UNCHANGED <<pc, first, engine, phase, failed, hadFailure, exit, procVars,
                   coordVars, pollVars, stop, writeVars>>

\* The probe has answered.  The process may have exited meanwhile.
EngineReady(i) ==
    /\ task[i] = "probe"
    /\ task' = [task EXCEPT ![i] = "ok"]
    /\ engine' = [engine EXCEPT ![i] = "ready"]
    /\ UNCHANGED <<pc, first, phase, failed, hadFailure, exit, procVars,
                   coordVars, pollVars, stop, writeVars>>

EngineNotReady(i) ==
    /\ task[i] = "probe"
    /\ task' = [task EXCEPT ![i] = "check"]
    /\ UNCHANGED <<pc, first, engine, phase, failed, hadFailure, exit, procVars,
                   coordVars, pollVars, stop, writeVars>>

\* The readiness loop gives up: shutdown, exited process, or the deadline.
WaitRaises_NoDeadline(i) ==
    /\ task[i] = "check" /\ (stop \/ proc[i] = "exited")
    /\ task' = [task EXCEPT ![i] = "raised"]
    /\ UNCHANGED <<pc, first, engine, phase, failed, hadFailure, exit, procVars,
                   coordVars, pollVars, stop, writeVars>>
WaitRaises(i) ==
    /\ task[i] = "check"
    /\ task' = [task EXCEPT ![i] = "raised"]
    /\ UNCHANGED <<pc, first, engine, phase, failed, hadFailure, exit, procVars,
                   coordVars, pollVars, stop, writeVars>>

\* The second gather has returned.
Launched_First == pc = "launch" /\ \E i \in Batch : task[i] \in {"none", "ok", "raised"}
Launched == pc = "launch" /\ \A i \in Batch : task[i] \in {"none", "ok", "raised"}

\* Results are handled in index order: mark failed, then await process.stop().
HandleRaised(i) ==
    /\ Launched
    /\ task[i] = "raised" /\ \A j \in Batch : task[j] = "raised" => i <= j
    /\ task' = [task EXCEPT ![i] = "reap"]
    /\ engine' = [engine EXCEPT ![i] = "failed"]
    /\ hadFailure' = TRUE
    /\ UNCHANGED <<pc, first, phase, failed, exit, procVars, coordVars, pollVars,
                   stop, writeVars>>

Reaped(i) ==
    /\ task[i] = "reap"
    /\ task' = [task EXCEPT ![i] = "none"]
    /\ proc' = [proc EXCEPT ![i] = IF @ = "running" THEN "exited" ELSE @]
    /\ failed' = TRUE
    /\ UNCHANGED <<pc, first, engine, phase, hadFailure, exit, service, coordVars,
                   pollVars, stop, writeVars>>

FinishBatch ==
    /\ Launched /\ \A i \in Batch : task[i] # "raised"
    /\ desired' = DesiredOf(engine)
    /\ pc' = "batch" /\ first' = first + Parallelism
    /\ task' = [i \in Engines |-> "none"]
    /\ UNCHANGED <<engine, phase, failed, hadFailure, exit, procVars, listening,
                   draining, pollVars, stop, writeVars>>

AllReady_ByProcess(states) == \A i \in Engines : proc[i] = "running"
AllReady(states) == \A i \in Engines : states[i] = "ready"

\* All batches done, or stop: announce readiness or degradation.
LeaveLoading_StopIsClean ==
    /\ pc = "batch" /\ (stop \/ first > N)
    /\ IF AllReady(engine) /\ ~stop
       THEN phase' = "ready" /\ UNCHANGED failed
       ELSE phase' = "degraded" /\ failed' = (failed \/ ~stop)
    /\ pc' = "monitor"
    /\ UNCHANGED <<first, task, engine, hadFailure, exit, procVars, coordVars,
                   pollVars, stop, writeVars>>
LeaveLoading ==
    /\ pc = "batch" /\ (stop \/ first > N)
    /\ IF AllReady(engine) /\ ~stop
       THEN phase' = "ready" /\ UNCHANGED failed
       ELSE phase' = "degraded" /\ failed' = TRUE
    /\ pc' = "monitor"
    /\ UNCHANGED <<first, task, engine, hadFailure, exit, procVars, coordVars,
                   pollVars, stop, writeVars>>

---------------------------------------------------------------------------
(* _monitor_primary.                                                       *)

\* Engines whose process is gone and not yet accounted for.
Gone_WhileStarting == {i \in Engines : proc[i] = "exited" /\ engine[i] = "starting"}
Gone == {i \in Engines : proc[i] = "exited" /\ engine[i] # "failed"}

\* An iteration up to the health probes: exited processes fail their engine.
MonitorExits_IgnoresStop ==
    /\ pc = "monitor" /\ pc' = "probe"
    /\ engine' = MarkFailed(engine, Gone)
    /\ hadFailure' = (hadFailure \/ Gone # {})
    /\ UNCHANGED <<first, task, phase, failed, exit, procVars, coordVars,
                   pollVars, stop, writeVars>>
MonitorExits ==
    /\ pc = "monitor" /\ ~stop
    /\ engine' = MarkFailed(engine, Gone)
    /\ hadFailure' = (hadFailure \/ Gone # {})
    /\ pc' = "probe"
    /\ UNCHANGED <<first, task, phase, failed, exit, procVars, coordVars,
                   pollVars, stop, writeVars>>

\* The rest of the iteration, with the engines whose probe failed: service
\* failures, workers, the desired set and the phase.  (When no engine is ready
\* the code does not suspend before this step.)
MonitorRest(bad) ==
    LET probed == MarkFailed(engine, bad)
        ready == {i \in Engines : probed[i] = "ready"}
        lost == Workers # {} /\ ready # {} /\ ~AllWorkersRunning(ready)
    IN  /\ pc = "probe" /\ \A i \in bad : engine[i] = "ready"
        /\ engine' = IF lost THEN MarkFailed(probed, ready) ELSE probed
        /\ hadFailure' = (hadFailure \/ bad # {})  \* not for a lost worker
        /\ service' = [s \in Services |->
                          IF service[s] = "exited" THEN "failed" ELSE service[s]]
        /\ desired' = DesiredOf(engine')
        /\ phase' = IF AllReady(engine') /\ \A s \in Services : service'[s] # "failed"
                    THEN phase ELSE "degraded"
        /\ pc' = "idle"
        /\ UNCHANGED <<first, task, failed, exit, proc, listening, draining,
                       pollVars, stop, writeVars>>

\* wait_or_stop(2) is over.
MonitorWakes ==
    /\ pc = "idle" /\ pc' = "monitor"
    /\ UNCHANGED <<first, task, engine, phase, failed, hadFailure, exit, procVars,
                   coordVars, pollVars, stop, writeVars>>

\* stop_event: the loop ends and _run_primary returns its status.
MonitorReturns ==
    /\ pc = "monitor" /\ stop
    /\ pc' = "shutdown" /\ exit' = IF failed \/ hadFailure THEN 1 ELSE 0
    /\ UNCHANGED <<first, task, engine, phase, failed, hadFailure, procVars,
                   coordVars, pollVars, stop, writeVars>>

---------------------------------------------------------------------------
(* _shutdown.                                                              *)

\* Its first write of the state file may fail: the OSError skips all the rest.
BeginShutdown ==
    /\ pc = "shutdown"
    /\ stop' = TRUE /\ phase' = "stopping"
    /\ \/ /\ draining' = (Workers # {})
          /\ pc' = IF Workers # {} THEN "drain" ELSE "join"
          /\ UNCHANGED <<exit, listening, unwritten>>
       \/ /\ WriteFaults
          /\ pc' = "exited" /\ exit' = 1 /\ listening' = FALSE
          /\ unwritten' = {"stopping"} /\ UNCHANGED draining
    /\ UNCHANGED <<first, task, engine, failed, hadFailure, procVars, desired,
                   pollVars, heartbeat>>

\* The three seconds are over and the server is closed.
CloseCoordinator ==
    /\ pc = "drain" /\ pc' = "join" /\ listening' = FALSE
    /\ UNCHANGED <<first, task, engine, phase, failed, hadFailure, exit, procVars,
                   desired, draining, pollVars, stop, writeVars>>

\* Only CancelledError is suppressed: the heartbeat's own OSError is raised
\* here and skips the rest of _shutdown.
JoinHeartbeat ==
    /\ pc = "join"
    /\ IF heartbeat = "raised"
       THEN pc' = "exited" /\ exit' = 1 /\ UNCHANGED heartbeat
       ELSE pc' = "stopping" /\ heartbeat' = "ended" /\ UNCHANGED exit
    /\ UNCHANGED <<first, task, engine, phase, failed, hadFailure, procVars,
                   coordVars, pollVars, stop, unwritten>>

\* The children are stopped concurrently; ManagedProcess has the detail.
StopEngine(i) ==
    /\ pc = "stopping" /\ proc[i] = "running"
    /\ proc' = [proc EXCEPT ![i] = "exited"]
    /\ UNCHANGED <<loopVars, service, coordVars, pollVars, stop, writeVars>>

StopService(s) ==
    /\ pc = "stopping" /\ service[s] = "running"
    /\ service' = [service EXCEPT ![s] = "exited"]
    /\ UNCHANGED <<loopVars, proc, coordVars, pollVars, stop, writeVars>>

ChildrenStopped_EnginesOnly == \A i \in Engines : proc[i] # "running"
ChildrenStopped ==
    /\ \A i \in Engines : proc[i] # "running"
    /\ \A s \in Services : service[s] # "running"

\* Every stop() has returned.  The last write may fail, too.
EndShutdown ==
    /\ pc = "stopping" /\ ChildrenStopped
    /\ pc' = "exited" /\ phase' = "stopped"
    /\ \/ UNCHANGED <<exit, unwritten>>
       \/ WriteFaults /\ exit' = 1 /\ unwritten' = {"stopped"}
    /\ UNCHANGED <<first, task, engine, failed, hadFailure, procVars, coordVars,
                   pollVars, stop, heartbeat>>

---------------------------------------------------------------------------
(* What happens around the loop.                                           *)

EngineExits(i) ==
    /\ proc[i] = "running" /\ proc' = [proc EXCEPT ![i] = "exited"]
    /\ UNCHANGED <<loopVars, service, coordVars, pollVars, stop, writeVars>>

ServiceExits(s) ==
    /\ service[s] = "running" /\ service' = [service EXCEPT ![s] = "exited"]
    /\ UNCHANGED <<loopVars, proc, coordVars, pollVars, stop, writeVars>>

\* SIGTERM or SIGINT: the handler sets stop_event.
Signal ==
    /\ ~stop /\ pc # "exited" /\ stop' = TRUE
    /\ UNCHANGED <<loopVars, procVars, coordVars, pollVars, writeVars>>

\* The heartbeat's loop ends at stop_event, or its touch() raises OSError.
HeartbeatEnds ==
    /\ heartbeat = "running" /\ stop /\ pc # "exited" /\ heartbeat' = "ended"
    /\ UNCHANGED <<loopVars, procVars, coordVars, pollVars, stop, unwritten>>

HeartbeatBreaks ==
    /\ WriteFaults /\ heartbeat = "running" /\ pc # "exited"
    /\ heartbeat' = "raised"
    /\ UNCHANGED <<loopVars, procVars, coordVars, pollVars, stop, unwritten>>

\* _process: a poll replaces the rank's report, whatever it says.
HandlePoll(w, r) ==
    /\ listening
    /\ report' = [report EXCEPT ![w] = r]
    /\ fresh' = [fresh EXCEPT ![w] = TRUE]
    /\ UNCHANGED <<loopVars, procVars, coordVars, stop, writeVars>>

\* Fifteen seconds pass without a poll from rank w.
ReportAges(w) ==
    /\ fresh[w] /\ fresh' = [fresh EXCEPT ![w] = FALSE]
    /\ UNCHANGED <<loopVars, procVars, coordVars, report, stop, writeVars>>

Terminated == pc = "exited" /\ UNCHANGED vars
---------------------------------------------------------------------------

Task(i) ==
    \/ BeginPrepare(i) \/ EndPrepare(i) \/ BeginLaunch(i) \/ Spawn(i)
    \/ CheckEngine(i) \/ EngineReady(i) \/ EngineNotReady(i) \/ WaitRaises(i)
    \/ HandleRaised(i) \/ Reaped(i)

Loop ==
    \/ StartCoordinator \/ StartSsh \/ StartRouter
    \/ NextBatch \/ BatchPrepared \/ BarrierPasses \/ BarrierRaises \/ FinishBatch
    \/ LeaveLoading
    \/ \E bad \in SUBSET Engines : MonitorRest(bad)
    \/ MonitorExits \/ MonitorWakes \/ MonitorReturns
    \/ BeginShutdown \/ CloseCoordinator \/ JoinHeartbeat \/ EndShutdown

Children ==
    \/ \E i \in Engines : StopEngine(i) \/ EngineExits(i)
    \/ \E s \in Services : StopService(s) \/ ServiceExits(s)

System ==
    \/ Loop
    \/ \E i \in Engines : Task(i)
    \/ Children
    \/ Signal \/ HeartbeatEnds \/ HeartbeatBreaks

\* Workers the model knows nothing about: any report at any time.  (Nothing here
\* tells an engine that is absent from a report from one that failed.)
Environment ==
    \E w \in Workers :
        \/ \E r \in [Engines -> ReportStatus \ {"absent"}] : HandlePoll(w, r)
        \/ ReportAges(w)

Next == System \/ Environment \/ Terminated

\* A stop() of a process that was started is awaited.  It returns when the
\* readers of the process's pipes are done, which a process that survives the
\* leader can put off for ever (processes.py:54-56, 101-103; ManagedProcess).
AwaitsStop ==
    \/ \E i \in Engines : task[i] = "reap" /\ proc[i] # "none"
    \/ /\ pc = "stopping"
       /\ (\E i \in Engines : proc[i] # "none") \/ \E s \in Services : service[s] # "off"

\* Fairness: the event loop runs every ready coroutine, thread results and
\* timers arrive (the monitor's sleep, the three seconds of the drain).  Nothing
\* is assumed of an awaited stop().  A readiness loop that is never satisfied
\* reaches its deadline, although the deadline is only looked at between two
\* probes: that is strong fairness.
Fairness ==
    /\ WF_vars(Loop /\ ~AwaitsStop)
    /\ \A i \in Engines :
          WF_vars(Task(i) /\ ~AwaitsStop) /\ SF_vars(WaitRaises(i))

Spec == Init /\ [][Next]_vars
FairSpec == Spec /\ Fairness

---------------------------------------------------------------------------
(* Properties.                                                             *)

\* Models start in batches (the loop at supervisor.py:209): while a batch is
\* under way no later engine has left "pending" and every earlier one has been
\* settled, so at most Parallelism engines prepare or start at any time.
BatchedStart ==
    /\ \A i \in Engines :
          /\ first + Parallelism <= i => engine[i] = "pending"
          /\ i < first => engine[i] \in {"ready", "failed"}
    /\ Cardinality({i \in Engines : engine[i] \in {"preparing", "starting"}})
          <= Parallelism

\* YeetLLM does not enter an automatic restart loop (README.md:744): a failed
\* engine stays failed, its process is never started again, and no process is
\* started for an engine that is not starting.
NoRestart ==
    [][\A i \in Engines :
          /\ engine[i] = "failed" => engine'[i] = "failed"
          /\ proc'[i] = "running" /\ proc[i] # "running"
                => proc[i] = "none" /\ engine[i] = "starting"]_vars

\* The phase the router and the health check trust (supervisor.py:260, 500):
\* "ready" means every engine is ready, except inside the monitor's iteration
\* that has just marked an exit and is still probing the others.
ReadyPhaseIsHonest == phase = "ready" /\ pc # "probe" => AllReady(engine)

\* What the workers are asked to run (cluster.py:237) follows the engines'
\* states: it never names an engine that is not released, and outside a batch
\* and a monitor iteration it is exactly the engines that are still wanted.
DesiredIsLive ==
    /\ \A i \in desired : engine[i] # "pending"
    /\ Workers # {} /\ pc \in {"batch", "monitor", "idle"}
          => desired = {i \in Engines :
                           engine[i] \in {"preparing", "starting", "ready"}}

\* Exit status 0 of a single node (supervisor.py:279) means that every model
\* was served and none had failed when the container was told to stop.
CleanExitMeansServed ==
    Workers = {} /\ pc = "exited" /\ exit = 0 => AllReady(engine)

\* _shutdown leaves no child behind (README.md:749-751).
NoOrphans ==
    pc = "exited" =>
        /\ \A i \in Engines : proc[i] # "running"
        /\ \A s \in Services : service[s] # "running"

\* Whatever it was doing when it was told to stop or raised (supervisor.py:640-666),
\* with polls, exits and signals at any time, the supervisor leaves a child behind
\* only if the heartbeat's write of the state file had failed, or the write of the
\* phase "stopping" (line 643).  A failure of the last write (660) leaves none.
OrphansOnlyAfterFault ==
    heartbeat # "raised" /\ "stopping" \notin unwritten => NoOrphans

\* The inductive strengthening of the invariants above, in parts.  An engine
\* that no batch has reached is untouched; the stage of a batch, the task of an
\* engine and its state go together.
Untouched(i) == task[i] = "none" /\ engine[i] = "pending" /\ proc[i] = "none"

InBatch(i) ==
    /\ pc \notin {"prepare", "barrier", "launch"} => Untouched(i)
    /\ pc = "prepare" =>
          /\ proc[i] = "none"
          /\ \/ task[i] = "prepare" /\ engine[i] = "pending"
             \/ task[i] \in {"adapters", "prepared", "raised"} /\ engine[i] = "preparing"
    /\ pc = "barrier" =>
          /\ proc[i] = "none"
          /\ \/ task[i] = "prepared" /\ engine[i] = "preparing"
             \/ task[i] = "none" /\ engine[i] = "failed"
    /\ pc = "launch" =>
          \/ task[i] = "launch" /\ engine[i] = "preparing" /\ proc[i] = "none"
          \/ task[i] = "spawn" /\ engine[i] = "starting" /\ proc[i] = "none"
          \/ task[i] \in {"check", "probe"} /\ engine[i] = "starting" /\ proc[i] # "none"
          \/ task[i] = "raised" /\ engine[i] = "starting"
          \/ task[i] = "ok" /\ engine[i] = "ready"
          \/ task[i] \in {"reap", "none"} /\ engine[i] = "failed"

BatchShape ==
    \A i \in Engines :
        /\ i < first => task[i] = "none" /\ engine[i] \in {"ready", "failed"}
        /\ i \in Batch => InBatch(i)
        /\ first + Parallelism <= i => Untouched(i)

\* The phase is "ready" only inside the monitor and until the shutdown begins.
PhaseShape ==
    phase = "ready" =>
        pc \in {"monitor", "probe", "idle", "shutdown"} /\ (pc # "probe" => AllReady(engine))

\* On a single node a monitor without a recorded failure serves every model.
ExitShape ==
    Workers = {} =>
        /\ pc \in {"monitor", "probe", "idle"} /\ ~failed /\ ~hadFailure => AllReady(engine)
        /\ exit = 0 => pc \in {"shutdown", "drain", "join", "stopping", "exited"}
                       /\ AllReady(engine)

ChildShape ==
    /\ heartbeat = "raised" => WriteFaults
    /\ unwritten # {} => WriteFaults /\ pc = "exited"
    /\ pc = "exited" /\ heartbeat # "raised" /\ "stopping" \notin unwritten
          => ChildrenStopped

DesiredShape ==
    /\ \A i \in desired : engine[i] # "pending"
    /\ pc \in {"bind", "ssh", "router", "batch", "monitor", "idle"}
          => desired = DesiredOf(engine)

Inductive == BatchShape /\ PhaseShape /\ ExitShape /\ ChildShape /\ DesiredShape

\* A stop request is honoured wherever the loop is suspended, the barrier and
\* the readiness loops included (supervisor.py:640): the supervisor exits, unless
\* one of its own stop() never returns, and nothing else holds it up.
StopLeadsToExit == stop ~> (pc = "exited" \/ []AwaitsStop)

\* What the state file's readers rely on (Deployment): engines advance only while
\* the phase is "loading", the announcement is made once and of settled batches,
\* and a "ready" that is no longer true is withdrawn (supervisor.py:259-266, 500).
\* The announcement comes, unless the stop() of an engine that failed while
\* loading (supervisor.py:252) never returns.
D == INSTANCE Deployment
ImplementsDeployment ==
    /\ D!Spec /\ D!Withdraws
    /\ D!Announces \/ <>[]AwaitsStop

\* No engine is left preparing or starting (supervisor.py:209-254), unless the
\* loop is held up for ever in the stop() of another one of its batch.
EngineSettles ==
    \A i \in Engines :
        engine[i] \in {"preparing", "starting"}
            ~> (engine[i] \in {"ready", "failed"} \/ []AwaitsStop)

\* A dead child makes global readiness fail (README.md:742-744), whenever it
\* dies: while other engines load, between two probes, or after readiness.  Only
\* a stop() that never returns can leave the phase at "loading" instead, and then
\* readiness fails as well, for good.
DeathDegrades ==
    LET noticed == phase \in {"degraded", "stopping", "stopped"}
        neverReady == phase = "loading" /\ AwaitsStop
    IN  /\ \A i \in Engines : proc[i] = "exited" ~> (noticed \/ []neverReady)
        /\ \A s \in Services : service[s] = "exited" ~> (noticed \/ []neverReady)
=============================================================================
