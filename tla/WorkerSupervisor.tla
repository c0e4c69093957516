-------------------------- MODULE WorkerSupervisor --------------------------
(***************************************************************************)
(* The supervisor process on ranks 1..node_count-1: Supervisor._run_worker *)
(* and _launch_worker_engine (supervisor.py), each worker one asyncio      *)
(* loop.  The answers of the coordinator are inputs here; Cluster connects *)
(* them with PrimarySupervisor.                                            *)
(***************************************************************************)
EXTENDS Integers, FiniteSets

CONSTANTS
    N,          \* number of configured models
    Workers,    \* ranks of the worker nodes
    WriteFaults \* may a write of the state file by the heartbeat or by _shutdown fail?

VARIABLES
    wpc,        \* where the coroutine `run` of the rank is suspended
    wtask,      \* the gathered launch of an engine, or its stop, due or in progress
    es,         \* engine_states, what the rank reports
    shown,      \* state.data["engines"][id]["state"] on the rank
    wproc,      \* the headless vLLM process of each engine; "exited": and waited for
    want,       \* `desired` of the last answer
    outage,     \* disconnected_since is set
    wphase,     \* state.data["supervisor"]["phase"] on the rank
    wfailed,    \* the local `failed` of _run_worker
    wstop,      \* self.stop_event
    wfault      \* has the heartbeat's write, or that of "stopping", raised?

vars == <<wpc, wtask, es, shown, wproc, want, outage, wphase, wfailed, wstop, wfault>>

Engines == 1..N

TypeOK ==
    /\ wpc \in [Workers -> {"top", "poll", "reap", "launch", "idle", "shutdown",
                            "stopping", "exited"}]
    /\ wtask \in [Workers -> [Engines -> {"none", "stop", "stopping", "adapters",
                                          "spawn", "settle", "ok", "raised"}]]
    /\ es \in [Workers -> [Engines -> {"absent", "running", "failed"}]]
    /\ shown \in [Workers -> [Engines -> {"pending", "preparing", "starting",
                                          "running", "failed", "stopped"}]]
    /\ wproc \in [Workers -> [Engines -> {"none", "running", "exited"}]]
    /\ want \in [Workers -> SUBSET Engines]
    /\ wphase \in [Workers -> {"starting", "ready", "degraded", "stopping",
                               "stopped"}]
    /\ outage \in [Workers -> BOOLEAN]
    /\ wfailed \in [Workers -> BOOLEAN]
    /\ wstop \in [Workers -> BOOLEAN]
    /\ wfault \in [Workers -> BOOLEAN]

Init ==
    /\ wpc = [w \in Workers |-> "top"]
    /\ wtask = [w \in Workers |-> [i \in Engines |-> "none"]]
    /\ es = [w \in Workers |-> [i \in Engines |-> "absent"]]
    /\ shown = [w \in Workers |-> [i \in Engines |-> "pending"]]
    /\ wproc = [w \in Workers |-> [i \in Engines |-> "none"]]
    /\ want = [w \in Workers |-> {}]
    /\ outage = [w \in Workers |-> FALSE]
    /\ wphase = [w \in Workers |-> "starting"]
    /\ wfailed = [w \in Workers |-> FALSE]
    /\ wstop = [w \in Workers |-> FALSE]
    /\ wfault = [w \in Workers |-> FALSE]

---------------------------------------------------------------------------
(* One iteration of the poll loop.                                         *)

\* Headless processes that have exited since they were last looked at.
Lost(w) == {i \in Engines : wproc[w][i] = "exited" /\ es[w][i] # "failed"}

\* Account for exits, then open the connection for the poll.
SendPoll(w) ==
    /\ wpc[w] = "top" /\ ~wstop[w]
    /\ es' = [es EXCEPT ![w] =
                 [i \in Engines |-> IF i \in Lost(w) THEN "failed" ELSE @[i]]]
    /\ shown' = [shown EXCEPT ![w] =
                 [i \in Engines |-> IF i \in Lost(w) THEN "failed" ELSE @[i]]]
    /\ wfailed' = [wfailed EXCEPT ![w] = @ \/ Lost(w) # {}]
    /\ wpc' = [wpc EXCEPT ![w] = "poll"]
    /\ UNCHANGED <<wtask, wproc, want, outage, wphase, wstop, wfault>>

\* The poll raised; the loop sleeps and tries again.
PollFails_Forgets(w) ==
    /\ wpc[w] = "poll"
    /\ outage' = [outage EXCEPT ![w] = FALSE]
    /\ wpc' = [wpc EXCEPT ![w] = "idle"]
    /\ UNCHANGED <<wtask, es, shown, wproc, want, wphase, wfailed, wstop, wfault>>
PollFails(w) ==
    /\ wpc[w] = "poll"
    /\ outage' = [outage EXCEPT ![w] = TRUE]
    /\ wpc' = [wpc EXCEPT ![w] = "idle"]
    /\ UNCHANGED <<wtask, es, shown, wproc, want, wphase, wfailed, wstop, wfault>>

\* It raised again and the disconnect limit is over: the rank gives up.
PollGivesUp(w) ==
    /\ wpc[w] = "poll" /\ outage[w]
    /\ wfailed' = [wfailed EXCEPT ![w] = TRUE]
    /\ wpc' = [wpc EXCEPT ![w] = "shutdown"]
    /\ UNCHANGED <<wtask, es, shown, wproc, want, outage, wphase, wstop, wfault>>

\* An answer tells the rank to shut down, ...
PollShutdown(w) ==
    /\ wpc[w] = "poll"
    /\ outage' = [outage EXCEPT ![w] = FALSE]
    /\ wpc' = [wpc EXCEPT ![w] = "shutdown"]
    /\ UNCHANGED <<wtask, es, shown, wproc, want, wphase, wfailed, wstop, wfault>>

\* ... or what to run.  Engines it no longer names are stopped, one by one.
Removed(w, d) == {i \in Engines : es[w][i] # "absent" /\ i \notin d}

PollAnswered(w, d) ==
    /\ wpc[w] = "poll"
    /\ outage' = [outage EXCEPT ![w] = FALSE]
    /\ want' = [want EXCEPT ![w] = d]
    /\ wtask' = [wtask EXCEPT ![w] =
                    [i \in Engines |-> IF i \in Removed(w, d) THEN "stop" ELSE "none"]]
    /\ wpc' = [wpc EXCEPT ![w] = "reap"]
    /\ UNCHANGED <<es, shown, wproc, wphase, wfailed, wstop, wfault>>

\* One process at a time is taken from self.processes and its stop() awaited.
BeginReap(w, i) ==
    /\ wpc[w] = "reap" /\ wtask[w][i] = "stop" /\ wproc[w][i] # "none"
    /\ \A j \in Engines : wtask[w][j] # "stopping"
    /\ wtask' = [wtask EXCEPT ![w][i] = "stopping"]
    /\ UNCHANGED <<wpc, es, shown, wproc, want, outage, wphase, wfailed, wstop, wfault>>

\* stop() has returned, or there was no process: the engine is forgotten.
ReapReturns(w, i) ==
    /\ wpc[w] = "reap"
    /\ \/ wtask[w][i] = "stopping" /\ wproc[w][i] = "exited"
       \/ /\ wtask[w][i] = "stop" /\ wproc[w][i] = "none"
          /\ \A j \in Engines : wtask[w][j] # "stopping"
Reap_KeepsProcess(w, i) ==
    /\ ReapReturns(w, i)
    /\ wtask' = [wtask EXCEPT ![w][i] = "none"]
    /\ es' = [es EXCEPT ![w][i] = "absent"]
    /\ shown' = [shown EXCEPT ![w][i] = "stopped"]
    /\ UNCHANGED <<wpc, wproc, want, outage, wphase, wfailed, wstop, wfault>>
Reap(w, i) ==
    /\ ReapReturns(w, i)
    /\ wtask' = [wtask EXCEPT ![w][i] = "none"]
    /\ wproc' = [wproc EXCEPT ![w][i] = "none"]
    /\ es' = [es EXCEPT ![w][i] = "absent"]
    /\ shown' = [shown EXCEPT ![w][i] = "stopped"]
    /\ UNCHANGED <<wpc, want, outage, wphase, wfailed, wstop, wfault>>

\* new_indices: wanted engines the rank knows nothing about.  A failed engine
\* stays in engine_states and is therefore not launched again.
New_RetriesFailed(w) == {i \in want[w] : es[w][i] # "running"}
New(w) == {i \in want[w] : es[w][i] = "absent"}

\* All new engines are launched at once; each begins to prepare.
BeginLaunches(w) ==
    /\ wpc[w] = "reap" /\ \A i \in Engines : wtask[w][i] \notin {"stop", "stopping"}
    /\ wtask' = [wtask EXCEPT ![w] =
                    [i \in Engines |-> IF i \in New(w) THEN "adapters" ELSE "none"]]
    /\ shown' = [shown EXCEPT ![w] =
                    [i \in Engines |-> IF i \in New(w) THEN "preparing" ELSE @[i]]]
    /\ wpc' = [wpc EXCEPT ![w] = "launch"]
    /\ UNCHANGED <<es, wproc, want, outage, wphase, wfailed, wstop, wfault>>

AdaptersResolved(w, i) ==
    /\ wtask[w][i] = "adapters"
    /\ \/ /\ wtask' = [wtask EXCEPT ![w][i] = "spawn"]
          /\ shown' = [shown EXCEPT ![w][i] = "starting"]
       \/ wtask' = [wtask EXCEPT ![w][i] = "raised"] /\ UNCHANGED shown
    /\ UNCHANGED <<wpc, es, wproc, want, outage, wphase, wfailed, wstop, wfault>>

SpawnHeadless(w, i) ==
    /\ wtask[w][i] = "spawn"
    /\ \/ /\ wtask' = [wtask EXCEPT ![w][i] = "settle"]
          /\ wproc' = [wproc EXCEPT ![w][i] = "running"]
       \/ wtask' = [wtask EXCEPT ![w][i] = "raised"] /\ UNCHANGED wproc
    /\ UNCHANGED <<wpc, es, shown, want, outage, wphase, wfailed, wstop, wfault>>

\* A quarter of a second after the spawn the process must still be there.
Settle(w, i) ==
    /\ wtask[w][i] = "settle"
    /\ IF wproc[w][i] = "running"
       THEN /\ wtask' = [wtask EXCEPT ![w][i] = "ok"]
            /\ shown' = [shown EXCEPT ![w][i] = "running"]
       ELSE wtask' = [wtask EXCEPT ![w][i] = "raised"] /\ UNCHANGED shown
    /\ UNCHANGED <<wpc, es, wproc, want, outage, wphase, wfailed, wstop, wfault>>

\* engine_states after the gathered launches.
LaunchResult(w) ==
    [i \in Engines |-> CASE wtask[w][i] = "ok" -> "running"
                         [] wtask[w][i] = "raised" -> "failed"
                         [] OTHER -> es[w][i]]

PhaseOf(states, old) ==
    LET active == {states[i] : i \in Engines} \ {"absent"}
    IN  CASE active = {"running"} -> "ready"
          [] "failed" \in active -> "degraded"
          [] OTHER -> old

FinishIteration(w) ==
    /\ wpc[w] = "launch"
    /\ \A i \in Engines : wtask[w][i] \in {"none", "ok", "raised"}
    /\ es' = [es EXCEPT ![w] = LaunchResult(w)]
    /\ shown' = [shown EXCEPT ![w] =
          [i \in Engines |-> IF wtask[w][i] = "raised" THEN "failed" ELSE @[i]]]
    /\ wfailed' = [wfailed EXCEPT ![w] = @ \/ \E i \in Engines : wtask[w][i] = "raised"]
    /\ wtask' = [wtask EXCEPT ![w] = [i \in Engines |-> "none"]]
    /\ wphase' = [wphase EXCEPT ![w] = PhaseOf(es'[w], @)]
    /\ wpc' = [wpc EXCEPT ![w] = "idle"]
    /\ UNCHANGED <<wproc, want, outage, wstop, wfault>>

\* wait_or_stop(2) is over.
Wakes(w) ==
    /\ wpc[w] = "idle" /\ wpc' = [wpc EXCEPT ![w] = "top"]
    /\ UNCHANGED <<wtask, es, shown, wproc, want, outage, wphase, wfailed, wstop, wfault>>

LoopEnds(w) ==
    /\ wpc[w] = "top" /\ wstop[w] /\ wpc' = [wpc EXCEPT ![w] = "shutdown"]
    /\ UNCHANGED <<wtask, es, shown, wproc, want, outage, wphase, wfailed, wstop, wfault>>

---------------------------------------------------------------------------
(* _shutdown on a worker, where there is no coordinator to drain: it comes to *)
(* the heartbeat at once.                                                  *)

\* The write of "stopping" may raise, and so does a heartbeat that has: either
\* skips all the rest.
BeginShutdown(w) ==
    /\ wpc[w] = "shutdown"
    /\ wstop' = [wstop EXCEPT ![w] = TRUE]
    /\ wphase' = [wphase EXCEPT ![w] = "stopping"]
    /\ \/ /\ ~wfault[w]
          /\ wpc' = [wpc EXCEPT ![w] = "stopping"] /\ UNCHANGED wfault
       \/ /\ wfault[w] \/ WriteFaults
          /\ wpc' = [wpc EXCEPT ![w] = "exited"]
          /\ wfault' = [wfault EXCEPT ![w] = TRUE]
    /\ UNCHANGED <<wtask, es, shown, wproc, want, outage, wfailed>>

\* The children a stop() is awaited for, here or in the poll loop, end.
StopHeadless(w, i) ==
    /\ wpc[w] = "stopping" \/ wtask[w][i] = "stopping"
    /\ wproc[w][i] = "running"
    /\ wproc' = [wproc EXCEPT ![w][i] = "exited"]
    /\ UNCHANGED <<wpc, wtask, es, shown, want, outage, wphase, wfailed, wstop, wfault>>

\* Every stop() has returned.  (If the last write fails, only the exit status,
\* which is no state of this model, is another.)
EndShutdown(w) ==
    /\ wpc[w] = "stopping" /\ \A i \in Engines : wproc[w][i] # "running"
    /\ wpc' = [wpc EXCEPT ![w] = "exited"]
    /\ wphase' = [wphase EXCEPT ![w] = "stopped"]
    /\ UNCHANGED <<wtask, es, shown, wproc, want, outage, wfailed, wstop, wfault>>

---------------------------------------------------------------------------

HeadlessExits(w, i) ==
    /\ wproc[w][i] = "running" /\ wproc' = [wproc EXCEPT ![w][i] = "exited"]
    /\ UNCHANGED <<wpc, wtask, es, shown, want, outage, wphase, wfailed, wstop, wfault>>

Signal(w) ==
    /\ ~wstop[w] /\ wpc[w] # "exited" /\ wstop' = [wstop EXCEPT ![w] = TRUE]
    /\ UNCHANGED <<wpc, wtask, es, shown, wproc, want, outage, wphase, wfailed, wfault>>

\* The heartbeat's touch() raises OSError, any time before it is cancelled.
HeartbeatBreaks(w) ==
    /\ WriteFaults /\ ~wfault[w] /\ wpc[w] \notin {"stopping", "exited"}
    /\ wfault' = [wfault EXCEPT ![w] = TRUE]
    /\ UNCHANGED <<wpc, wtask, es, shown, wproc, want, outage, wphase, wfailed, wstop>>

\* A stop() of a process that was started is awaited: it may never return
\* (PrimarySupervisor's AwaitsStop, on a rank).
AwaitsStop(w) ==
    \/ \E i \in Engines : wtask[w][i] = "stopping"
    \/ wpc[w] = "stopping" /\ \E i \in Engines : wproc[w][i] # "none"

\* What the rank does by itself: everything but the outcome of a poll.
Loop(w) ==
    \/ SendPoll(w) \/ BeginLaunches(w) \/ FinishIteration(w) \/ Wakes(w)
    \/ LoopEnds(w) \/ BeginShutdown(w) \/ EndShutdown(w)
    \/ \E i \in Engines :
          \/ BeginReap(w, i) \/ Reap(w, i) \/ AdaptersResolved(w, i)
          \/ SpawnHeadless(w, i) \/ Settle(w, i) \/ StopHeadless(w, i)

PollOutcome(w) ==
    \/ PollFails(w) \/ PollGivesUp(w) \/ PollShutdown(w)
    \/ \E d \in SUBSET Engines : PollAnswered(w, d)

Terminated == (\A w \in Workers : wpc[w] = "exited") /\ UNCHANGED vars

Next ==
    \/ \E w \in Workers :
          \/ Loop(w) \/ PollOutcome(w) \/ Signal(w) \/ HeartbeatBreaks(w)
          \/ \E i \in Engines : HeadlessExits(w, i)
    \/ Terminated

Spec == Init /\ [][Next]_vars

---------------------------------------------------------------------------
(* Properties of a worker, whatever the coordinator answers.               *)

\* What the rank reports, what its registry shows and which processes exist
\* agree (supervisor.py:539-548, 574-607): a reported engine has the same state
\* in the registry, and a process the rank knows nothing about is one that is
\* being launched.
ReportMatchesRegistry ==
    \A w \in Workers : \A i \in Engines :
        /\ es[w][i] # "absent" => shown[w][i] = es[w][i]
        /\ wproc[w][i] # "none" /\ es[w][i] = "absent"
              => wtask[w][i] \in {"settle", "ok", "raised"}

\* A headless engine that failed is not launched again (README.md:744) unless
\* the coordinator has withdrawn it in between (supervisor.py:576).
FailedNotRelaunched ==
    [][\A w \in Workers : \A i \in Engines :
          shown[w][i] = "failed" => shown'[w][i] \in {"failed", "stopped"}]_vars
=============================================================================
