------------------------------ MODULE Cluster ------------------------------
(***************************************************************************)
(* A clustered deployment: PrimarySupervisor on rank 0, WorkerSupervisor   *)
(* on every other rank, and the polls between them (poll_coordinator and   *)
(* ClusterCoordinator._handle in cluster.py).  Every poll opens its own    *)
(* connection.  A worker that gives up on one leaves it behind: the        *)
(* coordinator may still read it, later, and then takes it for news.       *)
(* The model begins when the primary's own services are up.                *)
(***************************************************************************)
EXTENDS Integers

CONSTANTS
    N, Parallelism, Workers, WriteFaults,
    MaxExits,       \* bound: engine processes that exit, ranks told to stop,
                    \* heartbeats that break
    MaxProbes,      \* bound: iterations with a failed health probe
    MaxLost         \* bound: polls that fail while the coordinator listens

\* A cluster has at least one worker (cluster.py: node_count > 1).
ASSUME ClusteredAssumption == Workers # {}
ASSUME NAssumption == N \in Nat \ {0}
ASSUME ParallelismAssumption == Parallelism \in Nat \ {0}
ASSUME WriteFaultsAssumption == WriteFaults \in BOOLEAN
ASSUME BoundsAssumption == MaxExits \in Nat /\ MaxProbes \in Nat /\ MaxLost \in Nat

VARIABLES
    pc, first, task, engine, proc, service, phase, failed, hadFailure, stop,
    exit, heartbeat, unwritten, desired, report, fresh, listening,
    draining,                                                       \* rank 0
    wpc, wtask, es, shown, wproc, want, outage, wphase, wfailed, wstop, wfault,
    request,    \* rank -> the report of the poll in flight, if there is one
    answer,     \* rank -> the answer on its way back, if there is one
    late,       \* rank -> the reports left in abandoned connections
    exits, probes, lost     \* how much of each bound is used

P == INSTANCE PrimarySupervisor
W == INSTANCE WorkerSupervisor

primaryVars == <<pc, first, task, engine, proc, service, phase, failed, hadFailure,
                 stop, exit, heartbeat, unwritten, desired, report, fresh, listening,
                 draining>>
workerVars == <<wpc, wtask, es, shown, wproc, want, outage, wphase, wfailed, wstop,
                wfault>>
net == <<request, answer, late>>
budget == <<exits, probes, lost>>
vars == <<primaryVars, workerVars, net, budget>>

Engines == 1..N

Init ==
    /\ pc = "batch" /\ first = 1 /\ phase = "loading"
    /\ task = [i \in Engines |-> "none"]
    /\ engine = [i \in Engines |-> "pending"]
    /\ proc = [i \in Engines |-> "none"]
    /\ service = [s \in P!Services |-> IF s = "router" THEN "running" ELSE "off"]
    /\ failed = FALSE /\ hadFailure = FALSE /\ stop = FALSE /\ exit = -1
    /\ heartbeat = "running" /\ unwritten = {}
    /\ desired = {} /\ listening = TRUE /\ draining = FALSE
    /\ report = [w \in Workers |-> [i \in Engines |-> "absent"]]
    /\ fresh = [w \in Workers |-> FALSE]
    /\ W!Init
    /\ request = [w \in Workers |-> {}]
    /\ answer = [w \in Workers |-> {}]
    /\ late = [w \in Workers |-> {}]
    /\ exits = 0 /\ probes = 0 /\ lost = 0

---------------------------------------------------------------------------
(* The poll.                                                               *)

SendPoll(w) ==
    /\ W!SendPoll(w)
    /\ request' = [request EXCEPT ![w] = {es'[w]}]
    /\ UNCHANGED <<primaryVars, answer, late, budget>>

\* _handle: record the report and answer with what is desired now.
Handle(w) ==
    /\ \E r \in request[w] : P!HandlePoll(w, r)
    /\ request' = [request EXCEPT ![w] = {}]
    /\ answer' = [answer EXCEPT ![w] = {[desired |-> desired, shutdown |-> draining]}]
    /\ UNCHANGED <<workerVars, late, budget>>

\* _handle on a connection whose worker is gone: the report still counts.
HandleLate(w) ==
    /\ \E r \in late[w] :
          /\ P!HandlePoll(w, r)
          /\ late' = [late EXCEPT ![w] = @ \ {r}]
    /\ UNCHANGED <<workerVars, request, answer, budget>>

ReceiveDesired(w) ==
    /\ \E a \in answer[w] : ~a.shutdown /\ W!PollAnswered(w, a.desired)
    /\ answer' = [answer EXCEPT ![w] = {}]
    /\ UNCHANGED <<primaryVars, request, late, budget>>

ReceiveShutdown(w) ==
    /\ \E a \in answer[w] : a.shutdown /\ W!PollShutdown(w)
    /\ answer' = [answer EXCEPT ![w] = {}]
    /\ UNCHANGED <<primaryVars, request, late, budget>>

\* Refused, timed out, or the answer was lost.  An unread request may survive
\* in its connection.
LosePoll(w) ==
    /\ IF listening THEN lost < MaxLost /\ lost' = lost + 1 ELSE UNCHANGED lost
    /\ late' \in {late, [late EXCEPT ![w] = @ \union request[w]]}
    /\ request' = [request EXCEPT ![w] = {}]
    /\ answer' = [answer EXCEPT ![w] = {}]
    /\ UNCHANGED <<primaryVars, exits, probes>>

PollFails(w) == W!PollFails(w) /\ LosePoll(w)
PollGivesUp(w) == W!PollGivesUp(w) /\ LosePoll(w)

\* stale_after passes for a rank that does not poll: it is inside a stop or a
\* launch, in an outage, or gone.
ReportAges(w) ==
    /\ wpc[w] \in {"reap", "launch", "shutdown", "stopping", "exited"} \/ outage[w]
    /\ P!ReportAges(w)
    /\ UNCHANGED <<workerVars, net, budget>>

---------------------------------------------------------------------------
(* Each side's own steps.                                                  *)

WorkerStep(w) ==
    /\ \/ W!BeginLaunches(w) \/ W!FinishIteration(w) \/ W!Wakes(w)
       \/ W!LoopEnds(w) \/ W!BeginShutdown(w) \/ W!EndShutdown(w)
       \/ \E i \in Engines :
             \/ W!BeginReap(w, i) \/ W!Reap(w, i) \/ W!AdaptersResolved(w, i)
             \/ W!SpawnHeadless(w, i) \/ W!Settle(w, i) \/ W!StopHeadless(w, i)
    /\ UNCHANGED <<primaryVars, net, budget>>

WorkerSignal(w) ==
    /\ W!Signal(w) /\ exits < MaxExits /\ exits' = exits + 1
    /\ UNCHANGED <<primaryVars, net, probes, lost>>

MonitorRest ==
    \E bad \in SUBSET Engines :
        /\ P!MonitorRest(bad)
        /\ IF bad = {} THEN UNCHANGED probes
                       ELSE probes < MaxProbes /\ probes' = probes + 1
        /\ UNCHANGED <<workerVars, net, exits, lost>>

PrimaryLoop ==
    /\ \/ P!NextBatch \/ P!BatchPrepared \/ P!BarrierPasses \/ P!BarrierRaises
       \/ P!FinishBatch \/ P!LeaveLoading \/ P!MonitorExits \/ P!MonitorWakes
       \/ P!MonitorReturns \/ P!BeginShutdown \/ P!CloseCoordinator
       \/ P!JoinHeartbeat \/ P!EndShutdown
    /\ UNCHANGED <<workerVars, net, budget>>

PrimaryTask(i) == P!Task(i) /\ UNCHANGED <<workerVars, net, budget>>

PrimaryStop ==
    /\ \/ \E i \in Engines : P!StopEngine(i)
       \/ \E s \in P!Services : P!StopService(s)
    /\ UNCHANGED <<workerVars, net, budget>>

PrimarySignal == P!Signal /\ UNCHANGED <<workerVars, net, budget>>
Heartbeat == P!HeartbeatEnds /\ UNCHANGED <<workerVars, net, budget>>
HeartbeatBreaks ==
    /\ exits < MaxExits /\ exits' = exits + 1
    /\ \/ P!HeartbeatBreaks /\ UNCHANGED workerVars
       \/ \E w \in Workers : W!HeartbeatBreaks(w) /\ UNCHANGED primaryVars
    /\ UNCHANGED <<net, probes, lost>>

ProcessExits ==
    /\ exits < MaxExits /\ exits' = exits + 1
    /\ \E i \in Engines :
          \/ P!EngineExits(i) /\ UNCHANGED workerVars
          \/ \E w \in Workers : W!HeadlessExits(w, i) /\ UNCHANGED primaryVars
    /\ UNCHANGED <<net, probes, lost>>

Terminated ==
    /\ pc = "exited" /\ \A w \in Workers : wpc[w] = "exited"
    /\ UNCHANGED vars

Poll(w) ==
    \/ SendPoll(w) \/ Handle(w) \/ HandleLate(w)
    \/ ReceiveDesired(w) \/ ReceiveShutdown(w) \/ PollFails(w) \/ PollGivesUp(w)

Next ==
    \/ PrimaryLoop \/ MonitorRest \/ PrimaryStop \/ PrimarySignal \/ Heartbeat
    \/ \E i \in Engines : PrimaryTask(i)
    \/ \E w \in Workers : Poll(w) \/ WorkerStep(w) \/ WorkerSignal(w) \/ ReportAges(w)
    \/ ProcessExits \/ HeartbeatBreaks
    \/ Terminated

Spec == Init /\ [][Next]_vars

\* Fairness: both event loops run, a listening coordinator answers what it is
\* sent, a worker's poll returns or raises (ten-second timeouts), a rank that
\* keeps failing to poll reaches its disconnect limit, and the last report of a
\* rank that polls no more grows old.  Nothing is assumed of an awaited stop().
Fairness ==
    /\ WF_vars(PrimaryLoop /\ ~P!AwaitsStop) /\ WF_vars(MonitorRest)
    /\ \A i \in Engines :
          /\ WF_vars(PrimaryTask(i) /\ ~P!AwaitsStop)
          /\ SF_vars(P!WaitRaises(i) /\ UNCHANGED <<workerVars, net, budget>>)
    /\ \A w \in Workers :
          /\ WF_vars(SendPoll(w)) /\ WF_vars(Handle(w))
          /\ WF_vars(ReceiveDesired(w) \/ ReceiveShutdown(w))
          /\ WF_vars(PollFails(w)) /\ SF_vars(PollGivesUp(w) /\ ~listening)
          /\ WF_vars(WorkerStep(w) /\ ~W!AwaitsStop(w))
          /\ WF_vars(ReportAges(w) /\ (wpc[w] = "exited" \/ W!AwaitsStop(w)))

FairSpec == Spec /\ Fairness

---------------------------------------------------------------------------
(* Properties of the cluster.                                              *)

\* The barrier (supervisor.py:223-246): a head process is started only when
\* every rank has launched its headless peer, whatever became of it since.
HeadAfterPeers ==
    [][\A i \in Engines :
          proc'[i] # "none" /\ proc[i] = "none"
             => \A w \in Workers : wproc[w][i] # "none"]_vars

\* A headless engine a rank has stopped (supervisor.py:576-583) is never asked
\* for and started again, through failures, lost and late polls.
StoppedIsFinal ==
    [][\A w \in Workers : \A i \in Engines :
          shown[w][i] = "stopped" => shown'[w][i] = "stopped"]_vars

\* Ranks run only engines that the primary has released: a launch on a worker
\* never precedes the batch of the engine (supervisor.py:223-230).
ReleasedBeforeLaunch ==
    \A w \in Workers : \A i \in Engines :
        shown[w][i] # "pending" => engine[i] # "pending"

\* When the primary has given up an engine, or is gone, no rank keeps its
\* headless process (supervisor.py:576, 553-571), except as long as a stop() does
\* not return: one of its own, or the one that keeps the primary from withdrawing
\* the engine (supervisor.py:252).  And a rank that ends because a write of its
\* state file failed (643, 651) leaves it behind.
FailedEngineIsReaped ==
    \A w \in Workers : \A i \in Engines :
        engine[i] = "failed" \/ pc = "exited"
            ~> [](\/ wproc[w][i] # "running"
                  \/ W!AwaitsStop(w) \/ P!AwaitsStop
                  \/ wpc[w] = "exited" /\ wfault[w])

\* A headless process that exits takes its engine out of service at the
\* primary (supervisor.py:485-497), unless the monitor is never reached, for a
\* stop() of another engine.
PeerLossIsNoticed ==
    \A w \in Workers : \A i \in Engines :
        engine[i] = "ready" /\ wproc[w][i] = "exited"
            ~> engine[i] = "failed" \/ stop \/ []P!AwaitsStop

\* Every rank leaves after the primary does, told or not (supervisor.py:553-571),
\* unless one of its own stop() never returns.
WorkersFollow ==
    \A w \in Workers : pc = "exited" ~> [](wpc[w] = "exited" \/ W!AwaitsStop(w))

=============================================================================
