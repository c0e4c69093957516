---------------------------- MODULE ClusterProofs ----------------------------
(***************************************************************************)
(* Theorems about Cluster, for any number of models, any parallelism, any  *)
(* set of workers and any number of exits, failed probes and lost polls.   *)
(***************************************************************************)
EXTENDS Cluster, TLAPS

\* What is known of each side by itself.
PP == INSTANCE PrimarySupervisorProofs
WP == INSTANCE WorkerProofs

USE ClusteredAssumption, NAssumption, ParallelismAssumption, WriteFaultsAssumption

---------------------------------------------------------------------------
(* A step of the cluster is a step of its parts.  (P and PP, W and WP are  *)
(* instances of the same modules.)                                         *)

LEMMA SameBatchLoop ==
    P!NextBatch \/ P!BatchPrepared \/ P!BarrierPasses \/ P!BarrierRaises
    \/ P!FinishBatch \/ P!LeaveLoading
        => PP!Loop
BY DEF PP!Loop, P!NextBatch, PP!NextBatch, P!BatchPrepared, PP!BatchPrepared,
       P!BarrierPasses, PP!BarrierPasses, P!BarrierRaises, PP!BarrierRaises,
       P!FinishBatch, PP!FinishBatch, P!LeaveLoading, PP!LeaveLoading, P!Launched,
       PP!Launched, P!AllReady, PP!AllReady, P!LaunchTasks, PP!LaunchTasks, P!Released,
       PP!Released, P!Prepared, PP!Prepared, P!Batch, PP!Batch, P!MarkFailed,
       PP!MarkFailed, P!DesiredOf, PP!DesiredOf, P!AllWorkersRunning,
       PP!AllWorkersRunning, P!Engines, PP!Engines, P!procVars, PP!procVars,
       P!coordVars, PP!coordVars, P!pollVars, PP!pollVars, P!writeVars, PP!writeVars

LEMMA SameMonitor ==
    /\ P!MonitorExits \/ P!MonitorWakes \/ P!MonitorReturns => PP!Loop
    /\ \A bad \in SUBSET Engines : P!MonitorRest(bad) => PP!Loop
BY DEF PP!Loop, P!MonitorExits, PP!MonitorExits, P!MonitorWakes, PP!MonitorWakes,
       P!MonitorReturns, PP!MonitorReturns, P!MonitorRest, PP!MonitorRest, P!Gone, PP!Gone,
       P!AllReady, PP!AllReady, P!MarkFailed, PP!MarkFailed, P!DesiredOf, PP!DesiredOf,
       P!AllWorkersRunning, PP!AllWorkersRunning, P!Engines, PP!Engines, Engines,
       P!Services, PP!Services, P!procVars, PP!procVars, P!coordVars, PP!coordVars,
       P!pollVars, PP!pollVars, P!writeVars, PP!writeVars

LEMMA SameShutdown ==
    P!BeginShutdown \/ P!CloseCoordinator \/ P!JoinHeartbeat \/ P!EndShutdown => PP!Loop
BY DEF PP!Loop, P!BeginShutdown, PP!BeginShutdown, P!CloseCoordinator,
       PP!CloseCoordinator, P!JoinHeartbeat, PP!JoinHeartbeat, P!EndShutdown,
       PP!EndShutdown, P!ChildrenStopped, PP!ChildrenStopped, P!Engines, PP!Engines,
       P!Services, PP!Services, P!procVars, PP!procVars, P!coordVars, PP!coordVars,
       P!pollVars, PP!pollVars, P!writeVars, PP!writeVars

LEMMA SameTask == \A i \in Engines : P!Task(i) => PP!Task(i)
BY DEF P!Task, PP!Task, P!BeginPrepare, PP!BeginPrepare, P!EndPrepare, PP!EndPrepare,
       P!BeginLaunch, PP!BeginLaunch, P!Spawn, PP!Spawn, P!CheckEngine, PP!CheckEngine,
       P!EngineReady, PP!EngineReady, P!EngineNotReady, PP!EngineNotReady, P!WaitRaises,
       PP!WaitRaises, P!HandleRaised, PP!HandleRaised, P!Reaped, PP!Reaped, P!Launched,
       PP!Launched, P!Batch, PP!Batch, P!Engines, PP!Engines, P!procVars, PP!procVars,
       P!coordVars, PP!coordVars, P!pollVars, PP!pollVars, P!writeVars, PP!writeVars

LEMMA SameAround ==
    /\ \A i \in Engines : P!StopEngine(i) \/ P!EngineExits(i) => PP!Children
    /\ \A s \in P!Services : P!StopService(s) => PP!Children
    /\ P!Signal => PP!Signal
    /\ P!HeartbeatEnds => PP!HeartbeatEnds
    /\ P!HeartbeatBreaks => PP!HeartbeatBreaks
    /\ \A w \in Workers : P!ReportAges(w) => PP!ReportAges(w)
    /\ \A w \in Workers : \A r : P!HandlePoll(w, r) => PP!HandlePoll(w, r)
BY DEF PP!Children, P!StopEngine, PP!StopEngine, P!EngineExits, PP!EngineExits,
       P!StopService, PP!StopService, P!Signal, PP!Signal, P!HeartbeatEnds,
       PP!HeartbeatEnds, P!HeartbeatBreaks, PP!HeartbeatBreaks, P!ReportAges,
       PP!ReportAges, P!HandlePoll, PP!HandlePoll, Engines, P!Engines, PP!Engines,
       P!Services, PP!Services, P!loopVars, PP!loopVars, P!procVars, PP!procVars,
       P!coordVars, PP!coordVars, P!pollVars, PP!pollVars, P!writeVars, PP!writeVars

LEMMA SameWorker ==
    ASSUME NEW w \in Workers
    PROVE  /\ W!SendPoll(w) \/ W!BeginLaunches(w) \/ W!FinishIteration(w) \/ W!Wakes(w)
              \/ W!LoopEnds(w) \/ W!BeginShutdown(w) \/ W!EndShutdown(w)
                 => WP!Loop(w)
           /\ \A i \in Engines :
                 W!BeginReap(w, i) \/ W!Reap(w, i) \/ W!AdaptersResolved(w, i)
                 \/ W!SpawnHeadless(w, i) \/ W!Settle(w, i) \/ W!StopHeadless(w, i)
                    => WP!Loop(w)
           /\ \A i \in Engines : W!HeadlessExits(w, i) => WP!HeadlessExits(w, i)
           /\ W!PollFails(w) \/ W!PollGivesUp(w) \/ W!PollShutdown(w) => WP!PollOutcome(w)
           /\ \A d \in SUBSET Engines : W!PollAnswered(w, d) => WP!PollOutcome(w)
           /\ W!Signal(w) => WP!Signal(w)
           /\ W!HeartbeatBreaks(w) => WP!HeartbeatBreaks(w)
BY DEF WP!Loop, WP!PollOutcome, W!SendPoll, WP!SendPoll, W!BeginLaunches,
       WP!BeginLaunches, W!FinishIteration, WP!FinishIteration, W!Wakes, WP!Wakes,
       W!LoopEnds, WP!LoopEnds, W!BeginShutdown, WP!BeginShutdown, W!EndShutdown,
       WP!EndShutdown, W!BeginReap, WP!BeginReap, W!Reap, WP!Reap, W!ReapReturns,
       WP!ReapReturns, W!AdaptersResolved, WP!AdaptersResolved,
       W!SpawnHeadless, WP!SpawnHeadless, W!Settle, WP!Settle, W!StopHeadless,
       WP!StopHeadless, W!HeadlessExits, WP!HeadlessExits, W!PollFails, WP!PollFails,
       W!PollGivesUp, WP!PollGivesUp, W!PollShutdown, WP!PollShutdown, W!PollAnswered,
       WP!PollAnswered, W!Signal, WP!Signal, W!HeartbeatBreaks, WP!HeartbeatBreaks, W!Lost,
       WP!Lost, W!New, WP!New, W!Removed,
       WP!Removed, W!LaunchResult, WP!LaunchResult, W!PhaseOf, WP!PhaseOf, Engines,
       W!Engines, WP!Engines

---------------------------------------------------------------------------
(* The invariant.                                                          *)

\* An engine is asked for until it is withdrawn, because it has failed.
Asked(i) == i \in desired \/ PP!Withdrawn(i)

\* A rank has one poll in flight, in one direction.
NetShape ==
    /\ request \in [Workers -> SUBSET [Engines -> PP!ReportStatus]]
    /\ late \in [Workers -> SUBSET [Engines -> PP!ReportStatus]]
    /\ answer \in [Workers -> SUBSET [desired : SUBSET Engines, shutdown : BOOLEAN]]
    /\ \A w \in Workers :
          /\ request[w] = {} \/ answer[w] = {}
          /\ wpc[w] # "poll" => request[w] = {} /\ answer[w] = {}

\* Ranks know of engines that were asked for; what they stop was withdrawn, and
\* no answer on its way asks for it again.
AskedFor(w, i) ==
    /\ i \in want[w] \/ shown[w][i] # "pending" => Asked(i)
    /\ wtask[w][i] \in WP!Leaving => PP!Withdrawn(i) /\ i \notin want[w]
    /\ \A a \in answer[w] :
          /\ i \in a.desired => Asked(i)
          /\ i \notin a.desired /\ es[w][i] # "absent" => PP!Withdrawn(i)
    /\ shown[w][i] = "stopped" =>
          /\ PP!Withdrawn(i) /\ i \notin want[w]
          /\ \A a \in answer[w] : i \notin a.desired

\* A report of a running engine, however old, is of a process that was launched;
\* it is there unless the engine was withdrawn.  So it is when a head may start.
Reports(w) == {report[w], es[w]} \union request[w] \union late[w]
HasPeer(w, i) ==
    /\ \A r \in Reports(w) : r[i] = "running" => wproc[w][i] # "none" \/ PP!Withdrawn(i)
    /\ task[i] \in {"launch", "spawn"} => wproc[w][i] # "none"

Agreement == \A w \in Workers : \A i \in Engines : AskedFor(w, i) /\ HasPeer(w, i)

PrimarySide == PP!TypeOK /\ PP!BatchShape /\ PP!DesiredShape /\ PP!BatchIsNew
CInv == PrimarySide /\ WP!IInv /\ NetShape /\ Agreement

---------------------------------------------------------------------------
(* Each side keeps its own part.                                           *)

LEMMA PrimaryKeeps ==
    ASSUME PrimarySide, PP!System
    PROVE  /\ PrimarySide' /\ PP!WithdrawnStep /\ PP!LaunchStep /\ UNCHANGED report
<1>1. PP!Next
      BY DEF PP!Next
<1>2. PP!TypeOK'
      BY <1>1, PP!TypeNext DEF PrimarySide
<1>3. PP!BatchShape'
      BY <1>1, PP!BatchNext DEF PrimarySide
<1>4. PP!DesiredShape'
      BY <1>1, PP!DesiredNext DEF PrimarySide
<1>5. PP!WithdrawnStep /\ PP!BatchIsNew'
      BY PP!WithdrawnNext DEF PrimarySide
<1>6. PP!LaunchStep /\ UNCHANGED report
      BY PP!LaunchNext DEF PrimarySide
<1> QED BY <1>2, <1>3, <1>4, <1>5, <1>6 DEF PrimarySide

LEMMA PrimaryStands == ASSUME PrimarySide, UNCHANGED primaryVars PROVE PrimarySide'
<1>1. UNCHANGED PP!vars
      BY DEF primaryVars, PP!vars, PP!loopVars, PP!procVars, PP!coordVars, PP!pollVars,
             PP!writeVars
<1>2. PP!TypeOK'
      BY <1>1, PP!TypeNext DEF PrimarySide
<1>3. PP!BatchShape'
      BY <1>1, PP!BatchNext DEF PrimarySide
<1>4. PP!DesiredShape'
      BY <1>1, PP!DesiredNext DEF PrimarySide
<1>5. PP!BatchIsNew'
      BY DEF PrimarySide, PP!BatchIsNew, primaryVars
<1> QED BY <1>2, <1>3, <1>4, <1>5 DEF PrimarySide

\* What a poll, or its absence, tells the primary.
Told(w, r) == PP!ReportAges(w) \/ PP!HandlePoll(w, r)

LEMMA PrimaryTold ==
    ASSUME PrimarySide, NEW w \in Workers, NEW r \in [Engines -> PP!ReportStatus],
           Told(w, r)
    PROVE  /\ PrimarySide'
           /\ UNCHANGED <<pc, first, task, engine, proc, desired, draining>>
           /\ \A v \in Workers : report'[v] = report[v] \/ (v = w /\ report'[v] = r)
<1>1. PP!ReportAges(w) \/ \E x \in [PP!Engines -> PP!ReportStatus] : PP!HandlePoll(w, x)
      BY DEF Told, Engines, PP!Engines
<1>2. /\ PP!TypeOK' /\ PP!BatchShape' /\ PP!DesiredShape' /\ PP!BatchIsNew'
      /\ UNCHANGED <<PP!loopVars, PP!procVars, PP!coordVars, stop, PP!writeVars>>
      BY <1>1, PP!PollKeeps DEF PrimarySide
<1>3. \A v \in Workers : report'[v] = report[v] \/ (v = w /\ report'[v] = r)
  <2>1. CASE PP!ReportAges(w)
        BY <2>1 DEF PP!ReportAges
  <2>2. CASE PP!HandlePoll(w, r)
    <3>1. /\ report' = [report EXCEPT ![w] = r]
          /\ report \in [Workers -> [PP!Engines -> PP!ReportStatus]]
          BY <2>2 DEF PP!HandlePoll, PrimarySide, PP!TypeOK
    <3> QED BY <3>1
  <2> QED BY <2>1, <2>2 DEF Told
<1> QED BY <1>2, <1>3 DEF PrimarySide, PP!loopVars, PP!procVars, PP!coordVars

---------------------------------------------------------------------------
(* What passes between them.                                               *)

\* An engine a rank reports was asked for.
LEMMA KnownWasAsked ==
    ASSUME CInv, NEW w \in Workers, NEW i \in Engines, es[w][i] # "absent" PROVE Asked(i)
<1>1. es[w][i] \in {"running", "failed"} /\ shown[w][i] = es[w][i]
  <2>1. WP!TypeOK /\ WP!ReportMatchesRegistry /\ i \in WP!Engines
        BY DEF CInv, WP!IInv, Engines, WP!Engines
  <2> QED BY <2>1 DEF WP!TypeOK, WP!ReportMatchesRegistry
<1>2. AskedFor(w, i)
      BY DEF CInv, Agreement
<1> QED BY <1>1, <1>2 DEF AskedFor

LEMMA PrimaryAgrees ==
    ASSUME CInv, PP!System, UNCHANGED <<workerVars, net>>
    PROVE  CInv'
<1>1. PrimarySide' /\ PP!WithdrawnStep /\ PP!LaunchStep /\ UNCHANGED report
      BY PrimaryKeeps DEF CInv
<1>2. ASSUME NEW i \in Engines
      PROVE  /\ PP!Withdrawn(i) => PP!Withdrawn(i)'
             /\ Asked(i) => Asked(i)'
      BY <1>1 DEF PP!WithdrawnStep, Asked, Engines, PP!Engines
<1>3. ASSUME NEW w \in Workers, NEW i \in Engines
      PROVE  AskedFor(w, i)' /\ HasPeer(w, i)'
  <2>1. AskedFor(w, i) /\ HasPeer(w, i)
        BY DEF CInv, Agreement
  <2>2. UNCHANGED <<shown, es, want, wtask, wproc, request, answer, late, report>>
        BY <1>1 DEF workerVars, net
  <2>3. AskedFor(w, i)'
        BY <1>2, <2>1, <2>2 DEF AskedFor
  <2>4. \A r \in Reports(w)' : r[i] = "running" => wproc'[w][i] # "none" \/ PP!Withdrawn(i)'
        BY <1>2, <2>1, <2>2 DEF HasPeer, Reports
  <2>5. ASSUME task'[i] \in {"launch", "spawn"} PROVE wproc[w][i] # "none"
    <3>1. \/ task[i] \in {"launch", "spawn"}
          \/ engine[i] = "preparing" /\ report[w][i] = "running"
          BY <1>1, <2>5 DEF PP!LaunchStep, Engines, PP!Engines
    <3> QED BY <2>1, <3>1 DEF HasPeer, Reports, PP!Withdrawn
  <2> QED BY <2>2, <2>3, <2>4, <2>5 DEF HasPeer
<1>4. WP!IInv'
  <2>1. UNCHANGED WP!vars
        BY DEF workerVars, WP!vars
  <2> QED BY <2>1, WP!InductiveNext DEF CInv
<1>5. NetShape'
      BY DEF CInv, NetShape, workerVars, net, PP!ReportStatus
<1> QED BY <1>1, <1>3, <1>4, <1>5 DEF CInv, Agreement

\* What a rank has to keep of the agreement when only its own part changes.
LEMMA WorkerAgrees ==
    ASSUME CInv, NEW w \in Workers, UNCHANGED primaryVars, WP!IInv', NetShape',
           WP!RankStep(w), answer[w] = {} \/ UNCHANGED es,
           \A v \in Workers : answer'[v] \subseteq answer[v],
           \A v \in Workers : request'[v] = {} \/ request'[v] = request[v]
                              \/ (v = w /\ request'[v] = {es'[v]}),
           \A v \in Workers : late'[v] = late[v] \/ late'[v] = late[v] \union request[v]
    PROVE  CInv'
<1>1. PrimarySide'
      BY PrimaryStands DEF CInv
<1>2. ASSUME NEW v \in Workers, NEW i \in Engines
      PROVE  AskedFor(v, i)' /\ HasPeer(v, i)'
  <2>1. AskedFor(v, i) /\ HasPeer(v, i)
        BY DEF CInv, Agreement
  <2>2. (Asked(i)' <=> Asked(i)) /\ (PP!Withdrawn(i)' <=> PP!Withdrawn(i))
        /\ UNCHANGED <<task, engine, report>>
        BY DEF primaryVars, Asked, PP!Withdrawn
  <2>3. WP!Engines = Engines
        BY DEF WP!Engines, Engines
  <2>4. /\ shown[v][i] # "pending" \/ i \in want[v] => Asked(i)
        /\ wtask[v][i] \in WP!Leaving \/ shown[v][i] = "stopped"
              => PP!Withdrawn(i) /\ i \notin want[v]
        BY <2>1 DEF AskedFor
  <2>5. CASE v # w
    <3>1. /\ want'[v] = want[v] /\ wtask'[v][i] = wtask[v][i] /\ es'[v][i] = es[v][i]
          /\ shown'[v][i] = shown[v][i] /\ wproc'[v][i] = wproc[v][i]
          BY <2>3, <2>5 DEF WP!RankStep, WP!Others
    <3>2. AskedFor(v, i)'
          BY <2>1, <2>2, <3>1 DEF AskedFor
    <3>3. \A r \in Reports(v)' : r[i] = "running" => \E x \in Reports(v) : x[i] = "running"
          BY <2>2, <2>5, <3>1 DEF Reports
    <3>4. HasPeer(v, i)'
          BY <2>1, <2>2, <3>1, <3>3 DEF HasPeer
    <3> QED BY <3>2, <3>4
  <2>6. CASE v = w
    <3>1. /\ want'[w] = want[w]
          /\ wtask'[w][i] \in WP!Leaving => wtask[w][i] \in WP!Leaving
          /\ shown'[w][i] = "stopped"
                => shown[w][i] = "stopped" \/ wtask[w][i] \in WP!Leaving
          /\ shown'[w][i] # "pending" =>
                shown[w][i] # "pending" \/ i \in want[w] \/ wtask[w][i] \in WP!Leaving
          /\ es'[w][i] = "running" => es[w][i] = "running" \/ wproc'[w][i] # "none"
          /\ wproc[w][i] # "none" /\ wproc'[w][i] = "none" => wtask[w][i] \in WP!Leaving
          BY <2>3 DEF WP!RankStep
    <3>2. /\ i \in want'[w] \/ shown'[w][i] # "pending" => Asked(i)
          /\ wtask'[w][i] \in WP!Leaving \/ shown'[w][i] = "stopped"
                => PP!Withdrawn(i) /\ i \notin want'[w]
          BY <2>4, <2>6, <3>1 DEF Asked
    <3>3. \A a \in answer'[w] : a \in answer[w] /\ es'[w][i] = es[w][i]
          OBVIOUS
    <3>4. shown'[w][i] = "stopped" => \A a \in answer[w] : i \notin a.desired
      <4>1. wtask[w][i] \in WP!Leaving => answer[w] = {}
            BY <2>3 DEF CInv, NetShape, WP!IInv, WP!LaunchShape
      <4> QED BY <2>1, <2>6, <3>1, <4>1 DEF AskedFor
    <3>5. AskedFor(w, i)'
          BY <2>1, <2>2, <2>6, <3>2, <3>3, <3>4 DEF AskedFor
    <3>6. \A r \in Reports(w)' : r[i] = "running" =>
             wproc'[w][i] # "none" \/ \E x \in Reports(w) : x[i] = "running"
          BY <2>2, <3>1 DEF Reports
    <3>7. wproc[w][i] # "none" => wproc'[w][i] # "none" \/ PP!Withdrawn(i)
          BY <2>4, <2>6, <3>1
    <3>8. task[i] \in {"launch", "spawn"} => engine[i] # "failed"
          BY PP!LaunchingLives DEF CInv, PrimarySide, Engines, PP!Engines
    <3>9. HasPeer(w, i)'
          BY <2>1, <2>2, <2>6, <3>6, <3>7, <3>8 DEF HasPeer, PP!Withdrawn
    <3> QED BY <2>6, <3>5, <3>9
  <2> QED BY <2>5, <2>6
<1> QED BY <1>1, <1>2 DEF CInv, Agreement

\* An answer asks for engines that are asked for; what it leaves out and the rank
\* has was withdrawn.
LEMMA AnswerAgrees ==
    ASSUME CInv, NEW w \in Workers, UNCHANGED primaryVars, WP!IInv', NetShape',
           UNCHANGED <<request, late>>, NEW a \in answer[w],
           answer' = [answer EXCEPT ![w] = {}], W!PollAnswered(w, a.desired)
    PROVE  CInv'
<1>1. PrimarySide'
      BY PrimaryStands DEF CInv
<1>2. /\ a.desired \subseteq Engines
      /\ answer \in [Workers -> SUBSET [desired : SUBSET Engines, shutdown : BOOLEAN]]
      BY DEF CInv, NetShape
<1>3. ASSUME NEW v \in Workers, NEW i \in Engines
      PROVE  AskedFor(v, i)' /\ HasPeer(v, i)'
  <2>1. AskedFor(v, i) /\ HasPeer(v, i)
        BY DEF CInv, Agreement
  <2>2. (Asked(i)' <=> Asked(i)) /\ (PP!Withdrawn(i)' <=> PP!Withdrawn(i))
        /\ UNCHANGED <<task, engine, report>>
        BY DEF primaryVars, Asked, PP!Withdrawn
  <2>3. UNCHANGED <<es, shown, wproc>>
        BY DEF W!PollAnswered
  <2>4. HasPeer(v, i)'
        BY <2>1, <2>2, <2>3 DEF HasPeer, Reports
  <2>5. CASE v # w
    <3>1. want'[v] = want[v] /\ wtask'[v] = wtask[v] /\ answer'[v] = answer[v]
          BY <2>5, <1>2 DEF W!PollAnswered, CInv, WP!IInv, WP!TypeOK
    <3> QED BY <2>1, <2>2, <2>3, <2>4, <3>1 DEF AskedFor
  <2>6. CASE v = w
    <3>1. /\ want'[w] = a.desired /\ answer'[w] = {}
          /\ wtask'[w][i] \in WP!Leaving => es[w][i] # "absent" /\ i \notin a.desired
          BY <1>2 DEF W!PollAnswered, CInv, WP!IInv, WP!TypeOK, W!Removed, W!Engines,
                      Engines, WP!Leaving
    <3>2. AskedFor(w, i)'
          BY <2>1, <2>2, <2>3, <2>6, <3>1 DEF AskedFor
    <3> QED BY <2>4, <2>6, <3>2
  <2> QED BY <2>5, <2>6
<1> QED BY <1>1, <1>3 DEF CInv, Agreement

\* A poll tells the primary what the rank reported, and is answered with what is
\* desired then.
LEMMA PollAgrees ==
    ASSUME CInv, NEW w \in Workers, NEW r \in [Engines -> PP!ReportStatus], Told(w, r),
           r \in request[w] \union late[w] \/ UNCHANGED report, NetShape',
           UNCHANGED workerVars,
           \A v \in Workers : /\ request'[v] \subseteq request[v]
                              /\ late'[v] \subseteq late[v],
           \A v \in Workers : \/ answer'[v] = answer[v]
                              \/ answer'[v] = {[desired |-> desired, shutdown |-> draining]}
    PROVE  CInv'
<1>1. /\ PrimarySide' /\ UNCHANGED <<pc, first, task, engine, proc, desired, draining>>
      /\ \A v \in Workers : report'[v] = report[v] \/ (v = w /\ report'[v] = r)
      BY PrimaryTold DEF CInv
<1>2. ASSUME NEW v \in Workers, NEW i \in Engines
      PROVE  AskedFor(v, i)' /\ HasPeer(v, i)'
  <2>1. AskedFor(v, i) /\ HasPeer(v, i)
        BY DEF CInv, Agreement
  <2>2. (Asked(i)' <=> Asked(i)) /\ (PP!Withdrawn(i)' <=> PP!Withdrawn(i))
        BY <1>1 DEF Asked, PP!Withdrawn
  <2>3. UNCHANGED <<es, shown, wproc, want, wtask>>
        BY DEF workerVars
  <2>4. HasPeer(v, i)'
    <3>1. Reports(v)' \subseteq Reports(v)
          BY <1>1, <2>3 DEF Reports
    <3> QED BY <1>1, <2>1, <2>2, <2>3, <3>1 DEF HasPeer
  <2>5. es[v][i] # "absent" => Asked(i)
        BY KnownWasAsked
  <2>6. AskedFor(v, i)'
    <3>1. CASE answer'[v] = answer[v]
          BY <2>1, <2>2, <2>3, <3>1 DEF AskedFor
    <3>2. CASE answer'[v] = {[desired |-> desired, shutdown |-> draining]}
          BY <2>1, <2>2, <2>3, <2>5, <3>2 DEF AskedFor, Asked, PP!Withdrawn
    <3> QED BY <3>1, <3>2
  <2> QED BY <2>4, <2>6
<1>3. WP!IInv'
  <2>1. UNCHANGED WP!vars
        BY DEF workerVars, WP!vars
  <2> QED BY <2>1, WP!InductiveNext DEF CInv
<1> QED BY <1>1, <1>2, <1>3 DEF CInv, Agreement

---------------------------------------------------------------------------
(* Every step of the cluster.                                              *)

LEMMA PrimaryStep ==
    ASSUME CInv,
           \/ PrimaryLoop \/ MonitorRest \/ PrimaryStop \/ PrimarySignal \/ Heartbeat
           \/ \E i \in Engines : PrimaryTask(i)
    PROVE  PP!System /\ UNCHANGED <<workerVars, net>>
<1>1. CASE PrimaryLoop
      BY <1>1, SameBatchLoop, SameMonitor, SameShutdown DEF PrimaryLoop, PP!System
<1>2. CASE MonitorRest
      BY <1>2, SameMonitor DEF MonitorRest, PP!System
<1>3. CASE PrimaryStop \/ PrimarySignal \/ Heartbeat
      BY <1>3, SameAround DEF PrimaryStop, PrimarySignal, Heartbeat, PP!System
<1>4. ASSUME NEW i \in Engines, PrimaryTask(i)
      PROVE  PP!System /\ UNCHANGED <<workerVars, net>>
      BY <1>4, SameTask DEF PrimaryTask, PP!System, Engines, PP!Engines
<1> QED BY <1>1, <1>2, <1>3, <1>4

LEMMA LoopMoves ==
    ASSUME CInv, NEW w \in Workers, WorkerStep(w) \/ SendPoll(w)
    PROVE  /\ WP!Loop(w) /\ UNCHANGED <<primaryVars, answer, late>>
           /\ WP!RankStep(w) /\ wpc[w] # "poll"
<1>1. WP!Loop(w) /\ UNCHANGED <<primaryVars, answer, late>>
  <2>1. CASE WorkerStep(w)
        BY <2>1, SameWorker DEF WorkerStep, net
  <2>2. CASE SendPoll(w)
        BY <2>2, SameWorker DEF SendPoll
  <2> QED BY <2>1, <2>2
<1> QED BY <1>1, WP!LoopRankStep DEF CInv

LEMMA WorkerStepKeeps ==
    ASSUME CInv, NEW w \in Workers, WorkerStep(w) \/ SendPoll(w) PROVE CInv'
<1>1. WP!Loop(w) /\ UNCHANGED <<primaryVars, answer, late>>
      BY LoopMoves
<1>2. WP!RankStep(w) /\ wpc[w] # "poll"
      BY LoopMoves
<1>3. WP!IInv'
      BY <1>1, WP!InductiveNext DEF CInv, WP!Next
<1>4. UNCHANGED request \/ request' = [request EXCEPT ![w] = {es'[w]}]
      BY DEF WorkerStep, SendPoll, net
<1>5. request[w] = {} /\ answer[w] = {}
      BY <1>2 DEF CInv, NetShape
<1>6. NetShape'
  <2>1. es' \in [Workers -> [Engines -> PP!ReportStatus]]
        BY <1>3 DEF WP!IInv, WP!TypeOK, PP!ReportStatus, Engines, WP!Engines
  <2>2. request' \in [Workers -> SUBSET [Engines -> PP!ReportStatus]]
        BY <1>4, <2>1 DEF CInv, NetShape
  <2>3. ASSUME NEW v \in Workers
        PROVE  /\ request'[v] = {} \/ answer[v] = {}
               /\ wpc'[v] # "poll" => request'[v] = {} /\ answer[v] = {}
    <3>1. CASE v # w
      <4>1. wpc'[v] = wpc[v] /\ request'[v] = request[v]
            BY <1>2, <1>4, <3>1 DEF WP!RankStep, WP!Others, CInv, NetShape
      <4> QED BY <4>1 DEF CInv, NetShape
    <3>2. CASE v = w
      <4>1. wpc'[w] # "poll" => UNCHANGED request
        <5>1. CASE SendPoll(w)
              BY <5>1 DEF SendPoll, W!SendPoll, CInv, WP!IInv, WP!TypeOK
        <5>2. CASE WorkerStep(w)
              BY <5>2 DEF WorkerStep, net
        <5> QED BY <5>1, <5>2
      <4> QED BY <1>5, <3>2, <4>1
    <3> QED BY <3>1, <3>2
  <2> QED BY <1>1, <2>2, <2>3 DEF CInv, NetShape
<1>7. \A v \in Workers : request'[v] = {} \/ request'[v] = request[v]
                           \/ (v = w /\ request'[v] = {es'[v]})
      BY <1>4 DEF CInv, NetShape
<1> QED BY <1>1, <1>2, <1>3, <1>5, <1>6, <1>7, WorkerAgrees

RankAround(w) ==
    \/ PollFails(w) \/ PollGivesUp(w) \/ ReceiveShutdown(w) \/ WorkerSignal(w)
    \/ /\ W!HeartbeatBreaks(w) \/ \E i \in Engines : W!HeadlessExits(w, i)
       /\ UNCHANGED <<primaryVars, net>>

LEMMA AroundMoves ==
    ASSUME CInv, NEW w \in Workers, RankAround(w)
    PROVE  WP!RankStep(w) /\ WP!Next /\ UNCHANGED <<primaryVars, es>>
<1>1. /\ \/ W!PollFails(w) \/ W!PollGivesUp(w) \/ W!PollShutdown(w) \/ W!Signal(w)
         \/ W!HeartbeatBreaks(w) \/ \E i \in Engines : W!HeadlessExits(w, i)
      /\ UNCHANGED primaryVars
      BY DEF RankAround, PollFails, PollGivesUp, ReceiveShutdown, WorkerSignal, LosePoll
<1>2. \/ WP!PollFails(w) \/ WP!PollGivesUp(w) \/ WP!PollShutdown(w) \/ WP!Signal(w)
      \/ WP!HeartbeatBreaks(w) \/ \E i \in WP!Engines : WP!HeadlessExits(w, i)
      BY <1>1 DEF W!PollFails, WP!PollFails, W!PollGivesUp, WP!PollGivesUp, W!PollShutdown,
                  WP!PollShutdown, W!Signal, WP!Signal, W!HeadlessExits,
                  WP!HeadlessExits, W!HeartbeatBreaks, WP!HeartbeatBreaks, Engines,
                  WP!Engines
<1>3. WP!RankStep(w) /\ UNCHANGED es
      BY <1>2, WP!AroundRankStep DEF CInv
<1> QED BY <1>1, <1>2, <1>3 DEF WP!Next, WP!PollOutcome

LEMMA RankAroundKeeps == ASSUME CInv, NEW w \in Workers, RankAround(w) PROVE CInv'
<1>1. WP!RankStep(w) /\ UNCHANGED <<primaryVars, es>>
      BY AroundMoves
<1>2. WP!IInv'
      BY AroundMoves, WP!InductiveNext DEF CInv
<1>3. \/ UNCHANGED <<net, wpc>>
      \/ /\ request' = [request EXCEPT ![w] = {}] /\ answer' = [answer EXCEPT ![w] = {}]
         /\ late' \in {late, [late EXCEPT ![w] = @ \union request[w]]}
      \/ UNCHANGED <<request, late>> /\ answer' = [answer EXCEPT ![w] = {}]
         /\ answer[w] # {}
  <2>1. CASE PollFails(w) \/ PollGivesUp(w)
        BY <2>1 DEF PollFails, PollGivesUp, LosePoll
  <2>2. CASE ReceiveShutdown(w)
        BY <2>2 DEF ReceiveShutdown
  <2>3. CASE WorkerSignal(w)
        BY <2>3 DEF WorkerSignal, W!Signal
  <2>4. CASE /\ W!HeartbeatBreaks(w) \/ \E i \in Engines : W!HeadlessExits(w, i)
             /\ UNCHANGED <<primaryVars, net>>
        BY <2>4 DEF W!HeadlessExits, W!HeartbeatBreaks
  <2> QED BY <2>1, <2>2, <2>3, <2>4 DEF RankAround
<1>4. /\ \A v \in Workers : answer'[v] \subseteq answer[v]
      /\ \A v \in Workers : request'[v] = {} \/ request'[v] = request[v]
      /\ \A v \in Workers : late'[v] = late[v] \/ late'[v] = late[v] \union request[v]
      BY <1>3 DEF CInv, NetShape, net
<1>5. NetShape'
  <2>1. /\ request' \in [Workers -> SUBSET [Engines -> PP!ReportStatus]]
        /\ late' \in [Workers -> SUBSET [Engines -> PP!ReportStatus]]
        /\ answer' \in [Workers -> SUBSET [desired : SUBSET Engines, shutdown : BOOLEAN]]
        BY <1>3 DEF CInv, NetShape, net
  <2>2. ASSUME NEW v \in Workers
        PROVE  /\ request'[v] = {} \/ answer'[v] = {}
               /\ wpc'[v] # "poll" => request'[v] = {} /\ answer'[v] = {}
    <3>1. CASE v # w
      <4>1. wpc'[v] = wpc[v] /\ request'[v] = request[v] /\ answer'[v] = answer[v]
            BY <1>1, <1>3, <3>1 DEF WP!RankStep, WP!Others, CInv, NetShape, net
      <4> QED BY <4>1 DEF CInv, NetShape
    <3>2. CASE v = w
      <4>1. CASE UNCHANGED <<net, wpc>>
            BY <3>2, <4>1 DEF CInv, NetShape, net
      <4>2. CASE request'[w] = {} /\ answer'[w] = {}
            BY <3>2, <4>2
      <4>3. CASE UNCHANGED request /\ answer' = [answer EXCEPT ![w] = {}] /\ answer[w] # {}
            BY <3>2, <4>3 DEF CInv, NetShape
      <4> QED BY <1>3, <4>1, <4>2, <4>3 DEF CInv, NetShape
    <3> QED BY <3>1, <3>2
  <2> QED BY <2>1, <2>2 DEF NetShape
<1> QED BY <1>1, <1>2, <1>4, <1>5, WorkerAgrees

LEMMA PollStepKeeps ==
    ASSUME CInv, NEW w \in Workers, Handle(w) \/ HandleLate(w) \/ ReportAges(w) PROVE CInv'
<1>1. CASE Handle(w)
  <2>1. PICK r \in request[w] : P!HandlePoll(w, r)
        BY <1>1 DEF Handle
  <2>2. r \in [Engines -> PP!ReportStatus] /\ Told(w, r)
        BY <2>1, SameAround DEF CInv, NetShape, Told
  <2>3. /\ request' = [request EXCEPT ![w] = {}] /\ UNCHANGED <<workerVars, late>>
        /\ answer' = [answer EXCEPT ![w] = {[desired |-> desired, shutdown |-> draining]}]
        BY <1>1 DEF Handle
  <2>4. [desired |-> desired, shutdown |-> draining]
           \in [desired : SUBSET Engines, shutdown : BOOLEAN]
        BY DEF CInv, PrimarySide, PP!TypeOK, PP!Engines, Engines
  <2>5. wpc[w] = "poll"
        BY <2>1 DEF CInv, NetShape
  <2>6. NetShape'
        BY <2>3, <2>4, <2>5 DEF CInv, NetShape, workerVars
  <2> QED BY <2>1, <2>2, <2>3, <2>6, PollAgrees DEF CInv, NetShape
<1>2. CASE HandleLate(w)
  <2>1. PICK r \in late[w] :
           P!HandlePoll(w, r) /\ late' = [late EXCEPT ![w] = @ \ {r}]
        BY <1>2 DEF HandleLate
  <2>2. r \in [Engines -> PP!ReportStatus] /\ Told(w, r)
        BY <2>1, SameAround DEF CInv, NetShape, Told
  <2>3. UNCHANGED <<workerVars, request, answer>>
        BY <1>2 DEF HandleLate
  <2>4. NetShape' /\ \A v \in Workers : late'[v] \subseteq late[v]
        BY <2>1, <2>3 DEF CInv, NetShape, workerVars
  <2> QED BY <2>1, <2>2, <2>3, <2>4, PollAgrees
<1>3. CASE ReportAges(w)
  <2>1. /\ PP!ReportAges(w) /\ UNCHANGED <<workerVars, request, late, answer>>
        BY <1>3, SameAround DEF ReportAges, net
  <2>2. UNCHANGED report
        BY <2>1 DEF PP!ReportAges
  <2>3. report[w] \in [Engines -> PP!ReportStatus] /\ Told(w, report[w])
        BY <2>1 DEF Told, CInv, PrimarySide, PP!TypeOK, PP!Engines, Engines
  <2>4. NetShape'
        BY <2>1 DEF CInv, NetShape, workerVars
  <2> QED BY <2>1, <2>2, <2>3, <2>4, PollAgrees
<1> QED BY <1>1, <1>2, <1>3

LEMMA AnswerKeeps == ASSUME CInv, NEW w \in Workers, ReceiveDesired(w) PROVE CInv'
<1>1. PICK a \in answer[w] : W!PollAnswered(w, a.desired)
      BY DEF ReceiveDesired
<1>2. /\ answer' = [answer EXCEPT ![w] = {}]
      /\ UNCHANGED <<primaryVars, request, late>>
      BY DEF ReceiveDesired
<1>3. a.desired \in SUBSET Engines
      BY DEF CInv, NetShape
<1>4. WP!IInv'
  <2>1. WP!PollOutcome(w)
        BY <1>1, <1>3, SameWorker
  <2> QED BY <2>1, WP!InductiveNext DEF CInv, WP!Next
<1>5. NetShape'
  <2>1. wpc' = [wpc EXCEPT ![w] = "reap"] /\ request[w] = {}
        BY <1>1 DEF W!PollAnswered, CInv, NetShape
  <2> QED BY <1>2, <2>1 DEF CInv, NetShape, WP!IInv, WP!TypeOK
<1> QED BY <1>1, <1>2, <1>4, <1>5, AnswerAgrees

LEMMA ExitsKeep == ASSUME CInv, ProcessExits \/ HeartbeatBreaks PROVE CInv'
<1>1. UNCHANGED net
      BY DEF ProcessExits, HeartbeatBreaks
<1>2. ASSUME NEW i \in Engines, P!EngineExits(i), UNCHANGED workerVars PROVE CInv'
      BY <1>1, <1>2, SameAround, PrimaryAgrees DEF PP!System
<1>3. ASSUME NEW i \in Engines, NEW w \in Workers, W!HeadlessExits(w, i),
             UNCHANGED primaryVars
      PROVE  CInv'
      BY <1>1, <1>3, RankAroundKeeps DEF RankAround
<1>4. ASSUME P!HeartbeatBreaks, UNCHANGED workerVars PROVE CInv'
      BY <1>1, <1>4, SameAround, PrimaryAgrees DEF PP!System
<1>5. ASSUME NEW w \in Workers, W!HeartbeatBreaks(w), UNCHANGED primaryVars PROVE CInv'
      BY <1>1, <1>5, RankAroundKeeps DEF RankAround
<1> QED BY <1>2, <1>3, <1>4, <1>5 DEF ProcessExits, HeartbeatBreaks

LEMMA StandsStill == ASSUME CInv, UNCHANGED vars PROVE CInv'
<1>1. PrimarySide'
      BY PrimaryStands DEF CInv, vars
<1>2. WP!IInv'
  <2>1. UNCHANGED WP!vars
        BY DEF vars, workerVars, WP!vars
  <2> QED BY <2>1, WP!InductiveNext DEF CInv
<1>3. NetShape' /\ Agreement'
      BY DEF CInv, NetShape, Agreement, AskedFor, HasPeer, Reports, Asked, PP!Withdrawn,
             PP!ReportStatus, vars, primaryVars, workerVars, net
<1> QED BY <1>1, <1>2, <1>3 DEF CInv

LEMMA CInvInit == Init => CInv
<1> SUFFICES ASSUME Init PROVE CInv
    OBVIOUS
<1>1. PP!TypeOK
  <2>1. service \in [PP!Services -> {"off", "running", "exited", "failed"}]
        BY DEF Init, PP!Services, P!Services
  <2>2. /\ task \in [PP!Engines -> {"none"}] /\ engine \in [PP!Engines -> {"pending"}]
        /\ proc \in [PP!Engines -> {"none"}]
        /\ report \in [Workers -> [PP!Engines -> {"absent"}]]
        /\ fresh \in [Workers -> BOOLEAN] /\ desired \in SUBSET PP!Engines
        BY DEF Init, PP!Engines, Engines
  <2>3. task \in [PP!Engines -> {"none", "prepare", "adapters", "prepared", "launch",
                                 "spawn", "check", "probe", "ok", "raised", "reap"}]
        BY <2>2
  <2>4. /\ engine \in [PP!Engines -> PP!EngineStatus]
        /\ report \in [Workers -> [PP!Engines -> PP!ReportStatus]]
        BY <2>2 DEF PP!EngineStatus, PP!ReportStatus
  <2>5. proc \in [PP!Engines -> {"none", "running", "exited"}]
        BY <2>2
  <2>6. pc = "batch" /\ first = 1 /\ phase = "loading" /\ exit = -1 /\ heartbeat = "running"
        /\ unwritten = {}
        BY DEF Init
  <2>7. /\ failed \in BOOLEAN /\ hadFailure \in BOOLEAN /\ stop \in BOOLEAN
        /\ listening \in BOOLEAN /\ draining \in BOOLEAN
        BY DEF Init
  <2>8. /\ first \in Nat \ {0} /\ exit \in {-1, 0, 1}
        /\ unwritten \in SUBSET {"stopping", "stopped"}
        BY <2>6
  <2> QED BY <2>1, <2>2, <2>3, <2>4, <2>5, <2>6, <2>7, <2>8 DEF PP!TypeOK
<1>2. PP!BatchShape
      BY PP!EnginesInt DEF Init, PP!BatchShape, PP!InBatch, PP!Untouched, PP!Batch,
         PP!Engines, Engines
<1>3. PP!DesiredShape /\ PP!BatchIsNew
      BY DEF Init, PP!DesiredShape, PP!DesiredOf, PP!BatchIsNew, PP!Engines, Engines
<1>4. WP!IInv
  <2>1. WP!Init
        BY DEF Init, W!Init, WP!Init, W!Engines, WP!Engines
  <2> QED BY <2>1, WP!InductiveInit
<1>5. NetShape
      BY DEF Init, NetShape
<1>6. Agreement
      BY DEF Init, W!Init, W!Engines, Engines, Agreement, AskedFor, HasPeer, Reports,
             WP!Leaving
<1> QED BY <1>1, <1>2, <1>3, <1>4, <1>5, <1>6 DEF CInv, PrimarySide

LEMMA CInvNext == CInv /\ [Next]_vars => CInv'
<1> SUFFICES ASSUME CInv, [Next]_vars PROVE CInv'
    OBVIOUS
<1>1. CASE \/ PrimaryLoop \/ MonitorRest \/ PrimaryStop \/ PrimarySignal \/ Heartbeat
           \/ \E i \in Engines : PrimaryTask(i)
      BY <1>1, PrimaryStep, PrimaryAgrees
<1>2. ASSUME NEW w \in Workers, Poll(w) \/ WorkerStep(w) \/ WorkerSignal(w) \/ ReportAges(w)
      PROVE  CInv'
      BY <1>2, WorkerStepKeeps, RankAroundKeeps, PollStepKeeps, AnswerKeeps
         DEF Poll, RankAround
<1>3. CASE ProcessExits \/ HeartbeatBreaks \/ UNCHANGED vars
      BY <1>3, ExitsKeep, StandsStill
<1> QED BY <1>1, <1>2, <1>3 DEF Next, Terminated

\* What the primary asks for and what its ranks run agree, at every moment and
\* however many polls are lost or read late (cluster.py:109-184, supervisor.py:510-611).
THEOREM AgreementHolds == Spec => []CInv
BY CInvInit, CInvNext, PTL DEF Spec

---------------------------------------------------------------------------
(* The properties.                                                         *)

\* Ranks run only engines that the primary has released: a launch on a worker
\* never precedes the batch of the engine (supervisor.py:223-230).
THEOREM ReleasedBeforeLaunchHolds == Spec => []ReleasedBeforeLaunch
<1>1. CInv => ReleasedBeforeLaunch
      BY DEF CInv, PrimarySide, PP!DesiredShape, Agreement, AskedFor, Asked,
             PP!Withdrawn, ReleasedBeforeLaunch
<1> QED BY <1>1, AgreementHolds, PTL

LEMMA StoppedStays ==
    CInv /\ [Next]_vars =>
        \A w \in Workers : \A i \in Engines :
            shown[w][i] = "stopped" => shown'[w][i] = "stopped"
<1> SUFFICES ASSUME CInv, [Next]_vars, NEW w \in Workers, NEW i \in Engines,
                    shown[w][i] = "stopped"
             PROVE  shown'[w][i] = "stopped"
    OBVIOUS
<1>1. ASSUME NEW v \in Workers, WP!RankStep(v) PROVE shown'[w][i] = "stopped"
  <2>1. i \notin want[w] /\ i \in WP!Engines
        BY DEF CInv, Agreement, AskedFor, Engines, WP!Engines
  <2> QED BY <1>1, <2>1 DEF WP!RankStep, WP!Others
<1>2. CASE UNCHANGED shown
      BY <1>2
<1>3. CASE \/ PrimaryLoop \/ MonitorRest \/ PrimaryStop \/ PrimarySignal \/ Heartbeat
           \/ \E j \in Engines : PrimaryTask(j)
      BY <1>2, <1>3, PrimaryStep DEF workerVars
<1>4. ASSUME NEW v \in Workers, Poll(v) \/ WorkerStep(v) \/ WorkerSignal(v) \/ ReportAges(v)
      PROVE  shown'[w][i] = "stopped"
  <2>1. CASE SendPoll(v) \/ WorkerStep(v) \/ RankAround(v)
        BY <1>1, <2>1, LoopMoves, AroundMoves
  <2>2. CASE Handle(v) \/ HandleLate(v) \/ ReportAges(v)
        BY <1>2, <2>2 DEF Handle, HandleLate, ReportAges, workerVars
  <2>3. CASE ReceiveDesired(v)
        BY <1>2, <2>3 DEF ReceiveDesired, W!PollAnswered
  <2> QED BY <1>4, <2>1, <2>2, <2>3 DEF Poll, RankAround
<1>5. CASE ProcessExits \/ HeartbeatBreaks \/ UNCHANGED vars
  <2>1. UNCHANGED shown
        BY <1>5 DEF ProcessExits, HeartbeatBreaks, W!HeadlessExits, W!HeartbeatBreaks,
                    workerVars, vars
  <2> QED BY <1>2, <2>1
<1> QED BY <1>3, <1>4, <1>5 DEF Next, Terminated

\* A headless engine a rank has stopped is never asked for and started again,
\* through failures, lost and late polls (supervisor.py:576-583).
THEOREM StoppedIsFinalHolds == Spec => StoppedIsFinal
<1>1. CInv /\ [Next]_vars
          => [\A w \in Workers : \A i \in Engines :
                shown[w][i] = "stopped" => shown'[w][i] = "stopped"]_vars
      BY StoppedStays
<1> QED BY <1>1, AgreementHolds, PTL DEF Spec, StoppedIsFinal

LEMMA HeadsHavePeers ==
    CInv /\ [Next]_vars =>
        \A i \in Engines :
            proc'[i] # "none" /\ proc[i] = "none" => \A w \in Workers : wproc[w][i] # "none"
<1> SUFFICES ASSUME CInv, [Next]_vars, NEW i \in Engines, proc'[i] # "none",
                    proc[i] = "none", NEW w \in Workers
             PROVE  wproc[w][i] # "none"
    OBVIOUS
<1>1. CASE PP!System
  <2>1. task[i] = "spawn"
    <3>1. PP!LaunchStep /\ i \in PP!Engines
          BY <1>1, PrimaryKeeps DEF CInv, Engines, PP!Engines
    <3> QED BY <3>1 DEF PP!LaunchStep
  <2> QED BY <2>1 DEF CInv, Agreement, HasPeer
<1>2. CASE \/ PrimaryLoop \/ MonitorRest \/ PrimaryStop \/ PrimarySignal \/ Heartbeat
           \/ \E j \in Engines : PrimaryTask(j)
      BY <1>1, <1>2, PrimaryStep
<1>3. ASSUME NEW v \in Workers, Poll(v) \/ WorkerStep(v) \/ WorkerSignal(v) \/ ReportAges(v)
      PROVE  UNCHANGED proc
  <2>1. CASE SendPoll(v) \/ WorkerStep(v) \/ RankAround(v)
        BY <2>1, LoopMoves, AroundMoves DEF primaryVars
  <2>2. CASE Handle(v) \/ HandleLate(v) \/ ReportAges(v)
        BY <2>2 DEF Handle, HandleLate, ReportAges, P!HandlePoll, P!ReportAges, P!procVars
  <2>3. CASE ReceiveDesired(v)
        BY <2>3 DEF ReceiveDesired, primaryVars
  <2> QED BY <1>3, <2>1, <2>2, <2>3 DEF Poll, RankAround
<1>4. CASE ProcessExits \/ HeartbeatBreaks
  <2>1. proc'[i] = proc[i] \/ PP!System
        BY <1>4, SameAround DEF ProcessExits, HeartbeatBreaks, primaryVars, PP!System
  <2> QED BY <1>1, <2>1
<1>5. CASE UNCHANGED vars
      BY <1>5 DEF vars, primaryVars
<1> QED BY <1>2, <1>3, <1>4, <1>5 DEF Next, Terminated

\* A head process is started only when every rank has launched its headless
\* peer: the barrier of supervisor.py:223-246.
THEOREM HeadAfterPeersHolds == Spec => HeadAfterPeers
<1>1. CInv /\ [Next]_vars
          => [\A i \in Engines :
                 proc'[i] # "none" /\ proc[i] = "none"
                    => \A w \in Workers : wproc[w][i] # "none"]_vars
      BY HeadsHavePeers
<1> QED BY <1>1, AgreementHolds, PTL DEF Spec, HeadAfterPeers
=============================================================================
