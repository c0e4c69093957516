---------------------------- MODULE WorkerProofs ----------------------------
(***************************************************************************)
(* Theorems about WorkerSupervisor, for any set of workers, any number of  *)
(* models and whatever the coordinator answers.                            *)
(***************************************************************************)
EXTENDS WorkerSupervisor, TLAPS

Launching == {"adapters", "spawn", "settle", "ok", "raised"}
Leaving == {"stop", "stopping"}

\* The gathered launch: only engines the rank did not know are in it, the rank
\* learns of them when all of them are done, and a failure is never shown before
\* it is reported.
LaunchShape ==
    \A w \in Workers : \A i \in Engines :
        /\ wtask[w][i] \in Launching =>
              /\ wpc[w] = "launch" /\ es[w][i] = "absent"
              /\ shown[w][i] \notin {"pending", "stopped"}
        /\ wtask[w][i] \in Leaving => wpc[w] = "reap"
        /\ wtask[w][i] \in {"settle", "ok"} => wproc[w][i] # "none"
        /\ wtask[w][i] = "ok" => shown[w][i] = "running"
        /\ shown[w][i] = "failed" => es[w][i] = "failed"

IInv == TypeOK /\ LaunchShape /\ ReportMatchesRegistry

\* One engine of one rank changes: g is f but for x at i of w.
Changed(g, f, w, i, x) ==
    \A v \in Workers : \A j \in Engines :
        g[v][j] = IF v = w /\ j = i THEN x ELSE f[v][j]

Tasks == {"none", "stop", "stopping", "adapters", "spawn", "settle", "ok", "raised"}
Reports == {"absent", "running", "failed"}
Shown == {"pending", "preparing", "starting", "running", "failed", "stopped"}
Procs == {"none", "running", "exited"}

\* What each step of one engine changes.
LEMMA BeginReapChanges ==
    ASSUME TypeOK, NEW w \in Workers, NEW i \in Engines, BeginReap(w, i)
    PROVE  /\ TypeOK'
           /\ Changed(wtask', wtask, w, i, "stopping")
           /\ wtask[w][i] = "stop" /\ wpc[w] = "reap"
           /\ UNCHANGED <<wpc, es, shown, wproc, want>>
<1>1. wtask' \in [Workers -> [Engines -> Tasks]] /\ Changed(wtask', wtask, w, i, "stopping")
      BY DEF BeginReap, Changed, TypeOK, Tasks
<1> QED BY <1>1 DEF BeginReap, TypeOK, Tasks

LEMMA ReapChanges ==
    ASSUME TypeOK, NEW w \in Workers, NEW i \in Engines, Reap(w, i)
    PROVE  /\ TypeOK'
           /\ Changed(wtask', wtask, w, i, "none") /\ Changed(wproc', wproc, w, i, "none")
           /\ Changed(es', es, w, i, "absent") /\ Changed(shown', shown, w, i, "stopped")
           /\ wtask[w][i] \in Leaving /\ UNCHANGED wpc
<1>1. wtask' \in [Workers -> [Engines -> Tasks]] /\ Changed(wtask', wtask, w, i, "none")
      BY DEF Reap, Changed, TypeOK, Tasks
<1>2. wproc' \in [Workers -> [Engines -> Procs]] /\ Changed(wproc', wproc, w, i, "none")
      BY DEF Reap, Changed, TypeOK, Procs
<1>3. es' \in [Workers -> [Engines -> Reports]] /\ Changed(es', es, w, i, "absent")
      BY DEF Reap, Changed, TypeOK, Reports
<1>4. shown' \in [Workers -> [Engines -> Shown]] /\ Changed(shown', shown, w, i, "stopped")
      BY DEF Reap, Changed, TypeOK, Shown
<1> QED BY <1>1, <1>2, <1>3, <1>4
        DEF Reap, ReapReturns, Leaving, TypeOK, Tasks, Procs, Reports, Shown

LEMMA AdaptersChange ==
    ASSUME TypeOK, NEW w \in Workers, NEW i \in Engines, AdaptersResolved(w, i)
    PROVE  /\ TypeOK'
           /\ \/ /\ Changed(wtask', wtask, w, i, "spawn")
                 /\ Changed(shown', shown, w, i, "starting")
              \/ Changed(wtask', wtask, w, i, "raised") /\ shown' = shown
           /\ wtask[w][i] = "adapters" /\ UNCHANGED <<wpc, es, wproc>>
<1>1. CASE /\ wtask' = [wtask EXCEPT ![w][i] = "spawn"]
           /\ shown' = [shown EXCEPT ![w][i] = "starting"]
  <2>1. wtask' \in [Workers -> [Engines -> Tasks]] /\ Changed(wtask', wtask, w, i, "spawn")
        BY <1>1 DEF Changed, TypeOK, Tasks
  <2>2. shown' \in [Workers -> [Engines -> Shown]] /\ Changed(shown', shown, w, i, "starting")
        BY <1>1 DEF Changed, TypeOK, Shown
  <2> QED BY <2>1, <2>2 DEF AdaptersResolved, TypeOK, Tasks, Shown
<1>2. CASE wtask' = [wtask EXCEPT ![w][i] = "raised"] /\ shown' = shown
  <2>1. wtask' \in [Workers -> [Engines -> Tasks]] /\ Changed(wtask', wtask, w, i, "raised")
        BY <1>2 DEF Changed, TypeOK, Tasks
  <2> QED BY <1>2, <2>1 DEF AdaptersResolved, TypeOK, Tasks
<1> QED BY <1>1, <1>2 DEF AdaptersResolved

LEMMA SpawnChanges ==
    ASSUME TypeOK, NEW w \in Workers, NEW i \in Engines, SpawnHeadless(w, i)
    PROVE  /\ TypeOK'
           /\ \/ /\ Changed(wtask', wtask, w, i, "settle")
                 /\ Changed(wproc', wproc, w, i, "running")
              \/ Changed(wtask', wtask, w, i, "raised") /\ wproc' = wproc
           /\ wtask[w][i] = "spawn" /\ UNCHANGED <<wpc, es, shown>>
<1>1. CASE /\ wtask' = [wtask EXCEPT ![w][i] = "settle"]
           /\ wproc' = [wproc EXCEPT ![w][i] = "running"]
  <2>1. wtask' \in [Workers -> [Engines -> Tasks]] /\ Changed(wtask', wtask, w, i, "settle")
        BY <1>1 DEF Changed, TypeOK, Tasks
  <2>2. wproc' \in [Workers -> [Engines -> Procs]] /\ Changed(wproc', wproc, w, i, "running")
        BY <1>1 DEF Changed, TypeOK, Procs
  <2> QED BY <2>1, <2>2 DEF SpawnHeadless, TypeOK, Tasks, Procs
<1>2. CASE wtask' = [wtask EXCEPT ![w][i] = "raised"] /\ wproc' = wproc
  <2>1. wtask' \in [Workers -> [Engines -> Tasks]] /\ Changed(wtask', wtask, w, i, "raised")
        BY <1>2 DEF Changed, TypeOK, Tasks
  <2> QED BY <1>2, <2>1 DEF SpawnHeadless, TypeOK, Tasks
<1> QED BY <1>1, <1>2 DEF SpawnHeadless

LEMMA SettleChanges ==
    ASSUME TypeOK, NEW w \in Workers, NEW i \in Engines, Settle(w, i)
    PROVE  /\ TypeOK'
           /\ \/ /\ Changed(wtask', wtask, w, i, "ok")
                 /\ Changed(shown', shown, w, i, "running")
              \/ Changed(wtask', wtask, w, i, "raised") /\ shown' = shown
           /\ wtask[w][i] = "settle" /\ UNCHANGED <<wpc, es, wproc>>
<1>1. CASE /\ wtask' = [wtask EXCEPT ![w][i] = "ok"]
           /\ shown' = [shown EXCEPT ![w][i] = "running"]
  <2>1. wtask' \in [Workers -> [Engines -> Tasks]] /\ Changed(wtask', wtask, w, i, "ok")
        BY <1>1 DEF Changed, TypeOK, Tasks
  <2>2. shown' \in [Workers -> [Engines -> Shown]] /\ Changed(shown', shown, w, i, "running")
        BY <1>1 DEF Changed, TypeOK, Shown
  <2> QED BY <2>1, <2>2 DEF Settle, TypeOK, Tasks, Shown
<1>2. CASE wtask' = [wtask EXCEPT ![w][i] = "raised"] /\ shown' = shown
  <2>1. wtask' \in [Workers -> [Engines -> Tasks]] /\ Changed(wtask', wtask, w, i, "raised")
        BY <1>2 DEF Changed, TypeOK, Tasks
  <2> QED BY <1>2, <2>1 DEF Settle, TypeOK, Tasks
<1> QED BY <1>1, <1>2 DEF Settle

---------------------------------------------------------------------------
(* Types.                                                                  *)

LEMMA TypeLoop == ASSUME TypeOK, NEW w \in Workers, Loop(w) PROVE TypeOK'
<1> USE DEF TypeOK
<1>1. CASE SendPoll(w)
      BY <1>1 DEF SendPoll
<1>2. CASE BeginLaunches(w)
      BY <1>2 DEF BeginLaunches
<1>3. CASE FinishIteration(w)
  <2>1. \A i \in Engines : LaunchResult(w)[i] \in {"absent", "running", "failed"}
        BY DEF LaunchResult
  <2>2. LaunchResult(w) \in [Engines -> {"absent", "running", "failed"}]
        BY <2>1 DEF LaunchResult
  <2>3. \A s : PhaseOf(s, wphase[w]) \in {"ready", "degraded", wphase[w]}
        BY DEF PhaseOf
  <2>4. wphase'[w] \in {"ready", "degraded", wphase[w]}
        BY <1>3, <2>3 DEF FinishIteration
  <2> QED BY <1>3, <2>2, <2>4 DEF FinishIteration
<1>4. CASE Wakes(w) \/ LoopEnds(w)
      BY <1>4 DEF Wakes, LoopEnds
<1>5. CASE BeginShutdown(w) \/ EndShutdown(w)
      BY <1>5 DEF BeginShutdown, EndShutdown
<1>6. ASSUME NEW i \in Engines, StopHeadless(w, i) PROVE TypeOK'
      BY <1>6 DEF StopHeadless
<1> QED BY <1>1, <1>2, <1>3, <1>4, <1>5, <1>6, BeginReapChanges, ReapChanges,
           AdaptersChange, SpawnChanges, SettleChanges DEF Loop

LEMMA TypePoll == ASSUME TypeOK, NEW w \in Workers, PollOutcome(w) PROVE TypeOK'
<1> USE DEF TypeOK
<1>1. CASE PollFails(w) \/ PollGivesUp(w) \/ PollShutdown(w)
      BY <1>1 DEF PollFails, PollGivesUp, PollShutdown
<1>2. ASSUME NEW d \in SUBSET Engines, PollAnswered(w, d) PROVE TypeOK'
      BY <1>2 DEF PollAnswered
<1> QED BY <1>1, <1>2 DEF PollOutcome

LEMMA TypeNext == TypeOK /\ [Next]_vars => TypeOK'
<1> SUFFICES ASSUME TypeOK, [Next]_vars PROVE TypeOK'
    OBVIOUS
<1>1. ASSUME NEW w \in Workers, NEW i \in Engines, HeadlessExits(w, i)
      PROVE  TypeOK'
      BY <1>1 DEF HeadlessExits, TypeOK
<1>2. ASSUME NEW w \in Workers, Signal(w) PROVE TypeOK'
      BY <1>2 DEF Signal, TypeOK
<1>3. CASE UNCHANGED vars
      BY <1>3 DEF vars, TypeOK
<1>4. ASSUME NEW w \in Workers, HeartbeatBreaks(w) PROVE TypeOK'
      BY <1>4 DEF HeartbeatBreaks, TypeOK
<1> QED BY <1>1, <1>2, <1>3, <1>4, TypeLoop, TypePoll DEF Next, Terminated

---------------------------------------------------------------------------
(* The report, the registry and the processes.                             *)

\* The steps of one engine.
LEMMA EngineStepKeeps ==
    ASSUME IInv, NEW w \in Workers, NEW i \in Engines,
           \/ BeginReap(w, i) \/ Reap(w, i) \/ AdaptersResolved(w, i)
           \/ SpawnHeadless(w, i) \/ Settle(w, i)
    PROVE  LaunchShape' /\ ReportMatchesRegistry'
<1>1. TypeOK /\ LaunchShape /\ ReportMatchesRegistry
      BY DEF IInv
<1>2. CASE Reap(w, i)
  <2>1. /\ Changed(wtask', wtask, w, i, "none") /\ Changed(wproc', wproc, w, i, "none")
        /\ Changed(es', es, w, i, "absent") /\ Changed(shown', shown, w, i, "stopped")
        /\ UNCHANGED wpc
        BY <1>1, <1>2, ReapChanges
  <2> QED BY <1>1, <2>1 DEF Changed, LaunchShape, ReportMatchesRegistry, Launching, Leaving
<1>3. CASE AdaptersResolved(w, i)
  <2>1. /\ \/ /\ Changed(wtask', wtask, w, i, "spawn")
              /\ Changed(shown', shown, w, i, "starting")
           \/ Changed(wtask', wtask, w, i, "raised") /\ shown' = shown
        /\ wtask[w][i] = "adapters" /\ UNCHANGED <<wpc, es, wproc>>
        BY <1>1, <1>3, AdaptersChange
  <2> QED BY <1>1, <2>1 DEF Changed, LaunchShape, ReportMatchesRegistry, Launching, Leaving
<1>4. CASE SpawnHeadless(w, i)
  <2>1. /\ \/ /\ Changed(wtask', wtask, w, i, "settle")
              /\ Changed(wproc', wproc, w, i, "running")
           \/ Changed(wtask', wtask, w, i, "raised") /\ wproc' = wproc
        /\ wtask[w][i] = "spawn" /\ UNCHANGED <<wpc, es, shown>>
        BY <1>1, <1>4, SpawnChanges
  <2> QED BY <1>1, <2>1 DEF Changed, LaunchShape, ReportMatchesRegistry, Launching, Leaving
<1>5. CASE Settle(w, i)
  <2>1. /\ \/ /\ Changed(wtask', wtask, w, i, "ok")
              /\ Changed(shown', shown, w, i, "running")
           \/ Changed(wtask', wtask, w, i, "raised") /\ shown' = shown
        /\ wtask[w][i] = "settle" /\ UNCHANGED <<wpc, es, wproc>>
        BY <1>1, <1>5, SettleChanges
  <2> QED BY <1>1, <2>1 DEF Changed, LaunchShape, ReportMatchesRegistry, Launching, Leaving
<1>6. CASE BeginReap(w, i)
  <2>1. /\ Changed(wtask', wtask, w, i, "stopping") /\ wtask[w][i] = "stop"
        /\ wpc[w] = "reap" /\ UNCHANGED <<wpc, es, shown, wproc>>
        BY <1>1, <1>6, BeginReapChanges
  <2> QED BY <1>1, <2>1 DEF Changed, LaunchShape, ReportMatchesRegistry, Launching, Leaving
<1> QED BY <1>2, <1>3, <1>4, <1>5, <1>6

LEMMA LoopKeeps ==
    ASSUME IInv, NEW w \in Workers, Loop(w)
    PROVE  LaunchShape' /\ ReportMatchesRegistry'
<1> USE DEF IInv, TypeOK, LaunchShape, ReportMatchesRegistry, Launching, Leaving
<1>1. CASE SendPoll(w)
      BY <1>1 DEF SendPoll
<1>2. CASE BeginLaunches(w)
      BY <1>2 DEF BeginLaunches, New
<1>3. CASE FinishIteration(w)
      BY <1>3 DEF FinishIteration, LaunchResult
<1>4. CASE Wakes(w) \/ LoopEnds(w) \/ BeginShutdown(w) \/ EndShutdown(w)
      BY <1>4 DEF Wakes, LoopEnds, BeginShutdown, EndShutdown
<1>5. ASSUME NEW i \in Engines, StopHeadless(w, i)
      PROVE  LaunchShape' /\ ReportMatchesRegistry'
      BY <1>5 DEF StopHeadless
<1> QED BY <1>1, <1>2, <1>3, <1>4, <1>5, EngineStepKeeps DEF Loop

LEMMA PollKeeps ==
    ASSUME IInv, NEW w \in Workers, PollOutcome(w)
    PROVE  LaunchShape' /\ ReportMatchesRegistry'
<1> USE DEF IInv, TypeOK, LaunchShape, ReportMatchesRegistry, Launching, Leaving
<1>1. CASE PollFails(w) \/ PollGivesUp(w) \/ PollShutdown(w)
      BY <1>1 DEF PollFails, PollGivesUp, PollShutdown
<1>2. ASSUME NEW d \in SUBSET Engines, PollAnswered(w, d)
      PROVE  LaunchShape' /\ ReportMatchesRegistry'
      BY <1>2 DEF PollAnswered
<1> QED BY <1>1, <1>2 DEF PollOutcome

LEMMA InductiveInit == Init => IInv
BY DEF Init, IInv, TypeOK, LaunchShape, ReportMatchesRegistry, Launching, Leaving

LEMMA InductiveNext == IInv /\ [Next]_vars => IInv'
<1> SUFFICES ASSUME IInv, [Next]_vars PROVE LaunchShape' /\ ReportMatchesRegistry'
    BY TypeNext DEF IInv
<1>1. ASSUME NEW w \in Workers, NEW i \in Engines, HeadlessExits(w, i)
      PROVE  LaunchShape' /\ ReportMatchesRegistry'
      BY <1>1 DEF HeadlessExits, IInv, TypeOK, LaunchShape, ReportMatchesRegistry
<1>2. ASSUME NEW w \in Workers, Signal(w)
      PROVE  LaunchShape' /\ ReportMatchesRegistry'
      BY <1>2 DEF Signal, IInv, TypeOK, LaunchShape, ReportMatchesRegistry
<1>3. CASE UNCHANGED vars
      BY <1>3 DEF vars, IInv, LaunchShape, ReportMatchesRegistry
<1>4. ASSUME NEW w \in Workers, HeartbeatBreaks(w)
      PROVE  LaunchShape' /\ ReportMatchesRegistry'
      BY <1>4 DEF HeartbeatBreaks, IInv, LaunchShape, ReportMatchesRegistry
<1> QED BY <1>1, <1>2, <1>3, <1>4, LoopKeeps, PollKeeps DEF Next, Terminated

THEOREM InductiveHolds == Spec => []IInv
BY InductiveInit, InductiveNext, PTL DEF Spec

\* The variables of a worker keep their types (supervisor.py:519-607).
THEOREM WorkerTypeCorrect == Spec => []TypeOK
BY InductiveHolds, PTL DEF IInv

\* The report of a rank, its registry and its processes agree at every moment,
\* whatever the coordinator answers (supervisor.py:539-548, 574-607).
THEOREM ReportHolds == Spec => []ReportMatchesRegistry
BY InductiveHolds, PTL DEF IInv

---------------------------------------------------------------------------
(* No engine that failed is launched again.                                *)

KeepsFailures ==
    \A w \in Workers : \A i \in Engines :
        shown[w][i] = "failed" => shown'[w][i] \in {"failed", "stopped"}

LEMMA EngineStepKeepsFailures ==
    ASSUME IInv, NEW w \in Workers, NEW i \in Engines,
           Reap(w, i) \/ AdaptersResolved(w, i) \/ Settle(w, i)
    PROVE  KeepsFailures
<1>1. TypeOK /\ LaunchShape
      BY DEF IInv
<1>2. CASE Reap(w, i)
  <2>1. Changed(shown', shown, w, i, "stopped")
        BY <1>1, <1>2, ReapChanges
  <2> QED BY <2>1 DEF Changed, KeepsFailures
<1>3. CASE AdaptersResolved(w, i) \/ Settle(w, i)
  <2>1. /\ wtask[w][i] \in Launching
        /\ \/ \E x \in Shown : Changed(shown', shown, w, i, x)
           \/ shown' = shown
        BY <1>1, <1>3, AdaptersChange, SettleChanges DEF Shown, Launching
  <2>2. shown[w][i] # "failed"
        BY <1>1, <2>1 DEF LaunchShape
  <2> QED BY <2>1, <2>2 DEF Changed, KeepsFailures
<1> QED BY <1>2, <1>3

LEMMA FailuresKept == IInv /\ [Next]_vars => KeepsFailures
<1> SUFFICES ASSUME IInv, [Next]_vars PROVE KeepsFailures
    OBVIOUS
<1>1. ASSUME NEW w \in Workers, Loop(w) PROVE KeepsFailures
  <2>1. CASE SendPoll(w) \/ FinishIteration(w)
    <3>1. \E fails \in SUBSET Engines :
             shown' = [shown EXCEPT ![w] =
                          [i \in Engines |-> IF i \in fails THEN "failed" ELSE @[i]]]
      <4>1. CASE SendPoll(w)
            BY <4>1 DEF SendPoll, Lost
      <4>2. CASE FinishIteration(w)
        <5>1. [i \in Engines |-> IF i \in {j \in Engines : wtask[w][j] = "raised"}
                                 THEN "failed" ELSE shown[w][i]]
              = [i \in Engines |-> IF wtask[w][i] = "raised" THEN "failed" ELSE shown[w][i]]
              OBVIOUS
        <5> QED BY <4>2, <5>1 DEF FinishIteration
      <4> QED BY <2>1, <4>1, <4>2
    <3> QED BY <3>1 DEF IInv, TypeOK, KeepsFailures
  <2>2. CASE BeginLaunches(w)
        BY <2>2 DEF BeginLaunches, New, IInv, TypeOK, LaunchShape, KeepsFailures
  <2>3. CASE UNCHANGED shown
        BY <2>3 DEF KeepsFailures
  <2> QED BY <1>1, <2>1, <2>2, <2>3, EngineStepKeepsFailures
          DEF Loop, Wakes, LoopEnds, BeginShutdown, EndShutdown, SpawnHeadless,
              StopHeadless, BeginReap
<1>2. CASE UNCHANGED shown
      BY <1>2 DEF KeepsFailures
<1> QED BY <1>1, <1>2
        DEF Next, PollOutcome, PollFails, PollGivesUp, PollShutdown, PollAnswered,
            Signal, HeartbeatBreaks, HeadlessExits, Terminated, vars

\* A headless engine that failed stays failed until the coordinator withdraws it
\* (README.md:744, supervisor.py:576).
THEOREM NoRelaunch == Spec => FailedNotRelaunched
<1>1. IInv /\ [Next]_vars
          => [\A w \in Workers : \A i \in Engines :
                shown[w][i] = "failed" => shown'[w][i] \in {"failed", "stopped"}]_vars
      BY FailuresKept DEF KeepsFailures
<1> QED BY <1>1, InductiveHolds, PTL DEF Spec, FailedNotRelaunched

---------------------------------------------------------------------------
(* What a cluster relies on: the steps of a rank, as the primary sees them. *)

Others(w) ==
    \A v \in Workers \ {w} :
        /\ wpc'[v] = wpc[v] /\ want'[v] = want[v]
        /\ \A i \in Engines :
              /\ wtask'[v][i] = wtask[v][i] /\ es'[v][i] = es[v][i]
              /\ shown'[v][i] = shown[v][i] /\ wproc'[v][i] = wproc[v][i]

\* An engine is stopped only if its stop was decided with the last answer, and
\* begins only if that answer wants it; a running one has a process.
RankStep(w) ==
    /\ Others(w) /\ want'[w] = want[w]
    /\ \A i \in Engines :
          /\ wtask'[w][i] \in Leaving => wtask[w][i] \in Leaving
          /\ shown[w][i] = "stopped" => shown'[w][i] = "stopped" \/ i \in want[w]
          /\ shown'[w][i] = "stopped" => shown[w][i] = "stopped" \/ wtask[w][i] \in Leaving
          /\ shown'[w][i] # "pending" =>
                shown[w][i] # "pending" \/ i \in want[w] \/ wtask[w][i] \in Leaving
          /\ es'[w][i] = "running" => es[w][i] = "running" \/ wproc'[w][i] # "none"
          /\ wproc[w][i] # "none" /\ wproc'[w][i] = "none" => wtask[w][i] \in Leaving

\* The steps of one engine.
LEMMA EngineRankStep ==
    ASSUME IInv, NEW w \in Workers, NEW j \in Engines,
           \/ BeginReap(w, j) \/ Reap(w, j) \/ AdaptersResolved(w, j)
           \/ SpawnHeadless(w, j) \/ Settle(w, j)
    PROVE  RankStep(w) /\ wpc[w] # "poll"
<1>1. TypeOK /\ LaunchShape /\ ReportMatchesRegistry
      BY DEF IInv
<1> USE DEF Changed, RankStep, Others, Launching, Leaving, LaunchShape
<1>2. CASE Reap(w, j)
  <2>1. /\ Changed(wtask', wtask, w, j, "none") /\ Changed(wproc', wproc, w, j, "none")
        /\ Changed(es', es, w, j, "absent") /\ Changed(shown', shown, w, j, "stopped")
        /\ wtask[w][j] \in Leaving /\ UNCHANGED wpc
        BY <1>1, <1>2, ReapChanges
  <2>2. wpc[w] = "reap" /\ UNCHANGED want
        BY <1>2 DEF Reap, ReapReturns
  <2> QED BY <2>1, <2>2
<1>3. CASE AdaptersResolved(w, j)
  <2>1. /\ \/ /\ Changed(wtask', wtask, w, j, "spawn")
              /\ Changed(shown', shown, w, j, "starting")
           \/ Changed(wtask', wtask, w, j, "raised") /\ shown' = shown
        /\ wtask[w][j] = "adapters" /\ UNCHANGED <<wpc, es, wproc>>
        BY <1>1, <1>3, AdaptersChange
  <2>2. UNCHANGED want
        BY <1>3 DEF AdaptersResolved
  <2> QED BY <1>1, <2>1, <2>2
<1>4. CASE SpawnHeadless(w, j)
  <2>1. /\ \/ /\ Changed(wtask', wtask, w, j, "settle")
              /\ Changed(wproc', wproc, w, j, "running")
           \/ Changed(wtask', wtask, w, j, "raised") /\ wproc' = wproc
        /\ wtask[w][j] = "spawn" /\ UNCHANGED <<wpc, es, shown>>
        BY <1>1, <1>4, SpawnChanges
  <2>2. UNCHANGED want
        BY <1>4 DEF SpawnHeadless
  <2> QED BY <1>1, <2>1, <2>2
<1>5. CASE Settle(w, j)
  <2>1. /\ \/ /\ Changed(wtask', wtask, w, j, "ok")
              /\ Changed(shown', shown, w, j, "running")
           \/ Changed(wtask', wtask, w, j, "raised") /\ shown' = shown
        /\ wtask[w][j] = "settle" /\ UNCHANGED <<wpc, es, wproc>>
        BY <1>1, <1>5, SettleChanges
  <2>2. UNCHANGED want
        BY <1>5 DEF Settle
  <2> QED BY <1>1, <2>1, <2>2
<1>6. CASE BeginReap(w, j)
  <2>1. /\ Changed(wtask', wtask, w, j, "stopping") /\ wtask[w][j] = "stop"
        /\ wpc[w] = "reap" /\ UNCHANGED <<wpc, es, shown, wproc, want>>
        BY <1>1, <1>6, BeginReapChanges
  <2> QED BY <1>1, <2>1
<1> QED BY <1>2, <1>3, <1>4, <1>5, <1>6

LEMMA LoopRankStep ==
    ASSUME IInv, NEW w \in Workers, Loop(w) PROVE RankStep(w) /\ wpc[w] # "poll"
<1> USE DEF IInv, TypeOK, RankStep, Others, Leaving
<1>1. CASE SendPoll(w)
  <2>1. \A i \in Lost(w) : es[w][i] # "absent" /\ shown[w][i] \notin {"pending", "stopped"}
        BY <1>1 DEF SendPoll, Lost, LaunchShape, ReportMatchesRegistry, Launching
  <2>2. /\ wpc[w] = "top" /\ UNCHANGED <<wtask, wproc, want>>
        /\ \A v \in Workers : v # w => wpc'[v] = wpc[v]
        /\ \A v \in Workers : \A i \in Engines :
              /\ es'[v][i] = IF v = w /\ i \in Lost(w) THEN "failed" ELSE es[v][i]
              /\ shown'[v][i] = IF v = w /\ i \in Lost(w) THEN "failed" ELSE shown[v][i]
        BY <1>1 DEF SendPoll
  <2> QED BY <2>1, <2>2
<1>2. CASE BeginLaunches(w)
      BY <1>2 DEF BeginLaunches, New
<1>3. CASE FinishIteration(w)
  <2>1. \A i \in Engines : LaunchResult(w)[i] = "running" =>
              wtask[w][i] = "ok" \/ es[w][i] = "running"
        BY DEF LaunchResult
  <2> QED BY <1>3, <2>1 DEF FinishIteration, LaunchShape, Launching
<1>4. CASE Wakes(w) \/ LoopEnds(w) \/ BeginShutdown(w) \/ EndShutdown(w)
      BY <1>4 DEF Wakes, LoopEnds, BeginShutdown, EndShutdown
<1>5. ASSUME NEW i \in Engines, StopHeadless(w, i) PROVE RankStep(w) /\ wpc[w] # "poll"
      BY <1>5 DEF StopHeadless, LaunchShape
<1> QED BY <1>1, <1>2, <1>3, <1>4, <1>5, EngineRankStep DEF Loop

LEMMA AroundRankStep ==
    ASSUME IInv, NEW w \in Workers,
           \/ PollFails(w) \/ PollGivesUp(w) \/ PollShutdown(w) \/ Signal(w)
           \/ HeartbeatBreaks(w) \/ \E i \in Engines : HeadlessExits(w, i)
    PROVE  RankStep(w) /\ UNCHANGED es
<1> USE DEF IInv, TypeOK, RankStep, Others, Leaving
<1>1. CASE \/ PollFails(w) \/ PollGivesUp(w) \/ PollShutdown(w) \/ Signal(w)
           \/ HeartbeatBreaks(w)
      BY <1>1 DEF PollFails, PollGivesUp, PollShutdown, Signal, HeartbeatBreaks
<1>2. ASSUME NEW i \in Engines, HeadlessExits(w, i) PROVE RankStep(w) /\ UNCHANGED es
      BY <1>2 DEF HeadlessExits
<1> QED BY <1>1, <1>2
=============================================================================
