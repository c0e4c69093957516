# Verification of YeetLLM

TLA+ models, TLC runs and TLAPS proofs for YeetLLM, the appliance that serves
several vLLM engines behind one local router, on one node or on a RunPod
Instant Cluster. Paths such as `supervisor.py:209` are below `src/src/yeetllm/`;
`src/README.md` is the program's own documentation.

## 1. The system

| Part | State | Operations | Module |
|---|---|---|---|
| Primary supervisor, `Supervisor.run` on rank 0 | registry of engine states, phase, process table, `failed` flags, `stop_event`, the position of its coroutines | start coordinator, sshd, router; prepare and launch models in batches behind a worker barrier; monitor; shut down | `PrimarySupervisor`; what readers see of it, `Deployment` |
| Worker supervisor, `_run_worker` on ranks 1.. | `engine_states`, registry, process table, outage clock | poll, reap withdrawn engines, launch wanted ones, give up, shut down | `WorkerSupervisor` |
| Cluster coordinator (`cluster.py`) | desired set, last report of each rank, shutdown flag | answer polls, barrier `wait_workers`, `all_workers_running` | in `PrimarySupervisor`; the network in `Cluster` |
| Managed process (`processes.py`) | leader, process group, pipes, reader tasks, the rest of a line | `start`, `running`, `stop`, framing of the log | `ManagedProcess`; what supervisors assume, `Child` |
| State store (`state.py`) and health check (`healthcheck.py`) | the state file and its heartbeat | `initialize`, `touch`, `write`; `check` reads the file, probes the router and looks up processes | `Node` |
| Router (`router.py`) | affinity index, handlers in progress | `proxy`, `AffinityMap.put/get` | `Router` |
| SSE identifier parser (`router.py:74-102`) | a buffer | `feed` | `SSEIds` |
| Registry and port plan (`registry.py`, `cluster.py`) | none | derive ports, refuse conflicts | `PortPlan` |
| Configuration (`config.py`) | the persisted file | fetch, verify, parse, persist | `RemoteConfig`; the checks against the node, `Startup` |
| SSH (`ssh.py`) | the key file | select a source, write, validate, start sshd | `SSH` |
| Adapters (`adapters.py`), `serve` and `validate` (`cli.py`) | none | resolve and check an adapter; run the checks in two orders | `Startup` |
| Command lines (`commands.py`), container image | none | | not modelled, see 6 |

How they interact. Everything in a supervisor process is one asyncio event loop:
coroutines share memory and interleave only at `await`. Children are processes,
seen through `returncode`; their exit may be noticed at any await. Workers poll
rank 0 over a new TCP connection each time and act on the answer. The supervisor
publishes the state file; the router, the health check and `yeetllm status` read
it, each at moments of its own. What makes this hard: results of concurrent tasks
handled after the await, an exit while another coroutine is suspended, polls that
are lost or read late, timeouts that race with answers, a shutdown in the middle
of any of it, failures of part of a batch, and files that outlive a process.

What makes each part correct:
- primary: batches do not overlap; the registry, the process table and the phase
  agree; nothing is restarted; a signal leads to the exit; no child is left; the
  exit status tells the truth; readers may rely on `Deployment`;
- cluster: heads start after their peers; a withdrawn engine is reaped and not
  launched again; a loss on one node is noticed on the other; nobody outlives the
  primary;
- managed process: `stop` returns, with the output drained; lines come out whole;
- health check: "healthy" was true, and a supervisor that hangs is noticed;
- router: a known response stays routable, to the engine that holds it, and the
  parser finds every identifier however the stream is cut;
- port plan: accepted plans can be bound, refused ones have a clash;
- configuration: what runs is what was fetched and verified; the file is whole;
- start of a node: engines get what fits; `validate` and `serve` agree; sshd
  serves the keys of this life.

The hazards behind these are listed, each at its line, in `PROJECT.json`.

## 2. The modules

### PrimarySupervisor and Deployment
`pc` is where the coroutine `run` is suspended; an action is the code between two
awaits of one coroutine.

| `pc` | Code | Actions |
|---|---|---|
| bind, ssh, router | `supervisor.py:191-205` | `StartCoordinator`, `StartSsh`, `StartRouter` |
| batch | head of the loop, 209-211 | `NextBatch`, `LeaveLoading` |
| prepare | first gather, 212-221 | per engine `BeginPrepare`, `EndPrepare`; then `BatchPrepared` |
| barrier | 223-241 | `BarrierPasses`, `BarrierRaises` |
| launch | second gather, 243-254 | per engine `BeginLaunch`, `Spawn`, `CheckEngine`, `EngineReady`, `EngineNotReady`, `WaitRaises`, `HandleRaised`, `Reaped`; then `FinishBatch` |
| monitor, probe, idle | `_monitor_primary` | `MonitorExits`, `MonitorRest`, `MonitorWakes`, `MonitorReturns` |
| shutdown, drain, join, stopping, exited | `_shutdown` | `BeginShutdown`, `CloseCoordinator`, `JoinHeartbeat`, `StopEngine`, `StopService`, `EndShutdown` |

`task[i]` is the task of engine `i` inside the current gather, `proc` and
`service` are the children, `engine`, `phase` the registry. `HandlePoll` and
`ReportAges` are the coordinator: `fresh[w]` abstracts `now - last_seen <= 15`.
Around the loop, engines and services exit, a signal arrives and the heartbeat
ends or (if `WriteFaults`) dies of a failed write. `_shutdown`'s own two writes may
fail as well: that of "stopping" skips the rest of the shutdown, that of "stopped"
changes the exit status; `unwritten` is history, the phases that did not get to the
file. A child is "exited" when it has exited and been waited for. `AwaitsStop` says that
a `stop()` of a process is being awaited: in the reaping of an engine that failed while
loading (252) or in the shutdown (653). Such a `stop()` need not return, because a
process that survives the leader and holds a pipe keeps the readers waiting (see
`ManagedProcess` and section 4). In this module the workers
are unconstrained: any report at any time, except that a report names every engine
as running or failed, because the primary never tells an absent engine from one
that failed where it matters (both are "not running"; the barrier raises
at once for one that failed and at its timeout otherwise, and in the model at any
time while it does not pass). The exit status
is 0 or "not 0" (1; the CLI turns some exceptions into 2). `Terminated` lets the
exited program stutter.

`Deployment` is the abstract specification: the life of each engine and of the announced
phase, as a reader of the state file sees them. Engines progress only while the phase is
"loading", one way; "ready" is announced only of a complete service; later the service
only shrinks, and an announcement that is not true any more is withdrawn.
`ImplementsDeployment` is the refinement, with `engine` and `phase` mapped to themselves;
it adds that an announcement that is no longer true is withdrawn (`Withdraws`), and that a
loaded service is announced (`Announces`) unless the loop is held up for ever by a
`stop()`. It is a real restriction: `Progress` allows a batch to fail together but never a
step back, and `Announce` forbids a batch left half-way.

### WorkerSupervisor and Cluster
`WorkerSupervisor` is the poll loop for every rank, with arbitrary answers. Withdrawn
engines are reaped one after the other: `BeginReap` takes a process out of the table and
awaits its `stop()`, `Reap` forgets the engine when that has returned; between the two
(and for ever, if it does not) the rank does nothing else but publish and hear signals.
`wfault` is history: the heartbeat's write or that of "stopping" raised, either of which
skips the rest of the shutdown and leaves the children. `Cluster` instantiates both
supervisors and puts the polls between them: `request` and `answer` hold the poll in
flight. A worker that gives up on a connection may leave its report unread in `late`; the
coordinator may process it at any later time. `ReportAges` is possible only for a rank
that cannot poll or whose polls fail, because a rank polls every two seconds otherwise.
`Cluster` begins when rank 0 has its services up; their failure is in `PrimarySupervisor`.
In it, exits, signals at workers and heartbeats that break share the budget `MaxExits`,
failed health probes have `MaxProbes`, lost polls `MaxLost`.

### Node
`PrimarySupervisor` together with the state file and its two other readers. A step of the
supervisor publishes its state (`Snapshot`): every change is followed by a `touch()`
before the next await; one that raises leaves the file as it was. A write goes to a
temporary file that is renamed, so a writer that never returns leaves the old file
(`Interrupted`); the same action stands for an event loop that hangs in an `fsync`, after
which only time passes and children exit. `age` is the heartbeat: "fresh" is within the
router's ten seconds, "late" within the health check's fifteen. The file may be left from
a former life of the container, with a phase of "ready" and pids that exist again
(`Former`, `PidExists`). `check` is the health check step by step, beside all of this (a
process exists until it has been waited for, so under a loop that hangs a zombie is still
there): read the file, look up the supervisor and the router, probe the router's readiness
(which reads the file anew), look up each engine, then sshd. It records every failure and
goes on; the model ends at the first, which gives the same verdict. `check.served` is
history: whether the service was complete at one of the moments the check looked.

### ManagedProcess and Child
The leader, the helpers it forks (vLLM's engine and tensor-parallel processes),
which of them hold the pipes, and `stop()` as a sequence of awaits. Whether
asyncio's `Process.wait()` also waits for the pipes depends on the CPython
release, so `waitsForPipes` is chosen in `Init` and never changes. `output` is
what the group has written, as text and line ends (LF, CR and CR LF are one: the
code emits no empty lines, so they cannot be told apart); a byte is a position,
`Read` takes a chunk of any size up to `Limit`, and `log` is the set of pieces
emitted. The two pipes of a child are read by two tasks that share nothing; the
model has one.

`Child` is what the supervisors take a process for: started once, exits once,
not running when `stop()` has returned. `ManagedProcess` implements it
(`IsAChild`), with the child running until its status is *known*.

### Router and SSEIds
Handlers advance from await to await: the state file is read on `Arrive`, which also says
what the request is routed by, the model it names or, only without one, the response in
its path (`Target`); the engine is selected by `Route` after the body is in, the answer is
remembered by `Json` or by each `Event` of a stream. `AffinityMap._items`, an
`OrderedDict`, is a function of its keys; the order is in the entries, each of which names
the keys that come after its own (`newer`), so that `popitem(last=False)` until the
maximum holds keeps the entries with fewer than `Maximum` newer ones. `owner` is the
engines' own knowledge; `known`, `since` (what was used since the last use of an
identifier) and `deadline` are history. A model name is represented by its engine (the
registry's `models` map is fixed). Bodies, headers and error texts are left out; every way
in which a handler ends without an identifier is `Ends`.

`SSEIds` is the parser that `Event` relies on. A symbol is a byte of a line end, a
whole data line with an identifier ("id"), or the rest of any line ("other"); chunks
arrive in any size up to `Chunk`. A text is the set of its positions in the stream: the
buffer is normalised (CRs before an LF go), trimmed to `Keep` beyond twice that and split
at empty lines, which in a run of LFs are the second, the fourth and so on. `found`
counts the callbacks per position; within one feed they come in the order of the text,
and from feed to feed `EveryIdFound` orders them, since what it calls complete is a
prefix of the stream. The reference reads the empty lines off the whole stream.

### PortPlan, SSH and Startup
`PortPlan` is the checks of ports in the order in which the program runs them, for
one configuration. They are compared with what the primary then binds (`Binds`): the
listeners, with or without sshd, on the loopback interface, the cluster's or any (the
rendezvous of an engine counts as "any", which is the cautious side). The checks are
stricter than that: they count sshd where it will not be started, and no addresses. What
is claimed of a refusal is therefore what its message says, that two owners were assigned
one port or a port lies past the last (`RaisedNamesAClash`).

`SSH` is `prepare_ssh` and `_start_ssh`: the first source that is not blank, the
key file, its validation and sshd. A text is the set of its lines: keys, a comment,
garbage, private-key material. Files may be unreadable or fail to be written, and
`os.write` may write a part (`fault` is history). "refused" is an error that ends
`yeetllm serve` like those of the checks (status 2), "failed" is sshd's own. The file
survives the supervisor and is found by the next one.

`Startup` composes both with the rest of `yeetllm serve` on a node: GPU clashes, RunPod's
variables, the GPU count, the directories, worlds, adapters, quantizations; then SSH and
the preparation of each engine, whose adapter may have to be downloaded before its rank is
known. An adapter whose files name no rank is "unknown" and passes both checks. `probed`
is whether vLLM could be asked for its quantizations, which are checked only then. The
node may die anywhere and start again (`StartAgain`) with other SSH settings.
`ValidateRefuses` is `yeetllm validate` on the same node, with a probe of its own.

### RemoteConfig
`load_config` on several nodes that keep the file on one volume (`src/README.md:609-611`):
fetch with redirects and digest, parse, write, rename, with failures and losses of power
(`Lose`: what is not synced is torn) in between. A document is a value; `Valid`
are those that parse and validate.

## 3. Runs

| Run | Question | Bounds | Expected |
|---|---|---|---|
| Node | a healthy verdict was true; a hang is noticed; honest phase and exit status, no restart | N = 2, Parallelism = 2, no workers, write faults, any former life | pass |
| PrimaryCluster | batches, desired set, no orphan without a failed write; `Deployment` implemented; engines settle, deaths degrade, a signal leads to the exit, unless a `stop()` hangs | N = 2, Parallelism = 1, 1 arbitrary worker, write faults | pass |
| PrimaryOrphans | no orphans at all | N = 2, Parallelism = 2, no workers, write faults | violated |
| Worker | report, registry and processes agree; failed is not relaunched | N = 2, 1 rank, write faults | pass |
| Cluster | released before launched; stopped is final; heads after peers | N = 2, Parallelism = 1, 1 worker, 1 exit, 1 probe, 1 lost poll | pass |
| ClusterLive | failure crosses nodes, all leave, unless a `stop()` hangs | N = 1, 1 worker, 1 exit, no failed probe, 1 lost poll, write faults | pass |
| Process | drained on return; lines whole; stop returns; a `Child` | 3 helpers, 2 hold the pipes, 2 stops, 6 bytes, reads of up to 2, both kinds of CPython | pass |
| ProcessStragglers | no stragglers | 2 helpers, 1 holds | violated |
| Router | affinity | 2 engines, 3 identifiers, 2 requests, index of 2, TTL 2, clock to 3, symmetry | pass |
| SSEIds | every identifier found, bounded buffer | streams of up to 9 symbols, chunks of up to 3, 3 kept | pass |
| RemoteConfig | verified and whole | 2 nodes, 3 documents, 2 redirects, 3 starts | pass |
| Startup | accepted ports bind, refused ones clash; engines fit; `validate` agrees; keys of this life | three families of inputs (below), 2 lives | pass |

Why the bounds are enough. Two models in one batch (`Node`) fail and become ready in any
order; two in batches of one (`PrimaryCluster`, `Cluster`) give an earlier engine that can
fail while a later one starts, and an engine in each relation to the current batch. What
TLC says of that few models, the theorems below say of any number; the same holds for
several workers, whose disagreement `ClusterProofs` covers. One exit (or a heartbeat that
breaks), one failed probe and one lost poll together give a failure of each kind and a
retry; `ClusterLive` leaves out the failed probe, which `Cluster` and `PrimaryCluster`
have. Three helpers give one that lets go of the pipes and two that hold them; six bytes
with reads of two give lines shorter than, as long as and longer than the limit, cut
anywhere. An index of two with three identifiers evicts, and a clock past the TTL expires.
Nine symbols overrun the buffer (six) and hold two events with every kind of line end.
`Startup` varies the ports (7 ports, first engine port 5, up to 4 models, a plain node),
then the node, its environment and one or two models (plain ports), then the SSH settings
over two lives (the plainest node; of the four sources at most two offer anything): the
checks of one family do not look at what another varies.

`SSEIds` and `Startup` have `CHECK_DEADLOCK FALSE`: a stream that has ended has ended, a
refused command too, and a node that serves goes on as `PrimarySupervisor`.

Every passing property has a seeded fault in a module of its run
(`<Definition>_<Fault>`, listed under "mutants" in `PROJECT.json`) that the same run
detects.

Fairness. The event loop runs every ready coroutine, and an await of the code has a
timer, a thread or a child that is being killed behind it, so the loop's steps are weakly
fair, with one exception: no awaited `stop()` is assumed to return (`AwaitsStop` in the
fairness conditions), and all that waits behind it is then late for ever. The liveness
properties say what holds unless that happens, and as closely as they can: an awaited
`stop()` is the only thing that may keep an engine from settling, a death from showing, a
signal from leading to the exit, or a rank from following the primary. `WaitRaises` is
strongly fair: its deadline is looked at between two probes, so it is enabled again and
again rather than continuously. `PollGivesUp` is strongly fair while nobody listens, for
the same reason. `LosePoll` is not, and children need not exit: neither is needed. In
`Cluster` the last report of a rank that is gone, or waits in a `stop()`, grows old. In
`ManagedProcess` only the supervisor's own steps are fair; children may ignore SIGTERM
for ever. In `Node`, `Ages` is fair because time passes and `HealthCheck` because Docker
repeats it (`Dockerfile:92`); the supervisor, which may hang, is not.

## 4. What the runs found

1. `PrimaryOrphans`: a failed write of the state file in the heartbeat resurfaces
   at `supervisor.py:651` and skips the rest of the shutdown; children are neither
   signalled nor awaited. The shutdown's first write (643) does the same when it fails.
   `OrphansOnlyAfterFault` says (and a theorem proves) that these two are the only ways to
   leave one behind.
2. `ProcessStragglers`: `stop()` never signals the group once the leader is gone, so
   helpers survive it. Or they keep it waiting: the readers have no time limit, so a
   survivor that holds the pipes delays `stop()` for as long as it lives. That is why
   `StopFromRunningReturns` is stated for a `stop()` that reaches the kill, and why the
   liveness properties of the supervisors except an awaited `stop()`: at
   `supervisor.py:252` it can keep the phase at "loading" and the other engines of a batch
   where they are, at 580 a worker from polling, at 653 a supervisor from its exit.

Behaviours of the models that the properties allow, because the code decides so,
and that a reader of the program's README may not expect:
- engines are looked at only after all batches, so one that dies earlier stays
  "ready" meanwhile (`src/README.md:742` says "immediately"); `DeathDegrades` says
  what holds from the monitor on;
- after a failed barrier the next batch starts while workers may still launch
  the old one (`src/README.md:633` says "sequential across all nodes");
  `BatchedStart` is about rank 0;
- a worker busy stopping one engine (up to 20 s) looks stale (after 15 s), and the
  primary then fails the other ready engines, which that worker unloads;
- an engine that fails because a worker is lost does not count for the exit status,
  so a cluster may exit with 0 after it served nothing; `CleanExitMeansServed` is
  about a single node;
- a request is routed by the state that was read before its body arrived, so an
  engine that was marked failed meanwhile may still get it;
- a port plan is refused for a clash with sshd's port on a node that never starts sshd,
  or of ports on different addresses; an adapter that names no rank is left to vLLM;
- `validate` never looks at the SSH keys, the volume or the key file, and where probing
  vLLM fails for one of `validate` and `serve` only they differ (`ValidateAgrees` says so).

Four hazards have no property for this reason or because no model reaches them:
`supervisor.py:236` (the barrier's timeout), `router.py:180` (the stale snapshot),
`supervisor.py:493` (the exit status of a cluster) and `cluster.py:308` (the
generation nobody reads, see 6).

## 5. Proofs

All theorems hold for every value of the constants; TLAPS checks every leaf.

- `PrimarySupervisorProofs`: `TypeCorrect` and `BatchShapeHolds`. The key
  invariant is `BatchShape`: an engine before the current batch is settled with no
  task, an engine after it is untouched, and inside the batch the stage (`pc`), the
  task, the registry state and the process fit together (`InBatch`). None of
  the safety properties is inductive without it: `BatchedStart`, for one, is
  preserved by `FinishBatch` only because a task that is over leaves its engine
  "ready" or "failed". The preservation proof has one step per action.
  From it `BatchedStartHolds` (the bound on the engines that
  start at once by the cardinality of an interval), `NoRestartHolds` (an action
  property), `ReadyPhaseHolds`, `CleanExitHolds` and `OrphansHolds` (together `Calm`),
  `NoOrphansHolds` under the hypothesis `~WriteFaults`, which finding 1 shows to be
  needed, and `DesiredHolds`. The last section is about single steps: an engine is
  withdrawn only when it fails and for good (`WithdrawnStep`), and a head's launch
  needs the barrier (`LaunchStep`).
- `NodeProofs`, first the supervisor alone: `ImplementsDeploymentSafely`, the safety part
  of the refinement: every step of the primary is a step of `Deployment` or a stutter. It
  needs `StageShape`, which ties the announced phase to the position of the coroutine, and
  `BatchShape` for "a batch is never left half-way". Then the node:
  `NodeImplementsPrimary` (the supervisor's steps in a node are the supervisor's own, so
  every theorem above holds there too), `NodeTypeCorrect`, and two results about the file.
  `FileImplementsDeployment` is the same refinement with the engines and the phase of the
  *file* in place of the supervisor's: a reader that looks whenever it likes sees a
  behaviour of `Deployment`, although the file may be a former life's at first and lags
  behind for ever once the loop hangs. `HealthyHolds` is that a verdict of "healthy" was
  true. Both rest on `FileShape`: until this life has written the file nothing has started,
  and from then on the file is the supervisor's state unless the loop hangs. The verdict
  also needs `CheckShape`: a check that has passed the probe has seen the service
  complete at that moment, or an engine it has yet to look up is gone for good, so that
  the look-up fails; and `ServedHaveProcess`, that a ready engine was started.
- `WorkerProofs`: `WorkerTypeCorrect`, `ReportHolds` and `NoRelaunch`, for any answers. The
  strengthening is `LaunchShape`: an engine in the gathered launch is one the rank
  did not know, a stop is in progress only while the loop is reaping, a launch that went
  well has a process. Its last section (`RankStep`) sums up what a rank's step may do,
  as the primary sees it.
- `ClusterProofs`: `ReleasedBeforeLaunchHolds`, `StoppedIsFinalHolds` and
  `HeadAfterPeersHolds`, for any number of models, workers, exits and lost polls. Each
  supervisor's invariant comes from the modules above, taken through `INSTANCE`; the
  steps of `Cluster` are shown to be steps of the parts (`Same...`). What relates the two
  sides is `Agreement`: an engine that a rank has been told of or has run is desired or
  withdrawn (`AskedFor`), an answer on its way leaves out only engines that are
  withdrawn, and a report of a running engine, in the primary's hands, on the wire or
  left in an old connection, is of a process that was launched and is there
  unless the engine was withdrawn (`HasPeer`). That withdrawal is for good is what makes
  late reports harmless.
- `ProcessProofs`: `IsAChildHolds` (the refinement of `Child`, from `Lifecycle`),
  `DrainedHolds` and `LinesKeptHolds` for any output, limit and division into reads. The
  invariant of the framing is `Framed`, `Held` and `Emitted`: where the reader is, that what
  is held back is the start of a line or the rest of a long one, and that every piece
  emitted is within a line and everything before the rest is covered. The least and the
  greatest element of a set of positions are obtained from the well-foundedness of the
  naturals rather than by induction over data.
- `RemoteConfigProofs`: `ConfigTypeCorrect`, `RunsWhatItFetchedHolds`, `FileIsWholeHolds` and
  `ParsedHolds`, from what each stage has established (`Established`) and what holds of the
  volume the nodes share (`Shared`).
- `StartupProofs`: for every set of inputs, range of ports, number of models and lives.
  `AcceptedHolds`: the port checks accept only plans that can be bound, with sshd and
  without it. `RaisedHolds`: what they refuse has a clash. `EnginesFitHolds`: what is
  launched fits its node; an adapter that had yet to be downloaded when the configuration
  was checked has no rank above the maximum, if its files name one. `ValidateAgreesHolds`
  and `SshdHolds`. The invariant is `StartShape`: the inputs are what was given (`Given`),
  the checks before the present stage did not raise (`Passed`), a refusal has its reason
  (`Verdicts`), an engine is launched after its preparation (`Launches`), and from the
  validation on the key file is this life's, or after a fault some of it (`Admitted`). The
  one assumption on the inputs is their type (`InputsAssumption`).
- `RouterProofs`: `RouterTypeCorrect` (the index never exceeds its maximum),
  `NothingForgottenHolds`, `FollowUpsHolds` and `NoExpiredRouteHolds`, for any engines, any
  identifiers, finitely many or not, any number of requests, maximum and time to live. The
  lemmas about the dictionary come first: `Only` and `AtEnd` keep `newer` a strict total
  order (`Ordered`), eviction leaves at most the maximum (`EvictBound`, by the entry kept
  that has the most newer ones), and an entry that a `put` drops has expired or is
  followed by a maximum of others (`PutFacts`). The invariant ties the index to the
  history (`EntriesTrue`): an entry's engine is the owner, its deadline that of the last
  put, and what is newer in the index was used since. The last is what makes "evicted"
  imply "a maximum of others used since" although expiry takes entries out of the middle.
  The second half is about `SSEIds`: `ParserTypeCorrect` (the bound of the buffer holds for
  every stream) and `EveryIdHolds`, for any stream, chunks and sizes. The invariant
  `ParserInv` has, as long as events fit, some empty line up to which all is reported
  (`CaughtUp`): the buffer is the rest of the stream without the CRs of its line ends, and
  has no event in it. `NormalisedKept` is why a CR at the end of a chunk does no harm,
  `NothingTrimmed` why nothing that fits is cut, and `FeedCatchesUp` moves the line on.

Assumptions: `N`, `Parallelism`, `MaxModels`, `Maximum`, `TTL` positive (the
configuration's validators and the constructor's defaults), ports in range, a cluster has
a worker (`ClusteredAssumption`), `Limit`
positive; nothing about the size of `Workers`, `Helpers` or `Nodes`, finite or not.

Model-checked only: liveness (out of the prover's reach), including the liveness of
`Deployment`. Every safety property that a run checks has its theorem.

## 6. Not modelled

- `commands.py` (argv and environment), the container image, field validators of the
  configuration (a predicate), the text of progress reports, `/v1/models`, bodies and
  headers: construction of data in one pass, without states that interact.
- State-file writes that fail outside the heartbeat and `_shutdown`: they raise out of the
  task of a gather, whose engine then fails, or out of `run`, which goes to `_shutdown`.
- A worker that restarts within a running cluster. It would report nothing at first,
  which fails its engines at the primary in the next monitor round; what it launches in
  between is left open (`cluster.py:308`).
- The branch of the health check for workers; sshd's configuration test and the host keys,
  which are one outcome each; pids that are reused within one life; steps of the wall
  clock; GPU contention; a router process that hangs (its probe fails in `Node`).
- In `SSEIds`: lone CRs as line ends, and events longer than the 64 KiB kept (their
  identifiers may be missed, `EventsFit`). In `ManagedProcess`: processes that leave the
  group. In `RemoteConfig`: that the rename itself needs a sync of the directory,
  left-over temporary files.
- The protocol's rejections in `cluster.py` (hash, rank, names): the nodes of a
  deployment run one configuration.
- In `Startup`: `--gpu-count` and `--skip-interface-check`, which only replace an input of
  `validate`.
