-------------------------------- MODULE Node --------------------------------
(***************************************************************************)
(* A primary as its container's health check sees it: PrimarySupervisor,   *)
(* the state file it writes (StateStore in state.py) and two other         *)
(* processes that read the file at moments of their own, the router        *)
(* (readiness in router.py) and the health check (healthcheck.py).  The    *)
(* file may be left from a former life of the container, and the event     *)
(* loop may hang for good, for instance in the fsync of a write.           *)
(***************************************************************************)
EXTENDS PrimarySupervisor

VARIABLES
    file,       \* what the state file holds, without its heartbeat
    age,        \* age of its heartbeat: "fresh" up to 10 s, "late" up to 15 s, "stale"
    hung,       \* has the supervisor's event loop stopped for good?
    check       \* the health check: where it is, whose file it has read, the
                \* next engine, sshd's entry, and (history) what it found served

nodeVars == <<vars, file, age, hung, check>>

\* A former life's file: everything was served, or it was shut down.
Absent == [life |-> "none"]
Former(last, ssh) ==
    [life |-> "former", phase |-> last, engine |-> [i \in Engines |-> "ready"],
     service |-> [s \in Services |-> IF s = "sshd" THEN ssh ELSE "running"]]

\* self.state.data as the readers use it.  A service's entry stays "running"
\* until the monitor has seen the exit.
Snapshot ==
    [life |-> "this", phase |-> phase, engine |-> engine,
     service |-> [s \in Services |->
                     IF service[s] = "exited" THEN "running" ELSE service[s]]]

NoCheck == [at |-> "idle", life |-> "none", next |-> 1, ssh |-> FALSE,
            served |-> FALSE]

NodeTypeOK ==
    /\ file = Absent \/
          /\ file.life \in {"former", "this"}
          /\ file.phase \in {"starting", "loading", "ready", "degraded", "stopping",
                             "stopped"}
          /\ file.engine \in [Engines -> EngineStatus]
          /\ file.service \in [Services -> {"off", "running", "failed"}]
    /\ age \in {"fresh", "late", "stale"}
    /\ hung \in BOOLEAN
    /\ check \in [at : {"idle", "pids", "probe", "engines", "sshd", "healthy",
                        "unhealthy"},
                  life : {"none", "former", "this"}, next : 1..N + 1,
                  ssh : BOOLEAN, served : BOOLEAN]

NodeInit ==
    /\ Init
    /\ file \in {Absent} \union
                {Former(last, ssh) : last \in {"ready", "stopped"}, ssh \in {"off", "running"}}
    /\ age \in {"fresh", "late", "stale"}
    /\ hung = FALSE /\ check = NoCheck

---------------------------------------------------------------------------
(* The supervisor and its file.                                            *)

\* _initialize_state, before anything is started.
InitializeState ==
    /\ file.life # "this"
    /\ file' = Snapshot /\ age' = "fresh"
    /\ UNCHANGED <<vars, hung, check>>

\* What a writer that never returns from write() leaves: the file it has not
\* yet replaced.
Interrupted_InPlace(old) == {[life |-> "torn"]}
Interrupted(old) == {old}

\* Every change of the state is followed by touch() before the next await; the
\* monitor ends each iteration with one.  A touch() that raises leaves the file as
\* it was; a hung loop stops at some touch().
SupervisorStep ==
    /\ file.life = "this" /\ ~hung
    /\ \/ Loop \/ \E i \in Engines : Task(i) \/ StopEngine(i)
       \/ \E s \in Services : StopService(s)
       \/ Signal \/ HeartbeatEnds \/ HeartbeatBreaks
    /\ \/ /\ file' = IF unwritten' = unwritten THEN Snapshot' ELSE file
          /\ UNCHANGED hung
          /\ age' = IF file' # file \/ pc = "probe" THEN "fresh" ELSE age
       \/ /\ file' \in Interrupted(file) /\ hung' = TRUE /\ UNCHANGED age
    /\ UNCHANGED check

\* A child exits and is waited for, by the loop or by a thread of asyncio's.  Under
\* a loop that hangs nobody may wait for it: then this step need not come, and the
\* zombie counts as running here, as it does for a look at /proc.
ChildExits ==
    /\ \/ \E i \in Engines : EngineExits(i)
       \/ \E s \in Services : ServiceExits(s)
    /\ UNCHANGED <<file, age, hung, check>>

\* The heartbeat grows old when nobody renews it: the loop hangs, the heartbeat
\* task is over, or the file is a former life's.
Ages_OwnThread ==
    /\ age # "stale" /\ (heartbeat # "running" \/ file.life # "this")
    /\ age' = IF age = "fresh" THEN "late" ELSE "stale"
    /\ UNCHANGED <<vars, file, hung, check>>
Ages ==
    /\ age # "stale" /\ (hung \/ heartbeat # "running" \/ file.life # "this")
    /\ age' = IF age = "fresh" THEN "late" ELSE "stale"
    /\ UNCHANGED <<vars, file, hung, check>>

---------------------------------------------------------------------------
(* The router's readiness, and the health check.  The check records every  *)
(* failure and goes on; the model ends it at the first, since nothing that *)
(* follows can change its verdict.                                         *)

Ready(state) ==
    /\ state.life \in {"former", "this"}
    /\ state.phase = "ready"
    /\ \A i \in Engines : state.engine[i] = "ready"

\* GET /health/ready, answered by the router from the file as it is then.
Readiness == Ready(file) /\ age = "fresh"

\* What check() requires of the file it has read.
Acceptable(state) ==
    Ready(state) /\ state.service["router"] = "running" /\ state.service["sshd"] # "failed"

\* Does /proc/<pid> exist, for a pid of the file the check has read?  It does until
\* the process has been waited for.  A former life's pid may belong to another
\* process by now, or to none.
PidExists(running) == check.life = "former" \/ running
PidMissing(running) == check.life = "former" \/ ~running

\* What the properties compare the verdict with: this life has announced every
\* engine ready and every engine's process is there.
Serving ==
    /\ file.life = "this" /\ Ready(file)
    /\ \A i \in Engines : PidExists(proc[i] = "running")

Goes(to) ==
    check' = [check EXCEPT !.at = to, !.served = @ \/ Serving,
                           !.next = IF to = "engines" /\ check.at = to THEN @ + 1 ELSE 1]
Fails == check' = [NoCheck EXCEPT !.at = "unhealthy"]
CheckOnly == UNCHANGED <<vars, file, age, hung>>

\* The container, and with it the check, ends with the supervisor.
ReadFile ==
    /\ check.at \in {"idle", "healthy", "unhealthy"} /\ (pc # "exited" \/ hung)
    /\ IF Acceptable(file) /\ age # "stale"
       THEN check' = [at |-> "pids", life |-> file.life, next |-> 1,
                      ssh |-> file.service["sshd"] = "running", served |-> FALSE]
       ELSE Fails
    /\ CheckOnly

\* The supervisor's pid, which lasts as long as the container, and the router's.
CheckPids ==
    /\ check.at = "pids"
    /\ \/ PidExists(service["router"] = "running") /\ Goes("probe")
       \/ PidMissing(service["router"] = "running") /\ Fails
    /\ CheckOnly

\* The readiness probe; a connection may always fail.
ProbeRouter_Skipped ==
    /\ check.at = "probe" /\ Goes("engines") /\ CheckOnly
ProbeRouter ==
    /\ check.at = "probe"
    /\ \/ service["router"] = "running" /\ Readiness /\ Goes("engines")
       \/ Fails
    /\ CheckOnly

CheckEnginePid_None ==
    /\ check.at = "engines" /\ check.next <= N
    /\ Goes("engines") /\ CheckOnly
CheckEnginePid ==
    /\ check.at = "engines" /\ check.next <= N
    /\ \/ PidExists(proc[check.next] = "running") /\ Goes("engines")
       \/ PidMissing(proc[check.next] = "running") /\ Fails
    /\ CheckOnly

EnginesChecked == check.at = "engines" /\ check.next > N /\ Goes("sshd") /\ CheckOnly

\* sshd's pid and its configuration (an external command), if it was enabled.
CheckSshd ==
    /\ check.at = "sshd"
    /\ \/ (check.ssh => PidExists(service["sshd"] = "running")) /\ Goes("healthy")
       \/ check.ssh /\ Fails
    /\ CheckOnly

HealthCheck ==
    ReadFile \/ CheckPids \/ ProbeRouter \/ CheckEnginePid \/ EnginesChecked \/ CheckSshd

NodeNext ==
    \/ InitializeState \/ SupervisorStep \/ ChildExits \/ Ages \/ HealthCheck
    \/ Terminated /\ UNCHANGED <<file, age, hung, check>>

NodeSpec == NodeInit /\ [][NodeNext]_nodeVars

\* Fairness: time passes, and Docker repeats the check (Dockerfile:92).
NodeFairSpec == NodeSpec /\ WF_nodeVars(Ages) /\ WF_nodeVars(HealthCheck)

---------------------------------------------------------------------------
(* Properties.                                                             *)

\* The verdict "healthy" is put together from a file read at one moment, a
\* probe at another and processes looked up at others (healthcheck.py:16-82).
\* It was true all the same, all of it at one of those moments: this life had
\* announced every engine ready and, unless the check had begun with a former
\* life's file, every engine's process was there, or a zombie at least, which
\* nobody had waited for because the loop hung already (HangIsNoticed).
HealthyMeansServing == check.at = "healthy" => check.served

\* A supervisor that hangs, in whatever it was doing, makes the node unhealthy
\* for good (healthcheck.py:25, router.py:310).
HangIsNoticed == hung ~> [](check.at # "healthy")
=============================================================================
