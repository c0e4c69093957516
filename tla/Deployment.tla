----------------------------- MODULE Deployment -----------------------------
(***************************************************************************)
(* What the state file tells its readers (the router, the health check,    *)
(* `yeetllm status`) about a primary, and all they may rely on: the life   *)
(* of each engine and of the announced phase.  Engines make progress only  *)
(* while the phase is "loading"; from the announcement on, the service can *)
(* only shrink; "ready" is announced once, of a complete service, and      *)
(* withdrawn when it is complete no more.  PrimarySupervisor implements    *)
(* this.                                                                   *)
(***************************************************************************)
EXTENDS Integers

CONSTANT N              \* number of configured models

VARIABLES engine, phase

vars == <<engine, phase>>

Engines == 1..N
Complete == \A i \in Engines : engine[i] = "ready"

Init ==
    /\ engine = [i \in Engines |-> "pending"]
    /\ phase = "starting"

\* The life of an engine.
Onward(from) ==
    CASE from = "pending"   -> {"preparing"}
      [] from = "preparing" -> {"starting", "failed"}
      [] from = "starting"  -> {"ready", "failed"}
      [] OTHER -> {}

Begin == phase = "starting" /\ phase' = "loading" /\ UNCHANGED engine

\* Several engines may move in one step: a batch fails together.
Progress ==
    /\ phase = "loading" /\ UNCHANGED phase
    /\ \E moves \in [Engines -> {"pending", "preparing", "starting", "ready", "failed"}] :
          /\ \A i \in Engines : moves[i] \in {engine[i]} \union Onward(engine[i])
          /\ engine' = moves

\* A batch is never left half-way.
Announce ==
    /\ phase = "loading" /\ UNCHANGED engine
    /\ \A i \in Engines : engine[i] \in {"pending", "ready", "failed"}
    /\ \/ Complete /\ phase' = "ready"
       \/ phase' = "degraded"

\* Engines that served fail, and a complete service is announced as degraded.
Shrink ==
    /\ phase \in {"ready", "degraded"}
    /\ \E lost \in SUBSET {i \in Engines : engine[i] = "ready"} :
          engine' = [i \in Engines |-> IF i \in lost THEN "failed" ELSE engine[i]]
    /\ phase' \in {phase, "degraded"}

Withdraw == phase = "ready" /\ ~Complete /\ phase' = "degraded" /\ UNCHANGED engine

Stop ==
    /\ \/ phase \in {"starting", "ready", "degraded"} /\ phase' = "stopping"
       \/ phase = "stopping" /\ phase' = "stopped"
    /\ UNCHANGED engine

Next == Begin \/ Progress \/ Announce \/ Shrink \/ Withdraw \/ Stop
Spec == Init /\ [][Next]_vars

\* What a reader may wait for: loading comes to an announcement, and an
\* announcement that is no longer true is withdrawn.
Announces == WF_vars(Announce)
Withdraws == WF_vars(Withdraw)
=============================================================================
