------------------------------ MODULE Startup ------------------------------
(***************************************************************************)
(* `yeetllm serve` on one node, from the configuration in hand to engines: *)
(* detect_cluster, the registry and port checks of PortPlan, the checks of *)
(* Supervisor.__init__ and run, then SSH and the engines' adapters.  The   *)
(* node may die anywhere and be started again.                             *)
(***************************************************************************)
EXTENDS PortPlan, SSH

CONSTANTS
    Families,       \* bound: the nodes and configurations considered, in sets
    SshChoices(_),  \* bound: the SSH settings considered with one of them
    MaxLives,       \* bound: starts of the node
    None

VARIABLES
    host,       \* the node: its GPUs, its volume, its RunPod variables
    config,     \* the configuration, but for its ports
    engines,    \* what _prepare_model comes to for each
    probed,     \* installed_quantization_methods names the methods vLLM has
    lives

hostVars == <<host, config, engines, lives>>
allVars == <<vars, sshVars, hostVars, probed>>

Hosts == [gpus : Nat, writable : BOOLEAN, mode : {"auto", "off", "runpod"},
          keys : {"none", "some", "all"}, agree : BOOLEAN, nodes : Nat \ {0},
          rank : Nat, trainers : Nat \ {0}, ens1 : BOOLEAN]

\* A local adapter can be read when the configuration is checked, one on the hub
\* only when it has been downloaded.  The rank is unknown where the directory has no
\* adapter_config.json, or this has no integer in it.
Adapters == [from : {"local", "hub"},
             rank : {"fits", "exceeds", "unreadable", "unknown"}]

ASSUME InputsAssumption ==
    \A Inputs \in Families : \A in \in Inputs :
        /\ in = [plan |-> in.plan, host |-> in.host, config |-> in.config]
        /\ in.plan \in Plans /\ in.host \in Hosts
        /\ in.config.shared \in BOOLEAN
        /\ \A i \in 1..in.plan.models :
              /\ in.config.models[i].gpus \in SUBSET Nat
              /\ in.config.models[i].adapter \in Adapters \union {None}
        /\ \A c \in SshChoices(in) :
              c.enable \in {"on", "off", "auto"} /\ c.offered \in Offers

---------------------------------------------------------------------------
(* The checks.                                                             *)

model == config.models

\* validate_global_ids_and_gpus, when the configuration is parsed.
GpusClash ==
    /\ ~config.shared
    /\ \E i, j \in 1..plan.models : i # j /\ model[i].gpus \intersect model[j].gpus # {}

\* detect_cluster: RunPod's ten variables must all be there and agree, and the
\* node's address must be one of the cluster interface.
Enabled(h) ==
    /\ h.mode # "off" /\ h.keys = "all"
    /\ h.nodes > 1 \/ h.mode = "runpod"

EnvironmentRaises(h) ==
    /\ h.mode # "off"
    /\ \/ h.keys = "none" /\ h.mode = "runpod"
       \/ h.keys = "some"
       \/ h.keys = "all" /\ (~h.agree \/ h.rank >= h.nodes)
       \/ Enabled(h) /\ ~h.ens1

NodeCount(h) == IF Enabled(h) THEN h.nodes ELSE 1
Primary(h) == Enabled(h) => h.rank = 0

TrainersDisagree(h) == Enabled(h) /\ h.gpus # h.trainers

\* local_adapter_rank against max_lora_rank: an unknown rank passes, both before and
\* after a download.
OnHub(adapter) == adapter # None /\ adapter.from = "hub"
RankRaises(adapter) == adapter # None /\ adapter.rank \in {"exceeds", "unreadable"}

\* validate_runtime; quantizations are checked if probing vLLM for them succeeded.
RuntimeRaises(h, known) ==
    \E i \in 1..plan.models :
        \/ \E g \in model[i].gpus : g >= h.gpus
        \/ model[i].world # Cardinality(model[i].gpus) * NodeCount(h)
        \/ RankRaises(model[i].adapter) /\ ~OnHub(model[i].adapter)
        \/ known /\ ~model[i].registered

\* `yeetllm validate` on the same node (validate_command), which probes vLLM itself.
ValidateRefuses(known) ==
    \/ GpusClash \/ EnvironmentRaises(host) \/ DetectRaises(plan)
    \/ host.gpus < 1 \/ TrainersDisagree(host)
    \/ RegistryRaises(plan) \/ ClusterRaises(plan) \/ RuntimeRaises(host, known)

---------------------------------------------------------------------------
(* The start of a node.                                                    *)

StartInit ==
    /\ \E Inputs \in Families : \E in \in Inputs :
          /\ plan = in.plan /\ host = in.host /\ config = in.config
          /\ engines = [i \in 1..in.plan.models |-> "pending"]
          /\ \E c \in SshChoices(in) : enable = c.enable /\ offered = c.offered
    /\ step = "detect" /\ keyfile = {} /\ sshd = "none" /\ fault = FALSE
    /\ probed = FALSE /\ lives = 1

Refuse == step' = "refused" /\ UNCHANGED plan

LoadAndDetect ==
    /\ step = "detect"
    /\ IF GpusClash \/ EnvironmentRaises(host) THEN Refuse ELSE Detect
    /\ UNCHANGED <<sshVars, hostVars, probed>>

\* discover_gpu_count finds a GPU or raises.
CountGpus ==
    /\ step = "registry"
    /\ IF host.gpus < 1 THEN Refuse ELSE BuildRegistry
    /\ UNCHANGED <<sshVars, hostVars, probed>>

\* _prepare_directories, then the first check of _validate.
PrepareDirectories ==
    /\ step = "cluster"
    /\ IF ~host.writable THEN Refuse ELSE ValidateClusterPorts
    /\ UNCHANGED <<sshVars, hostVars, probed>>

Validate_NoTrainers ==
    /\ step = "accepted" /\ probed' \in BOOLEAN
    /\ IF RuntimeRaises(host, probed')
       THEN Refuse /\ UNCHANGED sshd
       ELSE /\ step' = IF Primary(host) THEN "ssh" ELSE "serving"
            /\ sshd' = IF Primary(host) THEN "due" ELSE "none"
            /\ UNCHANGED plan
    /\ UNCHANGED <<enable, offered, keyfile, fault, hostVars>>
Validate ==
    /\ step = "accepted" /\ probed' \in BOOLEAN
    /\ IF TrainersDisagree(host) \/ RuntimeRaises(host, probed')
       THEN Refuse /\ UNCHANGED sshd
       ELSE /\ step' = IF Primary(host) THEN "ssh" ELSE "serving"
            /\ sshd' = IF Primary(host) THEN "due" ELSE "none"
            /\ UNCHANGED plan
    /\ UNCHANGED <<enable, offered, keyfile, fault, hostVars>>

\* A RuntimeValidationError or an OSError of prepare_ssh ends `yeetllm serve` as those
\* of the checks do, with status 2; sshd itself failing ends it otherwise.
Ssh ==
    /\ step = "ssh" /\ StartSsh
    /\ step' = CASE sshd' \in {"on", "off"} -> "serving"
                 [] sshd' \in {"refused", "failed"} -> sshd'
                 [] OTHER -> "ssh"
    /\ UNCHANGED <<plan, hostVars, probed>>

\* resolve_model_adapters: a download may fail, and what it brings is checked.
Prepare_Trusting(i) ==
    /\ step = "serving" /\ engines[i] = "pending"
    /\ \/ engines' = [engines EXCEPT ![i] = "launched"]
       \/ /\ OnHub(model[i].adapter)
          /\ engines' = [engines EXCEPT ![i] = "failed"]
    /\ UNCHANGED <<vars, sshVars, host, config, lives, probed>>
Prepare(i) ==
    /\ step = "serving" /\ engines[i] = "pending"
    /\ \/ /\ ~RankRaises(model[i].adapter)
          /\ engines' = [engines EXCEPT ![i] = "launched"]
       \/ /\ RankRaises(model[i].adapter) \/ OnHub(model[i].adapter)
          /\ engines' = [engines EXCEPT ![i] = "failed"]
    /\ UNCHANGED <<vars, sshVars, host, config, lives, probed>>

\* The container dies; the next one finds the same node and configuration, and
\* whatever the first left in its file system.
StartAgain ==
    /\ lives < MaxLives /\ lives' = lives + 1
    /\ step' = "detect" /\ sshd' = "none" /\ fault' = FALSE /\ probed' = FALSE
    /\ engines' = [i \in DOMAIN engines |-> "pending"]
    /\ \E c \in SshChoices([plan |-> plan, host |-> host, config |-> config]) :
          enable' = c.enable /\ offered' = c.offered
    /\ UNCHANGED <<plan, keyfile, host, config>>

StartNext ==
    \/ LoadAndDetect \/ CountGpus \/ PrepareDirectories \/ Validate \/ Ssh
    \/ \E i \in DOMAIN engines : Prepare(i)
    \/ StartAgain

StartSpec == StartInit /\ [][StartNext]_allVars

---------------------------------------------------------------------------

\* Engines never get a GPU the node lacks or another engine uses, a world of
\* another size than their GPUs, or an adapter whose files name a rank above
\* max_lora_rank or cannot be read: what cannot be known before the download is
\* checked after it (config.py:331-349, 643-678, adapters.py:26-34).  An adapter
\* whose files name no rank is left to vLLM.
EnginesFit ==
    \A i \in DOMAIN engines : engines[i] = "launched" =>
        /\ \A g \in model[i].gpus : g < host.gpus
        /\ model[i].world = Cardinality(model[i].gpus) * NodeCount(host)
        /\ Enabled(host) => host.gpus = host.trainers
        /\ model[i].adapter = None \/ model[i].adapter.rank \in {"fits", "unknown"}
        /\ \A j \in DOMAIN engines : engines[j] = "launched" /\ i # j =>
              \/ config.shared
              \/ model[i].gpus \intersect model[j].gpus = {}

\* `yeetllm validate` and `yeetllm serve` run the same checks in an order of their
\* own (cli.py:74-103, supervisor.py:62-106): when probing vLLM comes to the same for
\* both, what one accepts the other does not refuse, except for what validate never
\* looks at: the volume, the file system of the keys, and on the primary whether SSH
\* is demanded without a usable key list (ssh.py:60-65, 77-80, 92-96).
ValidateAgrees ==
    /\ step \in {"refused", "raised"} =>
          \/ ValidateRefuses(probed)
          \/ ~host.writable \/ fault
          \/ Primary(host) /\ enable = "on" /\ ~IsKeyList(Selected)
    /\ step \in {"ssh", "serving", "failed"} => ~ValidateRefuses(probed)
=============================================================================
