---------------------------- MODULE StartupProofs ----------------------------
(***************************************************************************)
(* Theorems about the start of a node, for every range of ports, number of *)
(* models and lives, and any set of nodes, configurations and SSH settings *)
(* to choose from: the checks accept no plan with a port clash and refuse  *)
(* none without one, what they accept fits the node, and sshd admits this  *)
(* life's keys only.                                                       *)
(***************************************************************************)
EXTENDS Startup, TLAPS

USE PortAssumption, ModelsAssumption

---------------------------------------------------------------------------
(* The port checks.                                                        *)

\* Every port exists, and no two owners are assigned the same.
Distinct(c) ==
    /\ \A o \in Owners(c) : PortOf(c, o) \in Ports
    /\ \A o, p \in Owners(c) : o # p => PortOf(c, o) # PortOf(c, p)

\* What an owner of a port is, and its port.
LEMMA OwnerPort ==
    ASSUME NEW c \in Plans, NEW l \in Owners(c)
    PROVE  \/ l = <<"router", 0>> /\ PortOf(c, l) = c.server
           \/ l = <<"sshd", 0>> /\ PortOf(c, l) = c.ssh
           \/ \E k \in 0..c.models - 1 :
                l = <<"engine", k>> /\ PortOf(c, l) = FirstPort + k
           \/ c.clustered /\ l = <<"control", 0>> /\ PortOf(c, l) = ControlPort(c)
           \/ c.clustered /\ \E k \in 0..c.models - 1 :
                l = <<"rendezvous", k>> /\ PortOf(c, l) = RendezvousBase(c) + k
BY DEF Owners, PortOf

\* The numbers a plan is made of.
LEMMA PlanType ==
    ASSUME NEW c \in Plans
    PROVE  /\ c.models \in Nat \ {0} /\ c.server \in Ports /\ c.ssh \in Ports
           /\ ControlPort(c) \in Ports /\ RendezvousBase(c) \in Nat \ {0}
           /\ c.clustered \in BOOLEAN
BY DEF Plans, Ports, ControlPort, RendezvousBase

\* A plan no check raises for is free of clashes.
LEMMA UncheckedIsDistinct ==
    ASSUME NEW c \in Plans, ~RegistryRaises(c), ~ClusterRaises(c)
    PROVE  Distinct(c)
<1>1. /\ FirstPort + c.models - 1 <= MaxPort
      /\ c.server # c.ssh
      /\ \A k \in 0..c.models - 1 : c.server # FirstPort + k /\ c.ssh # FirstPort + k
      BY PlanType DEF RegistryRaises, EnginePorts, Ports
<1>2. ASSUME c.clustered
      PROVE  /\ RendezvousLast(c) <= MaxPort
             /\ ControlPort(c) \notin {c.server, c.ssh}
             /\ \A k \in 0..c.models - 1 :
                    /\ ControlPort(c) # RendezvousBase(c) + k
                    /\ ControlPort(c) # FirstPort + k
                    /\ RendezvousBase(c) + k \notin {c.server, c.ssh}
                    /\ \A j \in 0..c.models - 1 : RendezvousBase(c) + k # FirstPort + j
  <2>1. RendezvousLast(c) \in Int /\ RendezvousLast(c) <= MaxPort
        BY <1>2, PlanType DEF ClusterRaises, RendezvousLast
  <2>2. \A k \in 0..c.models - 1 :
            /\ RendezvousBase(c) + k \in RendezvousBase(c)..RendezvousLast(c)
            /\ FirstPort + k \in EnginePorts(c)
        BY PlanType DEF RendezvousLast, EnginePorts
  <2>3. ControlPort(c) \notin RendezvousBase(c)..RendezvousLast(c)
        BY <1>2 DEF ClusterRaises
  <2>4. \A p \in {ControlPort(c)} \union RendezvousBase(c)..RendezvousLast(c) :
            p \notin {c.server, c.ssh} /\ p \notin EnginePorts(c)
        BY <1>2 DEF ClusterRaises, Reserved
  <2> QED BY <2>1, <2>2, <2>3, <2>4
<1>3. ASSUME NEW l \in Owners(c) PROVE PortOf(c, l) \in Ports
      BY <1>1, <1>2, <1>3, OwnerPort, PlanType DEF RendezvousLast, Ports
<1>4. ASSUME NEW l \in Owners(c), NEW m \in Owners(c), PortOf(c, l) = PortOf(c, m)
      PROVE  l = m
  <2>1. CASE l = <<"router", 0>> /\ PortOf(c, l) = c.server
        BY <2>1, <1>1, <1>2, <1>4, OwnerPort, PlanType DEF Ports
  <2>2. CASE l = <<"sshd", 0>> /\ PortOf(c, l) = c.ssh
        BY <2>2, <1>1, <1>2, <1>4, OwnerPort, PlanType DEF Ports
  <2>3. ASSUME NEW k \in 0..c.models - 1, l = <<"engine", k>>,
               PortOf(c, l) = FirstPort + k
        PROVE  l = m
        BY <2>3, <1>1, <1>2, <1>4, OwnerPort, PlanType DEF Ports
  <2>4. CASE c.clustered /\ l = <<"control", 0>> /\ PortOf(c, l) = ControlPort(c)
        BY <2>4, <1>1, <1>2, <1>4, OwnerPort, PlanType DEF Ports
  <2>5. ASSUME c.clustered, NEW k \in 0..c.models - 1, l = <<"rendezvous", k>>,
               PortOf(c, l) = RendezvousBase(c) + k
        PROVE  l = m
        BY <2>5, <1>1, <1>2, <1>4, OwnerPort, PlanType DEF Ports
  <2> QED BY <2>1, <2>2, <2>3, <2>4, <2>5, OwnerPort
<1> QED BY <1>3, <1>4 DEF Distinct

\* What has no clash can be bound, with sshd or without.
LEMMA DistinctBinds ==
    ASSUME NEW c \in Plans, NEW ssh \in BOOLEAN, Distinct(c)
    PROVE  Binds(c, ssh)
<1>1. Listeners(c, ssh) \subseteq Owners(c)
      BY DEF Listeners
<1> QED BY <1>1 DEF Binds, Distinct

\* A plan some check raises for is not free of clashes.
LEMMA RaisesIsNotDistinct ==
    ASSUME NEW c \in Plans, DetectRaises(c) \/ RegistryRaises(c) \/ ClusterRaises(c)
    PROVE  ~Distinct(c)
<1> SUFFICES ASSUME Distinct(c) PROVE FALSE
    OBVIOUS
<1> DEFINE Index == 0..c.models - 1
<1> USE DEF Index
<1>1. /\ <<"router", 0>> \in Owners(c) /\ PortOf(c, <<"router", 0>>) = c.server
      /\ <<"sshd", 0>> \in Owners(c) /\ PortOf(c, <<"sshd", 0>>) = c.ssh
      /\ \A k \in Index : /\ <<"engine", k>> \in Owners(c)
                          /\ PortOf(c, <<"engine", k>>) = FirstPort + k
      BY DEF Owners, PortOf
<1>2. ASSUME c.clustered
      PROVE  /\ <<"control", 0>> \in Owners(c)
             /\ PortOf(c, <<"control", 0>>) = ControlPort(c)
             /\ \A k \in Index : /\ <<"rendezvous", k>> \in Owners(c)
                                 /\ PortOf(c, <<"rendezvous", k>>) = RendezvousBase(c) + k
      BY <1>2 DEF Owners, PortOf
<1>3. ASSUME NEW l \in Owners(c), NEW m \in Owners(c), PortOf(c, l) = PortOf(c, m)
      PROVE  l = m
      BY <1>3 DEF Distinct
<1>4. \A l \in Owners(c) : PortOf(c, l) \in 1..MaxPort
      BY DEF Distinct, Ports
<1>5. ASSUME NEW k \in Index PROVE FirstPort + k <= MaxPort
  <2>1. FirstPort + k \in 1..MaxPort
        BY <1>1, <1>4
  <2> QED BY <2>1
<1>6. ASSUME c.clustered, NEW k \in Index PROVE RendezvousBase(c) + k <= MaxPort
  <2>1. RendezvousBase(c) + k \in 1..MaxPort
        BY <1>2, <1>4, <1>6
  <2> QED BY <2>1
<1>7. ASSUME c.clustered
       PROVE  /\ ControlPort(c) # c.server /\ ControlPort(c) # c.ssh
              /\ \A k \in Index : /\ ControlPort(c) # FirstPort + k
                                  /\ RendezvousBase(c) + k # c.server
                                  /\ RendezvousBase(c) + k # c.ssh
  <2>1. ControlPort(c) # c.server /\ ControlPort(c) # c.ssh
        BY <1>1, <1>2, <1>3, <1>7
  <2>2. ASSUME NEW k \in Index PROVE ControlPort(c) # FirstPort + k
        BY <1>1, <1>2, <1>3, <1>7
  <2>3. ASSUME NEW k \in Index
        PROVE  RendezvousBase(c) + k # c.server /\ RendezvousBase(c) + k # c.ssh
        BY <1>1, <1>2, <1>3, <1>7
  <2> QED BY <2>1, <2>2, <2>3
<1>8. ASSUME c.clustered, NEW k \in Index, NEW j \in Index
       PROVE  RendezvousBase(c) + k # FirstPort + j
  <2>1. <<"rendezvous", k>> # <<"engine", j>>
        OBVIOUS
  <2>2. /\ <<"rendezvous", k>> \in Owners(c) /\ <<"engine", j>> \in Owners(c)
        /\ PortOf(c, <<"rendezvous", k>>) = RendezvousBase(c) + k
        /\ PortOf(c, <<"engine", j>>) = FirstPort + j
        BY <1>1, <1>2, <1>8
  <2>3. PortOf(c, <<"rendezvous", k>>) # PortOf(c, <<"engine", j>>)
        BY <2>1, <2>2, <1>3, Zenon
  <2> QED BY <2>2, <2>3
<1>9. c.models - 1 \in Index /\ 0 \in Index
      BY PlanType
<1>10. ~RegistryRaises(c)
  <2>1. FirstPort + (c.models - 1) <= MaxPort /\ c.models \in Nat
        BY <1>9, <1>5, PlanType
  <2>2. c.server # c.ssh
        BY <1>1, <1>3
  <2>3. ASSUME NEW p \in EnginePorts(c), p = c.server \/ p = c.ssh PROVE FALSE
    <3>1. PICK k \in Index : p = FirstPort + k
      <4>1. p - FirstPort \in Index /\ p = FirstPort + (p - FirstPort)
            BY PlanType DEF EnginePorts
      <4> QED BY <4>1
    <3> QED BY <3>1, <2>3, <1>1, <1>3
  <2> QED BY <2>1, <2>2, <2>3, PlanType DEF RegistryRaises
<1>11. ~DetectRaises(c)
  <2>1. c.clustered => RendezvousBase(c) + 0 <= MaxPort
        BY <1>9, <1>6
  <2> QED BY <2>1, PlanType DEF DetectRaises
<1>12. ~ClusterRaises(c)
  <2> SUFFICES ASSUME c.clustered, ClusterRaises(c) PROVE FALSE
      BY DEF ClusterRaises
  <2>1. RendezvousLast(c) <= MaxPort
    <3>1. RendezvousBase(c) + (c.models - 1) <= MaxPort
          BY <1>9, <1>6
    <3> QED BY <3>1, PlanType DEF RendezvousLast
  <2>2. ASSUME NEW p \in RendezvousBase(c)..RendezvousLast(c)
        PROVE  \E k \in Index : p = RendezvousBase(c) + k
    <3>1. /\ p - RendezvousBase(c) \in Index
          /\ p = RendezvousBase(c) + (p - RendezvousBase(c))
          BY PlanType DEF RendezvousLast
    <3> QED BY <3>1
  <2>3. ASSUME NEW p \in EnginePorts(c)
        PROVE  \E k \in Index : p = FirstPort + k
    <3>1. p - FirstPort \in Index /\ p = FirstPort + (p - FirstPort)
          BY PlanType DEF EnginePorts
    <3> QED BY <3>1
  <2>4. ControlPort(c) \notin RendezvousBase(c)..RendezvousLast(c)
        BY <2>2, <1>2, <1>3
  <2>5. ControlPort(c) \notin Reserved(c)
        BY <2>3, <1>7 DEF Reserved
  <2>6. ASSUME NEW p \in RendezvousBase(c)..RendezvousLast(c) PROVE p \notin Reserved(c)
    <3>1. PICK k \in Index : p = RendezvousBase(c) + k
          BY <2>2
    <3> QED BY <3>1, <2>3, <1>7, <1>8 DEF Reserved
  <2>7. ~(RendezvousLast(c) > MaxPort)
        BY <2>1, PlanType DEF RendezvousLast
  <2>8. ({ControlPort(c)} \union RendezvousBase(c)..RendezvousLast(c))
            \intersect Reserved(c) = {}
        BY <2>5, <2>6
  <2> QED BY <2>4, <2>7, <2>8 DEF ClusterRaises
<1> QED BY <1>10, <1>11, <1>12

---------------------------------------------------------------------------
(* How far a node has come.                                                *)

\* The inputs a node was given stay what they are.
Given ==
    /\ \E Inputs \in Families : [plan |-> plan, host |-> host, config |-> config] \in Inputs
    /\ DOMAIN engines = 1..plan.models

LEMMA GivenType ==
    ASSUME Given
    PROVE  /\ plan \in Plans /\ host \in Hosts
           /\ \A i \in 1..plan.models : /\ model[i].gpus \in SUBSET Nat
                                       /\ model[i].adapter \in Adapters \union {None}
           /\ \A c \in SshChoices([plan |-> plan, host |-> host, config |-> config]) :
                 c.enable \in {"on", "off", "auto"}
BY InputsAssumption DEF Given, model

\* What each check has established when the next one is due, and what a verdict
\* stands for.
Passed ==
    /\ step \in {"registry", "cluster", "accepted", "ssh", "serving", "failed"}
          => ~GpusClash /\ ~EnvironmentRaises(host) /\ ~DetectRaises(plan)
    /\ step \in {"cluster", "accepted", "ssh", "serving", "failed"}
          => ~(host.gpus < 1) /\ ~RegistryRaises(plan)
    /\ step \in {"accepted", "ssh", "serving", "failed"}
          => host.writable /\ ~ClusterRaises(plan)
    /\ step \in {"ssh", "serving", "failed"}
          => ~TrainersDisagree(host) /\ ~RuntimeRaises(host, probed)

KeysRefused == fault \/ (Primary(host) /\ enable = "on" /\ ~IsKeyList(Selected))
Verdicts ==
    /\ step = "raised" => DetectRaises(plan) \/ RegistryRaises(plan) \/ ClusterRaises(plan)
    /\ step = "refused" => ValidateRefuses(probed) \/ ~host.writable \/ KeysRefused

\* Only the primary starts sshd.
SshOnPrimary == step = "ssh" => Primary(host)

\* An engine is launched by a node that serves, with an adapter that fits.
Launches ==
    \A i \in DOMAIN engines :
        engines[i] = "launched" => step = "serving" /\ ~RankRaises(model[i].adapter)

\* From the selected keys to the daemon.
Admitted ==
    /\ enable \in {"on", "off", "auto"} /\ fault \in BOOLEAN
    /\ sshd \in {"write", "validate", "start", "on"} => enable # "off"
    /\ sshd \in {"validate", "start", "on"} =>
          /\ keyfile \subseteq Selected \union {"garbage"}
          /\ keyfile = Selected \/ fault
    /\ sshd \in {"start", "on"} => IsKeyList(keyfile)
    /\ sshd = "off" =>
          \/ enable = "off"
          \/ enable = "auto" /\ (fault \/ ~IsKeyList(Selected))
    /\ sshd = "refused" => fault \/ (enable = "on" /\ ~IsKeyList(Selected))

StartShape == Given /\ Passed /\ Verdicts /\ SshOnPrimary /\ Launches /\ Admitted

LEMMA StartShapeInit == StartInit => StartShape
<1> SUFFICES ASSUME StartInit PROVE StartShape
    OBVIOUS
<1>0. PICK Inputs \in Families : \E in \in Inputs :
          /\ plan = in.plan /\ host = in.host /\ config = in.config
          /\ engines = [i \in 1..in.plan.models |-> "pending"]
          /\ \E c \in SshChoices(in) : enable = c.enable /\ offered = c.offered
      BY DEF StartInit
<1>1. PICK in \in Inputs :
          /\ plan = in.plan /\ host = in.host /\ config = in.config
          /\ engines = [i \in 1..in.plan.models |-> "pending"]
          /\ \E c \in SshChoices(in) : enable = c.enable /\ offered = c.offered
      BY <1>0
<1>2. Given
      BY <1>1, InputsAssumption DEF Given
<1>3. enable \in {"on", "off", "auto"}
      BY <1>1, InputsAssumption
<1>4. step = "detect" /\ sshd = "none" /\ fault = FALSE
      BY DEF StartInit
<1>5. Launches
      BY <1>1 DEF Launches
<1> QED BY <1>2, <1>3, <1>4, <1>5 DEF StartShape, Passed, Verdicts, SshOnPrimary, Admitted

\* No step changes the inputs, so none changes what the checks say of them.
LEMMA InputsStay ==
    ASSUME [StartNext]_allVars
    PROVE  UNCHANGED <<plan, host, config>> /\ DOMAIN engines' = DOMAIN engines
BY DEF StartNext, LoadAndDetect, Detect, CountGpus, BuildRegistry, PrepareDirectories,
       ValidateClusterPorts, Check, Refuse, Validate, Ssh, Prepare, StartAgain, allVars,
       vars, hostVars

LEMMA VerdictsStay ==
    ASSUME UNCHANGED <<plan, host, config>>
    PROVE  /\ GpusClash' = GpusClash /\ EnvironmentRaises(host)' = EnvironmentRaises(host)
           /\ TrainersDisagree(host)' = TrainersDisagree(host)
           /\ RuntimeRaises(host, probed)' = RuntimeRaises(host, probed')
           /\ ValidateRefuses(probed)' = ValidateRefuses(probed')
           /\ model' = model /\ Primary(host)' = Primary(host)
BY DEF GpusClash, EnvironmentRaises, TrainersDisagree, RuntimeRaises, ValidateRefuses,
       model, Primary

LEMMA CheckedNext ==
    ASSUME Passed, Verdicts, SshOnPrimary, Admitted', [StartNext]_allVars
    PROVE  Passed' /\ Verdicts' /\ SshOnPrimary'
<1>1. UNCHANGED <<plan, host, config>>
      BY InputsStay
<1>2. \/ UNCHANGED <<step, probed, sshVars>> \/ step' = "detect"
      \/ LoadAndDetect \/ CountGpus \/ PrepareDirectories \/ Validate \/ Ssh
      BY DEF StartNext, Prepare, StartAgain, allVars, vars
<1>3. UNCHANGED sshVars => KeysRefused' = KeysRefused
      BY <1>1, VerdictsStay DEF KeysRefused, sshVars, Selected, IsKeyList
<1> USE <1>1, VerdictsStay DEF Passed, Verdicts, SshOnPrimary
<1>4. CASE UNCHANGED <<step, probed, sshVars>> \/ step' = "detect"
      BY <1>3, <1>4
<1>5. CASE LoadAndDetect
      BY <1>5 DEF LoadAndDetect, Refuse, Detect, Check, ValidateRefuses
<1>6. CASE CountGpus
      BY <1>6 DEF CountGpus, Refuse, BuildRegistry, Check, ValidateRefuses
<1>7. CASE PrepareDirectories
      BY <1>7 DEF PrepareDirectories, Refuse, ValidateClusterPorts, Check
<1>8. CASE Validate
      BY <1>8 DEF Validate, Refuse, ValidateRefuses
<1>9. CASE Ssh
  <2>1. step = "ssh" /\ UNCHANGED probed /\ step' \in {"ssh", "serving", "failed", "refused"}
        BY <1>9 DEF Ssh
  <2>2. step' = "refused" => sshd' = "refused"
        BY <1>9 DEF Ssh
  <2>3. step' = "refused" => KeysRefused'
        BY <2>1, <2>2 DEF Admitted, KeysRefused
  <2> QED BY <2>1, <2>3
<1> QED BY <1>2, <1>4, <1>5, <1>6, <1>7, <1>8, <1>9

LEMMA LaunchesNext ==
    ASSUME Launches, [StartNext]_allVars PROVE Launches'
<1>1. UNCHANGED <<plan, host, config>> /\ DOMAIN engines' = DOMAIN engines
      BY InputsStay
<1> USE <1>1, VerdictsStay DEF Launches
<1>2. CASE LoadAndDetect \/ CountGpus \/ PrepareDirectories \/ Validate
      BY <1>2 DEF LoadAndDetect, CountGpus, PrepareDirectories, Validate, hostVars
<1>3. CASE Ssh
      BY <1>3 DEF Ssh, hostVars
<1>4. ASSUME NEW i \in DOMAIN engines, Prepare(i) PROVE Launches'
      BY <1>4 DEF Prepare, vars
<1>5. CASE StartAgain
      BY <1>5 DEF StartAgain
<1>6. CASE UNCHANGED allVars
      BY <1>6 DEF allVars, vars, hostVars
<1> QED BY <1>2, <1>3, <1>4, <1>5, <1>6 DEF StartNext

LEMMA AdmittedStep ==
    ASSUME Admitted, StartSsh PROVE Admitted'
<1> USE DEF Admitted
<1>1. enable' = enable /\ Selected' = Selected
  <2>1. UNCHANGED <<enable, offered>>
        BY DEF StartSsh, SelectKeys, WriteKeys, ValidateKeys, StartSshd, FileFails
  <2> QED BY <2>1 DEF Selected
<1>2. CASE SelectKeys
      BY <1>1, <1>2 DEF SelectKeys, Reject, IsKeyList
<1>3. CASE WriteKeys
      BY <1>1, <1>3 DEF WriteKeys
<1>4. CASE ValidateKeys
      BY <1>1, <1>4 DEF ValidateKeys, Reject, IsKeyList
<1>5. CASE StartSshd
      BY <1>1, <1>5 DEF StartSshd, IsKeyList
<1>6. CASE FileFails
      BY <1>1, <1>6 DEF FileFails
<1> QED BY <1>2, <1>3, <1>4, <1>5, <1>6 DEF StartSsh

LEMMA AdmittedNext ==
    ASSUME Given, Admitted, [StartNext]_allVars PROVE Admitted'
<1>1. CASE UNCHANGED sshVars
      BY <1>1 DEF sshVars, Admitted, Selected, IsKeyList
<1>2. CASE Validate
  <2>1. /\ enable' = enable /\ sshd' \in {sshd, "due", "none"}
        /\ UNCHANGED <<keyfile, offered, fault>>
        BY <1>2 DEF Validate
  <2>2. Selected' = Selected
        BY <2>1 DEF Selected
  <2> QED BY <2>1, <2>2 DEF Admitted, IsKeyList
<1>3. CASE Ssh
      BY <1>3, AdmittedStep DEF Ssh
<1>4. CASE StartAgain
      BY <1>4, GivenType DEF StartAgain, Admitted
<1> QED BY <1>1, <1>2, <1>3, <1>4
        DEF StartNext, LoadAndDetect, CountGpus, PrepareDirectories, Prepare, allVars

LEMMA StartShapeHolds == StartSpec => []StartShape
<1>1. StartInit => StartShape
      BY StartShapeInit
<1>2. StartShape /\ [StartNext]_allVars => StartShape'
  <2> SUFFICES ASSUME StartShape, [StartNext]_allVars PROVE StartShape'
      OBVIOUS
  <2>1. Given'
        BY InputsStay DEF StartShape, Given
  <2>2. Admitted'
        BY AdmittedNext DEF StartShape
  <2> QED BY <2>1, <2>2, CheckedNext, LaunchesNext DEF StartShape
<1> QED BY <1>1, <1>2, PTL DEF StartSpec

---------------------------------------------------------------------------
(* The theorems.                                                           *)

\* An accepted plan (registry.py:56-86, cluster.py:97-141) binds every listener
\* to a port of its own, whether or not sshd is among them.
THEOREM AcceptedHolds == StartSpec => []AcceptedIsUsable
<1>1. StartShape => AcceptedIsUsable
      BY UncheckedIsDistinct, DistinctBinds, GivenType
      DEF StartShape, Passed, AcceptedIsUsable
<1> QED BY <1>1, StartShapeHolds, PTL

\* A plan is refused for a port past the last, or for one assigned to two owners.
THEOREM RaisedHolds == StartSpec => []RaisedNamesAClash
<1>1. StartShape => RaisedNamesAClash
  <2> SUFFICES ASSUME StartShape, step = "raised",
                      \A o \in Owners(plan) : ~(PortOf(plan, o) > MaxPort),
                      \A o, p \in Owners(plan) :
                          o # p => PortOf(plan, o) # PortOf(plan, p)
               PROVE  FALSE
      BY DEF RaisedNamesAClash
  <2>1. plan \in Plans /\ ~Distinct(plan)
        BY RaisesIsNotDistinct, GivenType DEF StartShape, Verdicts
  <2>2. ASSUME NEW o \in Owners(plan) PROVE PortOf(plan, o) \in Nat \ {0}
        BY <2>1, OwnerPort, PlanType DEF Ports
  <2> QED BY <2>1, <2>2 DEF Distinct, Ports
<1> QED BY <1>1, StartShapeHolds, PTL

\* What is launched fits its node: GPUs, world, trainers and every adapter whose
\* files name a rank, those only known after the download included
\* (config.py:331-349, 643-678, adapters.py:26-34).
THEOREM EnginesFitHolds == StartSpec => []EnginesFit
<1>1. StartShape => EnginesFit
  <2> SUFFICES ASSUME StartShape, NEW i \in DOMAIN engines, engines[i] = "launched"
               PROVE  /\ \A g \in model[i].gpus : g < host.gpus
                      /\ model[i].world = Cardinality(model[i].gpus) * NodeCount(host)
                      /\ Enabled(host) => host.gpus = host.trainers
                      /\ \/ model[i].adapter = None
                         \/ model[i].adapter.rank \in {"fits", "unknown"}
                      /\ \A j \in DOMAIN engines : engines[j] = "launched" /\ i # j =>
                            \/ config.shared
                            \/ model[i].gpus \intersect model[j].gpus = {}
      BY DEF EnginesFit
  <2>1. /\ i \in 1..plan.models /\ DOMAIN engines = 1..plan.models
        /\ ~RuntimeRaises(host, probed) /\ ~TrainersDisagree(host) /\ ~GpusClash
        /\ ~RankRaises(model[i].adapter)
        BY DEF StartShape, Given, Passed, Launches
  <2>2. \A g \in model[i].gpus : g < host.gpus
    <3>1. host.gpus \in Nat /\ model[i].gpus \in SUBSET Nat
          BY <2>1, GivenType DEF StartShape, Hosts
    <3>2. \A g \in model[i].gpus : ~(g >= host.gpus)
          BY <2>1 DEF RuntimeRaises
    <3> QED BY <3>1, <3>2
  <2>3. model[i].world = Cardinality(model[i].gpus) * NodeCount(host)
        BY <2>1 DEF RuntimeRaises
  <2>4. Enabled(host) => host.gpus = host.trainers
        BY <2>1 DEF TrainersDisagree
  <2>5. model[i].adapter = None \/ model[i].adapter.rank \in {"fits", "unknown"}
        BY <2>1, GivenType DEF StartShape, RankRaises, Adapters
  <2>6. ASSUME NEW j \in DOMAIN engines, i # j
        PROVE  config.shared \/ model[i].gpus \intersect model[j].gpus = {}
        BY <2>1, <2>6 DEF GpusClash
  <2> QED BY <2>2, <2>3, <2>4, <2>5, <2>6
<1> QED BY <1>1, StartShapeHolds, PTL

\* Where probing vLLM comes to the same for both, `yeetllm validate` refuses what
\* `yeetllm serve` refuses, but for files that cannot be written or read and SSH
\* demanded without usable keys, and nothing that serve comes to start engines with
\* (cli.py:74-103, supervisor.py:62-106).
THEOREM ValidateAgreesHolds == StartSpec => []ValidateAgrees
<1>1. StartShape => ValidateAgrees
      BY DEF StartShape, Passed, Verdicts, KeysRefused, ValidateAgrees, ValidateRefuses
<1> QED BY <1>1, StartShapeHolds, PTL

\* sshd admits keys this life selected, whatever earlier lives left in the key file,
\* all of them unless a write was cut short, and is off only where nobody demanded it
\* (ssh.py:43-96).
THEOREM SshdHolds == StartSpec => []SshdServesThisLife
<1>1. StartShape => SshdServesThisLife
      BY DEF StartShape, Admitted, SshdServesThisLife, IsKeyList
<1> QED BY <1>1, StartShapeHolds, PTL
==============================================================================
