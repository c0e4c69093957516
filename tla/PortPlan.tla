------------------------------ MODULE PortPlan ------------------------------
(***************************************************************************)
(* Which TCP ports a node's listeners get, and which plans are refused     *)
(* before anything is started: the defaults of detect_cluster, then        *)
(* build_registry, then validate_cluster_ports, in the order               *)
(* Supervisor.__init__ and _validate call them.                            *)
(***************************************************************************)
EXTENDS Integers

CONSTANTS
    MaxPort,        \* 65535
    FirstPort,      \* first_port of build_registry, 8100
    MaxModels       \* bound: models in a configuration

ASSUME PortAssumption == MaxPort \in Nat /\ FirstPort \in 1..MaxPort
ASSUME ModelsAssumption == MaxModels \in Nat \ {0}

VARIABLES
    plan,   \* the configuration and PRIMARY_PORT; 0 is a port left to default
    step    \* the next check to run, or the verdict

vars == <<plan, step>>

Ports == 1..MaxPort
Plans == [models : 1..MaxModels, server : Ports, ssh : Ports, clustered : BOOLEAN,
          control : Ports \union {0}, base : Ports \union {0}, primary : Ports]

Init == plan \in Plans /\ step = "detect"

---------------------------------------------------------------------------

ControlPort(c) == IF c.control = 0 THEN c.primary ELSE c.control
RendezvousBase(c) == IF c.base = 0 THEN c.primary + 1 ELSE c.base
RendezvousLast(c) == RendezvousBase(c) + c.models - 1
EnginePorts(c) == FirstPort..(FirstPort + c.models - 1)

\* detect_cluster: the default base lies one past the primary port.
DetectRaises(c) == c.clustered /\ RendezvousBase(c) > MaxPort

\* build_registry: an engine port past the last, or claimed by the router or sshd.
RegistryRaises_NoServices(c) ==
    \/ FirstPort + c.models - 1 > MaxPort
    \/ {c.server, c.ssh} \intersect EnginePorts(c) # {}
RegistryRaises(c) ==
    \/ FirstPort + c.models - 1 > MaxPort
    \/ {c.server, c.ssh} \intersect EnginePorts(c) # {}
    \/ c.server = c.ssh

\* _reserved_listener_ports.
Reserved(c) == {c.server, c.ssh} \union EnginePorts(c)

ClusterRaises_OnePastLast(c) ==
    /\ c.clustered
    /\ \/ RendezvousLast(c) > MaxPort
       \/ ControlPort(c) \in RendezvousBase(c)..(RendezvousLast(c) + 1)
       \/ ({ControlPort(c)} \union RendezvousBase(c)..RendezvousLast(c))
             \intersect Reserved(c) # {}
ClusterRaises(c) ==
    /\ c.clustered
    /\ \/ RendezvousLast(c) > MaxPort
       \/ ControlPort(c) \in RendezvousBase(c)..RendezvousLast(c)
       \/ ({ControlPort(c)} \union RendezvousBase(c)..RendezvousLast(c))
             \intersect Reserved(c) # {}

Check(at, raises, next) ==
    /\ step = at
    /\ step' = IF raises THEN "raised" ELSE next
    /\ UNCHANGED plan

Detect == Check("detect", DetectRaises(plan), "registry")
BuildRegistry == Check("registry", RegistryRaises(plan), "cluster")
ValidateClusterPorts == Check("cluster", ClusterRaises(plan), "accepted")

Next == Detect \/ BuildRegistry \/ ValidateClusterPorts
Spec == Init /\ [][Next]_vars

---------------------------------------------------------------------------
(* What the plan assigns a port to, and what of it the primary binds.      *)

Owners(c) ==
    {<<"router", 0>>, <<"sshd", 0>>} \union {"engine"} \X (0..c.models - 1)
    \union IF c.clustered
           THEN {<<"control", 0>>} \union {"rendezvous"} \X (0..c.models - 1)
           ELSE {}

PortOf(c, o) ==
    CASE o[1] = "router" -> c.server
      [] o[1] = "sshd" -> c.ssh
      [] o[1] = "engine" -> FirstPort + o[2]
      [] o[1] = "control" -> ControlPort(c)
      [] o[1] = "rendezvous" -> RendezvousBase(c) + o[2]

\* Where each listens.  An engine is told the primary's address for its rendezvous,
\* and may bind the port on every other address too.
AddressOf(o) ==
    CASE o[1] \in {"router", "engine"} -> "loopback"
      [] o[1] = "control" -> "cluster"
      [] o[1] \in {"sshd", "rendezvous"} -> "any"

Overlap(o, p) == AddressOf(o) = AddressOf(p) \/ "any" \in {AddressOf(o), AddressOf(p)}

\* prepare_ssh may leave sshd off.
Listeners(c, ssh) == IF ssh THEN Owners(c) ELSE Owners(c) \ {<<"sshd", 0>>}

Binds(c, ssh) ==
    \A l \in Listeners(c, ssh) :
        /\ PortOf(c, l) \in Ports
        /\ \A m \in Listeners(c, ssh) :
              l # m /\ Overlap(l, m) => PortOf(c, l) # PortOf(c, m)

\* No plan that passes the checks of registry.py and cluster.py:115-141 makes two
\* listeners of a node bind one port, or a port past 65535, whatever mix of
\* configured and derived ports it uses, and whether or not sshd is started.
AcceptedIsUsable == step = "accepted" => \A ssh \in BOOLEAN : Binds(plan, ssh)

\* A refusal is never spurious: some port lies past 65535, or two owners were
\* assigned one port ("assigned to both", registry.py:77-85, cluster.py:136-141).
\* The checks count sshd where it will not be started, and look at no address, so
\* this is less than saying that the plan could not have been bound.
RaisedNamesAClash ==
    step = "raised" =>
        \/ \E o \in Owners(plan) : PortOf(plan, o) > MaxPort
        \/ \E o, p \in Owners(plan) : o # p /\ PortOf(plan, o) = PortOf(plan, p)
=============================================================================
