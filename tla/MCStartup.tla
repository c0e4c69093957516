----------------------------- MODULE MCStartup -----------------------------
(* Three families of nodes: one varies the ports, one the node and its     *)
(* models, and the plainest node of all the SSH settings.                  *)
EXTENDS Startup

CONSTANTS k1, k2

Model(gpus, world, adapter, registered) ==
    [gpus |-> gpus, world |-> world, adapter |-> adapter, registered |-> registered]

PlainHost(clustered) ==
    [gpus |-> 1, writable |-> TRUE, mode |-> IF clustered THEN "runpod" ELSE "off",
     keys |-> "all", agree |-> TRUE, nodes |-> 1, rank |-> 0, trainers |-> 1,
     ens1 |-> TRUE]
PlainConfig(n) ==
    [shared |-> TRUE, models |-> [i \in 1..n |-> Model({0}, 1, None, TRUE)]]
PlainPlan(n, clustered) ==
    [models |-> n, server |-> 1, ssh |-> 2, clustered |-> clustered,
     control |-> 0, base |-> 0, primary |-> IF clustered THEN 3 ELSE 1]

PortInputs ==
    {[plan |-> p, host |-> PlainHost(p.clustered), config |-> PlainConfig(p.models)] :
        p \in {p \in Plans : ~p.clustered => p.control = 0 /\ p.base = 0 /\ p.primary = 1}}

\* Every environment, then every node with every pair of models.
MCHosts ==
    [gpus : {1}, writable : BOOLEAN, mode : {"auto", "off", "runpod"},
     keys : {"none", "some", "all"}, agree : BOOLEAN, nodes : 1..2, rank : 0..1,
     trainers : {1}, ens1 : BOOLEAN]
  \union
    [gpus : 0..2, writable : {TRUE}, mode : {"auto"}, keys : {"all"}, agree : {TRUE},
     nodes : 1..2, rank : {0}, trainers : 1..2, ens1 : {TRUE}]

MCModels ==
    {Model(g, w, a, TRUE) : g \in SUBSET {0, 1} \ {{}}, w \in {1, 2, 4},
                            a \in Adapters \union {None}}
  \union {Model({0}, 1, None, FALSE)}

HostInputs ==
    {[plan |-> PlainPlan(1, Enabled(h)), host |-> h, config |-> c] :
        h \in MCHosts, c \in [shared : {FALSE}, models : [1..1 -> MCModels]]}

ModelInputs ==
    {[plan |-> PlainPlan(2, Enabled(h)), host |-> h, config |-> c] :
        h \in {h \in MCHosts : h.mode = "auto" /\ h.writable /\ h.agree /\ h.ens1},
        c \in [shared : BOOLEAN, models : [1..2 -> MCModels]]}

MCFamilies == {PortInputs, HostInputs, ModelInputs}

\* Two sources at most have anything to offer.
MCTexts == {{}, {"comment"}, {k1}, {k1, k2}, {k2, "garbage"}, {"private"}}
MCOffers ==
    {o \in [Sources -> MCTexts] : Cardinality({s \in Sources : o[s] # {}}) <= 2}

MCSshChoices(in) ==
    IF in = [plan |-> PlainPlan(1, FALSE), host |-> PlainHost(FALSE), config |-> PlainConfig(1)]
    THEN [enable : {"on", "off", "auto"}, offered : MCOffers]
    ELSE [enable : {"off"}, offered : [Sources -> {{}}]]
=============================================================================
