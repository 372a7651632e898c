----------------------------- MODULE Resources -----------------------------
(***************************************************************************)
(* The builders: what the operator makes of an instance                    *)
(*   internal/resources/*.go                                               *)
(*                                                                         *)
(* They are pure, so they are operators on the instance's record (its      *)
(* fields are in Admission).  Of each object they keep what other objects  *)
(* depend on: names, labels and selectors, ports, mounts and the objects   *)
(* and keys that have to exist.  An empty string or 0 is a field that is   *)
(* not set.                                                                *)
(***************************************************************************)
EXTENDS Naturals, SequencesExt

GatewayPort == 8443

DefaultMetricsPort == 9090

HonchoPort == 8000

\* BoolValueOrDefault(_, true) of a field.
IsNotFalse(i, f) == i.field[f] # "false"

IfSet(value, default) == IF value = "" THEN default ELSE value

When(condition, s) == IF condition THEN s ELSE {}

SeqWhen(condition, s) == IF condition THEN s ELSE <<>>

-----------------------------------------------------------------------------
(***************************************************************************)
(* Labels.                                                                 *)
(***************************************************************************)
SelectorLabels == {<<"name", "hermes-agent">>, <<"instance", "inst">>}

LabelsForInstance ==
    SelectorLabels \cup {<<"managed-by", "hermes-operator">>,
                         <<"part-of", "hermes.agent">>}

HonchoSelector == {<<"name", "honcho">>, <<"instance", "inst-honcho">>}

HonchoLabels ==
    HonchoSelector \cup {<<"managed-by", "hermes-operator">>,
                         <<"part-of", "hermes.agent">>,
                         <<"hermes.agent/instance", "inst">>}

Selects(selector, labels) == selector \subseteq labels

-----------------------------------------------------------------------------
(***************************************************************************)
(* Gateways.  A reference is named by the field that holds it.             *)
(***************************************************************************)
Gateways == {"telegram", "discord", "slack", "whatsapp", "signal"}

GatewayRefs ==
    [telegram |-> {"telegram.botToken"},
     discord |-> {"discord.botToken"},
     slack |-> {"slack.botToken", "slack.appToken", "slack.signing"},
     whatsapp |-> {"whatsapp.provider"},
     signal |-> {"signal.phoneNumber", "signal.authToken"}]

\* BuildGatewayEnv and BuildGatewayEnvFrom: the credentials in the
\* environment of the agent.
GatewayEnv(i) ==
    UNION {GatewayRefs[g] \cap i.refs : g \in Gateways \cap i.on}

\* BuildGatewayConfigFragments
GatewayConfigFragments(i) == Gateways \cap i.on

\* BuildGatewayEgressEndpoints: every endpoint is reached by HTTPS.
GatewayEgressEndpoints(i) == Gateways \cap i.on

-----------------------------------------------------------------------------
(***************************************************************************)
(* config.yaml.  A body has its top-level model, and who wrote the entry   *)
(* of each gateway; "given" and "ok" are whether there is one and whether  *)
(* it parses.                                                              *)
(***************************************************************************)
Body == [given : BOOLEAN, ok : BOOLEAN,
         model : {"", "user", "placeholder"},
         gateways : [Gateways -> {"", "user", "operator"}]]

EmptyBody == [given |-> FALSE, ok |-> TRUE, model |-> "",
              gateways |-> [g \in Gateways |-> ""]]

\* MergeYAMLBodies: the overlay wins, key by key.
MergeYAMLBodies(base, overlay) ==
    [given |-> TRUE, ok |-> base.ok /\ overlay.ok,
     model |-> IfSet(overlay.model, base.model),
     gateways |-> [g \in Gateways |->
                     IfSet(overlay.gateways[g], base.gateways[g])]]

\* resolveConfigBody, then the choice of BuildConfigMap: with both given and
\* mergeMode not "merge" the raw body replaces the other.
ResolvedBody(i) ==
    IF i.configMapRef.given /\ ~i.raw.given THEN i.configMapRef
    ELSE IF i.configMapRef.given /\ "merge" \in i.on
         THEN MergeYAMLBodies(i.configMapRef, i.raw)
    ELSE i.raw

\* A body that cannot be merged fails the step and no ConfigMap is written.
ConfigResolves(i) ==
    ~(i.configMapRef.given /\ i.raw.given /\ "merge" \in i.on)
        \/ ResolvedBody(i).ok

\* mergeGatewayFragments: the operator's entries win.
MergeGatewayFragments(body, frags) ==
    IF ~body.ok THEN body
    ELSE [body EXCEPT !.gateways =
            [g \in Gateways |-> IF g \in frags THEN "operator" ELSE @[g]]]

\* ensureModelDefault
EnsureModelDefault(body) ==
    IF body.ok /\ body.model = ""
    THEN [body EXCEPT !.model = "placeholder"] ELSE body

BuildConfigMap(i) ==
    [keys |-> {"config.yaml"}
              \cup When("tailscale" \in i.on, {"tailscale-serve.json"}),
     body |-> EnsureModelDefault(
                  MergeGatewayFragments(ResolvedBody(i),
                                        GatewayConfigFragments(i))),
     \* BuildTailscaleServeConfig
     serves |-> When("tailscale" \in i.on, {GatewayPort})]

-----------------------------------------------------------------------------
(***************************************************************************)
(* The pod of the StatefulSet.  An object that has to exist is             *)
(* <<kind, name, key>>.                                                    *)
(***************************************************************************)
Needs(kind, name, key) == {<<kind, name, key>>}

Volume(name, needs) == [name |-> name, needs |-> needs]

Container(name, ports, mounts, needs) ==
    [name |-> name, ports |-> ports, mounts |-> mounts, needs |-> needs]

UserContainers(names) ==
    [n \in DOMAIN names |-> Container(names[n], {}, {}, {})]

HasCABundle(i) == i.field.caConfigMap # "" \/ i.field.caSecret # ""

\* The ConfigMap wins when both are named.
CABundleVolume(i) ==
    Volume("ca-bundle",
           IF i.field.caConfigMap # ""
           THEN Needs("ConfigMap", i.field.caConfigMap,
                      IfSet(i.field.caKey, "ca.crt"))
           ELSE Needs("Secret", i.field.caSecret,
                      IfSet(i.field.caKey, "ca.crt")))

\* BuildAgentRuntimeEnv
AgentRuntimeEnv == Needs("Secret", "inst-gateway-tokens", "api_server_key")

HermesContainer(i) ==
    Container("hermes",
              {[name |-> "gateway", port |-> GatewayPort]},
              {"data", "config", "tmp", "workspace"}
                \cup When(HasCABundle(i), {"ca-bundle"})
                \cup ToSet(i.mounts),
              AgentRuntimeEnv)

TailscaleSidecar ==
    Container("tailscale", {}, {"tailscale-serve", "tailscale-tmp"}, {})

MigrationPending(i) == i.source # "none" /\ ~i.migrated

\* BuildRestoreInitContainer and BuildMigrationInitContainer
ExtraInits(i) ==
    SeqWhen(i.restoreFrom # "" /\ i.restoredFrom # i.restoreFrom
              /\ "s3" \in i.on,
            <<Container("init-restore", {}, {"data"}, {})>>)
    \o SeqWhen(MigrationPending(i) /\ i.source \in {"instance", "backup", "both"},
               <<Container("init-migrate-from-openclaw", {},
                           {"openclaw-source", "data"}, {})>>)

\* BuildSourceVolume: the volume of another instance, or a scratch one.
SourceVolume(i) ==
    Volume("openclaw-source",
           When(i.source \in {"instance", "both"},
                Needs("PVC", "openclaw-data", "")))

Volumes(i) ==
    <<Volume("config", Needs("ConfigMap", "inst-config", "config.yaml")),
      Volume("data", Needs("PVC", "inst-data", "")),
      Volume("tmp", {}),
      Volume("workspace", Needs("ConfigMap", "inst-workspace", ""))>>
    \o SeqWhen(HasCABundle(i), <<CABundleVolume(i)>>)
    \o SeqWhen("tailscale" \in i.on,
               <<Volume("tailscale-serve",
                        Needs("ConfigMap", "inst-config",
                              "tailscale-serve.json")),
                 Volume("tailscale-tmp", {})>>)
    \o [n \in DOMAIN i.volumes |-> Volume(i.volumes[n], {})]
    \o SeqWhen(MigrationPending(i), <<SourceVolume(i)>>)

\* ServiceAccountNameFor
ServiceAccountNameFor(i) == IfSet(i.field.serviceAccountName, "inst")

\* imageRef: the digest wins over the tag.
ImageRef(i) ==
    LET repo == IfSet(i.field.repository, "ghcr")
    IN  IF i.field.digest # "" THEN <<repo, "@", i.field.digest>>
        ELSE <<repo, ":", IfSet(i.field.tag, "latest")>>

BuildStatefulSet(i) ==
    [labels |-> LabelsForInstance,
     selector |-> SelectorLabels,
     image |-> ImageRef(i),
     replicas |-> IF "suspended" \in i.on THEN 0 ELSE 1,
     account |-> Needs("ServiceAccount", ServiceAccountNameFor(i), ""),
     inits |-> ExtraInits(i) \o UserContainers(i.inits),
     containers |-> <<HermesContainer(i)>>
                    \o SeqWhen("tailscale" \in i.on, <<TailscaleSidecar>>)
                    \o UserContainers(i.sidecars),
     volumes |-> Volumes(i)]

-----------------------------------------------------------------------------
(***************************************************************************)
(* The Service and what leads to it.  A port whose target is 0 goes to the *)
(* container port of its own name.                                         *)
(***************************************************************************)
ServicePort(name, port, target, proto) ==
    [name |-> name, port |-> port, target |-> target, proto |-> proto]

TargetPort(p) == IF p.target = 0 THEN p.port ELSE p.target

PortNames(ports) == {p.name : p \in ToSet(ports)}

\* buildServicePorts
ServicePorts(i) ==
    LET own == IF i.ports # <<>>
               THEN [n \in DOMAIN i.ports |->
                       [i.ports[n] EXCEPT !.target = TargetPort(i.ports[n]),
                                          !.proto = IfSet(@, "TCP")]]
               ELSE <<ServicePort("gateway", GatewayPort, 0, "TCP")>>
    IN  own \o SeqWhen(IsNotFalse(i, "metricsEnabled")
                         /\ "metrics" \notin PortNames(own),
                       <<ServicePort("metrics",
                           IF i.num.metricsPort = 0 THEN DefaultMetricsPort
                           ELSE i.num.metricsPort, 0, "TCP")>>)

BuildService(i) ==
    [selector |-> SelectorLabels, ports |-> ServicePorts(i),
     type |-> IfSet(i.field.serviceType, "ClusterIP")]

\* BuildIngress: the backend is a Service port by name.
IngressPortName(i) == IfSet(i.ingressPort, "gateway")

\* servicePortNumber
ServicePortNumber(i, name) ==
    IF name \in PortNames(i.ports)
    THEN i.ports[CHOOSE n \in DOMAIN i.ports : i.ports[n].name = name].port
    ELSE IF name = "metrics"
         THEN IF i.num.metricsPort = 0 THEN DefaultMetricsPort
              ELSE i.num.metricsPort
    ELSE GatewayPort

\* BuildHTTPRoute: the backend is a Service port by number.
RoutePortName(i) == IfSet(i.routePort, "gateway")

RoutePort(i) == ServicePortNumber(i, RoutePortName(i))

-----------------------------------------------------------------------------
(***************************************************************************)
(* NetworkPolicies.  A peer is a set of labels, of pods and of their       *)
(* namespace, that select pods; the empty set is everybody.                *)
(***************************************************************************)
Rule(peer, proto, port) == [peer |-> peer, proto |-> proto, port |-> port]

\* Mutant: the port of the Service is opened on the pod.
NetworkPolicyIngressPorts_ServicePort(i) ==
    IF i.ports # <<>>
    THEN {[proto |-> IfSet(p.proto, "TCP"), port |-> p.port] :
              p \in ToSet(i.ports)}
    ELSE {[proto |-> "TCP", port |-> GatewayPort]}

\* networkPolicyIngressPorts
NetworkPolicyIngressPorts(i) ==
    IF i.ports # <<>>
    THEN {[proto |-> IfSet(p.proto, "TCP"), port |-> TargetPort(p)] :
              p \in ToSet(i.ports)}
    ELSE {[proto |-> "TCP", port |-> GatewayPort]}

\* buildTailscaleEgressRules
TailscaleEgressRules(i) ==
    When("tailscale" \in i.on, {Rule({}, "UDP", 3478), Rule({}, "UDP", 41641)})

ExtraEgressRules(i) ==
    When(GatewayEgressEndpoints(i) # {}, {Rule({}, "TCP", 443)})
    \cup When("honcho" \in i.on, {Rule(HonchoSelector, "TCP", HonchoPort)})

\* buildEgressRules; what the user allows besides only adds to it.
EgressRules(i) ==
    When(IsNotFalse(i, "allowDNS"),
         {Rule({}, "UDP", 53), Rule({}, "TCP", 53)})
    \cup {Rule({}, "TCP", 443)}
    \cup ExtraEgressRules(i)
    \cup TailscaleEgressRules(i)

\* The label of the namespace the instance is in.
OwnNamespace == {<<"kubernetes.io/metadata.name", "namespace">>}

\* buildIngressRules: from the instance's namespace.  The namespaces and CIDRs
\* the user allows besides get the same ports in rules of their own.
IngressRules(i) ==
    {Rule(OwnNamespace, p.proto, p.port) : p \in NetworkPolicyIngressPorts(i)}

BuildNetworkPolicy(i) ==
    [selector |-> SelectorLabels, ingress |-> IngressRules(i),
     egress |-> EgressRules(i)]

BuildHonchoNetworkPolicy ==
    [selector |-> HonchoSelector,
     ingress |-> {Rule(SelectorLabels, "TCP", HonchoPort)},
     egress |-> {}]

-----------------------------------------------------------------------------
(***************************************************************************)
(* Honcho, and the Jobs that run on the instance's volumes.                *)
(***************************************************************************)
HonchoContainer ==
    Container("honcho", {[name |-> "http", port |-> HonchoPort]},
              {"honcho-data", "tmp"}, {})

BuildHonchoDeployment ==
    [labels |-> HonchoLabels, selector |-> HonchoSelector,
     containers |-> <<HonchoContainer>>, inits |-> <<>>,
     volumes |-> <<Volume("honcho-data",
                          Needs("PVC", "inst-honcho-data", "")),
                   Volume("tmp", {})>>]

BuildHonchoService ==
    [selector |-> HonchoSelector,
     ports |-> <<ServicePort("http", HonchoPort, 0, "TCP")>>]

\* BuildHonchoConsumerEnv: the port of HONCHO_BASE_URL, and the key.
HonchoConsumerEnv(i) ==
    [ports |-> When("honcho" \in i.on, {HonchoPort}),
     refs |-> When("honcho" \in i.on, {"honcho.apiKey"} \cap i.refs)]

BuildBackupOneShotJob ==
    [labels |-> LabelsForInstance,
     containers |-> <<Container("restic", {}, {"data"}, {})>>, inits |-> <<>>,
     volumes |-> <<Volume("data", Needs("PVC", "inst-data", ""))>>]

-----------------------------------------------------------------------------
(***************************************************************************)
(* Availability.                                                           *)
(***************************************************************************)
\* BuildPDB: minAvailable wins, and one of the two is always set.
BuildPDB(i) ==
    [minAvailable |-> i.field.minAvailable,
     maxUnavailable |-> IF i.field.minAvailable # "" THEN ""
                        ELSE IfSet(i.field.maxUnavailable, "1")]

BuildHPA(i) ==
    [min |-> IF i.num.minReplicas = 0 THEN 1 ELSE i.num.minReplicas,
     max |-> IF i.num.maxReplicas = 0 THEN 5 ELSE i.num.maxReplicas]

-----------------------------------------------------------------------------
(***************************************************************************)
(* What the reconcile loop leaves in the cluster for an instance, as far   *)
(* as pods refer to it.                                                    *)
(***************************************************************************)
Created(i) ==
    Needs("Secret", "inst-gateway-tokens", "api_server_key")
    \cup Needs("PVC", "inst-data", "")
    \cup {<<"ConfigMap", "inst-config", key>> : key \in BuildConfigMap(i).keys}
    \cup Needs("ConfigMap", "inst-workspace", "")
    \cup When(IsNotFalse(i, "createServiceAccount"),
              Needs("ServiceAccount", "inst", ""))
    \cup When({"honcho", "honchoPersistence"} \subseteq i.on,
              Needs("PVC", "inst-honcho-data", ""))

\* What a spec names is the user's to provide.
Provided(i) ==
    {<<"ServiceAccount", i.field.serviceAccountName, "">>,
     <<"ConfigMap", i.field.caConfigMap, IfSet(i.field.caKey, "ca.crt")>>,
     <<"Secret", i.field.caSecret, IfSet(i.field.caKey, "ca.crt")>>,
     <<"PVC", "openclaw-data", "">>}

=============================================================================
