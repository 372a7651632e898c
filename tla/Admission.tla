----------------------------- MODULE Admission -----------------------------
(***************************************************************************)
(* How a HermesInstance gets into the API server, and stays acceptable     *)
(* there: the defaults of the CRD schema, the defaulting webhook that      *)
(* fills fields from the HermesClusterDefaults named "cluster", the rule   *)
(* of the schema on images and the validating webhook                      *)
(*   internal/webhook/webhook_hermesinstance_default.go                    *)
(*   internal/webhook/webhook_hermesinstance_validate.go                   *)
(*   internal/webhook/webhook_hermesclusterdefaults.go                     *)
(*   internal/controller/hermesclusterdefaults_controller.go               *)
(*   api/v1/hermesinstance_types.go            +kubebuilder markers        *)
(*                                                                         *)
(* Every write of the instance passes here, the operator's own patches of  *)
(* its metadata included; writes of its status do not.  The webhooks read  *)
(* HermesClusterDefaults from the manager's cache, which may be behind.    *)
(* Looking up the Secrets a spec names only gives warnings, and an error   *)
(* of the lookup refuses the request, which changes nothing.               *)
(***************************************************************************)
EXTENDS Resources

CONSTANTS
    Texts,            \* the strings a manifest may hold
    Creations,        \* the manifests instances are created from
    Changes,          \* the manifests users submit later
    Defaults,         \* the specs users write to HermesClusterDefaults
    MaxEdits,         \* bound: later submissions by users
    MaxDefaultEdits   \* bound: writes of HermesClusterDefaults

VARIABLES
    inst,       \* the HermesInstance in the API server
    instCache,  \* the operator's informer copy of it
    last,       \* the manifest submitted last
    hcd,        \* the HermesClusterDefaults "cluster" in the API server
    hcdCache,   \* the copy of it the webhook reads
    pvc,        \* the volume claim of the instance
    edits, defaultEdits

vars == <<inst, instCache, last, hcd, hcdCache, pvc, edits, defaultEdits>>

-----------------------------------------------------------------------------
(***************************************************************************)
(* The fields with a default in the schema or in the cluster, and the      *)
(* object of the spec each of them is in.                                  *)
(***************************************************************************)
ObjectOf ==
    [repository |-> "image", tag |-> "image", digest |-> "image",
     pullPolicy |-> "image",
     size |-> "persistence", storageClassName |-> "persistence",
     requests |-> "resources", limits |-> "resources",
     annotations |-> "rbac", createServiceAccount |-> "rbac",
     serviceAccountName |-> "rbac",
     npEnabled |-> "networkPolicy", allowDNS |-> "networkPolicy",
     caConfigMap |-> "caBundle", caSecret |-> "caBundle", caKey |-> "caBundle",
     serviceType |-> "service",
     metricsEnabled |-> "metrics", metricsSecure |-> "metrics",
     smEnabled |-> "serviceMonitor", prEnabled |-> "prometheusRule",
     logFormat |-> "logging", logLevel |-> "logging",
     minAvailable |-> "pdb", maxUnavailable |-> "pdb"]

NumberOf == [metricsPort |-> "metrics", minReplicas |-> "hpa",
             maxReplicas |-> "hpa"]

Fields == DOMAIN ObjectOf

Numbers == DOMAIN NumberOf

SpecObjects == {ObjectOf[f] : f \in Fields} \cup {NumberOf[n] : n \in Numbers}

\* A port is at least 1 by the schema.
NamedServicePort ==
    [name : Texts, port : Nat \ {0}, target : Nat, proto : Texts]

(***************************************************************************)
(* Manifests, and instances with the part of their status admission looks  *)
(* at: restoredFrom and migrated.                                          *)
(***************************************************************************)
Manifests ==
    [exists : {TRUE}, given : SUBSET SpecObjects, field : [Fields -> Texts],
     num : [Numbers -> Nat], on : SUBSET Texts, refs : SUBSET Texts,
     sidecars : Seq(Texts), inits : Seq(Texts), volumes : Seq(Texts),
     mounts : Seq(Texts),
     ports : Seq(NamedServicePort),
     ingressPort : Texts, routePort : Texts, actions : SUBSET Texts,
     raw : Body, configMapRef : Body, restoreFrom : Texts,
     source : {"none", "instance", "backup", "both", "neither"},
     restoredFrom : Texts, migrated : BOOLEAN]

DefaultSpecs == [given : SUBSET SpecObjects, field : [Fields -> Texts],
                 num : [Numbers -> Nat]]

NoFields == [f \in Fields |-> ""]

NoNumbers == [n \in Numbers |-> 0]

\* The +kubebuilder:default markers.
Markers ==
    [repository |-> "ghcr", pullPolicy |-> "IfNotPresent",
     size |-> "1Gi", createServiceAccount |-> "true",
     npEnabled |-> "true", allowDNS |-> "true", caKey |-> "ca.crt",
     serviceType |-> "ClusterIP", metricsEnabled |-> "true",
     metricsSecure |-> "false", smEnabled |-> "false",
     prEnabled |-> "false", logFormat |-> "text", logLevel |-> "info"]

ASSUME AdmissionAssumption ==
    /\ {Markers[f] : f \in DOMAIN Markers} \cup {""} \subseteq Texts
    /\ Creations \cup Changes \subseteq Manifests
    /\ Defaults \subseteq DefaultSpecs
    /\ {MaxEdits, MaxDefaultEdits} \subseteq Nat

SchemaDefault ==
    [f \in Fields |-> IF f \in DOMAIN Markers THEN Markers[f] ELSE ""]

SchemaNumber == [metricsPort |-> 9090, minReplicas |-> 1, maxReplicas |-> 5]

Number(value, default) == IF value = 0 THEN default ELSE value

\* The objects a manifest has, be they empty.
Given(m) ==
    m.given \cup {ObjectOf[f] : f \in {f \in Fields : m.field[f] # ""}}
            \cup {NumberOf[n] : n \in {n \in Numbers : m.num[n] # 0}}

\* The API server fills a field only when the object around it is there.
SchemaDefaulted(m, given) ==
    [m EXCEPT
        !.field = [f \in Fields |-> IF ObjectOf[f] \in given
                                    THEN IfSet(@[f], SchemaDefault[f])
                                    ELSE @[f]],
        !.num = [n \in Numbers |-> IF NumberOf[n] \in given
                                   THEN Number(@[n], SchemaNumber[n])
                                   ELSE @[n]]]

\* ImageSpec's validation rule: pinned, and not to :latest.
ImagePinned(m) == m.field.tag \notin {"", "latest"} \/ m.field.digest # ""

-----------------------------------------------------------------------------
(***************************************************************************)
(* The defaulting webhook.                                                 *)
(***************************************************************************)
\* What ApplyClusterDefaults copies field by field.
Copied == {"repository", "tag", "pullPolicy", "size", "storageClassName",
           "requests", "limits", "annotations", "npEnabled", "allowDNS",
           "serviceType", "metricsEnabled", "metricsSecure", "smEnabled",
           "prEnabled", "logFormat", "logLevel"}

CABundle == {"caConfigMap", "caSecret", "caKey"}

\* Mutant: the size is copied without looking whether there is one.
ApplyClusterDefaults_Overrides(m, d) ==
    [m EXCEPT
        !.field = [f \in Fields |->
                     IF f = "size" THEN IfSet(d.field[f], @[f])
                     ELSE IF f \in Copied THEN IfSet(@[f], d.field[f])
                     ELSE IF f \in CABundle /\ ~HasCABundle(m)
                          THEN d.field[f]
                     ELSE @[f]],
        !.num.metricsPort = Number(@, d.num.metricsPort)]

\* A CA bundle without a name is replaced as a whole, its key included.
ApplyClusterDefaults(m, d) ==
    [m EXCEPT
        !.field = [f \in Fields |->
                     IF f \in Copied THEN IfSet(@[f], d.field[f])
                     ELSE IF f \in CABundle /\ ~HasCABundle(m)
                          THEN d.field[f]
                     ELSE @[f]],
        !.num.metricsPort = Number(@, d.num.metricsPort)]

Default(m) ==
    IF hcdCache.exists THEN ApplyClusterDefaults(m, hcdCache.spec) ELSE m

\* Mutant: without the second pass.
Defaulted_Once(m) == Default(SchemaDefaulted(m, Given(m)))

\* The webhook answers with the whole object, in which every object of the
\* spec is there, so the schema's defaults come a second time.
Defaulted(m) ==
    SchemaDefaulted(Default(SchemaDefaulted(m, Given(m))), SpecObjects)

-----------------------------------------------------------------------------
(***************************************************************************)
(* The validating webhook.                                                 *)
(***************************************************************************)
RequiredRefs ==
    [telegram |-> {"telegram.botToken"}, discord |-> {"discord.botToken"},
     slack |-> {"slack.botToken"}, whatsapp |-> {"whatsapp.provider"},
     signal |-> {"signal.phoneNumber", "signal.authToken"},
     honcho |-> {"honcho.apiKey"}]

ValidateGateways(i) ==
    \A g \in DOMAIN RequiredRefs \cap i.on : RequiredRefs[g] \subseteq i.refs

\* Mutant: the names of volumes are not looked at.
ValidateTailscale_Volumes(i) ==
    "tailscale" \in i.on =>
        /\ "tailscale.authKey" \in i.refs
        /\ "tailscale" \notin ToSet(i.sidecars)

ValidateTailscale(i) ==
    "tailscale" \in i.on =>
        /\ "tailscale.authKey" \in i.refs
        /\ "tailscale" \notin ToSet(i.sidecars)
        /\ ToSet(i.volumes) \cap {"tailscale-serve", "tailscale-tmp"} = {}

Actions == {"skills", "config", "envVars", "workspaceFiles", "profiles"}

ValidateCommon(i) ==
    /\ i.field.repository # ""
    /\ i.field.size # ""
    /\ "selfConfigure" \in i.on =>
         /\ "protectedKeys" \in i.on
         /\ i.actions # {}
         /\ i.actions \subseteq Actions
    /\ i.field.minAvailable = "" \/ i.field.maxUnavailable = ""
    /\ (i.num.minReplicas # 0 /\ i.num.maxReplicas # 0)
         => i.num.minReplicas <= i.num.maxReplicas

\* Mutant: the class may be changed.
ValidateImmutable_Off(old, new) == TRUE

\* Mutant: a class may not be filled in later either.
ValidateImmutable_Strict(old, new) ==
    old.field.storageClassName = new.field.storageClassName

\* Mutant: the size is held to the same rule.
ValidateImmutable_Size(old, new) ==
    /\ old.field.storageClassName # ""
         => new.field.storageClassName = old.field.storageClassName
    /\ new.field.size = old.field.size

ValidateImmutable(old, new) ==
    old.field.storageClassName # ""
        => new.field.storageClassName = old.field.storageClassName

ValidateImmutableTerminals(old, new) ==
    /\ (old.restoredFrom # "" /\ old.restoredFrom = old.restoreFrom)
         => new.restoreFrom = old.restoreFrom
    /\ old.migrated => new.source = old.source

ValidateRestoreMigrationMutualExclusion(i) ==
    ~(i.restoreFrom # "" /\ i.source # "none")

ValidateMigrationSourceExactlyOne(i) ==
    i.source \in {"none", "instance", "backup"}

ValidateCreate(i) ==
    /\ ValidateRestoreMigrationMutualExclusion(i)
    /\ ValidateMigrationSourceExactlyOne(i)
    /\ ValidateCommon(i)
    /\ ValidateGateways(i)
    /\ ValidateTailscale(i)

ValidateUpdate(old, new) ==
    /\ ValidateImmutableTerminals(old, new)
    /\ ValidateImmutable(old, new)
    /\ ValidateCreate(new)

\* A request to change the stored instance to m, after all of the above.
Admitted(m) == ImagePinned(Defaulted(m)) /\ ValidateUpdate(inst, Defaulted(m))

-----------------------------------------------------------------------------
Absent == [exists |-> FALSE]

Init ==
    /\ inst = Absent
    /\ instCache = Absent
    /\ last = Absent
    /\ hcd = Absent
    /\ hcdCache = Absent
    /\ pvc = Absent
    /\ edits = 0
    /\ defaultEdits = 0

-----------------------------------------------------------------------------
(***************************************************************************)
(* Submissions.  The status is the server's: a request does not carry it.  *)
(***************************************************************************)
WithStatus(m, restoredFrom, migrated) ==
    [m EXCEPT !.restoredFrom = restoredFrom, !.migrated = migrated]

UserCreates(m) ==
    /\ ~inst.exists
    /\ ImagePinned(Defaulted(m))
    /\ ValidateCreate(Defaulted(m))
    /\ inst' = WithStatus(Defaulted(m), "", FALSE)
    /\ last' = m
    /\ UNCHANGED <<instCache, hcd, hcdCache, pvc, edits, defaultEdits>>

Submitted(m) ==
    /\ inst.exists
    /\ Admitted(m)
    /\ inst' = Defaulted(m)
    /\ UNCHANGED <<instCache, hcd, hcdCache, pvc, defaultEdits>>

Edit ==
    /\ edits < MaxEdits
    /\ edits' = edits + 1

\* kubectl replace: the manifest and nothing else.
Replaced(m) == WithStatus(m, inst.restoredFrom, inst.migrated)

\* kubectl apply: what the manifest says, what the one before it did not say,
\* and nothing of what only the one before it said.
Applied(m) ==
    LET merge(new, old, stored, none) == IF new # none THEN new
                                         ELSE IF old # none THEN none
                                         ELSE stored
    IN  [Replaced(m) EXCEPT
            !.given = SpecObjects,
            !.field = [f \in Fields |->
                         merge(@[f], last.field[f], inst.field[f], "")],
            !.num = [n \in Numbers |->
                       merge(@[n], last.num[n], inst.num[n], 0)]]

UserReplaces(m) == inst.exists /\ Edit /\ Submitted(Replaced(m)) /\ last' = m

UserApplies(m) == inst.exists /\ Edit /\ Submitted(Applied(m)) /\ last' = m

\* The operator's patches of the finalizers, of auto-update's annotation and
\* of the skills, which no webhook looks at: what is modelled of the spec goes
\* back as it is stored, the image's tag included.
OperatorPatches == Submitted(inst) /\ UNCHANGED <<last, edits>>

-----------------------------------------------------------------------------
(***************************************************************************)
(* HermesClusterDefaults: its webhook and its controller.                  *)
(***************************************************************************)
\* The schema of HermesClusterDefaults has the image, persistence, CA bundle
\* and observability types of the instance, and types of its own for the
\* rest, without defaults.
SharedTypes == {"image", "persistence", "caBundle", "metrics",
                "serviceMonitor", "prometheusRule", "logging"}

ValidateHCD(name) == name = "cluster"

UserWritesDefaults(name, d) ==
    LET spec == SchemaDefaulted(d, Given(d) \cap SharedTypes)
    IN  /\ defaultEdits < MaxDefaultEdits
        /\ ValidateHCD(name)
        /\ "image" \in Given(d) => ImagePinned(spec)
        /\ hcd' = [exists |-> TRUE, spec |-> spec, observed |-> FALSE]
        /\ defaultEdits' = defaultEdits + 1
        /\ UNCHANGED <<inst, instCache, last, hcdCache, pvc, edits>>

UserDeletesDefaults ==
    /\ hcd.exists
    /\ defaultEdits < MaxDefaultEdits
    /\ hcd' = Absent
    /\ defaultEdits' = defaultEdits + 1
    /\ UNCHANGED <<inst, instCache, last, hcdCache, pvc, edits>>

\* HermesClusterDefaultsReconciler.Reconcile: the generation is observed,
\* with the condition Ready.  An outdated copy is refused.
ReconcileDefaults ==
    /\ hcd.exists
    /\ hcd' = [hcd EXCEPT !.observed = TRUE]
    /\ UNCHANGED <<inst, instCache, last, hcdCache, pvc, edits, defaultEdits>>

\* The informer of the manager catches up with the API server.
SyncDefaults ==
    /\ hcdCache' = IF hcd.exists THEN [exists |-> TRUE, spec |-> hcd.spec]
                   ELSE Absent
    /\ hcdCache' # hcdCache
    /\ UNCHANGED <<inst, instCache, last, hcd, pvc, edits, defaultEdits>>

-----------------------------------------------------------------------------
(***************************************************************************)
(* What the reconcile loop makes of the instance that later requests meet: *)
(* the volume claim, created once from the cached copy, and the latches.   *)
(***************************************************************************)
SyncInstance ==
    /\ instCache # inst
    /\ instCache' = inst
    /\ UNCHANGED <<inst, last, hcd, hcdCache, pvc, edits, defaultEdits>>

ReconcilePVC ==
    /\ instCache.exists
    /\ ~pvc.exists
    /\ pvc' = [exists |-> TRUE, class |-> instCache.field.storageClassName]
    /\ UNCHANGED <<inst, instCache, last, hcd, hcdCache, edits, defaultEdits>>

\* RestoreReconciler, MigrationReconciler: see RestoreMigration.
Latch(i) ==
    /\ inst.exists
    /\ instCache = inst
    /\ inst' = i
    /\ UNCHANGED <<instCache, last, hcd, hcdCache, pvc, edits, defaultEdits>>

LatchRestore ==
    /\ inst.exists
    /\ inst.restoreFrom # inst.restoredFrom
    /\ inst.restoreFrom # ""
    /\ "s3" \in inst.on
    /\ Latch([inst EXCEPT !.restoredFrom = inst.restoreFrom])

LatchMigration ==
    /\ inst.exists
    /\ MigrationPending(inst)
    /\ Latch([inst EXCEPT !.migrated = TRUE])

Next ==
    \/ \E m \in Creations : UserCreates(m)
    \/ \E m \in Changes : UserReplaces(m) \/ UserApplies(m)
    \/ OperatorPatches
    \/ \E name \in {"cluster", "other"}, d \in Defaults :
         UserWritesDefaults(name, d)
    \/ UserDeletesDefaults \/ ReconcileDefaults
    \/ SyncDefaults \/ SyncInstance \/ ReconcilePVC
    \/ LatchRestore \/ LatchMigration

Spec == Init /\ [][Next]_vars

-----------------------------------------------------------------------------
\* Type correctness; what is stored has every field the schema gives a
\* default, which the builders count on.
TypeOK ==
    /\ {inst, instCache, last} \subseteq Manifests \cup {Absent}
    /\ inst.exists =>
         /\ last.exists
         /\ \A f \in Fields : inst.field[f] = "" => SchemaDefault[f] = ""
         /\ \A n \in Numbers : inst.num[n] # 0
    /\ hcd \in [exists : {TRUE}, spec : DefaultSpecs, observed : BOOLEAN]
                 \cup {Absent}
    /\ hcdCache \in [exists : {TRUE}, spec : DefaultSpecs] \cup {Absent}
    /\ pvc \in [exists : {TRUE}, class : Texts] \cup {Absent}
    /\ edits \in 0..MaxEdits
    /\ defaultEdits \in 0..MaxDefaultEdits

(***************************************************************************)
(* The operator's own writes never meet a refusal by the operator's own    *)
(* webhooks: whatever happens to HermesClusterDefaults after an instance   *)
(* was admitted, the instance goes through admission again with the spec   *)
(* it has, as when EnsureFinalizer, RemoveFinalizer, auto-update's         *)
(* annotation or the semaphore-ui skill are patched.  Otherwise it could   *)
(* never be deleted.                                                       *)
(***************************************************************************)
OwnWritesAdmitted == inst.exists => Admitted(inst)

\* The one explicit value the code does override: the key of a CA bundle
\* that names neither a ConfigMap nor a Secret.
Overridden(m, f) == f = "caKey" /\ ~HasCABundle(m)

(***************************************************************************)
(* "It never overrides explicit values"                                    *)
(* (webhook_hermesinstance_default.go:19): through any sequence of         *)
(* creations, replacements, applies, patches and changes of the defaults,  *)
(* every field the last manifest sets, the image's tag included, has the   *)
(* value it sets.  That is not true of the key in a manifest that names no *)
(* bundle, which ApplyClusterDefaults replaces together with the names.    *)
(***************************************************************************)
ExplicitWins ==
    inst.exists =>
        /\ \A f \in Fields : last.field[f] # "" /\ ~Overridden(last, f)
                               => inst.field[f] = last.field[f]
        /\ \A n \in Numbers : last.num[n] # 0 => inst.num[n] = last.num[n]

\* The defaults give the open fields that admission depends on a value it
\* accepts: the storage class it has, and a tag.
DefaultsStillFit ==
    LET default(f) == IF hcdCache.exists THEN hcdCache.spec.field[f] ELSE ""
    IN  /\ last.field.storageClassName # ""
             \/ inst.field.storageClassName
                    \in {"", default("storageClassName")}
        /\ ImagePinned(last)
             \/ (last.field.tag = "" /\ default("tag") \notin {"", "latest"})

(***************************************************************************)
(* examples/cluster-defaults/README.md: "To force-resync, re-apply the     *)
(* affected instances with `kubectl replace`".  That works whatever the    *)
(* defaults have become, latches included, as long as they still fit.      *)
(***************************************************************************)
ResyncAdmitted ==
    (inst.exists /\ DefaultsStillFit) => Admitted(Replaced(last))

(***************************************************************************)
(* The claim is created once (reconcilePVC), perhaps from an older copy.   *)
(* If it got a storage class, the spec keeps saying that class.            *)
(***************************************************************************)
ClassMatchesVolume ==
    (pvc.exists /\ pvc.class # "") => inst.field.storageClassName = pvc.class

(***************************************************************************)
(* What makes these inductive.  The cached copy is an earlier instance,    *)
(* whose class, once there, has stayed.                                    *)
(***************************************************************************)
CopiesKnown ==
    /\ pvc.exists => inst.exists
    /\ instCache.exists =>
         /\ inst.exists
         /\ instCache.field.storageClassName # ""
              => inst.field.storageClassName = instCache.field.storageClassName

\* What is stored has passed admission, and would pass it as a creation.
Accepted == inst.exists => ImagePinned(inst) /\ ValidateCreate(inst)

\* What nothing but a manifest changes is what the last one said.
FollowsLast ==
    inst.exists =>
        /\ inst.on = last.on /\ inst.refs = last.refs
        /\ inst.sidecars = last.sidecars /\ inst.volumes = last.volumes
        /\ inst.actions = last.actions /\ inst.source = last.source
        /\ inst.restoreFrom = last.restoreFrom
        /\ \A f \in {"minAvailable", "maxUnavailable"} :
             inst.field[f] = last.field[f]
        /\ \A n \in {"minReplicas", "maxReplicas"} :
             inst.num[n] = Number(last.num[n], SchemaNumber[n])

AdmissionInv ==
    /\ TypeOK
    /\ CopiesKnown
    /\ Accepted
    /\ FollowsLast
    /\ ExplicitWins
    /\ ClassMatchesVolume

-----------------------------------------------------------------------------
(***************************************************************************)
(* What an admitted instance is built to.                                  *)
(***************************************************************************)
Names(s) == [n \in DOMAIN s |-> s[n].name]

Distinct(s) == \A m, n \in DOMAIN s : s[m] = s[n] => m = n

BuiltIn == {"hermes", "init-restore", "init-migrate-from-openclaw", "data",
            "config", "tmp", "workspace", "ca-bundle", "openclaw-source"}

\* The names the user chose are distinct and none of the names above, which
\* the webhook does not refuse; it only knows those of the Tailscale sidecar
\* and its volumes, and does not look for them among init containers.  The
\* mounts are of the user's volumes and of those every pod has.
UserNamesFree(i) ==
    /\ Distinct(i.sidecars \o i.inits)
    /\ Distinct(i.volumes)
    /\ ToSet(i.sidecars \o i.inits \o i.volumes) \cap BuiltIn = {}
    /\ "tailscale" \notin ToSet(i.inits)
    /\ ToSet(i.mounts) \subseteq
         ToSet(i.volumes) \cup {"data", "config", "tmp", "workspace"}

PodNeeds(pod) ==
    (UNION {x.needs : x \in ToSet(pod.inits \o pod.containers)})
    \cup (UNION {v.needs : v \in ToSet(pod.volumes)})

PodConsistent(pod) ==
    /\ Distinct(Names(pod.inits \o pod.containers))
    /\ Distinct(Names(pod.volumes))
    /\ \A c \in ToSet(pod.inits \o pod.containers) :
         c.mounts \subseteq ToSet(Names(pod.volumes))

\* Without an account created, the user has to name one.
AccountNamed(i) ==
    IsNotFalse(i, "createServiceAccount") \/ i.field.serviceAccountName # ""

ConfigUsable(i) ==
    LET body == BuildConfigMap(i).body
    IN  (ConfigResolves(i) /\ body.ok) =>
            /\ body.model = IfSet(ResolvedBody(i).model, "placeholder")
            /\ \A g \in Gateways \cap i.on : body.gateways[g] = "operator"

(***************************************************************************)
(* The objects built from an admitted instance fit together, as the API    *)
(* server and the kubelet want them to: container and volume names are     *)
(* unique, mounts have volumes, what the pods refer to is created or       *)
(* provided, enabled gateways have their credentials, the HPA's bounds are *)
(* in order and the PDB is the one asked for.  Port numbers and mount      *)
(* paths used twice are not looked for.  The Honcho pod refers to a claim  *)
(* that is only created with honcho.persistence on.                        *)
(***************************************************************************)
ObjectsAcceptable ==
    inst.exists =>
        LET pod == BuildStatefulSet(inst)
        IN  /\ UserNamesFree(inst) => PodConsistent(pod)
            /\ PodNeeds(pod) \subseteq Created(inst) \cup Provided(inst)
            /\ AccountNamed(inst) =>
                 pod.account \subseteq Created(inst) \cup Provided(inst)
            /\ PodConsistent(BuildHonchoDeployment)
            /\ {"honcho", "honchoPersistence"} \subseteq inst.on =>
                 PodNeeds(BuildHonchoDeployment) \subseteq Created(inst)
            /\ PodConsistent(BuildBackupOneShotJob)
            /\ PodNeeds(BuildBackupOneShotJob) \subseteq Created(inst)
            /\ \A g \in Gateways \cap inst.on :
                 RequiredRefs[g] \subseteq GatewayEnv(inst)
            /\ "honcho" \in inst.on => HonchoConsumerEnv(inst).refs # {}
            /\ ConfigUsable(inst)
            /\ BuildHPA(inst).min <= BuildHPA(inst).max
            /\ inst.field.maxUnavailable \in {"", BuildPDB(inst).maxUnavailable}
            /\ ImageRef(inst) # <<inst.field.repository, ":", "latest">>

\* The container ports a Service port leads to.
Targets(p, containers) ==
    IF p.target # 0 THEN {p.target}
    ELSE {c.port : c \in {c \in UNION {x.ports : x \in ToSet(containers)} :
                            c.name = p.name}}

Opens(rules, labels, proto, port) ==
    \E r \in rules : /\ Selects(r.peer, labels)
                     /\ r.proto = proto
                     /\ r.port = port

\* The labels of the agent's pod and of its namespace.
Agent == LabelsForInstance \cup OwnNamespace

\* The agent gets from the Service to the pod.
ServiceReaches(service, pod, policy) ==
    /\ Selects(service.selector, pod.labels)
    /\ \A p \in ToSet(service.ports) :
         \/ \E port \in Targets(p, pod.containers) :
              Opens(policy.ingress, Agent, p.proto, port)
         \/ p.name = "metrics" /\ p.target = 0

\* The operator's own ports: the webhook does not look for the name an
\* Ingress gives among the ports of the Service.
IngressPortServed(i) ==
    \/ i.ports = <<>> /\ i.ingressPort \in {"", "gateway"}
    \/ i.ingressPort = "metrics" /\ IsNotFalse(i, "metricsEnabled")

(***************************************************************************)
(* Traffic from the instance's namespace gets to where the objects send    *)
(* it, through the policies: every Service port to its container port, an  *)
(* Ingress or HTTPRoute backend to a port of the Service, the agent to     *)
(* Honcho through both policies, the Tailscale sidecar to the agent and to *)
(* the tailnet.  The metrics port is the exception: no container declares  *)
(* it and no policy opens it.                                              *)
(***************************************************************************)
Reachable ==
    inst.exists =>
        LET pod == BuildStatefulSet(inst)
            service == BuildService(inst)
            policy == BuildNetworkPolicy(inst)
            names == PortNames(service.ports)
        IN  /\ Selects(pod.selector, pod.labels)
            /\ Selects(policy.selector, pod.labels)
            /\ Selects(policy.selector, BuildBackupOneShotJob.labels)
            /\ ServiceReaches(service, pod, policy)
            /\ RoutePortName(inst) \in names =>
                 \E p \in ToSet(service.ports) :
                    p.name = RoutePortName(inst) /\ p.port = RoutePort(inst)
            /\ IngressPortServed(inst) => IngressPortName(inst) \in names
            /\ GatewayEgressEndpoints(inst) # {} =>
                 Opens(policy.egress, {}, "TCP", 443)
            /\ "tailscale" \in inst.on =>
                 /\ BuildConfigMap(inst).serves
                      \subseteq {p.port : p \in HermesContainer(inst).ports}
                 /\ \A port \in {3478, 41641} :
                      Opens(policy.egress, {}, "UDP", port)
            /\ "honcho" \in inst.on =>
                 /\ ServiceReaches(BuildHonchoService, BuildHonchoDeployment,
                                   BuildHonchoNetworkPolicy)
                 /\ Selects(BuildHonchoNetworkPolicy.selector,
                            BuildHonchoDeployment.labels)
                 /\ \A port \in HonchoConsumerEnv(inst).ports :
                      Opens(policy.egress, HonchoLabels, "TCP", port)

=============================================================================
