------------------------------ MODULE Instance ------------------------------
(***************************************************************************)
(* HermesInstanceReconciler.Reconcile for an instance that is not being    *)
(* deleted: the ordered subsystem steps with their conditions, the backup  *)
(* CronJobs, and the status at the end                                     *)
(*   internal/controller/hermesinstance_controller.go                      *)
(*   internal/controller/backup.go                       ReconcileCronJob  *)
(*                                                                         *)
(* A subsystem is the sequence of API calls its function makes for a spec, *)
(* so a pass is a walk over those sequences, one call a step.  What an     *)
(* object holds is the generation of the spec it was built from.  The      *)
(* instance and the objects are read from informer caches that lag, while  *)
(* users, other writers and the cluster act between any two calls.         *)
(*                                                                         *)
(* The pass also patches its instance, and the answer replaces the copy it *)
(* works on by what the server has: finalizers before the loop, the skill  *)
(* of Semaphore in it, auto-update's annotation after it.  When the        *)
(* annotation is patched is in AutoUpdate, and left open here; the         *)
(* deletion, the requests to Semaphore and the one-shots have modules of   *)
(* their own.                                                              *)
(***************************************************************************)
EXTENDS Integers, Sequences

CONSTANTS
    Toggled,    \* the features users switch after the creation
    Lagging,    \* the objects whose informer may be behind
    Drifting,   \* the objects others delete or overwrite
    Failing,    \* the objects whose calls may fail
    Reports,    \* the sets of workloads that may be ready at some time
    MaxEdits,   \* bound: edits by users
    MaxFaults   \* bound: failed calls, crashes and writes of others

Features == {"networkPolicy", "serviceAccount", "pdb", "hpa", "ingress",
             "httpRoute", "serviceMonitor", "prometheusRule", "grafana",
             "honcho", "honchoPersistence", "configMapRef", "suspended",
             "schedule", "semaphore",
             "skill",      \* spec.skills has the one of Semaphore
             "finalizer"}  \* backup.onDelete or semaphore.cleanupOnDelete

Monitoring == {"ServiceMonitor", "PrometheusRule"}

\* The unstructured kinds: read from the API server and not watched.
Unwatched == {"HTTPRoute"} \cup Monitoring

RBAC == {"ServiceAccount", "Role", "RoleBinding"}

Dashboards == {"OperatorDashboard", "InstanceDashboard"}

Honcho == {"HonchoPVC", "HonchoService", "HonchoDeployment",
           "HonchoNetworkPolicy"}

CronJobs == {"BackupCronJob", "PruneCronJob"}

Objects == {"Secret", "PVC", "ConfigMap", "WorkspaceConfigMap",
            "NetworkPolicy", "Service", "PDB", "HPA", "Ingress",
            "StatefulSet"}
           \cup RBAC \cup Unwatched \cup Dashboards \cup Honcho \cup CronJobs

ASSUME InstanceAssumption ==
    /\ Toggled \subseteq Features
    /\ Lagging \subseteq Objects \ Unwatched
    /\ Drifting \subseteq Objects
    /\ Failing \subseteq Objects \cup {"Semaphore"}
    /\ Reports \subseteq SUBSET {"StatefulSet", "HonchoDeployment"}
    /\ {MaxEdits, MaxFaults} \subseteq Nat

VARIABLES
    api,         \* the HermesInstance in the API server
    cache,       \* the operator's informer copy of it
    base,        \* the copy as the running pass has read it
    inst,        \* its working copy
    step, call,  \* the next call of the running pass; step 0: no pass runs
    loop,        \* history: its working copy as the loop began
    newest,      \* history: the newest generation a loop has begun with
    lead,        \* history: by how many generations the stored
                 \* observedGeneration is ahead of the one its loop began with
    child,       \* the generation each object was built from, 0 if absent
    childCache,  \* the operator's informer copies of the objects
    refFound,    \* the ConfigMap of spec.config.configMapRef exists
    crds,        \* installed API groups: "gateway", "prometheus"
    edits, faults,
    specs,       \* history: the features of every generation
    disturbed    \* history: objects that others wrote last

vars == <<api, cache, base, inst, step, call, loop, newest, lead, child,
          childCache, refFound, crds, edits, faults, specs, disturbed>>

local == <<base, inst, step, call, loop, newest, lead>>

cluster == <<child, childCache, disturbed>>

outside == <<cache, refFound, crds, edits>>

\* Each edit may be followed by a patch of the skill, and so may the creation.
MaxGeneration == 2 * (MaxEdits + 1)

Generations == 1..MaxGeneration

\* What an object holds that somebody else has written.
Foreign == MaxGeneration + 1

Contents == 0..Foreign

Conditions == {"SecretsReady", "StorageReady", "ConfigReady",
               "NetworkPolicyReady", "RBACReady", "ServiceReady", "PDBReady",
               "HPAReady", "IngressReady", "HTTPRouteReady",
               "ServiceMonitorReady", "PrometheusRuleReady",
               "GrafanaDashboardReady", "StatefulSetReady",
               "ProfileStoreReady", "TailscaleReady", "SemaphoreReady",
               "BackupReady", "Ready"}

\* fin: the finalizers that "finalizer" asks for are there.
\* seen: status.observedGeneration.
HermesInstance == [gen : 0..MaxGeneration, on : SUBSET Features,
                   fin : BOOLEAN,
                   cond : [Conditions -> {"none", "True", "False"}],
                   phase : {"none", "Pending", "Ready", "Suspended"},
                   seen : 0..MaxGeneration]

NoConditions == [c \in Conditions |-> "none"]

NoInstance == [gen |-> 0, on |-> {}, fin |-> FALSE, cond |-> NoConditions,
               phase |-> "none", seen |-> 0]

Init ==
    /\ api \in {[NoInstance EXCEPT !.gen = 1, !.on = on] :
                    on \in SUBSET Features}
    /\ cache = api
    /\ base = NoInstance
    /\ inst = NoInstance
    /\ step = 0
    /\ call = 1
    /\ loop = NoInstance
    /\ newest = 0
    /\ lead = 0
    /\ child = [o \in Objects |-> 0]
    /\ childCache = child
    /\ refFound \in BOOLEAN
    /\ crds \in SUBSET {"gateway", "prometheus"}
    /\ edits \in 0..MaxEdits      \* how much of each bound is used up
    /\ faults \in 0..MaxFaults
    /\ specs = [g \in Generations |-> IF g = 1 THEN api.on ELSE {}]
    /\ disturbed = {}

-----------------------------------------------------------------------------
(***************************************************************************)
(* The subsystems: the calls of each reconcile function for the features   *)
(* of a spec.                                                              *)
(***************************************************************************)
Apply(o) == [op |-> "apply", obj |-> o]      \* CreateOrUpdate

Ensure(o) == [op |-> "ensure", obj |-> o]    \* Get, Create when not found

Remove(o) == [op |-> "remove", obj |-> o]    \* deleteIfExists

Switch(o, enabled) == IF enabled THEN Apply(o) ELSE Remove(o)

ReconcileSecret(on) == <<Apply("Secret")>>

ReconcilePVC(on) == <<Ensure("PVC")>>

ResolveConfigBody(on) ==
    IF "configMapRef" \in on
    THEN <<[op |-> "resolve", obj |-> "ConfigMap"]>> ELSE <<>>

ReconcileConfigMap(on) == Append(ResolveConfigBody(on), Apply("ConfigMap"))

ReconcileWorkspaceConfigMap(on) == <<Apply("WorkspaceConfigMap")>>

ReconcileNetworkPolicy(on) ==
    <<Switch("NetworkPolicy", "networkPolicy" \in on)>>

ReconcileRBAC(on) ==
    IF "serviceAccount" \in on
    THEN <<Apply("ServiceAccount"), Apply("Role"), Apply("RoleBinding")>>
    ELSE <<>>

ReconcileService(on) == <<Apply("Service")>>

ReconcilePDB(on) == <<Switch("PDB", "pdb" \in on)>>

ReconcileHPA(on) == <<Switch("HPA", "hpa" \in on)>>

\* Mutant: switching it off leaves the Ingress.
ReconcileIngress_NoDelete(on) ==
    IF "ingress" \in on THEN <<Apply("Ingress")>> ELSE <<>>

ReconcileIngress(on) == <<Switch("Ingress", "ingress" \in on)>>

ReconcileHTTPRoute(on) == <<Switch("HTTPRoute", "httpRoute" \in on)>>

ReconcileServiceMonitor(on) ==
    IF "prometheus" \in crds
    THEN <<Switch("ServiceMonitor", "serviceMonitor" \in on)>> ELSE <<>>

ReconcilePrometheusRule(on) ==
    IF "prometheus" \in crds
    THEN <<Switch("PrometheusRule", "prometheusRule" \in on)>> ELSE <<>>

ReconcileGrafanaDashboards(on) ==
    <<Switch("OperatorDashboard", "grafana" \in on),
      Switch("InstanceDashboard", "grafana" \in on)>>

ReconcileStatefulSet(on) == <<Apply("StatefulSet")>>

\* Mutant: switching Honcho off removes its volume.
ReconcileHoncho_DropsPVC(on) ==
    <<Switch("HonchoPVC", {"honcho", "honchoPersistence"} \subseteq on),
      Switch("HonchoService", "honcho" \in on),
      Switch("HonchoDeployment", "honcho" \in on),
      Switch("HonchoNetworkPolicy", {"honcho", "networkPolicy"} \subseteq on)>>

\* The volume is only created: switching Honcho off leaves it.
ReconcileHoncho(on) ==
    (IF {"honcho", "honchoPersistence"} \subseteq on
     THEN <<Ensure("HonchoPVC")>> ELSE <<>>)
    \o <<Switch("HonchoService", "honcho" \in on),
         Switch("HonchoDeployment", "honcho" \in on),
         Switch("HonchoNetworkPolicy",
                {"honcho", "networkPolicy"} \subseteq on)>>

ReconcileTailscale(on) == <<>>

\* Semaphore.tla has the requests; here they are a call that may fail.  The
\* last thing is a patch of the instance, when its skill is missing.
ReconcileSemaphore(on) ==
    IF "semaphore" \in on
    THEN <<[op |-> "provision", obj |-> "Semaphore"]>>
         \o (IF "skill" \in on THEN <<>>
             ELSE <<[op |-> "patch", obj |-> "Semaphore"]>>)
    ELSE <<>>

\* Switching the schedule off removes one of the two.
ReconcileCronJob(on) ==
    IF "schedule" \in on
    THEN <<Apply("BackupCronJob"), Apply("PruneCronJob")>>
    ELSE <<Remove("BackupCronJob")>>

\* Mutant: the pod comes before what it depends on.
Order_PodFirst ==
    <<"StatefulSet", "Secret", "PVC", "ConfigMap", "WorkspaceConfigMap",
      "NetworkPolicy", "RBAC", "Service", "PDB", "HPA", "Ingress", "HTTPRoute",
      "ServiceMonitor", "PrometheusRule", "GrafanaDashboard", "Honcho",
      "Tailscale", "Semaphore", "BackupCronJob">>

\* The subsystems in the order of the loop, and the CronJobs after it.
Order ==
    <<"Secret", "PVC", "ConfigMap", "WorkspaceConfigMap", "NetworkPolicy",
      "RBAC", "Service", "PDB", "HPA", "Ingress", "HTTPRoute",
      "ServiceMonitor", "PrometheusRule", "GrafanaDashboard", "StatefulSet",
      "Honcho", "Tailscale", "Semaphore", "BackupCronJob">>

\* The condition of each: two of them share one.
ConditionOf ==
    [Secret |-> "SecretsReady", PVC |-> "StorageReady",
     ConfigMap |-> "ConfigReady", WorkspaceConfigMap |-> "ConfigReady",
     NetworkPolicy |-> "NetworkPolicyReady", RBAC |-> "RBACReady",
     Service |-> "ServiceReady", PDB |-> "PDBReady", HPA |-> "HPAReady",
     Ingress |-> "IngressReady", HTTPRoute |-> "HTTPRouteReady",
     ServiceMonitor |-> "ServiceMonitorReady",
     PrometheusRule |-> "PrometheusRuleReady",
     GrafanaDashboard |-> "GrafanaDashboardReady",
     StatefulSet |-> "StatefulSetReady", Honcho |-> "ProfileStoreReady",
     Tailscale |-> "TailscaleReady", Semaphore |-> "SemaphoreReady",
     BackupCronJob |-> "BackupReady"]

CallsOf(name, on) ==
    CASE name = "Secret" -> ReconcileSecret(on)
      [] name = "PVC" -> ReconcilePVC(on)
      [] name = "ConfigMap" -> ReconcileConfigMap(on)
      [] name = "WorkspaceConfigMap" -> ReconcileWorkspaceConfigMap(on)
      [] name = "NetworkPolicy" -> ReconcileNetworkPolicy(on)
      [] name = "RBAC" -> ReconcileRBAC(on)
      [] name = "Service" -> ReconcileService(on)
      [] name = "PDB" -> ReconcilePDB(on)
      [] name = "HPA" -> ReconcileHPA(on)
      [] name = "Ingress" -> ReconcileIngress(on)
      [] name = "HTTPRoute" -> ReconcileHTTPRoute(on)
      [] name = "ServiceMonitor" -> ReconcileServiceMonitor(on)
      [] name = "PrometheusRule" -> ReconcilePrometheusRule(on)
      [] name = "GrafanaDashboard" -> ReconcileGrafanaDashboards(on)
      [] name = "StatefulSet" -> ReconcileStatefulSet(on)
      [] name = "Honcho" -> ReconcileHoncho(on)
      [] name = "Tailscale" -> ReconcileTailscale(on)
      [] name = "Semaphore" -> ReconcileSemaphore(on)
      [] name = "BackupCronJob" -> ReconcileCronJob(on)

CronJobStep == Len(Order)

StatusStep == CronJobStep + 1

-----------------------------------------------------------------------------
(***************************************************************************)
(* A pass.                                                                 *)
(***************************************************************************)
Calls == CallsOf(Order[step], inst.on)

Condition == ConditionOf[Order[step]]

AtCall == step \in 1..CronJobStep /\ call <= Len(Calls)

Op == Calls[call].op

Obj == Calls[call].obj

Goto(s, c) == step' = s /\ call' = c

Return ==
    /\ base' = NoInstance
    /\ inst' = NoInstance
    /\ loop' = NoInstance
    /\ Goto(0, 1)
    /\ UNCHANGED newest

\* Status().Update: refused when the instance has changed since it was read.
SaveStatus(o) ==
    api' = IF api = base
           THEN [api EXCEPT !.cond = o.cond, !.phase = o.phase,
                            !.seen = o.seen]
           ELSE api

(***************************************************************************)
(* The answer to a Patch of the instance is decoded over the working copy: *)
(* spec and status become the server's, whoever wrote them, but what the   *)
(* server's object leaves out stays in the copy: features in kept, whose   *)
(* fields the user has removed rather than set to false, and the           *)
(* conditions while none is stored.                                        *)
(***************************************************************************)
Answered(copy, server, kept) ==
    [server EXCEPT !.on = @ \cup (kept \cap copy.on),
                   !.cond = IF @ = NoConditions THEN copy.cond ELSE @]

\* Informers deliver the operator's own write at once or some time later.
Write(o, content) ==
    /\ child' = [child EXCEPT ![o] = content]
    /\ childCache' = IF o \in Lagging THEN childCache
                     ELSE [childCache EXCEPT ![o] = content]
    /\ disturbed' = disturbed \ {o}

Read(o) == IF o \in Unwatched THEN child[o] ELSE childCache[o]

BeginLoop ==
    /\ loop' = inst'
    /\ newest' = inst'.gen
    /\ Goto(1, 1)
    /\ UNCHANGED <<lead, specs, cluster, outside, faults>>

FinalizerMissing == "finalizer" \in cache.on /\ ~cache.fin

BeginReconcile ==
    /\ step = 0
    /\ ~FinalizerMissing
    /\ base' = cache
    /\ inst' = cache
    /\ BeginLoop
    /\ UNCHANGED api

BeginWithFinalizer(kept) ==
    /\ step = 0
    /\ FinalizerMissing
    /\ api' = [api EXCEPT !.fin = TRUE]
    /\ base' = api'
    /\ inst' = Answered(cache, api', kept)
    /\ BeginLoop

\* The calls: nothing is written when the copy read is as wanted.
CreateOrUpdate(o) ==
    IF Read(o) = inst.gen THEN UNCHANGED cluster ELSE Write(o, inst.gen)

CreateIfMissing(o) ==
    IF Read(o) # 0 THEN UNCHANGED cluster ELSE Write(o, inst.gen)

DeleteIfExists(o) == IF Read(o) = 0 THEN UNCHANGED cluster ELSE Write(o, 0)

Effect ==
    \/ Op = "apply" /\ CreateOrUpdate(Obj)
    \/ Op = "ensure" /\ CreateIfMissing(Obj)
    \/ Op = "remove" /\ DeleteIfExists(Obj)
    \/ Op \in {"resolve", "provision", "patch"} /\ UNCHANGED cluster

\* The write is a create of what exists or an update of another version.
Outdated(o) == Read(o) # child[o]

Refused ==
    \/ Op = "apply" /\ Obj = "HTTPRoute" /\ "gateway" \notin crds
    \/ Op = "apply" /\ Read(Obj) # inst.gen /\ Outdated(Obj)
    \/ Op = "ensure" /\ Read(Obj) = 0 /\ Outdated(Obj)
    \/ Op = "resolve" /\ ~refFound

\* All calls of a subsystem are done: its condition is True.  Without a
\* schedule there is no BackupReady.
Reconciled ==
    /\ inst' = [inst EXCEPT !.cond[Condition] =
            IF step = CronJobStep /\ "schedule" \notin inst.on THEN "none"
            ELSE "True"]
    /\ Goto(step + 1, 1)

CallSucceeds ==
    /\ AtCall
    /\ Op # "patch"
    /\ ~Refused
    /\ Effect
    /\ IF call < Len(Calls) THEN Goto(step, call + 1) /\ UNCHANGED inst
       ELSE Reconciled
    /\ UNCHANGED <<api, base, loop, newest, lead, specs, outside, faults>>

NothingToCall ==
    /\ step \in 1..CronJobStep
    /\ Calls = <<>>
    /\ Reconciled
    /\ UNCHANGED <<api, base, loop, newest, lead, specs, cluster, outside,
                   faults>>

\* A merge patch without a resourceVersion: it is a change of the spec, and
\* so a generation, unless the server has the skill already.
AddSkill ==
    IF "skill" \in api.on THEN UNCHANGED <<api, specs>>
    ELSE /\ api' = [api EXCEPT !.gen = @ + 1, !.on = @ \cup {"skill"}]
         /\ specs' = [specs EXCEPT ![api.gen + 1] = api.on \cup {"skill"}]

PatchSkill(kept) ==
    /\ AtCall
    /\ Op = "patch"
    /\ AddSkill
    /\ base' = api'
    /\ inst' = [Answered(inst, api', kept) EXCEPT !.cond[Condition] = "True"]
    /\ Goto(step + 1, 1)
    /\ UNCHANGED <<loop, newest, lead, cluster, outside, faults>>

\* Mutant: a failed pass sets observedGeneration.
Report_Observes ==
    SaveStatus([inst EXCEPT !.cond[Condition] = "False",
                            !.seen = inst.gen])

\* Mutant: the condition of a failure is not saved.
Report_Unsaved == UNCHANGED api

\* The condition of the failed subsystem, saved at once; no other is touched.
Report ==
    SaveStatus([inst EXCEPT !.cond[Condition] = "False"])

\* An error of a subsystem ends the pass.
SubsystemRefused ==
    /\ AtCall
    /\ step < CronJobStep
    /\ Refused
    /\ Report
    /\ Return
    /\ UNCHANGED <<lead, specs, cluster, outside, faults>>

\* A fault hits before or after the call takes effect.
Fault ==
    /\ AtCall
    /\ Obj \in Failing
    /\ faults < MaxFaults
    /\ faults' = faults + 1
    /\ UNCHANGED cluster \/ (~Refused /\ Effect)

SubsystemFails ==
    /\ Fault
    /\ step < CronJobStep
    /\ \/ (Report \/ UNCHANGED api) /\ UNCHANGED specs
       \/ Op = "patch" /\ AddSkill
    /\ Return
    /\ UNCHANGED <<lead, outside>>

\* An error of ReconcileCronJob is logged, and the pass goes on.
CronJobRefused ==
    /\ AtCall
    /\ step = CronJobStep
    /\ Refused
    /\ Goto(StatusStep, 1)
    /\ UNCHANGED <<api, base, inst, loop, newest, lead, specs, cluster,
                   outside, faults>>

CronJobFails ==
    /\ Fault
    /\ step = CronJobStep
    /\ Goto(StatusStep, 1)
    /\ UNCHANGED <<api, base, inst, loop, newest, lead, specs, outside>>

-----------------------------------------------------------------------------
(***************************************************************************)
(* Migration, restore and auto-update come next.  They save the status     *)
(* with what the pass has put into it so far, and auto-update patches its  *)
(* annotation.                                                             *)
(***************************************************************************)
SubReconcilerSaves ==
    /\ step = StatusStep
    /\ api = base
    /\ SaveStatus(inst)
    /\ base' = api'
    /\ UNCHANGED <<inst, step, call, loop, newest, lead, specs, cluster,
                   outside, faults>>

PatchAnnotation(kept) ==
    /\ step = StatusStep
    /\ base' = api
    /\ inst' = Answered(inst, api, kept)
    /\ UNCHANGED <<api, step, call, loop, newest, lead, specs, cluster,
                   outside, faults>>

-----------------------------------------------------------------------------
(***************************************************************************)
(* The end of a pass.  Ready looks at the StatefulSet alone, and is left   *)
(* as it is while the instance is suspended.                               *)
(***************************************************************************)
\* Mutant: a workload that is not ready is Unknown.
Flag_Unknown(b) == IF b THEN "True" ELSE "Unknown"

Flag(b) == IF b THEN "True" ELSE "False"

ProfileStore(ready) == Flag("honcho" \in inst.on => ready)

Phase(ready) ==
    IF "suspended" \in inst.on THEN "Suspended"
    ELSE IF ready THEN "Ready" ELSE "Pending"

UpdateStatus(ready) ==
    /\ step = StatusStep
    /\ childCache["StatefulSet"] # 0
    /\ SaveStatus([inst EXCEPT
            !.phase = Phase("StatefulSet" \in ready),
            !.seen = inst.gen,
            !.cond["ProfileStoreReady"] =
                ProfileStore("HonchoDeployment" \in ready),
            !.cond["Ready"] = IF "suspended" \in inst.on THEN @
                              ELSE Flag("StatefulSet" \in ready)])
    /\ lead' = IF api = base THEN inst.gen - loop.gen ELSE lead
    /\ Return
    /\ UNCHANGED <<specs, cluster, outside, faults>>

StatefulSetNotFound ==
    /\ step = StatusStep
    /\ childCache["StatefulSet"] = 0
    /\ Return
    /\ UNCHANGED <<api, lead, specs, cluster, outside, faults>>

\* A failed status update is only logged; a crash, or a patch before the loop
\* that fails, ends the pass.
StatusLostOrCrash ==
    /\ step # 0
    /\ faults < MaxFaults
    /\ faults' = faults + 1
    /\ Return
    /\ UNCHANGED <<api, lead, specs, cluster, outside>>

-----------------------------------------------------------------------------
(***************************************************************************)
(* The cluster and its users.                                              *)
(***************************************************************************)
SyncInstance ==
    /\ cache # api
    /\ cache' = api
    /\ UNCHANGED <<api, local, cluster, refFound, crds, edits, faults,
                   specs>>

SyncObject(o) ==
    /\ childCache[o] # child[o]
    /\ childCache' = [childCache EXCEPT ![o] = child[o]]
    /\ UNCHANGED <<api, local, specs, child, disturbed, outside, faults>>

Edit == edits < MaxEdits /\ edits' = edits + 1

Toggle(f) ==
    /\ Edit
    /\ LET on == IF f \in api.on THEN api.on \ {f} ELSE api.on \cup {f}
       IN  /\ api' = [api EXCEPT !.gen = @ + 1, !.on = on]
           /\ specs' = [specs EXCEPT ![api.gen + 1] = on]
    /\ UNCHANGED <<cache, local, cluster, refFound, crds, faults>>

\* The user's own ConfigMap comes or goes: no generation, no watch.
ToggleConfigMapRef ==
    /\ Edit
    /\ "configMapRef" \in api.on
    /\ refFound' = ~refFound
    /\ UNCHANGED <<api, cache, local, cluster, crds, faults, specs>>

\* Somebody else deletes or overwrites an object of the instance.
Disturb(o, content) ==
    /\ faults < MaxFaults
    /\ faults' = faults + 1
    /\ child[o] \notin {0, content}
    /\ child' = [child EXCEPT ![o] = content]
    /\ childCache' = IF o \in Lagging THEN childCache
                     ELSE [childCache EXCEPT ![o] = content]
    /\ disturbed' = disturbed \cup {o}
    /\ UNCHANGED <<api, local, specs, outside>>

ReconcileStep ==
    \/ BeginReconcile
    \/ CallSucceeds \/ NothingToCall \/ SubsystemRefused \/ CronJobRefused
    \/ \E kept \in SUBSET Toggled : BeginWithFinalizer(kept) \/ PatchSkill(kept)
    \/ StatefulSetNotFound
    \/ \E ready \in Reports : UpdateStatus(ready)

Next ==
    \/ ReconcileStep
    \/ SubReconcilerSaves
    \/ \E kept \in SUBSET Toggled : PatchAnnotation(kept)
    \/ SubsystemFails \/ CronJobFails \/ StatusLostOrCrash
    \/ SyncInstance
    \/ \E o \in Lagging : SyncObject(o)
    \/ \E f \in Toggled : Toggle(f)
    \/ ToggleConfigMapRef
    \/ \E o \in Drifting, content \in {0, Foreign} : Disturb(o, content)

Spec == Init /\ [][Next]_vars

(***************************************************************************)
(* A pass is always followed by another: an error is retried with backoff, *)
(* a success requeues after five minutes.  The watches deliver.            *)
(***************************************************************************)
Fairness ==
    /\ WF_vars(ReconcileStep)
    /\ WF_vars(SyncInstance)
    /\ \A o \in Lagging : WF_vars(SyncObject(o))

FairSpec == Spec /\ Fairness

-----------------------------------------------------------------------------
TypeOK ==
    /\ {api, cache, base, inst} \subseteq HermesInstance
    /\ step \in 0..StatusStep
    /\ call \in 1..4
    /\ loop \in HermesInstance
    /\ newest \in 0..MaxGeneration
    /\ lead \in 0..MaxGeneration
    /\ child \in [Objects -> Contents]
    /\ childCache \in [Objects -> Contents]
    /\ refFound \in BOOLEAN
    /\ crds \subseteq {"gateway", "prometheus"}
    /\ edits \in 0..MaxEdits
    /\ faults \in 0..MaxFaults
    /\ specs \in [Generations -> SUBSET Features]
    /\ disturbed \subseteq Objects

\* What each object is there for, from the API's documentation of the spec.
\* An object without an entry is there for every instance.
Needs(o) ==
    CASE o = "NetworkPolicy" -> {"networkPolicy"}
      [] o \in RBAC -> {"serviceAccount"}
      [] o = "PDB" -> {"pdb"}
      [] o = "HPA" -> {"hpa"}
      [] o = "Ingress" -> {"ingress"}
      [] o = "HTTPRoute" -> {"httpRoute"}
      [] o = "ServiceMonitor" -> {"serviceMonitor"}
      [] o = "PrometheusRule" -> {"prometheusRule"}
      [] o \in Dashboards -> {"grafana"}
      [] o = "HonchoPVC" -> {"honcho", "honchoPersistence"}
      [] o = "HonchoNetworkPolicy" -> {"honcho", "networkPolicy"}
      [] o \in {"HonchoService", "HonchoDeployment"} -> {"honcho"}
      [] o \in CronJobs -> {"schedule"}
      [] OTHER -> {}

Wanted(o, on) ==
    Needs(o) \subseteq on /\ (o \in Monitoring => "prometheus" \in crds)

\* What holds data or an identity others may rely on, and the prune CronJob.
Retained == {"Secret", "PVC", "HonchoPVC", "PruneCronJob"} \cup RBAC

CreateOnly == {"PVC", "HonchoPVC"}

UpToDate(o, g) == IF o \in CreateOnly THEN child[o] # 0 ELSE child[o] >= g

(***************************************************************************)
(* What the status says was observed was written: no stale cache, refused  *)
(* update, fault or edit gets a half-applied spec reported as observed.    *)
(* The exception is what an answer to a patch brought into the pass after  *)
(* its loop had begun: the status is ahead by exactly these generations    *)
(* (lead), whose objects the next pass writes (Converges).  What later     *)
(* specs keep is still there.  The CronJobs, whose errors the pass drops,  *)
(* are not included.                                                       *)
(***************************************************************************)
ObservedMeansApplied ==
    api.seen # 0 =>
        \A o \in Objects \ (CronJobs \cup disturbed) :
            (\A h \in (api.seen - lead)..api.gen : Wanted(o, specs[h]))
                => UpToDate(o, api.seen - lead)

(***************************************************************************)
(* The agent's pod template of a generation is only there once what the    *)
(* loop applies before it is: network policy, identity, configuration and  *)
(* storage of that generation, as long as later generations keep them.     *)
(***************************************************************************)
PodAfterItsPolicies ==
    \A g \in 1..api.gen : child["StatefulSet"] = g =>
        \A o \in Objects \ (Honcho \cup CronJobs \cup disturbed) :
            (\A h \in g..api.gen : Wanted(o, specs[h])) => UpToDate(o, g)

(***************************************************************************)
(* An object the operator removes is one whose feature is off in a spec no *)
(* older than the one it was written for, and never one that holds data    *)
(* ("leave on disable (data safety)", reconcileHoncho).  The backup        *)
(* CronJob may have been written for the answer to a patch and be removed  *)
(* by a next pass that still reads an older spec: its schedule was off at  *)
(* some time only.                                                         *)
(***************************************************************************)
RemovedOnlyWhenOff ==
    [][ \A o \in Objects :
            child[o] # 0 /\ child'[o] = 0 /\ o \notin disturbed' =>
                /\ o \notin Retained
                /\ \E h \in 1..api.gen :
                     /\ ~Wanted(o, specs[h])
                     /\ h >= child[o] \/ child[o] = Foreign \/ o \in CronJobs
      ]_vars

(***************************************************************************)
(* What makes these inductive.                                             *)
(***************************************************************************)
\* The copies of the instance are of versions it has had, but for features
\* that were removed.
CopyKnown(o) ==
    /\ o.gen \in 1..api.gen
    /\ specs[o.gen] \subseteq o.on

CopiesKnown ==
    /\ api.gen \in Generations /\ api.on = specs[api.gen]
    /\ api.gen <= 2 * edits + (IF "skill" \in api.on THEN 2 ELSE 1)
    /\ cache.gen \in 1..api.gen /\ cache.on = specs[cache.gen]
    /\ step # 0 => CopyKnown(inst) /\ CopyKnown(loop) /\ base.seen = inst.seen

\* A loop begins with no older generation than the ones before it: a copy in
\* the cache that is older than an answer lacks the finalizer, and is patched
\* again.  The pass works on that generation until Semaphore is done.
LoopKnown ==
    /\ newest <= api.gen
    /\ newest <= cache.gen \/ FinalizerMissing
    /\ api.seen # 0 => api.seen - lead \in 1..newest
    /\ step # 0 => loop.gen = newest /\ newest <= inst.gen
    /\ step \in 1..(CronJobStep - 1) => inst.gen = loop.gen /\ inst.on = loop.on

\* What is found in an object was put there for a spec a loop began with; in
\* a CronJob, for any.
Justified(o, content) ==
    \/ content = Foreign
    \/ content <= IF o \in CronJobs THEN api.gen ELSE newest

\* A cached object is what it was, unless a later spec has switched it off or
\* somebody else has written it.
CacheKnown(o) ==
    /\ o \notin Lagging => childCache[o] = child[o]
    /\ childCache[o] # 0 /\ o \notin CronJobs \cup disturbed =>
         IF o \in CreateOnly THEN child[o] # 0
         ELSE \/ childCache[o] = Foreign
              \/ child[o] >= childCache[o]
              \/ \E k \in childCache[o]..newest : ~Wanted(o, specs[k])

\* The calls the loop has behind it.
Made(n, c) ==
    /\ c <= Len(CallsOf(Order[n], loop.on))
    /\ n < step \/ (n = step /\ c < call)

PassKnown ==
    \A n \in 1..(CronJobStep - 1), c \in 1..4 : Made(n, c) =>
        LET k == CallsOf(Order[n], loop.on)[c]
        IN  k.op \in {"apply", "ensure"} /\ k.obj \notin disturbed
                => (Wanted(k.obj, specs[loop.gen]) => UpToDate(k.obj, loop.gen))

InstanceInv ==
    /\ TypeOK
    /\ CopiesKnown
    /\ LoopKnown
    /\ \A o \in Objects : /\ Justified(o, child[o])
                          /\ Justified(o, childCache[o])
                          /\ CacheKnown(o)
    /\ PassKnown
    /\ ObservedMeansApplied
    /\ PodAfterItsPolicies

\* The current spec cannot be reconciled in this cluster.
Blocked ==
    \/ "configMapRef" \in api.on /\ ~refFound
    \/ "httpRoute" \in api.on /\ "gateway" \notin crds

(***************************************************************************)
(* Once users stop, and whatever others have done to the objects, the      *)
(* objects become those of the last spec and the status says so: what is   *)
(* switched off is gone, apart from what is retained.                      *)
(***************************************************************************)
Settled ==
    /\ api.seen = api.gen
    /\ \A o \in Objects :
        IF Wanted(o, api.on)
        THEN child[o] = api.gen \/ (o \in CreateOnly /\ child[o] # 0)
        ELSE child[o] = 0 \/ o \in Retained

Converges == <>[](Blocked \/ Settled)

(***************************************************************************)
(* A spec that cannot be reconciled ends up with a False condition in the  *)
(* stored status: the ignored result of the status update in the error     *)
(* path loses it only for a while.                                         *)
(***************************************************************************)
FailureReported ==
    <>[]Blocked =>
        <>[](\E c \in Conditions \ {"Ready"} : api.cond[c] = "False")

-----------------------------------------------------------------------------
(***************************************************************************)
(* Statements of the documentation.                                        *)
(***************************************************************************)

\* docs/api-reference.md: observedGeneration is the "Most recent
\* `metadata.generation` that the controller has fully reconciled": what that
\* generation asks for, and is still asked for, has at least been created.
FullyReconciled ==
    api.seen = api.gen =>
        \A o \in Objects \ (CronJobs \cup disturbed) :
            Wanted(o, api.on) => child[o] # 0

=============================================================================
