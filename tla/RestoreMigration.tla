-------------------------- MODULE RestoreMigration --------------------------
(***************************************************************************)
(* The one-shot initialisations of an instance's volume: restore of a      *)
(* snapshot (spec.restoreFrom) and migration from OpenClaw                 *)
(* (spec.migration.fromOpenClaw), each an init container the operator puts *)
(* in the pod template until its status latch is set                       *)
(*   internal/controller/restore.go, migration.go                          *)
(*   internal/resources/restore_init.go, migration_init.go                 *)
(*   internal/webhook/webhook_hermesinstance_validate.go  immutability     *)
(*                                                                         *)
(* The operator works on cached copies of the instance and of the pod, the *)
(* kubelet runs the init containers of whatever pod there is, and the user *)
(* edits the spec as far as the validating webhook allows.                 *)
(***************************************************************************)
EXTENDS Naturals

CONSTANTS
    MaxKey,       \* snapshot keys are 1..MaxKey; 0 is the empty string
    MaxEdits,     \* bound: edits of the spec
    MaxRestarts,  \* bound: evictions and restarts of the pod
    MaxFaults     \* bound: crashes, failed calls, failed init containers

ASSUME OneShotAssumption ==
    /\ MaxKey \in Nat \ {0}
    /\ MaxEdits \in Nat
    /\ MaxRestarts \in Nat
    /\ MaxFaults \in Nat

VARIABLES
    api,       \* the HermesInstance in the API server
    cache,     \* the operator's informer copy of it
    read,      \* the version the running reconcile last read or wrote
    inst,      \* its working copy: read with changes not yet written
    pc,        \* the next part of the running reconcile
    sts,       \* init containers in the StatefulSet's pod template
    pod,       \* the pod and its init container statuses
    podCache,  \* the operator's informer copy of it
    data,      \* the volume
    source,    \* the snapshot extracted to it, or 0
    imported,  \* the importer has run on it
    used,      \* the agent has run on it
    restarts, faults

vars == <<api, cache, read, inst, pc, sts, pod, podCache, data, source,
          imported, used, restarts, faults>>

operator == <<cache, read, inst, pc>>

volume == <<data, source, imported, used>>

Key == 0..MaxKey

\* gen is metadata.generation; rcond and mcond are the reasons of conditions
\* RestoreApplied and MigrationCompleted.
Object == [gen : 0..MaxEdits, restoreFrom : Key, migrate : BOOLEAN,
           s3 : BOOLEAN, restoredFrom : Key, completed : BOOLEAN,
           rcond : {"none", "Restoring", "RestoreFailed", "RestoreCompleted"},
           mcond : {"none", "MigrationFailed", "MigrationCompleted"}]

Template == [exists : BOOLEAN, restore : Key, migrate : BOOLEAN]

InitStates == {"none", "waiting", "ok", "failed"}

Pod == [tmpl : Template, restore : InitStates, migrate : InitStates]

Absent == [exists |-> FALSE, restore |-> 0, migrate |-> FALSE]

NewPod(t) ==
    [tmpl |-> t,
     restore |-> IF t.restore = 0 THEN "none" ELSE "waiting",
     migrate |-> IF t.migrate THEN "waiting" ELSE "none"]

-----------------------------------------------------------------------------
\* BuildRestoreInitContainer and BuildMigrationInitContainer
Desired(o) ==
    [exists |-> TRUE,
     restore |-> IF o.restoredFrom # o.restoreFrom /\ o.s3
                 THEN o.restoreFrom ELSE 0,
     migrate |-> o.migrate /\ ~o.completed]

\* Mutant: a latched restoreFrom may be changed.
ValidateImmutableTerminals_Restore(old, new) ==
    old.completed => old.migrate = new.migrate

\* validateImmutableTerminals
ValidateImmutableTerminals(old, new) ==
    /\ (old.restoredFrom # 0 /\ old.restoredFrom = old.restoreFrom)
         => old.restoreFrom = new.restoreFrom
    /\ old.completed => old.migrate = new.migrate

\* Mutant: both may be set.
ValidateRestoreMigrationMutualExclusion_Off(o) == TRUE

\* validateRestoreMigrationMutualExclusion
ValidateRestoreMigrationMutualExclusion(o) == ~(o.restoreFrom # 0 /\ o.migrate)

Fault ==
    /\ faults < MaxFaults
    /\ faults' = faults + 1

\* Status().Update of the working copy o.  When it is refused, because the
\* object has changed since it was read, or fails, the error is logged and o
\* stays in memory for the Status().Update that ends the reconcile.
SaveStatus(o) ==
    /\ inst' = o
    /\ \/ read = api /\ api' = o /\ read' = o /\ UNCHANGED faults
       \/ read = api /\ Fault /\ UNCHANGED <<api, read>>
       \/ read # api /\ UNCHANGED <<api, read, faults>>

Unsaved(o) ==
    /\ inst' = o
    /\ UNCHANGED <<api, read, faults>>

Init ==
    /\ api \in [gen : {0}, restoreFrom : Key, migrate : BOOLEAN,
                s3 : BOOLEAN, restoredFrom : {0}, completed : {FALSE},
                rcond : {"none"}, mcond : {"none"}]
    /\ ValidateRestoreMigrationMutualExclusion(api)
    /\ cache = api
    /\ read = api
    /\ inst = api
    /\ pc = "idle"
    /\ sts = Absent
    /\ pod = NewPod(Absent)
    /\ podCache = pod
    /\ data = "empty"
    /\ source = 0
    /\ imported = FALSE
    /\ used = FALSE
    /\ restarts = 0
    /\ faults = 0

-----------------------------------------------------------------------------
(***************************************************************************)
(* The reconcile, as far as the init containers are concerned.             *)
(***************************************************************************)
BeginReconcile ==
    /\ pc = "idle"
    /\ read' = cache
    /\ inst' = cache
    /\ pc' = "statefulSet"
    /\ UNCHANGED <<api, cache, sts, pod, podCache, volume, restarts, faults>>

\* A failed call, or a refused Update, ends the reconcile here.
ReconcileStatefulSet ==
    /\ pc = "statefulSet"
    /\ \/ sts' = Desired(inst) /\ pc' = "migration" /\ UNCHANGED faults
       \/ sts' = sts /\ pc' = "idle" /\ Fault
    /\ UNCHANGED <<api, cache, read, inst, pod, podCache, volume, restarts>>

-----------------------------------------------------------------------------
(***************************************************************************)
(* MigrationReconciler.Reconcile.                                          *)
(***************************************************************************)
MigrationGoesOn ==
    /\ pc' = "restore"
    /\ UNCHANGED <<cache, sts, pod, podCache, volume, restarts>>

MigrationPending ==
    /\ pc = "migration"
    /\ inst.migrate
    /\ ~inst.completed

MigrationNotPending ==
    /\ pc = "migration"
    /\ ~MigrationPending
    /\ Unsaved(IF inst.migrate
               THEN [inst EXCEPT !.mcond = "MigrationCompleted"] ELSE inst)
    /\ MigrationGoesOn

\* Mutant: the exit code is not looked at.
MigrationCompleted_AnyExit ==
    /\ MigrationPending
    /\ podCache.migrate \in {"ok", "failed"}
    /\ SaveStatus([inst EXCEPT !.completed = TRUE,
                               !.mcond = "MigrationCompleted"])
    /\ MigrationGoesOn

MigrationCompleted ==
    /\ MigrationPending
    /\ podCache.migrate = "ok"
    /\ SaveStatus([inst EXCEPT !.completed = TRUE,
                               !.mcond = "MigrationCompleted"])
    /\ MigrationGoesOn

MigrationFailed ==
    /\ MigrationPending
    /\ podCache.migrate = "failed"
    /\ SaveStatus([inst EXCEPT !.mcond = "MigrationFailed"])
    /\ MigrationGoesOn

\* No pod, no such init container, or one that has not ended.
MigrationWaiting ==
    /\ MigrationPending
    /\ podCache.migrate \in {"none", "waiting"}
    /\ Unsaved(inst)
    /\ MigrationGoesOn

-----------------------------------------------------------------------------
(***************************************************************************)
(* RestoreReconciler.Reconcile.                                            *)
(***************************************************************************)
RestoreGoesOn ==
    /\ pc' = "updateStatus"
    /\ UNCHANGED <<cache, sts, pod, podCache, volume, restarts>>

RestorePending ==
    /\ pc = "restore"
    /\ inst.restoreFrom # inst.restoredFrom
    /\ inst.restoreFrom # 0

RestoreNotPending ==
    /\ pc = "restore"
    /\ ~RestorePending
    /\ Unsaved(IF inst.restoreFrom # 0
               THEN [inst EXCEPT !.rcond = "RestoreCompleted"] ELSE inst)
    /\ RestoreGoesOn

\* Mutant: the condition is set, restoredFrom is not.
RestoreCompleted_NoLatch ==
    /\ RestorePending
    /\ podCache.restore = "ok"
    /\ SaveStatus([inst EXCEPT !.rcond = "RestoreCompleted"])
    /\ RestoreGoesOn

RestoreCompleted ==
    /\ RestorePending
    /\ podCache.restore = "ok"
    /\ SaveStatus([inst EXCEPT !.restoredFrom = inst.restoreFrom,
                               !.rcond = "RestoreCompleted"])
    /\ RestoreGoesOn

\* Mutant: the reason is made of what the container left as its message.
RestoreFailed_Message ==
    /\ RestorePending
    /\ podCache.restore = "failed"
    /\ SaveStatus([inst EXCEPT !.rcond = "init-restore exited 1"])
    /\ RestoreGoesOn

RestoreFailed ==
    /\ RestorePending
    /\ podCache.restore = "failed"
    /\ SaveStatus([inst EXCEPT !.rcond = "RestoreFailed"])
    /\ RestoreGoesOn

\* Without a pod the condition is left as it is.
RestoreWaiting ==
    /\ RestorePending
    /\ podCache.restore \in {"none", "waiting"}
    /\ Unsaved(IF podCache.tmpl.exists
               THEN [inst EXCEPT !.rcond = "Restoring"] ELSE inst)
    /\ RestoreGoesOn

-----------------------------------------------------------------------------
\* updateStatus writes what the sub-controllers left in the working copy.
UpdateStatus ==
    /\ pc = "updateStatus"
    /\ \/ read = api /\ api' = inst /\ UNCHANGED faults
       \/ read = api /\ Fault /\ UNCHANGED api
       \/ read # api /\ UNCHANGED <<api, faults>>
    /\ pc' = "idle"
    /\ UNCHANGED <<cache, read, inst, sts, pod, podCache, volume, restarts>>

Crash ==
    /\ pc # "idle"
    /\ Fault
    /\ pc' = "idle"
    /\ cache' = api
    /\ podCache' = pod
    /\ UNCHANGED <<api, read, inst, sts, pod, volume, restarts>>

SyncInstance ==
    /\ cache # api
    /\ cache' = api
    /\ UNCHANGED <<api, read, inst, pc, sts, pod, podCache, volume, restarts,
                   faults>>

SyncPod ==
    /\ podCache # pod
    /\ podCache' = pod
    /\ UNCHANGED <<api, operator, sts, pod, volume, restarts, faults>>

-----------------------------------------------------------------------------
(***************************************************************************)
(* The StatefulSet controller, the kubelet and the init containers.        *)
(***************************************************************************)
ReplacePod ==
    /\ pod.tmpl # sts
    /\ pod' = NewPod(sts)
    /\ UNCHANGED <<api, operator, sts, podCache, volume, restarts, faults>>

\* Eviction, node loss or deletion: the init containers run again.
RestartPod ==
    /\ pod.tmpl.exists
    /\ restarts < MaxRestarts
    /\ restarts' = restarts + 1
    /\ pod' = NewPod(sts)
    /\ UNCHANGED <<api, operator, sts, podCache, volume, faults>>

\* Mutant: the script extracts over what is there.
InitRestoreSucceeds_Overwrites ==
    /\ pod.restore = "waiting"
    /\ data' = "full"
    /\ source' = pod.tmpl.restore
    /\ pod' = [pod EXCEPT !.restore = "ok"]
    /\ UNCHANGED <<api, operator, sts, podCache, imported, used, restarts,
                   faults>>

InitRestoreSucceeds ==
    /\ pod.restore = "waiting"
    /\ data = "empty"
    /\ data' = "full"
    /\ source' = pod.tmpl.restore
    /\ pod' = [pod EXCEPT !.restore = "ok"]
    /\ UNCHANGED <<api, operator, sts, podCache, imported, used, restarts,
                   faults>>

\* The pipeline fails before or while tar writes to the volume.
InitRestoreBreaks ==
    /\ pod.restore = "waiting"
    /\ data = "empty"
    /\ data' \in {"empty", "partial"}
    /\ pod' = [pod EXCEPT !.restore = "failed"]
    /\ Fault
    /\ UNCHANGED <<api, operator, sts, podCache, source, imported, used,
                   restarts>>

InitRestoreRefuses ==
    /\ pod.restore = "waiting"
    /\ data # "empty"
    /\ pod' = [pod EXCEPT !.restore = "failed"]
    /\ UNCHANGED <<api, operator, sts, podCache, volume, restarts, faults>>

InitMigrateSucceeds ==
    /\ pod.restore \in {"none", "ok"}
    /\ pod.migrate = "waiting"
    /\ data' = "full"
    /\ imported' = TRUE
    /\ pod' = [pod EXCEPT !.migrate = "ok"]
    /\ UNCHANGED <<api, operator, sts, podCache, source, used, restarts,
                   faults>>

InitMigrateBreaks ==
    /\ pod.restore \in {"none", "ok"}
    /\ pod.migrate = "waiting"
    /\ data' \in {data, IF data = "empty" THEN "partial" ELSE data}
    /\ pod' = [pod EXCEPT !.migrate = "failed"]
    /\ Fault
    /\ UNCHANGED <<api, operator, sts, podCache, source, imported, used,
                   restarts>>

\* The kubelet restarts a failed init container.
RetryInit ==
    /\ \/ pod.restore = "failed" /\ pod' = [pod EXCEPT !.restore = "waiting"]
       \/ pod.migrate = "failed" /\ pod' = [pod EXCEPT !.migrate = "waiting"]
    /\ UNCHANGED <<api, operator, sts, podCache, volume, restarts, faults>>

AgentRuns ==
    /\ pod.tmpl.exists
    /\ {pod.restore, pod.migrate} \subseteq {"none", "ok"}
    /\ ~used
    /\ used' = TRUE
    /\ data' = "full"
    /\ UNCHANGED <<api, operator, sts, pod, podCache, source, imported,
                   restarts, faults>>

-----------------------------------------------------------------------------
(***************************************************************************)
(* An edit of the spec, through the validating webhook.                    *)
(***************************************************************************)
UserEdits(o) ==
    /\ api.gen < MaxEdits
    /\ o # api
    /\ ValidateImmutableTerminals(api, o)
    /\ ValidateRestoreMigrationMutualExclusion(o)
    /\ api' = [o EXCEPT !.gen = api.gen + 1]
    /\ UNCHANGED <<operator, sts, pod, podCache, volume, restarts, faults>>

Edits ==
    \/ \E key \in Key : UserEdits([api EXCEPT !.restoreFrom = key])
    \/ UserEdits([api EXCEPT !.migrate = ~@])
    \/ UserEdits([api EXCEPT !.restoreFrom = 0, !.migrate = TRUE])
    \/ UserEdits([api EXCEPT !.s3 = ~@])

ReconcileStep ==
    \/ BeginReconcile \/ ReconcileStatefulSet
    \/ MigrationNotPending \/ MigrationCompleted \/ MigrationFailed
    \/ MigrationWaiting
    \/ RestoreNotPending \/ RestoreCompleted \/ RestoreFailed
    \/ RestoreWaiting
    \/ UpdateStatus

Next ==
    \/ ReconcileStep \/ Crash \/ SyncInstance \/ SyncPod
    \/ ReplacePod \/ RestartPod
    \/ InitRestoreSucceeds \/ InitRestoreBreaks \/ InitRestoreRefuses
    \/ InitMigrateSucceeds \/ InitMigrateBreaks \/ RetryInit \/ AgentRuns
    \/ Edits

Spec == Init /\ [][Next]_vars

(***************************************************************************)
(* The instance is reconciled again and again and the watches deliver.     *)
(***************************************************************************)
Fairness ==
    /\ WF_vars(ReconcileStep)
    /\ WF_vars(SyncInstance)
    /\ WF_vars(SyncPod)

FairSpec == Spec /\ Fairness

-----------------------------------------------------------------------------
TypeOK ==
    /\ {api, cache, read, inst} \subseteq Object
    /\ pc \in {"idle", "statefulSet", "migration", "restore", "updateStatus"}
    /\ sts \in Template
    /\ {pod, podCache} \subseteq Pod
    /\ data \in {"empty", "partial", "full"}
    /\ source \in Key
    /\ imported \in BOOLEAN
    /\ used \in BOOLEAN
    /\ restarts \in 0..MaxRestarts
    /\ faults \in 0..MaxFaults

Latched(o) == o.restoredFrom # 0 /\ o.restoredFrom = o.restoreFrom

RestoreShot == INSTANCE OneShot WITH
    None <- 0, wanted <- api.restoreFrom, done <- source # 0,
    latch <- api.restoredFrom

MigrationShot == INSTANCE OneShot WITH
    None <- FALSE, wanted <- api.migrate, done <- imported,
    latch <- api.completed

(***************************************************************************)
(* docs/conditions.md, RestoreApplied: "Terminal: once True, immutable for *)
(* the lifetime of the instance".  restoredFrom is written once, when some *)
(* snapshot has been extracted in full, as the restoreFrom of that moment, *)
(* and neither an edit nor a reconcile that still works on an older copy   *)
(* of the instance or of the pod takes it back or changes what it is for   *)
(* (RestoreReconciler.Reconcile, validateImmutableTerminals).  That the    *)
(* snapshot extracted was the one restoredFrom names is not said: the      *)
(* reconciler latches the restoreFrom of its copy when any init-restore    *)
(* has exited 0, that of an earlier restoreFrom too.                       *)
(***************************************************************************)
RestoreIsOneShot == RestoreShot!Spec

(***************************************************************************)
(* The same of MigrationCompleted and the importer.                        *)
(***************************************************************************)
MigrationIsOneShot == MigrationShot!Spec

(***************************************************************************)
(* Of the two one-shot initialisations at most one is ever recorded as     *)
(* done: the mutual exclusion of the webhook, which sees one version of    *)
(* the spec at a time, carries over to the whole life of the instance.     *)
(***************************************************************************)
OneShotsExclusive == ~(api.restoredFrom # 0 /\ api.completed)

(***************************************************************************)
(* docs/backup-restore.md: "init-restore refuses to overwrite a non-empty  *)
(* destination": no restart, template left behind or late edit makes a     *)
(* restore write over data the agent has worked on.  A restore forced by    *)
(* HERMES_RESTORE_FORCE is not modelled.                                   *)
(***************************************************************************)
RestoreNeverOverwrites == [][used => source' = source]_vars

(***************************************************************************)
(* What makes these inductive.  Every copy of the instance, the stale ones *)
(* and the one with unsaved changes too, asks for one of the two at most,  *)
(* has latched only what it asks for, and only when that has been carried  *)
(* out; the working copy has the spec of the version it came from and all  *)
(* of its latches; an exit code 0 that a pod or the cached pod shows is of *)
(* a container that has done its work; and what was put on the volume is   *)
(* not taken for an empty volume again.                                    *)
(***************************************************************************)
Honest(o) ==
    /\ o.restoreFrom = 0 \/ ~o.migrate
    /\ o.restoredFrom # 0 => o.restoredFrom = o.restoreFrom /\ source # 0
    /\ o.completed => o.migrate /\ imported

WorkingCopy(o, r) ==
    /\ o.gen = r.gen
    /\ o.restoreFrom = r.restoreFrom
    /\ o.migrate = r.migrate
    /\ o.s3 = r.s3
    /\ r.restoredFrom # 0 => o.restoredFrom # 0
    /\ r.completed => o.completed

PodHonest(p) ==
    /\ p.restore # "none" => p.tmpl.restore # 0
    /\ p.restore = "ok" => source # 0
    /\ p.migrate = "ok" => imported

OneShotInv ==
    /\ TypeOK
    /\ Honest(api) /\ Honest(cache) /\ Honest(read) /\ Honest(inst)
    /\ WorkingCopy(inst, read)
    /\ PodHonest(pod) /\ PodHonest(podCache)
    /\ used \/ source # 0 \/ imported => data = "full"

(***************************************************************************)
(* A pod whose init-restore has exited 0 and that stays gets the latch     *)
(* set, unless the user takes restoreFrom back.                            *)
(***************************************************************************)
LatchFollowsExit ==
    pod.restore = "ok" ~> \/ Latched(api)
                          \/ pod.restore # "ok"
                          \/ api.restoreFrom = 0

=============================================================================
