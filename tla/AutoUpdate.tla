----------------------------- MODULE AutoUpdate -----------------------------
(***************************************************************************)
(* Auto-update of one HermesInstance: registry polling, the pre-update     *)
(* backup, the rollout and its rollback, inside the reconcile of the       *)
(* instance that also owns the StatefulSet and the final status write      *)
(*   internal/controller/autoupdate.go                                     *)
(*   internal/controller/backup.go                     RunOneShot          *)
(*   internal/controller/hermesinstance_controller.go  reconcileStatefulSet*)
(*                                                                         *)
(* One reconcile works on one copy of the object, inst.  What a            *)
(* sub-controller has changed in that copy's status stays there when its   *)
(* own Status().Update fails, and the Status().Update that ends the        *)
(* reconcile (updateStatus) then tries to write it again.                  *)
(*                                                                         *)
(* Tags are numbered in semver order; 0 is the empty string.               *)
(***************************************************************************)
EXTENDS Naturals

CONSTANTS
    MaxTag,      \* tags are 1..MaxTag
    Good,        \* the tags whose pod becomes ready
    Threshold,   \* spec.autoUpdate.rollback.probeFailureThreshold
    MaxEdits,    \* bound: edits of the spec and changes of the registry
    MaxFaults    \* bound: crashes and transient errors of calls

ASSUME ConstantsAssumption ==
    /\ MaxTag \in Nat \ {0}
    /\ Good \subseteq 1..MaxTag
    /\ 1 \in Good
    /\ Threshold \in Nat \ {0}
    /\ MaxEdits \in Nat
    /\ MaxFaults \in Nat

VARIABLES
    api,       \* the HermesInstance in the API server
    cache,     \* the operator's informer copy of it
    base,      \* the version the running reconcile last read or wrote
    inst,      \* its working copy: base with changes not yet written
    goal,      \* startRollout's targetTag
    pc,        \* the next call of the running reconcile
    sts,       \* the StatefulSet: template image, and status
    stsCache,  \* the operator's informer copy of it
    pod,       \* the pod of the StatefulSet
    job,       \* the pre-update backup Job
    newest,    \* what HighestMatching returns for the registry's tags
    probes,    \* Unhealthy and FailedMount events of the pod in the window
    edits,     \* edits so far
    faults,    \* crashes and transient errors so far
    ran,       \* history: tags whose pod has been ready
    backedUp   \* history: some pre-update backup has completed

vars == <<api, cache, base, inst, goal, pc, sts, stsCache, pod, job, newest,
          probes, edits, faults, ran, backedUp>>

cluster == <<sts, stsCache, pod, job, newest, probes, edits, ran, backedUp>>

Tags == 1..MaxTag

OptTag == 0..MaxTag

Reasons == {"none", "NoMatchingTag", "SuppressedKnownFailure", "UpToDate",
            "RolloutInFlight", "Confirmed", "RolledBack"}

\* status.autoUpdate and the reason of condition AutoUpdated
Status == [target : OptTag, current : OptTag, lastSuccess : OptTag,
           lastFailed : OptTag, key : BOOLEAN, reason : Reasons,
           deadline : {"none", "open", "passed"},
           lastCheck : {"never", "due", "recent"}]

\* backup stands for backupBeforeUpdate together with spec.backup.s3
Object == [enabled : BOOLEAN, backup : BOOLEAN, rollback : BOOLEAN,
           tag : Tags, ann : OptTag, st : Status]

StatefulSet == [image : Tags, ready : BOOLEAN, updated : BOOLEAN]

Steps == {"idle", "statefulSet", "autoUpdate", "runOneShot", "createJob",
          "patchSts", "annotate", "recordRollout", "recordRollback",
          "clearAnnotation", "updateStatus"}

-----------------------------------------------------------------------------
(***************************************************************************)
(* Writes.                                                                 *)
(***************************************************************************)
Goto(next) == pc' = next

Fault == faults < MaxFaults /\ faults' = faults + 1

NoFault == UNCHANGED faults

\* Status().Update of the working copy with status s: refused when the object
\* has changed since it was read; the change stays in the working copy.
Saved(s) ==
    /\ base = api
    /\ api' = [api EXCEPT !.st = s]
    /\ base' = api'
    /\ inst' = api'
    /\ NoFault

NotSaved(s) ==
    /\ IF base = api THEN Fault ELSE NoFault
    /\ inst' = [inst EXCEPT !.st = s]
    /\ UNCHANGED <<api, base>>

SaveStatus(s, next) ==
    \/ Saved(s) /\ Goto(next)
    \/ NotSaved(s) /\ Goto("updateStatus")

\* Patch of the annotation: the difference to the working copy, without a
\* resourceVersion.  The answer is decoded over the working copy, so only
\* fields the server leaves out keep their value.
PatchAnnotation(tag) ==
    /\ api' = IF inst.ann = tag THEN api ELSE [api EXCEPT !.ann = tag]
    /\ base' = api'
    /\ inst' = [api' EXCEPT !.st.lastCheck =
                    IF @ = "never" THEN inst.st.lastCheck ELSE @]

Unwritten == UNCHANGED <<api, base, inst>>

\* Patch of the StatefulSet's image: the difference to the cached object.
PatchImage(tag) ==
    sts' = IF stsCache.image = tag THEN sts ELSE [sts EXCEPT !.image = tag]

\* currentRunningTag
CurrentRunningTag(o) == IF o.st.current # 0 THEN o.st.current ELSE o.tag

Checked(o) == [o.st EXCEPT !.lastCheck = "recent"]

-----------------------------------------------------------------------------
\* The status of an instance that was never updated.
NewStatus == [target |-> 0, current |-> 0, lastSuccess |-> 0,
              lastFailed |-> 0, key |-> FALSE, reason |-> "none",
              deadline |-> "none", lastCheck |-> "never"]

\* No reconcile is running: its local variables hold nothing.
Nothing == [enabled |-> FALSE, backup |-> FALSE, rollback |-> FALSE, tag |-> 1,
            ann |-> 0, st |-> NewStatus]

Return ==
    /\ pc' = "idle"
    /\ base' = Nothing
    /\ inst' = Nothing
    /\ goal' = 0

Init ==
    /\ api \in [enabled : BOOLEAN, backup : BOOLEAN, rollback : BOOLEAN,
                tag : {1}, ann : {0}, st : {NewStatus}]
    /\ cache = api
    /\ base = Nothing
    /\ inst = Nothing
    /\ goal = 0
    /\ pc = "idle"
    /\ sts = [image |-> 1, ready |-> TRUE, updated |-> TRUE]
    /\ stsCache = sts
    /\ pod = [tag |-> 1, ready |-> TRUE]
    /\ job = "absent"
    /\ newest \in OptTag
    /\ probes = 0
    /\ edits \in 0..MaxEdits      \* how much of each bound is used up
    /\ faults \in 0..MaxFaults
    /\ ran = {1}
    /\ backedUp = FALSE

-----------------------------------------------------------------------------
(***************************************************************************)
(* Reconcile of the instance, up to the auto-update.                       *)
(***************************************************************************)
BeginReconcile ==
    /\ pc = "idle"
    /\ base' = cache
    /\ inst' = cache
    /\ Goto("statefulSet")
    /\ NoFault
    /\ UNCHANGED <<api, cache, goal, cluster>>

\* CreateOrUpdate sets the whole spec, image included, from spec.image; the
\* Update is refused when the cached StatefulSet is stale.
ReconcileStatefulSet ==
    /\ pc = "statefulSet"
    /\ stsCache.image = inst.tag \/ stsCache = sts
    /\ sts' = IF stsCache.image = inst.tag THEN sts
              ELSE [sts EXCEPT !.image = inst.tag]
    /\ Goto("autoUpdate")
    /\ NoFault
    /\ Unwritten
    /\ UNCHANGED <<cache, goal, stsCache, pod, job, newest, probes, edits,
                   ran, backedUp>>

\* An error of a subsystem ends the reconcile.
SubsystemFails ==
    /\ pc = "statefulSet"
    /\ IF stsCache.image # inst.tag /\ stsCache # sts THEN NoFault ELSE Fault
    /\ Return
    /\ UNCHANGED <<api, cache, cluster>>

-----------------------------------------------------------------------------
(***************************************************************************)
(* AutoUpdateReconciler.Reconcile.                                         *)
(***************************************************************************)
InFlight == pc = "autoUpdate" /\ inst.enabled /\ inst.st.target # 0

Polling ==
    /\ pc = "autoUpdate"
    /\ inst.enabled
    /\ inst.st.target = 0
    /\ inst.st.lastCheck # "recent"

NothingToDo ==
    /\ pc = "autoUpdate"
    /\ ~InFlight
    /\ ~Polling
    /\ Goto("updateStatus")
    /\ NoFault
    /\ Unwritten
    /\ UNCHANGED <<cache, goal, cluster>>

ListTagsFails ==
    /\ Polling
    /\ SaveStatus(Checked(inst), "updateStatus")
    /\ UNCHANGED <<cache, goal, cluster>>

\* A channel HighestMatching cannot parse: only updateStatus writes the check.
InvalidChannel ==
    /\ Polling
    /\ inst' = [inst EXCEPT !.st = Checked(inst)]
    /\ Goto("updateStatus")
    /\ NoFault
    /\ UNCHANGED <<api, base, cache, goal, cluster>>

NoMatchingTag ==
    /\ Polling
    /\ newest = 0
    /\ SaveStatus([Checked(inst) EXCEPT !.reason = "NoMatchingTag"],
                  "updateStatus")
    /\ UNCHANGED <<cache, goal, cluster>>

\* Mutant: lastFailedTag is not looked at.
Suppressed_Never == FALSE

Suppressed == newest = inst.st.lastFailed

SuppressKnownFailure ==
    /\ Polling
    /\ newest # 0 /\ Suppressed
    /\ SaveStatus([Checked(inst) EXCEPT !.reason = "SuppressedKnownFailure"],
                  "updateStatus")
    /\ UNCHANGED <<cache, goal, cluster>>

UpToDate ==
    /\ Polling
    /\ newest # 0 /\ ~Suppressed
    /\ newest = CurrentRunningTag(inst)
    /\ SaveStatus([Checked(inst) EXCEPT !.reason = "UpToDate"], "updateStatus")
    /\ UNCHANGED <<cache, goal, cluster>>

StartRollout ==
    /\ Polling
    /\ newest # 0 /\ ~Suppressed
    /\ newest # CurrentRunningTag(inst)
    /\ inst' = [inst EXCEPT !.st = Checked(inst)]
    /\ goal' = newest
    /\ Goto(IF inst.backup THEN "runOneShot" ELSE "patchSts")
    /\ NoFault
    /\ UNCHANGED <<api, base, cache, cluster>>

-----------------------------------------------------------------------------
(***************************************************************************)
(* RunOneShot: the pre-update backup, waited for across reconciles.        *)
(***************************************************************************)
\* The cache shows no Job: there is none, or it does not show it yet.
RecordSnapshotKey ==
    /\ pc = "runOneShot"
    /\ job \in {"absent", "running"}
    /\ IF inst.st.key
         THEN Goto("createJob") /\ NoFault /\ Unwritten
         ELSE SaveStatus([inst.st EXCEPT !.key = TRUE], "createJob")
    /\ UNCHANGED <<cache, goal, cluster>>

CreatePreUpdateJob ==
    /\ pc = "createJob"
    /\ job' = IF job = "absent" THEN "running" ELSE job
    /\ Goto("updateStatus")
    /\ NoFault
    /\ Unwritten
    /\ UNCHANGED <<cache, goal, backedUp, sts, stsCache, pod, newest, probes,
                   edits, ran>>

\* Mutant: a failed backup does not abort the rollout.
PreUpdateBackupNotDone_Proceeds ==
    /\ pc = "runOneShot"
    /\ job \in {"running", "failed"}
    /\ Goto(IF job = "failed" THEN "patchSts" ELSE "updateStatus")
    /\ NoFault
    /\ Unwritten
    /\ UNCHANGED <<cache, goal, cluster>>

\* Not finished: try again later.  Failed: the rollout is aborted.
PreUpdateBackupNotDone ==
    /\ pc = "runOneShot"
    /\ job \in {"running", "failed"}
    /\ Goto("updateStatus")
    /\ NoFault
    /\ Unwritten
    /\ UNCHANGED <<cache, goal, cluster>>

PreUpdateBackupDone ==
    /\ pc = "runOneShot"
    /\ job = "complete"
    /\ Goto("patchSts")
    /\ NoFault
    /\ Unwritten
    /\ UNCHANGED <<cache, goal, cluster>>

-----------------------------------------------------------------------------
(***************************************************************************)
(* startRollout, after the backup.                                         *)
(***************************************************************************)
PatchRolloutImage ==
    /\ pc = "patchSts"
    /\ PatchImage(goal)
    /\ Goto("annotate")
    /\ NoFault
    /\ Unwritten
    /\ UNCHANGED <<cache, goal, backedUp, stsCache, pod, job, newest, probes,
                   edits, ran>>

Annotate ==
    /\ pc = "annotate"
    /\ PatchAnnotation(goal)
    /\ Goto("recordRollout")
    /\ NoFault
    /\ UNCHANGED <<cache, goal, cluster>>

\* Mutant: no deadline is set.
Rollout_NoDeadline ==
    [inst.st EXCEPT !.target = goal, !.reason = "RolloutInFlight"]

Rollout == [inst.st EXCEPT !.target = goal, !.deadline = "open",
                           !.reason = "RolloutInFlight"]

RecordRollout ==
    /\ pc = "recordRollout"
    /\ SaveStatus(Rollout, "updateStatus")
    /\ probes' = 0
    /\ UNCHANGED <<cache, goal, backedUp, sts, stsCache, pod, job, newest,
                   edits, ran>>

-----------------------------------------------------------------------------
(***************************************************************************)
(* driveRollout.                                                           *)
(***************************************************************************)
RolloutReady == stsCache.ready /\ stsCache.updated

\* Mutant: only probe failures roll back.
ShouldRollBack_NoDeadline == inst.rollback /\ probes >= Threshold

ShouldRollBack ==
    inst.rollback /\ (probes >= Threshold \/ inst.st.deadline = "passed")

Confirmation ==
    [inst.st EXCEPT !.lastSuccess = inst.st.target,
                    !.current = inst.st.target, !.target = 0,
                    !.deadline = "none", !.key = FALSE,
                    !.reason = "Confirmed"]

ConfirmRollout ==
    /\ InFlight
    /\ RolloutReady
    /\ SaveStatus(Confirmation, "clearAnnotation")
    /\ UNCHANGED <<cache, goal, cluster>>

WaitForRollout ==
    /\ InFlight
    /\ ~RolloutReady
    /\ ~ShouldRollBack
    /\ SaveStatus(inst.st, "updateStatus")
    /\ UNCHANGED <<cache, goal, cluster>>

\* Mutant: no fallback to spec.image.tag.
Previous_NoFallback == inst.st.lastSuccess

\* The tag rollback returns to.
Previous == IF inst.st.lastSuccess # 0 THEN inst.st.lastSuccess ELSE inst.tag

RollBack ==
    /\ InFlight
    /\ ~RolloutReady
    /\ ShouldRollBack
    /\ PatchImage(Previous)
    /\ Goto("recordRollback")
    /\ NoFault
    /\ Unwritten
    /\ UNCHANGED <<cache, goal, backedUp, stsCache, pod, job, newest, probes,
                   edits, ran>>

Rollback ==
    [inst.st EXCEPT !.lastFailed = inst.st.target, !.target = 0,
                    !.deadline = "none", !.current = Previous,
                    !.reason = "RolledBack"]

RecordRollback ==
    /\ pc = "recordRollback"
    /\ SaveStatus(Rollback, "clearAnnotation")
    /\ UNCHANGED <<cache, goal, cluster>>

ClearAnnotation ==
    /\ pc = "clearAnnotation"
    /\ IF inst.ann # 0 THEN PatchAnnotation(0) ELSE Unwritten
    /\ Goto("updateStatus")
    /\ NoFault
    /\ UNCHANGED <<cache, goal, cluster>>

-----------------------------------------------------------------------------
(***************************************************************************)
(* updateStatus ends the reconcile, whether or not its write succeeds.     *)
(***************************************************************************)
UpdateStatus ==
    /\ pc = "updateStatus"
    /\ \/ base = api /\ NoFault /\ api' = [api EXCEPT !.st = inst.st]
       \/ base = api /\ Fault /\ UNCHANGED api
       \/ base # api /\ NoFault /\ UNCHANGED api
    /\ Return
    /\ UNCHANGED <<cache, cluster>>

\* A patch or a Create that fails ends the auto-update, not the reconcile.
CallFails ==
    /\ \/ pc \in {"createJob", "patchSts", "annotate", "clearAnnotation"}
       \/ InFlight /\ ~RolloutReady
    /\ Fault
    /\ Goto("updateStatus")
    /\ Unwritten
    /\ UNCHANGED <<cache, goal, cluster>>

Crash ==
    /\ pc # "idle"
    /\ Fault
    /\ Return
    /\ cache' = api
    /\ stsCache' = sts
    /\ UNCHANGED <<api, backedUp, sts, pod, job, newest, probes, edits, ran>>

-----------------------------------------------------------------------------
(***************************************************************************)
(* The StatefulSet controller, the kubelet and the Job controller.         *)
(***************************************************************************)
operator == <<api, cache, base, inst, goal, pc, faults>>

ReplacePod ==
    /\ pod.tag # sts.image
    /\ pod' = [tag |-> sts.image, ready |-> FALSE]
    /\ UNCHANGED <<operator, backedUp, sts, stsCache, job, newest, probes,
                   edits, ran>>

PodBecomesReady ==
    /\ ~pod.ready
    /\ pod.tag \in Good
    /\ pod' = [pod EXCEPT !.ready = TRUE]
    /\ ran' = ran \cup {pod.tag}
    /\ UNCHANGED <<operator, backedUp, sts, stsCache, job, newest, probes,
                   edits>>

ProbeFails ==
    /\ api.st.target # 0
    /\ ~pod.ready
    /\ probes < Threshold
    /\ probes' = probes + 1
    /\ UNCHANGED <<operator, backedUp, sts, stsCache, pod, job, newest, edits,
                   ran>>

StatefulSetStatus ==
    /\ sts' = [sts EXCEPT !.ready = pod.ready,
                          !.updated = (pod.tag = sts.image)]
    /\ sts' # sts
    /\ UNCHANGED <<operator, backedUp, stsCache, pod, job, newest, probes,
                   edits, ran>>

JobFinishes ==
    /\ job = "running"
    /\ job' \in {"complete", "failed"}
    /\ backedUp' = (backedUp \/ job' = "complete")
    /\ UNCHANGED <<operator, sts, stsCache, pod, newest, probes, edits, ran>>

\* ttlSecondsAfterFinished
JobExpires ==
    /\ job \in {"complete", "failed"}
    /\ job' = "absent"
    /\ UNCHANGED <<operator, backedUp, sts, stsCache, pod, newest, probes,
                   edits, ran>>

-----------------------------------------------------------------------------
(***************************************************************************)
(* The watches, the clock, the registry and the users.                     *)
(***************************************************************************)
SyncInstance ==
    /\ cache # api
    /\ cache' = api
    /\ UNCHANGED <<api, base, inst, goal, pc, faults, cluster>>

SyncStatefulSet ==
    /\ stsCache # sts
    /\ stsCache' = sts
    /\ UNCHANGED <<operator, backedUp, sts, pod, job, newest, probes, edits,
                   ran>>

\* Timestamps in the status grow old in every copy at once.  A poll interval
\* is at least 15 minutes, far longer than a reconcile.
Aged(o) == [o EXCEPT !.st.lastCheck = IF @ = "recent" THEN "due" ELSE @]

Expired(o) == [o EXCEPT !.st.deadline = IF @ = "open" THEN "passed" ELSE @]

PollIntervalElapses ==
    /\ pc = "idle"
    /\ api.st.lastCheck = "recent"
    /\ api' = Aged(api)
    /\ cache' = Aged(cache)
    /\ base' = Aged(base)
    /\ inst' = Aged(inst)
    /\ UNCHANGED <<goal, pc, faults, cluster>>

RolloutWindowElapses ==
    /\ api.st.deadline = "open"
    /\ api' = Expired(api)
    /\ cache' = Expired(cache)
    /\ base' = Expired(base)
    /\ inst' = Expired(inst)
    /\ UNCHANGED <<goal, pc, faults, cluster>>

Edit ==
    /\ edits < MaxEdits
    /\ edits' = edits + 1

UserEdits ==
    /\ Edit
    /\ \/ \E tag \in Tags \ {api.tag} : api' = [api EXCEPT !.tag = tag]
       \/ api' = [api EXCEPT !.enabled = ~@]
    /\ UNCHANGED <<cache, base, inst, goal, pc, faults, backedUp, sts,
                   stsCache, pod, job, newest, probes, ran>>

RegistryChanges ==
    /\ Edit
    /\ newest' \in OptTag \ {newest}
    /\ UNCHANGED <<operator, backedUp, sts, stsCache, pod, job, probes, ran>>

-----------------------------------------------------------------------------
ReconcileStep ==
    \/ BeginReconcile \/ ReconcileStatefulSet \/ SubsystemFails
    \/ NothingToDo \/ ListTagsFails \/ InvalidChannel \/ NoMatchingTag
    \/ SuppressKnownFailure \/ UpToDate \/ StartRollout
    \/ RecordSnapshotKey \/ CreatePreUpdateJob \/ PreUpdateBackupNotDone
    \/ PreUpdateBackupDone
    \/ PatchRolloutImage \/ Annotate \/ RecordRollout
    \/ ConfirmRollout \/ WaitForRollout \/ RollBack \/ RecordRollback
    \/ ClearAnnotation \/ UpdateStatus \/ CallFails

Next ==
    \/ ReconcileStep \/ Crash
    \/ ReplacePod \/ PodBecomesReady \/ ProbeFails \/ StatefulSetStatus
    \/ JobFinishes \/ JobExpires
    \/ SyncInstance \/ SyncStatefulSet
    \/ PollIntervalElapses \/ RolloutWindowElapses
    \/ UserEdits \/ RegistryChanges

Spec == Init /\ [][Next]_vars

(***************************************************************************)
(* The instance is reconciled again and again (every reconcile asks for a  *)
(* requeue), the watches deliver and the rollout window ends.              *)
(***************************************************************************)
Fairness ==
    /\ WF_vars(ReconcileStep)
    /\ WF_vars(SyncInstance)
    /\ WF_vars(SyncStatefulSet)
    /\ WF_vars(RolloutWindowElapses)

FairSpec == Spec /\ Fairness

-----------------------------------------------------------------------------
TypeOK ==
    /\ {api, cache, base, inst} \subseteq Object
    /\ goal \in OptTag
    /\ pc \in Steps
    /\ {sts, stsCache} \subseteq StatefulSet
    /\ pod \in [tag : Tags, ready : BOOLEAN]
    /\ job \in {"absent", "running", "complete", "failed"}
    /\ newest \in OptTag
    /\ probes \in 0..Threshold
    /\ edits \in 0..MaxEdits
    /\ faults \in 0..MaxFaults
    /\ ran \subseteq Tags
    /\ backedUp \in BOOLEAN

(***************************************************************************)
(* A tag that was rolled back is not rolled out again while it is recorded *)
(* in lastFailedTag, whichever copy of the status the poll decided on.     *)
(***************************************************************************)
FailedTagNotRetried ==
    api.st.target # 0 => api.st.target # api.st.lastFailed

(***************************************************************************)
(* With backupBeforeUpdate the image is never rolled forward before some   *)
(* pre-update backup of the instance has completed.                        *)
(***************************************************************************)
BackupBeforeRollout ==
    pc = "patchSts" /\ inst.backup => backedUp

(***************************************************************************)
(* A rollout that the status shows has a deadline, so that driveRollout    *)
(* can end it, and without one no deadline is left over for the next:      *)
(* also when the status that is written was put together from a stale copy *)
(* and the answer to the annotation patch, or is written late.             *)
(***************************************************************************)
RolloutHasDeadline == api.st.target # 0 <=> api.st.deadline # "none"

(***************************************************************************)
(* What makes these inductive.  lastFailedTag only changes when a rollout  *)
(* ends that the operator has read from its cache, so a copy that shows no *)
(* rollout, however old it is, shows the lastFailedTag of now; and nobody  *)
(* but the running reconcile writes it.                                    *)
(***************************************************************************)
Sane(o) ==
    /\ o.st.target # 0 => o.st.target # o.st.lastFailed
    /\ o.st.target # 0 <=> o.st.deadline # "none"

CacheKnown ==
    cache.st.target = 0 => cache.st.lastFailed = api.st.lastFailed

\* The reconcile read a rollout from the cache, and the cache is no older.
RolloutRead == api.st.target # 0 => cache.st.target # 0

\* Before the auto-update has decided.
UndecidedKnown ==
    pc \in {"statefulSet", "autoUpdate"} =>
        /\ inst.st = base.st
        /\ IF base.st.target = 0 THEN base.st.lastFailed = api.st.lastFailed
           ELSE RolloutRead

\* In startRollout.
StartKnown ==
    pc \in {"runOneShot", "createJob", "patchSts", "annotate", "recordRollout"} =>
        /\ goal # 0
        /\ goal # api.st.lastFailed
        /\ inst.st.lastFailed = api.st.lastFailed
        /\ base.st.lastFailed = api.st.lastFailed

\* In rollback, and after a write of any of them that did not succeed.
EndKnown ==
    /\ pc = "recordRollback" =>
         inst.st = base.st /\ base.st.target # 0 /\ RolloutRead
    /\ pc = "clearAnnotation" => inst.st.lastFailed = base.st.lastFailed
    /\ pc = "updateStatus" /\ inst.st.lastFailed # base.st.lastFailed =>
         base.st.target # 0 /\ RolloutRead

BackupKnown == (job = "complete" => backedUp) /\ BackupBeforeRollout

AutoUpdateInv ==
    /\ TypeOK
    /\ Sane(api) /\ Sane(cache) /\ Sane(base) /\ Sane(inst)
    /\ CacheKnown
    /\ UndecidedKnown
    /\ StartKnown
    /\ EndKnown
    /\ BackupKnown

(***************************************************************************)
(* A rollout in flight is confirmed or rolled back in the end, whatever    *)
(* the pod does: again and again there is none, or auto-update or its      *)
(* rollback is off.                                                        *)
(***************************************************************************)
RolloutEnds == []<>(api.enabled /\ api.rollback => api.st.target = 0)

-----------------------------------------------------------------------------
(***************************************************************************)
(* Statements of the documentation.                                        *)
(***************************************************************************)

\* docs/conditions.md: "Confirmed: A rollout completed and passed the
\* readiness watch window": the tag's pod has at least been ready once.
ConfirmedTagRan ==
    api.st.reason = "Confirmed" => api.st.current \in ran

=============================================================================
