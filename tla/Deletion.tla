------------------------------ MODULE Deletion ------------------------------
(***************************************************************************)
(* Deletion of one HermesInstance: the finalizers the operator puts on the *)
(* object, the final backup Job, the grace window that bounds it and the   *)
(* Semaphore cleanup                                                       *)
(*   internal/controller/hermesinstance_controller.go  Reconcile           *)
(*   internal/controller/backup.go          EnsureFinalizer, HandleDeletion*)
(*                                                                         *)
(* Every call to the API server is a step of its own, so a crash, an error *)
(* of the call, an edit by a user or a step of the Job controller can come *)
(* between any two of them.  The reconciler reads the object from its      *)
(* informer cache, which may be behind the API server; a Patch carries no  *)
(* resourceVersion and replaces the whole finalizer list; a status Update  *)
(* is refused unless the copy it was computed from is current.             *)
(***************************************************************************)
EXTENDS Naturals

CONSTANTS
    Deadline,    \* finalBackupDeadline, in ticks of the clock
    MaxEdits,    \* bound: writes by users and by other controllers
    MaxFaults    \* bound: crashes of the operator and transient API errors

ASSUME BoundsAssumption ==
    /\ Deadline \in Nat
    /\ MaxEdits \in Nat
    /\ MaxFaults \in Nat

VARIABLES
    api,       \* the HermesInstance in the API server
    cache,     \* the operator's informer copy of it
    inst,      \* the copy the running reconcile works on
    pc,        \* the call the running reconcile makes next
    queued,    \* the work queue holds the instance
    job,       \* the final backup Job in the API server
    jobCache,  \* the operator's informer copy of it
    age,       \* ticks since deletionTimestamp, saturating past Deadline
    edits,     \* writes by users so far
    faults,    \* crashes and transient errors so far
    snapshot,  \* history: a final backup Job has completed
    cleaned,   \* history: semaphoreCleanup has returned nil
    versions   \* history: every (deleting, flags) the API server has held

vars == <<api, cache, inst, pc, queued, job, jobCache, age, edits, faults,
          snapshot, cleaned, versions>>

Finalizers == {"backup", "semaphore", "foreign"}

(***************************************************************************)
(* What a user can switch on: spec.backup.onDelete, spec.backup.s3, the    *)
(* skip-final-backup annotation, and spec.semaphore.enabled together with  *)
(* spec.semaphore.cleanupOnDelete.                                         *)
(***************************************************************************)
Flags == {"onDelete", "s3", "skip", "cleanup"}

Object == [exists : BOOLEAN, deleting : BOOLEAN,
           fins : SUBSET Finalizers, flags : SUBSET Flags,
           jobName : BOOLEAN, success : BOOLEAN,
           failure : {"none", "FinalBackupJobFailed",
                      "FinalBackupDeadlineExceeded"}]

JobStates == {"absent", "running", "complete", "failed"}

Steps == {"idle", "ensureFinalizer", "ensureSemaphore", "subsystems",
          "handleDeletion", "finalJobStatus", "removeFinalizer",
          "semaphoreCleanup", "removeSemaphore"}

Version(o) == [deleting |-> o.deleting, flags |-> o.flags]

-----------------------------------------------------------------------------
(***************************************************************************)
(* The API server, as the operator uses it.                                *)
(***************************************************************************)

\* An object that is being deleted disappears with its last finalizer.
Stored(o) == [o EXCEPT !.exists = ~(o.deleting /\ o.fins = {})]

\* A merge patch sets the whole list, whatever the server's list is by now;
\* the server refuses a new finalizer on an object that is being deleted.
PatchAccepted(fins) == api.exists /\ (api.deleting => fins \subseteq api.fins)

Patch(fins) ==
    /\ PatchAccepted(fins)
    /\ api' = Stored([api EXCEPT !.fins = fins])
    /\ inst' = api'

\* Status().Update: optimistic, on the resourceVersion of the working copy.
UpdateAccepted == api.exists /\ inst = api

StatusUpdate(o) ==
    /\ UpdateAccepted
    /\ api' = o
    /\ inst' = o

-----------------------------------------------------------------------------
(***************************************************************************)
(* Leaving Reconcile.  The working copy is dead once it returns.           *)
(***************************************************************************)
Requeue ==
    /\ pc' = "idle"
    /\ queued' = TRUE

NoRequeue ==
    /\ pc' = "idle"
    /\ UNCHANGED queued

Goto(next) ==
    /\ pc' = next
    /\ UNCHANGED queued

Unwritten == UNCHANGED <<api, inst>>

Environment == <<cache, jobCache, age, edits, versions>>

\* resources.SemaphoreCleanupOnDelete
SemaphoreCleanupOnDelete(o) == "cleanup" \in o.flags

-----------------------------------------------------------------------------
Init ==
    /\ api \in [exists : {TRUE}, deleting : {FALSE},
                fins : SUBSET {"foreign"}, flags : SUBSET Flags,
                jobName : {FALSE}, success : {FALSE}, failure : {"none"}]
    /\ cache = api
    /\ inst = api
    /\ pc = "idle"
    /\ queued = TRUE
    /\ job = "absent"
    /\ jobCache = "absent"
    /\ age = 0
    /\ edits = 0
    /\ faults = 0
    /\ snapshot = FALSE
    /\ cleaned = FALSE
    /\ versions = {Version(api)}

-----------------------------------------------------------------------------
(***************************************************************************)
(* Reconcile: read the cached object and take the deletion or live branch. *)
(***************************************************************************)
BeginReconcile ==
    /\ pc = "idle"
    /\ queued
    /\ queued' = FALSE
    /\ inst' = cache
    /\ pc' = IF ~cache.exists THEN "idle"
             ELSE IF cache.deleting THEN "handleDeletion"
             ELSE "ensureFinalizer"
    /\ UNCHANGED <<api, job, faults, snapshot, cleaned, Environment>>

(***************************************************************************)
(* The live branch: add the finalizers, then run the subsystems.           *)
(***************************************************************************)
BackupFinalizerMissing ==
    "onDelete" \in inst.flags /\ "backup" \notin inst.fins

SemaphoreFinalizerMissing ==
    SemaphoreCleanupOnDelete(inst) /\ "semaphore" \notin inst.fins

EnsureFinalizer ==
    /\ pc = "ensureFinalizer"
    /\ IF BackupFinalizerMissing THEN Patch(inst.fins \cup {"backup"})
                                 ELSE Unwritten
    /\ Goto("ensureSemaphore")
    /\ UNCHANGED <<job, faults, snapshot, cleaned, Environment>>

EnsureSemaphoreFinalizer ==
    /\ pc = "ensureSemaphore"
    /\ IF SemaphoreFinalizerMissing THEN Patch(inst.fins \cup {"semaphore"})
                                    ELSE Unwritten
    /\ Goto("subsystems")
    /\ UNCHANGED <<job, faults, snapshot, cleaned, Environment>>

\* The 18 subsystems and the sub-controllers touch neither the finalizers
\* nor the backup status; the reconcile asks to be run again (5 minutes
\* later, or sooner when a watch reports a change of an object it owns).
FinishReconcile ==
    /\ pc = "subsystems"
    /\ Requeue
    /\ Unwritten
    /\ UNCHANGED <<job, faults, snapshot, cleaned, Environment>>

-----------------------------------------------------------------------------
(***************************************************************************)
(* HandleDeletion.                                                         *)
(***************************************************************************)
\* Mutant: the grace window of #93 is not there.
DeadlinePassed_Never == FALSE

DeadlinePassed == age > Deadline

FinalBackupNotHeld ==
    /\ pc = "handleDeletion"
    /\ "backup" \notin inst.fins
    /\ Goto("semaphoreCleanup")
    /\ Unwritten
    /\ UNCHANGED <<job, faults, snapshot, cleaned, Environment>>

FinalBackupSkipped ==
    /\ pc = "handleDeletion"
    /\ "backup" \in inst.fins
    /\ "skip" \in inst.flags \/ "s3" \notin inst.flags
    /\ Goto("removeFinalizer")
    /\ Unwritten
    /\ UNCHANGED <<job, faults, snapshot, cleaned, Environment>>

FinalBackupWanted ==
    /\ pc = "handleDeletion"
    /\ "backup" \in inst.fins
    /\ "skip" \notin inst.flags
    /\ "s3" \in inst.flags

\* Past the grace window: the status write is best effort.
FinalBackupAbandoned ==
    /\ FinalBackupWanted
    /\ DeadlinePassed
    /\ \/ StatusUpdate([inst EXCEPT !.failure = "FinalBackupDeadlineExceeded"])
       \/ Unwritten
    /\ Goto("removeFinalizer")
    /\ UNCHANGED <<job, faults, snapshot, cleaned, Environment>>

FinalBackupDue == FinalBackupWanted /\ ~DeadlinePassed

\* Create; AlreadyExists, when the cached Job was stale, is tolerated.
CreateFinalJob ==
    /\ FinalBackupDue
    /\ jobCache = "absent"
    /\ job' = IF job = "absent" THEN "running" ELSE job
    /\ Goto("finalJobStatus")
    /\ Unwritten
    /\ UNCHANGED <<faults, snapshot, cleaned, Environment>>

RecordFinalJobName ==
    /\ pc = "finalJobStatus"
    /\ StatusUpdate([inst EXCEPT !.jobName = TRUE])
    /\ Requeue
    /\ UNCHANGED <<job, faults, snapshot, cleaned, Environment>>

FinalJobRunning ==
    /\ FinalBackupDue
    /\ jobCache = "running"
    /\ Requeue
    /\ Unwritten
    /\ UNCHANGED <<job, faults, snapshot, cleaned, Environment>>

\* Mutant: the reason of the event is written to the status.
FinalJobFailed_EventReason ==
    /\ FinalBackupDue
    /\ jobCache = "failed"
    /\ StatusUpdate([inst EXCEPT !.failure = "FinalBackupFailed"])
    /\ Requeue
    /\ UNCHANGED <<job, faults, snapshot, cleaned, Environment>>

\* Mutant: a failed Job releases the finalizer.
FinalJobFailed_Releases ==
    /\ FinalBackupDue
    /\ jobCache = "failed"
    /\ StatusUpdate([inst EXCEPT !.failure = "FinalBackupJobFailed"])
    /\ Goto("removeFinalizer")
    /\ UNCHANGED <<job, faults, snapshot, cleaned, Environment>>

FinalJobFailed ==
    /\ FinalBackupDue
    /\ jobCache = "failed"
    /\ StatusUpdate([inst EXCEPT !.failure = "FinalBackupJobFailed"])
    /\ Requeue
    /\ UNCHANGED <<job, faults, snapshot, cleaned, Environment>>

\* Mutant: any finished Job counts as a success.
FinalJobComplete_AnyFinished ==
    /\ FinalBackupDue
    /\ jobCache \in {"complete", "failed"}
    /\ StatusUpdate([inst EXCEPT !.success = TRUE])
    /\ Goto("removeFinalizer")
    /\ UNCHANGED <<job, faults, snapshot, cleaned, Environment>>

FinalJobComplete ==
    /\ FinalBackupDue
    /\ jobCache = "complete"
    /\ StatusUpdate([inst EXCEPT !.success = TRUE])
    /\ Goto("removeFinalizer")
    /\ UNCHANGED <<job, faults, snapshot, cleaned, Environment>>

RemoveFinalizer ==
    /\ pc = "removeFinalizer"
    /\ Patch(inst.fins \ {"backup"})
    /\ Goto("semaphoreCleanup")
    /\ UNCHANGED <<job, faults, snapshot, cleaned, Environment>>

-----------------------------------------------------------------------------
(***************************************************************************)
(* The Semaphore half of the deletion branch.                              *)
(***************************************************************************)
SemaphoreHeld ==
    SemaphoreCleanupOnDelete(inst) /\ "semaphore" \in inst.fins

SemaphoreNotHeld ==
    /\ pc = "semaphoreCleanup"
    /\ ~SemaphoreHeld
    /\ NoRequeue
    /\ Unwritten
    /\ UNCHANGED <<job, faults, snapshot, cleaned, Environment>>

SemaphoreCleanup ==
    /\ pc = "semaphoreCleanup"
    /\ SemaphoreHeld
    /\ cleaned' = TRUE
    /\ Goto("removeSemaphore")
    /\ Unwritten
    /\ UNCHANGED <<job, faults, snapshot, Environment>>

\* Mutant: the error is logged and the finalizer removed all the same.
SemaphoreCleanupFails_Ignored ==
    /\ pc = "semaphoreCleanup"
    /\ SemaphoreHeld
    /\ Goto("removeSemaphore")
    /\ Unwritten
    /\ UNCHANGED <<job, faults, snapshot, cleaned, Environment>>

\* Mutant: the error is logged and the instance not requeued.
SemaphoreCleanupFails_NoRetry ==
    /\ pc = "semaphoreCleanup"
    /\ SemaphoreHeld
    /\ NoRequeue
    /\ Unwritten
    /\ UNCHANGED <<job, faults, snapshot, cleaned, Environment>>

SemaphoreCleanupFails ==
    /\ pc = "semaphoreCleanup"
    /\ SemaphoreHeld
    /\ Requeue
    /\ Unwritten
    /\ UNCHANGED <<job, faults, snapshot, cleaned, Environment>>

RemoveSemaphoreFinalizer ==
    /\ pc = "removeSemaphore"
    /\ Patch(inst.fins \ {"semaphore"})
    /\ NoRequeue
    /\ UNCHANGED <<job, faults, snapshot, cleaned, Environment>>

-----------------------------------------------------------------------------
(***************************************************************************)
(* A call the server refuses, or that fails, ends the reconcile with an    *)
(* error and the work queue retries it.                                    *)
(***************************************************************************)
PatchRefused ==
    \/ /\ pc = "ensureFinalizer" /\ BackupFinalizerMissing
       /\ ~PatchAccepted(inst.fins \cup {"backup"})
    \/ /\ pc = "ensureSemaphore" /\ SemaphoreFinalizerMissing
       /\ ~PatchAccepted(inst.fins \cup {"semaphore"})
    \/ pc = "removeFinalizer" /\ ~PatchAccepted(inst.fins \ {"backup"})
    \/ pc = "removeSemaphore" /\ ~PatchAccepted(inst.fins \ {"semaphore"})

StatusUpdatePending ==
    \/ pc = "finalJobStatus"
    \/ FinalBackupDue /\ jobCache \in {"failed", "complete"}

CallRefused ==
    /\ PatchRefused \/ (StatusUpdatePending /\ ~UpdateAccepted)
    /\ Requeue
    /\ Unwritten
    /\ UNCHANGED <<job, faults, snapshot, cleaned, Environment>>

CallPending ==
    \/ pc = "ensureFinalizer" /\ BackupFinalizerMissing
    \/ pc = "ensureSemaphore" /\ SemaphoreFinalizerMissing
    \/ pc \in {"removeFinalizer", "removeSemaphore", "subsystems"}
    \/ FinalBackupDue /\ jobCache = "absent"
    \/ StatusUpdatePending

CallFails ==
    /\ CallPending
    /\ faults < MaxFaults
    /\ faults' = faults + 1
    /\ Requeue
    /\ Unwritten
    /\ UNCHANGED <<job, snapshot, cleaned, Environment>>

\* A restarted operator lists everything again and reconciles it.
Crash ==
    /\ faults < MaxFaults
    /\ faults' = faults + 1
    /\ cache' = api
    /\ jobCache' = job
    /\ Requeue
    /\ Unwritten
    /\ UNCHANGED <<job, age, edits, snapshot, cleaned, versions>>

-----------------------------------------------------------------------------
(***************************************************************************)
(* The watches, the clock, the Job controller and the users.               *)
(***************************************************************************)
SyncInstance ==
    /\ cache # api
    /\ cache' = api
    /\ queued' = TRUE
    /\ UNCHANGED <<api, inst, pc, job, jobCache, age, edits, faults, snapshot,
                   cleaned, versions>>

SyncJob ==
    /\ jobCache # job
    /\ jobCache' = job
    /\ queued' = TRUE
    /\ UNCHANGED <<api, cache, inst, pc, job, age, edits, faults, snapshot,
                   cleaned, versions>>

Tick ==
    /\ api.exists /\ api.deleting
    /\ age <= Deadline
    /\ age' = age + 1
    /\ UNCHANGED <<api, cache, inst, pc, queued, job, jobCache, edits, faults,
                   snapshot, cleaned, versions>>

JobFinishes ==
    /\ job = "running"
    /\ job' \in {"complete", "failed"}
    /\ snapshot' = (snapshot \/ job' = "complete")
    /\ UNCHANGED <<api, cache, inst, pc, queued, jobCache, age, edits, faults,
                   cleaned, versions>>

\* A user deletes the Job to retry a failed backup.
JobDeleted ==
    /\ job # "absent"
    /\ edits < MaxEdits
    /\ edits' = edits + 1
    /\ job' = "absent"
    /\ UNCHANGED <<api, cache, inst, pc, queued, jobCache, age, faults,
                   snapshot, cleaned, versions>>

UserWrites(o) ==
    /\ api.exists
    /\ api' = Stored(o)
    /\ versions' = versions \cup {Version(o)}
    /\ UNCHANGED <<cache, inst, pc, queued, job, jobCache, age, faults,
                   snapshot, cleaned>>

Edit(flag) ==
    /\ edits < MaxEdits
    /\ edits' = edits + 1
    /\ \/ UserWrites([api EXCEPT !.flags = @ \cup {flag}])
       \/ UserWrites([api EXCEPT !.flags = @ \ {flag}])

\* Another controller adds or drops a finalizer of its own.
AddForeignFinalizer ==
    /\ edits < MaxEdits
    /\ edits' = edits + 1
    /\ ~api.deleting
    /\ UserWrites([api EXCEPT !.fins = @ \cup {"foreign"}])

DropForeignFinalizer ==
    /\ "foreign" \in api.fins
    /\ UserWrites([api EXCEPT !.fins = @ \ {"foreign"}])
    /\ UNCHANGED edits

Delete ==
    /\ ~api.deleting
    /\ UserWrites([api EXCEPT !.deleting = TRUE])
    /\ UNCHANGED edits

-----------------------------------------------------------------------------
ReconcileStep ==
    \/ BeginReconcile
    \/ EnsureFinalizer
    \/ EnsureSemaphoreFinalizer
    \/ FinishReconcile
    \/ FinalBackupNotHeld
    \/ FinalBackupSkipped
    \/ FinalBackupAbandoned
    \/ CreateFinalJob
    \/ RecordFinalJobName
    \/ FinalJobRunning
    \/ FinalJobFailed
    \/ FinalJobComplete
    \/ RemoveFinalizer
    \/ SemaphoreNotHeld
    \/ SemaphoreCleanup
    \/ RemoveSemaphoreFinalizer
    \/ CallRefused

Next ==
    \/ ReconcileStep
    \/ SemaphoreCleanupFails
    \/ CallFails
    \/ Crash
    \/ SyncInstance
    \/ SyncJob
    \/ Tick
    \/ JobFinishes
    \/ JobDeleted
    \/ \E flag \in Flags : Edit(flag)
    \/ AddForeignFinalizer
    \/ DropForeignFinalizer
    \/ Delete

(***************************************************************************)
(* The work queue keeps running a queued instance and the watches deliver; *)
(* the clock runs; Semaphore is not down for ever; another controller      *)
(* releases its own finalizer.  Nothing is assumed of the backup Job.      *)
(***************************************************************************)
Fairness ==
    /\ WF_vars(ReconcileStep)
    /\ WF_vars(SyncInstance)
    /\ WF_vars(SyncJob)
    /\ WF_vars(Tick)
    /\ SF_vars(SemaphoreCleanup)
    /\ WF_vars(DropForeignFinalizer)

Spec == Init /\ [][Next]_vars

FairSpec == Spec /\ Fairness

-----------------------------------------------------------------------------
TypeOK ==
    /\ api \in Object
    /\ cache \in Object
    /\ inst \in Object
    /\ pc \in Steps
    /\ queued \in BOOLEAN
    /\ job \in JobStates
    /\ jobCache \in JobStates
    /\ age \in 0..(Deadline + 1)
    /\ edits \in 0..MaxEdits
    /\ faults \in 0..MaxFaults
    /\ snapshot \in BOOLEAN
    /\ cleaned \in BOOLEAN
    /\ versions \subseteq [deleting : BOOLEAN, flags : SUBSET Flags]

\* The user asked for no final backup after the deletion request.
Excused == \E v \in versions :
    v.deleting /\ ("skip" \in v.flags \/ "s3" \notin v.flags)

\* In some version of the spec onDelete was off.
OptedOut == \E v \in versions : "onDelete" \notin v.flags

\* In some version of the spec onDelete was on.
OptedIn == \E v \in versions : "onDelete" \in v.flags

ReleaseJustified == snapshot \/ DeadlinePassed \/ Excused \/ OptedOut

(***************************************************************************)
(* The backup-on-delete finalizer leaves an instance that is being deleted *)
(* only when the final snapshot exists, the grace window is over, or the   *)
(* user asked for no backup (HandleDeletion), whatever copy of the object, *)
(* however stale, the patch was computed from.                             *)
(***************************************************************************)
BackupBeforeRelease ==
    [][ (api.deleting /\ "backup" \in api.fins /\ "backup" \notin api'.fins)
          => ReleaseJustified ]_vars

\* The life of the object, as its finalizers see it.
Phase == IF ~api.exists THEN "gone"
         ELSE IF api.deleting THEN "deleting" ELSE "live"

BackupHold == INSTANCE Finalizer WITH
    phase <- Phase, held <- "backup" \in api.fins, earned <- ReleaseJustified

SemaphoreHold == INSTANCE Finalizer WITH
    phase <- Phase, held <- "semaphore" \in api.fins,
    earned <- cleaned \/ OptedIn

(***************************************************************************)
(* The operator's handling of backup-on-delete implements Finalizer: from  *)
(* the deletion request on, no patch, stale or retried, adds the finalizer *)
(* again, and the object is gone only after a release that was earned      *)
(* (EnsureFinalizer, HandleDeletion, RemoveFinalizer).                     *)
(***************************************************************************)
BackupImplementsFinalizer == BackupHold!Spec

(***************************************************************************)
(* So does its handling of semaphore-cleanup, whose work is done when      *)
(* semaphoreCleanup has returned nil, as long as the operator never had a  *)
(* second finalizer to add: a patch of a stale list that adds              *)
(* backup-on-delete may drop this one (run deletion_race).                 *)
(***************************************************************************)
SemaphoreImplementsFinalizer == SemaphoreHold!Spec

(***************************************************************************)
(* What the comment on FinalizerSemaphoreCleanup says: the finalizer is    *)
(* there "so the operator can remove the Semaphore project and user before *)
(* the CR is garbage-collected", that is, it never leaves before that.     *)
(***************************************************************************)
CleanupBeforeRelease ==
    [][ (api.deleting /\ "semaphore" \in api.fins
          /\ "semaphore" \notin api'.fins) => cleaned ]_vars

(***************************************************************************)
(* lastSuccessTime is only written once a final snapshot exists, and the   *)
(* status of a live instance never speaks of a final backup.               *)
(***************************************************************************)
StatusHonest ==
    /\ api.success => snapshot
    /\ api.jobName \/ api.success \/ api.failure # "none" => api.deleting

(***************************************************************************)
(* A failed or stuck snapshot must not make an instance undeletable (#93): *)
(* the backup finalizer of a deleted instance always goes, even when every *)
(* backup Job fails or hangs.                                              *)
(***************************************************************************)
BackupEventuallyReleased == api.deleting ~> "backup" \notin api.fins

(***************************************************************************)
(* A deleted instance disappears, provided cleanupOnDelete stays on while  *)
(* its finalizer is there (the deletion branch never removes the finalizer *)
(* once cleanupOnDelete is off).                                           *)
(***************************************************************************)
EventuallyGone ==
    <>[](("semaphore" \in api.fins) => SemaphoreCleanupOnDelete(api))
        => (api.deleting ~> ~api.exists)

-----------------------------------------------------------------------------
(***************************************************************************)
(* The inductive invariant behind BackupBeforeRelease and StatusHonest.    *)
(***************************************************************************)

\* Each copy is a version the API server has held.
CopiesKnown ==
    {Version(api), Version(cache), Version(inst)} \subseteq versions

\* A copy that shows the deletion shows every finalizer still there: the
\* finalizers of an object that is being deleted only shrink.
ShowsDeletion(copy) ==
    copy.deleting => api.deleting /\ api.fins \subseteq copy.fins

CompleteJobHasSnapshot == "complete" \in {job, jobCache} => snapshot

\* What the reconcile knows at each of its calls.
StepsKnown ==
    /\ pc \in {"handleDeletion", "finalJobStatus", "removeFinalizer",
              "semaphoreCleanup", "removeSemaphore"} => inst.deleting
    /\ pc = "removeFinalizer" => ReleaseJustified
    /\ pc \in {"semaphoreCleanup", "removeSemaphore"}
         => "backup" \notin inst.fins
    /\ pc = "ensureSemaphore" => "backup" \in inst.fins \/ OptedOut

DeletionInv ==
    /\ TypeOK
    /\ CopiesKnown
    /\ ShowsDeletion(cache)
    /\ ShowsDeletion(inst)
    /\ CompleteJobHasSnapshot
    /\ StepsKnown
    /\ StatusHonest

=============================================================================
