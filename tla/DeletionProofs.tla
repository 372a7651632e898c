--------------------------- MODULE DeletionProofs ---------------------------
(***************************************************************************)
(* Proofs about Deletion, for every grace window and every bound on the    *)
(* edits and the faults.                                                   *)
(***************************************************************************)
EXTENDS Deletion, TLAPS

-----------------------------------------------------------------------------
(***************************************************************************)
(* Facts about the two writes to the API server.                           *)
(***************************************************************************)

\* Storing an object changes nothing but its existence.
LEMMA StoredFields ==
    ASSUME NEW o \in Object
    PROVE  /\ Stored(o) \in Object
           /\ Stored(o).deleting = o.deleting
           /\ Stored(o).fins = o.fins
           /\ Stored(o).flags = o.flags
           /\ Stored(o).jobName = o.jobName
           /\ Stored(o).success = o.success
           /\ Stored(o).failure = o.failure
BY DEF Stored, Object

\* A finalizer patch changes the finalizer list and nothing else of the object.
LEMMA PatchFields ==
    ASSUME NEW fins \in SUBSET Finalizers, api \in Object, Patch(fins)
    PROVE  /\ api' \in Object
           /\ inst' = api'
           /\ api'.fins = fins
           /\ api'.deleting = api.deleting
           /\ api'.flags = api.flags
           /\ api'.jobName = api.jobName
           /\ api'.success = api.success
           /\ api'.failure = api.failure
           /\ api.deleting => fins \subseteq api.fins
<1> DEFINE o == [api EXCEPT !.fins = fins]
<1>1. o \in Object /\ o.fins = fins /\ o.deleting = api.deleting
      /\ o.flags = api.flags /\ o.jobName = api.jobName
      /\ o.success = api.success /\ o.failure = api.failure
  BY DEF Object
<1>2. api' = Stored(o) /\ inst' = api' /\ (api.deleting => fins \subseteq api.fins)
  BY DEF Patch, PatchAccepted
<1> HIDE DEF o
<1>3. QED
  BY <1>1, <1>2, StoredFields

-----------------------------------------------------------------------------
(***************************************************************************)
(* Types.                                                                  *)
(***************************************************************************)

\* Every write of the reconcile, the watches and the users keeps the types.
LEMMA TypeStep == TypeOK /\ [Next]_vars => TypeOK'
<1> SUFFICES ASSUME TypeOK, [Next]_vars
             PROVE  TypeOK'
  OBVIOUS
<1> USE BoundsAssumption
<1>1. CASE BeginReconcile
  <2>1. pc' \in Steps
    BY <1>1 DEF BeginReconcile, Steps
  <2>2. queued' \in BOOLEAN /\ inst' = cache
        /\ UNCHANGED <<api, job, faults, snapshot, cleaned, cache, jobCache,
                       age, edits, versions>>
    BY <1>1 DEF BeginReconcile, Environment
  <2>3. QED
    BY <2>1, <2>2 DEF TypeOK
<1>2. CASE EnsureFinalizer
  <2>1. inst.fins \cup {"backup"} \in SUBSET Finalizers
    BY DEF TypeOK, Object, Finalizers
  <2>2. api' \in Object /\ inst' \in Object
    BY <1>2, <2>1, PatchFields DEF EnsureFinalizer, Unwritten, TypeOK
  <2>3. QED
    BY <1>2, <2>2 DEF EnsureFinalizer, Goto, Environment, TypeOK, Steps
<1>3. CASE EnsureSemaphoreFinalizer
  <2>1. inst.fins \cup {"semaphore"} \in SUBSET Finalizers
    BY DEF TypeOK, Object, Finalizers
  <2>2. api' \in Object /\ inst' \in Object
    BY <1>3, <2>1, PatchFields DEF EnsureSemaphoreFinalizer, Unwritten, TypeOK
  <2>3. QED
    BY <1>3, <2>2 DEF EnsureSemaphoreFinalizer, Goto, Environment, TypeOK, Steps
<1>4. CASE FinishReconcile \/ FinalBackupNotHeld \/ FinalBackupSkipped
           \/ FinalJobRunning \/ SemaphoreNotHeld \/ SemaphoreCleanup
           \/ SemaphoreCleanupFails \/ CallRefused
  BY <1>4 DEF FinishReconcile, FinalBackupNotHeld, FinalBackupSkipped,
     FinalJobRunning, SemaphoreNotHeld, SemaphoreCleanup,
     SemaphoreCleanupFails, CallRefused, Requeue, NoRequeue, Goto, Unwritten,
     Environment, TypeOK, Steps
<1>5. CASE FinalBackupAbandoned
  <2>1. [inst EXCEPT !.failure = "FinalBackupDeadlineExceeded"] \in Object
    BY DEF TypeOK, Object
  <2>2. QED
    BY <1>5, <2>1 DEF FinalBackupAbandoned, StatusUpdate, Goto, Unwritten,
       Environment, TypeOK, Steps
<1>6. CASE CreateFinalJob
  BY <1>6 DEF CreateFinalJob, Goto, Unwritten, Environment, TypeOK, Steps,
     JobStates
<1>7. CASE RecordFinalJobName
  <2>1. [inst EXCEPT !.jobName = TRUE] \in Object
    BY DEF TypeOK, Object
  <2>2. QED
    BY <1>7, <2>1 DEF RecordFinalJobName, StatusUpdate, Requeue, Environment,
       TypeOK, Steps
<1>8. CASE FinalJobFailed
  <2>1. [inst EXCEPT !.failure = "FinalBackupJobFailed"] \in Object
    BY DEF TypeOK, Object
  <2>2. QED
    BY <1>8, <2>1 DEF FinalJobFailed, StatusUpdate, Requeue, Environment,
       TypeOK, Steps
<1>9. CASE FinalJobComplete
  <2>1. [inst EXCEPT !.success = TRUE] \in Object
    BY DEF TypeOK, Object
  <2>2. QED
    BY <1>9, <2>1 DEF FinalJobComplete, StatusUpdate, Goto, Environment,
       TypeOK, Steps
<1>10. CASE RemoveFinalizer
  <2>1. inst.fins \ {"backup"} \in SUBSET Finalizers
    BY DEF TypeOK, Object
  <2>2. api' \in Object /\ inst' \in Object
    BY <1>10, <2>1, PatchFields DEF RemoveFinalizer, TypeOK
  <2>3. QED
    BY <1>10, <2>2 DEF RemoveFinalizer, Goto, Environment, TypeOK, Steps
<1>11. CASE RemoveSemaphoreFinalizer
  <2>1. inst.fins \ {"semaphore"} \in SUBSET Finalizers
    BY DEF TypeOK, Object
  <2>2. api' \in Object /\ inst' \in Object
    BY <1>11, <2>1, PatchFields DEF RemoveSemaphoreFinalizer, TypeOK
  <2>3. QED
    BY <1>11, <2>2 DEF RemoveSemaphoreFinalizer, NoRequeue, Environment, TypeOK,
       Steps
<1>12. CASE CallFails
  BY <1>12 DEF CallFails, Requeue, Unwritten, Environment, TypeOK, Steps
<1>13. CASE Crash
  BY <1>13 DEF Crash, Requeue, Unwritten, TypeOK, Steps
<1>14. CASE SyncInstance \/ SyncJob
  BY <1>14 DEF SyncInstance, SyncJob, TypeOK
<1>15. CASE Tick
  <2>1. age' \in 0..(Deadline + 1)
    BY <1>15 DEF Tick, TypeOK
  <2>2. UNCHANGED <<api, cache, inst, pc, queued, job, jobCache, edits, faults,
                    snapshot, cleaned, versions>>
    BY <1>15 DEF Tick
  <2>3. QED
    BY <2>1, <2>2 DEF TypeOK
<1>17. CASE JobDeleted
  BY <1>17 DEF JobDeleted, TypeOK, JobStates
<1>16. CASE JobFinishes
  <2>1. job' \in JobStates
    BY <1>16 DEF JobFinishes, JobStates
  <2>2. snapshot' \in BOOLEAN
    BY <1>16, Zenon DEF JobFinishes
  <2>3. UNCHANGED <<api, cache, inst, pc, queued, jobCache, age, edits, faults,
                    cleaned, versions>>
    BY <1>16 DEF JobFinishes
  <2>4. QED
    BY <2>1, <2>2, <2>3 DEF TypeOK
<1>18. ASSUME NEW o \in Object, UserWrites(o), edits' \in 0..MaxEdits
       PROVE  TypeOK'
  <2>1. Version(o) \in [deleting : BOOLEAN, flags : SUBSET Flags]
    BY DEF Version, Object
  <2>2. QED
    BY <1>18, <2>1, StoredFields DEF UserWrites, TypeOK
<1>19. ASSUME NEW flag \in Flags, Edit(flag)
       PROVE  TypeOK'
  <2>1. [api EXCEPT !.flags = @ \cup {flag}] \in Object
        /\ [api EXCEPT !.flags = @ \ {flag}] \in Object
    BY DEF TypeOK, Object
  <2>2. edits' \in 0..MaxEdits
    BY <1>19 DEF Edit, TypeOK
  <2>3. QED
    BY <1>18, <1>19, <2>1, <2>2 DEF Edit
<1>20. CASE AddForeignFinalizer \/ DropForeignFinalizer
  <2>1. [api EXCEPT !.fins = @ \cup {"foreign"}] \in Object
        /\ [api EXCEPT !.fins = @ \ {"foreign"}] \in Object
    BY DEF TypeOK, Object, Finalizers
  <2>2. edits' \in 0..MaxEdits
    BY <1>20 DEF AddForeignFinalizer, DropForeignFinalizer, TypeOK
  <2>3. QED
    BY <1>18, <1>20, <2>1, <2>2 DEF AddForeignFinalizer, DropForeignFinalizer
<1>21. CASE Delete
  <2>1. [api EXCEPT !.deleting = TRUE] \in Object
    BY DEF TypeOK, Object
  <2>2. edits' \in 0..MaxEdits
    BY <1>21 DEF Delete, TypeOK
  <2>3. QED
    BY <1>18, <1>21, <2>1, <2>2 DEF Delete
<1>22. CASE UNCHANGED vars
  BY <1>22 DEF vars, TypeOK
<1>23. QED
  BY <1>1, <1>2, <1>3, <1>4, <1>5, <1>6, <1>7, <1>8, <1>9, <1>10, <1>11,
     <1>12, <1>13, <1>14, <1>15, <1>16, <1>17, <1>19, <1>20, <1>21, <1>22
  DEF Next, ReconcileStep

\* The initial states have the right types.
LEMMA InitTypeOK == Init => TypeOK
<1> SUFFICES ASSUME Init PROVE TypeOK
  OBVIOUS
<1>1. api \in Object /\ cache = api /\ inst = api
  BY DEF Init, Object, Finalizers
<1>2. Version(api) \in [deleting : BOOLEAN, flags : SUBSET Flags]
  BY <1>1 DEF Version, Object
<1>3. queued \in BOOLEAN /\ snapshot \in BOOLEAN /\ cleaned \in BOOLEAN
  BY Zenon DEF Init
<1>4. /\ age \in 0..(Deadline + 1)
      /\ edits \in 0..MaxEdits
      /\ faults \in 0..MaxFaults
  BY BoundsAssumption DEF Init
<1>5. pc \in Steps /\ job \in JobStates /\ jobCache \in JobStates
      /\ versions \subseteq [deleting : BOOLEAN, flags : SUBSET Flags]
  BY <1>2 DEF Init, Steps, JobStates
<1>6. QED
  BY <1>1, <1>3, <1>4, <1>5 DEF TypeOK

\* The variables keep their types in every behaviour of the deletion protocol.
THEOREM TypeCorrect == Spec => []TypeOK
BY InitTypeOK, TypeStep, PTL DEF Spec

-----------------------------------------------------------------------------
(***************************************************************************)
(* The inductive invariant.                                                *)
(***************************************************************************)

\* Histories only grow and the clock only advances, so a reason to release
\* the finalizer stays one.
LEMMA ReasonsPersist ==
    ASSUME TypeOK, [Next]_vars
    PROVE  /\ versions \subseteq versions'
           /\ snapshot => snapshot'
           /\ DeadlinePassed => DeadlinePassed'
<1> USE DEF Requeue, NoRequeue, Goto, Unwritten, Environment
<1>1. CASE ReconcileStep
  BY <1>1 DEF ReconcileStep, BeginReconcile, EnsureFinalizer,
     EnsureSemaphoreFinalizer, FinishReconcile, FinalBackupNotHeld,
     FinalBackupSkipped, FinalBackupAbandoned, CreateFinalJob,
     RecordFinalJobName, FinalJobRunning, FinalJobFailed, FinalJobComplete,
     RemoveFinalizer, SemaphoreNotHeld, SemaphoreCleanup,
     RemoveSemaphoreFinalizer, CallRefused, DeadlinePassed
<1>2. CASE SemaphoreCleanupFails \/ CallFails \/ Crash \/ SyncInstance \/ SyncJob
           \/ JobDeleted
  BY <1>2 DEF SemaphoreCleanupFails, CallFails, Crash, SyncInstance, SyncJob,
     JobDeleted, DeadlinePassed
<1>3. CASE Tick
  BY <1>3, BoundsAssumption DEF Tick, DeadlinePassed, TypeOK
<1>4. CASE JobFinishes
  <2>1. snapshot => snapshot'
    BY <1>4, Zenon DEF JobFinishes
  <2>2. QED
    BY <1>4, <2>1 DEF JobFinishes, DeadlinePassed
<1>5. CASE (\E flag \in Flags : Edit(flag)) \/ AddForeignFinalizer
           \/ DropForeignFinalizer \/ Delete
  <2>1. \E o : UserWrites(o)
    BY <1>5, Zenon DEF Edit, AddForeignFinalizer, DropForeignFinalizer, Delete
  <2>2. versions \subseteq versions' /\ UNCHANGED <<snapshot, age>>
    BY <2>1, Zenon DEF UserWrites
  <2>3. QED
    BY <2>2 DEF DeadlinePassed
<1>6. CASE UNCHANGED vars
  BY <1>6 DEF vars, DeadlinePassed
<1>7. QED
  BY <1>1, <1>2, <1>3, <1>4, <1>5, <1>6 DEF Next

\* So every disjunct of ReleaseJustified, once true, stays true.
LEMMA JustificationPersists ==
    ASSUME TypeOK, [Next]_vars
    PROVE  /\ ReleaseJustified => ReleaseJustified'
           /\ OptedOut => OptedOut'
BY ReasonsPersist DEF ReleaseJustified, Excused, OptedOut

\* Patching the finalizers keeps what the copies show of the object.
LEMMA PatchKeepsCopies ==
    ASSUME NEW fins \in SUBSET Finalizers, DeletionInv, Patch(fins),
           UNCHANGED <<cache, versions, snapshot>>
    PROVE  CopiesKnown' /\ ShowsDeletion(cache)' /\ ShowsDeletion(inst)'
           /\ StatusHonest'
<1>1. /\ inst' = api'
      /\ api'.fins = fins
      /\ api'.deleting = api.deleting
      /\ api'.flags = api.flags
      /\ api'.jobName = api.jobName
      /\ api'.success = api.success
      /\ api'.failure = api.failure
      /\ api.deleting => fins \subseteq api.fins
  BY PatchFields DEF DeletionInv, TypeOK
<1>2. CopiesKnown'
  BY <1>1 DEF DeletionInv, CopiesKnown, Version
<1>3. ShowsDeletion(cache)' /\ ShowsDeletion(inst)'
  BY <1>1 DEF DeletionInv, ShowsDeletion
<1>4. StatusHonest'
  BY <1>1 DEF DeletionInv, StatusHonest
<1>5. QED
  BY <1>2, <1>3, <1>4

\* So does a status update, which only an up-to-date copy can make.
LEMMA UpdateKeepsCopies ==
    ASSUME NEW o, DeletionInv, StatusUpdate(o), UNCHANGED <<cache, versions>>,
           o.deleting = inst.deleting, o.flags = inst.flags, o.fins = inst.fins
    PROVE  CopiesKnown' /\ ShowsDeletion(cache)' /\ ShowsDeletion(inst)'
<1>1. inst = api /\ api' = o /\ inst' = o
  BY DEF StatusUpdate, UpdateAccepted
<1>2. QED
  BY <1>1 DEF DeletionInv, CopiesKnown, Version, ShowsDeletion

\* Steps that write nothing keep everything but the program counter.
LEMMA UnwrittenKeeps ==
    ASSUME DeletionInv, Unwritten,
           UNCHANGED <<cache, jobCache, versions, job, snapshot>>
    PROVE  CopiesKnown' /\ ShowsDeletion(cache)' /\ ShowsDeletion(inst)'
           /\ CompleteJobHasSnapshot' /\ StatusHonest'
BY DEF Unwritten, DeletionInv, CopiesKnown, Version, ShowsDeletion,
   CompleteJobHasSnapshot, StatusHonest

\* A write by a user: finalizers of a deleted object only shrink.
LEMMA UserWriteKeeps ==
    ASSUME NEW o \in Object, DeletionInv, [Next]_vars, UserWrites(o),
           api.deleting => o.deleting /\ o.fins \subseteq api.fins,
           o.jobName = api.jobName, o.success = api.success,
           o.failure = api.failure
    PROVE  DeletionInv'
<1>1. /\ api'.fins = o.fins
      /\ api'.deleting = o.deleting
      /\ api'.flags = o.flags
      /\ api'.jobName = o.jobName
      /\ api'.success = o.success
      /\ api'.failure = o.failure
  BY StoredFields DEF UserWrites
<1>2. /\ versions' = versions \cup {Version(o)}
      /\ UNCHANGED <<cache, inst, pc, job, jobCache, age, snapshot>>
  BY DEF UserWrites
<1>3. TypeOK'
  BY TypeStep DEF DeletionInv
<1>4. CopiesKnown'
  BY <1>1, <1>2 DEF DeletionInv, CopiesKnown, Version
<1>5. ShowsDeletion(cache)' /\ ShowsDeletion(inst)'
  BY <1>1, <1>2 DEF DeletionInv, ShowsDeletion
<1>6. CompleteJobHasSnapshot'
  BY <1>2 DEF DeletionInv, CompleteJobHasSnapshot
<1>7. StepsKnown'
  BY <1>2, JustificationPersists DEF DeletionInv, StepsKnown
<1>8. StatusHonest'
  BY <1>1, <1>2 DEF DeletionInv, StatusHonest
<1>9. QED
  BY <1>3, <1>4, <1>5, <1>6, <1>7, <1>8 DEF DeletionInv

-----------------------------------------------------------------------------
\* The invariant is inductive: one step per action.
LEMMA InvStep == DeletionInv /\ [Next]_vars => DeletionInv'
<1> SUFFICES ASSUME DeletionInv, [Next]_vars
             PROVE  DeletionInv'
  OBVIOUS
<1>1. TypeOK /\ TypeOK'
  BY TypeStep DEF DeletionInv
<1>2. /\ ReleaseJustified => ReleaseJustified'
      /\ OptedOut => OptedOut'
  BY <1>1, JustificationPersists
<1>3. CASE BeginReconcile
  <2>1. /\ UNCHANGED <<api, job, snapshot, cache, jobCache, age, versions>>
        /\ inst' = cache
        /\ pc' = IF ~cache.exists THEN "idle"
                 ELSE IF cache.deleting THEN "handleDeletion"
                 ELSE "ensureFinalizer"
    BY <1>3 DEF BeginReconcile, Environment
  <2>2. StepsKnown'
    BY <2>1 DEF StepsKnown
  <2>3. QED
    BY <1>1, <2>1, <2>2 DEF DeletionInv, CopiesKnown, Version, ShowsDeletion,
       CompleteJobHasSnapshot, StatusHonest
<1>4. CASE EnsureFinalizer
  <2>1. inst.fins \cup {"backup"} \in SUBSET Finalizers
    BY <1>1 DEF TypeOK, Object, Finalizers
  <2>2. UNCHANGED <<cache, jobCache, versions, job, snapshot>>
        /\ pc' = "ensureSemaphore"
    BY <1>4 DEF EnsureFinalizer, Goto, Environment
  <2>3. CASE BackupFinalizerMissing
    <3>1. Patch(inst.fins \cup {"backup"})
      BY <1>4, <2>3 DEF EnsureFinalizer
    <3>2. "backup" \in inst'.fins
      BY <1>1, <2>1, <3>1, PatchFields DEF TypeOK
    <3>3. StepsKnown'
      BY <2>2, <3>2 DEF StepsKnown
    <3>4. QED
      BY <1>1, <2>1, <2>2, <3>1, <3>3, PatchKeepsCopies
      DEF DeletionInv, CompleteJobHasSnapshot
  <2>4. CASE ~BackupFinalizerMissing
    <3>1. Unwritten
      BY <1>4, <2>4 DEF EnsureFinalizer
    <3>2. "backup" \in inst.fins \/ OptedOut
      BY <2>4 DEF BackupFinalizerMissing, OptedOut, DeletionInv, CopiesKnown,
         Version
    <3>3. StepsKnown'
      BY <1>2, <2>2, <3>1, <3>2 DEF StepsKnown, Unwritten
    <3>4. QED
      BY <1>1, <2>2, <3>1, <3>3, UnwrittenKeeps DEF DeletionInv
  <2>5. QED
    BY <2>3, <2>4
<1>5. CASE EnsureSemaphoreFinalizer
  <2>1. inst.fins \cup {"semaphore"} \in SUBSET Finalizers
    BY <1>1 DEF TypeOK, Object, Finalizers
  <2>2. UNCHANGED <<cache, jobCache, versions, job, snapshot>>
        /\ pc' = "subsystems"
    BY <1>5 DEF EnsureSemaphoreFinalizer, Goto, Environment
  <2>3. StepsKnown'
    BY <2>2 DEF StepsKnown
  <2>4. CASE SemaphoreFinalizerMissing
    <3>1. Patch(inst.fins \cup {"semaphore"})
      BY <1>5, <2>4 DEF EnsureSemaphoreFinalizer
    <3>2. QED
      BY <1>1, <2>1, <2>2, <2>3, <3>1, PatchKeepsCopies
      DEF DeletionInv, CompleteJobHasSnapshot
  <2>5. CASE ~SemaphoreFinalizerMissing
    <3>1. Unwritten
      BY <1>5, <2>5 DEF EnsureSemaphoreFinalizer
    <3>2. QED
      BY <1>1, <2>2, <2>3, <3>1, UnwrittenKeeps DEF DeletionInv
  <2>6. QED
    BY <2>4, <2>5
<1>6. CASE FinishReconcile \/ FinalJobRunning \/ SemaphoreNotHeld
           \/ SemaphoreCleanupFails \/ CallRefused \/ CallFails
  <2>1. Unwritten /\ pc' = "idle"
        /\ UNCHANGED <<cache, jobCache, versions, job, snapshot>>
    BY <1>6 DEF FinishReconcile, FinalJobRunning, SemaphoreNotHeld,
       SemaphoreCleanupFails, CallRefused, CallFails, Requeue, NoRequeue,
       Environment
  <2>2. StepsKnown'
    BY <2>1 DEF StepsKnown
  <2>3. QED
    BY <1>1, <2>1, <2>2, UnwrittenKeeps DEF DeletionInv
<1>7. CASE FinalBackupNotHeld
  <2>1. Unwritten /\ pc' = "semaphoreCleanup"
        /\ UNCHANGED <<cache, jobCache, versions, job, snapshot>>
    BY <1>7 DEF FinalBackupNotHeld, Goto, Environment
  <2>2. "backup" \notin inst.fins /\ inst.deleting
    BY <1>7 DEF FinalBackupNotHeld, DeletionInv, StepsKnown
  <2>3. StepsKnown'
    BY <2>1, <2>2 DEF StepsKnown, Unwritten
  <2>4. QED
    BY <1>1, <2>1, <2>3, UnwrittenKeeps DEF DeletionInv
<1>8. CASE FinalBackupSkipped
  <2>1. Unwritten /\ pc' = "removeFinalizer"
        /\ UNCHANGED <<cache, jobCache, versions, job, snapshot>>
    BY <1>8 DEF FinalBackupSkipped, Goto, Environment
  <2>2. inst.deleting
    BY <1>8 DEF FinalBackupSkipped, DeletionInv, StepsKnown
  <2>3. Excused
    BY <1>8, <2>2 DEF FinalBackupSkipped, Excused, DeletionInv, CopiesKnown,
       Version
  <2>4. StepsKnown'
    BY <1>2, <2>1, <2>2, <2>3 DEF StepsKnown, Unwritten, ReleaseJustified
  <2>5. QED
    BY <1>1, <2>1, <2>4, UnwrittenKeeps DEF DeletionInv
<1>9. CASE FinalBackupAbandoned
  <2>1. /\ pc' = "removeFinalizer"
        /\ UNCHANGED <<cache, jobCache, versions, job, snapshot>>
        /\ DeadlinePassed
    BY <1>9 DEF FinalBackupAbandoned, Goto, Environment
  <2>2. inst.deleting
    BY <1>9 DEF FinalBackupAbandoned, FinalBackupWanted, DeletionInv, StepsKnown
  <2>3. ReleaseJustified'
    BY <1>2, <2>1 DEF ReleaseJustified
  <2> DEFINE o == [inst EXCEPT !.failure = "FinalBackupDeadlineExceeded"]
  <2>4. o.deleting = inst.deleting /\ o.flags = inst.flags /\ o.fins = inst.fins
        /\ o.success = inst.success
    BY <1>1 DEF TypeOK, Object
  <2>5. CASE StatusUpdate(o)
    <3>1. inst = api /\ api' = o /\ inst' = o
      BY <2>5 DEF StatusUpdate, UpdateAccepted
    <3> HIDE DEF o
    <3>2. StepsKnown'
      BY <2>1, <2>2, <2>3, <2>4, <3>1 DEF StepsKnown
    <3>3. StatusHonest'
      BY <2>1, <2>2, <2>4, <3>1 DEF DeletionInv, StatusHonest
    <3>4. CompleteJobHasSnapshot'
      BY <2>1 DEF DeletionInv, CompleteJobHasSnapshot
    <3>5. QED
      BY <1>1, <2>1, <2>4, <2>5, <3>2, <3>3, <3>4, UpdateKeepsCopies
      DEF DeletionInv
  <2>6. CASE Unwritten
    <3>1. StepsKnown'
      BY <2>1, <2>2, <2>3, <2>6 DEF StepsKnown, Unwritten
    <3>2. QED
      BY <1>1, <2>1, <2>6, <3>1, UnwrittenKeeps DEF DeletionInv
  <2>7. QED
    BY <1>9, <2>5, <2>6 DEF FinalBackupAbandoned
<1>10. CASE CreateFinalJob
  <2>1. Unwritten /\ pc' = "finalJobStatus"
        /\ UNCHANGED <<cache, jobCache, versions, snapshot>>
        /\ (job' = "running" \/ job' = job)
    BY <1>10 DEF CreateFinalJob, Goto, Environment
  <2>2. inst.deleting
    BY <1>10 DEF CreateFinalJob, FinalBackupDue, FinalBackupWanted, DeletionInv,
       StepsKnown
  <2>3. StepsKnown'
    BY <2>1, <2>2 DEF StepsKnown, Unwritten
  <2>4. CompleteJobHasSnapshot'
    BY <2>1 DEF DeletionInv, CompleteJobHasSnapshot
  <2>5. QED
    BY <1>1, <2>1, <2>3, <2>4 DEF DeletionInv, Unwritten, CopiesKnown, Version,
       ShowsDeletion, StatusHonest
<1>11. CASE RecordFinalJobName
  <2> DEFINE o == [inst EXCEPT !.jobName = TRUE]
  <2>1. /\ pc' = "idle"
        /\ UNCHANGED <<cache, jobCache, versions, job, snapshot>>
        /\ StatusUpdate(o)
    BY <1>11 DEF RecordFinalJobName, Requeue, Environment
  <2>2. inst.deleting
    BY <1>11 DEF RecordFinalJobName, DeletionInv, StepsKnown
  <2>3. o.deleting = inst.deleting /\ o.flags = inst.flags /\ o.fins = inst.fins
        /\ o.success = inst.success
    BY <1>1 DEF TypeOK, Object
  <2> HIDE DEF o
  <2>4. StatusHonest'
    BY <2>1, <2>2, <2>3
    DEF StatusUpdate, UpdateAccepted, DeletionInv, StatusHonest
  <2>5. StepsKnown' /\ CompleteJobHasSnapshot'
    BY <2>1 DEF StepsKnown, DeletionInv, CompleteJobHasSnapshot
  <2>6. QED
    BY <1>1, <2>1, <2>3, <2>4, <2>5, UpdateKeepsCopies DEF DeletionInv
<1>12. CASE FinalJobFailed
  <2> DEFINE o == [inst EXCEPT !.failure = "FinalBackupJobFailed"]
  <2>1. /\ pc' = "idle"
        /\ UNCHANGED <<cache, jobCache, versions, job, snapshot>>
        /\ StatusUpdate(o)
    BY <1>12 DEF FinalJobFailed, Requeue, Environment
  <2>2. inst.deleting
    BY <1>12 DEF FinalJobFailed, FinalBackupDue, FinalBackupWanted, DeletionInv,
       StepsKnown
  <2>3. o.deleting = inst.deleting /\ o.flags = inst.flags /\ o.fins = inst.fins
        /\ o.success = inst.success
    BY <1>1 DEF TypeOK, Object
  <2> HIDE DEF o
  <2>4. StatusHonest'
    BY <2>1, <2>2, <2>3
    DEF StatusUpdate, UpdateAccepted, DeletionInv, StatusHonest
  <2>5. StepsKnown' /\ CompleteJobHasSnapshot'
    BY <2>1 DEF StepsKnown, DeletionInv, CompleteJobHasSnapshot
  <2>6. QED
    BY <1>1, <2>1, <2>3, <2>4, <2>5, UpdateKeepsCopies DEF DeletionInv
<1>13. CASE FinalJobComplete
  <2> DEFINE o == [inst EXCEPT !.success = TRUE]
  <2>1. /\ pc' = "removeFinalizer"
        /\ UNCHANGED <<cache, jobCache, versions, job, snapshot>>
        /\ StatusUpdate(o)
    BY <1>13 DEF FinalJobComplete, Goto, Environment
  <2>2. inst.deleting
    BY <1>13 DEF FinalJobComplete, FinalBackupDue, FinalBackupWanted,
       DeletionInv, StepsKnown
  <2>3. snapshot
    BY <1>13 DEF FinalJobComplete, DeletionInv, CompleteJobHasSnapshot
  <2>4. o.deleting = inst.deleting /\ o.flags = inst.flags /\ o.fins = inst.fins
    BY <1>1 DEF TypeOK, Object
  <2> HIDE DEF o
  <2>5. inst = api /\ api' = o /\ inst' = o
    BY <2>1 DEF StatusUpdate, UpdateAccepted
  <2>6. StatusHonest'
    BY <2>1, <2>2, <2>3, <2>4, <2>5 DEF StatusHonest
  <2>7. ReleaseJustified'
    BY <1>2, <2>3 DEF ReleaseJustified
  <2>8. StepsKnown'
    BY <2>1, <2>2, <2>4, <2>5, <2>7 DEF StepsKnown
  <2>9. CompleteJobHasSnapshot'
    BY <2>1, <2>3 DEF CompleteJobHasSnapshot
  <2>10. QED
    BY <1>1, <2>1, <2>4, <2>6, <2>8, <2>9, UpdateKeepsCopies DEF DeletionInv
<1>14. CASE RemoveFinalizer
  <2>1. inst.fins \ {"backup"} \in SUBSET Finalizers
    BY <1>1 DEF TypeOK, Object
  <2>2. /\ pc' = "semaphoreCleanup"
        /\ UNCHANGED <<cache, jobCache, versions, job, snapshot>>
        /\ Patch(inst.fins \ {"backup"})
    BY <1>14 DEF RemoveFinalizer, Goto, Environment
  <2>3. api.deleting
    BY <1>14 DEF RemoveFinalizer, DeletionInv, StepsKnown, ShowsDeletion
  <2>4. inst'.deleting /\ "backup" \notin inst'.fins
    BY <1>1, <2>1, <2>2, <2>3, PatchFields DEF TypeOK
  <2>5. StepsKnown' /\ CompleteJobHasSnapshot'
    BY <2>2, <2>4 DEF StepsKnown, DeletionInv, CompleteJobHasSnapshot
  <2>6. QED
    BY <1>1, <2>1, <2>2, <2>5, PatchKeepsCopies DEF DeletionInv
<1>15. CASE SemaphoreCleanup
  <2>1. Unwritten /\ pc' = "removeSemaphore"
        /\ UNCHANGED <<cache, jobCache, versions, job, snapshot>>
    BY <1>15 DEF SemaphoreCleanup, Goto, Environment
  <2>2. inst.deleting /\ "backup" \notin inst.fins
    BY <1>15 DEF SemaphoreCleanup, DeletionInv, StepsKnown
  <2>3. StepsKnown'
    BY <2>1, <2>2 DEF StepsKnown, Unwritten
  <2>4. QED
    BY <1>1, <2>1, <2>3, UnwrittenKeeps DEF DeletionInv
<1>16. CASE RemoveSemaphoreFinalizer
  <2>1. inst.fins \ {"semaphore"} \in SUBSET Finalizers
    BY <1>1 DEF TypeOK, Object
  <2>2. /\ pc' = "idle"
        /\ UNCHANGED <<cache, jobCache, versions, job, snapshot>>
        /\ Patch(inst.fins \ {"semaphore"})
    BY <1>16 DEF RemoveSemaphoreFinalizer, NoRequeue, Environment
  <2>3. StepsKnown' /\ CompleteJobHasSnapshot'
    BY <2>2 DEF StepsKnown, DeletionInv, CompleteJobHasSnapshot
  <2>4. QED
    BY <1>1, <2>1, <2>2, <2>3, PatchKeepsCopies DEF DeletionInv
<1>17. CASE Crash \/ SyncInstance \/ SyncJob
  <2>1. /\ UNCHANGED <<api, inst, versions, job, snapshot, age>>
        /\ cache' \in {cache, api}
        /\ jobCache' \in {jobCache, job}
        /\ pc' \in {pc, "idle"}
    BY <1>17 DEF Crash, SyncInstance, SyncJob, Requeue, Unwritten
  <2>2. CopiesKnown'
    BY <2>1 DEF DeletionInv, CopiesKnown, Version
  <2>3. ShowsDeletion(cache)' /\ ShowsDeletion(inst)'
    BY <2>1 DEF DeletionInv, ShowsDeletion
  <2>4. CompleteJobHasSnapshot'
    BY <2>1 DEF DeletionInv, CompleteJobHasSnapshot
  <2>5. StepsKnown'
    BY <1>2, <2>1 DEF DeletionInv, StepsKnown
  <2>6. StatusHonest'
    BY <2>1 DEF DeletionInv, StatusHonest
  <2>7. QED
    BY <1>1, <2>2, <2>3, <2>4, <2>5, <2>6 DEF DeletionInv
<1>18. CASE Tick \/ JobDeleted
  <2>1. /\ UNCHANGED <<api, cache, inst, pc, jobCache, versions, snapshot>>
        /\ job' \in {job, "absent"}
    BY <1>18 DEF Tick, JobDeleted
  <2>2. CompleteJobHasSnapshot'
    BY <2>1 DEF DeletionInv, CompleteJobHasSnapshot
  <2>3. StepsKnown'
    BY <1>2, <2>1 DEF DeletionInv, StepsKnown
  <2>4. QED
    BY <1>1, <2>1, <2>2, <2>3 DEF DeletionInv, CopiesKnown, Version,
       ShowsDeletion, StatusHonest
<1>19. CASE JobFinishes
  <2>1. UNCHANGED <<api, cache, inst, pc, jobCache, versions>>
    BY <1>19 DEF JobFinishes
  <2>2. (snapshot => snapshot') /\ (job' = "complete" => snapshot')
    BY <1>19, Zenon DEF JobFinishes
  <2>3. CompleteJobHasSnapshot'
    BY <2>1, <2>2 DEF DeletionInv, CompleteJobHasSnapshot
  <2>4. StepsKnown'
    BY <1>2, <2>1 DEF DeletionInv, StepsKnown
  <2>5. StatusHonest'
    BY <2>1, <2>2 DEF DeletionInv, StatusHonest
  <2>6. QED
    BY <1>1, <2>1, <2>3, <2>4, <2>5 DEF DeletionInv, CopiesKnown, Version,
       ShowsDeletion
<1>20. ASSUME NEW flag \in Flags, Edit(flag)
       PROVE  DeletionInv'
  <2> DEFINE on == [api EXCEPT !.flags = @ \cup {flag}]
             off == [api EXCEPT !.flags = @ \ {flag}]
  <2>1. \A o \in {on, off} :
          /\ o \in Object /\ o.deleting = api.deleting /\ o.fins = api.fins
          /\ o.jobName = api.jobName /\ o.success = api.success
          /\ o.failure = api.failure
    BY <1>1 DEF TypeOK, Object
  <2>2. UserWrites(on) \/ UserWrites(off)
    BY <1>20 DEF Edit
  <2> HIDE DEF on, off
  <2>3. QED
    BY <2>1, <2>2, UserWriteKeeps
<1>21. CASE AddForeignFinalizer \/ DropForeignFinalizer
  <2> DEFINE more == [api EXCEPT !.fins = @ \cup {"foreign"}]
             less == [api EXCEPT !.fins = @ \ {"foreign"}]
  <2>1. \A o \in {more, less} :
          /\ o \in Object /\ o.deleting = api.deleting
          /\ o.jobName = api.jobName /\ o.success = api.success
          /\ o.failure = api.failure
    BY <1>1 DEF TypeOK, Object, Finalizers
  <2>2. less.fins \subseteq api.fins
    BY <1>1 DEF TypeOK, Object
  <2>3. (UserWrites(more) /\ ~api.deleting) \/ UserWrites(less)
    BY <1>21 DEF AddForeignFinalizer, DropForeignFinalizer
  <2> HIDE DEF more, less
  <2>4. QED
    BY <2>1, <2>2, <2>3, UserWriteKeeps
<1>22. CASE Delete
  <2> DEFINE o == [api EXCEPT !.deleting = TRUE]
  <2>1. /\ o \in Object /\ o.deleting /\ o.fins = api.fins
        /\ o.jobName = api.jobName /\ o.success = api.success
        /\ o.failure = api.failure
    BY <1>1 DEF TypeOK, Object
  <2>2. UserWrites(o)
    BY <1>22 DEF Delete
  <2> HIDE DEF o
  <2>3. QED
    BY <2>1, <2>2, UserWriteKeeps
<1>23. CASE UNCHANGED vars
  BY <1>23 DEF vars, DeletionInv, TypeOK, CopiesKnown, Version, ShowsDeletion,
     CompleteJobHasSnapshot, StepsKnown, StatusHonest, ReleaseJustified,
     DeadlinePassed, Excused, OptedOut
<1>24. QED
  BY <1>3, <1>4, <1>5, <1>6, <1>7, <1>8, <1>9, <1>10, <1>11, <1>12, <1>13,
     <1>14, <1>15, <1>16, <1>17, <1>18, <1>19, <1>20, <1>21, <1>22, <1>23
  DEF Next, ReconcileStep

\* The inductive invariant holds in every behaviour.
THEOREM InvHolds == Spec => []DeletionInv
<1>1. Init => DeletionInv
  <2> SUFFICES ASSUME Init PROVE DeletionInv
    OBVIOUS
  <2>1. TypeOK
    BY InitTypeOK
  <2>2. CopiesKnown /\ ShowsDeletion(cache) /\ ShowsDeletion(inst)
    BY DEF Init, CopiesKnown, ShowsDeletion
  <2>3. CompleteJobHasSnapshot /\ StepsKnown
    BY DEF Init, CompleteJobHasSnapshot, StepsKnown
  <2>4. StatusHonest
    BY DEF Init, StatusHonest
  <2>5. QED
    BY <2>1, <2>2, <2>3, <2>4 DEF DeletionInv
<1>2. QED
  BY <1>1, InvStep, PTL DEF Spec

\* lastSuccessTime and the other final-backup fields of the status never
\* claim a backup, or a deletion, that did not happen.
THEOREM StatusIsHonest == Spec => []StatusHonest
<1>1. DeletionInv => StatusHonest
  BY DEF DeletionInv
<1>2. QED
  BY <1>1, InvHolds, PTL

-----------------------------------------------------------------------------
(***************************************************************************)
(* The main result.                                                        *)
(***************************************************************************)

\* A user's write takes no finalizer of the operator off the object.
LEMMA UserKeepsFinalizers ==
    ASSUME NEW o \in Object, UserWrites(o), "backup" \in o.fins
    PROVE  "backup" \in api'.fins
BY StoredFields DEF UserWrites

\* Every step that takes the backup finalizer off a deleted instance has its
\* reason: from the copies' invariant, a live-branch patch lists it unless
\* onDelete was once off, and the Semaphore patch finds it gone already.
LEMMA ReleaseStep ==
    ASSUME DeletionInv, [Next]_vars, api.deleting, "backup" \in api.fins,
           "backup" \notin api'.fins
    PROVE  ReleaseJustified
<1>1. TypeOK
  BY DEF DeletionInv
<1>2. CASE EnsureFinalizer
  <2>1. inst.fins \cup {"backup"} \in SUBSET Finalizers
    BY <1>1 DEF TypeOK, Object, Finalizers
  <2>2. Unwritten \/ Patch(inst.fins \cup {"backup"})
    BY <1>2 DEF EnsureFinalizer
  <2>3. QED
    BY <1>1, <2>1, <2>2, PatchFields DEF TypeOK, Unwritten
<1>3. CASE EnsureSemaphoreFinalizer
  <2>1. inst.fins \cup {"semaphore"} \in SUBSET Finalizers
    BY <1>1 DEF TypeOK, Object, Finalizers
  <2>2. Unwritten \/ Patch(inst.fins \cup {"semaphore"})
    BY <1>3 DEF EnsureSemaphoreFinalizer
  <2>3. "backup" \notin inst.fins
    BY <1>1, <2>1, <2>2, PatchFields DEF TypeOK, Unwritten
  <2>4. QED
    BY <1>3, <2>3 DEF EnsureSemaphoreFinalizer, DeletionInv, StepsKnown,
       ReleaseJustified
<1>4. CASE RemoveFinalizer
  BY <1>4 DEF RemoveFinalizer, DeletionInv, StepsKnown
<1>5. CASE RemoveSemaphoreFinalizer
  BY <1>5 DEF RemoveSemaphoreFinalizer, DeletionInv, StepsKnown, ShowsDeletion
<1>6. CASE FinalBackupAbandoned
  BY <1>6 DEF FinalBackupAbandoned, ReleaseJustified
<1>7. CASE RecordFinalJobName \/ FinalJobFailed \/ FinalJobComplete
  <2>1. inst = api
    BY <1>7 DEF RecordFinalJobName, FinalJobFailed, FinalJobComplete,
       StatusUpdate, UpdateAccepted
  <2>2. api'.fins = inst.fins
    BY <1>1, <1>7 DEF RecordFinalJobName, FinalJobFailed, FinalJobComplete,
       StatusUpdate, TypeOK, Object
  <2>3. QED
    BY <2>1, <2>2
<1>8. CASE BeginReconcile \/ FinishReconcile \/ FinalBackupNotHeld
           \/ FinalBackupSkipped \/ CreateFinalJob \/ FinalJobRunning
           \/ SemaphoreNotHeld \/ SemaphoreCleanup \/ SemaphoreCleanupFails
           \/ CallRefused \/ CallFails \/ Crash \/ SyncInstance \/ SyncJob
           \/ Tick \/ JobFinishes \/ JobDeleted \/ UNCHANGED vars
  <2>1. UNCHANGED api
    BY <1>8 DEF BeginReconcile, FinishReconcile, FinalBackupNotHeld,
       FinalBackupSkipped, CreateFinalJob, FinalJobRunning, SemaphoreNotHeld,
       SemaphoreCleanup, SemaphoreCleanupFails, CallRefused, CallFails, Crash,
       SyncInstance, SyncJob, Tick, JobFinishes, JobDeleted, Unwritten, vars
  <2>2. QED
    BY <2>1
<1>9. ASSUME NEW flag \in Flags, Edit(flag)
      PROVE  FALSE
  <2> DEFINE on == [api EXCEPT !.flags = @ \cup {flag}]
             off == [api EXCEPT !.flags = @ \ {flag}]
  <2>1. \A o \in {on, off} : o \in Object /\ "backup" \in o.fins
    BY <1>1 DEF TypeOK, Object
  <2>2. UserWrites(on) \/ UserWrites(off)
    BY <1>9 DEF Edit
  <2> HIDE DEF on, off
  <2>3. QED
    BY <2>1, <2>2, UserKeepsFinalizers
<1>10. CASE AddForeignFinalizer \/ DropForeignFinalizer \/ Delete
  <2> DEFINE more == [api EXCEPT !.fins = @ \cup {"foreign"}]
             less == [api EXCEPT !.fins = @ \ {"foreign"}]
             dead == [api EXCEPT !.deleting = TRUE]
  <2>1. /\ more \in Object /\ "backup" \in more.fins
        /\ less \in Object /\ "backup" \in less.fins
        /\ dead \in Object /\ "backup" \in dead.fins
    BY <1>1 DEF TypeOK, Object, Finalizers
  <2>2. UserWrites(more) \/ UserWrites(less) \/ UserWrites(dead)
    BY <1>10 DEF AddForeignFinalizer, DropForeignFinalizer, Delete
  <2> HIDE DEF more, less, dead
  <2>3. QED
    BY <2>1, <2>2, UserKeepsFinalizers
<1>11. QED
  BY <1>2, <1>3, <1>4, <1>5, <1>6, <1>7, <1>8, <1>9, <1>10
  DEF Next, ReconcileStep

\* The backup-on-delete finalizer leaves a deleted instance only with a final
\* snapshot taken, the grace window over, or the user's consent.
THEOREM ReleaseIsJustified == Spec => BackupBeforeRelease
<1>1. DeletionInv /\ [Next]_vars
        => [ (api.deleting /\ "backup" \in api.fins /\ "backup" \notin api'.fins)
               => ReleaseJustified ]_vars
  BY ReleaseStep
<1>2. QED
  BY <1>1, InvHolds, PTL DEF Spec, BackupBeforeRelease

-----------------------------------------------------------------------------
(***************************************************************************)
(* Deletion implements Finalizer, for backup-on-delete and for             *)
(* semaphore-cleanup: the four ways in which a step moves the object       *)
(* through its life.                                                       *)
(***************************************************************************)
LifeKept ==
    /\ api'.exists = api.exists
    /\ api'.deleting = api.deleting
    /\ api'.fins = api.fins

StaysLive == api.exists /\ ~api.deleting /\ api'.exists /\ ~api'.deleting

BecomesDeleted ==
    /\ api.exists /\ ~api.deleting
    /\ api'.deleting
    /\ api'.fins = api.fins
    /\ api'.exists <=> api'.fins # {}

ShrinksDeleted ==
    /\ api.exists /\ api.deleting
    /\ api'.deleting
    /\ api'.fins \subseteq api.fins
    /\ api'.exists <=> api'.fins # {}

LifeStep == LifeKept \/ StaysLive \/ BecomesDeleted \/ ShrinksDeleted

\* An object is stored unless it is being deleted and nothing holds it.
LEMMA StoredExists ==
    ASSUME NEW o \in Object
    PROVE  Stored(o).exists <=> ~(o.deleting /\ o.fins = {})
<1>1. Stored(o).exists = ~(o.deleting /\ o.fins = {})
  BY DEF Stored, Object
<1>2. QED
  BY <1>1

\* A finalizer patch, whatever list it was computed from.
LEMMA PatchMoves ==
    ASSUME NEW fins \in SUBSET Finalizers, api \in Object, Patch(fins)
    PROVE  LifeStep
<1> DEFINE o == [api EXCEPT !.fins = fins]
<1>1. o \in Object /\ o.fins = fins /\ o.deleting = api.deleting
  BY DEF Object
<1>2. api' = Stored(o) /\ api.exists /\ (api.deleting => fins \subseteq api.fins)
  BY DEF Patch, PatchAccepted
<1> HIDE DEF o
<1>3. /\ api'.exists <=> ~(api.deleting /\ fins = {})
      /\ api'.fins = fins
      /\ api'.deleting = api.deleting
  BY <1>1, <1>2, StoredExists, StoredFields
<1>4. CASE api.deleting
  BY <1>2, <1>3, <1>4 DEF LifeStep, ShrinksDeleted
<1>5. CASE ~api.deleting
  BY <1>2, <1>3, <1>5 DEF LifeStep, StaysLive
<1>6. QED
  BY <1>4, <1>5

\* A write by a user that never revives the object nor adds a finalizer to
\* one that is being deleted.
LEMMA UserMoves ==
    ASSUME NEW o \in Object, api \in Object, UserWrites(o),
           api.deleting => o.deleting /\ o.fins \subseteq api.fins,
           o.deleting = api.deleting \/ o.fins = api.fins
    PROVE  LifeStep
<1>1. api' = Stored(o) /\ api.exists
  BY DEF UserWrites
<1>2. /\ api'.exists <=> ~(o.deleting /\ o.fins = {})
      /\ api'.fins = o.fins
      /\ api'.deleting = o.deleting
  BY <1>1, StoredExists, StoredFields
<1>3. CASE api.deleting
  BY <1>1, <1>2, <1>3 DEF LifeStep, ShrinksDeleted
<1>4. CASE ~api.deleting /\ o.deleting
  BY <1>1, <1>2, <1>4 DEF LifeStep, BecomesDeleted, Object
<1>5. CASE ~api.deleting /\ ~o.deleting
  BY <1>1, <1>2, <1>5 DEF LifeStep, StaysLive
<1>6. QED
  BY <1>3, <1>4, <1>5

\* Every step moves the object in one of the four ways.
LEMMA EveryStepMoves ==
    ASSUME TypeOK, [Next]_vars
    PROVE  LifeStep
<1>1. api \in Object /\ inst \in Object
  BY DEF TypeOK
<1>2. CASE EnsureFinalizer \/ EnsureSemaphoreFinalizer \/ RemoveFinalizer
           \/ RemoveSemaphoreFinalizer
  <2>1. /\ inst.fins \cup {"backup"} \in SUBSET Finalizers
        /\ inst.fins \cup {"semaphore"} \in SUBSET Finalizers
        /\ inst.fins \ {"backup"} \in SUBSET Finalizers
        /\ inst.fins \ {"semaphore"} \in SUBSET Finalizers
    BY <1>1 DEF Object, Finalizers
  <2>2. \/ UNCHANGED api
        \/ Patch(inst.fins \cup {"backup"})
        \/ Patch(inst.fins \cup {"semaphore"})
        \/ Patch(inst.fins \ {"backup"})
        \/ Patch(inst.fins \ {"semaphore"})
    BY <1>2 DEF EnsureFinalizer, EnsureSemaphoreFinalizer, RemoveFinalizer,
       RemoveSemaphoreFinalizer, Unwritten
  <2>3. CASE UNCHANGED api
    BY <2>3 DEF LifeStep, LifeKept
  <2>4. QED
    BY <1>1, <2>1, <2>2, <2>3, PatchMoves
<1>3. CASE RecordFinalJobName \/ FinalJobFailed \/ FinalJobComplete
           \/ FinalBackupAbandoned
  <2>1. \/ UNCHANGED api
        \/ inst = api /\ api' = [inst EXCEPT !.jobName = TRUE]
        \/ inst = api /\ api' = [inst EXCEPT !.success = TRUE]
        \/ inst = api /\ api' = [inst EXCEPT !.failure = "FinalBackupJobFailed"]
        \/ inst = api
             /\ api' = [inst EXCEPT !.failure = "FinalBackupDeadlineExceeded"]
    BY <1>3 DEF RecordFinalJobName, FinalJobFailed, FinalJobComplete,
       FinalBackupAbandoned, StatusUpdate, UpdateAccepted, Unwritten
  <2>2. QED
    BY <1>1, <2>1 DEF LifeStep, LifeKept, Object
<1>4. CASE BeginReconcile \/ FinishReconcile \/ FinalBackupNotHeld
           \/ FinalBackupSkipped \/ CreateFinalJob \/ FinalJobRunning
           \/ SemaphoreNotHeld \/ SemaphoreCleanup \/ SemaphoreCleanupFails
           \/ CallRefused \/ CallFails \/ Crash \/ SyncInstance \/ SyncJob
           \/ Tick \/ JobFinishes \/ JobDeleted \/ UNCHANGED vars
  <2>1. UNCHANGED api
    BY <1>4 DEF BeginReconcile, FinishReconcile, FinalBackupNotHeld,
       FinalBackupSkipped, CreateFinalJob, FinalJobRunning, SemaphoreNotHeld,
       SemaphoreCleanup, SemaphoreCleanupFails, CallRefused, CallFails, Crash,
       SyncInstance, SyncJob, Tick, JobFinishes, JobDeleted, Unwritten, vars
  <2>2. QED
    BY <2>1 DEF LifeStep, LifeKept
<1>5. ASSUME NEW flag \in Flags, Edit(flag)
      PROVE  LifeStep
  <2> DEFINE on == [api EXCEPT !.flags = @ \cup {flag}]
             off == [api EXCEPT !.flags = @ \ {flag}]
  <2>1. \A o \in {on, off} : o \in Object /\ o.fins = api.fins
                             /\ o.deleting = api.deleting
    BY <1>1 DEF Object
  <2>2. UserWrites(on) \/ UserWrites(off)
    BY <1>5 DEF Edit
  <2> HIDE DEF on, off
  <2>3. QED
    BY <1>1, <2>1, <2>2, UserMoves
<1>6. CASE AddForeignFinalizer \/ DropForeignFinalizer \/ Delete
  <2> DEFINE more == [api EXCEPT !.fins = @ \cup {"foreign"}]
             less == [api EXCEPT !.fins = @ \ {"foreign"}]
             dead == [api EXCEPT !.deleting = TRUE]
  <2>1. /\ more \in Object /\ more.deleting = api.deleting
        /\ less \in Object /\ less.deleting = api.deleting
        /\ less.fins \subseteq api.fins
        /\ dead \in Object /\ dead.fins = api.fins /\ dead.deleting
    BY <1>1 DEF Object, Finalizers
  <2>2. \/ ~api.deleting /\ UserWrites(more)
        \/ UserWrites(less)
        \/ UserWrites(dead)
    BY <1>6 DEF AddForeignFinalizer, DropForeignFinalizer, Delete
  <2> HIDE DEF more, less, dead
  <2>3. QED
    BY <1>1, <2>1, <2>2, UserMoves
<1>7. QED
  BY <1>2, <1>3, <1>4, <1>5, <1>6 DEF Next, ReconcileStep

-----------------------------------------------------------------------------
(***************************************************************************)
(* backup-on-delete.                                                       *)
(***************************************************************************)

\* Every step maps to a step of Finalizer, or to a stutter.
LEMMA BackupStep ==
    ASSUME DeletionInv, [Next]_vars
    PROVE  BackupHold!Next
<1>1. TypeOK
  BY DEF DeletionInv
<1>2. api.exists \in BOOLEAN /\ api.deleting \in BOOLEAN
      /\ api'.exists \in BOOLEAN /\ api'.deleting \in BOOLEAN
  BY <1>1, TypeStep DEF TypeOK, Object
<1>3. BackupHold!Earn
  BY <1>1, JustificationPersists DEF BackupHold!Earn, ReleaseJustified
<1>4. LifeStep
  BY <1>1, EveryStepMoves
<1>5. CASE LifeKept
  BY <1>3, <1>5 DEF LifeKept, Phase, BackupHold!Next
<1>6. CASE StaysLive
  BY <1>3, <1>6 DEF StaysLive, Phase, BackupHold!Next, BackupHold!Write
<1>7. CASE BecomesDeleted
  BY <1>3, <1>7 DEF BecomesDeleted, Phase, BackupHold!Next, BackupHold!Delete
<1>8. CASE ShrinksDeleted /\ "backup" \in api.fins /\ "backup" \notin api'.fins
  <2>1. ReleaseJustified
    BY <1>8, ReleaseStep DEF ShrinksDeleted
  <2>2. QED
    BY <1>3, <1>8, <2>1 DEF ShrinksDeleted, Phase, BackupHold!Next,
       BackupHold!Release
<1>9. CASE ShrinksDeleted /\ "backup" \in api'.fins
  BY <1>3, <1>9 DEF ShrinksDeleted, Phase, BackupHold!Next
<1>10. CASE ShrinksDeleted /\ "backup" \notin api.fins
  BY <1>3, <1>10 DEF ShrinksDeleted, Phase, BackupHold!Next, BackupHold!Go
<1>11. QED
  BY <1>4, <1>5, <1>6, <1>7, <1>8, <1>9, <1>10 DEF LifeStep

\* The operator's handling of backup-on-delete (EnsureFinalizer,
\* HandleDeletion, RemoveFinalizer) implements Finalizer.
THEOREM BackupRefinement == Spec => BackupImplementsFinalizer
<1>1. Init => BackupHold!Init
  <2> SUFFICES ASSUME Init
               PROVE  BackupHold!Init
    OBVIOUS
  <2>1. api.exists = TRUE /\ api.deleting = FALSE
        /\ api.fins \in SUBSET {"foreign"}
    BY DEF Init
  <2>2. Phase = "live" /\ "backup" \notin api.fins
    BY <2>1 DEF Phase
  <2>3. ReleaseJustified \in BOOLEAN
    BY DEF ReleaseJustified, Init, DeadlinePassed, Excused, OptedOut
  <2>4. QED
    BY <2>2, <2>3 DEF BackupHold!Init
<1>2. DeletionInv /\ [Next]_vars => [BackupHold!Next]_(BackupHold!vars)
  BY BackupStep
<1>3. QED
  BY <1>1, <1>2, InvHolds, PTL DEF Spec, BackupImplementsFinalizer,
     BackupHold!Spec

-----------------------------------------------------------------------------
(***************************************************************************)
(* semaphore-cleanup.  The invariant needs one more part: the reconcile    *)
(* takes the finalizer off only after semaphoreCleanup has returned nil.   *)
(***************************************************************************)
CleanedKnown == pc = "removeSemaphore" => cleaned

\* A cleanup that is done stays done, and only a cleanup leads to the patch.
LEMMA CleanedStep ==
    ASSUME [Next]_vars
    PROVE  /\ cleaned => cleaned'
           /\ CleanedKnown => CleanedKnown'
<1> USE DEF CleanedKnown, Requeue, NoRequeue, Goto
<1>1. CASE SemaphoreCleanup
  BY <1>1 DEF SemaphoreCleanup
<1>2. CASE /\ ReconcileStep \/ SemaphoreCleanupFails \/ CallFails
           /\ ~SemaphoreCleanup
  <2>1. UNCHANGED cleaned
    BY <1>2, Zenon DEF ReconcileStep, BeginReconcile, EnsureFinalizer,
       EnsureSemaphoreFinalizer, FinishReconcile, FinalBackupNotHeld,
       FinalBackupSkipped, FinalBackupAbandoned, CreateFinalJob,
       RecordFinalJobName, FinalJobRunning, FinalJobFailed, FinalJobComplete,
       RemoveFinalizer, SemaphoreNotHeld, RemoveSemaphoreFinalizer,
       CallRefused, SemaphoreCleanupFails, CallFails
  <2>2. pc' # "removeSemaphore"
    BY <1>2 DEF ReconcileStep, BeginReconcile, EnsureFinalizer,
       EnsureSemaphoreFinalizer, FinishReconcile, FinalBackupNotHeld,
       FinalBackupSkipped, FinalBackupAbandoned, CreateFinalJob,
       RecordFinalJobName, FinalJobRunning, FinalJobFailed, FinalJobComplete,
       RemoveFinalizer, SemaphoreNotHeld, RemoveSemaphoreFinalizer,
       CallRefused, SemaphoreCleanupFails, CallFails
  <2>3. QED
    BY <2>1, <2>2
<1>3. CASE Crash
  BY <1>3 DEF Crash
<1>4. CASE SyncInstance \/ SyncJob \/ Tick \/ JobFinishes \/ JobDeleted
           \/ UNCHANGED vars
  BY <1>4 DEF SyncInstance, SyncJob, Tick, JobFinishes, JobDeleted, vars
<1>5. CASE (\E flag \in Flags : Edit(flag)) \/ AddForeignFinalizer
           \/ DropForeignFinalizer \/ Delete
  <2>1. \E o : UserWrites(o)
    BY <1>5, Zenon DEF Edit, AddForeignFinalizer, DropForeignFinalizer, Delete
  <2>2. UNCHANGED <<cleaned, pc>>
    BY <2>1, Zenon DEF UserWrites
  <2>3. QED
    BY <2>2
<1>6. QED
  BY <1>1, <1>2, <1>3, <1>4, <1>5 DEF Next

\* semaphoreCleanup comes before the patch that takes its finalizer off.
LEMMA CleanedHolds == Spec => []CleanedKnown
<1>1. Init => CleanedKnown
  BY DEF Init, CleanedKnown
<1>2. QED
  BY <1>1, CleanedStep, PTL DEF Spec

\* A user's write takes no finalizer of the operator off the object.
LEMMA UserKeepsSemaphore ==
    ASSUME NEW o \in Object, UserWrites(o), "semaphore" \in o.fins
    PROVE  "semaphore" \in api'.fins
BY StoredFields DEF UserWrites

\* Every step that takes semaphore-cleanup off a deleted instance follows a
\* cleanup, or is the patch of a stale list that adds backup-on-delete.
LEMMA SemaphoreReleaseStep ==
    ASSUME DeletionInv, CleanedKnown, [Next]_vars, api.deleting,
           "semaphore" \in api.fins, "semaphore" \notin api'.fins
    PROVE  cleaned \/ OptedIn
<1>1. TypeOK
  BY DEF DeletionInv
<1>2. CASE EnsureFinalizer
  <2>1. CASE BackupFinalizerMissing
    <3>1. "onDelete" \in Version(inst).flags /\ Version(inst) \in versions
      BY <2>1 DEF BackupFinalizerMissing, Version, DeletionInv, CopiesKnown
    <3>2. QED
      BY <3>1 DEF OptedIn
  <2>2. CASE ~BackupFinalizerMissing
    BY <1>2, <2>2 DEF EnsureFinalizer, Unwritten
  <2>3. QED
    BY <2>1, <2>2
<1>3. CASE EnsureSemaphoreFinalizer
  <2>1. inst.fins \cup {"semaphore"} \in SUBSET Finalizers
    BY <1>1 DEF TypeOK, Object, Finalizers
  <2>2. Unwritten \/ Patch(inst.fins \cup {"semaphore"})
    BY <1>3 DEF EnsureSemaphoreFinalizer
  <2>3. QED
    BY <1>1, <2>1, <2>2, PatchFields DEF TypeOK, Unwritten
<1>4. CASE RemoveFinalizer
  <2>1. inst.fins \ {"backup"} \in SUBSET Finalizers
        /\ "semaphore" \in inst.fins
    BY <1>1, <1>4 DEF RemoveFinalizer, DeletionInv, StepsKnown, ShowsDeletion,
       TypeOK, Object
  <2>2. QED
    BY <1>1, <1>4, <2>1, PatchFields DEF RemoveFinalizer, TypeOK
<1>5. CASE RemoveSemaphoreFinalizer
  BY <1>5 DEF RemoveSemaphoreFinalizer, CleanedKnown
<1>6. CASE RecordFinalJobName \/ FinalJobFailed \/ FinalJobComplete
           \/ FinalBackupAbandoned
  <2>1. \/ UNCHANGED api
        \/ inst = api /\ api' = [inst EXCEPT !.jobName = TRUE]
        \/ inst = api /\ api' = [inst EXCEPT !.success = TRUE]
        \/ inst = api /\ api' = [inst EXCEPT !.failure = "FinalBackupJobFailed"]
        \/ inst = api
             /\ api' = [inst EXCEPT !.failure = "FinalBackupDeadlineExceeded"]
    BY <1>6 DEF RecordFinalJobName, FinalJobFailed, FinalJobComplete,
       FinalBackupAbandoned, StatusUpdate, UpdateAccepted, Unwritten
  <2>2. api'.fins = api.fins
    BY <1>1, <2>1 DEF TypeOK, Object
  <2>3. QED
    BY <2>2
<1>7. CASE BeginReconcile \/ FinishReconcile \/ FinalBackupNotHeld
           \/ FinalBackupSkipped \/ CreateFinalJob \/ FinalJobRunning
           \/ SemaphoreNotHeld \/ SemaphoreCleanup \/ SemaphoreCleanupFails
           \/ CallRefused \/ CallFails \/ Crash \/ SyncInstance \/ SyncJob
           \/ Tick \/ JobFinishes \/ JobDeleted \/ UNCHANGED vars
  <2>1. UNCHANGED api
    BY <1>7 DEF BeginReconcile, FinishReconcile, FinalBackupNotHeld,
       FinalBackupSkipped, CreateFinalJob, FinalJobRunning, SemaphoreNotHeld,
       SemaphoreCleanup, SemaphoreCleanupFails, CallRefused, CallFails, Crash,
       SyncInstance, SyncJob, Tick, JobFinishes, JobDeleted, Unwritten, vars
  <2>2. QED
    BY <2>1
<1>8. ASSUME NEW flag \in Flags, Edit(flag)
      PROVE  FALSE
  <2> DEFINE on == [api EXCEPT !.flags = @ \cup {flag}]
             off == [api EXCEPT !.flags = @ \ {flag}]
  <2>1. \A o \in {on, off} : o \in Object /\ "semaphore" \in o.fins
    BY <1>1 DEF TypeOK, Object
  <2>2. UserWrites(on) \/ UserWrites(off)
    BY <1>8 DEF Edit
  <2> HIDE DEF on, off
  <2>3. QED
    BY <2>1, <2>2, UserKeepsSemaphore
<1>9. CASE AddForeignFinalizer \/ DropForeignFinalizer \/ Delete
  <2> DEFINE more == [api EXCEPT !.fins = @ \cup {"foreign"}]
             less == [api EXCEPT !.fins = @ \ {"foreign"}]
             dead == [api EXCEPT !.deleting = TRUE]
  <2>1. /\ more \in Object /\ "semaphore" \in more.fins
        /\ less \in Object /\ "semaphore" \in less.fins
        /\ dead \in Object /\ "semaphore" \in dead.fins
    BY <1>1 DEF TypeOK, Object, Finalizers
  <2>2. UserWrites(more) \/ UserWrites(less) \/ UserWrites(dead)
    BY <1>9 DEF AddForeignFinalizer, DropForeignFinalizer, Delete
  <2> HIDE DEF more, less, dead
  <2>3. QED
    BY <2>1, <2>2, UserKeepsSemaphore
<1>10. QED
  BY <1>2, <1>3, <1>4, <1>5, <1>6, <1>7, <1>8, <1>9 DEF Next, ReconcileStep

\* Every step maps to a step of Finalizer, or to a stutter.
LEMMA SemaphoreStep ==
    ASSUME DeletionInv, CleanedKnown, [Next]_vars
    PROVE  SemaphoreHold!Next
<1>1. TypeOK
  BY DEF DeletionInv
<1>2. api.exists \in BOOLEAN /\ api.deleting \in BOOLEAN
      /\ api'.exists \in BOOLEAN /\ api'.deleting \in BOOLEAN
  BY <1>1, TypeStep DEF TypeOK, Object
<1>3. SemaphoreHold!Earn
  <2>1. OptedIn => OptedIn'
    BY <1>1, ReasonsPersist DEF OptedIn
  <2>2. QED
    BY <2>1, CleanedStep, Zenon DEF SemaphoreHold!Earn
<1>4. LifeStep
  BY <1>1, EveryStepMoves
<1>5. CASE LifeKept
  BY <1>3, <1>5 DEF LifeKept, Phase, SemaphoreHold!Next
<1>6. CASE StaysLive
  BY <1>3, <1>6 DEF StaysLive, Phase, SemaphoreHold!Next, SemaphoreHold!Write
<1>7. CASE BecomesDeleted
  BY <1>3, <1>7 DEF BecomesDeleted, Phase, SemaphoreHold!Next,
     SemaphoreHold!Delete
<1>8. CASE ShrinksDeleted /\ "semaphore" \in api.fins
           /\ "semaphore" \notin api'.fins
  <2>1. cleaned \/ OptedIn
    BY <1>8, SemaphoreReleaseStep DEF ShrinksDeleted
  <2>2. QED
    BY <1>3, <1>8, <2>1 DEF ShrinksDeleted, Phase, SemaphoreHold!Next,
       SemaphoreHold!Release
<1>9. CASE ShrinksDeleted /\ "semaphore" \in api'.fins
  BY <1>3, <1>9 DEF ShrinksDeleted, Phase, SemaphoreHold!Next
<1>10. CASE ShrinksDeleted /\ "semaphore" \notin api.fins
  BY <1>3, <1>10 DEF ShrinksDeleted, Phase, SemaphoreHold!Next,
     SemaphoreHold!Go
<1>11. QED
  BY <1>4, <1>5, <1>6, <1>7, <1>8, <1>9, <1>10 DEF LifeStep

\* The operator's handling of semaphore-cleanup implements Finalizer, as long
\* as backup.onDelete was never on.
THEOREM SemaphoreRefinement == Spec => SemaphoreImplementsFinalizer
<1>1. Init => SemaphoreHold!Init
  <2> SUFFICES ASSUME Init
               PROVE  SemaphoreHold!Init
    OBVIOUS
  <2>1. api.exists = TRUE /\ api.deleting = FALSE
        /\ api.fins \in SUBSET {"foreign"}
    BY DEF Init
  <2>2. Phase = "live" /\ "semaphore" \notin api.fins
    BY <2>1 DEF Phase
  <2>3. (cleaned \/ OptedIn) \in BOOLEAN
    BY DEF OptedIn
  <2>4. QED
    BY <2>2, <2>3 DEF SemaphoreHold!Init
<1>2. DeletionInv /\ CleanedKnown /\ [Next]_vars
        => [SemaphoreHold!Next]_(SemaphoreHold!vars)
  BY SemaphoreStep
<1>3. QED
  BY <1>1, <1>2, InvHolds, CleanedHolds, PTL DEF Spec,
     SemaphoreImplementsFinalizer, SemaphoreHold!Spec

=============================================================================
