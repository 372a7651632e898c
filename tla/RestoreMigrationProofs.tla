----------------------- MODULE RestoreMigrationProofs -----------------------
(***************************************************************************)
(* Proofs about RestoreMigration, for any number of snapshot keys, edits,  *)
(* restarts of the pod and faults: its invariants, what a step may never   *)
(* do, and that it implements OneShot twice.                               *)
(***************************************************************************)
EXTENDS RestoreMigration, TLAPS

-----------------------------------------------------------------------------
(***************************************************************************)
(* Facts about the operators.                                              *)
(***************************************************************************)

\* The empty string is a key, and a new object has generation 0.
LEMMA ZeroIsKey == 0 \in Key /\ 0 \in 0..MaxEdits
BY OneShotAssumption DEF Key

\* The pod template is made of the latches and of what is asked for.
LEMMA DesiredType == ASSUME NEW o \in Object PROVE Desired(o) \in Template
BY OneShotAssumption DEF Desired, Object, Template, Key

\* In a new pod every init container of the template is still to run.
LEMMA NewPodFields ==
    ASSUME NEW t \in Template
    PROVE  /\ NewPod(t) \in Pod
           /\ NewPod(t).tmpl = t
           /\ NewPod(t).restore = "none" <=> t.restore = 0
           /\ NewPod(t).restore \in {"none", "waiting"}
           /\ NewPod(t).migrate \in {"none", "waiting"}
BY DEF NewPod, Pod, Template, InitStates

\* No StatefulSet, no init containers.
LEMMA AbsentType == Absent \in Template
BY OneShotAssumption DEF Absent, Template, Key

\* A fault stays within its bound.
LEMMA FaultType == ASSUME TypeOK, Fault PROVE faults' \in 0..MaxFaults
BY OneShotAssumption DEF TypeOK, Fault

\* A working copy of a working copy is one of the version it came from.
LEMMA WorkingCopyTrans ==
    ASSUME NEW o, NEW p, NEW r, WorkingCopy(o, p), WorkingCopy(p, r)
    PROVE  WorkingCopy(o, r)
BY DEF WorkingCopy

\* What has been put on the volume stays on it.
VolumeGrows ==
    /\ source # 0 => source' # 0
    /\ imported => imported'

-----------------------------------------------------------------------------
(***************************************************************************)
(* A part of the reconcile hands on a working copy: it may have saved it.  *)
(***************************************************************************)
HandsOn(o) ==
    /\ o \in Object
    /\ Honest(o)
    /\ WorkingCopy(o, inst)
    /\ SaveStatus(o) \/ Unsaved(o)

MigrationReconcile ==
    MigrationNotPending \/ MigrationCompleted \/ MigrationFailed
    \/ MigrationWaiting

RestoreReconcile ==
    RestoreNotPending \/ RestoreCompleted \/ RestoreFailed \/ RestoreWaiting

\* MigrationReconciler.Reconcile sets the latch only of a migration that is
\* asked for and has been carried out.
LEMMA MigrationHandsOn ==
    ASSUME OneShotInv, MigrationReconcile
    PROVE  \E o : HandsOn(o)
<1>1. inst \in Object /\ Honest(inst) /\ PodHonest(podCache)
  BY DEF OneShotInv, TypeOK
<1>2. WorkingCopy(inst, inst)
  BY DEF WorkingCopy
<1> DEFINE a == [inst EXCEPT !.mcond = "MigrationCompleted"]
           b == [inst EXCEPT !.completed = TRUE, !.mcond = "MigrationCompleted"]
           c == [inst EXCEPT !.mcond = "MigrationFailed"]
<1>3. a \in Object /\ Honest(a) /\ WorkingCopy(a, inst)
  BY <1>1 DEF Object, Honest, WorkingCopy
<1>4. c \in Object /\ Honest(c) /\ WorkingCopy(c, inst)
  BY <1>1 DEF Object, Honest, WorkingCopy
<1>5. CASE MigrationNotPending
  <2>1. Unsaved(a) \/ Unsaved(inst)
    BY <1>5 DEF MigrationNotPending
  <2>2. QED
    BY <1>1, <1>2, <1>3, <2>1 DEF HandsOn
<1>6. CASE MigrationCompleted
  <2>1. imported /\ inst.migrate
    BY <1>1, <1>6 DEF MigrationCompleted, MigrationPending, PodHonest
  <2>2. b \in Object /\ Honest(b) /\ WorkingCopy(b, inst)
    BY <1>1, <2>1 DEF Object, Honest, WorkingCopy
  <2>3. SaveStatus(b)
    BY <1>6 DEF MigrationCompleted
  <2>4. QED
    BY <2>2, <2>3 DEF HandsOn
<1>7. CASE MigrationFailed
  BY <1>4, <1>7 DEF MigrationFailed, HandsOn
<1>8. CASE MigrationWaiting
  BY <1>1, <1>2, <1>8 DEF MigrationWaiting, HandsOn
<1>9. QED
  BY <1>5, <1>6, <1>7, <1>8 DEF MigrationReconcile

\* The same of RestoreReconciler.Reconcile: restoredFrom becomes the
\* restoreFrom of the copy, and some snapshot has been extracted.
LEMMA RestoreHandsOn ==
    ASSUME OneShotInv, RestoreReconcile
    PROVE  \E o : HandsOn(o)
<1>1. inst \in Object /\ Honest(inst) /\ PodHonest(podCache)
  BY DEF OneShotInv, TypeOK
<1>2. WorkingCopy(inst, inst)
  BY DEF WorkingCopy
<1> DEFINE a == [inst EXCEPT !.rcond = "RestoreCompleted"]
           b == [inst EXCEPT !.restoredFrom = inst.restoreFrom,
                             !.rcond = "RestoreCompleted"]
           c == [inst EXCEPT !.rcond = "RestoreFailed"]
           d == [inst EXCEPT !.rcond = "Restoring"]
<1>3. a \in Object /\ Honest(a) /\ WorkingCopy(a, inst)
  BY <1>1 DEF Object, Honest, WorkingCopy
<1>4. c \in Object /\ Honest(c) /\ WorkingCopy(c, inst)
  BY <1>1 DEF Object, Honest, WorkingCopy
<1>5. d \in Object /\ Honest(d) /\ WorkingCopy(d, inst)
  BY <1>1 DEF Object, Honest, WorkingCopy
<1>6. CASE RestoreNotPending
  <2>1. Unsaved(a) \/ Unsaved(inst)
    BY <1>6 DEF RestoreNotPending
  <2>2. QED
    BY <1>1, <1>2, <1>3, <2>1 DEF HandsOn
<1>7. CASE RestoreCompleted
  <2>1. source # 0 /\ inst.restoreFrom # 0
    BY <1>1, <1>7 DEF RestoreCompleted, RestorePending, PodHonest
  <2>2. b \in Object /\ Honest(b) /\ WorkingCopy(b, inst)
    BY <1>1, <2>1 DEF Object, Honest, WorkingCopy
  <2>3. SaveStatus(b)
    BY <1>7 DEF RestoreCompleted
  <2>4. QED
    BY <2>2, <2>3 DEF HandsOn
<1>8. CASE RestoreFailed
  BY <1>4, <1>8 DEF RestoreFailed, HandsOn
<1>9. CASE RestoreWaiting
  <2>1. Unsaved(d) \/ Unsaved(inst)
    BY <1>9 DEF RestoreWaiting
  <2>2. QED
    BY <1>1, <1>2, <1>5, <2>1 DEF HandsOn
<1>10. QED
  BY <1>6, <1>7, <1>8, <1>9 DEF RestoreReconcile

-----------------------------------------------------------------------------
(***************************************************************************)
(* The API server sees three kinds of steps: none, a status update, and an *)
(* edit.  The last two leave the volume alone.                             *)
(***************************************************************************)
StatusWritten ==
    /\ api' \in Object
    /\ Honest(api')
    /\ WorkingCopy(api', api)
    /\ UNCHANGED <<source, imported>>

SpecEdited ==
    /\ api' \in Object
    /\ api'.restoredFrom = api.restoredFrom
    /\ api'.completed = api.completed
    /\ ValidateImmutableTerminals(api, api')
    /\ ValidateRestoreMigrationMutualExclusion(api')
    /\ UNCHANGED <<source, imported>>

\* Handing on a working copy keeps everything that is known of the copies.
LEMMA HandOnStep ==
    ASSUME OneShotInv, NEW o, HandsOn(o),
           UNCHANGED <<cache, pod, podCache, volume>>
    PROVE  /\ api' = api \/ StatusWritten
           /\ {api', cache', read', inst'} \subseteq Object
           /\ Honest(api') /\ Honest(cache') /\ Honest(read') /\ Honest(inst')
           /\ WorkingCopy(inst', read')
           /\ faults' \in 0..MaxFaults
<1>1. o \in Object /\ Honest(o) /\ WorkingCopy(o, inst)
      /\ WorkingCopy(inst, read) /\ TypeOK
      /\ Honest(api) /\ Honest(cache) /\ Honest(read)
      /\ {api, cache, read} \subseteq Object
      /\ UNCHANGED <<cache, source, imported>>
  BY DEF HandsOn, OneShotInv, TypeOK, volume
<1>2. WorkingCopy(o, read) /\ WorkingCopy(o, o)
  BY <1>1, WorkingCopyTrans DEF WorkingCopy
<1>3. CASE read = api /\ inst' = o /\ api' = o /\ read' = o /\ UNCHANGED faults
  BY <1>1, <1>2, <1>3 DEF StatusWritten, TypeOK
<1>4. CASE inst' = o /\ Fault /\ UNCHANGED <<api, read>>
  BY <1>1, <1>2, <1>4, FaultType
<1>5. CASE inst' = o /\ UNCHANGED <<api, read, faults>>
  BY <1>1, <1>2, <1>5 DEF TypeOK
<1>6. QED
  BY <1>3, <1>4, <1>5 DEF HandsOn, SaveStatus, Unsaved

\* An edit the webhook lets through cannot touch a latch, nor the request the
\* latch is for, and leaves the instance honest.
LEMMA EditStep ==
    ASSUME OneShotInv, Edits
    PROVE  /\ SpecEdited
           /\ Honest(api')
           /\ UNCHANGED <<operator, sts, pod, podCache, volume, restarts, faults>>
<1>1. TypeOK /\ api \in Object /\ Honest(api)
  BY DEF OneShotInv, TypeOK
<1>2. \A o \in Object :
        o.restoredFrom = api.restoredFrom /\ o.completed = api.completed
        /\ UserEdits(o)
        => /\ SpecEdited
           /\ UNCHANGED <<operator, sts, pod, podCache, volume, restarts, faults>>
  <2> SUFFICES ASSUME NEW o \in Object, o.restoredFrom = api.restoredFrom,
                      o.completed = api.completed, UserEdits(o)
               PROVE  SpecEdited /\ UNCHANGED <<operator, sts, pod, podCache,
                                                volume, restarts, faults>>
    OBVIOUS
  <2>1. api.gen + 1 \in 0..MaxEdits
    BY <1>1, OneShotAssumption DEF UserEdits, Object
  <2>2. api' = [o EXCEPT !.gen = api.gen + 1]
    BY DEF UserEdits
  <2>3. /\ api' \in Object
        /\ api'.restoredFrom = o.restoredFrom /\ api'.completed = o.completed
        /\ api'.restoreFrom = o.restoreFrom /\ api'.migrate = o.migrate
    BY <2>1, <2>2 DEF Object
  <2>4. QED
    BY <2>3 DEF UserEdits, SpecEdited, ValidateImmutableTerminals,
       ValidateRestoreMigrationMutualExclusion, volume
<1>3. /\ SpecEdited
      /\ UNCHANGED <<operator, sts, pod, podCache, volume, restarts, faults>>
  <2>1. CASE \E key \in Key : UserEdits([api EXCEPT !.restoreFrom = key])
    <3>1. PICK key \in Key : UserEdits([api EXCEPT !.restoreFrom = key])
      BY <2>1
    <3> DEFINE o == [api EXCEPT !.restoreFrom = key]
    <3>2. o \in Object /\ o.restoredFrom = api.restoredFrom
          /\ o.completed = api.completed
      BY <1>1 DEF Object
    <3>3. QED
      BY <1>2, <3>1, <3>2
  <2>2. CASE UserEdits([api EXCEPT !.migrate = ~@])
    <3> DEFINE o == [api EXCEPT !.migrate = ~@]
    <3>1. o \in Object /\ o.restoredFrom = api.restoredFrom
          /\ o.completed = api.completed
      BY <1>1 DEF Object
    <3>2. QED
      BY <1>2, <2>2, <3>1
  <2>3. CASE UserEdits([api EXCEPT !.restoreFrom = 0, !.migrate = TRUE])
    <3> DEFINE o == [api EXCEPT !.restoreFrom = 0, !.migrate = TRUE]
    <3>1. o \in Object /\ o.restoredFrom = api.restoredFrom
          /\ o.completed = api.completed
      BY <1>1, ZeroIsKey DEF Object
    <3>2. QED
      BY <1>2, <2>3, <3>1
  <2>4. CASE UserEdits([api EXCEPT !.s3 = ~@])
    <3> DEFINE o == [api EXCEPT !.s3 = ~@]
    <3>1. o \in Object /\ o.restoredFrom = api.restoredFrom
          /\ o.completed = api.completed
      BY <1>1 DEF Object
    <3>2. QED
      BY <1>2, <2>4, <3>1
  <2>5. QED
    BY <2>1, <2>2, <2>3, <2>4 DEF Edits
<1>4. Honest(api')
  BY <1>1, <1>3 DEF SpecEdited, ValidateImmutableTerminals,
     ValidateRestoreMigrationMutualExclusion, Honest, Object
<1>5. QED
  BY <1>3, <1>4

-----------------------------------------------------------------------------
(***************************************************************************)
(* The inductive invariant, by the parties that take a step.               *)
(***************************************************************************)

\* Before the first reconcile the volume is empty and nothing is latched.
LEMMA InvInit == Init => OneShotInv
<1> SUFFICES ASSUME Init
             PROVE  OneShotInv
  OBVIOUS
<1>1. api \in Object /\ cache = api /\ read = api /\ inst = api
      /\ api.restoredFrom = 0 /\ ~api.completed
      /\ (api.restoreFrom = 0 \/ ~api.migrate)
  <2>1. api \in [gen : {0}, restoreFrom : Key, migrate : BOOLEAN, s3 : BOOLEAN,
                 restoredFrom : {0}, completed : {FALSE},
                 rcond : {"none"}, mcond : {"none"}]
    BY DEF Init
  <2>2. api \in Object /\ api.restoredFrom = 0 /\ ~api.completed
    BY <2>1, ZeroIsKey DEF Object
  <2>3. QED
    BY <2>2 DEF Init, ValidateRestoreMigrationMutualExclusion
<1>2. Absent \in Template /\ pod = NewPod(Absent) /\ podCache = pod
  BY AbsentType DEF Init
<1>3. pod \in Pod /\ PodHonest(pod)
  BY <1>2, NewPodFields DEF PodHonest
<1>4. Honest(api) /\ WorkingCopy(api, api)
  BY <1>1 DEF Honest, WorkingCopy
<1>5. TypeOK
  <2>1. 0 \in 0..MaxRestarts /\ 0 \in 0..MaxFaults
    BY OneShotAssumption
  <2>2. QED
    BY <1>1, <1>2, <1>3, <2>1, ZeroIsKey DEF Init, TypeOK
<1>6. ~used /\ source = 0 /\ ~imported
  BY DEF Init
<1>7. QED
  BY <1>1, <1>2, <1>3, <1>4, <1>5, <1>6 DEF OneShotInv

\* The operator.
LEMMA OperatorStep ==
    ASSUME OneShotInv, ReconcileStep \/ Crash \/ SyncInstance \/ SyncPod
    PROVE  OneShotInv' /\ (api' = api \/ StatusWritten)
           /\ UNCHANGED volume
<1> USE DEF OneShotInv
<1>1. CASE BeginReconcile
  <2>1. UNCHANGED <<api, cache, sts, pod, podCache, data, source, imported, used,
                    restarts, faults>>
        /\ read' = cache /\ inst' = cache /\ pc' = "statefulSet"
    BY <1>1 DEF BeginReconcile, volume
  <2>2. TypeOK'
    BY <2>1 DEF TypeOK
  <2>3. WorkingCopy(cache, cache)
    BY DEF WorkingCopy
  <2>4. QED
    BY <2>1, <2>2, <2>3 DEF Honest, WorkingCopy, PodHonest, volume
<1>2. CASE ReconcileStatefulSet
  <2>1. UNCHANGED <<api, cache, read, inst, pod, podCache, data, source, imported,
                    used, restarts>>
    BY <1>2 DEF ReconcileStatefulSet, volume
  <2>2. sts' \in Template /\ pc' \in {"migration", "idle"}
    BY <1>2, DesiredType DEF ReconcileStatefulSet, TypeOK
  <2>3. faults' \in 0..MaxFaults
    BY <1>2, FaultType DEF ReconcileStatefulSet, TypeOK
  <2>4. TypeOK'
    BY <2>1, <2>2, <2>3 DEF TypeOK
  <2>5. QED
    BY <2>1, <2>4 DEF Honest, WorkingCopy, PodHonest, volume
<1>3. CASE MigrationReconcile \/ RestoreReconcile
  <2>1. UNCHANGED <<cache, sts, pod, podCache, volume, restarts>>
        /\ pc' \in {"restore", "updateStatus"}
    BY <1>3 DEF MigrationReconcile, RestoreReconcile, MigrationNotPending,
       MigrationCompleted, MigrationFailed, MigrationWaiting, MigrationGoesOn,
       RestoreNotPending, RestoreCompleted, RestoreFailed, RestoreWaiting,
       RestoreGoesOn
  <2>2. PICK o : HandsOn(o)
    BY <1>3, MigrationHandsOn, RestoreHandsOn
  <2>3. /\ api' = api \/ StatusWritten
        /\ {api', cache', read', inst'} \subseteq Object
        /\ Honest(api') /\ Honest(cache') /\ Honest(read') /\ Honest(inst')
        /\ WorkingCopy(inst', read')
        /\ faults' \in 0..MaxFaults
    BY <2>1, <2>2, HandOnStep
  <2>4. TypeOK'
    BY <2>1, <2>3 DEF TypeOK, volume
  <2>5. QED
    BY <2>1, <2>3, <2>4 DEF Honest, WorkingCopy, PodHonest, volume
<1>4. CASE UpdateStatus
  <2>1. UNCHANGED <<cache, read, inst, sts, pod, podCache, data, source, imported,
                    used, restarts>>
        /\ pc' = "idle"
    BY <1>4 DEF UpdateStatus, volume
  <2>2. api' = api \/ (read = api /\ api' = inst)
    BY <1>4 DEF UpdateStatus
  <2>3. faults' \in 0..MaxFaults
    BY <1>4, FaultType DEF UpdateStatus, TypeOK
  <2>4. TypeOK'
    BY <2>1, <2>2, <2>3 DEF TypeOK
  <2>5. api' = api \/ StatusWritten
    BY <2>1, <2>2 DEF StatusWritten, TypeOK
  <2>6. QED
    BY <2>1, <2>2, <2>4, <2>5 DEF Honest, WorkingCopy, PodHonest, volume
<1>5. CASE Crash \/ SyncInstance \/ SyncPod
  <2>1. /\ UNCHANGED <<api, read, inst, sts, pod, data, source, imported, used,
                       restarts>>
        /\ cache' \in {cache, api}
        /\ podCache' \in {podCache, pod}
        /\ pc' \in {pc, "idle"}
    BY <1>5 DEF Crash, SyncInstance, SyncPod, volume, operator
  <2>2. faults' \in 0..MaxFaults
    BY <1>5, FaultType DEF Crash, SyncInstance, SyncPod, TypeOK
  <2>3. TypeOK'
    BY <2>1, <2>2 DEF TypeOK
  <2>4. Honest(cache') /\ PodHonest(podCache')
    BY <2>1
  <2>5. QED
    BY <2>1, <2>3, <2>4 DEF Honest, WorkingCopy, PodHonest, volume
<1>6. QED
  BY <1>1, <1>2, <1>3, <1>4, <1>5
     DEF ReconcileStep, MigrationReconcile, RestoreReconcile

\* Kubernetes: the StatefulSet controller replaces the pod, the kubelet runs
\* its init containers and the agent.
PodStep ==
    ReplacePod \/ RestartPod \/ InitRestoreSucceeds \/ InitRestoreBreaks
    \/ InitRestoreRefuses \/ InitMigrateSucceeds \/ InitMigrateBreaks
    \/ RetryInit \/ AgentRuns

\* An init container writes what it says it does; what the agent has worked
\* on is not empty.
LEMMA PodStepKeeps ==
    ASSUME OneShotInv, PodStep
    PROVE  /\ UNCHANGED <<api, cache, read, inst, pc, sts, podCache>>
           /\ pod' \in Pod
           /\ data' \in {"empty", "partial", "full"}
           /\ source' \in Key
           /\ imported' \in BOOLEAN
           /\ used' \in BOOLEAN
           /\ restarts' \in 0..MaxRestarts
           /\ faults' \in 0..MaxFaults
           /\ VolumeGrows
           /\ used => source' = source
           /\ pod'.restore # "none" => pod'.tmpl.restore # 0
           /\ pod'.restore = "ok" => source' # 0
           /\ pod'.migrate = "ok" => imported'
           /\ used' \/ source' # 0 \/ imported' => data' = "full"
<1>1. TypeOK /\ pod \in Pod /\ sts \in Template /\ source \in Key /\ PodHonest(pod)
      /\ data \in {"empty", "partial", "full"} /\ imported \in BOOLEAN
      /\ used \in BOOLEAN
      /\ (used \/ source # 0 \/ imported => data = "full")
  BY DEF OneShotInv, TypeOK
<1>2. UNCHANGED <<api, cache, read, inst, pc, sts, podCache>>
  BY DEF PodStep, ReplacePod, RestartPod, InitRestoreSucceeds,
     InitRestoreBreaks, InitRestoreRefuses, InitMigrateSucceeds,
     InitMigrateBreaks, RetryInit, AgentRuns, operator
<1>3. faults' \in 0..MaxFaults
  BY <1>1, FaultType DEF PodStep, ReplacePod, RestartPod, InitRestoreSucceeds,
     InitRestoreBreaks, InitRestoreRefuses, InitMigrateSucceeds,
     InitMigrateBreaks, RetryInit, AgentRuns, TypeOK
<1>4. restarts' \in 0..MaxRestarts
  <2>1. CASE RestartPod
    BY <1>1, <2>1, OneShotAssumption DEF RestartPod, TypeOK
  <2>2. CASE ~RestartPod
    BY <1>1, <2>2 DEF PodStep, ReplacePod, InitRestoreSucceeds,
       InitRestoreBreaks, InitRestoreRefuses, InitMigrateSucceeds,
       InitMigrateBreaks, RetryInit, AgentRuns, TypeOK
  <2>3. QED
    BY <2>1, <2>2
<1>5. CASE ReplacePod \/ RestartPod
  <2>1. pod' = NewPod(sts) /\ UNCHANGED <<data, source, imported, used>>
    BY <1>5 DEF ReplacePod, RestartPod, volume
  <2>2. /\ pod' \in Pod
        /\ pod'.restore # "none" => pod'.tmpl.restore # 0
        /\ pod'.restore # "ok" /\ pod'.migrate # "ok"
    BY <1>1, <2>1, NewPodFields
  <2>3. QED
    BY <1>1, <1>2, <1>3, <1>4, <2>1, <2>2 DEF VolumeGrows
<1>6. CASE InitRestoreSucceeds
  <2>1. pod' = [pod EXCEPT !.restore = "ok"] /\ data = "empty" /\ data' = "full"
        /\ source' = pod.tmpl.restore /\ UNCHANGED <<imported, used>>
        /\ pod.restore = "waiting"
    BY <1>6 DEF InitRestoreSucceeds
  <2>2. pod' \in Pod /\ pod'.tmpl = pod.tmpl /\ pod'.migrate = pod.migrate
        /\ pod.tmpl.restore \in Key /\ pod.tmpl.restore # 0
    BY <1>1, <2>1 DEF Pod, Template, InitStates, PodHonest
  <2>3. ~used
    BY <1>1, <2>1
  <2>4. QED
    BY <1>1, <1>2, <1>3, <1>4, <2>1, <2>2, <2>3 DEF VolumeGrows, PodHonest
<1>7. CASE InitRestoreBreaks \/ InitRestoreRefuses
  <2>1. pod' = [pod EXCEPT !.restore = "failed"] /\ pod.restore = "waiting"
        /\ UNCHANGED <<source, imported, used>>
        /\ (data' = data \/ (data = "empty" /\ data' \in {"empty", "partial"}))
    BY <1>7 DEF InitRestoreBreaks, InitRestoreRefuses, volume
  <2>2. pod' \in Pod /\ pod'.tmpl = pod.tmpl /\ pod'.migrate = pod.migrate
        /\ pod'.restore = "failed" /\ pod.tmpl.restore # 0
    BY <1>1, <2>1 DEF Pod, InitStates, PodHonest
  <2>3. QED
    BY <1>1, <1>2, <1>3, <1>4, <2>1, <2>2 DEF VolumeGrows, PodHonest
<1>8. CASE InitMigrateSucceeds
  <2>1. pod' = [pod EXCEPT !.migrate = "ok"] /\ data' = "full"
        /\ imported' = TRUE /\ UNCHANGED <<source, used>>
    BY <1>8 DEF InitMigrateSucceeds
  <2>2. pod' \in Pod /\ pod'.tmpl = pod.tmpl /\ pod'.restore = pod.restore
    BY <1>1, <2>1 DEF Pod, InitStates
  <2>3. QED
    BY <1>1, <1>2, <1>3, <1>4, <2>1, <2>2 DEF VolumeGrows, PodHonest
<1>9. CASE InitMigrateBreaks
  <2>1. pod' = [pod EXCEPT !.migrate = "failed"]
        /\ UNCHANGED <<source, imported, used>>
        /\ (data' = data \/ (data = "empty" /\ data' = "partial"))
    BY <1>9 DEF InitMigrateBreaks
  <2>2. pod' \in Pod /\ pod'.tmpl = pod.tmpl /\ pod'.restore = pod.restore
        /\ pod'.migrate = "failed"
    BY <1>1, <2>1 DEF Pod, InitStates
  <2>3. QED
    BY <1>1, <1>2, <1>3, <1>4, <2>1, <2>2 DEF VolumeGrows, PodHonest
<1>10. CASE RetryInit
  <2>1. UNCHANGED <<data, source, imported, used>>
    BY <1>10 DEF RetryInit, volume
  <2>2. \/ pod.restore = "failed" /\ pod' = [pod EXCEPT !.restore = "waiting"]
        \/ pod.migrate = "failed" /\ pod' = [pod EXCEPT !.migrate = "waiting"]
    BY <1>10 DEF RetryInit
  <2>3. /\ pod' \in Pod
        /\ pod'.restore # "none" => pod'.tmpl.restore # 0
        /\ pod'.restore = "ok" => source # 0
        /\ pod'.migrate = "ok" => imported
    BY <1>1, <2>2 DEF Pod, InitStates, PodHonest
  <2>4. QED
    BY <1>1, <1>2, <1>3, <1>4, <2>1, <2>3 DEF VolumeGrows
<1>11. CASE AgentRuns
  <2>1. used' = TRUE /\ data' = "full" /\ UNCHANGED <<pod, source, imported>>
    BY <1>11 DEF AgentRuns
  <2>2. QED
    BY <1>1, <1>2, <1>3, <1>4, <2>1 DEF VolumeGrows, PodHonest
<1>12. QED
  BY <1>5, <1>6, <1>7, <1>8, <1>9, <1>10, <1>11 DEF PodStep

\* So Kubernetes keeps the invariant.
LEMMA PodInvStep ==
    ASSUME OneShotInv, PodStep
    PROVE  OneShotInv'
<1>1. TypeOK'
  BY PodStepKeeps DEF OneShotInv, TypeOK
<1>2. VolumeGrows /\ UNCHANGED <<api, cache, read, inst, podCache>>
  BY PodStepKeeps
<1>3. Honest(api)' /\ Honest(cache)' /\ Honest(read)' /\ Honest(inst)'
  BY <1>2 DEF OneShotInv, Honest, VolumeGrows
<1>4. WorkingCopy(inst, read)'
  BY <1>2 DEF OneShotInv, WorkingCopy
<1>5. PodHonest(pod)'
  BY PodStepKeeps DEF PodHonest
<1>6. PodHonest(podCache)'
  BY <1>2 DEF OneShotInv, PodHonest, VolumeGrows
<1>7. (used \/ source # 0 \/ imported => data = "full")'
  BY PodStepKeeps
<1>8. QED
  BY <1>1, <1>3, <1>4, <1>5, <1>6, <1>7 DEF OneShotInv

\* The user.
LEMMA EditInvStep ==
    ASSUME OneShotInv, Edits
    PROVE  OneShotInv'
<1>1. UNCHANGED <<cache, read, inst, pc, sts, pod, podCache, data, source,
                  imported, used, restarts, faults>>
  BY EditStep DEF operator, volume
<1>2. api' \in Object /\ Honest(api')
  BY EditStep DEF SpecEdited
<1>3. TypeOK'
  BY <1>1, <1>2 DEF OneShotInv, TypeOK
<1>4. QED
  BY <1>1, <1>2, <1>3 DEF OneShotInv, Honest, WorkingCopy, PodHonest

\* No step of any of the three disturbs the inductive invariant.
LEMMA InvStep == OneShotInv /\ [Next]_vars => OneShotInv'
<1> SUFFICES ASSUME OneShotInv, [Next]_vars
             PROVE  OneShotInv'
  OBVIOUS
<1>1. CASE UNCHANGED vars
  BY <1>1 DEF vars, OneShotInv, TypeOK, Honest, WorkingCopy, PodHonest
<1>2. QED
  BY <1>1, OperatorStep, PodInvStep, EditInvStep DEF Next, PodStep

-----------------------------------------------------------------------------
(***************************************************************************)
(* Invariants and the action property.                                     *)
(***************************************************************************)

\* The inductive invariant holds throughout.
THEOREM OneShotInvHolds == Spec => []OneShotInv
BY InvInit, InvStep, PTL DEF Spec

\* Every reachable state is well typed.
THEOREM RestoreTypeCorrect == Spec => []TypeOK
<1>1. OneShotInv => TypeOK
  BY DEF OneShotInv
<1>2. QED
  BY <1>1, OneShotInvHolds, PTL

\* A restore and a migration are never both recorded as done, although the
\* webhook compares restoreFrom and migration in one version of the spec only
\* and the latches are set from copies that may be older than that.
THEOREM AtMostOneIsRecorded == Spec => []OneShotsExclusive
<1>1. OneShotInv => OneShotsExclusive
  BY DEF OneShotInv, Honest, OneShotsExclusive
<1>2. QED
  BY <1>1, OneShotInvHolds, PTL

\* Once the agent has worked on the volume no step extracts a snapshot to it,
\* whatever template or pod is left over: init-restore refuses.
THEOREM WorkIsNotOverwritten == Spec => RestoreNeverOverwrites
<1>1. OneShotInv /\ [Next]_vars => [used => source' = source]_vars
  <2> SUFFICES ASSUME OneShotInv, [Next]_vars
               PROVE  used => source' = source
    OBVIOUS
  <2>1. CASE UNCHANGED vars
    BY <2>1 DEF vars
  <2>2. CASE PodStep
    BY <2>2, PodStepKeeps
  <2>3. CASE ReconcileStep \/ Crash \/ SyncInstance \/ SyncPod
    BY <2>3, OperatorStep DEF volume
  <2>4. CASE Edits
    BY <2>4, EditStep DEF volume
  <2>5. QED
    BY <2>1, <2>2, <2>3, <2>4 DEF Next, PodStep
<1>2. QED
  BY <1>1, OneShotInvHolds, PTL DEF Spec, RestoreNeverOverwrites

-----------------------------------------------------------------------------
(***************************************************************************)
(* The refinement of OneShot: a step of the volume carries out, a status   *)
(* update records or changes nothing, an edit asks.                        *)
(***************************************************************************)
\* Seen from the API server and the volume there are three kinds of steps.
LEMMA WhatAStepDoes ==
    ASSUME OneShotInv, [Next]_vars
    PROVE  \/ UNCHANGED api /\ VolumeGrows /\ imported' \in BOOLEAN
           \/ StatusWritten
           \/ SpecEdited
<1>1. CASE UNCHANGED vars
  BY <1>1 DEF vars, VolumeGrows, OneShotInv, TypeOK
<1>2. CASE PodStep
  BY <1>2, PodStepKeeps
<1>3. CASE ReconcileStep \/ Crash \/ SyncInstance \/ SyncPod
  BY <1>3, OperatorStep DEF volume, VolumeGrows, OneShotInv, TypeOK
<1>4. CASE Edits
  BY <1>4, EditStep
<1>5. QED
  BY <1>1, <1>2, <1>3, <1>4 DEF Next, PodStep

\* Each is a step of the abstract restore, or a stutter.
LEMMA RestoreShotStep ==
    ASSUME OneShotInv, [Next]_vars
    PROVE  [RestoreShot!Next]_(RestoreShot!vars)
<1> USE DEF RestoreShot!Next, RestoreShot!vars
<1>1. api \in Object /\ Honest(api)
  BY DEF OneShotInv, TypeOK
<1>2. CASE UNCHANGED api /\ VolumeGrows /\ imported' \in BOOLEAN
  <2>1. (source' # 0) = TRUE \/ (source' # 0) = (source # 0)
    BY <1>2 DEF VolumeGrows
  <2>2. QED
    BY <1>2, <2>1 DEF RestoreShot!CarryOut
<1>3. CASE StatusWritten
  <2>1. api'.restoreFrom = api.restoreFrom /\ UNCHANGED source
    BY <1>3 DEF StatusWritten, WorkingCopy
  <2>2. \/ api'.restoredFrom = api.restoredFrom
        \/ /\ api.restoredFrom = 0
           /\ source # 0
           /\ api'.restoredFrom = api.restoreFrom
           /\ api.restoreFrom # 0
    BY <1>1, <1>3 DEF StatusWritten, WorkingCopy, Honest
  <2>3. QED
    BY <2>1, <2>2 DEF RestoreShot!Record
<1>4. CASE SpecEdited
  <2>1. api'.restoredFrom = api.restoredFrom /\ UNCHANGED source
    BY <1>4 DEF SpecEdited
  <2>2. api.restoredFrom = 0 \/ api'.restoreFrom = api.restoreFrom
    BY <1>1, <1>4 DEF SpecEdited, Honest, ValidateImmutableTerminals
  <2>3. QED
    BY <2>1, <2>2 DEF RestoreShot!Ask
<1>5. QED
  BY <1>2, <1>3, <1>4, WhatAStepDoes

\* Each is a step of the abstract migration, or a stutter.
LEMMA MigrationShotStep ==
    ASSUME OneShotInv, [Next]_vars
    PROVE  [MigrationShot!Next]_(MigrationShot!vars)
<1> USE DEF MigrationShot!Next, MigrationShot!vars
<1>1. api \in Object /\ Honest(api) /\ imported \in BOOLEAN
      /\ api.migrate \in BOOLEAN /\ api.completed \in BOOLEAN
  BY DEF OneShotInv, TypeOK, Object
<1>2. CASE UNCHANGED api /\ VolumeGrows /\ imported' \in BOOLEAN
  <2>1. imported' = TRUE \/ imported' = imported
    BY <1>1, <1>2 DEF VolumeGrows
  <2>2. QED
    BY <1>2, <2>1 DEF MigrationShot!CarryOut
<1>3. CASE StatusWritten
  <2>1. api'.migrate = api.migrate /\ UNCHANGED imported
        /\ api'.completed \in BOOLEAN
    BY <1>3 DEF StatusWritten, WorkingCopy, Object
  <2>2. \/ api'.completed = api.completed
        \/ /\ api.completed = FALSE
           /\ imported
           /\ api'.completed = TRUE
           /\ api.migrate = TRUE
    BY <1>1, <1>3, <2>1 DEF StatusWritten, WorkingCopy, Honest
  <2>3. QED
    BY <2>1, <2>2 DEF MigrationShot!Record
<1>4. CASE SpecEdited
  <2>1. api'.completed = api.completed /\ UNCHANGED imported
    BY <1>4 DEF SpecEdited
  <2>2. api.completed = FALSE \/ api'.migrate = api.migrate
    BY <1>1, <1>4 DEF SpecEdited, Honest, ValidateImmutableTerminals
  <2>3. QED
    BY <2>1, <2>2 DEF MigrationShot!Ask
<1>5. QED
  BY <1>2, <1>3, <1>4, WhatAStepDoes

\* status.restoredFrom is a latch: written once, after some snapshot has been
\* extracted in full, as the restoreFrom of that moment, and from then on
\* neither it nor spec.restoreFrom changes (RestoreReconciler.Reconcile and
\* validateImmutableTerminals together).  The snapshot extracted may have been
\* that of an earlier restoreFrom.
THEOREM RestoreRefinesOneShot == Spec => RestoreIsOneShot
<1>1. Init => RestoreShot!Init
  BY DEF Init, RestoreShot!Init
<1>2. OneShotInv /\ [Next]_vars => [RestoreShot!Next]_(RestoreShot!vars)
  BY RestoreShotStep
<1>3. QED
  BY <1>1, <1>2, OneShotInvHolds, PTL
     DEF Spec, RestoreIsOneShot, RestoreShot!Spec

\* The same of the latch of the migration and the importer.
THEOREM MigrationRefinesOneShot == Spec => MigrationIsOneShot
<1>1. Init => MigrationShot!Init
  BY DEF Init, MigrationShot!Init
<1>2. OneShotInv /\ [Next]_vars => [MigrationShot!Next]_(MigrationShot!vars)
  BY MigrationShotStep
<1>3. QED
  BY <1>1, <1>2, OneShotInvHolds, PTL
     DEF Spec, MigrationIsOneShot, MigrationShot!Spec

=============================================================================
