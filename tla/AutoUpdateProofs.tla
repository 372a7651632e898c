-------------------------- MODULE AutoUpdateProofs --------------------------
(***************************************************************************)
(* Proofs about AutoUpdate, for any number of tags, any set of good ones,  *)
(* any threshold and any number of edits and faults.                       *)
(***************************************************************************)
EXTENDS AutoUpdate, TLAPS

-----------------------------------------------------------------------------
(***************************************************************************)
(* Facts about the operators.                                              *)
(***************************************************************************)

\* The empty string is the one optional tag that is no tag.
LEMMA TagFacts ==
    /\ 0 \in OptTag
    /\ 1 \in Tags
    /\ \A t \in Tags : t \in OptTag /\ t # 0
    /\ \A t \in OptTag : t # 0 => t \in Tags
BY ConstantsAssumption DEF OptTag, Tags

\* The records that stand for nothing are of their types.
LEMMA NothingType ==
    /\ NewStatus \in Status
    /\ Nothing \in Object
    /\ Nothing.st = NewStatus
    /\ NewStatus.target = 0 /\ NewStatus.lastFailed = 0
    /\ NewStatus.deadline = "none"
<1>1. NewStatus \in Status
  BY TagFacts DEF NewStatus, Status, Reasons
<1>2. QED
  BY <1>1, TagFacts DEF NewStatus, Nothing, Object

\* A fault stays within its bound.
LEMMA FaultType == ASSUME TypeOK, Fault PROVE faults' \in 0..MaxFaults
BY ConstantsAssumption DEF TypeOK, Fault

\* An edit stays within its bound.
LEMMA EditType == ASSUME TypeOK, Edit PROVE edits' \in 0..MaxEdits
BY ConstantsAssumption DEF TypeOK, Edit

\* An object with another status.
LEMMA WithStatus ==
    ASSUME NEW o \in Object, NEW s \in Status
    PROVE  [o EXCEPT !.st = s] \in Object /\ [o EXCEPT !.st = s].st = s
BY DEF Object

\* A check of the registry changes only lastCheck.
LEMMA CheckedFields ==
    ASSUME NEW o \in Object
    PROVE  /\ Checked(o) \in Status
           /\ Checked(o).target = o.st.target
           /\ Checked(o).lastFailed = o.st.lastFailed
           /\ Checked(o).deadline = o.st.deadline
BY DEF Checked, Object, Status

\* When the poll interval elapses, only lastCheck grows old.
LEMMA AgedFields ==
    ASSUME NEW o \in Object
    PROVE  /\ Aged(o) \in Object
           /\ Aged(o).backup = o.backup
           /\ Aged(o).st.target = o.st.target
           /\ Aged(o).st.lastFailed = o.st.lastFailed
           /\ Aged(o).st.deadline = o.st.deadline
           /\ Aged(o).st = [o.st EXCEPT !.lastCheck =
                              IF @ = "recent" THEN "due" ELSE @]
<1>1. o.st \in Status
  BY DEF Object
<1> DEFINE s == [o.st EXCEPT !.lastCheck = IF @ = "recent" THEN "due" ELSE @]
<1>2. /\ s \in Status /\ s.target = o.st.target
      /\ s.lastFailed = o.st.lastFailed /\ s.deadline = o.st.deadline
  BY <1>1 DEF Status
<1>3. Aged(o) = [o EXCEPT !.st = s]
  BY DEF Aged
<1> HIDE DEF s
<1>4. Aged(o) \in Object /\ Aged(o).st = s /\ Aged(o).backup = o.backup
  BY <1>2, <1>3 DEF Object
<1>5. QED
  BY <1>2, <1>4 DEF s

\* When the rollout window elapses, a deadline passes and none appears.
LEMMA ExpiredFields ==
    ASSUME NEW o \in Object
    PROVE  /\ Expired(o) \in Object
           /\ Expired(o).backup = o.backup
           /\ Expired(o).st.target = o.st.target
           /\ Expired(o).st.lastFailed = o.st.lastFailed
           /\ Expired(o).st.deadline = "none" <=> o.st.deadline = "none"
           /\ Expired(o).st = [o.st EXCEPT !.deadline =
                                 IF @ = "open" THEN "passed" ELSE @]
<1>1. o.st \in Status
  BY DEF Object
<1> DEFINE s == [o.st EXCEPT !.deadline = IF @ = "open" THEN "passed" ELSE @]
<1>2. /\ s \in Status /\ s.target = o.st.target
      /\ s.lastFailed = o.st.lastFailed
      /\ s.deadline = "none" <=> o.st.deadline = "none"
  BY <1>1 DEF Status
<1>3. Expired(o) = [o EXCEPT !.st = s]
  BY DEF Expired
<1> HIDE DEF s
<1>4. Expired(o) \in Object /\ Expired(o).st = s /\ Expired(o).backup = o.backup
  BY <1>2, <1>3 DEF Object
<1>5. QED
  BY <1>2, <1>4 DEF s

\* The statuses the reconciler puts together from the one it has.
LEMMA StatusTypes ==
    ASSUME TypeOK
    PROVE  /\ inst.st \in Status
           /\ \A r \in Reasons :
                LET s == [Checked(inst) EXCEPT !.reason = r]
                IN  /\ s \in Status
                    /\ s.target = inst.st.target
                    /\ s.lastFailed = inst.st.lastFailed
                    /\ s.deadline = inst.st.deadline
           /\ LET s == [inst.st EXCEPT !.key = TRUE]
              IN  /\ s \in Status
                  /\ s.target = inst.st.target
                  /\ s.lastFailed = inst.st.lastFailed
                  /\ s.deadline = inst.st.deadline
           /\ Rollout \in Status /\ Rollout.target = goal
           /\ Rollout.lastFailed = inst.st.lastFailed
           /\ Rollout.deadline = "open"
           /\ Confirmation \in Status /\ Confirmation.target = 0
           /\ Confirmation.lastFailed = inst.st.lastFailed
           /\ Confirmation.deadline = "none"
           /\ Previous \in Tags
           /\ Rollback \in Status /\ Rollback.target = 0
           /\ Rollback.lastFailed = inst.st.target
           /\ Rollback.deadline = "none"
<1>1. inst \in Object /\ inst.st \in Status /\ goal \in OptTag /\ inst.tag \in Tags
  BY DEF TypeOK, Object
<1>2. /\ Checked(inst) \in Status
      /\ Checked(inst).target = inst.st.target
      /\ Checked(inst).lastFailed = inst.st.lastFailed
      /\ Checked(inst).deadline = inst.st.deadline
  BY <1>1, CheckedFields
<1>3. ASSUME NEW r \in Reasons
      PROVE  LET s == [Checked(inst) EXCEPT !.reason = r]
             IN  /\ s \in Status
                 /\ s.target = inst.st.target
                 /\ s.lastFailed = inst.st.lastFailed
                 /\ s.deadline = inst.st.deadline
  BY <1>2 DEF Status
<1>4. LET s == [inst.st EXCEPT !.key = TRUE]
      IN  /\ s \in Status
          /\ s.target = inst.st.target
          /\ s.lastFailed = inst.st.lastFailed
          /\ s.deadline = inst.st.deadline
  BY <1>1 DEF Status
<1>5. /\ Rollout \in Status /\ Rollout.target = goal
      /\ Rollout.lastFailed = inst.st.lastFailed
      /\ Rollout.deadline = "open"
  BY <1>1 DEF Rollout, Status, Reasons
<1>6. /\ Confirmation \in Status /\ Confirmation.target = 0
      /\ Confirmation.lastFailed = inst.st.lastFailed
      /\ Confirmation.deadline = "none"
  BY <1>1, TagFacts DEF Confirmation, Status, Reasons
<1>7. Previous \in Tags
  BY <1>1, TagFacts DEF Previous, Status
<1>8. /\ Rollback \in Status /\ Rollback.target = 0
      /\ Rollback.lastFailed = inst.st.target
      /\ Rollback.deadline = "none"
  BY <1>1, <1>7, TagFacts DEF Rollback, Status, Reasons
<1>9. QED
  BY <1>1, <1>3, <1>4, <1>5, <1>6, <1>7, <1>8

-----------------------------------------------------------------------------
(***************************************************************************)
(* The inductive invariant, in the parts the steps disturb.                *)
(***************************************************************************)
OperatorTypes ==
    /\ api \in Object /\ cache \in Object /\ base \in Object /\ inst \in Object
    /\ goal \in OptTag
    /\ pc \in Steps
    /\ faults \in 0..MaxFaults

ClusterTypes ==
    /\ sts \in StatefulSet /\ stsCache \in StatefulSet
    /\ pod \in [tag : Tags, ready : BOOLEAN]
    /\ job \in {"absent", "running", "complete", "failed"}
    /\ newest \in OptTag
    /\ probes \in 0..Threshold
    /\ edits \in 0..MaxEdits
    /\ ran \subseteq Tags
    /\ backedUp \in BOOLEAN

Copies ==
    /\ Sane(api) /\ Sane(cache) /\ Sane(base) /\ Sane(inst)
    /\ CacheKnown
    /\ UndecidedKnown
    /\ StartKnown
    /\ EndKnown

\* The invariant is the conjunction of its parts, before and after a step.
LEMMA Parts ==
    /\ AutoUpdateInv <=> OperatorTypes /\ ClusterTypes /\ Copies /\ BackupKnown
    /\ AutoUpdateInv' <=>
         OperatorTypes' /\ ClusterTypes' /\ Copies' /\ BackupKnown'
BY DEF AutoUpdateInv, TypeOK, OperatorTypes, ClusterTypes, Copies

\* The initial states satisfy it.
LEMMA InvInit == Init => AutoUpdateInv
<1> SUFFICES ASSUME Init PROVE AutoUpdateInv
  OBVIOUS
<1>1. /\ api \in Object /\ api.st = NewStatus /\ cache = api
      /\ base = Nothing /\ inst = Nothing /\ goal = 0 /\ pc = "idle"
  BY NothingType, TagFacts DEF Init, Object
<1>2. OperatorTypes
  BY <1>1, NothingType, TagFacts DEF Init, OperatorTypes, Steps
<1>3. ClusterTypes
  <2>1. probes \in 0..Threshold
    BY ConstantsAssumption DEF Init
  <2>2. /\ sts \in StatefulSet /\ stsCache \in StatefulSet
        /\ pod \in [tag : Tags, ready : BOOLEAN]
    BY TagFacts DEF Init, StatefulSet
  <2>3. QED
    BY <2>1, <2>2, TagFacts DEF Init, ClusterTypes
<1>4. Copies
  BY <1>1, NothingType
  DEF Copies, Sane, CacheKnown, UndecidedKnown, StartKnown, EndKnown
<1>5. BackupKnown
  BY DEF Init, BackupKnown, BackupBeforeRollout
<1>6. QED
  BY <1>2, <1>3, <1>4, <1>5, Parts

-----------------------------------------------------------------------------
(***************************************************************************)
(* Status().Update.                                                        *)
(***************************************************************************)

\* Either all copies have the new status, or only the working copy has it.
LEMMA SaveFacts ==
    ASSUME TypeOK, NEW s \in Status, NEW next \in Steps, SaveStatus(s, next),
           UNCHANGED <<cache, goal>>
    PROVE  /\ OperatorTypes'
           /\ inst'.st = s
           /\ \/ base = api /\ api'.st = s /\ base'.st = s /\ pc' = next
              \/ api' = api /\ base' = base /\ pc' = "updateStatus"
<1>1. /\ [api EXCEPT !.st = s] \in Object /\ [api EXCEPT !.st = s].st = s
      /\ [inst EXCEPT !.st = s] \in Object /\ [inst EXCEPT !.st = s].st = s
  BY WithStatus DEF TypeOK
<1>2. CASE Saved(s) /\ Goto(next)
  <2>1. /\ base = api /\ api' = [api EXCEPT !.st = s] /\ base' = api'
        /\ inst' = api' /\ faults' = faults /\ pc' = next
    BY <1>2 DEF Saved, NoFault, Goto
  <2>2. OperatorTypes'
    BY <1>1, <2>1 DEF OperatorTypes, TypeOK
  <2>3. QED
    BY <1>1, <2>1, <2>2
<1>3. CASE NotSaved(s) /\ Goto("updateStatus")
  <2>1. /\ inst' = [inst EXCEPT !.st = s] /\ api' = api /\ base' = base
        /\ pc' = "updateStatus"
    BY <1>3 DEF NotSaved, Goto
  <2>2. faults' \in 0..MaxFaults
    BY <1>3, FaultType DEF NotSaved, NoFault, TypeOK
  <2>3. OperatorTypes'
    BY <1>1, <2>1, <2>2 DEF OperatorTypes, TypeOK, Steps
  <2>4. QED
    BY <1>1, <2>1, <2>3
<1>4. QED
  BY <1>2, <1>3 DEF SaveStatus

\* A write that keeps lastFailedTag as it was read.
LEMMA SaveKeeps ==
    ASSUME AutoUpdateInv, NEW s \in Status, NEW next \in Steps,
           SaveStatus(s, next), UNCHANGED <<cache, goal>>,
           \/ next = "updateStatus" \/ next = "clearAnnotation"
           \/ next = "createJob" /\ pc = "runOneShot",
           s.lastFailed = inst.st.lastFailed,
           inst.st.lastFailed = base.st.lastFailed,
           s.target # 0 => s.target # s.lastFailed,
           s.target # 0 <=> s.deadline # "none"
    PROVE  OperatorTypes' /\ Copies' /\ pc' # "patchSts"
<1>1. /\ OperatorTypes'
      /\ inst'.st = s
      /\ \/ base = api /\ api'.st = s /\ base'.st = s /\ pc' = next
         \/ api' = api /\ base' = base /\ pc' = "updateStatus"
  BY SaveFacts DEF AutoUpdateInv
<1>2. Copies /\ goal' = goal /\ cache' = cache
  BY Parts
<1>3. CASE base = api /\ api'.st = s /\ base'.st = s /\ pc' = next
  <2>1. Sane(api)' /\ Sane(base)' /\ Sane(inst)' /\ Sane(cache)'
    BY <1>1, <1>2, <1>3 DEF Sane, Copies
  <2>2. api'.st.lastFailed = api.st.lastFailed
    BY <1>3
  <2>3. CacheKnown'
    BY <1>2, <2>2 DEF CacheKnown, Copies
  <2>4. UndecidedKnown' /\ EndKnown'
    BY <1>1, <1>3 DEF UndecidedKnown, EndKnown
  <2>5. StartKnown'
    BY <1>1, <1>2, <1>3, <2>2 DEF StartKnown, Copies
  <2>6. QED
    BY <1>1, <1>3, <2>1, <2>3, <2>4, <2>5 DEF Copies
<1>4. CASE api' = api /\ base' = base /\ pc' = "updateStatus"
  <2>1. Sane(api)' /\ Sane(base)' /\ Sane(inst)' /\ Sane(cache)'
    BY <1>1, <1>2, <1>4 DEF Sane, Copies
  <2>2. CacheKnown'
    BY <1>2, <1>4 DEF CacheKnown, Copies
  <2>3. UndecidedKnown' /\ StartKnown' /\ EndKnown'
    BY <1>1, <1>4 DEF UndecidedKnown, StartKnown, EndKnown
  <2>4. QED
    BY <1>1, <1>4, <2>1, <2>2, <2>3 DEF Copies
<1>5. QED
  BY <1>1, <1>3, <1>4

\* The cluster's variables keep their types when they keep their values.
LEMMA ClusterKept ==
    ASSUME AutoUpdateInv, UNCHANGED cluster, pc' # "patchSts"
    PROVE  ClusterTypes' /\ BackupKnown'
BY Parts DEF cluster, ClusterTypes, BackupKnown, BackupBeforeRollout

-----------------------------------------------------------------------------
(***************************************************************************)
(* The steps of a reconcile, in the order of the source.                   *)
(***************************************************************************)

\* A reconcile starts from the cache.
LEMMA BeginStep == ASSUME AutoUpdateInv, BeginReconcile PROVE AutoUpdateInv'
<1>1. /\ base' = cache /\ inst' = cache /\ pc' = "statefulSet"
      /\ UNCHANGED <<api, cache, goal, faults>> /\ UNCHANGED cluster
  BY DEF BeginReconcile, Goto, NoFault
<1>2. OperatorTypes'
  BY <1>1, Parts DEF OperatorTypes, Steps
<1>3. Copies'
  BY <1>1, Parts
  DEF Copies, Sane, CacheKnown, UndecidedKnown, StartKnown, EndKnown, RolloutRead
<1>4. QED
  BY <1>1, <1>2, <1>3, ClusterKept, Parts

\* The reconcile ends, by itself or by a crash; the cache may be new.
LEMMA ReturnStep ==
    ASSUME AutoUpdateInv, Return, UNCHANGED api, cache' \in {cache, api},
           faults' \in 0..MaxFaults, ClusterTypes', UNCHANGED <<job, backedUp>>
    PROVE  AutoUpdateInv'
<1>1. pc' = "idle" /\ base' = Nothing /\ inst' = Nothing /\ goal' = 0
  BY DEF Return
<1>2. OperatorTypes'
  BY <1>1, Parts, NothingType, TagFacts DEF OperatorTypes, Steps
<1>3. Sane(base)' /\ Sane(inst)'
  BY <1>1, NothingType DEF Sane
<1>4. Sane(api)' /\ Sane(cache)' /\ CacheKnown'
  BY Parts DEF Sane, CacheKnown, Copies
<1>5. UndecidedKnown' /\ StartKnown' /\ EndKnown'
  BY <1>1 DEF UndecidedKnown, StartKnown, EndKnown
<1>6. BackupKnown'
  BY <1>1, Parts DEF BackupKnown, BackupBeforeRollout
<1>7. QED
  BY <1>2, <1>3, <1>4, <1>5, <1>6, Parts DEF Copies

\* An error of a subsystem, and a crash.
LEMMA FailureSteps ==
    ASSUME AutoUpdateInv, SubsystemFails \/ Crash PROVE AutoUpdateInv'
<1>1. TypeOK /\ ClusterTypes
  BY Parts DEF AutoUpdateInv
<1>2. faults' \in 0..MaxFaults
  BY <1>1, FaultType DEF SubsystemFails, Crash, NoFault, TypeOK
<1>3. Return /\ UNCHANGED api /\ cache' \in {cache, api} /\ UNCHANGED <<job, backedUp>>
  BY DEF SubsystemFails, Crash, cluster
<1>4. ClusterTypes'
  BY <1>1 DEF SubsystemFails, Crash, cluster, ClusterTypes
<1>5. QED
  BY <1>2, <1>3, <1>4, ReturnStep

\* The write that ends the reconcile carries what earlier ones left behind.
LEMMA UpdateStatusStep == ASSUME AutoUpdateInv, UpdateStatus PROVE AutoUpdateInv'
<1>1. TypeOK /\ ClusterTypes /\ Copies /\ OperatorTypes
  BY Parts DEF AutoUpdateInv
<1>2. /\ pc = "updateStatus" /\ Return /\ UNCHANGED cluster /\ UNCHANGED cache
      /\ faults' \in 0..MaxFaults
  BY <1>1, FaultType DEF UpdateStatus, NoFault, TypeOK
<1>3. ClusterTypes' /\ UNCHANGED <<job, backedUp>>
  BY <1>1, <1>2 DEF cluster, ClusterTypes
<1>4. CASE UNCHANGED api
  BY <1>2, <1>3, <1>4, ReturnStep
<1>5. CASE base = api /\ api' = [api EXCEPT !.st = inst.st]
  <2>1. api' \in Object /\ api'.st = inst.st
    BY <1>1, <1>5, WithStatus DEF OperatorTypes, Object
  <2>2. pc' = "idle" /\ base' = Nothing /\ inst' = Nothing /\ goal' = 0
    BY <1>2 DEF Return
  <2>3. OperatorTypes'
    BY <1>1, <1>2, <2>1, <2>2, NothingType, TagFacts DEF OperatorTypes, Steps
  <2>4. Sane(base)' /\ Sane(inst)'
    BY <2>2, NothingType DEF Sane
  <2>5. Sane(api)' /\ Sane(cache)'
    BY <1>1, <1>2, <2>1 DEF Sane, Copies
  <2>6. CacheKnown'
    BY <1>1, <1>2, <1>5, <2>1 DEF CacheKnown, EndKnown, RolloutRead, Copies
  <2>7. UndecidedKnown' /\ StartKnown' /\ EndKnown'
    BY <2>2 DEF UndecidedKnown, StartKnown, EndKnown
  <2>8. QED
    BY <1>2, <2>2, <2>3, <2>4, <2>5, <2>6, <2>7, ClusterKept, Parts DEF Copies
<1>6. QED
  BY <1>4, <1>5 DEF UpdateStatus

\* A step that ends the auto-update without writing.
LEMMA ToUpdateStatus ==
    ASSUME AutoUpdateInv, pc' = "updateStatus",
           UNCHANGED <<api, cache, base, goal>>, inst' \in Object,
           Sane(inst)',
           inst'.st.lastFailed = base.st.lastFailed,
           faults' \in 0..MaxFaults
    PROVE  OperatorTypes' /\ Copies'
<1>1. OperatorTypes'
  BY Parts DEF OperatorTypes, Steps
<1>2. Copies'
  BY Parts
  DEF Copies, Sane, CacheKnown, UndecidedKnown, StartKnown, EndKnown
<1>3. QED
  BY <1>1, <1>2

\* Where lastFailedTag is still the one that was read.
LEMMA AsRead ==
    ASSUME AutoUpdateInv,
           pc \in {"statefulSet", "autoUpdate", "runOneShot", "createJob",
                   "patchSts", "annotate", "recordRollout", "clearAnnotation"}
    PROVE  inst.st.lastFailed = base.st.lastFailed
BY Parts DEF Copies, UndecidedKnown, StartKnown, EndKnown

\* Nothing to do, a failing call, and the backup not yet done.
LEMMA GiveUpSteps ==
    ASSUME AutoUpdateInv,
           NothingToDo \/ CallFails \/ CreatePreUpdateJob
             \/ PreUpdateBackupNotDone
    PROVE  AutoUpdateInv'
<1>1. TypeOK /\ ClusterTypes /\ Copies /\ OperatorTypes /\ BackupKnown
  BY Parts DEF AutoUpdateInv
<1>2. /\ pc' = "updateStatus" /\ UNCHANGED <<api, cache, base, inst, goal>>
      /\ faults' \in 0..MaxFaults
  BY <1>1, FaultType
  DEF NothingToDo, CallFails, CreatePreUpdateJob, PreUpdateBackupNotDone,
      Goto, NoFault, Unwritten, TypeOK
<1>3. inst.st.lastFailed = base.st.lastFailed
  BY AsRead
  DEF NothingToDo, CallFails, CreatePreUpdateJob, PreUpdateBackupNotDone, InFlight
<1>4. OperatorTypes' /\ Copies'
  BY <1>1, <1>2, <1>3, ToUpdateStatus DEF OperatorTypes, Copies, Sane
<1>5. ClusterTypes' /\ BackupKnown'
  <2>1. CASE UNCHANGED cluster
    BY <1>2, <2>1, ClusterKept
  <2>2. CASE CreatePreUpdateJob
    BY <1>1, <1>2, <2>2
    DEF CreatePreUpdateJob, ClusterTypes, BackupKnown, BackupBeforeRollout
  <2>3. QED
    BY <2>1, <2>2 DEF NothingToDo, CallFails, PreUpdateBackupNotDone
<1>6. QED
  BY <1>4, <1>5, Parts

\* The StatefulSet is written from spec.image.
LEMMA StatefulSetStep ==
    ASSUME AutoUpdateInv, ReconcileStatefulSet PROVE AutoUpdateInv'
<1>1. ClusterTypes /\ Copies /\ OperatorTypes /\ BackupKnown
  BY Parts
<1>2. /\ pc = "statefulSet" /\ pc' = "autoUpdate"
      /\ UNCHANGED <<api, cache, base, inst, goal, faults>>
  BY DEF ReconcileStatefulSet, Goto, NoFault, Unwritten
<1>3. OperatorTypes'
  BY <1>1, <1>2 DEF OperatorTypes, Steps
<1>4. Copies'
  BY <1>1, <1>2
  DEF Copies, Sane, CacheKnown, UndecidedKnown, StartKnown, EndKnown, RolloutRead
<1>5. sts' \in StatefulSet
  BY <1>1 DEF ReconcileStatefulSet, OperatorTypes, ClusterTypes, Object, StatefulSet
<1>6. ClusterTypes'
  BY <1>1, <1>5 DEF ReconcileStatefulSet, ClusterTypes
<1>7. BackupKnown'
  BY <1>1, <1>2 DEF ReconcileStatefulSet, BackupKnown, BackupBeforeRollout
<1>8. QED
  BY <1>3, <1>4, <1>6, <1>7, Parts

\* A channel that does not parse.
LEMMA InvalidChannelStep ==
    ASSUME AutoUpdateInv, InvalidChannel PROVE AutoUpdateInv'
<1>1. Copies /\ OperatorTypes
  BY Parts
<1>2. /\ pc = "autoUpdate" /\ pc' = "updateStatus" /\ UNCHANGED cluster
      /\ inst' = [inst EXCEPT !.st = Checked(inst)]
      /\ UNCHANGED <<api, cache, base, goal, faults>>
  BY DEF InvalidChannel, Polling, Goto, NoFault
<1>3. /\ Checked(inst) \in Status
      /\ Checked(inst).target = inst.st.target
      /\ Checked(inst).lastFailed = inst.st.lastFailed
      /\ Checked(inst).deadline = inst.st.deadline
  BY <1>1, CheckedFields DEF OperatorTypes
<1>4. inst' \in Object /\ inst'.st = Checked(inst)
  BY <1>1, <1>2, <1>3, WithStatus DEF OperatorTypes
<1>5. Sane(inst)'
  BY <1>1, <1>3, <1>4 DEF Sane, Copies
<1>6. faults' \in 0..MaxFaults
  BY <1>1, <1>2 DEF OperatorTypes
<1>7. OperatorTypes' /\ Copies'
  BY <1>2, <1>3, <1>4, <1>5, <1>6, AsRead, ToUpdateStatus
<1>8. QED
  BY <1>2, <1>7, ClusterKept, Parts

\* A rollout starts: its tag is none that failed.
LEMMA StartStep == ASSUME AutoUpdateInv, StartRollout PROVE AutoUpdateInv'
<1>1. Copies /\ OperatorTypes /\ ClusterTypes /\ BackupKnown
  BY Parts
<1>2. /\ pc = "autoUpdate" /\ inst.st.target = 0
      /\ newest # 0 /\ newest # inst.st.lastFailed
      /\ inst' = [inst EXCEPT !.st = Checked(inst)]
      /\ goal' = newest
      /\ pc' = IF inst.backup THEN "runOneShot" ELSE "patchSts"
      /\ UNCHANGED <<api, cache, base, faults>> /\ UNCHANGED cluster
  BY DEF StartRollout, Polling, Suppressed, Goto, NoFault
<1>3. /\ Checked(inst) \in Status
      /\ Checked(inst).target = inst.st.target
      /\ Checked(inst).lastFailed = inst.st.lastFailed
      /\ Checked(inst).deadline = inst.st.deadline
  BY <1>1, CheckedFields DEF OperatorTypes
<1>4. inst' \in Object /\ inst'.st = Checked(inst) /\ inst'.backup = inst.backup
  BY <1>1, <1>2, <1>3, WithStatus DEF OperatorTypes, Object
<1>5. OperatorTypes'
  BY <1>1, <1>2, <1>4 DEF OperatorTypes, ClusterTypes, Steps
<1>6. /\ inst.st = base.st /\ base.st.lastFailed = api.st.lastFailed
  BY <1>1, <1>2 DEF Copies, UndecidedKnown
<1>7. Sane(api)' /\ Sane(cache)' /\ Sane(base)' /\ Sane(inst)' /\ CacheKnown'
  BY <1>1, <1>2, <1>3, <1>4 DEF Sane, CacheKnown, Copies
<1>8. UndecidedKnown' /\ StartKnown' /\ EndKnown'
  BY <1>2, <1>3, <1>4, <1>6 DEF UndecidedKnown, StartKnown, EndKnown
<1>9. ClusterTypes'
  BY <1>1, <1>2 DEF ClusterTypes, cluster
<1>10. BackupKnown'
  BY <1>1, <1>2, <1>4 DEF BackupKnown, BackupBeforeRollout, cluster
<1>11. QED
  BY <1>5, <1>7, <1>8, <1>9, <1>10, Parts DEF Copies

\* A step inside startRollout that writes no object.
LEMMA StartKept ==
    ASSUME AutoUpdateInv, UNCHANGED <<api, cache, base, inst, goal, faults>>,
           pc \in {"runOneShot", "createJob", "patchSts", "annotate"},
           pc' \in {"createJob", "patchSts", "annotate"}
    PROVE  OperatorTypes' /\ Copies'
<1>1. OperatorTypes'
  BY Parts DEF OperatorTypes, Steps
<1>2. Copies'
  BY Parts
  DEF Copies, Sane, CacheKnown, UndecidedKnown, StartKnown, EndKnown
<1>3. QED
  BY <1>1, <1>2

\* The backup is complete when the image is patched.
LEMMA BackupDoneStep ==
    ASSUME AutoUpdateInv, PreUpdateBackupDone PROVE AutoUpdateInv'
<1>1. /\ pc = "runOneShot" /\ pc' = "patchSts" /\ job = "complete"
      /\ UNCHANGED <<api, cache, base, inst, goal, faults>> /\ UNCHANGED cluster
  BY DEF PreUpdateBackupDone, Goto, NoFault, Unwritten
<1>2. OperatorTypes' /\ Copies'
  BY <1>1, StartKept
<1>3. ClusterTypes'
  BY <1>1, Parts DEF ClusterTypes, cluster
<1>4. BackupKnown'
  BY <1>1, Parts DEF BackupKnown, BackupBeforeRollout, cluster
<1>5. QED
  BY <1>2, <1>3, <1>4, Parts

\* The image becomes that of the new tag.
LEMMA PatchRolloutStep ==
    ASSUME AutoUpdateInv, PatchRolloutImage PROVE AutoUpdateInv'
<1>1. /\ pc = "patchSts" /\ pc' = "annotate" /\ PatchImage(goal)
      /\ UNCHANGED <<api, cache, base, inst, goal, faults>>
      /\ UNCHANGED <<backedUp, stsCache, pod, job, newest, probes, edits, ran>>
  BY DEF PatchRolloutImage, Goto, NoFault, Unwritten
<1>2. OperatorTypes' /\ Copies'
  BY <1>1, StartKept
<1>3. goal \in Tags /\ sts \in StatefulSet
  BY <1>1, Parts, TagFacts
  DEF Copies, StartKnown, OperatorTypes, ClusterTypes
<1>4. sts' \in StatefulSet
  BY <1>1, <1>3 DEF PatchImage, StatefulSet
<1>5. ClusterTypes'
  BY <1>1, <1>4, Parts DEF ClusterTypes
<1>6. BackupKnown'
  BY <1>1, Parts DEF BackupKnown, BackupBeforeRollout
<1>7. QED
  BY <1>2, <1>5, <1>6, Parts

\* The image becomes that of the tag before the rollout.
LEMMA RollBackStep == ASSUME AutoUpdateInv, RollBack PROVE AutoUpdateInv'
<1>1. /\ pc = "autoUpdate" /\ inst.st.target # 0
      /\ pc' = "recordRollback" /\ PatchImage(Previous)
      /\ UNCHANGED <<api, cache, base, inst, goal, faults>>
      /\ UNCHANGED <<backedUp, stsCache, pod, job, newest, probes, edits, ran>>
  BY DEF RollBack, InFlight, Goto, NoFault, Unwritten
<1>2. OperatorTypes'
  BY <1>1, Parts DEF OperatorTypes, Steps
<1>3. Copies'
  BY <1>1, Parts
  DEF Copies, Sane, CacheKnown, UndecidedKnown, StartKnown, EndKnown, RolloutRead
<1>4. Previous \in Tags /\ sts \in StatefulSet
  BY StatusTypes, Parts DEF AutoUpdateInv, ClusterTypes
<1>5. sts' \in StatefulSet
  BY <1>1, <1>4 DEF PatchImage, StatefulSet
<1>6. ClusterTypes'
  BY <1>1, <1>5, Parts DEF ClusterTypes
<1>7. BackupKnown'
  BY <1>1, Parts DEF BackupKnown, BackupBeforeRollout
<1>8. QED
  BY <1>2, <1>3, <1>6, <1>7, Parts

\* After the annotation's patch every copy has the status of the server, but
\* for a time of the last check that the server does not have.
LEMMA PatchFacts ==
    ASSUME OperatorTypes, NEW t \in OptTag, PatchAnnotation(t)
    PROVE  /\ api' \in Object /\ base' \in Object /\ inst' \in Object
           /\ api'.st = api.st /\ base'.st = api.st
           /\ inst'.st.target = api.st.target
           /\ inst'.st.lastFailed = api.st.lastFailed
           /\ inst'.st.deadline = api.st.deadline
<1>1. api' \in Object /\ api'.st = api.st /\ base' = api'
  BY DEF PatchAnnotation, OperatorTypes, Object
<1> DEFINE s == [api'.st EXCEPT !.lastCheck =
                    IF @ = "never" THEN inst.st.lastCheck ELSE @]
<1>2. inst' = [api' EXCEPT !.st = s]
  BY DEF PatchAnnotation
<1>3. api.st \in Status /\ inst.st \in Status
  BY DEF OperatorTypes, Object
<1>4. /\ s \in Status /\ s.target = api.st.target
      /\ s.lastFailed = api.st.lastFailed /\ s.deadline = api.st.deadline
  BY <1>1, <1>3 DEF Status
<1> HIDE DEF s
<1>5. inst' \in Object /\ inst'.st = s
  BY <1>1, <1>2, <1>4 DEF Object
<1>6. QED
  BY <1>1, <1>4, <1>5

\* The annotation is set, and cleared when the rollout has ended.
LEMMA AnnotationSteps ==
    ASSUME AutoUpdateInv, Annotate \/ ClearAnnotation PROVE AutoUpdateInv'
<1>1. Copies /\ OperatorTypes /\ ClusterTypes /\ BackupKnown
  BY Parts
<1>2. UNCHANGED <<cache, goal, faults>> /\ UNCHANGED cluster
  BY DEF Annotate, ClearAnnotation, NoFault
<1>3. CASE /\ PatchAnnotation(goal) \/ PatchAnnotation(0)
           /\ \/ pc = "annotate" /\ pc' = "recordRollout"
              \/ pc = "clearAnnotation" /\ pc' = "updateStatus"
  <2>1. /\ api' \in Object /\ base' \in Object /\ inst' \in Object
        /\ api'.st = api.st /\ base'.st = api.st
        /\ inst'.st.target = api.st.target
        /\ inst'.st.lastFailed = api.st.lastFailed
        /\ inst'.st.deadline = api.st.deadline
    BY <1>1, <1>3, PatchFacts, TagFacts DEF OperatorTypes
  <2>2. OperatorTypes'
    BY <1>1, <1>2, <1>3, <2>1 DEF OperatorTypes, Steps
  <2>3. Sane(api)' /\ Sane(cache)' /\ Sane(base)' /\ Sane(inst)' /\ CacheKnown'
    BY <1>1, <1>2, <2>1 DEF Sane, CacheKnown, Copies
  <2>4. UndecidedKnown' /\ StartKnown' /\ EndKnown'
    BY <1>1, <1>2, <1>3, <2>1
    DEF UndecidedKnown, StartKnown, EndKnown, Copies
  <2>5. QED
    BY <1>2, <1>3, <2>2, <2>3, <2>4, ClusterKept, Parts DEF Copies
<1>4. CASE pc = "clearAnnotation" /\ pc' = "updateStatus" /\ Unwritten
  <2>1. UNCHANGED <<api, base, inst>> /\ inst' \in Object /\ Sane(inst)'
    BY <1>1, <1>4 DEF Unwritten, OperatorTypes, Copies, Sane
  <2>2. OperatorTypes' /\ Copies'
    BY <1>1, <1>2, <1>4, <2>1, AsRead, ToUpdateStatus DEF OperatorTypes
  <2>3. QED
    BY <1>2, <1>4, <2>2, ClusterKept, Parts
<1>5. QED
  BY <1>3, <1>4 DEF Annotate, ClearAnnotation, Goto

\* The polls that end without a rollout.
LEMMA PollSteps ==
    ASSUME AutoUpdateInv,
           ListTagsFails \/ NoMatchingTag \/ SuppressKnownFailure \/ UpToDate
    PROVE  AutoUpdateInv'
<1>1. /\ pc = "autoUpdate" /\ UNCHANGED <<cache, goal>> /\ UNCHANGED cluster
  BY DEF ListTagsFails, NoMatchingTag, SuppressKnownFailure, UpToDate, Polling
<1>2. TypeOK /\ inst \in Object /\ Sane(inst)
  BY DEF AutoUpdateInv, TypeOK
<1>3. inst.st.lastFailed = base.st.lastFailed
  BY <1>1, AsRead
<1>4. PICK s \in Status :
        /\ SaveStatus(s, "updateStatus")
        /\ s.target = inst.st.target
        /\ s.lastFailed = inst.st.lastFailed
        /\ s.deadline = inst.st.deadline
  <2>1. CASE ListTagsFails
    BY <1>2, <2>1, CheckedFields DEF ListTagsFails
  <2>2. CASE NoMatchingTag
    BY <1>2, <2>2, StatusTypes DEF NoMatchingTag, Reasons
  <2>3. CASE SuppressKnownFailure
    BY <1>2, <2>3, StatusTypes DEF SuppressKnownFailure, Reasons
  <2>4. CASE UpToDate
    BY <1>2, <2>4, StatusTypes DEF UpToDate, Reasons
  <2>5. QED
    BY <2>1, <2>2, <2>3, <2>4
<1>5. /\ s.target # 0 => s.target # s.lastFailed
      /\ s.target # 0 <=> s.deadline # "none"
  BY <1>2, <1>4 DEF Sane
<1>6. "updateStatus" \in Steps
  BY DEF Steps
<1>7. OperatorTypes' /\ Copies' /\ pc' # "patchSts"
  BY <1>1, <1>3, <1>4, <1>5, <1>6, SaveKeeps
<1>8. QED
  BY <1>1, <1>7, ClusterKept, Parts

\* The key of the backup is recorded before its Job is created.
LEMMA SnapshotKeyStep ==
    ASSUME AutoUpdateInv, RecordSnapshotKey PROVE AutoUpdateInv'
<1>1. pc = "runOneShot" /\ UNCHANGED <<cache, goal>> /\ UNCHANGED cluster
  BY DEF RecordSnapshotKey
<1>2. TypeOK /\ Sane(inst) /\ inst.st.lastFailed = base.st.lastFailed
  BY <1>1, AsRead DEF AutoUpdateInv
<1>3. CASE inst.st.key
  <2>1. pc' = "createJob" /\ UNCHANGED <<api, base, inst, faults>>
    BY <1>3 DEF RecordSnapshotKey, Goto, NoFault, Unwritten
  <2>2. QED
    BY <1>1, <2>1, StartKept, ClusterKept, Parts
<1>4. CASE ~inst.st.key
  <2> DEFINE s == [inst.st EXCEPT !.key = TRUE]
  <2>1. SaveStatus(s, "createJob")
    BY <1>4 DEF RecordSnapshotKey
  <2>2. /\ s \in Status
        /\ s.target = inst.st.target
        /\ s.lastFailed = inst.st.lastFailed
        /\ s.deadline = inst.st.deadline
    BY <1>2, StatusTypes
  <2> HIDE DEF s
  <2>3. /\ s.target # 0 => s.target # s.lastFailed
        /\ s.target # 0 <=> s.deadline # "none"
    BY <1>2, <2>2 DEF Sane
  <2>4. "createJob" \in Steps
    BY DEF Steps
  <2>5. OperatorTypes' /\ Copies' /\ pc' # "patchSts"
    BY <1>1, <1>2, <2>1, <2>2, <2>3, <2>4, SaveKeeps
  <2>6. QED
    BY <1>1, <2>5, ClusterKept, Parts
<1>5. QED
  BY <1>3, <1>4

\* The rollout is recorded.
LEMMA RecordRolloutStep ==
    ASSUME AutoUpdateInv, RecordRollout PROVE AutoUpdateInv'
<1>1. /\ pc = "recordRollout" /\ UNCHANGED <<cache, goal>> /\ probes' = 0
      /\ UNCHANGED <<backedUp, sts, stsCache, pod, job, newest, edits, ran>>
      /\ SaveStatus(Rollout, "updateStatus")
  BY DEF RecordRollout
<1>2. TypeOK /\ ClusterTypes /\ BackupKnown /\ StartKnown
  BY Parts DEF AutoUpdateInv
<1>3. /\ Rollout \in Status /\ Rollout.target = goal
      /\ Rollout.lastFailed = inst.st.lastFailed
      /\ Rollout.deadline = "open"
  BY <1>2, StatusTypes
<1>4. /\ Rollout.target # 0 => Rollout.target # Rollout.lastFailed
      /\ Rollout.target # 0 <=> Rollout.deadline # "none"
      /\ inst.st.lastFailed = base.st.lastFailed
  BY <1>1, <1>2, <1>3 DEF StartKnown
<1>5. "updateStatus" \in Steps
  BY DEF Steps
<1>6. OperatorTypes' /\ Copies' /\ pc' # "patchSts"
  BY <1>1, <1>3, <1>4, <1>5, SaveKeeps
<1>7. probes' \in 0..Threshold
  BY <1>1, ConstantsAssumption
<1>8. ClusterTypes' /\ BackupKnown'
  BY <1>1, <1>2, <1>6, <1>7 DEF ClusterTypes, BackupKnown, BackupBeforeRollout
<1>9. QED
  BY <1>6, <1>8, Parts

\* A rollout in flight is confirmed or waited for.
LEMMA DriveSteps ==
    ASSUME AutoUpdateInv, ConfirmRollout \/ WaitForRollout
    PROVE  AutoUpdateInv'
<1>1. pc = "autoUpdate" /\ UNCHANGED <<cache, goal>> /\ UNCHANGED cluster
  BY DEF ConfirmRollout, WaitForRollout, InFlight
<1>2. /\ TypeOK /\ Sane(inst) /\ inst.st \in Status
      /\ inst.st.lastFailed = base.st.lastFailed
  BY <1>1, AsRead, StatusTypes DEF AutoUpdateInv
<1>3. PICK s \in Status, next \in {"updateStatus", "clearAnnotation"} :
        /\ SaveStatus(s, next)
        /\ s.lastFailed = inst.st.lastFailed
        /\ s.target # 0 => s.target # s.lastFailed
        /\ s.target # 0 <=> s.deadline # "none"
  <2>1. CASE ConfirmRollout
    BY <1>2, <2>1, StatusTypes DEF ConfirmRollout
  <2>2. CASE WaitForRollout
    BY <1>2, <2>2 DEF WaitForRollout, Sane
  <2>3. QED
    BY <2>1, <2>2
<1>4. next \in Steps
  BY DEF Steps
<1>5. OperatorTypes' /\ Copies' /\ pc' # "patchSts"
  BY <1>1, <1>2, <1>3, <1>4, SaveKeeps
<1>6. QED
  BY <1>1, <1>5, ClusterKept, Parts

\* The only write of lastFailedTag: the rollout that failed was read from the
\* cache, so that no copy without a rollout is left behind with the old one.
LEMMA RecordRollbackStep ==
    ASSUME AutoUpdateInv, RecordRollback PROVE AutoUpdateInv'
<1>1. /\ pc = "recordRollback" /\ UNCHANGED <<cache, goal>> /\ UNCHANGED cluster
      /\ SaveStatus(Rollback, "clearAnnotation")
  BY DEF RecordRollback
<1>2. TypeOK /\ Copies
  BY Parts DEF AutoUpdateInv
<1>3. /\ Rollback \in Status /\ Rollback.target = 0
      /\ Rollback.deadline = "none"
  BY <1>2, StatusTypes
<1>4. /\ OperatorTypes'
      /\ inst'.st = Rollback
      /\ \/ base = api /\ api'.st = Rollback /\ base'.st = Rollback
            /\ pc' = "clearAnnotation"
         \/ api' = api /\ base' = base /\ pc' = "updateStatus"
  BY <1>1, <1>2, <1>3, SaveFacts DEF Steps
<1>5. base.st.target # 0 /\ RolloutRead
  BY <1>1, <1>2 DEF Copies, EndKnown
<1>6. Sane(api)' /\ Sane(cache)' /\ Sane(base)' /\ Sane(inst)'
  BY <1>1, <1>2, <1>3, <1>4 DEF Sane, Copies
<1>7. CacheKnown'
  BY <1>1, <1>2, <1>4, <1>5 DEF CacheKnown, RolloutRead, Copies
<1>8. UndecidedKnown' /\ StartKnown'
  BY <1>4 DEF UndecidedKnown, StartKnown
<1>9. EndKnown'
  BY <1>1, <1>4, <1>5 DEF EndKnown, RolloutRead
<1>10. QED
  BY <1>1, <1>4, <1>6, <1>7, <1>8, <1>9, ClusterKept, Parts DEF Copies

-----------------------------------------------------------------------------
(***************************************************************************)
(* The steps of the others.                                                *)
(***************************************************************************)

\* Nothing the cluster does touches a copy of the object.
LEMMA OperatorKept ==
    ASSUME AutoUpdateInv, UNCHANGED operator PROVE OperatorTypes' /\ Copies'
<1>1. UNCHANGED <<api, cache, base, inst, goal, pc, faults>>
  BY DEF operator
<1>2. OperatorTypes'
  BY <1>1, Parts DEF OperatorTypes
<1>3. Copies'
  BY <1>1, Parts
  DEF Copies, Sane, CacheKnown, UndecidedKnown, StartKnown, EndKnown, RolloutRead
<1>4. QED
  BY <1>2, <1>3

\* The StatefulSet controller, the kubelet, the watch of the StatefulSet and
\* the registry.
LEMMA PodSteps ==
    ASSUME AutoUpdateInv,
           \/ ReplacePod \/ PodBecomesReady \/ ProbeFails
           \/ StatefulSetStatus \/ SyncStatefulSet \/ RegistryChanges
    PROVE  AutoUpdateInv'
<1>1. UNCHANGED operator /\ UNCHANGED <<job, backedUp>>
  BY DEF ReplacePod, PodBecomesReady, ProbeFails, StatefulSetStatus,
         SyncStatefulSet, RegistryChanges
<1>2. OperatorTypes' /\ Copies'
  BY <1>1, OperatorKept
<1>3. BackupKnown'
  BY <1>1, Parts DEF BackupKnown, BackupBeforeRollout, operator
<1>4. ClusterTypes'
  <2>1. ClusterTypes
    BY Parts
  <2>2. CASE ReplacePod
    BY <2>1, <2>2 DEF ReplacePod, ClusterTypes, StatefulSet
  <2>3. CASE PodBecomesReady
    BY <2>1, <2>3 DEF PodBecomesReady, ClusterTypes
  <2>4. CASE ProbeFails
    <3>1. probes' \in 0..Threshold
      BY <2>1, <2>4, ConstantsAssumption DEF ProbeFails, ClusterTypes
    <3>2. QED
      BY <2>1, <2>4, <3>1 DEF ProbeFails, ClusterTypes
  <2>5. CASE StatefulSetStatus
    <3>1. sts' \in StatefulSet
      BY <2>1, <2>5 DEF StatefulSetStatus, ClusterTypes, StatefulSet
    <3>2. QED
      BY <2>1, <2>5, <3>1 DEF StatefulSetStatus, ClusterTypes
  <2>6. CASE SyncStatefulSet
    BY <2>1, <2>6 DEF SyncStatefulSet, ClusterTypes
  <2>7. CASE RegistryChanges
    <3>1. edits' \in 0..MaxEdits
      BY <2>7, EditType DEF RegistryChanges, AutoUpdateInv
    <3>2. QED
      BY <2>1, <2>7, <3>1 DEF RegistryChanges, ClusterTypes
  <2>8. QED
    BY <2>2, <2>3, <2>4, <2>5, <2>6, <2>7
<1>5. QED
  BY <1>2, <1>3, <1>4, Parts

\* The Job controller: a complete Job is a backup, and stays one when the Job
\* has expired.
LEMMA JobSteps ==
    ASSUME AutoUpdateInv, JobFinishes \/ JobExpires PROVE AutoUpdateInv'
<1>1. UNCHANGED operator
  BY DEF JobFinishes, JobExpires
<1>2. OperatorTypes' /\ Copies'
  BY <1>1, OperatorKept
<1>3. ClusterTypes'
  BY Parts DEF JobFinishes, JobExpires, ClusterTypes
<1>4. BackupKnown'
  BY <1>1, Parts
  DEF JobFinishes, JobExpires, BackupKnown, BackupBeforeRollout, operator
<1>5. QED
  BY <1>2, <1>3, <1>4, Parts

\* The watch of the instance, and the users: no status changes but the
\* cache's, which becomes that of the server.
LEMMA ObjectSteps ==
    ASSUME AutoUpdateInv, SyncInstance \/ UserEdits PROVE AutoUpdateInv'
<1>1. Copies /\ OperatorTypes /\ ClusterTypes /\ BackupKnown
  BY Parts
<1>2. UNCHANGED <<base, inst, goal, pc, faults, job, backedUp>>
  BY DEF SyncInstance, UserEdits, cluster
<1>3. api' \in Object /\ api'.st = api.st
  BY <1>1 DEF SyncInstance, UserEdits, OperatorTypes, Object
<1>4. cache' \in Object /\ cache'.st \in {cache.st, api.st}
  BY <1>1 DEF SyncInstance, UserEdits, OperatorTypes
<1>5. OperatorTypes'
  BY <1>1, <1>2, <1>3, <1>4 DEF OperatorTypes
<1>6. Sane(api)' /\ Sane(cache)' /\ Sane(base)' /\ Sane(inst)' /\ CacheKnown'
  BY <1>1, <1>2, <1>3, <1>4 DEF Sane, CacheKnown, Copies
<1>7. UndecidedKnown' /\ StartKnown' /\ EndKnown'
  BY <1>1, <1>2, <1>3, <1>4
  DEF UndecidedKnown, StartKnown, EndKnown, RolloutRead, Copies
<1>8. ClusterTypes'
  <2>1. edits' \in 0..MaxEdits
    BY <1>1, EditType
    DEF SyncInstance, UserEdits, cluster, AutoUpdateInv, ClusterTypes
  <2>2. QED
    BY <1>1, <2>1 DEF SyncInstance, UserEdits, cluster, ClusterTypes
<1>9. BackupKnown'
  BY <1>1, <1>2 DEF BackupKnown, BackupBeforeRollout
<1>10. QED
  BY <1>5, <1>6, <1>7, <1>8, <1>9, Parts DEF Copies

\* The clock grows old in all copies alike.
LEMMA ClockSteps ==
    ASSUME AutoUpdateInv, PollIntervalElapses \/ RolloutWindowElapses
    PROVE  AutoUpdateInv'
<1>1. Copies /\ OperatorTypes /\ ClusterTypes /\ BackupKnown
  BY Parts
<1>2. UNCHANGED <<goal, pc, faults>> /\ UNCHANGED cluster
  BY DEF PollIntervalElapses, RolloutWindowElapses
<1>3. /\ api' \in Object /\ cache' \in Object /\ base' \in Object /\ inst' \in Object
      /\ inst'.backup = inst.backup
      /\ api'.st.target = api.st.target
      /\ cache'.st.target = cache.st.target
      /\ base'.st.target = base.st.target
      /\ inst'.st.target = inst.st.target
      /\ api'.st.lastFailed = api.st.lastFailed
      /\ cache'.st.lastFailed = cache.st.lastFailed
      /\ base'.st.lastFailed = base.st.lastFailed
      /\ inst'.st.lastFailed = inst.st.lastFailed
      /\ api'.st.deadline = "none" <=> api.st.deadline = "none"
      /\ cache'.st.deadline = "none" <=> cache.st.deadline = "none"
      /\ base'.st.deadline = "none" <=> base.st.deadline = "none"
      /\ inst'.st.deadline = "none" <=> inst.st.deadline = "none"
      /\ inst.st = base.st => inst'.st = base'.st
  <2>1. CASE PollIntervalElapses
    <3>1. /\ api' = Aged(api) /\ cache' = Aged(cache)
          /\ base' = Aged(base) /\ inst' = Aged(inst)
          /\ api \in Object /\ cache \in Object
          /\ base \in Object /\ inst \in Object
      BY <1>1, <2>1 DEF PollIntervalElapses, OperatorTypes
    <3>2. inst.st = base.st => inst'.st = base'.st
      <4> DEFINE later(s) == [s EXCEPT !.lastCheck =
                                IF @ = "recent" THEN "due" ELSE @]
      <4>1. inst'.st = later(inst.st) /\ base'.st = later(base.st)
        BY <3>1, AgedFields
      <4> HIDE DEF later
      <4>2. QED
        BY <4>1
    <3>3. QED
      BY <3>1, <3>2, AgedFields, Zenon
  <2>2. CASE RolloutWindowElapses
    <3>1. /\ api' = Expired(api) /\ cache' = Expired(cache)
          /\ base' = Expired(base) /\ inst' = Expired(inst)
          /\ api \in Object /\ cache \in Object
          /\ base \in Object /\ inst \in Object
      BY <1>1, <2>2 DEF RolloutWindowElapses, OperatorTypes
    <3>2. inst.st = base.st => inst'.st = base'.st
      <4> DEFINE later(s) == [s EXCEPT !.deadline =
                                IF @ = "open" THEN "passed" ELSE @]
      <4>1. inst'.st = later(inst.st) /\ base'.st = later(base.st)
        BY <3>1, ExpiredFields
      <4> HIDE DEF later
      <4>2. QED
        BY <4>1
    <3>3. QED
      BY <3>1, <3>2, ExpiredFields, Zenon
  <2>3. QED
    BY <2>1, <2>2
<1>4. OperatorTypes'
  BY <1>1, <1>2, <1>3 DEF OperatorTypes
<1>5. Sane(api)' /\ Sane(cache)' /\ Sane(base)' /\ Sane(inst)' /\ CacheKnown'
  BY <1>1, <1>3 DEF Sane, CacheKnown, Copies
<1>6. UndecidedKnown' /\ StartKnown' /\ EndKnown'
  BY <1>1, <1>2, <1>3
  DEF UndecidedKnown, StartKnown, EndKnown, RolloutRead, Copies
<1>7. ClusterTypes' /\ BackupKnown'
  BY <1>1, <1>2, <1>3
  DEF cluster, ClusterTypes, BackupKnown, BackupBeforeRollout
<1>8. QED
  BY <1>4, <1>5, <1>6, <1>7, Parts DEF Copies

-----------------------------------------------------------------------------
(***************************************************************************)
(* The theorems.                                                           *)
(***************************************************************************)

\* Every step preserves the invariant.
LEMMA InvNext == AutoUpdateInv /\ [Next]_vars => AutoUpdateInv'
<1> SUFFICES ASSUME AutoUpdateInv, [Next]_vars PROVE AutoUpdateInv'
  OBVIOUS
<1>1. CASE ReconcileStep
  BY <1>1, BeginStep, StatefulSetStep, FailureSteps, GiveUpSteps, PollSteps,
     InvalidChannelStep, StartStep, SnapshotKeyStep, BackupDoneStep,
     PatchRolloutStep, AnnotationSteps, RecordRolloutStep, DriveSteps,
     RollBackStep, RecordRollbackStep, UpdateStatusStep
  DEF ReconcileStep
<1>2. CASE Crash
  BY <1>2, FailureSteps
<1>3. CASE \/ ReplacePod \/ PodBecomesReady \/ ProbeFails
           \/ StatefulSetStatus \/ SyncStatefulSet \/ RegistryChanges
  BY <1>3, PodSteps
<1>4. CASE JobFinishes \/ JobExpires
  BY <1>4, JobSteps
<1>5. CASE SyncInstance \/ UserEdits
  BY <1>5, ObjectSteps
<1>6. CASE PollIntervalElapses \/ RolloutWindowElapses
  BY <1>6, ClockSteps
<1>7. CASE UNCHANGED vars
  <2>1. UNCHANGED operator /\ UNCHANGED cluster
    BY <1>7 DEF vars, operator, cluster
  <2>2. OperatorTypes' /\ Copies'
    BY <2>1, OperatorKept
  <2>3. ClusterTypes' /\ BackupKnown'
    BY <2>1, Parts
    DEF operator, cluster, ClusterTypes, BackupKnown, BackupBeforeRollout
  <2>4. QED
    BY <2>2, <2>3, Parts
<1>8. QED
  BY <1>1, <1>2, <1>3, <1>4, <1>5, <1>6, <1>7 DEF Next

\* The inductive invariant holds in every reachable state.
THEOREM AutoUpdateInvHolds == Spec => []AutoUpdateInv
BY InvInit, InvNext, PTL DEF Spec

\* Every variable keeps its type: no step writes a tag that is none, also not
\* the image of the StatefulSet in rollback.
THEOREM AutoUpdateTypeCorrect == Spec => []TypeOK
<1>1. AutoUpdateInv => TypeOK
  BY DEF AutoUpdateInv
<1>2. QED
  BY <1>1, AutoUpdateInvHolds, PTL

\* No rollout of the tag that lastFailedTag holds is ever in flight, whichever
\* copy of the status the poll decided on, whatever fails and however late
\* the status is written.
THEOREM FailedTagsStayOff == Spec => []FailedTagNotRetried
<1>1. AutoUpdateInv => FailedTagNotRetried
  BY DEF AutoUpdateInv, Sane, FailedTagNotRetried
<1>2. QED
  BY <1>1, AutoUpdateInvHolds, PTL

\* With backupBeforeUpdate, startRollout reaches the patch of the image only
\* after a pre-update backup has completed.
THEOREM NoRolloutWithoutBackup == Spec => []BackupBeforeRollout
<1>1. AutoUpdateInv => BackupBeforeRollout
  BY DEF AutoUpdateInv, BackupKnown
<1>2. QED
  BY <1>1, AutoUpdateInvHolds, PTL

\* The status shows a deadline exactly while it shows a rollout, so that
\* driveRollout can end each one.
THEOREM EveryRolloutHasDeadline == Spec => []RolloutHasDeadline
<1>1. AutoUpdateInv => RolloutHasDeadline
  BY DEF AutoUpdateInv, Sane, RolloutHasDeadline
<1>2. QED
  BY <1>1, AutoUpdateInvHolds, PTL

=============================================================================
