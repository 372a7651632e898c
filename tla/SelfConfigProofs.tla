-------------------------- MODULE SelfConfigProofs --------------------------
(***************************************************************************)
(* Proofs about SelfConfig, for any set of requests with any contents, any *)
(* policy to begin with, and any number of edits and faults.               *)
(***************************************************************************)
EXTENDS SelfConfig, TLAPS

-----------------------------------------------------------------------------
(***************************************************************************)
(* Facts about the operators.                                              *)
(***************************************************************************)

\* The two records that stand for nothing are of their types.
LEMMA NothingTypes == NoRequest \in Request /\ NoParent \in Policy
<1>1. 0 \in 0..(MaxEdits + 1)
  BY SelfConfigAssumption
<1>2. QED
  BY <1>1 DEF NoRequest, Request, NoParent, Policy

\* A fault stays within its bound.
LEMMA FaultType == ASSUME TypeOK, Fault PROVE faults' \in 0..MaxFaults
BY SelfConfigAssumption DEF TypeOK, Fault

\* An edit stays within its bound.
LEMMA EditType ==
    ASSUME TypeOK, Edit
    PROVE  edits' \in 0..MaxEdits /\ edits' = edits + 1 /\ edits + 1 <= MaxEdits
BY SelfConfigAssumption DEF TypeOK, Edit

\* What a policy says of one category.
Allows(v, f) == v.enabled /\ f \in v.allowed /\ (f = "config" => ~v.protects)

\* A request that passes the gates of Reconcile passes them with every
\* category it asks for.
LEMMA PermittedAllows ==
    ASSUME NEW s, NEW v, Permitted(s, v), NEW f \in s.want
    PROVE  Allows(v, f)
<1>1. f \in v.allowed
  BY DEF Permitted, CheckAllowedActions
<1>2. QED
  BY <1>1 DEF Permitted, Allows

\* The gate holds on when what is newly written is allowed.
LEMMA GateKept ==
    ASSUME GateHonoured,
           \A v \in versions : v \in versions',
           \A f \in Fields : fields'[f] \in Requests =>
             fields[f] \in Requests \/ \E v \in versions : Allows(v, f),
           jobs' # {} => \/ jobs # {}
                         \/ \E v \in versions : Allows(v, "profiles") /\ v.honcho
    PROVE  GateHonoured'
<1>1. ASSUME NEW f \in Fields, fields'[f] \in Requests
      PROVE  \E v \in versions' : /\ v.enabled /\ f \in v.allowed
                                  /\ f = "config" => ~v.protects
  <2>1. \E v \in versions : Allows(v, f)
    BY <1>1 DEF GateHonoured, Allows
  <2>2. QED
    BY <2>1 DEF Allows
<1>2. ASSUME jobs' # {}
      PROVE  \E v \in versions' : v.enabled /\ "profiles" \in v.allowed /\ v.honcho
  <2>1. \E v \in versions : v.enabled /\ "profiles" \in v.allowed /\ v.honcho
    BY <1>2 DEF GateHonoured, Allows
  <2>2. QED
    BY <2>1
<1>3. QED
  BY <1>1, <1>2 DEF GateHonoured

\* What Server-Side Apply does to the fields and, when there is no parent any
\* more, to the policy.
LEMMA ApplyFacts ==
    ASSUME TypeOK, who \in Requests, NEW possible, NEW wanted,
           Apply(possible, wanted)
    PROVE  /\ fields' \in [Fields -> {"none", "other"} \cup Requests]
           /\ parent' \in Policy
           /\ versions' = versions \cup {parent'}
           /\ \A f \in Fields : fields'[f] \in Requests =>
                \/ f \in wanted /\ fields'[f] = who
                   /\ (fields[f] = "other" => sc.force)
                \/ fields[f] \in Requests /\ fields'[f] = fields[f]
<1>1. fields' = [f \in Fields |->
                   IF f \in wanted THEN who
                   ELSE IF f \in possible /\ fields[f] \in Requests THEN "none"
                   ELSE fields[f]]
      /\ versions' = versions \cup {parent'}
  BY DEF Apply
<1>2. fields' \in [Fields -> {"none", "other"} \cup Requests]
  BY <1>1 DEF TypeOK
<1>3. parent' \in Policy
  <2>1. [NoParent EXCEPT !.exists = TRUE] \in Policy
    BY NothingTypes DEF Policy
  <2>2. parent' \in {[NoParent EXCEPT !.exists = TRUE], parent}
    BY DEF Apply
  <2>3. QED
    BY <2>1, <2>2 DEF TypeOK
<1>4. ASSUME NEW f \in Fields, f \in wanted, fields[f] = "other"
      PROVE  sc.force
  BY <1>4 DEF Apply, Conflict, Forced
<1>5. "none" \notin Requests
  BY SelfConfigAssumption
<1>6. ASSUME NEW f \in Fields, fields'[f] \in Requests
      PROVE  \/ f \in wanted /\ fields'[f] = who
                /\ (fields[f] = "other" => sc.force)
             \/ fields[f] \in Requests /\ fields'[f] = fields[f]
  BY <1>1, <1>4, <1>5, <1>6
<1>7. QED
  BY <1>1, <1>2, <1>3, <1>6

-----------------------------------------------------------------------------
\* At the start nothing has been asked for.
LEMMA InvInit == Init => SelfConfigInv
<1> SUFFICES ASSUME Init
             PROVE  SelfConfigInv
  OBVIOUS
<1>1. parent \in Policy /\ parentCache = parent /\ versions = {parent}
  BY DEF Init, Policy
<1>2. NoRequest \in Request /\ NoParent \in Policy
  BY NothingTypes
<1>3. \A r \in Requests : scs[r] = NoRequest /\ scCache[r] = NoRequest
  BY DEF Init
<1>4. fields \in [Fields -> {"none", "other"}]
  BY DEF Init
<1>5. TypeOK
  <2>1. 0 \in 0..MaxEdits /\ 0 \in 0..MaxFaults
    BY SelfConfigAssumption
  <2>2. scs \in [Requests -> Request] /\ scCache \in [Requests -> Request]
    BY <1>2 DEF Init
  <2>3. fields \in [Fields -> {"none", "other"} \cup Requests]
    BY <1>4
  <2>4. /\ {parent, parentCache, policy} \subseteq Policy
        /\ sc \in Request /\ versions \subseteq Policy
    BY <1>1, <1>2 DEF Init
  <2>5. /\ jobs = {} /\ pc \in Steps /\ who = "nobody" /\ applied = {}
        /\ edits = 0 /\ faults = 0
    BY DEF Init, Steps
  <2>6. QED
    BY <2>1, <2>2, <2>3, <2>4, <2>5 DEF TypeOK
<1>6. GateHonoured
  <2>1. \A f \in Fields : fields[f] \notin Requests
    BY <1>4, SelfConfigAssumption
  <2>2. QED
    BY <2>1 DEF Init, GateHonoured
<1>7. StatusMatchesSpec
  BY <1>3 DEF StatusMatchesSpec, NoRequest
<1>8. \A r \in Requests : RequestKnown(r)
  <2>1. edits = 0
    BY DEF Init
  <2>2. NoRequest.gen = 0 /\ NoRequest.observed = 0 /\ ~NoRequest.force
    BY DEF NoRequest
  <2>3. ASSUME NEW r \in Requests
        PROVE  RequestKnown(r)
    <3>1. scs[r] = NoRequest /\ scCache[r] = NoRequest
      BY <1>3
    <3>2. scs[r].gen = 0 /\ scs[r].observed = 0 /\ ~scCache[r].force
      BY <2>2, <3>1
    <3>3. scs[r].gen <= edits + 1 /\ scs[r].observed <= scs[r].gen
      BY <2>1, <3>2
    <3>4. QED
      BY <3>1, <3>2, <3>3, Zenon DEF RequestKnown
  <2>4. QED
    BY <2>3
<1>9. AppliedSoFar /\ ReconcileKnown
  BY DEF Init, AppliedSoFar, ReconcileKnown
<1>10. QED
  BY <1>1, <1>5, <1>6, <1>7, <1>8, <1>9 DEF SelfConfigInv

-----------------------------------------------------------------------------
(***************************************************************************)
(* What a step that does not concern a part leaves as it is.               *)
(***************************************************************************)

\* Without a write to the requests.
LEMMA RequestsKept ==
    ASSUME SelfConfigInv, UNCHANGED <<scs, scCache>>,
           edits' = edits \/ Edit
    PROVE  /\ StatusMatchesSpec'
           /\ \A r \in Requests : RequestKnown(r)'
<1>1. edits \in Nat /\ edits' \in Nat /\ edits <= edits'
  BY EditType DEF SelfConfigInv, TypeOK
<1>2. StatusMatchesSpec'
  BY DEF SelfConfigInv, StatusMatchesSpec, Terminal
<1>3. ASSUME NEW r \in Requests
      PROVE  RequestKnown(r)'
  <2>1. scs[r].gen \in Nat
    BY DEF SelfConfigInv, TypeOK, Request
  <2>2. scs[r].gen <= edits' + 1
    BY <1>1, <2>1 DEF SelfConfigInv, RequestKnown
  <2>3. QED
    BY <2>2 DEF SelfConfigInv, RequestKnown
<1>4. QED
  BY <1>2, <1>3

\* Without a step of the running reconcile.
LEMMA LocalKept ==
    ASSUME SelfConfigInv, UNCHANGED <<pc, who, sc, policy, applied>>,
           \A v \in versions : v \in versions',
           \A r \in Requests : scs[r].force => scs'[r].force
    PROVE  AppliedSoFar' /\ ReconcileKnown'
<1>1. AppliedSoFar'
  BY DEF SelfConfigInv, AppliedSoFar
<1>2. Permitted(sc, policy) => Permitted(sc, policy)'
  BY DEF Permitted, CheckAllowedActions
<1>3. Terminal(sc)' <=> Terminal(sc)
  BY DEF Terminal
<1>4. ReconcileKnown'
  BY <1>2, <1>3 DEF SelfConfigInv, ReconcileKnown
<1>5. QED
  BY <1>1, <1>4

\* When the reconcile has returned there is nothing to know of it.
LEMMA ReturnFacts ==
    ASSUME Return
    PROVE  /\ pc' = "idle" /\ who' = "nobody" /\ sc' \in Request
           /\ policy' \in Policy /\ applied' = {}
           /\ AppliedSoFar' /\ ReconcileKnown'
<1>1. pc' = "idle" /\ who' = "nobody" /\ sc' \in Request /\ policy' \in Policy
      /\ applied' = {}
  BY NothingTypes DEF Return
<1>2. QED
  BY <1>1 DEF AppliedSoFar, ReconcileKnown

-----------------------------------------------------------------------------
(***************************************************************************)
(* The steps of a reconcile.                                               *)
(***************************************************************************)

\* It begins on a cached copy that is not decided.
LEMMA BeginStep ==
    ASSUME SelfConfigInv, NEW r \in Requests, BeginReconcile(r)
    PROVE  SelfConfigInv'
<1>1. /\ pc' = "policy" /\ who' = r /\ sc' = scCache[r] /\ applied' = {}
      /\ ~Terminal(scCache[r]) /\ scCache[r].gen # 0
      /\ UNCHANGED <<parent, parentCache, scs, scCache, fields, jobs, policy,
                     edits, faults, versions>>
  BY DEF BeginReconcile, Goto, caches
<1>2. TypeOK'
  BY <1>1 DEF SelfConfigInv, TypeOK, Steps
<1>3. GateHonoured' /\ ({parent, parentCache} \subseteq versions)'
  BY <1>1 DEF SelfConfigInv, GateHonoured
<1>4. StatusMatchesSpec' /\ \A q \in Requests : RequestKnown(q)'
  BY <1>1, RequestsKept
<1>5. AppliedSoFar'
  BY <1>1 DEF AppliedSoFar
<1>6. ReconcileKnown'
  <2>1. scCache[r].force => scs[r].force
    BY DEF SelfConfigInv, RequestKnown
  <2>2. ~Terminal(sc)'
    BY <1>1 DEF Terminal
  <2>3. QED
    BY <1>1, <2>1, <2>2 DEF ReconcileKnown
<1>7. QED
  BY <1>2, <1>3, <1>4, <1>5, <1>6 DEF SelfConfigInv

\* The gates are passed with the cached policy, which the parent has had.
LEMMA CheckPolicyStep ==
    ASSUME SelfConfigInv, CheckPolicy
    PROVE  SelfConfigInv'
<1>1. /\ pc = "policy" /\ policy' = parentCache
      /\ pc' = IF Permitted(sc, parentCache) THEN "skills" ELSE "deny"
      /\ UNCHANGED <<parent, parentCache, scs, scCache, fields, jobs, who, sc,
                     applied, edits, faults, versions>>
  BY DEF CheckPolicy, Goto, caches
<1>2. TypeOK'
  BY <1>1 DEF SelfConfigInv, TypeOK, Steps
<1>3. GateHonoured' /\ ({parent, parentCache} \subseteq versions)'
  BY <1>1 DEF SelfConfigInv, GateHonoured
<1>4. StatusMatchesSpec' /\ \A q \in Requests : RequestKnown(q)'
  BY <1>1, RequestsKept
<1>5. AppliedSoFar'
  BY <1>1 DEF SelfConfigInv, AppliedSoFar
<1>6. ReconcileKnown'
  <2>1. pc' = "deny" \/ (pc' = "skills" /\ Permitted(sc, parentCache))
    BY <1>1
  <2>2. Permitted(sc, parentCache) => Permitted(sc, policy)'
    BY <1>1 DEF Permitted, CheckAllowedActions
  <2>3. Terminal(sc)' <=> Terminal(sc)
    BY <1>1 DEF Terminal
  <2>4. who \in Requests /\ sc.gen # 0 /\ ~Terminal(sc)
        /\ (sc.force => scs[who].force)
    BY <1>1 DEF SelfConfigInv, ReconcileKnown
  <2>5. QED
    BY <1>1, <2>1, <2>2, <2>3, <2>4 DEF SelfConfigInv, ReconcileKnown
<1>7. QED
  BY <1>2, <1>3, <1>4, <1>5, <1>6 DEF SelfConfigInv

\* What a part of applyAll does to the fields, whether it applies or not.
Written ==
    /\ fields' \in [Fields -> {"none", "other"} \cup Requests]
    /\ parent' \in Policy
    /\ versions' = versions \cup {parent'}
    /\ \A f \in Fields : fields'[f] \in Requests =>
         \/ f \in sc.want /\ fields'[f] = who /\ (fields[f] = "other" => sc.force)
         \/ fields[f] \in Requests /\ fields'[f] = fields[f]

\* Every part writes as much: what the request asks for, or nothing.
LEMMA PartWrites ==
    ASSUME SelfConfigInv, who \in Requests, NEW possible, NEW wanted,
           \A f \in wanted : f \in sc.want,
           Apply(possible, wanted) \/ Unapplied
    PROVE  Written
<1>1. TypeOK /\ parent \in versions
  BY DEF SelfConfigInv
<1>2. CASE Apply(possible, wanted)
  <2>1. /\ fields' \in [Fields -> {"none", "other"} \cup Requests]
        /\ parent' \in Policy
        /\ versions' = versions \cup {parent'}
        /\ \A f \in Fields : fields'[f] \in Requests =>
             \/ f \in wanted /\ fields'[f] = who
                /\ (fields[f] = "other" => sc.force)
             \/ fields[f] \in Requests /\ fields'[f] = fields[f]
    BY <1>1, <1>2, ApplyFacts
  <2>2. QED
    BY <2>1 DEF Written
<1>3. CASE Unapplied
  <2>1. UNCHANGED <<fields, parent, versions>>
    BY <1>3 DEF Unapplied
  <2>2. versions' = versions \cup {parent'}
    BY <1>1, <2>1
  <2>3. QED
    BY <1>1, <2>1, <2>2 DEF Written, TypeOK
<1>4. QED
  BY <1>2, <1>3

Applying == {"skills", "envVars", "configMap", "profiles"}

\* A part of applyAll goes on to the next, or to deny.
LEMMA ApplyingStep ==
    ASSUME SelfConfigInv, pc \in Applying, Written,
           pc' \in {"envVars", "configMap", "profiles", "markApplied", "deny"},
           UNCHANGED <<parentCache, scCache, scs, who, sc, policy, edits>>,
           faults' \in 0..MaxFaults,
           applied' \subseteq Actions,
           jobs' = jobs \/ (jobs' = jobs \cup {who} /\ "profiles" \in sc.want
                            /\ policy.honcho),
           AppliedSoFar'
    PROVE  SelfConfigInv'
<1>1. /\ who \in Requests /\ sc.gen # 0 /\ ~Terminal(sc)
      /\ sc.force => scs[who].force
      /\ policy \in versions /\ Permitted(sc, policy)
  BY DEF SelfConfigInv, ReconcileKnown, Applying, Steps
<1>2. TypeOK'
  <2>1. versions' \subseteq Policy
    BY DEF Written, SelfConfigInv, TypeOK
  <2>2. jobs' \subseteq Requests
    BY <1>1 DEF SelfConfigInv, TypeOK
  <2>3. pc' \in Steps
    BY DEF Steps
  <2>4. QED
    BY <2>1, <2>2, <2>3 DEF SelfConfigInv, TypeOK, Written
<1>3. \A v \in versions : v \in versions'
  BY DEF Written
<1>4. GateHonoured'
  <2>1. \A f \in sc.want : Allows(policy, f)
    BY <1>1, PermittedAllows
  <2>2. \A f \in Fields : fields'[f] \in Requests =>
          fields[f] \in Requests \/ \E v \in versions : Allows(v, f)
    BY <1>1, <2>1 DEF Written
  <2>3. jobs' # {} => \/ jobs # {}
                      \/ \E v \in versions : Allows(v, "profiles") /\ v.honcho
    BY <1>1, <2>1
  <2>4. GateHonoured
    BY DEF SelfConfigInv
  <2>5. QED
    BY <1>3, <2>2, <2>3, <2>4, GateKept
<1>5. ({parent, parentCache} \subseteq versions)'
  BY DEF Written, SelfConfigInv
<1>6. StatusMatchesSpec' /\ \A q \in Requests : RequestKnown(q)'
  BY RequestsKept
<1>7. ReconcileKnown'
  <2>1. Permitted(sc, policy)'
    BY <1>1 DEF Permitted, CheckAllowedActions
  <2>2. ~Terminal(sc)'
    BY <1>1 DEF Terminal
  <2>3. QED
    BY <1>1, <1>3, <2>1, <2>2 DEF ReconcileKnown
<1>8. QED
  BY <1>2, <1>4, <1>5, <1>6, <1>7 DEF SelfConfigInv

\* The parts of applyAll are of that kind.
ApplyAll ==
    \/ ApplyInstance("skills", "envVars")
    \/ ApplyInstance("envVars", "configMap")
    \/ ApplyConfigMap \/ SnapshotProfile \/ ApplyFails

\* They write no field the request does not ask for, and take none from
\* another manager without the annotation.
LEMMA ApplyAllWrites ==
    ASSUME SelfConfigInv, ApplyAll
    PROVE  Written /\ pc \in Applying
<1>1. pc \in Applying
  BY DEF ApplyAll, ApplyInstance, ApplyConfigMap, SnapshotProfile, ApplyFails,
     Refused, Applying, InstanceFields
<1>2. who \in Requests
  BY <1>1 DEF SelfConfigInv, ReconcileKnown, Applying
<1>3. CASE SnapshotProfile \/ ApplyFails
  <2>1. Unapplied
    BY <1>3 DEF SnapshotProfile, ApplyFails
  <2>2. \A f \in {} : f \in sc.want
    OBVIOUS
  <2>3. QED
    BY <1>1, <1>2, <2>1, <2>2, PartWrites
<1>4. ASSUME NEW action, NEW next, ApplyInstance(action, next)
      PROVE  Written
  <2>1. \/ action \in sc.want /\ Apply(InstanceFields, {action})
        \/ Unapplied
    BY <1>4 DEF ApplyInstance
  <2>2. CASE action \in sc.want /\ Apply(InstanceFields, {action})
    <3>1. \A f \in {action} : f \in sc.want
      BY <2>2
    <3>2. QED
      BY <1>2, <2>2, <3>1, PartWrites
  <2>3. CASE Unapplied
    <3>1. \A f \in {} : f \in sc.want
      OBVIOUS
    <3>2. QED
      BY <1>2, <2>3, <3>1, PartWrites
  <2>4. QED
    BY <2>1, <2>2, <2>3
<1>5. CASE ApplyConfigMap
  <2>1. Apply(ConfigMapFields, ConfigMapPatch) \/ Unapplied
    BY <1>5 DEF ApplyConfigMap
  <2>2. \A f \in ConfigMapPatch : f \in sc.want
    BY DEF ConfigMapPatch
  <2>3. QED
    BY <1>1, <1>2, <2>1, <2>2, PartWrites
<1>6. QED
  BY <1>1, <1>3, <1>4, <1>5 DEF ApplyAll

\* Each adds to the list what it has applied.
LEMMA ApplyAllStep ==
    ASSUME SelfConfigInv, ApplyAll
    PROVE  SelfConfigInv'
<1>1. Written /\ pc \in Applying
  BY ApplyAllWrites
<1>2. sc.want \subseteq Actions /\ applied \subseteq Actions /\ AppliedSoFar
      /\ faults \in 0..MaxFaults /\ TypeOK
  BY DEF SelfConfigInv, TypeOK, Request
<1>3. CASE ApplyFails
  <2>1. /\ pc' = "deny"
        /\ UNCHANGED <<parentCache, scCache, scs, jobs, who, sc, policy, applied,
                       edits>>
    BY <1>3 DEF ApplyFails, Goto, caches, local
  <2>2. faults' \in 0..MaxFaults
    BY <1>2, <1>3, FaultType DEF ApplyFails
  <2>3. AppliedSoFar'
    BY <2>1 DEF AppliedSoFar
  <2>4. QED
    BY <1>1, <1>2, <2>1, <2>2, <2>3, ApplyingStep
<1>4. CASE ApplyInstance("skills", "envVars")
  <2>1. /\ pc = "skills" /\ pc' = "envVars"
        /\ applied' = applied \cup ({"skills"} \cap sc.want)
        /\ UNCHANGED <<parentCache, scCache, scs, jobs, who, sc, policy, edits,
                       faults>>
    BY <1>4 DEF ApplyInstance, Goto, caches, local
  <2>2. applied = {}
    BY <1>2, <2>1 DEF AppliedSoFar
  <2>3. AppliedSoFar' /\ applied' \subseteq Actions
    BY <1>2, <2>1, <2>2 DEF AppliedSoFar, Actions
  <2>4. QED
    BY <1>1, <1>2, <2>1, <2>3, ApplyingStep
<1>5. CASE ApplyInstance("envVars", "configMap")
  <2>1. /\ pc = "envVars" /\ pc' = "configMap"
        /\ applied' = applied \cup ({"envVars"} \cap sc.want)
        /\ UNCHANGED <<parentCache, scCache, scs, jobs, who, sc, policy, edits,
                       faults>>
    BY <1>5 DEF ApplyInstance, Goto, caches, local
  <2>2. applied = {"skills"} \cap sc.want
    BY <1>2, <2>1 DEF AppliedSoFar
  <2>3. applied' = InstanceFields \cap sc.want /\ applied' \subseteq Actions
    BY <1>2, <2>1, <2>2 DEF InstanceFields, Actions
  <2>4. AppliedSoFar'
    BY <2>1, <2>3 DEF AppliedSoFar
  <2>5. QED
    BY <1>1, <1>2, <2>1, <2>3, <2>4, ApplyingStep
<1>6. CASE ApplyConfigMap
  <2>1. /\ pc = "configMap" /\ pc' = "profiles"
        /\ applied' = applied \cup (ConfigMapFields \cap sc.want)
        /\ UNCHANGED <<parentCache, scCache, scs, jobs, who, sc, policy, edits,
                       faults>>
    BY <1>6 DEF ApplyConfigMap, Goto, caches, local
  <2>2. applied = InstanceFields \cap sc.want
    BY <1>2, <2>1 DEF AppliedSoFar
  <2>3. applied' = Fields \cap sc.want /\ applied' \subseteq Actions
    BY <1>2, <2>1, <2>2 DEF Fields
  <2>4. AppliedSoFar'
    BY <2>1, <2>3 DEF AppliedSoFar
  <2>5. QED
    BY <1>1, <1>2, <2>1, <2>3, <2>4, ApplyingStep
<1>7. CASE SnapshotProfile
  <2>1. /\ pc = "profiles" /\ pc' = "markApplied"
        /\ applied' = applied \cup ({"profiles"} \cap sc.want)
        /\ UNCHANGED <<parentCache, scCache, scs, who, sc, policy, edits, faults>>
    BY <1>7 DEF SnapshotProfile, Goto, caches, local
  <2>2. applied = Fields \cap sc.want
    BY <1>2, <2>1 DEF AppliedSoFar
  <2>3. applied' = sc.want /\ applied' \subseteq Actions
    BY <1>2, <2>1, <2>2 DEF Fields, InstanceFields, ConfigMapFields, Actions
  <2>4. AppliedSoFar'
    BY <2>1, <2>3 DEF AppliedSoFar
  <2>5. jobs' = jobs \/ (jobs' = jobs \cup {who} /\ "profiles" \in sc.want
                         /\ policy.honcho)
    <3>1. /\ "profiles" \in sc.want => policy.honcho
          /\ jobs' = jobs \cup {r \in {who} : "profiles" \in sc.want}
      BY <1>7 DEF SnapshotProfile
    <3>2. CASE "profiles" \in sc.want
      <4>1. {r \in {who} : "profiles" \in sc.want} = {who}
        BY <3>2
      <4>2. QED
        BY <3>1, <3>2, <4>1
    <3>3. CASE "profiles" \notin sc.want
      <4>1. {r \in {who} : "profiles" \in sc.want} = {}
        BY <3>3
      <4>2. QED
        BY <3>1, <4>1
    <3>4. QED
      BY <3>2, <3>3
  <2>6. QED
    BY <1>1, <1>2, <2>1, <2>3, <2>4, <2>5, ApplyingStep
<1>8. QED
  BY <1>3, <1>4, <1>5, <1>6, <1>7 DEF ApplyAll

-----------------------------------------------------------------------------
(***************************************************************************)
(* The end of a reconcile.                                                 *)
(***************************************************************************)

\* A status write changes the request it was computed for and no other, and
\* only from the version it was computed from.
LEMMA StatusWrite ==
    ASSUME SelfConfigInv, Deny \/ MarkApplied
    PROVE  /\ who \in Requests
           /\ scs[who] = sc
           /\ ~Terminal(sc)
           /\ scs' \in [Requests -> Request]
           /\ \A r \in Requests : r # who => scs'[r] = scs[r]
           /\ scs'[who].gen = sc.gen
           /\ scs'[who].observed = sc.gen
           /\ scs'[who].want = sc.want
           /\ scs'[who].force = sc.force
           /\ \/ scs'[who].phase = "Denied"
              \/ scs'[who].phase = "Applied" /\ scs'[who].applied = sc.want
<1>1. pc \in {"deny", "markApplied"} /\ scs[who] = sc
  BY DEF Deny, MarkApplied, StatusCurrent
<1>2. who \in Requests /\ ~Terminal(sc) /\ scs \in [Requests -> Request]
      /\ sc \in Request /\ applied \subseteq Actions
  BY <1>1 DEF SelfConfigInv, ReconcileKnown, TypeOK
<1> DEFINE d == [sc EXCEPT !.phase = "Denied", !.observed = sc.gen]
           m == [sc EXCEPT !.phase = "Applied", !.observed = sc.gen,
                           !.applied = applied]
<1>3. /\ d \in Request /\ d.gen = sc.gen /\ d.observed = sc.gen
      /\ d.want = sc.want /\ d.force = sc.force /\ d.phase = "Denied"
  BY <1>2 DEF Request
<1>4. /\ m \in Request /\ m.gen = sc.gen /\ m.observed = sc.gen
      /\ m.want = sc.want /\ m.force = sc.force /\ m.phase = "Applied"
      /\ m.applied = applied
  BY <1>2 DEF Request
<1>5. CASE Deny
  <2>1. scs' = [scs EXCEPT ![who] = d]
    BY <1>1, <1>2, <1>5 DEF Deny
  <2> HIDE DEF d
  <2>2. QED
    BY <1>1, <1>2, <1>3, <2>1
<1>6. CASE MarkApplied
  <2>1. scs' = [scs EXCEPT ![who] = m] /\ pc = "markApplied"
    BY <1>1, <1>2, <1>6 DEF MarkApplied
  <2>2. applied = sc.want
    BY <2>1 DEF SelfConfigInv, AppliedSoFar
  <2> HIDE DEF m
  <2>3. QED
    BY <1>1, <1>2, <1>4, <2>1, <2>2
<1>7. QED
  BY <1>5, <1>6

\* So a decision is about the generation it names.
LEMMA StatusStep ==
    ASSUME SelfConfigInv, Deny \/ MarkApplied
    PROVE  SelfConfigInv'
<1>1. /\ Return
      /\ UNCHANGED <<parent, parentCache, scCache, fields, jobs, edits, faults,
                     versions>>
  BY DEF Deny, MarkApplied, Unapplied, caches
<1>2. /\ pc' = "idle" /\ who' = "nobody" /\ sc' \in Request
      /\ policy' \in Policy /\ applied' = {}
      /\ AppliedSoFar' /\ ReconcileKnown'
  BY <1>1, ReturnFacts
<1>3. TypeOK'
  BY <1>1, <1>2, StatusWrite DEF SelfConfigInv, TypeOK, Steps
<1>4. GateHonoured' /\ ({parent, parentCache} \subseteq versions)'
  BY <1>1 DEF SelfConfigInv, GateHonoured
<1>5. StatusMatchesSpec'
  <2>1. ASSUME NEW r \in Requests, Terminal(scs'[r]), scs'[r].phase = "Applied"
        PROVE  scs'[r].applied = scs'[r].want
    <3>1. CASE r = who
      BY <2>1, <3>1, StatusWrite
    <3>2. CASE r # who
      <4>1. scs'[r] = scs[r]
        BY <3>2, StatusWrite
      <4>2. QED
        BY <2>1, <4>1 DEF SelfConfigInv, StatusMatchesSpec
    <3>3. QED
      BY <3>1, <3>2
  <2>2. QED
    BY <2>1 DEF StatusMatchesSpec, Terminal
<1>6. ASSUME NEW r \in Requests
      PROVE  RequestKnown(r)'
  <2>1. RequestKnown(r) /\ UNCHANGED <<edits, scCache>>
    BY <1>1 DEF SelfConfigInv
  <2>2. CASE r # who
    <3>1. scs'[r] = scs[r]
      BY <2>2, StatusWrite
    <3>2. QED
      BY <2>1, <3>1 DEF RequestKnown
  <2>3. CASE r = who
    <3>1. scs[r] = sc /\ scs'[r].gen = sc.gen /\ scs'[r].observed = sc.gen
          /\ scs'[r].force = sc.force /\ sc.gen \in Nat
      BY <2>3, StatusWrite DEF SelfConfigInv, TypeOK, Request
    <3>2. sc.gen # 0
      BY DEF Deny, MarkApplied, SelfConfigInv, ReconcileKnown
    <3>3. scs'[r].gen <= edits + 1 /\ scs'[r].observed <= scs'[r].gen
      BY <2>1, <3>1 DEF RequestKnown
    <3>4. QED
      BY <2>1, <3>1, <3>2, <3>3 DEF RequestKnown
  <2>4. QED
    BY <2>2, <2>3
<1>7. QED
  BY <1>2, <1>3, <1>4, <1>5, <1>6 DEF SelfConfigInv

\* A refused status write and a crash lose the reconcile and nothing else.
LEMMA LostStep ==
    ASSUME SelfConfigInv, StatusRefused \/ Crash
    PROVE  SelfConfigInv'
<1>1. /\ Return
      /\ UNCHANGED <<parent, parentCache, scs, scCache, fields, jobs, edits,
                     versions>>
  BY DEF StatusRefused, Crash, Unapplied, caches
<1>2. faults' \in 0..MaxFaults
  BY FaultType DEF StatusRefused, Crash, SelfConfigInv, TypeOK
<1>3. /\ pc' = "idle" /\ who' = "nobody" /\ sc' \in Request
      /\ policy' \in Policy /\ applied' = {}
      /\ AppliedSoFar' /\ ReconcileKnown'
  BY <1>1, ReturnFacts
<1>4. TypeOK'
  BY <1>1, <1>2, <1>3 DEF SelfConfigInv, TypeOK, Steps
<1>5. GateHonoured' /\ ({parent, parentCache} \subseteq versions)'
  BY <1>1 DEF SelfConfigInv, GateHonoured
<1>6. StatusMatchesSpec' /\ \A q \in Requests : RequestKnown(q)'
  BY <1>1, RequestsKept
<1>7. QED
  BY <1>3, <1>4, <1>5, <1>6 DEF SelfConfigInv

-----------------------------------------------------------------------------
(***************************************************************************)
(* The watches, the instance reconciler, the agent and the users.          *)
(***************************************************************************)

\* A cache becomes the current version.
LEMMA SyncStep ==
    ASSUME SelfConfigInv, SyncParent \/ \E r \in Requests : SyncRequest(r)
    PROVE  SelfConfigInv'
<1>1. UNCHANGED <<parent, scs, fields, jobs, pc, who, sc, policy, applied, edits,
                  faults, versions>>
  BY DEF SyncParent, SyncRequest, local
<1>2. parentCache' \in {parent, parentCache}
  BY DEF SyncParent, SyncRequest
<1>3. \A r \in Requests : scCache'[r] \in {scCache[r], scs[r]}
  BY DEF SyncParent, SyncRequest, SelfConfigInv, TypeOK
<1>4. TypeOK'
  <2>1. scCache' \in [Requests -> Request]
    BY DEF SyncParent, SyncRequest, SelfConfigInv, TypeOK
  <2>2. QED
    BY <1>1, <1>2, <2>1 DEF SelfConfigInv, TypeOK
<1>5. GateHonoured' /\ ({parent, parentCache} \subseteq versions)'
  BY <1>1, <1>2 DEF SelfConfigInv, GateHonoured
<1>6. StatusMatchesSpec'
  BY <1>1 DEF SelfConfigInv, StatusMatchesSpec, Terminal
<1>7. ASSUME NEW r \in Requests
      PROVE  RequestKnown(r)'
  <2>1. scCache'[r].force => scs[r].force
    BY <1>3 DEF SelfConfigInv, RequestKnown
  <2>2. QED
    BY <1>1, <2>1 DEF SelfConfigInv, RequestKnown
<1>8. AppliedSoFar' /\ ReconcileKnown'
  BY <1>1, LocalKept
<1>9. QED
  BY <1>4, <1>5, <1>6, <1>7, <1>8 DEF SelfConfigInv

\* Others write the policy and the fields, but never a request's value.
OtherStep ==
    ReconcileWorkspaceConfigMap \/ EditPolicy \/ DeleteParent
    \/ \E f \in InstanceFields : OtherWrites(f)

\* What that leaves as it is.
LEMMA OthersWrite ==
    ASSUME SelfConfigInv, OtherStep
    PROVE  /\ fields' \in [Fields -> {"none", "other"} \cup Requests]
           /\ \A f \in Fields : fields'[f] \in Requests => fields'[f] = fields[f]
           /\ UNCHANGED <<parentCache, scs, scCache, jobs, pc, who, sc, policy,
                          applied, faults>>
           /\ parent' \in Policy
           /\ versions' = versions \cup {parent'}
           /\ edits' = edits \/ Edit
<1>1. /\ TypeOK /\ parent \in versions /\ parent \in Policy
      /\ fields \in [Fields -> {"none", "other"} \cup Requests]
  BY DEF SelfConfigInv, TypeOK
<1>2. "none" \notin Requests /\ "other" \notin Requests
  BY SelfConfigAssumption
<1>3. CASE ReconcileWorkspaceConfigMap
  <2>1. /\ UNCHANGED <<parent, parentCache, scs, scCache, jobs, pc, who, sc, policy,
                       applied, edits, faults, versions>>
        /\ \E x \in {"none", "other"} :
             fields' = [fields EXCEPT !["config"] = "none",
                                      !["workspaceFiles"] = x]
    BY <1>3 DEF ReconcileWorkspaceConfigMap, caches, local
  <2>2. /\ fields' \in [Fields -> {"none", "other"} \cup Requests]
        /\ \A f \in Fields : fields'[f] \in Requests => fields'[f] = fields[f]
    BY <1>1, <1>2, <2>1
  <2>3. versions' = versions \cup {parent'}
    BY <1>1, <2>1
  <2>4. QED
    BY <1>1, <2>1, <2>2, <2>3
<1>4. CASE \E f \in InstanceFields : OtherWrites(f)
  <2>1. PICK g \in InstanceFields : OtherWrites(g)
    BY <1>4
  <2>2. /\ UNCHANGED <<parent, parentCache, scs, scCache, jobs, pc, who, sc, policy,
                       applied, faults, versions>>
        /\ fields' = [fields EXCEPT ![g] = "other"]
        /\ Edit
    BY <2>1 DEF OtherWrites, caches, local
  <2>3. /\ fields' \in [Fields -> {"none", "other"} \cup Requests]
        /\ \A f \in Fields : fields'[f] \in Requests => fields'[f] = fields[f]
    BY <1>1, <1>2, <2>2
  <2>4. versions' = versions \cup {parent'}
    BY <1>1, <2>2
  <2>5. QED
    BY <1>1, <2>2, <2>3, <2>4
<1>5. ASSUME NEW p \in Policy, WritePolicy(p)
      PROVE  /\ UNCHANGED <<parentCache, scs, scCache, jobs, pc, who, sc, policy,
                            applied, faults>>
             /\ parent' \in Policy
             /\ versions' = versions \cup {parent'}
             /\ Edit
  BY <1>5 DEF WritePolicy, caches, local
<1>6. CASE EditPolicy
  <2>1. UNCHANGED fields
    BY <1>6 DEF EditPolicy
  <2>2. /\ [parent EXCEPT !.enabled = ~@] \in Policy
        /\ [parent EXCEPT !.protects = ~@] \in Policy
        /\ [parent EXCEPT !.honcho = ~@] \in Policy
        /\ \A a \in Actions : [parent EXCEPT !.allowed = @ \ {a}] \in Policy
    BY <1>1 DEF Policy
  <2>3. \E p \in Policy : WritePolicy(p)
    BY <1>6, <2>2 DEF EditPolicy
  <2>4. QED
    BY <1>1, <1>5, <2>1, <2>3
<1>7. CASE DeleteParent
  <2>1. WritePolicy(NoParent) /\ fields' = [f \in Fields |-> "none"]
    BY <1>7 DEF DeleteParent
  <2>2. /\ fields' \in [Fields -> {"none", "other"} \cup Requests]
        /\ \A f \in Fields : fields'[f] \in Requests => fields'[f] = fields[f]
    BY <1>2, <2>1
  <2>3. QED
    BY <1>5, <2>1, <2>2, NothingTypes
<1>8. QED
  BY <1>3, <1>4, <1>6, <1>7 DEF OtherStep

\* So they keep the invariant.
LEMMA OtherInvStep ==
    ASSUME SelfConfigInv, OtherStep
    PROVE  SelfConfigInv'
<1>1. /\ fields' \in [Fields -> {"none", "other"} \cup Requests]
      /\ \A f \in Fields : fields'[f] \in Requests => fields'[f] = fields[f]
      /\ UNCHANGED <<parentCache, scs, scCache, jobs, pc, who, sc, policy,
                     applied, faults>>
      /\ parent' \in Policy
      /\ versions' = versions \cup {parent'}
      /\ edits' = edits \/ Edit
  BY OthersWrite
<1>2. edits' \in 0..MaxEdits
  BY <1>1, EditType DEF SelfConfigInv, TypeOK
<1>3. TypeOK'
  BY <1>1, <1>2 DEF SelfConfigInv, TypeOK
<1>4. \A v \in versions : v \in versions'
  BY <1>1
<1>5. GateHonoured'
  BY <1>1, <1>4, GateKept DEF SelfConfigInv
<1>6. ({parent, parentCache} \subseteq versions)'
  BY <1>1 DEF SelfConfigInv
<1>7. StatusMatchesSpec' /\ \A q \in Requests : RequestKnown(q)'
  BY <1>1, RequestsKept
<1>8. AppliedSoFar' /\ ReconcileKnown'
  BY <1>1, <1>4, LocalKept
<1>9. QED
  BY <1>3, <1>5, <1>6, <1>7, <1>8 DEF SelfConfigInv

\* A write of the agent or a user to a request: a new generation, or the
\* annotation on the same one.
RequestWritten(r) ==
    \/ AnnotateForce(r)
    \/ \E want \in Contents : CreateRequest(r, want) \/ EditRequest(r, want)

\* Either the status still fits the generation, or the generation is new and
\* not observed.
LEMMA RequestWrite ==
    ASSUME SelfConfigInv, NEW r \in Requests, RequestWritten(r)
    PROVE  /\ UNCHANGED <<parent, parentCache, scCache, fields, jobs, pc, who, sc,
                          policy, applied, faults, versions>>
           /\ edits' \in 0..MaxEdits
           /\ edits <= edits'
           /\ scs' \in [Requests -> Request]
           /\ \A q \in Requests : q # r => scs'[q] = scs[q]
           /\ scs'[r].gen # 0
           /\ scs'[r].gen <= edits' + 1
           /\ scs'[r].observed <= scs'[r].gen
           /\ scs[r].force => scs'[r].force
           /\ \/ /\ scs'[r].gen = scs[r].gen
                 /\ scs'[r].phase = scs[r].phase
                 /\ scs'[r].observed = scs[r].observed
                 /\ scs'[r].want = scs[r].want
                 /\ scs'[r].applied = scs[r].applied
              \/ scs'[r].gen # scs[r].gen /\ scs'[r].observed # scs'[r].gen
<1>1. /\ TypeOK /\ scs \in [Requests -> Request] /\ scs[r] \in Request
      /\ RequestKnown(r) /\ edits \in 0..MaxEdits
  BY DEF SelfConfigInv, TypeOK
<1>2. UNCHANGED <<parent, parentCache, scCache, fields, jobs, pc, who, sc, policy,
                  applied, faults, versions>>
  BY DEF RequestWritten, AnnotateForce, CreateRequest, EditRequest, WriteRequest,
     caches, local
<1>3. /\ scs[r].gen \in 0..(MaxEdits + 1) /\ scs[r].observed \in 0..(MaxEdits + 1)
      /\ scs[r].gen \in Nat /\ scs[r].observed \in Nat
      /\ scs[r].gen <= edits + 1 /\ scs[r].observed <= scs[r].gen
      /\ (scs[r].gen = 0 => scs[r] = NoRequest)
      /\ MaxEdits \in Nat
  BY <1>1, SelfConfigAssumption DEF RequestKnown, Request
<1>4. CASE AnnotateForce(r)
  <2> DEFINE o == [scs[r] EXCEPT !.force = TRUE]
  <2>1. scs' = [scs EXCEPT ![r] = o] /\ Edit /\ scs[r].gen # 0
    BY <1>4 DEF AnnotateForce, WriteRequest
  <2>2. /\ o \in Request /\ o.gen = scs[r].gen /\ o.phase = scs[r].phase
        /\ o.observed = scs[r].observed /\ o.want = scs[r].want
        /\ o.applied = scs[r].applied /\ o.force = TRUE
    BY <1>1 DEF Request
  <2> HIDE DEF o
  <2>3. edits' \in 0..MaxEdits /\ edits' = edits + 1
    BY <1>1, <2>1, EditType
  <2>4. edits <= edits' /\ scs[r].gen <= edits' + 1
    BY <1>1, <1>3, <2>3
  <2>5. scs' \in [Requests -> Request] /\ scs'[r] = o
        /\ \A q \in Requests : q # r => scs'[q] = scs[q]
    BY <1>1, <2>1, <2>2
  <2>6. QED
    BY <1>2, <1>3, <2>1, <2>2, <2>3, <2>4, <2>5
<1>5. ASSUME NEW want \in Contents, CreateRequest(r, want)
      PROVE  /\ UNCHANGED edits
             /\ scs' \in [Requests -> Request]
             /\ \A q \in Requests : q # r => scs'[q] = scs[q]
             /\ scs'[r].gen = 1 /\ scs'[r].observed = 0
             /\ scs[r].gen = 0 /\ ~scs[r].force
  <2> DEFINE o == [NoRequest EXCEPT !.gen = 1, !.want = want,
                                    !.force = (r \in Forcing)]
  <2>1. scs' = [scs EXCEPT ![r] = o] /\ UNCHANGED edits /\ scs[r].gen = 0
    BY <1>5 DEF CreateRequest, WriteRequest
  <2>2. 1 \in 0..(MaxEdits + 1) /\ want \subseteq Actions
    BY <1>3, SelfConfigAssumption
  <2>3. o \in Request /\ o.gen = 1 /\ o.observed = 0
    <3>1. NoRequest \in Request /\ NoRequest.observed = 0
      BY NothingTypes DEF NoRequest
    <3>2. (r \in Forcing) \in BOOLEAN
      OBVIOUS
    <3>3. \A b \in BOOLEAN :
            LET x == [NoRequest EXCEPT !.gen = 1, !.want = want, !.force = b]
            IN  x \in Request /\ x.gen = 1 /\ x.observed = 0
      BY <2>2, <3>1 DEF Request
    <3>4. QED
      BY <3>2, <3>3
  <2>4. ~scs[r].force
    BY <1>3, <2>1 DEF NoRequest
  <2> HIDE DEF o
  <2>5. scs' \in [Requests -> Request] /\ scs'[r] = o
        /\ \A q \in Requests : q # r => scs'[q] = scs[q]
    BY <1>1, <2>1, <2>3
  <2>6. QED
    BY <2>1, <2>3, <2>4, <2>5
<1>6. ASSUME NEW want \in Contents, EditRequest(r, want)
      PROVE  /\ Edit
             /\ scs' \in [Requests -> Request]
             /\ \A q \in Requests : q # r => scs'[q] = scs[q]
             /\ scs'[r].gen = scs[r].gen + 1
             /\ scs'[r].observed = scs[r].observed
             /\ scs'[r].force = scs[r].force
  <2> DEFINE o == [scs[r] EXCEPT !.want = want, !.gen = @ + 1]
  <2>1. scs' = [scs EXCEPT ![r] = o] /\ Edit
    BY <1>6 DEF EditRequest, WriteRequest
  <2>2. scs[r].gen + 1 \in 0..(MaxEdits + 1)
    BY <1>1, <1>3, <2>1, EditType
  <2>3. want \subseteq Actions
    BY SelfConfigAssumption
  <2>4. /\ o \in Request /\ o.gen = scs[r].gen + 1
        /\ o.observed = scs[r].observed /\ o.force = scs[r].force
    BY <1>1, <2>2, <2>3 DEF Request
  <2> HIDE DEF o
  <2>5. scs' \in [Requests -> Request] /\ scs'[r] = o
        /\ \A q \in Requests : q # r => scs'[q] = scs[q]
    BY <1>1, <2>1, <2>4
  <2>6. QED
    BY <2>1, <2>4, <2>5
<1>7. CASE \E want \in Contents : CreateRequest(r, want)
  <2>1. /\ UNCHANGED edits
        /\ scs' \in [Requests -> Request]
        /\ \A q \in Requests : q # r => scs'[q] = scs[q]
        /\ scs'[r].gen = 1 /\ scs'[r].observed = 0
        /\ scs[r].gen = 0 /\ ~scs[r].force
    BY <1>5, <1>7
  <2>2. edits' \in 0..MaxEdits /\ edits <= edits' /\ 1 <= edits' + 1 /\ 0 <= 1
        /\ 0 # 1
    BY <1>1, <1>3, <2>1
  <2>3. QED
    BY <1>2, <2>1, <2>2
<1>8. CASE \E want \in Contents : EditRequest(r, want)
  <2>1. /\ Edit
        /\ scs' \in [Requests -> Request]
        /\ \A q \in Requests : q # r => scs'[q] = scs[q]
        /\ scs'[r].gen = scs[r].gen + 1
        /\ scs'[r].observed = scs[r].observed
        /\ scs'[r].force = scs[r].force
    BY <1>6, <1>8
  <2>2. edits' \in 0..MaxEdits /\ edits' = edits + 1
    BY <1>1, <2>1, EditType
  <2>3. /\ edits <= edits'
        /\ scs'[r].gen # 0 /\ scs'[r].gen <= edits' + 1
        /\ scs'[r].observed <= scs'[r].gen
        /\ scs'[r].gen # scs[r].gen /\ scs'[r].observed # scs'[r].gen
    BY <1>1, <1>3, <2>1, <2>2
  <2>4. QED
    BY <1>2, <2>1, <2>2, <2>3
<1>9. QED
  BY <1>4, <1>7, <1>8 DEF RequestWritten

\* So such a write keeps the invariant.
LEMMA RequestStep ==
    ASSUME SelfConfigInv, NEW r \in Requests, RequestWritten(r)
    PROVE  SelfConfigInv'
<1>1. UNCHANGED <<parent, parentCache, scCache, fields, jobs, pc, who, sc, policy,
                  applied, faults, versions>>
  BY RequestWrite
<1>2. TypeOK'
  BY <1>1, RequestWrite DEF SelfConfigInv, TypeOK
<1>3. GateHonoured' /\ ({parent, parentCache} \subseteq versions)'
  BY <1>1 DEF SelfConfigInv, GateHonoured
<1>4. StatusMatchesSpec'
  <2>1. ASSUME NEW q \in Requests, Terminal(scs'[q]), scs'[q].phase = "Applied"
        PROVE  scs'[q].applied = scs'[q].want
    <3>1. CASE q # r
      <4>1. scs'[q] = scs[q]
        BY <3>1, RequestWrite
      <4>2. QED
        BY <2>1, <4>1 DEF SelfConfigInv, StatusMatchesSpec
    <3>2. CASE q = r
      <4>1. /\ scs'[r].gen = scs[r].gen
            /\ scs'[r].phase = scs[r].phase
            /\ scs'[r].observed = scs[r].observed
            /\ scs'[r].want = scs[r].want
            /\ scs'[r].applied = scs[r].applied
        BY <2>1, <3>2, RequestWrite DEF Terminal
      <4>2. Terminal(scs[r]) /\ scs[r].phase = "Applied"
        BY <2>1, <3>2, <4>1 DEF Terminal
      <4>3. QED
        BY <3>2, <4>1, <4>2 DEF SelfConfigInv, StatusMatchesSpec
    <3>3. QED
      BY <3>1, <3>2
  <2>2. QED
    BY <2>1 DEF StatusMatchesSpec, Terminal
<1>5. \A q \in Requests : scs[q].force => scs'[q].force
  BY RequestWrite
<1>6. ASSUME NEW q \in Requests
      PROVE  RequestKnown(q)'
  <2>1. RequestKnown(q) /\ scCache' = scCache
    BY <1>1 DEF SelfConfigInv
  <2>2. scCache'[q].force => scs'[q].force
    BY <1>5, <2>1 DEF RequestKnown
  <2>3. CASE q = r
    BY <2>2, <2>3, RequestWrite DEF RequestKnown
  <2>4. CASE q # r
    <3>1. scs'[q] = scs[q] /\ edits <= edits' /\ edits' \in 0..MaxEdits
      BY <2>4, RequestWrite
    <3>2. scs[q].gen \in Nat /\ edits \in Nat
      BY DEF SelfConfigInv, TypeOK, Request
    <3>3. scs'[q].gen <= edits' + 1
      BY <2>1, <3>1, <3>2 DEF RequestKnown
    <3>4. QED
      BY <2>1, <2>2, <3>1, <3>3 DEF RequestKnown
  <2>5. QED
    BY <2>3, <2>4
<1>7. AppliedSoFar' /\ ReconcileKnown'
  BY <1>1, <1>5, LocalKept
<1>8. QED
  BY <1>2, <1>3, <1>4, <1>6, <1>7 DEF SelfConfigInv

-----------------------------------------------------------------------------
(***************************************************************************)
(* The inductive invariant and what follows from it.                       *)
(***************************************************************************)

\* The steps by who takes them.
LEMMA NextCases ==
    ASSUME Next
    PROVE  \/ \E r \in Requests : BeginReconcile(r)
           \/ CheckPolicy
           \/ ApplyAll
           \/ Deny \/ MarkApplied
           \/ StatusRefused \/ Crash
           \/ SyncParent \/ \E r \in Requests : SyncRequest(r)
           \/ OtherStep
           \/ \E r \in Requests : RequestWritten(r)
BY DEF Next, ReconcileStep, ApplyAll, OtherStep, RequestWritten

\* No step disturbs the inductive invariant.
LEMMA InvStep == SelfConfigInv /\ [Next]_vars => SelfConfigInv'
<1> SUFFICES ASSUME SelfConfigInv, [Next]_vars
             PROVE  SelfConfigInv'
  OBVIOUS
<1>1. CASE UNCHANGED vars
  <2>1. UNCHANGED <<parent, parentCache, scs, scCache, fields, jobs, pc, who, sc,
                    policy, applied, edits, faults, versions>>
    BY <1>1 DEF vars
  <2>2. TypeOK' /\ GateHonoured' /\ ({parent, parentCache} \subseteq versions)'
    BY <2>1 DEF SelfConfigInv, TypeOK, GateHonoured
  <2>3. StatusMatchesSpec' /\ \A q \in Requests : RequestKnown(q)'
    BY <2>1, RequestsKept
  <2>4. AppliedSoFar' /\ ReconcileKnown'
    BY <2>1, LocalKept
  <2>5. QED
    BY <2>2, <2>3, <2>4 DEF SelfConfigInv
<1>2. CASE Next
  BY <1>2, NextCases, BeginStep, CheckPolicyStep, ApplyAllStep, StatusStep,
     LostStep, SyncStep, OtherInvStep, RequestStep
<1>3. QED
  BY <1>1, <1>2

\* The inductive invariant holds throughout.
THEOREM SelfConfigInvHolds == Spec => []SelfConfigInv
BY InvInit, InvStep, PTL DEF Spec

\* Every reachable state is well typed.
THEOREM SelfConfigTypeCorrect == Spec => []TypeOK
<1>1. SelfConfigInv => TypeOK
  BY DEF SelfConfigInv
<1>2. QED
  BY <1>1, SelfConfigInvHolds, PTL

\* Whatever a request has written to the instance, and whatever snapshot it
\* has started, a policy the parent once had allowed it: there is no way
\* around the gates of Reconcile, with any stale cache, retry or edit.
THEOREM NothingPassesTheGate == Spec => []GateHonoured
<1>1. SelfConfigInv => GateHonoured
  BY DEF SelfConfigInv
<1>2. QED
  BY <1>1, SelfConfigInvHolds, PTL

\* A request that is Applied at its generation lists what that generation asks
\* for.
THEOREM AppliedIsWhatWasAsked == Spec => []StatusMatchesSpec
<1>1. SelfConfigInv => StatusMatchesSpec
  BY DEF SelfConfigInv
<1>2. QED
  BY <1>1, SelfConfigInvHolds, PTL

\* No step gives a field of another manager to a request that does not carry
\* the force-ownership annotation in the API server at that moment, although
\* the reconcile decides by a copy of the request.
THEOREM OthersAreKept == Spec => OthersKept
<1>1. SelfConfigInv /\ [Next]_vars
        => [\A f \in Fields : fields[f] = "other" /\ fields'[f] \in Requests
              => scs[fields'[f]].force]_vars
  <2> SUFFICES ASSUME SelfConfigInv, [Next]_vars, ~UNCHANGED vars,
                      NEW f \in Fields, fields[f] = "other",
                      fields'[f] \in Requests
               PROVE  scs[fields'[f]].force
    OBVIOUS
  <2>1. "other" \notin Requests
    BY SelfConfigAssumption
  <2>2. fields' # fields
    BY <2>1
  <2>3. CASE ApplyAll
    <3>1. fields'[f] = who /\ sc.force
      BY <2>1, <2>3, ApplyAllWrites DEF Written
    <3>2. sc.force => scs[who].force
      BY <2>3, ApplyAllWrites DEF SelfConfigInv, ReconcileKnown, Applying
    <3>3. QED
      BY <3>1, <3>2
  <2>4. CASE OtherStep
    BY <2>1, <2>4, OthersWrite
  <2>5. CASE \E r \in Requests : RequestWritten(r)
    BY <2>2, <2>5, RequestWrite
  <2>6. CASE Deny \/ MarkApplied \/ StatusRefused \/ Crash \/ CheckPolicy
             \/ SyncParent \/ \E r \in Requests : BeginReconcile(r) \/ SyncRequest(r)
    BY <2>2, <2>6 DEF Deny, MarkApplied, StatusRefused, Crash, CheckPolicy,
       SyncParent, BeginReconcile, SyncRequest, Unapplied
  <2>7. QED
    BY <2>3, <2>4, <2>5, <2>6, NextCases
<1>2. QED
  BY <1>1, SelfConfigInvHolds, PTL DEF Spec, OthersKept

\* No step changes the decision on a generation: the status write of a
\* reconcile that began before the decision is refused.
THEOREM DecisionsAreFinal == Spec => DecisionFinal
<1>1. SelfConfigInv /\ [Next]_vars
        => [\A r \in Requests : Terminal(scs[r]) /\ scs'[r].gen = scs[r].gen
              => scs'[r].phase = scs[r].phase]_vars
  <2> SUFFICES ASSUME SelfConfigInv, [Next]_vars, ~UNCHANGED vars,
                      NEW r \in Requests, Terminal(scs[r]),
                      scs'[r].gen = scs[r].gen
               PROVE  scs'[r].phase = scs[r].phase
    OBVIOUS
  <2>1. CASE Deny \/ MarkApplied
    <3>1. r # who
      BY <2>1, StatusWrite
    <3>2. QED
      BY <2>1, <3>1, StatusWrite
  <2>2. CASE \E q \in Requests : RequestWritten(q)
    BY <2>2, RequestWrite
  <2>3. CASE OtherStep
    BY <2>3, OthersWrite
  <2>4. CASE ApplyAll \/ StatusRefused \/ Crash \/ CheckPolicy
             \/ SyncParent \/ \E q \in Requests : BeginReconcile(q) \/ SyncRequest(q)
    BY <2>4 DEF ApplyAll, ApplyInstance, ApplyConfigMap, SnapshotProfile,
       ApplyFails, StatusRefused, Crash, CheckPolicy, SyncParent,
       BeginReconcile, SyncRequest
  <2>5. QED
    BY <2>1, <2>2, <2>3, <2>4, NextCases
<1>2. QED
  BY <1>1, SelfConfigInvHolds, PTL DEF Spec, DecisionFinal

=============================================================================
