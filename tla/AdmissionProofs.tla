-------------------------- MODULE AdmissionProofs --------------------------
(***************************************************************************)
(* Proofs about Admission, for any manifests, any cluster defaults and any *)
(* number of edits.                                                        *)
(***************************************************************************)
EXTENDS Admission, TLAPS

-----------------------------------------------------------------------------
(***************************************************************************)
(* What defaulting does to a manifest, field by field.                     *)
(***************************************************************************)

\* The fields and numbers there are.
LEMMA FieldFacts ==
    /\ "tag" \in Fields /\ "digest" \in Fields /\ "repository" \in Fields
    /\ "size" \in Fields /\ "storageClassName" \in Fields
    /\ "minAvailable" \in Fields /\ "maxUnavailable" \in Fields
    /\ "caConfigMap" \in Fields /\ "caSecret" \in Fields /\ "caKey" \in Fields
    /\ "metricsPort" \in Numbers /\ "minReplicas" \in Numbers
    /\ "maxReplicas" \in Numbers
    /\ \A f \in Fields : ObjectOf[f] \in SpecObjects
    /\ \A n \in Numbers : NumberOf[n] \in SpecObjects
<1>1. /\ "tag" \in Fields /\ "digest" \in Fields /\ "repository" \in Fields
      /\ "size" \in Fields /\ "storageClassName" \in Fields
      /\ "minAvailable" \in Fields /\ "maxUnavailable" \in Fields
      /\ "caConfigMap" \in Fields /\ "caSecret" \in Fields /\ "caKey" \in Fields
  BY DEF Fields, ObjectOf
<1>2. /\ "metricsPort" \in Numbers /\ "minReplicas" \in Numbers
      /\ "maxReplicas" \in Numbers
  BY DEF Numbers, NumberOf
<1>3. /\ \A f \in Fields : ObjectOf[f] \in SpecObjects
      /\ \A n \in Numbers : NumberOf[n] \in SpecObjects
  BY DEF SpecObjects
<1>4. QED
  BY <1>1, <1>2, <1>3

\* The defaults of the schema.
LEMMA SchemaFacts ==
    /\ SchemaDefault \in [Fields -> Texts]
    /\ SchemaDefault["repository"] # "" /\ SchemaDefault["size"] # ""
    /\ SchemaDefault["tag"] = "" /\ SchemaDefault["digest"] = ""
    /\ SchemaDefault["storageClassName"] = ""
    /\ SchemaDefault["minAvailable"] = ""
    /\ SchemaDefault["maxUnavailable"] = ""
    /\ \A n \in Numbers : SchemaNumber[n] \in Nat /\ SchemaNumber[n] # 0
<1>1. "" \in Texts /\ \A f \in DOMAIN Markers : Markers[f] \in Texts
  BY AdmissionAssumption
<1>2. SchemaDefault \in [Fields -> Texts]
  BY <1>1 DEF SchemaDefault
<1>3. SchemaDefault["repository"] # "" /\ SchemaDefault["size"] # ""
  BY FieldFacts DEF SchemaDefault, Markers
<1>4. /\ SchemaDefault["tag"] = "" /\ SchemaDefault["digest"] = ""
      /\ SchemaDefault["storageClassName"] = ""
      /\ SchemaDefault["minAvailable"] = ""
      /\ SchemaDefault["maxUnavailable"] = ""
  BY FieldFacts DEF SchemaDefault, Markers
<1>5. \A n \in Numbers : SchemaNumber[n] \in Nat /\ SchemaNumber[n] # 0
  BY DEF SchemaNumber, Numbers, NumberOf
<1>6. QED
  BY <1>2, <1>3, <1>4, <1>5

\* Two instances that differ in fields with defaults alone.
Same(x, y) ==
    /\ x.exists = y.exists /\ x.given = y.given /\ x.on = y.on
    /\ x.refs = y.refs /\ x.sidecars = y.sidecars /\ x.volumes = y.volumes
    /\ x.actions = y.actions /\ x.restoreFrom = y.restoreFrom
    /\ x.source = y.source /\ x.restoredFrom = y.restoredFrom
    /\ x.migrated = y.migrated

\* Setting the fields of a manifest leaves the rest.
LEMMA WithFields ==
    ASSUME NEW m \in Manifests, NEW F \in [Fields -> Texts],
           NEW N \in [Numbers -> Nat]
    PROVE  LET y == [m EXCEPT !.field = F, !.num = N]
           IN  y \in Manifests /\ y.field = F /\ y.num = N /\ Same(y, m)
<1> DEFINE y == [m EXCEPT !.field = F, !.num = N]
<1>1. y \in Manifests
  BY DEF Manifests
<1>2. y.field = F /\ y.num = N
  BY DEF Manifests
<1>3. Same(y, m)
  BY DEF Manifests, Same
<1>4. QED
  BY <1>1, <1>2, <1>3

\* The parts of a manifest.
LEMMA ManifestParts ==
    ASSUME NEW m \in Manifests
    PROVE  /\ m.exists = TRUE
           /\ m.field \in [Fields -> Texts] /\ m.num \in [Numbers -> Nat]
           /\ \A f \in Fields : m.field[f] \in Texts
           /\ \A n \in Numbers : m.num[n] \in Nat
           /\ m # Absent
<1>1. /\ m.exists = TRUE
      /\ m.field \in [Fields -> Texts] /\ m.num \in [Numbers -> Nat]
  BY DEF Manifests
<1>2. Absent.exists = FALSE
  BY DEF Absent
<1>3. QED
  BY <1>1, <1>2

\* SchemaDefaulted fills the open fields of the objects that are given.
LEMMA SchemaDefaultedIs ==
    ASSUME NEW m \in Manifests, NEW given
    PROVE  LET y == SchemaDefaulted(m, given)
           IN  /\ y \in Manifests /\ Same(y, m)
               /\ \A f \in Fields : y.field[f] =
                    IF ObjectOf[f] \in given /\ m.field[f] = ""
                    THEN SchemaDefault[f] ELSE m.field[f]
               /\ \A n \in Numbers : y.num[n] =
                    IF NumberOf[n] \in given /\ m.num[n] = 0
                    THEN SchemaNumber[n] ELSE m.num[n]
<1> DEFINE F == [f \in Fields |-> IF ObjectOf[f] \in given
                                  THEN IfSet(m.field[f], SchemaDefault[f])
                                  ELSE m.field[f]]
           N == [n \in Numbers |-> IF NumberOf[n] \in given
                                   THEN Number(m.num[n], SchemaNumber[n])
                                   ELSE m.num[n]]
           y == [m EXCEPT !.field = F, !.num = N]
<1>1. F \in [Fields -> Texts] /\ N \in [Numbers -> Nat]
  <2>1. F \in [Fields -> Texts]
    BY ManifestParts, SchemaFacts DEF IfSet
  <2>2. N \in [Numbers -> Nat]
    BY ManifestParts, SchemaFacts DEF Number
  <2>3. QED
    BY <2>1, <2>2
<1>2. SchemaDefaulted(m, given) = y
  BY DEF SchemaDefaulted, Manifests
<1>3. /\ \A f \in Fields : F[f] = IF ObjectOf[f] \in given /\ m.field[f] = ""
                                  THEN SchemaDefault[f] ELSE m.field[f]
      /\ \A n \in Numbers : N[n] = IF NumberOf[n] \in given /\ m.num[n] = 0
                                   THEN SchemaNumber[n] ELSE m.num[n]
  BY DEF IfSet, Number
<1> HIDE DEF F, N
<1>4. y \in Manifests /\ y.field = F /\ y.num = N /\ Same(y, m)
  BY <1>1, WithFields
<1> HIDE DEF y
<1>5. QED
  BY <1>2, <1>3, <1>4

\* The cluster defaults the webhook reads.
CacheTyped ==
    hcdCache \in [exists : {TRUE}, spec : DefaultSpecs] \cup {Absent}

DefaultField(f) == IF hcdCache.exists THEN hcdCache.spec.field[f] ELSE ""

\* Their parts.
LEMMA CacheParts ==
    ASSUME CacheTyped, hcdCache.exists
    PROVE  /\ \A f \in Fields : hcdCache.spec.field[f] \in Texts
           /\ \A n \in Numbers : hcdCache.spec.num[n] \in Nat
<1>1. hcdCache \in [exists : {TRUE}, spec : DefaultSpecs]
  <2>1. ~Absent.exists
    BY DEF Absent
  <2>2. QED
    BY <2>1 DEF CacheTyped
<1>2. hcdCache.spec \in DefaultSpecs
  BY <1>1
<1>3. QED
  BY <1>2 DEF DefaultSpecs

\* ApplyClusterDefaults fills the open fields it copies, and replaces a CA
\* bundle without a name.
LEMMA DefaultIs ==
    ASSUME CacheTyped, NEW m \in Manifests
    PROVE  LET y == Default(m)
           IN  /\ y \in Manifests /\ Same(y, m)
               /\ \A f \in Fields \ CABundle : y.field[f] =
                    IF f \in Copied /\ m.field[f] = "" THEN DefaultField(f)
                    ELSE m.field[f]
               /\ \A f \in CABundle : HasCABundle(m) => y.field[f] = m.field[f]
               /\ \A n \in Numbers : n # "metricsPort" => y.num[n] = m.num[n]
               /\ \A n \in Numbers : m.num[n] # 0 => y.num[n] = m.num[n]
<1>1. CASE ~hcdCache.exists
  <2>1. Default(m) = m /\ \A f : DefaultField(f) = ""
    BY <1>1 DEF Default, DefaultField
  <2>2. QED
    BY <2>1 DEF Same
<1>2. CASE hcdCache.exists
  <2> DEFINE d == hcdCache.spec
             F == [f \in Fields |->
                     IF f \in Copied THEN IfSet(m.field[f], d.field[f])
                     ELSE IF f \in CABundle /\ ~HasCABundle(m)
                          THEN d.field[f]
                     ELSE m.field[f]]
             N == [m.num EXCEPT !["metricsPort"] =
                     Number(m.num["metricsPort"], d.num["metricsPort"])]
             y == [m EXCEPT !.field = F, !.num = N]
  <2>1. /\ \A f \in Fields : d.field[f] \in Texts
        /\ \A n \in Numbers : d.num[n] \in Nat
    BY <1>2, CacheParts
  <2>2. F \in [Fields -> Texts]
    BY <2>1, ManifestParts DEF IfSet
  <2>3. /\ N \in [Numbers -> Nat]
        /\ \A n \in Numbers : n # "metricsPort" => N[n] = m.num[n]
        /\ \A n \in Numbers : m.num[n] # 0 => N[n] = m.num[n]
    BY <2>1, ManifestParts, FieldFacts DEF Number
  <2>4. Default(m) = y
    BY <1>2 DEF Default, ApplyClusterDefaults, Manifests
  <2>5. \A f \in Fields : DefaultField(f) = d.field[f]
    BY <1>2 DEF DefaultField
  <2>6. Copied \cap CABundle = {} /\ CABundle \subseteq Fields
    BY FieldFacts DEF Copied, CABundle
  <2>7. /\ \A f \in Fields \ CABundle : F[f] =
             IF f \in Copied /\ m.field[f] = "" THEN DefaultField(f)
             ELSE m.field[f]
        /\ \A f \in CABundle : HasCABundle(m) => F[f] = m.field[f]
    BY <2>5, <2>6 DEF IfSet
  <2> HIDE DEF F, N
  <2>8. y \in Manifests /\ y.field = F /\ y.num = N /\ Same(y, m)
    BY <2>2, <2>3, WithFields
  <2> HIDE DEF y
  <2>9. QED
    BY <2>3, <2>4, <2>7, <2>8
<1>3. QED
  BY <1>1, <1>2

\* What defaulting leaves of a manifest and what it adds.
Filled(y, m) ==
    /\ y \in Manifests /\ Same(y, m)
    /\ \A f \in Fields : y.field[f] = "" => SchemaDefault[f] = ""
    /\ \A n \in Numbers : y.num[n] # 0
    /\ \A f \in Fields \ {"caKey"} : m.field[f] # "" => y.field[f] = m.field[f]
    /\ m.field["caKey"] # "" /\ HasCABundle(m)
         => y.field["caKey"] = m.field["caKey"]
    /\ \A f \in Fields \ CABundle :
         m.field[f] = "" /\ SchemaDefault[f] = "" =>
             y.field[f] = IF f \in Copied THEN DefaultField(f) ELSE ""
    /\ \A n \in Numbers : m.num[n] # 0 => y.num[n] = m.num[n]
    /\ \A n \in Numbers :
         m.num[n] = 0 /\ n # "metricsPort" => y.num[n] = SchemaNumber[n]

\* The two passes of the schema and the webhook between them do that.
LEMMA DefaultedIs ==
    ASSUME CacheTyped, NEW m \in Manifests
    PROVE  Filled(Defaulted(m), m)
<1> DEFINE a == SchemaDefaulted(m, Given(m))
           b == Default(a)
           y == SchemaDefaulted(b, SpecObjects)
<1>1. /\ a \in Manifests /\ Same(a, m)
      /\ \A f \in Fields : a.field[f] =
           IF ObjectOf[f] \in Given(m) /\ m.field[f] = ""
           THEN SchemaDefault[f] ELSE m.field[f]
      /\ \A n \in Numbers : a.num[n] =
           IF NumberOf[n] \in Given(m) /\ m.num[n] = 0
           THEN SchemaNumber[n] ELSE m.num[n]
  BY SchemaDefaultedIs
<1>2. Defaulted(m) = y
  BY DEF Defaulted
<1> HIDE DEF a
<1>3. /\ b \in Manifests /\ Same(b, a)
      /\ \A f \in Fields \ CABundle : b.field[f] =
           IF f \in Copied /\ a.field[f] = "" THEN DefaultField(f)
           ELSE a.field[f]
      /\ \A f \in CABundle : HasCABundle(a) => b.field[f] = a.field[f]
      /\ \A n \in Numbers : n # "metricsPort" => b.num[n] = a.num[n]
      /\ \A n \in Numbers : a.num[n] # 0 => b.num[n] = a.num[n]
  BY <1>1, DefaultIs
<1> HIDE DEF b
<1>4. /\ y \in Manifests /\ Same(y, b)
      /\ \A f \in Fields : y.field[f] =
           IF ObjectOf[f] \in SpecObjects /\ b.field[f] = ""
           THEN SchemaDefault[f] ELSE b.field[f]
      /\ \A n \in Numbers : y.num[n] =
           IF NumberOf[n] \in SpecObjects /\ b.num[n] = 0
           THEN SchemaNumber[n] ELSE b.num[n]
  BY <1>3, SchemaDefaultedIs
<1> HIDE DEF y
<1>5. /\ \A f \in Fields : y.field[f] =
           IF b.field[f] = "" THEN SchemaDefault[f] ELSE b.field[f]
      /\ \A n \in Numbers : y.num[n] =
           IF b.num[n] = 0 THEN SchemaNumber[n] ELSE b.num[n]
  BY <1>4, FieldFacts
<1>6. Same(y, m)
  BY <1>1, <1>3, <1>4 DEF Same
<1>7. /\ \A f \in Fields : y.field[f] = "" => SchemaDefault[f] = ""
      /\ \A n \in Numbers : y.num[n] # 0
  BY <1>5, SchemaFacts
<1>8. ASSUME NEW f \in Fields, m.field[f] # "", ~Overridden(m, f)
      PROVE  y.field[f] = m.field[f]
  <2>1. a.field[f] = m.field[f]
    BY <1>1, <1>8
  <2>2. CASE f \in CABundle
    <3>1. HasCABundle(m)
      BY <1>8, <2>2, Zenon DEF CABundle, Overridden, HasCABundle
    <3>2. HasCABundle(a)
      <4>1. \A g \in Fields : m.field[g] # "" => a.field[g] = m.field[g]
        BY <1>1
      <4>2. "caConfigMap" \in Fields /\ "caSecret" \in Fields
        BY FieldFacts DEF CABundle
      <4>3. QED
        BY <3>1, <4>1, <4>2, Zenon DEF HasCABundle
    <3>3. QED
      BY <1>3, <1>5, <1>8, <2>1, <2>2, <3>2
  <2>3. CASE f \notin CABundle
    BY <1>3, <1>5, <1>8, <2>1, <2>3
  <2>4. QED
    BY <2>2, <2>3
<1>9. /\ \A f \in Fields \ {"caKey"} : m.field[f] # "" => y.field[f] = m.field[f]
      /\ m.field["caKey"] # "" /\ HasCABundle(m)
           => y.field["caKey"] = m.field["caKey"]
  <2>1. \A f \in Fields \ {"caKey"} : f \in Fields /\ ~Overridden(m, f)
    BY DEF Overridden
  <2>2. "caKey" \in Fields /\ (HasCABundle(m) => ~Overridden(m, "caKey"))
    BY FieldFacts DEF Overridden
  <2>3. QED
    BY <1>8, <2>1, <2>2, Zenon
<1>10. ASSUME NEW f \in Fields \ CABundle, m.field[f] = "", SchemaDefault[f] = ""
      PROVE  y.field[f] = IF f \in Copied THEN DefaultField(f) ELSE ""
  BY <1>1, <1>3, <1>5, <1>10
<1>11. \A n \in Numbers : m.num[n] # 0 => y.num[n] = m.num[n]
  BY <1>1, <1>3, <1>5
<1>12. \A n \in Numbers :
         m.num[n] = 0 /\ n # "metricsPort" => y.num[n] = SchemaNumber[n]
  BY <1>1, <1>3, <1>5, SchemaFacts
<1>13. QED
  BY <1>2, <1>4, <1>6, <1>7, <1>9, <1>10, <1>11, <1>12 DEF Filled

-----------------------------------------------------------------------------
(***************************************************************************)
(* What has passed admission passes it again.                              *)
(***************************************************************************)

\* The instance, its copy and the last manifest are there or absent.
LEMMA States ==
    ASSUME AdmissionInv
    PROVE  /\ CacheTyped
           /\ inst.exists => inst \in Manifests /\ last \in Manifests
           /\ ~inst.exists => inst = Absent
           /\ instCache.exists => instCache \in Manifests
           /\ ~Absent.exists
<1>1. TypeOK
  BY DEF AdmissionInv
<1>2. ~Absent.exists /\ \A m \in Manifests : m.exists = TRUE
  BY ManifestParts DEF Absent
<1>3. /\ inst \in Manifests \/ inst = Absent
      /\ instCache \in Manifests \/ instCache = Absent
      /\ last \in Manifests \/ last = Absent
      /\ inst.exists => last.exists
      /\ CacheTyped
  BY <1>1 DEF TypeOK, CacheTyped
<1>4. QED
  BY <1>2, <1>3

\* A pinned image stays pinned.
LEMMA PinnedStays ==
    ASSUME NEW m, NEW y, Filled(y, m), ImagePinned(m)
    PROVE  ImagePinned(y)
<1>1. /\ m.field["tag"] # "" => y.field["tag"] = m.field["tag"]
      /\ m.field["digest"] # "" => y.field["digest"] = m.field["digest"]
  BY FieldFacts DEF Filled
<1>2. QED
  BY <1>1 DEF ImagePinned

\* Validation looks at this much of an instance.
Alike(x, y) ==
    /\ x.on = y.on /\ x.refs = y.refs /\ x.sidecars = y.sidecars
    /\ x.volumes = y.volumes /\ x.actions = y.actions
    /\ x.restoreFrom = y.restoreFrom /\ x.source = y.source
    /\ x.field["minAvailable"] = y.field["minAvailable"]
    /\ x.field["maxUnavailable"] = y.field["maxUnavailable"]
    /\ x.num["minReplicas"] = y.num["minReplicas"]
    /\ x.num["maxReplicas"] = y.num["maxReplicas"]

\* What is alike is valid alike, once the image and the volume are filled in.
LEMMA AlikeValid ==
    ASSUME NEW x, NEW y, Alike(x, y), ValidateCreate(x),
           y.field["repository"] # "", y.field["size"] # ""
    PROVE  ValidateCreate(y)
<1>1. ValidateCommon(y)
  BY DEF Alike, ValidateCreate, ValidateCommon
<1>2. ValidateGateways(y) /\ ValidateTailscale(y)
  BY DEF Alike, ValidateCreate, ValidateGateways, ValidateTailscale
<1>3. /\ ValidateRestoreMigrationMutualExclusion(y)
      /\ ValidateMigrationSourceExactlyOne(y)
  BY DEF Alike, ValidateCreate, ValidateRestoreMigrationMutualExclusion,
         ValidateMigrationSourceExactlyOne
<1>4. QED
  BY <1>1, <1>2, <1>3 DEF ValidateCreate

\* The image and the volume are filled in.
LEMMA RequiredFilled ==
    ASSUME NEW m, NEW y, Filled(y, m)
    PROVE  y.field["repository"] # "" /\ y.field["size"] # ""
BY FieldFacts, SchemaFacts DEF Filled

\* A request that leaves the instance as it is stored is admitted.
LEMMA Resubmitted ==
    ASSUME AdmissionInv, inst.exists, inst \in Manifests, ImagePinned(inst)
    PROVE  Admitted(inst)
<1> DEFINE y == Defaulted(inst)
<1>1. Filled(y, inst)
  BY States, DefaultedIs
<1> HIDE DEF y
<1>2. ImagePinned(y)
  BY <1>1, PinnedStays
<1>3. Alike(inst, y)
  <2>1. \A n \in Numbers : inst.num[n] # 0
    BY DEF AdmissionInv, TypeOK
  <2>2. \A n \in Numbers : y.num[n] = inst.num[n]
    BY <1>1, <2>1 DEF Filled
  <2>3. "minAvailable" \notin Copied \cup CABundle
        /\ "maxUnavailable" \notin Copied \cup CABundle
    BY DEF Copied, CABundle
  <2>4. /\ y.field["minAvailable"] = inst.field["minAvailable"]
        /\ y.field["maxUnavailable"] = inst.field["maxUnavailable"]
    BY <1>1, <2>3, FieldFacts, SchemaFacts DEF Filled
  <2>5. QED
    BY <1>1, <2>2, <2>4, FieldFacts DEF Alike, Filled, Same
<1>4. ValidateCreate(y)
  BY <1>1, <1>3, AlikeValid, RequiredFilled DEF AdmissionInv, Accepted
<1>5. ValidateImmutable(inst, y)
  BY <1>1, FieldFacts DEF ValidateImmutable, Filled
<1>6. ValidateImmutableTerminals(inst, y)
  BY <1>1 DEF ValidateImmutableTerminals, Filled, Same
<1>7. QED
  BY <1>2, <1>4, <1>5, <1>6 DEF Admitted, ValidateUpdate, y

\* The operator's own writes are admitted.
LEMMA OwnWrites == AdmissionInv => OwnWritesAdmitted
<1> SUFFICES ASSUME AdmissionInv, inst.exists PROVE Admitted(inst)
  BY DEF OwnWritesAdmitted
<1>1. inst \in Manifests
  BY States
<1>2. QED
  BY <1>1, Resubmitted DEF AdmissionInv, Accepted

\* The status goes with the instance, whatever the manifest says of it.
LEMMA StatusSet ==
    ASSUME NEW m \in Manifests, NEW r \in Texts, NEW b \in BOOLEAN
    PROVE  LET y == WithStatus(m, r, b)
           IN  /\ y \in Manifests /\ y.field = m.field /\ y.num = m.num
               /\ y.restoredFrom = r /\ y.migrated = b
               /\ y.given = m.given /\ y.on = m.on /\ y.refs = m.refs
               /\ y.sidecars = m.sidecars /\ y.volumes = m.volumes
               /\ y.actions = m.actions /\ y.restoreFrom = m.restoreFrom
               /\ y.source = m.source
<1> DEFINE y == WithStatus(m, r, b)
<1>1. y \in Manifests
  BY DEF WithStatus, Manifests
<1>2. /\ y.field = m.field /\ y.num = m.num
      /\ y.restoredFrom = r /\ y.migrated = b
      /\ y.given = m.given /\ y.on = m.on /\ y.refs = m.refs
      /\ y.sidecars = m.sidecars /\ y.volumes = m.volumes
      /\ y.actions = m.actions /\ y.restoreFrom = m.restoreFrom
      /\ y.source = m.source
  BY DEF WithStatus, Manifests
<1>3. QED
  BY <1>1, <1>2

\* The last manifest is admitted again while the defaults still fit.
LEMMA Resynced == AdmissionInv => ResyncAdmitted
<1> SUFFICES ASSUME AdmissionInv, inst.exists, DefaultsStillFit
             PROVE  Admitted(Replaced(last))
  BY DEF ResyncAdmitted
<1> DEFINE m == Replaced(last)
           y == Defaulted(m)
<1>1. inst \in Manifests /\ last \in Manifests /\ CacheTyped
  BY States
<1>2. inst.restoredFrom \in Texts /\ inst.migrated \in BOOLEAN
  BY <1>1 DEF Manifests
<1>3. /\ m \in Manifests /\ m.field = last.field /\ m.num = last.num
      /\ m.restoredFrom = inst.restoredFrom /\ m.migrated = inst.migrated
      /\ m.on = last.on /\ m.refs = last.refs
      /\ m.sidecars = last.sidecars /\ m.volumes = last.volumes
      /\ m.actions = last.actions /\ m.restoreFrom = last.restoreFrom
      /\ m.source = last.source
  BY <1>1, <1>2, StatusSet DEF Replaced
<1> HIDE DEF m
<1>4. Filled(y, m)
  BY <1>1, <1>3, DefaultedIs
<1> HIDE DEF y
<1>5. m.field = last.field /\ m.num = last.num
  BY <1>3
<1>6. /\ \A f \in Fields \ {"caKey"} :
           last.field[f] # "" => y.field[f] = last.field[f]
      /\ \A f \in Fields \ CABundle :
           last.field[f] = "" /\ SchemaDefault[f] = "" =>
               y.field[f] = IF f \in Copied THEN DefaultField(f) ELSE ""
      /\ \A n \in Numbers : last.num[n] # 0 => y.num[n] = last.num[n]
      /\ \A n \in Numbers :
           last.num[n] = 0 /\ n # "metricsPort" => y.num[n] = SchemaNumber[n]
  BY <1>4, <1>5, Zenon DEF Filled
<1>7. /\ inst.on = last.on /\ inst.refs = last.refs
      /\ inst.sidecars = last.sidecars /\ inst.volumes = last.volumes
      /\ inst.actions = last.actions /\ inst.source = last.source
      /\ inst.restoreFrom = last.restoreFrom
      /\ inst.field["minAvailable"] = last.field["minAvailable"]
      /\ inst.field["maxUnavailable"] = last.field["maxUnavailable"]
      /\ inst.num["minReplicas"] =
           Number(last.num["minReplicas"], SchemaNumber["minReplicas"])
      /\ inst.num["maxReplicas"] =
           Number(last.num["maxReplicas"], SchemaNumber["maxReplicas"])
  BY DEF AdmissionInv, FollowsLast
<1>8. Alike(inst, y)
  <2>1. /\ "minAvailable" \notin Copied \cup CABundle
        /\ "maxUnavailable" \notin Copied \cup CABundle
    BY DEF Copied, CABundle
  <2>2. /\ y.field["minAvailable"] = last.field["minAvailable"]
        /\ y.field["maxUnavailable"] = last.field["maxUnavailable"]
    BY <1>6, <2>1, FieldFacts, SchemaFacts
  <2>3. /\ y.num["minReplicas"] =
             Number(last.num["minReplicas"], SchemaNumber["minReplicas"])
        /\ y.num["maxReplicas"] =
             Number(last.num["maxReplicas"], SchemaNumber["maxReplicas"])
    BY <1>6, FieldFacts DEF Number
  <2>4. Same(y, m)
    BY <1>4 DEF Filled
  <2>5. QED
    BY <1>3, <1>7, <2>2, <2>3, <2>4 DEF Alike, Same
<1>9. ValidateCreate(y)
  BY <1>4, <1>8, AlikeValid, RequiredFilled DEF AdmissionInv, Accepted
<1>10. ValidateImmutableTerminals(inst, y)
  BY <1>3, <1>4, <1>7 DEF ValidateImmutableTerminals, Filled, Same
<1>11. "tag" \in Copied \ CABundle /\ "storageClassName" \in Copied \ CABundle
  BY DEF Copied, CABundle
<1>12. ValidateImmutable(inst, y)
  <2>1. CASE last.field["storageClassName"] # ""
    <3>1. ~Overridden(last, "storageClassName")
      BY DEF Overridden
    <3>2. inst.field["storageClassName"] = last.field["storageClassName"]
      BY <2>1, <3>1, FieldFacts DEF AdmissionInv, ExplicitWins
    <3>3. y.field["storageClassName"] = last.field["storageClassName"]
      BY <1>6, <2>1, FieldFacts
    <3>4. QED
      BY <3>2, <3>3 DEF ValidateImmutable
  <2>2. CASE last.field["storageClassName"] = ""
    <3>1. y.field["storageClassName"] = DefaultField("storageClassName")
      BY <1>6, <1>11, <2>2, FieldFacts, SchemaFacts
    <3>2. \/ inst.field["storageClassName"] = ""
          \/ inst.field["storageClassName"] = DefaultField("storageClassName")
      BY <2>2 DEF DefaultsStillFit, DefaultField
    <3>3. QED
      BY <3>1, <3>2 DEF ValidateImmutable
  <2>3. QED
    BY <2>1, <2>2
<1>13. ImagePinned(y)
  <2>1. CASE ImagePinned(last)
    <3>1. ImagePinned(m)
      BY <1>3, <2>1 DEF ImagePinned
    <3>2. QED
      BY <1>4, <3>1, PinnedStays
  <2>2. CASE ~ImagePinned(last)
    <3>1. last.field["tag"] = "" /\ DefaultField("tag") \notin {"", "latest"}
      BY <2>2 DEF DefaultsStillFit, DefaultField
    <3>2. y.field["tag"] = DefaultField("tag")
      BY <1>6, <1>11, <3>1, FieldFacts, SchemaFacts
    <3>3. QED
      BY <3>1, <3>2 DEF ImagePinned
  <2>3. QED
    BY <2>1, <2>2
<1>14. QED
  BY <1>9, <1>10, <1>12, <1>13 DEF Admitted, ValidateUpdate, y, m

-----------------------------------------------------------------------------
(***************************************************************************)
(* What a step stores.                                                     *)
(***************************************************************************)

\* FollowsLast and ExplicitWins, of an instance y after a manifest m.
Follows(y, m) ==
    /\ y.on = m.on /\ y.refs = m.refs
    /\ y.sidecars = m.sidecars /\ y.volumes = m.volumes
    /\ y.actions = m.actions /\ y.source = m.source
    /\ y.restoreFrom = m.restoreFrom
    /\ \A f \in {"minAvailable", "maxUnavailable"} : y.field[f] = m.field[f]
    /\ \A n \in {"minReplicas", "maxReplicas"} :
         y.num[n] = Number(m.num[n], SchemaNumber[n])

Wins(y, m) ==
    /\ \A f \in Fields :
         m.field[f] # "" /\ ~Overridden(m, f) => y.field[f] = m.field[f]
    /\ \A n \in Numbers : m.num[n] # 0 => y.num[n] = m.num[n]

\* Every field the schema gives a default has a value.
Complete(y) ==
    /\ \A f \in Fields : y.field[f] = "" => SchemaDefault[f] = ""
    /\ \A n \in Numbers : y.num[n] # 0

\* The invariant says this of the instance and the last manifest.
LEMMA InvParts ==
    ASSUME AdmissionInv, inst.exists
    PROVE  /\ inst \in Manifests /\ last \in Manifests
           /\ Follows(inst, last) /\ Wins(inst, last) /\ Complete(inst)
           /\ ImagePinned(inst) /\ ValidateCreate(inst)
<1>1. inst \in Manifests /\ last \in Manifests
  BY States
<1>2. Follows(inst, last)
  BY DEF AdmissionInv, FollowsLast, Follows
<1>3. Wins(inst, last)
  BY Zenon DEF AdmissionInv, ExplicitWins, Wins
<1>4. Complete(inst)
  BY Zenon DEF AdmissionInv, TypeOK, Complete
<1>5. ImagePinned(inst) /\ ValidateCreate(inst)
  BY DEF AdmissionInv, Accepted
<1>6. QED
  BY <1>1, <1>2, <1>3, <1>4, <1>5

\* Storing an instance that is valid, complete and says what the manifest
\* says keeps the invariant.
LEMMA Stored ==
    ASSUME AdmissionInv, NEW y \in Manifests, NEW m \in Manifests,
           inst' = y, last' = m, Complete(y), Follows(y, m), Wins(y, m),
           ImagePinned(y), ValidateCreate(y),
           inst.exists => ValidateImmutable(inst, y),
           edits' \in 0..MaxEdits,
           UNCHANGED <<instCache, hcd, hcdCache, pvc, defaultEdits>>
    PROVE  AdmissionInv'
<1>1. inst'.exists = TRUE /\ last'.exists = TRUE
  BY ManifestParts
<1>2. TypeOK'
  <2>1. /\ {inst, instCache, last} \subseteq Manifests \cup {Absent}
        /\ hcd \in [exists : {TRUE}, spec : DefaultSpecs, observed : BOOLEAN]
                     \cup {Absent}
        /\ hcdCache \in [exists : {TRUE}, spec : DefaultSpecs] \cup {Absent}
        /\ pvc \in [exists : {TRUE}, class : Texts] \cup {Absent}
        /\ defaultEdits \in 0..MaxDefaultEdits
    BY DEF AdmissionInv, TypeOK
  <2>2. /\ instCache' = instCache /\ hcd' = hcd /\ hcdCache' = hcdCache
        /\ pvc' = pvc /\ defaultEdits' = defaultEdits
    OBVIOUS
  <2>3. ({inst, instCache, last} \subseteq Manifests \cup {Absent})'
    BY <2>1, <2>2
  <2>4. (\A f \in Fields : inst.field[f] = "" => SchemaDefault[f] = "")'
        /\ (\A n \in Numbers : inst.num[n] # 0)'
    BY Zenon DEF Complete
  <2>5. QED
    BY <1>1, <2>1, <2>2, <2>3, <2>4, Zenon DEF TypeOK
<1>3. inst.exists /\ inst.field["storageClassName"] # "" =>
        y.field["storageClassName"] = inst.field["storageClassName"]
  BY DEF ValidateImmutable
<1>4. CopiesKnown'
  <2>1. instCache.exists =>
          /\ inst.exists
          /\ instCache.field["storageClassName"] # ""
               => inst.field["storageClassName"]
                    = instCache.field["storageClassName"]
    BY DEF AdmissionInv, CopiesKnown
  <2>2. instCache.exists /\ instCache.field["storageClassName"] # ""
          => y.field["storageClassName"] = instCache.field["storageClassName"]
    BY <1>3, <2>1, Zenon
  <2>3. instCache' = instCache
    OBVIOUS
  <2>4. QED
    BY <1>1, <2>2, <2>3, Zenon DEF CopiesKnown
<1>5. ClassMatchesVolume'
  <2>1. pvc.exists => inst.exists
    BY DEF AdmissionInv, CopiesKnown
  <2>2. pvc.exists /\ pvc.class # "" =>
          inst.field["storageClassName"] = pvc.class
    BY DEF AdmissionInv, ClassMatchesVolume
  <2>3. pvc' = pvc
    OBVIOUS
  <2>4. QED
    BY <1>3, <2>1, <2>2, <2>3, Zenon DEF ClassMatchesVolume
<1>6. Accepted'
  BY Zenon DEF Accepted
<1>7. FollowsLast'
  BY Zenon DEF FollowsLast, Follows
<1>8. ExplicitWins'
  BY Zenon DEF ExplicitWins, Wins
<1>9. QED
  BY <1>2, <1>4, <1>5, <1>6, <1>7, <1>8 DEF AdmissionInv

\* A request x that says what the manifest m says.
Carries(x, m) ==
    /\ x.on = m.on /\ x.refs = m.refs
    /\ x.sidecars = m.sidecars /\ x.volumes = m.volumes
    /\ x.actions = m.actions /\ x.source = m.source
    /\ x.restoreFrom = m.restoreFrom
    /\ \A f \in {"minAvailable", "maxUnavailable"} : x.field[f] = m.field[f]
    /\ \A n \in {"minReplicas", "maxReplicas"} :
         m.num[n] = 0 => x.num[n] = 0 \/ x.num[n] = SchemaNumber[n]
    /\ Wins(x, m)

\* Its defaults leave what the manifest says.
LEMMA CarriedFilled ==
    ASSUME NEW x, NEW m, NEW y, Filled(y, x), Carries(x, m)
    PROVE  Complete(y) /\ Follows(y, m) /\ Wins(y, m)
<1>1. Complete(y)
  BY Zenon DEF Filled, Complete
<1>2. y.on = x.on
  BY DEF Filled, Same
<1>3. Wins(y, m)
  <2>1. \A f \in Fields : x.field[f] # "" /\ ~Overridden(x, f)
                           => y.field[f] = x.field[f]
    BY Zenon DEF Filled, Overridden
  <2>2. \A n \in Numbers : x.num[n] # 0 => y.num[n] = x.num[n]
    BY DEF Filled
  <2>3. Wins(x, m)
    BY DEF Carries
  <2>4. \A n \in Numbers : m.num[n] # 0 => y.num[n] = m.num[n]
    BY <2>2, <2>3, Zenon DEF Wins
  <2>5. HasCABundle(m) => HasCABundle(x)
    <3>1. /\ "caConfigMap" \in Fields /\ ~Overridden(m, "caConfigMap")
          /\ "caSecret" \in Fields /\ ~Overridden(m, "caSecret")
      BY FieldFacts DEF CABundle, Overridden
    <3>2. QED
      BY <2>3, <3>1, Zenon DEF Wins, HasCABundle
  <2>6. ASSUME NEW f \in Fields, m.field[f] # "", ~Overridden(m, f)
        PROVE  y.field[f] = m.field[f]
    <3>1. x.field[f] = m.field[f]
      BY <2>3, <2>6, Zenon DEF Wins
    <3>2. ~Overridden(x, f)
      BY <2>5, <2>6 DEF Overridden
    <3>3. QED
      BY <2>1, <2>6, <3>1, <3>2
  <2>7. QED
    BY <2>4, <2>6, Zenon DEF Wins
<1>4. \A f \in {"minAvailable", "maxUnavailable"} : y.field[f] = m.field[f]
  <2>1. ASSUME NEW f \in {"minAvailable", "maxUnavailable"}
        PROVE  y.field[f] = m.field[f]
    <3>1. f \in Fields \ CABundle /\ f \notin Copied /\ SchemaDefault[f] = ""
          /\ f # "caKey"
      BY FieldFacts, SchemaFacts DEF CABundle, Copied
    <3>2. x.field[f] = m.field[f]
      BY DEF Carries
    <3>3. y.field[f] = x.field[f]
      BY <3>1, Zenon DEF Filled
    <3>4. QED
      BY <3>2, <3>3
  <2>2. QED
    BY <2>1
<1>5. ASSUME NEW n \in {"minReplicas", "maxReplicas"}
      PROVE  y.num[n] = Number(m.num[n], SchemaNumber[n])
  <2>1. n \in Numbers /\ n # "metricsPort"
    BY FieldFacts
  <2>2. m.num[n] # 0 => y.num[n] = m.num[n]
    BY <1>3, <2>1, Zenon DEF Wins
  <2>3. ASSUME m.num[n] = 0 PROVE y.num[n] = SchemaNumber[n]
    <3>1. x.num[n] = 0 \/ x.num[n] = SchemaNumber[n]
      BY <2>3, Zenon DEF Carries
    <3>2. /\ x.num[n] # 0 => y.num[n] = x.num[n]
          /\ x.num[n] = 0 => y.num[n] = SchemaNumber[n]
      BY <2>1, Zenon DEF Filled
    <3>3. QED
      BY <3>1, <3>2
  <2>4. QED
    BY <2>2, <2>3 DEF Number
<1>6. QED
  BY <1>1, <1>3, <1>4, <1>5, Zenon DEF Follows, Filled, Same, Carries

\* An admitted request that says what the new last manifest says.
LEMMA SubmittedStep ==
    ASSUME AdmissionInv, NEW x \in Manifests, NEW m \in Manifests,
           Submitted(x), Carries(x, m), last' = m, edits' \in 0..MaxEdits
    PROVE  AdmissionInv'
<1> DEFINE y == Defaulted(x)
<1>1. /\ inst' = y /\ ImagePinned(y) /\ ValidateUpdate(inst, y)
      /\ UNCHANGED <<instCache, hcd, hcdCache, pvc, defaultEdits>>
  BY DEF Submitted, Admitted
<1>2. Filled(y, x)
  BY States, DefaultedIs
<1> HIDE DEF y
<1>3. y \in Manifests
  BY <1>2 DEF Filled
<1>4. Complete(y) /\ Follows(y, m) /\ Wins(y, m)
  BY <1>2, CarriedFilled
<1>5. ValidateCreate(y) /\ ValidateImmutable(inst, y)
  BY <1>1 DEF ValidateUpdate
<1>6. QED
  BY <1>1, <1>3, <1>4, <1>5, Stored

\* The requests say what they should.
LEMMA InstCarries ==
    ASSUME AdmissionInv, inst.exists
    PROVE  Carries(inst, last)
<1>1. Follows(inst, last) /\ Wins(inst, last)
  BY InvParts
<1>2. \A n \in {"minReplicas", "maxReplicas"} :
        last.num[n] = 0 => inst.num[n] = SchemaNumber[n]
  BY <1>1 DEF Follows, Number
<1>3. QED
  BY <1>1, <1>2, Zenon DEF Carries, Follows

\* A replacement is the manifest with the status that is stored.
LEMMA ReplacedIs ==
    ASSUME AdmissionInv, inst.exists, NEW m \in Manifests
    PROVE  /\ Replaced(m) \in Manifests
           /\ Replaced(m).field = m.field /\ Replaced(m).num = m.num
           /\ Replaced(m).on = m.on /\ Replaced(m).refs = m.refs
           /\ Replaced(m).sidecars = m.sidecars
           /\ Replaced(m).volumes = m.volumes
           /\ Replaced(m).actions = m.actions
           /\ Replaced(m).restoreFrom = m.restoreFrom
           /\ Replaced(m).source = m.source
<1>1. inst.restoredFrom \in Texts /\ inst.migrated \in BOOLEAN
  BY InvParts DEF Manifests
<1>2. QED
  BY <1>1, StatusSet DEF Replaced

\* It says what the manifest says.
LEMMA ReplacedCarries ==
    ASSUME AdmissionInv, inst.exists, NEW m \in Manifests
    PROVE  Carries(Replaced(m), m)
<1> DEFINE x == Replaced(m)
<1>1. /\ x.field = m.field /\ x.num = m.num /\ x.on = m.on /\ x.refs = m.refs
      /\ x.sidecars = m.sidecars /\ x.volumes = m.volumes
      /\ x.actions = m.actions /\ x.restoreFrom = m.restoreFrom
      /\ x.source = m.source
  BY ReplacedIs
<1> HIDE DEF x
<1>2. Wins(x, m)
  BY <1>1, Zenon DEF Wins
<1>3. QED
  BY <1>1, <1>2, Zenon DEF Carries, x

\* So does an apply: what the manifest leaves open is what the manifest
\* before it left open, or is reset.
LEMMA AppliedCarries ==
    ASSUME AdmissionInv, inst.exists, NEW m \in Manifests
    PROVE  Applied(m) \in Manifests /\ Carries(Applied(m), m)
<1> DEFINE r == Replaced(m)
           F == [f \in Fields |-> IF m.field[f] # "" THEN m.field[f]
                                  ELSE IF last.field[f] # "" THEN ""
                                  ELSE inst.field[f]]
           N == [n \in Numbers |-> IF m.num[n] # 0 THEN m.num[n]
                                   ELSE IF last.num[n] # 0 THEN 0
                                   ELSE inst.num[n]]
           g == [r EXCEPT !.given = SpecObjects]
           x == [g EXCEPT !.field = F, !.num = N]
<1>1. /\ r \in Manifests /\ r.field = m.field /\ r.num = m.num
      /\ r.on = m.on /\ r.refs = m.refs
      /\ r.sidecars = m.sidecars /\ r.volumes = m.volumes
      /\ r.actions = m.actions /\ r.restoreFrom = m.restoreFrom
      /\ r.source = m.source
  BY ReplacedIs
<1>2. Applied(m) = x
  <2> HIDE DEF r
  <2>1. Applied(m) = [r EXCEPT !.given = SpecObjects, !.field = F, !.num = N]
    BY <1>1, Zenon DEF Applied, r
  <2> HIDE DEF F, N
  <2>2. QED
    BY <1>1, <2>1 DEF Manifests
<1> HIDE DEF r
<1>3. /\ g \in Manifests /\ g.on = m.on /\ g.refs = m.refs
      /\ g.sidecars = m.sidecars /\ g.volumes = m.volumes
      /\ g.actions = m.actions /\ g.restoreFrom = m.restoreFrom
      /\ g.source = m.source
  BY <1>1 DEF Manifests
<1> HIDE DEF g
<1>4. inst \in Manifests /\ last \in Manifests /\ Follows(inst, last)
  BY InvParts
<1>5. F \in [Fields -> Texts]
  <2>1. "" \in Texts
    BY AdmissionAssumption
  <2>2. \A f \in Fields : m.field[f] \in Texts /\ inst.field[f] \in Texts
    BY <1>4, ManifestParts
  <2>3. QED
    BY <2>1, <2>2
<1>6. N \in [Numbers -> Nat]
  BY <1>4, ManifestParts
<1>7. \A f \in Fields : F[f] = IF m.field[f] # "" THEN m.field[f]
                               ELSE IF last.field[f] # "" THEN ""
                               ELSE inst.field[f]
  OBVIOUS
<1>8. \A n \in Numbers : N[n] = IF m.num[n] # 0 THEN m.num[n]
                                ELSE IF last.num[n] # 0 THEN 0
                                ELSE inst.num[n]
  OBVIOUS
<1> HIDE DEF F, N
<1>9. x \in Manifests /\ x.field = F /\ x.num = N /\ Same(x, g)
  BY <1>3, <1>5, <1>6, WithFields
<1> HIDE DEF x
<1>10. Wins(x, m)
  BY <1>7, <1>8, <1>9, Zenon DEF Wins
<1>11. \A f \in {"minAvailable", "maxUnavailable"} : x.field[f] = m.field[f]
  <2>1. ASSUME NEW f \in {"minAvailable", "maxUnavailable"}
        PROVE  F[f] = m.field[f]
    <3>1. inst.field[f] = last.field[f]
      BY <1>4 DEF Follows
    <3>2. f \in Fields
      BY FieldFacts
    <3>3. QED
      BY <1>7, <3>1, <3>2, Zenon
  <2>2. QED
    BY <1>9, <2>1
<1>12. \A n \in {"minReplicas", "maxReplicas"} :
         m.num[n] = 0 => x.num[n] = 0 \/ x.num[n] = SchemaNumber[n]
  <2>1. ASSUME NEW n \in {"minReplicas", "maxReplicas"}, m.num[n] = 0
        PROVE  N[n] = 0 \/ N[n] = SchemaNumber[n]
    <3>1. inst.num[n] = Number(last.num[n], SchemaNumber[n])
      BY <1>4 DEF Follows
    <3>2. n \in Numbers
      BY FieldFacts
    <3>3. QED
      BY <1>8, <2>1, <3>1, <3>2 DEF Number
  <2>2. QED
    BY <1>9, <2>1
<1>13. QED
  BY <1>2, <1>3, <1>9, <1>10, <1>11, <1>12, Zenon DEF Carries, Same

\* An instance with another status is valid and complete as before.
LEMMA WithStatusKept ==
    ASSUME NEW z \in Manifests, NEW m, NEW r \in Texts, NEW b \in BOOLEAN,
           Complete(z), Follows(z, m), Wins(z, m), ImagePinned(z),
           ValidateCreate(z)
    PROVE  LET y == WithStatus(z, r, b)
           IN  /\ y \in Manifests /\ Complete(y) /\ Follows(y, m) /\ Wins(y, m)
               /\ ImagePinned(y) /\ ValidateCreate(y)
               /\ y.field = z.field
<1> DEFINE y == WithStatus(z, r, b)
<1>1. /\ y \in Manifests /\ y.field = z.field /\ y.num = z.num
      /\ y.on = z.on /\ y.refs = z.refs
      /\ y.sidecars = z.sidecars /\ y.volumes = z.volumes
      /\ y.actions = z.actions /\ y.restoreFrom = z.restoreFrom
      /\ y.source = z.source
  BY StatusSet
<1> HIDE DEF y
<1>2. Complete(y)
  BY <1>1, Zenon DEF Complete
<1>3. Follows(y, m)
  BY <1>1, Zenon DEF Follows
<1>4. Wins(y, m)
  BY <1>1, Zenon DEF Wins
<1>5. ImagePinned(y)
  BY <1>1, Zenon DEF ImagePinned
<1>6. ValidateCreate(y)
  <2>1. Alike(z, y)
    BY <1>1 DEF Alike
  <2>2. z.field["repository"] # "" /\ z.field["size"] # ""
    BY FieldFacts, SchemaFacts DEF Complete
  <2>3. QED
    BY <1>1, <2>1, <2>2, AlikeValid
<1>7. QED
  BY <1>1, <1>2, <1>3, <1>4, <1>5, <1>6 DEF y

\* A creation.
LEMMA CreateStep ==
    ASSUME AdmissionInv, NEW m \in Creations, UserCreates(m)
    PROVE  AdmissionInv'
<1> DEFINE z == Defaulted(m)
           y == WithStatus(z, "", FALSE)
<1>1. /\ ~inst.exists /\ ImagePinned(z) /\ ValidateCreate(z)
      /\ inst' = y /\ last' = m /\ edits' = edits
      /\ UNCHANGED <<instCache, hcd, hcdCache, pvc, defaultEdits>>
  BY DEF UserCreates
<1>2. m \in Manifests /\ "" \in Texts
  BY AdmissionAssumption
<1>3. Filled(z, m)
  BY <1>2, States, DefaultedIs
<1>4. Carries(m, m)
  <2>1. Wins(m, m)
    BY Zenon DEF Wins
  <2>2. QED
    BY <2>1, Zenon DEF Carries
<1> HIDE DEF z
<1>5. Complete(z) /\ Follows(z, m) /\ Wins(z, m) /\ z \in Manifests
  BY <1>3, <1>4, CarriedFilled DEF Filled
<1>6. /\ y \in Manifests /\ Complete(y) /\ Follows(y, m) /\ Wins(y, m)
      /\ ImagePinned(y) /\ ValidateCreate(y)
  BY <1>1, <1>2, <1>5, WithStatusKept
<1> HIDE DEF y
<1>7. edits' \in 0..MaxEdits
  BY <1>1 DEF AdmissionInv, TypeOK
<1>8. QED
  BY <1>1, <1>2, <1>6, <1>7, Stored

\* A latch.
LEMMA LatchStep ==
    ASSUME AdmissionInv, NEW r \in Texts, NEW b \in BOOLEAN,
           Latch(WithStatus(inst, r, b))
    PROVE  AdmissionInv'
<1> DEFINE y == WithStatus(inst, r, b)
<1>1. /\ inst.exists /\ inst' = y /\ last' = last /\ edits' = edits
      /\ UNCHANGED <<instCache, hcd, hcdCache, pvc, defaultEdits>>
  BY DEF Latch
<1>2. /\ inst \in Manifests /\ last \in Manifests
      /\ Follows(inst, last) /\ Wins(inst, last) /\ Complete(inst)
      /\ ImagePinned(inst) /\ ValidateCreate(inst)
  BY <1>1, InvParts
<1>3. /\ y \in Manifests /\ Complete(y) /\ Follows(y, last) /\ Wins(y, last)
      /\ ImagePinned(y) /\ ValidateCreate(y) /\ y.field = inst.field
  BY <1>2, WithStatusKept
<1> HIDE DEF y
<1>4. edits' \in 0..MaxEdits
  BY <1>1 DEF AdmissionInv, TypeOK
<1>5. ValidateImmutable(inst, y)
  BY <1>3, Zenon DEF ValidateImmutable
<1>6. QED
  BY <1>1, <1>2, <1>3, <1>4, <1>5, Stored

\* The bounds are numbers.
LEMMA Bounds == MaxEdits \in Nat /\ MaxDefaultEdits \in Nat
BY Zenon, AdmissionAssumption

\* While the instance and the last manifest stay, only the copies, the claim
\* and the cluster defaults are to be looked at.
LEMMA InstanceStays ==
    ASSUME AdmissionInv, UNCHANGED <<inst, last, edits>>,
           (instCache \in Manifests \cup {Absent})',
           (hcd \in [exists : {TRUE}, spec : DefaultSpecs, observed : BOOLEAN]
                      \cup {Absent})',
           (hcdCache \in [exists : {TRUE}, spec : DefaultSpecs] \cup {Absent})',
           (pvc \in [exists : {TRUE}, class : Texts] \cup {Absent})',
           defaultEdits' \in 0..MaxDefaultEdits,
           CopiesKnown', ClassMatchesVolume'
    PROVE  AdmissionInv'
<1>1. inst' = inst /\ last' = last /\ edits' = edits
  OBVIOUS
<1>2. TypeOK'
  <2>1. /\ {inst, last} \subseteq Manifests \cup {Absent}
        /\ inst.exists =>
             /\ last.exists
             /\ \A f \in Fields : inst.field[f] = "" => SchemaDefault[f] = ""
             /\ \A n \in Numbers : inst.num[n] # 0
        /\ edits \in 0..MaxEdits
    BY DEF AdmissionInv, TypeOK
  <2>2. ({inst, instCache, last} \subseteq Manifests \cup {Absent})'
    BY <1>1, <2>1
  <2>3. QED
    BY <1>1, <2>1, <2>2, Zenon DEF TypeOK
<1>3. Accepted'
  BY <1>1, Zenon DEF AdmissionInv, Accepted
<1>4. FollowsLast'
  BY <1>1, Zenon DEF AdmissionInv, FollowsLast
<1>5. ExplicitWins'
  BY <1>1, Zenon DEF AdmissionInv, ExplicitWins
<1>6. QED
  BY <1>2, <1>3, <1>4, <1>5 DEF AdmissionInv

\* The schema's defaults in cluster defaults.
LEMMA DefaultSpecTyped ==
    ASSUME NEW d \in DefaultSpecs, NEW given
    PROVE  SchemaDefaulted(d, given) \in DefaultSpecs
<1> DEFINE F == [f \in Fields |-> IF ObjectOf[f] \in given
                                  THEN IfSet(d.field[f], SchemaDefault[f])
                                  ELSE d.field[f]]
           N == [n \in Numbers |-> IF NumberOf[n] \in given
                                   THEN Number(d.num[n], SchemaNumber[n])
                                   ELSE d.num[n]]
<1>1. /\ \A f \in Fields : d.field[f] \in Texts
      /\ \A n \in Numbers : d.num[n] \in Nat
  BY DEF DefaultSpecs
<1>2. F \in [Fields -> Texts]
  BY <1>1, SchemaFacts DEF IfSet
<1>3. N \in [Numbers -> Nat]
  BY <1>1, SchemaFacts DEF Number
<1>4. SchemaDefaulted(d, given) = [d EXCEPT !.field = F, !.num = N]
  BY DEF SchemaDefaulted, DefaultSpecs
<1> HIDE DEF F, N
<1>5. QED
  BY <1>2, <1>3, <1>4 DEF DefaultSpecs

\* Every step keeps the invariant.
LEMMA AdmissionStep == AdmissionInv /\ [Next]_vars => AdmissionInv'
<1> SUFFICES ASSUME AdmissionInv, [Next]_vars PROVE AdmissionInv'
  OBVIOUS
<1>1. TypeOK /\ CopiesKnown /\ ClassMatchesVolume
  BY DEF AdmissionInv
<1>2. /\ instCache \in Manifests \cup {Absent}
      /\ hcd \in [exists : {TRUE}, spec : DefaultSpecs, observed : BOOLEAN]
                   \cup {Absent}
      /\ hcdCache \in [exists : {TRUE}, spec : DefaultSpecs] \cup {Absent}
      /\ pvc \in [exists : {TRUE}, class : Texts] \cup {Absent}
      /\ edits \in 0..MaxEdits
      /\ defaultEdits \in 0..MaxDefaultEdits
      /\ inst \in Manifests \cup {Absent}
  BY <1>1 DEF TypeOK
<1>3. ~Absent.exists
  BY DEF Absent
<1>4. ASSUME Edit PROVE edits' \in 0..MaxEdits
  BY <1>2, <1>4, Bounds DEF Edit
<1>5. ASSUME UNCHANGED <<inst, instCache, pvc>>
      PROVE  CopiesKnown' /\ ClassMatchesVolume'
  BY <1>1, <1>5, Zenon DEF CopiesKnown, ClassMatchesVolume
<1>6. ASSUME NEW m \in Creations, UserCreates(m) PROVE AdmissionInv'
  BY <1>6, CreateStep
<1>7. ASSUME NEW m \in Changes, UserReplaces(m) PROVE AdmissionInv'
  <2>1. /\ m \in Manifests /\ inst.exists /\ Submitted(Replaced(m))
        /\ last' = m /\ edits' \in 0..MaxEdits
    BY <1>4, <1>7, AdmissionAssumption DEF UserReplaces
  <2>2. Replaced(m) \in Manifests /\ Carries(Replaced(m), m)
    BY <2>1, ReplacedIs, ReplacedCarries
  <2>3. QED
    BY <2>1, <2>2, SubmittedStep
<1>8. ASSUME NEW m \in Changes, UserApplies(m) PROVE AdmissionInv'
  <2>1. /\ m \in Manifests /\ inst.exists /\ Submitted(Applied(m))
        /\ last' = m /\ edits' \in 0..MaxEdits
    BY <1>4, <1>8, AdmissionAssumption DEF UserApplies
  <2>2. Applied(m) \in Manifests /\ Carries(Applied(m), m)
    BY <2>1, AppliedCarries
  <2>3. QED
    BY <2>1, <2>2, SubmittedStep
<1>9. ASSUME OperatorPatches PROVE AdmissionInv'
  <2>1. Submitted(inst) /\ inst.exists /\ last' = last /\ edits' \in 0..MaxEdits
    BY <1>2, <1>9 DEF OperatorPatches, Submitted
  <2>2. inst \in Manifests /\ last \in Manifests /\ Carries(inst, last)
    BY <2>1, InvParts, InstCarries
  <2>3. QED
    BY <2>1, <2>2, SubmittedStep
<1>10. ASSUME NEW name, NEW d \in Defaults, UserWritesDefaults(name, d)
       PROVE  AdmissionInv'
  <2> DEFINE spec == SchemaDefaulted(d, Given(d) \cap SharedTypes)
  <2>1. /\ defaultEdits < MaxDefaultEdits /\ defaultEdits' = defaultEdits + 1
        /\ hcd' = [exists |-> TRUE, spec |-> spec, observed |-> FALSE]
        /\ UNCHANGED <<inst, instCache, last, hcdCache, pvc, edits>>
    BY <1>10 DEF UserWritesDefaults
  <2>2. spec \in DefaultSpecs
    BY AdmissionAssumption, DefaultSpecTyped
  <2> HIDE DEF spec
  <2>3. hcd' \in [exists : {TRUE}, spec : DefaultSpecs, observed : BOOLEAN]
    BY <2>1, <2>2
  <2>4. defaultEdits' \in 0..MaxDefaultEdits
    BY <1>2, <2>1, Bounds
  <2>5. CopiesKnown' /\ ClassMatchesVolume'
    BY <1>5, <2>1
  <2>6. QED
    BY <1>2, <2>1, <2>3, <2>4, <2>5, InstanceStays
<1>11. ASSUME UserDeletesDefaults PROVE AdmissionInv'
  <2>1. /\ defaultEdits < MaxDefaultEdits /\ defaultEdits' = defaultEdits + 1
        /\ hcd' = Absent
        /\ UNCHANGED <<inst, instCache, last, hcdCache, pvc, edits>>
    BY <1>11 DEF UserDeletesDefaults
  <2>2. defaultEdits' \in 0..MaxDefaultEdits
    BY <1>2, <2>1, Bounds
  <2>3. CopiesKnown' /\ ClassMatchesVolume'
    BY <1>5, <2>1
  <2>4. QED
    BY <1>2, <2>1, <2>2, <2>3, InstanceStays
<1>12. ASSUME ReconcileDefaults PROVE AdmissionInv'
  <2>1. /\ hcd.exists /\ hcd' = [hcd EXCEPT !.observed = TRUE]
        /\ UNCHANGED <<inst, instCache, last, hcdCache, pvc, edits,
                       defaultEdits>>
    BY <1>12 DEF ReconcileDefaults
  <2>2. hcd \in [exists : {TRUE}, spec : DefaultSpecs, observed : BOOLEAN]
    BY <1>2, <1>3, <2>1
  <2>3. hcd' \in [exists : {TRUE}, spec : DefaultSpecs, observed : BOOLEAN]
    BY <2>1, <2>2
  <2>4. CopiesKnown' /\ ClassMatchesVolume'
    BY <1>5, <2>1
  <2>5. QED
    BY <1>2, <2>1, <2>3, <2>4, InstanceStays
<1>13. ASSUME SyncDefaults PROVE AdmissionInv'
  <2>1. /\ hcdCache' = IF hcd.exists THEN [exists |-> TRUE, spec |-> hcd.spec]
                       ELSE Absent
        /\ UNCHANGED <<inst, instCache, last, hcd, pvc, edits, defaultEdits>>
    BY <1>13 DEF SyncDefaults
  <2>2. CASE hcd.exists
    <3>1. hcd \in [exists : {TRUE}, spec : DefaultSpecs, observed : BOOLEAN]
      BY <1>2, <1>3, <2>2
    <3>2. hcdCache' \in [exists : {TRUE}, spec : DefaultSpecs]
      BY <2>1, <2>2, <3>1
    <3>3. CopiesKnown' /\ ClassMatchesVolume'
      BY <1>5, <2>1
    <3>4. QED
      BY <1>2, <2>1, <3>2, <3>3, InstanceStays
  <2>3. CASE ~hcd.exists
    <3>1. hcdCache' = Absent
      BY <2>1, <2>3
    <3>2. CopiesKnown' /\ ClassMatchesVolume'
      BY <1>5, <2>1
    <3>3. QED
      BY <1>2, <2>1, <3>1, <3>2, InstanceStays
  <2>4. QED
    BY <2>2, <2>3
<1>14. ASSUME SyncInstance PROVE AdmissionInv'
  <2>1. /\ instCache' = inst
        /\ UNCHANGED <<inst, last, hcd, hcdCache, pvc, edits, defaultEdits>>
    BY <1>14 DEF SyncInstance
  <2>2. CopiesKnown' /\ ClassMatchesVolume'
    BY <1>1, <2>1, Zenon DEF CopiesKnown, ClassMatchesVolume
  <2>3. QED
    BY <1>2, <2>1, <2>2, InstanceStays
<1>15. ASSUME ReconcilePVC PROVE AdmissionInv'
  <2>1. /\ instCache.exists
        /\ pvc' = [exists |-> TRUE, class |-> instCache.field.storageClassName]
        /\ UNCHANGED <<inst, instCache, last, hcd, hcdCache, edits,
                       defaultEdits>>
    BY <1>15 DEF ReconcilePVC
  <2>2. instCache.field["storageClassName"] \in Texts
    BY <2>1, States, ManifestParts, FieldFacts
  <2>3. /\ pvc' \in [exists : {TRUE}, class : Texts]
        /\ pvc'.class = instCache.field["storageClassName"]
    BY <2>1, <2>2
  <2>4. CopiesKnown'
    BY <1>1, <2>1, Zenon DEF CopiesKnown
  <2>5. ClassMatchesVolume'
    BY <1>1, <2>1, <2>3, Zenon DEF CopiesKnown, ClassMatchesVolume
  <2>6. QED
    BY <1>2, <2>1, <2>3, <2>4, <2>5, InstanceStays
<1>16. ASSUME LatchRestore PROVE AdmissionInv'
  <2>1. inst.exists /\ Latch([inst EXCEPT !.restoredFrom = inst.restoreFrom])
    BY <1>16 DEF LatchRestore
  <2>2. inst \in Manifests
    BY <2>1, InvParts
  <2>3. inst.restoreFrom \in Texts /\ inst.migrated \in BOOLEAN
    BY <2>2 DEF Manifests
  <2>4. [inst EXCEPT !.restoredFrom = inst.restoreFrom]
          = WithStatus(inst, inst.restoreFrom, inst.migrated)
    BY <2>2 DEF WithStatus, Manifests
  <2>5. QED
    BY <2>1, <2>3, <2>4, LatchStep
<1>17. ASSUME LatchMigration PROVE AdmissionInv'
  <2>1. inst.exists /\ Latch([inst EXCEPT !.migrated = TRUE])
    BY <1>17 DEF LatchMigration
  <2>2. inst \in Manifests
    BY <2>1, InvParts
  <2>3. inst.restoredFrom \in Texts
    BY <2>2 DEF Manifests
  <2>4. [inst EXCEPT !.migrated = TRUE]
          = WithStatus(inst, inst.restoredFrom, TRUE)
    BY <2>2 DEF WithStatus, Manifests
  <2>5. QED
    BY <2>1, <2>3, <2>4, LatchStep
<1>18. ASSUME UNCHANGED vars PROVE AdmissionInv'
  <2>1. UNCHANGED <<inst, instCache, last, hcd, hcdCache, pvc, edits,
                    defaultEdits>>
    BY <1>18 DEF vars
  <2>2. CopiesKnown' /\ ClassMatchesVolume'
    BY <1>5, <2>1
  <2>3. QED
    BY <1>2, <2>1, <2>2, InstanceStays
<1>19. QED
  BY <1>6, <1>7, <1>8, <1>9, <1>10, <1>11, <1>12, <1>13, <1>14, <1>15,
     <1>16, <1>17, <1>18 DEF Next

\* It holds at the start.
LEMMA AdmissionStart == Init => AdmissionInv
<1> SUFFICES ASSUME Init PROVE AdmissionInv
  OBVIOUS
<1>1. ~Absent.exists
  BY DEF Absent
<1>2. /\ inst = Absent /\ instCache = Absent /\ last = Absent /\ hcd = Absent
      /\ hcdCache = Absent /\ pvc = Absent /\ edits = 0 /\ defaultEdits = 0
  BY DEF Init
<1>3. edits \in 0..MaxEdits /\ defaultEdits \in 0..MaxDefaultEdits
  BY <1>2, Bounds
<1>4. ~inst.exists /\ ~instCache.exists /\ ~pvc.exists
  BY <1>1, <1>2
<1>5. TypeOK
  BY <1>2, <1>3, <1>4, Zenon DEF TypeOK
<1>6. CopiesKnown /\ ClassMatchesVolume /\ Accepted
  BY <1>4, Zenon DEF CopiesKnown, ClassMatchesVolume, Accepted
<1>7. FollowsLast /\ ExplicitWins
  BY <1>4, Zenon DEF FollowsLast, ExplicitWins
<1>8. QED
  BY <1>5, <1>6, <1>7 DEF AdmissionInv

-----------------------------------------------------------------------------
(***************************************************************************)
(* What a stored instance is, through every sequence of creations,         *)
(* replacements, applies, patches, latches and changes of the cluster      *)
(* defaults: complete, valid, with a pinned image, and saying what the     *)
(* last manifest says.                                                     *)
(***************************************************************************)
THEOREM AdmissionInvHolds == Spec => []AdmissionInv
BY AdmissionStart, AdmissionStep, PTL DEF Spec

\* The variables have their types, and a stored instance has every field the
\* schema gives a default, which the builders read without a check.
THEOREM AdmissionTypeCorrect == Spec => []TypeOK
<1>1. AdmissionInv => TypeOK
  BY DEF AdmissionInv
<1>2. QED
  BY <1>1, AdmissionInvHolds, PTL

\* The patches of finalizers, annotations and skills by the operator are never
\* refused by its own webhooks, whatever the cluster defaults have become.
THEOREM OwnWritesAlwaysAdmitted == Spec => []OwnWritesAdmitted
BY OwnWrites, AdmissionInvHolds, PTL

\* The defaulting webhook never overrides a value the last manifest sets,
\* except for the key of a CA bundle that the manifest does not name.
THEOREM ExplicitAlwaysWins == Spec => []ExplicitWins
<1>1. AdmissionInv => ExplicitWins
  BY DEF AdmissionInv
<1>2. QED
  BY <1>1, AdmissionInvHolds, PTL

\* The last manifest can be submitted again by kubectl replace as long as the
\* defaults still fit, after a restore or a migration too.
THEOREM ResyncAlwaysAdmitted == Spec => []ResyncAdmitted
BY Resynced, AdmissionInvHolds, PTL

\* The storage class a claim was created with stays the class of the spec,
\* although the claim is created from a cached copy that may be behind.
THEOREM ClassStaysWithVolume == Spec => []ClassMatchesVolume
<1>1. AdmissionInv => ClassMatchesVolume
  BY DEF AdmissionInv
<1>2. QED
  BY <1>1, AdmissionInvHolds, PTL

=============================================================================
