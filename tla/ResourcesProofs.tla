-------------------------- MODULE ResourcesProofs --------------------------
(***************************************************************************)
(* Proofs that the objects built from an admitted instance fit together,   *)
(* for any lists of containers, volumes, mounts and ports.                 *)
(***************************************************************************)
EXTENDS AdmissionProofs, SequenceTheorems

-----------------------------------------------------------------------------
(***************************************************************************)
(* Sequences of things with names.                                         *)
(***************************************************************************)

\* The elements of a concatenation.
LEMMA ConcatSet ==
    ASSUME NEW S, NEW a \in Seq(S), NEW b \in Seq(S)
    PROVE  a \o b \in Seq(S) /\ ToSet(a \o b) = ToSet(a) \cup ToSet(b)
<1> DEFINE c == a \o b
<1>1. /\ c \in Seq(S) /\ Len(c) = Len(a) + Len(b)
      /\ \A i \in 1..(Len(a) + Len(b)) :
           c[i] = IF i <= Len(a) THEN a[i] ELSE b[i - Len(a)]
  BY ConcatProperties
<1>2. /\ DOMAIN a = 1..Len(a) /\ DOMAIN b = 1..Len(b) /\ DOMAIN c = 1..Len(c)
      /\ Len(a) \in Nat /\ Len(b) \in Nat
  BY <1>1, LenProperties
<1> HIDE DEF c
<1>3. ASSUME NEW i \in DOMAIN c PROVE c[i] \in ToSet(a) \cup ToSet(b)
  <2>1. CASE i <= Len(a)
    BY <1>1, <1>2, <2>1 DEF ToSet
  <2>2. CASE ~(i <= Len(a))
    <3>1. i - Len(a) \in DOMAIN b /\ c[i] = b[i - Len(a)]
      BY <1>1, <1>2, <2>2
    <3>2. QED
      BY <3>1 DEF ToSet
  <2>3. QED
    BY <2>1, <2>2
<1>4. ASSUME NEW i \in DOMAIN a PROVE a[i] \in ToSet(c)
  <2>1. i \in DOMAIN c /\ c[i] = a[i]
    BY <1>1, <1>2
  <2>2. QED
    BY <2>1 DEF ToSet
<1>5. ASSUME NEW i \in DOMAIN b PROVE b[i] \in ToSet(c)
  <2>1. i + Len(a) \in DOMAIN c /\ c[i + Len(a)] = b[i]
    BY <1>1, <1>2
  <2>2. QED
    BY <2>1 DEF ToSet
<1>6. ToSet(c) = ToSet(a) \cup ToSet(b)
  BY <1>3, <1>4, <1>5 DEF ToSet
<1>7. QED
  BY <1>1, <1>6 DEF c

\* The elements of two of them.
LEMMA ConcatThree ==
    ASSUME NEW S, NEW a \in Seq(S), NEW b \in Seq(S), NEW c \in Seq(S)
    PROVE  /\ (a \o b) \o c \in Seq(S)
           /\ ToSet((a \o b) \o c) = (ToSet(a) \cup ToSet(b)) \cup ToSet(c)
<1> DEFINE d == a \o b
<1>1. d \in Seq(S) /\ ToSet(d) = ToSet(a) \cup ToSet(b)
  BY ConcatSet
<1> HIDE DEF d
<1>2. d \o c \in Seq(S) /\ ToSet(d \o c) = ToSet(d) \cup ToSet(c)
  BY <1>1, ConcatSet
<1>3. QED
  BY <1>1, <1>2 DEF d

\* A concatenation without repetition.
LEMMA ConcatDistinct ==
    ASSUME NEW S, NEW a \in Seq(S), NEW b \in Seq(S), Distinct(a \o b)
    PROVE  Distinct(a) /\ Distinct(b) /\ ToSet(a) \cap ToSet(b) = {}
<1> DEFINE c == a \o b
<1>1. /\ c \in Seq(S) /\ Len(c) = Len(a) + Len(b)
      /\ \A i \in 1..(Len(a) + Len(b)) :
           c[i] = IF i <= Len(a) THEN a[i] ELSE b[i - Len(a)]
  BY ConcatProperties
<1>2. /\ DOMAIN a = 1..Len(a) /\ DOMAIN b = 1..Len(b) /\ DOMAIN c = 1..Len(c)
      /\ Len(a) \in Nat /\ Len(b) \in Nat
  BY <1>1, LenProperties
<1>3. \A i, j \in DOMAIN c : c[i] = c[j] => i = j
  BY DEF Distinct
<1> HIDE DEF c
<1>4. \A i \in DOMAIN a : i \in DOMAIN c /\ c[i] = a[i]
  BY <1>1, <1>2
<1>5. \A i \in DOMAIN b : i + Len(a) \in DOMAIN c /\ c[i + Len(a)] = b[i]
  BY <1>1, <1>2
<1>6. Distinct(a)
  BY <1>3, <1>4 DEF Distinct
<1>7. Distinct(b)
  <2>1. ASSUME NEW i \in DOMAIN b, NEW j \in DOMAIN b, b[i] = b[j]
        PROVE  i = j
    <3>1. i + Len(a) = j + Len(a)
      BY <1>3, <1>5, <2>1
    <3>2. QED
      BY <1>2, <3>1
  <2>2. QED
    BY <2>1 DEF Distinct
<1>8. ASSUME NEW i \in DOMAIN a, NEW j \in DOMAIN b PROVE a[i] # b[j]
  <2>1. i # j + Len(a)
    BY <1>2
  <2>2. QED
    BY <1>3, <1>4, <1>5, <2>1
<1>9. QED
  BY <1>6, <1>7, <1>8 DEF ToSet

\* A sequence in which no name, all of them out of N, comes twice.
Unique(s, S, N) ==
    /\ s \in Seq(S)
    /\ \A i, j \in DOMAIN s : s[i].name = s[j].name => i = j
    /\ \A x \in ToSet(s) : x.name \in N

\* Two such sequences with different names.
LEMMA UniqueConcat ==
    ASSUME NEW S, NEW a, NEW b, NEW M, NEW N, Unique(a, S, M), Unique(b, S, N),
           M \cap N = {}
    PROVE  Unique(a \o b, S, M \cup N)
<1> DEFINE c == a \o b
<1>1. a \in Seq(S) /\ b \in Seq(S)
  BY DEF Unique
<1>2. /\ c \in Seq(S) /\ Len(c) = Len(a) + Len(b)
      /\ \A i \in 1..(Len(a) + Len(b)) :
           c[i] = IF i <= Len(a) THEN a[i] ELSE b[i - Len(a)]
  BY <1>1, ConcatProperties
<1>3. /\ DOMAIN a = 1..Len(a) /\ DOMAIN b = 1..Len(b) /\ DOMAIN c = 1..Len(c)
      /\ Len(a) \in Nat /\ Len(b) \in Nat
  BY <1>1, <1>2, LenProperties
<1>4. ToSet(c) = ToSet(a) \cup ToSet(b)
  BY <1>1, ConcatSet
<1> HIDE DEF c
<1>5. \A i \in DOMAIN a : a[i].name \in M
  BY DEF Unique, ToSet
<1>6. \A i \in DOMAIN b : b[i].name \in N
  BY DEF Unique, ToSet
<1>7. ASSUME NEW i \in DOMAIN c
      PROVE  \/ i \in DOMAIN a /\ c[i] = a[i]
             \/ i - Len(a) \in DOMAIN b /\ c[i] = b[i - Len(a)]
  BY <1>2, <1>3
<1>8. ASSUME NEW i \in DOMAIN c, NEW j \in DOMAIN c, c[i].name = c[j].name
      PROVE  i = j
  <2>1. CASE i \in DOMAIN a /\ c[i] = a[i] /\ j \in DOMAIN a /\ c[j] = a[j]
    BY <1>8, <2>1 DEF Unique
  <2>2. CASE /\ i - Len(a) \in DOMAIN b /\ c[i] = b[i - Len(a)]
             /\ j - Len(a) \in DOMAIN b /\ c[j] = b[j - Len(a)]
    <3>1. i - Len(a) = j - Len(a)
      BY <1>8, <2>2 DEF Unique
    <3>2. QED
      BY <1>2, <1>3, <3>1
  <2>3. CASE /\ i \in DOMAIN a /\ c[i] = a[i]
             /\ j - Len(a) \in DOMAIN b /\ c[j] = b[j - Len(a)]
    BY <1>5, <1>6, <1>8, <2>3
  <2>4. CASE /\ j \in DOMAIN a /\ c[j] = a[j]
             /\ i - Len(a) \in DOMAIN b /\ c[i] = b[i - Len(a)]
    BY <1>5, <1>6, <1>8, <2>4
  <2>5. QED
    BY <1>7, <2>1, <2>2, <2>3, <2>4
<1>9. \A x \in ToSet(c) : x.name \in M \cup N
  BY <1>4 DEF Unique
<1>10. QED
  BY <1>2, <1>8, <1>9 DEF Unique, c

\* One thing, or none.
LEMMA UniqueWhen ==
    ASSUME NEW S, NEW x \in S, NEW p
    PROVE  /\ Unique(SeqWhen(p, <<x>>), S, {x.name})
           /\ ToSet(SeqWhen(p, <<x>>)) = When(p, {x})
<1>1. CASE p
  <2>1. SeqWhen(p, <<x>>) = <<x>>
    BY <1>1 DEF SeqWhen
  <2>2. <<x>> \in Seq(S) /\ DOMAIN <<x>> = {1} /\ <<x>>[1] = x
    OBVIOUS
  <2>3. ToSet(<<x>>) = {x}
    BY <2>2 DEF ToSet
  <2>4. QED
    <3>1. \A i, j \in DOMAIN <<x>> : i = j
      BY <2>2
    <3>2. Unique(<<x>>, S, {x.name})
      BY <2>2, <2>3, <3>1, Zenon DEF Unique
    <3>3. QED
      BY <1>1, <2>1, <2>3, <3>2 DEF When
<1>2. CASE ~p
  <2>1. SeqWhen(p, <<x>>) = <<>>
    BY <1>2 DEF SeqWhen
  <2>2. <<>> \in Seq(S) /\ DOMAIN <<>> = {}
    OBVIOUS
  <2>3. ToSet(<<>>) = {}
    BY <2>2 DEF ToSet
  <2>4. QED
    BY <1>2, <2>1, <2>2, <2>3 DEF Unique, When
<1>3. QED
  BY <1>1, <1>2

\* Such a sequence has distinct names.
LEMMA UniqueNames ==
    ASSUME NEW S, NEW s, NEW N, Unique(s, S, N)
    PROVE  Distinct(Names(s))
<1>1. DOMAIN Names(s) = DOMAIN s /\ \A i \in DOMAIN s : Names(s)[i] = s[i].name
  BY DEF Names
<1>2. QED
  BY <1>1 DEF Distinct, Unique

\* The names of a sequence are those of its elements.
LEMMA NamesSet ==
    ASSUME NEW s
    PROVE  ToSet(Names(s)) = {x.name : x \in ToSet(s)}
<1>1. DOMAIN Names(s) = DOMAIN s /\ \A i \in DOMAIN s : Names(s)[i] = s[i].name
  BY DEF Names
<1>2. QED
  BY <1>1 DEF ToSet

\* Two things, or none.
LEMMA UniqueWhenTwo ==
    ASSUME NEW S, NEW x \in S, NEW y \in S, x.name # y.name, NEW p
    PROVE  /\ Unique(SeqWhen(p, <<x, y>>), S, {x.name, y.name})
           /\ ToSet(SeqWhen(p, <<x, y>>)) = When(p, {x, y})
<1> DEFINE s == <<x, y>>
<1>1. /\ s \in Seq(S) /\ DOMAIN s = {1, 2} /\ s[1] = x /\ s[2] = y
      /\ <<>> \in Seq(S) /\ DOMAIN <<>> = {}
  OBVIOUS
<1> HIDE DEF s
<1>2. ToSet(s) = {x, y}
  BY <1>1 DEF ToSet
<1>3. \A i, j \in DOMAIN s : s[i].name = s[j].name => i = j
  BY <1>1
<1>4. Unique(s, S, {x.name, y.name})
  BY <1>1, <1>2, <1>3, Zenon DEF Unique
<1>5. ToSet(<<>>) = {} /\ Unique(<<>>, S, {x.name, y.name})
  BY <1>1 DEF ToSet, Unique
<1>6. SeqWhen(p, s) = IF p THEN s ELSE <<>>
  BY DEF SeqWhen
<1>7. QED
  BY <1>2, <1>4, <1>5, <1>6 DEF When, s

\* Four things.
LEMMA UniqueFour ==
    ASSUME NEW S, NEW s \in Seq(S), DOMAIN s = {1, 2, 3, 4},
           s[1].name # s[2].name, s[1].name # s[3].name, s[1].name # s[4].name,
           s[2].name # s[3].name, s[2].name # s[4].name, s[3].name # s[4].name
    PROVE  /\ Unique(s, S, {s[1].name, s[2].name, s[3].name, s[4].name})
           /\ ToSet(s) = {s[1], s[2], s[3], s[4]}
<1>1. ToSet(s) = {s[1], s[2], s[3], s[4]}
  BY DEF ToSet
<1>2. \A i, j \in DOMAIN s : s[i].name = s[j].name => i = j
  OBVIOUS
<1>3. Unique(s, S, {s[1].name, s[2].name, s[3].name, s[4].name})
  BY <1>1, <1>2, Zenon DEF Unique
<1>4. QED
  BY <1>1, <1>3

-----------------------------------------------------------------------------
(***************************************************************************)
(* The containers and volumes of the pod.                                  *)
(***************************************************************************)
InitRestore == Container("init-restore", {}, {"data"}, {})

InitMigrate ==
    Container("init-migrate-from-openclaw", {}, {"openclaw-source", "data"}, {})

Plain(name) == Container(name, {}, {}, {})

RestoreWanted(i) ==
    i.restoreFrom # "" /\ i.restoredFrom # i.restoreFrom /\ "s3" \in i.on

MigrateWanted(i) ==
    MigrationPending(i) /\ i.source \in {"instance", "backup", "both"}

TailscaleOn(i) == "tailscale" \in i.on

AnyContainer(i) ==
    {InitRestore, InitMigrate, HermesContainer(i), TailscaleSidecar}
    \cup {Plain(x) : x \in Texts}

ContainersOf(i) ==
    When(RestoreWanted(i), {InitRestore})
    \cup When(MigrateWanted(i), {InitMigrate})
    \cup {Plain(x) : x \in ToSet(i.inits)}
    \cup {HermesContainer(i)}
    \cup When(TailscaleOn(i), {TailscaleSidecar})
    \cup {Plain(x) : x \in ToSet(i.sidecars)}

\* What the user lists.
LEMMA UserList ==
    ASSUME NEW S, NEW names \in Seq(Texts), {Plain(x) : x \in Texts} \subseteq S
    PROVE  /\ UserContainers(names) \in Seq(S)
           /\ ToSet(UserContainers(names)) = {Plain(x) : x \in ToSet(names)}
           /\ Distinct(names) => Unique(UserContainers(names), S, ToSet(names))
<1> DEFINE u == UserContainers(names)
<1>1. DOMAIN names = 1..Len(names) /\ Len(names) \in Nat
      /\ \A n \in DOMAIN names : names[n] \in Texts
  BY LenProperties
<1>2. DOMAIN u = 1..Len(names) /\ \A n \in DOMAIN names : u[n] = Plain(names[n])
  BY <1>1 DEF UserContainers, Plain
<1>3. u \in Seq(S)
  <2>1. u \in [1..Len(names) -> S]
    BY <1>1 DEF UserContainers, Plain
  <2>2. QED
    BY <1>1, <2>1, SeqDef
<1> HIDE DEF u
<1>4. ToSet(u) = {Plain(x) : x \in ToSet(names)}
  BY <1>1, <1>2 DEF ToSet
<1>5. \A x : Plain(x).name = x
  BY DEF Plain, Container
<1>6. ASSUME Distinct(names) PROVE Unique(u, S, ToSet(names))
  <2>1. \A i, j \in DOMAIN u : u[i].name = u[j].name => i = j
    BY <1>1, <1>2, <1>5, <1>6 DEF Distinct
  <2>2. \A x \in ToSet(u) : x.name \in ToSet(names)
    BY <1>4, <1>5
  <2>3. QED
    BY <1>3, <2>1, <2>2 DEF Unique
<1>7. QED
  BY <1>3, <1>4, <1>6 DEF u

\* The lists of a manifest.
LEMMA ListsOf ==
    ASSUME NEW i \in Manifests
    PROVE  /\ i.sidecars \in Seq(Texts) /\ i.inits \in Seq(Texts)
           /\ i.volumes \in Seq(Texts) /\ i.mounts \in Seq(Texts)
<1>1. i.sidecars \in Seq(Texts)
  BY DEF Manifests
<1>2. i.inits \in Seq(Texts)
  BY DEF Manifests
<1>3. i.volumes \in Seq(Texts)
  BY DEF Manifests
<1>4. i.mounts \in Seq(Texts)
  BY DEF Manifests
<1>5. QED
  BY <1>1, <1>2, <1>3, <1>4

\* The parts of the pod.
LEMMA PodParts ==
    ASSUME NEW i
    PROVE  /\ BuildStatefulSet(i).inits =
                (SeqWhen(RestoreWanted(i), <<InitRestore>>)
                 \o SeqWhen(MigrateWanted(i), <<InitMigrate>>))
                \o UserContainers(i.inits)
           /\ BuildStatefulSet(i).containers =
                (<<HermesContainer(i)>>
                 \o SeqWhen(TailscaleOn(i), <<TailscaleSidecar>>))
                \o UserContainers(i.sidecars)
           /\ BuildStatefulSet(i).volumes = Volumes(i)
<1>1. BuildStatefulSet(i).inits = ExtraInits(i) \o UserContainers(i.inits)
  BY Zenon DEF BuildStatefulSet
<1>2. ExtraInits(i) = SeqWhen(RestoreWanted(i), <<InitRestore>>)
                      \o SeqWhen(MigrateWanted(i), <<InitMigrate>>)
  BY Zenon DEF ExtraInits, RestoreWanted, MigrateWanted, InitRestore,
               InitMigrate
<1>3. BuildStatefulSet(i).containers =
        (<<HermesContainer(i)>>
         \o SeqWhen(TailscaleOn(i), <<TailscaleSidecar>>))
        \o UserContainers(i.sidecars)
  BY Zenon DEF BuildStatefulSet, TailscaleOn
<1>4. BuildStatefulSet(i).volumes = Volumes(i)
  BY Zenon DEF BuildStatefulSet
<1>5. QED
  BY <1>1, <1>2, <1>3, <1>4

\* The names the operator gives.
LEMMA ContainerNames ==
    ASSUME NEW i
    PROVE  /\ InitRestore.name = "init-restore"
           /\ InitMigrate.name = "init-migrate-from-openclaw"
           /\ HermesContainer(i).name = "hermes"
           /\ TailscaleSidecar.name = "tailscale"
BY DEF InitRestore, InitMigrate, HermesContainer, TailscaleSidecar, Container

\* One container alone.
LEMMA UniqueOne ==
    ASSUME NEW S, NEW x \in S
    PROVE  Unique(<<x>>, S, {x.name}) /\ ToSet(<<x>>) = {x}
<1>1. SeqWhen(TRUE, <<x>>) = <<x>> /\ When(TRUE, {x}) = {x}
  BY DEF SeqWhen, When
<1>2. /\ Unique(SeqWhen(TRUE, <<x>>), S, {x.name})
      /\ ToSet(SeqWhen(TRUE, <<x>>)) = When(TRUE, {x})
  BY UniqueWhen
<1>3. QED
  BY <1>1, <1>2

\* The containers of the pod, init containers first.
LEMMA PodContainers ==
    ASSUME NEW i \in Manifests
    PROVE  LET all == BuildStatefulSet(i).inits
                      \o BuildStatefulSet(i).containers
           IN  /\ all \in Seq(AnyContainer(i))
               /\ ToSet(all) = ContainersOf(i)
               /\ BuildStatefulSet(i).containers \in Seq(AnyContainer(i))
               /\ ToSet(BuildStatefulSet(i).containers) =
                    {HermesContainer(i)}
                    \cup When(TailscaleOn(i), {TailscaleSidecar})
                    \cup {Plain(x) : x \in ToSet(i.sidecars)}
<1> DEFINE S == AnyContainer(i)
           a1 == SeqWhen(RestoreWanted(i), <<InitRestore>>)
           a2 == SeqWhen(MigrateWanted(i), <<InitMigrate>>)
           a3 == UserContainers(i.inits)
           b1 == <<HermesContainer(i)>>
           b2 == SeqWhen(TailscaleOn(i), <<TailscaleSidecar>>)
           b3 == UserContainers(i.sidecars)
<1>1. /\ InitRestore \in S /\ InitMigrate \in S /\ HermesContainer(i) \in S
      /\ TailscaleSidecar \in S /\ {Plain(x) : x \in Texts} \subseteq S
  BY DEF AnyContainer
<1>2. /\ a1 \in Seq(S) /\ ToSet(a1) = When(RestoreWanted(i), {InitRestore})
      /\ a2 \in Seq(S) /\ ToSet(a2) = When(MigrateWanted(i), {InitMigrate})
      /\ b1 \in Seq(S) /\ ToSet(b1) = {HermesContainer(i)}
      /\ b2 \in Seq(S) /\ ToSet(b2) = When(TailscaleOn(i), {TailscaleSidecar})
  <2>1. a1 \in Seq(S) /\ ToSet(a1) = When(RestoreWanted(i), {InitRestore})
    BY <1>1, UniqueWhen, Zenon DEF Unique
  <2>2. a2 \in Seq(S) /\ ToSet(a2) = When(MigrateWanted(i), {InitMigrate})
    BY <1>1, UniqueWhen, Zenon DEF Unique
  <2>3. b1 \in Seq(S) /\ ToSet(b1) = {HermesContainer(i)}
    BY <1>1, UniqueOne, Zenon DEF Unique
  <2>4. b2 \in Seq(S) /\ ToSet(b2) = When(TailscaleOn(i), {TailscaleSidecar})
    BY <1>1, UniqueWhen, Zenon DEF Unique
  <2>5. QED
    BY <2>1, <2>2, <2>3, <2>4
<1>3. /\ a3 \in Seq(S) /\ ToSet(a3) = {Plain(x) : x \in ToSet(i.inits)}
      /\ b3 \in Seq(S) /\ ToSet(b3) = {Plain(x) : x \in ToSet(i.sidecars)}
  BY <1>1, ListsOf, UserList
<1>4. /\ BuildStatefulSet(i).inits = (a1 \o a2) \o a3
      /\ BuildStatefulSet(i).containers = (b1 \o b2) \o b3
  BY PodParts
<1> DEFINE A == (a1 \o a2) \o a3
           B == (b1 \o b2) \o b3
<1>5. BuildStatefulSet(i).inits = A /\ BuildStatefulSet(i).containers = B
  BY <1>4
<1> HIDE DEF S, a1, a2, a3, b1, b2, b3
<1>6. /\ A \in Seq(S)
      /\ ToSet(A) = (ToSet(a1) \cup ToSet(a2)) \cup ToSet(a3)
  BY <1>2, <1>3, ConcatThree
<1>7. /\ B \in Seq(S)
      /\ ToSet(B) = (ToSet(b1) \cup ToSet(b2)) \cup ToSet(b3)
  BY <1>2, <1>3, ConcatThree
<1> HIDE DEF A, B
<1>8. A \o B \in Seq(S) /\ ToSet(A \o B) = ToSet(A) \cup ToSet(B)
  BY <1>6, <1>7, ConcatSet
<1>9. ToSet(A) \cup ToSet(B) = ContainersOf(i)
  <2>1. ToSet(A) \cup ToSet(B) =
          ((ToSet(a1) \cup ToSet(a2)) \cup ToSet(a3))
          \cup ((ToSet(b1) \cup ToSet(b2)) \cup ToSet(b3))
    BY <1>6, <1>7, Zenon
  <2>2. ContainersOf(i) = ToSet(a1) \cup ToSet(a2) \cup ToSet(a3)
                          \cup ToSet(b1) \cup ToSet(b2) \cup ToSet(b3)
    BY <1>2, <1>3, Zenon DEF ContainersOf
  <2>3. QED
    BY <2>1, <2>2
<1>10. ToSet(B) =
         {HermesContainer(i)} \cup When(TailscaleOn(i), {TailscaleSidecar})
         \cup {Plain(x) : x \in ToSet(i.sidecars)}
  BY <1>2, <1>3, <1>7, Zenon
<1>11. QED
  BY <1>5, <1>7, <1>8, <1>9, <1>10, Zenon DEF S

\* Their names are distinct.
LEMMA PodContainersDistinct ==
    ASSUME NEW i \in Manifests, UserNamesFree(i), ValidateTailscale(i)
    PROVE  Distinct(Names(BuildStatefulSet(i).inits
                          \o BuildStatefulSet(i).containers))
<1> DEFINE S == AnyContainer(i)
           a1 == SeqWhen(RestoreWanted(i), <<InitRestore>>)
           a2 == SeqWhen(MigrateWanted(i), <<InitMigrate>>)
           a3 == UserContainers(i.inits)
           b1 == <<HermesContainer(i)>>
           b2 == SeqWhen(TailscaleOn(i), <<TailscaleSidecar>>)
           b3 == UserContainers(i.sidecars)
           I == ToSet(i.inits)
           C == ToSet(i.sidecars)
           T == IF TailscaleOn(i) THEN {"tailscale"} ELSE {}
<1>1. /\ InitRestore \in S /\ InitMigrate \in S /\ HermesContainer(i) \in S
      /\ TailscaleSidecar \in S /\ {Plain(x) : x \in Texts} \subseteq S
  BY DEF AnyContainer
<1>2. /\ Unique(a1, S, {"init-restore"})
      /\ Unique(a2, S, {"init-migrate-from-openclaw"})
      /\ Unique(b1, S, {"hermes"})
      /\ Unique(b2, S, {"tailscale"})
  BY <1>1, UniqueWhen, UniqueOne, ContainerNames
<1>3. /\ i.sidecars \in Seq(Texts) /\ i.inits \in Seq(Texts)
      /\ i.volumes \in Seq(Texts)
  BY ListsOf
<1>4. Distinct(i.sidecars) /\ Distinct(i.inits) /\ C \cap I = {}
  BY <1>3, ConcatDistinct DEF UserNamesFree
<1>5. Unique(a3, S, I) /\ Unique(b3, S, C)
  BY <1>1, <1>3, <1>4, UserList
<1>6. (C \cup I) \cap BuiltIn = {}
  <2>1. ToSet((i.sidecars \o i.inits) \o i.volumes) =
          (C \cup I) \cup ToSet(i.volumes)
    BY <1>3, ConcatThree
  <2>2. ToSet((i.sidecars \o i.inits) \o i.volumes) \cap BuiltIn = {}
    BY DEF UserNamesFree
  <2>3. QED
    BY <2>1, <2>2
<1>7. "tailscale" \notin I /\ (TailscaleOn(i) => "tailscale" \notin C)
  BY DEF UserNamesFree, ValidateTailscale, TailscaleOn
<1>8. Unique(b2, S, T)
  <2>1. CASE TailscaleOn(i)
    BY <1>2, <2>1
  <2>2. CASE ~TailscaleOn(i)
    <3>1. ToSet(b2) = {}
      BY <1>1, <2>2, UniqueWhen DEF When
    <3>2. QED
      BY <1>2, <3>1 DEF Unique
  <2>3. QED
    BY <2>1, <2>2
<1>9. /\ "hermes" \in BuiltIn /\ "init-restore" \in BuiltIn
      /\ "init-migrate-from-openclaw" \in BuiltIn
  BY DEF BuiltIn
<1>10. T \cap (C \cup I) = {} /\ T \subseteq {"tailscale"}
  BY <1>7
<1>11. /\ BuildStatefulSet(i).inits = (a1 \o a2) \o a3
       /\ BuildStatefulSet(i).containers = (b1 \o b2) \o b3
  BY PodParts
<1> HIDE DEF S, a1, a2, a3, b1, b2, b3, I, C, T
<1>12. Unique(a1 \o a2, S, {"init-restore"} \cup {"init-migrate-from-openclaw"})
  BY <1>2, UniqueConcat
<1>13. Unique((a1 \o a2) \o a3, S,
              ({"init-restore"} \cup {"init-migrate-from-openclaw"}) \cup I)
  <2>1. ({"init-restore"} \cup {"init-migrate-from-openclaw"}) \cap I = {}
    BY <1>6, <1>9
  <2>2. QED
    BY <1>5, <1>12, <2>1, UniqueConcat
<1>14. Unique(b1 \o b2, S, {"hermes"} \cup T)
  <2>1. {"hermes"} \cap T = {}
    BY <1>10
  <2>2. QED
    BY <1>2, <1>8, <2>1, UniqueConcat
<1>15. Unique((b1 \o b2) \o b3, S, ({"hermes"} \cup T) \cup C)
  <2>1. ({"hermes"} \cup T) \cap C = {}
    BY <1>6, <1>9, <1>10
  <2>2. QED
    BY <1>5, <1>14, <2>1, UniqueConcat, Zenon
<1>16. (({"init-restore"} \cup {"init-migrate-from-openclaw"}) \cup I)
         \cap (({"hermes"} \cup T) \cup C) = {}
  BY <1>4, <1>6, <1>9, <1>10 DEF I, C
<1>17. Unique(((a1 \o a2) \o a3) \o ((b1 \o b2) \o b3), S,
              (({"init-restore"} \cup {"init-migrate-from-openclaw"}) \cup I)
                \cup (({"hermes"} \cup T) \cup C))
  BY <1>13, <1>15, <1>16, UniqueConcat
<1>18. QED
  BY <1>11, <1>17, UniqueNames

-----------------------------------------------------------------------------
Vconfig == Volume("config", Needs("ConfigMap", "inst-config", "config.yaml"))

Vdata == Volume("data", Needs("PVC", "inst-data", ""))

Vtmp == Volume("tmp", {})

Vworkspace == Volume("workspace", Needs("ConfigMap", "inst-workspace", ""))

Vserve == Volume("tailscale-serve",
                 Needs("ConfigMap", "inst-config", "tailscale-serve.json"))

Vtstmp == Volume("tailscale-tmp", {})

PlainVolume(name) == Volume(name, {})

UserVolumes(i) == [n \in DOMAIN i.volumes |-> Volume(i.volumes[n], {})]

AnyVolume(i) ==
    {Vconfig, Vdata, Vtmp, Vworkspace, CABundleVolume(i), Vserve, Vtstmp,
     SourceVolume(i)}
    \cup {PlainVolume(x) : x \in Texts}

VolumesOf(i) ==
    {Vconfig, Vdata, Vtmp, Vworkspace}
    \cup When(HasCABundle(i), {CABundleVolume(i)})
    \cup When(TailscaleOn(i), {Vserve, Vtstmp})
    \cup {PlainVolume(x) : x \in ToSet(i.volumes)}
    \cup When(MigrationPending(i), {SourceVolume(i)})

\* The names of the volumes.
LEMMA VolumeNames ==
    ASSUME NEW i
    PROVE  /\ Vconfig.name = "config" /\ Vdata.name = "data"
           /\ Vtmp.name = "tmp" /\ Vworkspace.name = "workspace"
           /\ CABundleVolume(i).name = "ca-bundle"
           /\ Vserve.name = "tailscale-serve" /\ Vtstmp.name = "tailscale-tmp"
           /\ SourceVolume(i).name = "openclaw-source"
           /\ \A x : PlainVolume(x).name = x /\ PlainVolume(x).needs = {}
<1>1. \A n, d : Volume(n, d).name = n /\ Volume(n, d).needs = d
  BY DEF Volume
<1>2. QED
  BY <1>1, Zenon DEF Vconfig, Vdata, Vtmp, Vworkspace, CABundleVolume, Vserve,
                     Vtstmp, SourceVolume, PlainVolume

\* The volumes the user lists.
LEMMA UserVolumeList ==
    ASSUME NEW i \in Manifests, NEW S,
           {PlainVolume(x) : x \in Texts} \subseteq S
    PROVE  /\ UserVolumes(i) \in Seq(S)
           /\ ToSet(UserVolumes(i)) = {PlainVolume(x) : x \in ToSet(i.volumes)}
           /\ Distinct(i.volumes) =>
                Unique(UserVolumes(i), S, ToSet(i.volumes))
<1> DEFINE names == i.volumes
           u == UserVolumes(i)
<1>0. names \in Seq(Texts)
  BY ListsOf
<1> HIDE DEF names
<1>1. DOMAIN names = 1..Len(names) /\ Len(names) \in Nat
      /\ \A n \in DOMAIN names : names[n] \in Texts
  BY <1>0, LenProperties
<1>2. u = [n \in DOMAIN names |-> PlainVolume(names[n])]
  BY DEF UserVolumes, PlainVolume, names
<1> HIDE DEF u
<1>3. DOMAIN u = 1..Len(names)
      /\ \A n \in DOMAIN names : u[n] = PlainVolume(names[n])
  BY <1>1, <1>2
<1>4. u \in Seq(S)
  <2>1. u \in [1..Len(names) -> S]
    BY <1>1, <1>2
  <2>2. QED
    BY <1>1, <2>1, SeqDef
<1>5. ToSet(u) = {PlainVolume(x) : x \in ToSet(names)}
  BY <1>1, <1>3 DEF ToSet
<1>6. \A x : PlainVolume(x).name = x
  BY VolumeNames
<1>7. ASSUME Distinct(names) PROVE Unique(u, S, ToSet(names))
  <2>1. \A j, k \in DOMAIN u : u[j].name = u[k].name => j = k
    BY <1>1, <1>3, <1>6, <1>7 DEF Distinct
  <2>2. \A x \in ToSet(u) : x.name \in ToSet(names)
    BY <1>5, <1>6
  <2>3. QED
    BY <1>4, <2>1, <2>2 DEF Unique
<1>8. QED
  BY <1>4, <1>5, <1>7 DEF u, names

\* The volumes of the pod.
LEMMA PodVolumes ==
    ASSUME NEW i \in Manifests
    PROVE  /\ Volumes(i) \in Seq(AnyVolume(i))
           /\ ToSet(Volumes(i)) = VolumesOf(i)
           /\ UserNamesFree(i) /\ ValidateTailscale(i)
                => Distinct(Names(Volumes(i)))
<1> DEFINE S == AnyVolume(i)
           v1 == <<Vconfig, Vdata, Vtmp, Vworkspace>>
           v2 == SeqWhen(HasCABundle(i), <<CABundleVolume(i)>>)
           v3 == SeqWhen(TailscaleOn(i), <<Vserve, Vtstmp>>)
           v4 == UserVolumes(i)
           v5 == SeqWhen(MigrationPending(i), <<SourceVolume(i)>>)
           N1 == {"config", "data", "tmp", "workspace"}
           N3 == When(TailscaleOn(i), {"tailscale-serve", "tailscale-tmp"})
           N4 == ToSet(i.volumes)
<1>1. /\ Vconfig \in S /\ Vdata \in S /\ Vtmp \in S /\ Vworkspace \in S
      /\ CABundleVolume(i) \in S /\ Vserve \in S /\ Vtstmp \in S
      /\ SourceVolume(i) \in S /\ {PlainVolume(x) : x \in Texts} \subseteq S
  BY DEF AnyVolume
<1>2. Volumes(i) = (((v1 \o v2) \o v3) \o v4) \o v5
  BY Zenon DEF Volumes, Vconfig, Vdata, Vtmp, Vworkspace, TailscaleOn, Vserve,
               Vtstmp, UserVolumes
<1>3. /\ Unique(v1, S, N1)
      /\ ToSet(v1) = {Vconfig, Vdata, Vtmp, Vworkspace}
  <2>1. /\ v1 \in Seq(S) /\ DOMAIN v1 = {1, 2, 3, 4}
        /\ v1[1] = Vconfig /\ v1[2] = Vdata /\ v1[3] = Vtmp
        /\ v1[4] = Vworkspace
    BY <1>1
  <2> HIDE DEF v1
  <2>2. /\ v1[1].name = "config" /\ v1[2].name = "data" /\ v1[3].name = "tmp"
        /\ v1[4].name = "workspace"
    BY <2>1, VolumeNames
  <2>3. /\ Unique(v1, S, {v1[1].name, v1[2].name, v1[3].name, v1[4].name})
        /\ ToSet(v1) = {v1[1], v1[2], v1[3], v1[4]}
    BY <2>1, <2>2, UniqueFour
  <2>4. QED
    BY <2>1, <2>2, <2>3, Zenon
<1>4. /\ Unique(v2, S, {"ca-bundle"})
      /\ ToSet(v2) = When(HasCABundle(i), {CABundleVolume(i)})
  <2>1. /\ Unique(v2, S, {CABundleVolume(i).name})
        /\ ToSet(v2) = When(HasCABundle(i), {CABundleVolume(i)})
    BY <1>1, UniqueWhen, Zenon
  <2>2. QED
    BY <2>1, VolumeNames
<1>5. /\ Unique(v3, S, N3)
      /\ ToSet(v3) = When(TailscaleOn(i), {Vserve, Vtstmp})
  <2>1. Vserve.name # Vtstmp.name
    BY VolumeNames
  <2>2. /\ Unique(v3, S, {Vserve.name, Vtstmp.name})
        /\ ToSet(v3) = When(TailscaleOn(i), {Vserve, Vtstmp})
    BY <1>1, <2>1, UniqueWhenTwo, Zenon
  <2>3. Unique(v3, S, {"tailscale-serve", "tailscale-tmp"})
    BY <2>2, VolumeNames
  <2>4. CASE TailscaleOn(i)
    BY <2>2, <2>3, <2>4 DEF When
  <2>5. CASE ~TailscaleOn(i)
    <3>1. ToSet(v3) = {}
      BY <2>2, <2>5 DEF When
    <3>2. QED
      BY <2>2, <2>3, <3>1 DEF Unique
  <2>6. QED
    BY <2>4, <2>5
<1>6. /\ v4 \in Seq(S)
      /\ ToSet(v4) = {PlainVolume(x) : x \in ToSet(i.volumes)}
      /\ Distinct(i.volumes) => Unique(v4, S, N4)
  BY <1>1, UserVolumeList
<1>7. /\ Unique(v5, S, {"openclaw-source"})
      /\ ToSet(v5) = When(MigrationPending(i), {SourceVolume(i)})
  <2>1. /\ Unique(v5, S, {SourceVolume(i).name})
        /\ ToSet(v5) = When(MigrationPending(i), {SourceVolume(i)})
    BY <1>1, UniqueWhen, Zenon
  <2>2. QED
    BY <2>1, VolumeNames
<1>8. UserNamesFree(i) => Distinct(i.volumes) /\ N4 \cap BuiltIn = {}
  <2> SUFFICES ASSUME UserNamesFree(i)
               PROVE  Distinct(i.volumes) /\ N4 \cap BuiltIn = {}
    OBVIOUS
  <2>1. /\ i.sidecars \in Seq(Texts) /\ i.inits \in Seq(Texts)
        /\ i.volumes \in Seq(Texts)
    BY ListsOf
  <2>2. ToSet((i.sidecars \o i.inits) \o i.volumes) =
          (ToSet(i.sidecars) \cup ToSet(i.inits)) \cup N4
    BY <2>1, ConcatThree
  <2>3. /\ ToSet((i.sidecars \o i.inits) \o i.volumes) \cap BuiltIn = {}
        /\ Distinct(i.volumes)
    BY DEF UserNamesFree
  <2>4. QED
    BY <2>2, <2>3
<1>9. ValidateTailscale(i) => N3 \cap N4 = {}
  BY DEF ValidateTailscale, TailscaleOn, When
<1>10. N1 \cup {"ca-bundle", "openclaw-source"} \subseteq BuiltIn
  BY DEF BuiltIn
<1>11. N3 \subseteq {"tailscale-serve", "tailscale-tmp"}
  BY DEF When
<1>12. /\ {"ca-bundle"} \cap N1 = {} /\ "openclaw-source" \notin N1
       /\ N1 \cap {"tailscale-serve", "tailscale-tmp"} = {}
  OBVIOUS
<1> DEFINE w2 == v1 \o v2
           w3 == w2 \o v3
           w4 == w3 \o v4
           w5 == w4 \o v5
           M2 == N1 \cup {"ca-bundle"}
           M3 == M2 \cup N3
           M4 == M3 \cup N4
<1>13. Volumes(i) = w5
  BY <1>2
<1> HIDE DEF S, v1, v2, v3, v4, v5, N1, N3, N4
<1> DEFINE N2 == {"ca-bundle"}
<1>14. Unique(w2, S, M2) /\ ToSet(w2) = ToSet(v1) \cup ToSet(v2)
  <2>1. N1 \cap N2 = {} /\ Unique(v1, S, N1) /\ Unique(v2, S, N2)
    BY <1>3, <1>4, <1>12
  <2> HIDE DEF N2
  <2>2. Unique(v1 \o v2, S, N1 \cup N2)
    BY <2>1, UniqueConcat
  <2>3. v1 \in Seq(S) /\ v2 \in Seq(S)
    BY <2>1 DEF Unique
  <2>4. ToSet(v1 \o v2) = ToSet(v1) \cup ToSet(v2)
    BY <2>3, ConcatSet
  <2>5. QED
    BY <2>2, <2>4, Zenon DEF N2
<1> HIDE DEF w2, M2
<1>15. Unique(w3, S, M3) /\ ToSet(w3) = ToSet(w2) \cup ToSet(v3)
  <2>1. M2 \cap N3 = {}
    BY <1>11, <1>12 DEF M2
  <2>2. Unique(w2, S, M2) /\ Unique(v3, S, N3)
    BY <1>5, <1>14
  <2>3. Unique(w2 \o v3, S, M2 \cup N3)
    BY <2>1, <2>2, UniqueConcat
  <2>4. w2 \in Seq(S) /\ v3 \in Seq(S)
    BY <2>2 DEF Unique
  <2>5. ToSet(w2 \o v3) = ToSet(w2) \cup ToSet(v3)
    BY <2>4, ConcatSet
  <2>6. QED
    BY <2>3, <2>5, Zenon
<1> HIDE DEF w3, M3
<1>16. w3 \in Seq(S) /\ v5 \in Seq(S)
  BY <1>7, <1>15 DEF Unique
<1>17. w4 \in Seq(S) /\ ToSet(w4) = ToSet(w3) \cup ToSet(v4)
  BY <1>6, <1>16, ConcatSet
<1>18. ASSUME UserNamesFree(i), ValidateTailscale(i)
       PROVE  Unique(w4, S, M4)
  <2>1. M3 \cap N4 = {}
    BY <1>8, <1>9, <1>10, <1>18 DEF M3, M2
  <2>2. Unique(v4, S, N4)
    BY <1>6, <1>8, <1>18
  <2>3. QED
    BY <1>15, <2>1, <2>2, UniqueConcat
<1> HIDE DEF w4, M4
<1>19. w5 \in Seq(S) /\ ToSet(w5) = ToSet(w4) \cup ToSet(v5)
  BY <1>16, <1>17, ConcatSet
<1>20. ASSUME UserNamesFree(i), ValidateTailscale(i)
       PROVE  Unique(w5, S, M4 \cup {"openclaw-source"})
  <2>1. M4 \cap {"openclaw-source"} = {}
    BY <1>8, <1>10, <1>11, <1>12, <1>20 DEF M4, M3, M2
  <2>2. QED
    BY <1>7, <1>18, <1>20, <2>1, UniqueConcat
<1> HIDE DEF w5
<1>21. ToSet(w5) = VolumesOf(i)
  <2>1. ToSet(w5) = (((ToSet(v1) \cup ToSet(v2)) \cup ToSet(v3)) \cup ToSet(v4))
                    \cup ToSet(v5)
    BY <1>14, <1>15, <1>17, <1>19
  <2>2. QED
    BY <2>1, <1>3, <1>4, <1>5, <1>6, <1>7, Zenon DEF VolumesOf
<1>22. UserNamesFree(i) /\ ValidateTailscale(i) => Distinct(Names(w5))
  BY <1>20, UniqueNames
<1>23. QED
  BY <1>13, <1>19, <1>21, <1>22 DEF S

-----------------------------------------------------------------------------
(***************************************************************************)
(* The pod is consistent, and what it needs is there.                      *)
(***************************************************************************)
\* What the containers mount and need.
LEMMA ContainerFacts ==
    ASSUME NEW i
    PROVE  /\ InitRestore.mounts = {"data"} /\ InitRestore.needs = {}
           /\ InitMigrate.mounts = {"openclaw-source", "data"}
           /\ InitMigrate.needs = {}
           /\ HermesContainer(i).mounts =
                {"data", "config", "tmp", "workspace"}
                \cup When(HasCABundle(i), {"ca-bundle"}) \cup ToSet(i.mounts)
           /\ HermesContainer(i).needs = AgentRuntimeEnv
           /\ HermesContainer(i).ports =
                {[name |-> "gateway", port |-> GatewayPort]}
           /\ TailscaleSidecar.mounts = {"tailscale-serve", "tailscale-tmp"}
           /\ TailscaleSidecar.needs = {} /\ TailscaleSidecar.ports = {}
           /\ \A x : /\ Plain(x).mounts = {} /\ Plain(x).needs = {}
                     /\ Plain(x).ports = {}
<1>1. \A n, p, m, d : /\ Container(n, p, m, d).ports = p
                      /\ Container(n, p, m, d).mounts = m
                      /\ Container(n, p, m, d).needs = d
  BY DEF Container
<1>2. /\ InitRestore.mounts = {"data"} /\ InitRestore.needs = {}
      /\ InitMigrate.mounts = {"openclaw-source", "data"}
      /\ InitMigrate.needs = {}
  BY <1>1 DEF InitRestore, InitMigrate
<1>3. HermesContainer(i).mounts =
        {"data", "config", "tmp", "workspace"}
        \cup When(HasCABundle(i), {"ca-bundle"}) \cup ToSet(i.mounts)
  BY <1>1 DEF HermesContainer
<1>4. /\ HermesContainer(i).needs = AgentRuntimeEnv
      /\ HermesContainer(i).ports = {[name |-> "gateway", port |-> GatewayPort]}
  BY <1>1 DEF HermesContainer
<1>5. /\ TailscaleSidecar.mounts = {"tailscale-serve", "tailscale-tmp"}
      /\ TailscaleSidecar.needs = {} /\ TailscaleSidecar.ports = {}
  BY <1>1 DEF TailscaleSidecar
<1>6. \A x : Plain(x).mounts = {} /\ Plain(x).needs = {} /\ Plain(x).ports = {}
  BY <1>1 DEF Plain
<1>7. QED
  BY <1>2, <1>3, <1>4, <1>5, <1>6, Zenon

\* A volume of every name that is mounted.
LEMMA VolumeNamesOf ==
    ASSUME NEW i \in Manifests
    PROVE  LET names == ToSet(Names(Volumes(i)))
           IN  /\ {"config", "data", "tmp", "workspace"} \subseteq names
               /\ HasCABundle(i) => "ca-bundle" \in names
               /\ TailscaleOn(i) =>
                    {"tailscale-serve", "tailscale-tmp"} \subseteq names
               /\ ToSet(i.volumes) \subseteq names
               /\ MigrationPending(i) => "openclaw-source" \in names
<1> DEFINE names == ToSet(Names(Volumes(i)))
<1>1. names = {x.name : x \in VolumesOf(i)}
  BY NamesSet, PodVolumes, Zenon
<1>2. \A x \in VolumesOf(i) : x.name \in names
  BY <1>1
<1> HIDE DEF names
<1>3. {Vconfig, Vdata, Vtmp, Vworkspace} \subseteq VolumesOf(i)
  BY DEF VolumesOf
<1>4. /\ HasCABundle(i) => CABundleVolume(i) \in VolumesOf(i)
      /\ TailscaleOn(i) => {Vserve, Vtstmp} \subseteq VolumesOf(i)
      /\ \A x \in ToSet(i.volumes) : PlainVolume(x) \in VolumesOf(i)
      /\ MigrationPending(i) => SourceVolume(i) \in VolumesOf(i)
  BY DEF VolumesOf, When
<1>5. {"config", "data", "tmp", "workspace"} \subseteq names
  BY <1>2, <1>3, VolumeNames
<1>6. /\ HasCABundle(i) => "ca-bundle" \in names
      /\ TailscaleOn(i) => {"tailscale-serve", "tailscale-tmp"} \subseteq names
      /\ MigrationPending(i) => "openclaw-source" \in names
  BY <1>2, <1>4, VolumeNames
<1>7. ToSet(i.volumes) \subseteq names
  BY <1>2, <1>4, VolumeNames
<1>8. QED
  BY <1>5, <1>6, <1>7 DEF names

\* Every container mounts volumes of the pod.
LEMMA MountsHaveVolumes ==
    ASSUME NEW i \in Manifests, UserNamesFree(i), NEW c \in ContainersOf(i)
    PROVE  c.mounts \subseteq ToSet(Names(Volumes(i)))
<1> DEFINE names == ToSet(Names(Volumes(i)))
<1>1. /\ {"config", "data", "tmp", "workspace"} \subseteq names
      /\ HasCABundle(i) => "ca-bundle" \in names
      /\ TailscaleOn(i) => {"tailscale-serve", "tailscale-tmp"} \subseteq names
      /\ ToSet(i.volumes) \subseteq names
      /\ MigrationPending(i) => "openclaw-source" \in names
  BY VolumeNamesOf
<1> HIDE DEF names
<1>2. CASE c = InitRestore
  BY <1>1, <1>2, ContainerFacts DEF names
<1>3. CASE c = InitMigrate /\ MigrateWanted(i)
  <2>1. MigrationPending(i)
    BY <1>3 DEF MigrateWanted
  <2>2. QED
    BY <1>1, <1>3, <2>1, ContainerFacts DEF names
<1>4. CASE c = HermesContainer(i)
  <2>1. ToSet(i.mounts) \subseteq names
    BY <1>1 DEF UserNamesFree
  <2>2. c.mounts = {"data", "config", "tmp", "workspace"}
                   \cup When(HasCABundle(i), {"ca-bundle"}) \cup ToSet(i.mounts)
    BY <1>4, ContainerFacts
  <2>3. QED
    BY <1>1, <2>1, <2>2 DEF names, When
<1>5. CASE c = TailscaleSidecar /\ TailscaleOn(i)
  BY <1>1, <1>5, ContainerFacts DEF names
<1>6. CASE \E x : c = Plain(x)
  BY <1>6, ContainerFacts
<1>7. QED
  BY <1>2, <1>3, <1>4, <1>5, <1>6, Zenon DEF ContainersOf, When

\* The pod of the instance is consistent.
LEMMA PodIsConsistent ==
    ASSUME NEW i \in Manifests, UserNamesFree(i), ValidateTailscale(i)
    PROVE  PodConsistent(BuildStatefulSet(i))
<1> DEFINE pod == BuildStatefulSet(i)
<1>1. Distinct(Names(pod.inits \o pod.containers))
  BY PodContainersDistinct
<1>2. pod.volumes = Volumes(i) /\ Distinct(Names(Volumes(i)))
  BY PodParts, PodVolumes
<1>3. ToSet(pod.inits \o pod.containers) = ContainersOf(i)
  BY PodContainers
<1> HIDE DEF pod
<1>4. \A c \in ToSet(pod.inits \o pod.containers) :
        c.mounts \subseteq ToSet(Names(pod.volumes))
  BY <1>2, <1>3, MountsHaveVolumes
<1>5. PodConsistent(pod)
  BY <1>1, <1>2, <1>4, Zenon DEF PodConsistent
<1>6. QED
  BY <1>5 DEF pod

\* What the reconcile loop creates, one by one.
LEMMA CreatedHas ==
    ASSUME NEW i
    PROVE  /\ AgentRuntimeEnv \subseteq Created(i)
           /\ Needs("PVC", "inst-data", "") \subseteq Created(i)
           /\ Needs("ConfigMap", "inst-workspace", "") \subseteq Created(i)
           /\ \A key \in BuildConfigMap(i).keys :
                Needs("ConfigMap", "inst-config", key) \subseteq Created(i)
           /\ "config.yaml" \in BuildConfigMap(i).keys
           /\ TailscaleOn(i) =>
                "tailscale-serve.json" \in BuildConfigMap(i).keys
<1>1. AgentRuntimeEnv \subseteq Created(i)
  BY Zenon DEF Created, AgentRuntimeEnv
<1>2. Needs("PVC", "inst-data", "") \subseteq Created(i)
  BY Zenon DEF Created
<1>3. Needs("ConfigMap", "inst-workspace", "") \subseteq Created(i)
  BY Zenon DEF Created
<1>4. \A key \in BuildConfigMap(i).keys :
        Needs("ConfigMap", "inst-config", key) \subseteq Created(i)
  BY Zenon DEF Created, Needs
<1>5. BuildConfigMap(i).keys = {"config.yaml"}
        \cup When("tailscale" \in i.on, {"tailscale-serve.json"})
  BY Zenon DEF BuildConfigMap
<1>6. QED
  BY <1>1, <1>2, <1>3, <1>4, <1>5, Zenon DEF When, TailscaleOn

\* What the volumes need.
LEMMA VolumeNeeds ==
    ASSUME NEW i, NEW v \in VolumesOf(i)
    PROVE  v.needs \subseteq Created(i) \cup Provided(i)
<1>1. \A n, d : Volume(n, d).needs = d
  BY DEF Volume
<1>2. CASE v \in {Vtmp, Vtstmp} \/ \E x : v = PlainVolume(x)
  <2>1. Vtmp.needs = {} /\ Vtstmp.needs = {} /\ \A x : PlainVolume(x).needs = {}
    BY <1>1 DEF Vtmp, Vtstmp, PlainVolume
  <2>2. v.needs = {}
    BY <1>2, <2>1
  <2>3. QED
    BY <2>2
<1>3. CASE v = Vconfig
  BY <1>1, <1>3, CreatedHas, Zenon DEF Vconfig
<1>4. CASE v = Vdata
  BY <1>1, <1>4, CreatedHas, Zenon DEF Vdata
<1>5. CASE v = Vworkspace
  BY <1>1, <1>5, CreatedHas, Zenon DEF Vworkspace
<1>6. CASE v = Vserve /\ TailscaleOn(i)
  BY <1>1, <1>6, CreatedHas, Zenon DEF Vserve
<1>7. CASE v = CABundleVolume(i)
  <2>1. v.needs = IF i.field.caConfigMap # ""
                  THEN Needs("ConfigMap", i.field.caConfigMap,
                             IfSet(i.field.caKey, "ca.crt"))
                  ELSE Needs("Secret", i.field.caSecret,
                             IfSet(i.field.caKey, "ca.crt"))
    BY <1>1, <1>7, Zenon DEF CABundleVolume
  <2>2. v.needs \subseteq Provided(i)
    BY <2>1, Zenon DEF Provided, Needs
  <2>3. QED
    BY <2>2, Zenon
<1>8. CASE v = SourceVolume(i)
  <2>1. v.needs \subseteq Needs("PVC", "openclaw-data", "")
    BY <1>1, <1>8, Zenon DEF SourceVolume, When
  <2>2. Needs("PVC", "openclaw-data", "") \subseteq Provided(i)
    BY Zenon DEF Provided, Needs
  <2>3. QED
    BY <2>1, <2>2, Zenon
<1>9. QED
  BY <1>2, <1>3, <1>4, <1>5, <1>6, <1>7, <1>8, Zenon DEF VolumesOf, When

\* What the pod needs is created or provided.
LEMMA PodNeedsMet ==
    ASSUME NEW i \in Manifests
    PROVE  PodNeeds(BuildStatefulSet(i)) \subseteq Created(i) \cup Provided(i)
<1> DEFINE pod == BuildStatefulSet(i)
           have == Created(i) \cup Provided(i)
<1>1. /\ ToSet(pod.inits \o pod.containers) = ContainersOf(i)
      /\ ToSet(pod.volumes) = VolumesOf(i)
  BY PodContainers, PodParts, PodVolumes, Zenon
<1> HIDE DEF pod
<1>2. \A v \in VolumesOf(i) : v.needs \subseteq have
  BY VolumeNeeds
<1>3. ASSUME NEW c \in ContainersOf(i) PROVE c.needs \subseteq have
  <2>1. AgentRuntimeEnv \subseteq have
    BY CreatedHas, Zenon
  <2>2. CASE c = HermesContainer(i)
    BY <2>1, <2>2, ContainerFacts, Zenon
  <2>3. CASE c \in {InitRestore, InitMigrate, TailscaleSidecar}
             \/ \E x : c = Plain(x)
    BY <2>3, ContainerFacts, Zenon
  <2>4. QED
    BY <2>2, <2>3, Zenon DEF ContainersOf, When
<1> HIDE DEF have
<1>4. PodNeeds(pod) \subseteq have
  <2>1. UNION {x.needs : x \in ContainersOf(i)} \subseteq have
    BY <1>3
  <2>2. UNION {v.needs : v \in VolumesOf(i)} \subseteq have
    BY <1>2
  <2>3. PodNeeds(pod) = (UNION {x.needs : x \in ContainersOf(i)})
                        \cup (UNION {v.needs : v \in VolumesOf(i)})
    BY <1>1, Zenon DEF PodNeeds
  <2>4. QED
    BY <2>1, <2>2, <2>3
<1>5. QED
  BY <1>4 DEF pod, have

\* The account of the pod is created or provided.
LEMMA AccountMet ==
    ASSUME NEW i, AccountNamed(i)
    PROVE  BuildStatefulSet(i).account \subseteq Created(i) \cup Provided(i)
<1>1. BuildStatefulSet(i).account =
        Needs("ServiceAccount", ServiceAccountNameFor(i), "")
  BY Zenon DEF BuildStatefulSet
<1>2. CASE i.field.serviceAccountName # ""
  <2>1. ServiceAccountNameFor(i) = i.field.serviceAccountName
    BY <1>2, Zenon DEF ServiceAccountNameFor, IfSet
  <2>2. Needs("ServiceAccount", i.field.serviceAccountName, "")
          \subseteq Provided(i)
    BY Zenon DEF Provided, Needs
  <2>3. QED
    BY <1>1, <2>1, <2>2, Zenon
<1>3. CASE i.field.serviceAccountName = ""
  <2>1. ServiceAccountNameFor(i) = "inst"
    BY <1>3, Zenon DEF ServiceAccountNameFor, IfSet
  <2>2. IsNotFalse(i, "createServiceAccount")
    BY <1>3, Zenon DEF AccountNamed
  <2>3. Needs("ServiceAccount", "inst", "") \subseteq Created(i)
    BY <2>2, Zenon DEF Created, When
  <2>4. QED
    BY <1>1, <2>1, <2>3, Zenon
<1>4. QED
  BY <1>2, <1>3, Zenon

\* A pod of one container.
LEMMA SmallPod ==
    ASSUME NEW T, NEW N, NEW pod, NEW c, pod.inits = <<>>,
           pod.containers = <<c>>, Unique(pod.volumes, T, N),
           c.mounts \subseteq {v.name : v \in ToSet(pod.volumes)}
    PROVE  /\ PodConsistent(pod)
           /\ PodNeeds(pod) =
                c.needs \cup (UNION {v.needs : v \in ToSet(pod.volumes)})
<1> DEFINE S == {c}
<1>1. c \in S /\ <<>> \o <<c>> = <<c>>
  OBVIOUS
<1> HIDE DEF S
<1>2. pod.inits \o pod.containers = <<c>>
  BY <1>1
<1>3. Unique(<<c>>, S, {c.name}) /\ ToSet(<<c>>) = {c}
  BY <1>1, UniqueOne
<1>4. Distinct(Names(<<c>>)) /\ Distinct(Names(pod.volumes))
  BY <1>3, UniqueNames
<1>5. ToSet(Names(pod.volumes)) = {v.name : v \in ToSet(pod.volumes)}
  BY NamesSet
<1>6. PodConsistent(pod)
  BY <1>2, <1>3, <1>4, <1>5 DEF PodConsistent
<1>7. UNION {x.needs : x \in {c}} = c.needs
  OBVIOUS
<1>8. PodNeeds(pod) = c.needs \cup (UNION {v.needs : v \in ToSet(pod.volumes)})
  BY <1>2, <1>3, <1>7, Zenon DEF PodNeeds
<1>9. QED
  BY <1>6, <1>8

Vhoncho == Volume("honcho-data", Needs("PVC", "inst-honcho-data", ""))

\* The pod of Honcho.
LEMMA HonchoPod ==
    /\ PodConsistent(BuildHonchoDeployment)
    /\ PodNeeds(BuildHonchoDeployment) = Needs("PVC", "inst-honcho-data", "")
<1> DEFINE pod == BuildHonchoDeployment
           T == {Vhoncho, Vtmp}
<1>1. /\ pod.inits = <<>> /\ pod.containers = <<HonchoContainer>>
      /\ pod.volumes = <<Vhoncho, Vtmp>>
  BY Zenon DEF BuildHonchoDeployment, Vhoncho, Vtmp
<1>2. Vhoncho.name = "honcho-data"
  BY Zenon DEF Vhoncho, Volume
<1>3. Vhoncho.needs = Needs("PVC", "inst-honcho-data", "")
  BY Zenon DEF Vhoncho, Volume
<1>4. Vtmp.name = "tmp" /\ Vtmp.needs = {}
  BY DEF Vtmp, Volume
<1>5. /\ HonchoContainer.mounts = {"honcho-data", "tmp"}
      /\ HonchoContainer.needs = {}
  BY DEF HonchoContainer, Container
<1> HIDE DEF pod
<1>6. /\ Unique(pod.volumes, T, {Vhoncho.name, Vtmp.name})
      /\ ToSet(pod.volumes) = {Vhoncho, Vtmp}
  <2>1. Vhoncho.name # Vtmp.name /\ Vhoncho \in T /\ Vtmp \in T
    BY <1>2, <1>4
  <2> HIDE DEF T
  <2>2. /\ Unique(SeqWhen(TRUE, <<Vhoncho, Vtmp>>), T,
                  {Vhoncho.name, Vtmp.name})
        /\ ToSet(SeqWhen(TRUE, <<Vhoncho, Vtmp>>)) = When(TRUE, {Vhoncho, Vtmp})
    BY <2>1, UniqueWhenTwo, Zenon
  <2>3. SeqWhen(TRUE, <<Vhoncho, Vtmp>>) = pod.volumes
    BY <1>1 DEF SeqWhen
  <2>4. When(TRUE, {Vhoncho, Vtmp}) = {Vhoncho, Vtmp}
    BY DEF When
  <2>5. QED
    BY <2>2, <2>3, <2>4, Zenon
<1>7. HonchoContainer.mounts \subseteq {v.name : v \in ToSet(pod.volumes)}
  BY <1>2, <1>4, <1>5, <1>6
<1>8. /\ PodConsistent(pod)
      /\ PodNeeds(pod) = HonchoContainer.needs
                         \cup (UNION {v.needs : v \in ToSet(pod.volumes)})
  <2> HIDE DEF T
  <2>1. QED
    BY <1>1, <1>6, <1>7, SmallPod, Zenon
<1>9. UNION {v.needs : v \in {Vhoncho, Vtmp}} = Vhoncho.needs
  BY <1>4
<1>10. PodNeeds(pod) = Vhoncho.needs
  BY <1>5, <1>6, <1>8, <1>9
<1>11. QED
  BY <1>3, <1>8, <1>10, Zenon DEF pod

\* The pod of a backup Job.
LEMMA BackupPod ==
    /\ PodConsistent(BuildBackupOneShotJob)
    /\ PodNeeds(BuildBackupOneShotJob) = Needs("PVC", "inst-data", "")
<1> DEFINE pod == BuildBackupOneShotJob
           c == Container("restic", {}, {"data"}, {})
           T == {Vdata}
           N == {Vdata.name}
<1>1. pod.inits = <<>> /\ pod.containers = <<c>> /\ pod.volumes = <<Vdata>>
  BY Zenon DEF BuildBackupOneShotJob, Vdata
<1>2. Vdata.name = "data"
  BY Zenon DEF Vdata, Volume
<1>3. Vdata.needs = Needs("PVC", "inst-data", "")
  BY Zenon DEF Vdata, Volume
<1>4. c.mounts = {"data"} /\ c.needs = {}
  BY DEF Container
<1>5. Vdata \in T
  OBVIOUS
<1> HIDE DEF pod, c, T
<1>6. Unique(pod.volumes, T, N) /\ ToSet(pod.volumes) = {Vdata}
  <2>1. Unique(<<Vdata>>, T, {Vdata.name}) /\ ToSet(<<Vdata>>) = {Vdata}
    BY <1>5, UniqueOne
  <2>2. QED
    BY <1>1, <2>1, Zenon
<1>7. c.mounts \subseteq {v.name : v \in ToSet(pod.volumes)}
  BY <1>2, <1>4, <1>6
<1> HIDE DEF N
<1>8. /\ PodConsistent(pod)
      /\ PodNeeds(pod) = c.needs \cup (UNION {v.needs : v \in ToSet(pod.volumes)})
  BY <1>1, <1>6, <1>7, SmallPod, Zenon
<1>9. PodNeeds(pod) = Vdata.needs
  BY <1>4, <1>6, <1>8
<1>10. QED
  BY <1>3, <1>8, <1>9, Zenon DEF pod

-----------------------------------------------------------------------------
(***************************************************************************)
(* Credentials, configuration, availability and image.                     *)
(***************************************************************************)
\* An enabled gateway has the credentials it cannot do without.
LEMMA CredentialsThere ==
    ASSUME NEW i, ValidateGateways(i), NEW g \in Gateways \cap i.on
    PROVE  RequiredRefs[g] \subseteq GatewayEnv(i)
<1>1. /\ Gateways \subseteq DOMAIN RequiredRefs
      /\ RequiredRefs[g] \subseteq GatewayRefs[g]
  BY DEF Gateways, RequiredRefs, GatewayRefs
<1>2. RequiredRefs[g] \subseteq i.refs
  BY <1>1 DEF ValidateGateways
<1>3. RequiredRefs[g] \subseteq GatewayRefs[g] \cap i.refs
  BY <1>1, <1>2
<1>4. GatewayRefs[g] \cap i.refs \subseteq GatewayEnv(i)
  BY Zenon DEF GatewayEnv
<1>5. QED
  BY <1>3, <1>4

\* And so has Honcho.
LEMMA HonchoKeyThere ==
    ASSUME NEW i, ValidateGateways(i), "honcho" \in i.on
    PROVE  HonchoConsumerEnv(i).refs # {}
<1>1. /\ "honcho" \in DOMAIN RequiredRefs
      /\ "honcho.apiKey" \in RequiredRefs["honcho"]
  BY DEF RequiredRefs
<1>2. "honcho.apiKey" \in i.refs
  BY <1>1 DEF ValidateGateways
<1>3. HonchoConsumerEnv(i).refs =
        When("honcho" \in i.on, {"honcho.apiKey"} \cap i.refs)
  BY Zenon DEF HonchoConsumerEnv
<1>4. QED
  BY <1>2, <1>3 DEF When

Bodies(M, G) == [given : BOOLEAN, ok : BOOLEAN, model : M,
                 gateways : [Gateways -> G]]

\* MergeYAMLBodies, with what stands for an open field as a parameter.
MergeWith(none, base, overlay) ==
    [given |-> TRUE, ok |-> base.ok /\ overlay.ok,
     model |-> IF overlay.model = none THEN base.model ELSE overlay.model,
     gateways |-> [g \in Gateways |->
                     IF overlay.gateways[g] = none THEN base.gateways[g]
                     ELSE overlay.gateways[g]]]

\* EnsureModelDefault in the same way.
EnsureModel(none, body) ==
    IF body.ok /\ body.model = none
    THEN [body EXCEPT !.model = "placeholder"] ELSE body

\* Merging two bodies gives a body.
LEMMA MergeTyped ==
    ASSUME NEW M, NEW G, NEW none, NEW base \in Bodies(M, G),
           NEW overlay \in Bodies(M, G)
    PROVE  MergeWith(none, base, overlay) \in Bodies(M, G)
<1> DEFINE model == IF overlay.model = none THEN base.model ELSE overlay.model
           gateways == [g \in Gateways |->
                          IF overlay.gateways[g] = none THEN base.gateways[g]
                          ELSE overlay.gateways[g]]
           ok == base.ok /\ overlay.ok
<1>1. /\ base.model \in M /\ overlay.model \in M
      /\ base.gateways \in [Gateways -> G]
      /\ overlay.gateways \in [Gateways -> G]
  BY DEF Bodies
<1>2. model \in M /\ gateways \in [Gateways -> G]
  BY <1>1
<1>3. ok \in BOOLEAN
  OBVIOUS
<1> HIDE DEF model, gateways, ok
<1>4. [given |-> TRUE, ok |-> ok, model |-> model, gateways |-> gateways]
        \in Bodies(M, G)
  BY <1>2, <1>3 DEF Bodies
<1>5. QED
  BY <1>4, Zenon DEF model, gateways, ok, MergeWith

\* Filling in the gateways and the model.
LEMMA FilledIn ==
    ASSUME NEW M, NEW G, NEW none, NEW b \in Bodies(M, G), NEW F
    PROVE  LET body == EnsureModel(none, MergeGatewayFragments(b, F))
           IN  body.ok =>
                 /\ body.model = IF b.model = none THEN "placeholder"
                                 ELSE b.model
                 /\ \A g \in Gateways \cap F : body.gateways[g] = "operator"
<1> DEFINE merged == MergeGatewayFragments(b, F)
           body == EnsureModel(none, merged)
<1>1. CASE ~b.ok
  <2>1. merged = b
    BY <1>1 DEF MergeGatewayFragments
  <2> HIDE DEF merged
  <2>2. body = b
    <3>1. ~merged.ok
      BY <1>1, <2>1, Zenon
    <3>2. body = merged
      BY <3>1, Zenon DEF EnsureModel
    <3>3. QED
      BY <2>1, <3>2
  <2>3. ~body.ok
    BY <1>1, <2>2, Zenon
  <2>4. QED
    BY <2>3, Zenon DEF merged
<1>2. CASE b.ok
  <2> DEFINE gw == [g \in Gateways |-> IF g \in F THEN "operator"
                                       ELSE b.gateways[g]]
  <2>1. merged = [b EXCEPT !.gateways = gw]
    BY <1>2 DEF MergeGatewayFragments
  <2>2. \A g \in Gateways \cap F : gw[g] = "operator"
    OBVIOUS
  <2> HIDE DEF gw
  <2>3. /\ DOMAIN merged = {"given", "ok", "model", "gateways"}
        /\ merged.ok = b.ok /\ merged.model = b.model /\ merged.gateways = gw
    BY <2>1 DEF Bodies
  <2> HIDE DEF merged
  <2>4. /\ body.model = IF b.model = none THEN "placeholder" ELSE b.model
        /\ body.gateways = gw
    BY <1>2, <2>3 DEF EnsureModel
  <2>5. QED
    BY <2>2, <2>4 DEF merged
<1>3. QED
  BY <1>1, <1>2

Models == {"", "user", "placeholder"}

Writers == {"", "user", "operator"}

\* The body that is resolved is a body.
LEMMA ResolvedTyped ==
    ASSUME NEW i \in Manifests
    PROVE  ResolvedBody(i) \in Bodies(Models, Writers)
<1>1. Body = Bodies(Models, Writers)
  BY Zenon DEF Body, Bodies, Models, Writers
<1>2. i.raw \in Body
  BY DEF Manifests
<1>3. i.configMapRef \in Body
  BY DEF Manifests
<1>4. MergeYAMLBodies(i.configMapRef, i.raw) \in Bodies(Models, Writers)
  <2>1. MergeYAMLBodies(i.configMapRef, i.raw) =
          MergeWith("", i.configMapRef, i.raw)
    BY Zenon DEF MergeYAMLBodies, MergeWith, IfSet
  <2>2. ASSUME NEW none
        PROVE  MergeWith(none, i.configMapRef, i.raw)
                 \in Bodies(Models, Writers)
    BY <1>1, <1>2, <1>3, MergeTyped
  <2>3. QED
    BY <2>1, <2>2, Zenon
<1>5. QED
  BY <1>1, <1>2, <1>3, <1>4, Zenon DEF ResolvedBody

\* config.yaml has the model asked for, or one, and the operator's entries.
LEMMA ConfigIsUsable ==
    ASSUME NEW i \in Manifests
    PROVE  ConfigUsable(i)
<1> DEFINE b == ResolvedBody(i)
           F == Gateways \cap i.on
           body == EnsureModelDefault(MergeGatewayFragments(b, F))
<1>1. b \in Bodies(Models, Writers)
  BY ResolvedTyped
<1>2. BuildConfigMap(i).body = body
  BY Zenon DEF BuildConfigMap, GatewayConfigFragments
<1> HIDE DEF b
<1>3. body.ok => /\ body.model = IF b.model = "" THEN "placeholder" ELSE b.model
                 /\ \A g \in Gateways \cap F : body.gateways[g] = "operator"
  <2> DEFINE full(none) == EnsureModel(none, MergeGatewayFragments(b, F))
  <2>1. body = full("")
    BY Zenon DEF EnsureModelDefault, EnsureModel
  <2> HIDE DEF F, body
  <2>2. ASSUME NEW none
        PROVE  full(none).ok =>
                 /\ full(none).model = IF b.model = none THEN "placeholder"
                                       ELSE b.model
                 /\ \A g \in Gateways \cap F :
                      full(none).gateways[g] = "operator"
    BY <1>1, FilledIn
  <2> HIDE DEF full
  <2>3. QED
    BY <2>1, <2>2, Zenon
<1>4. Gateways \cap i.on = Gateways \cap F
  OBVIOUS
<1> HIDE DEF body, F
<1>5. QED
  BY <1>2, <1>3, <1>4, Zenon DEF ConfigUsable, IfSet, b

\* The bounds of the HPA are in order.
LEMMA HPABounds ==
    ASSUME NEW i \in Manifests, Complete(i), ValidateCommon(i)
    PROVE  BuildHPA(i).min <= BuildHPA(i).max
<1>1. i.num.minReplicas # 0 /\ i.num.maxReplicas # 0
  BY FieldFacts DEF Complete
<1>2. i.num.minReplicas <= i.num.maxReplicas
  BY <1>1 DEF ValidateCommon
<1>3. BuildHPA(i).min = i.num.minReplicas
  BY <1>1 DEF BuildHPA
<1>4. BuildHPA(i).max = i.num.maxReplicas
  BY <1>1 DEF BuildHPA
<1>5. QED
  BY <1>2, <1>3, <1>4

\* The PDB says what the instance asks for.
LEMMA PDBAsked ==
    ASSUME NEW i, ValidateCommon(i)
    PROVE  i.field.maxUnavailable \in {"", BuildPDB(i).maxUnavailable}
<1>1. i.field.minAvailable = "" \/ i.field.maxUnavailable = ""
  BY Zenon DEF ValidateCommon
<1>2. BuildPDB(i).maxUnavailable = IF i.field.minAvailable # "" THEN ""
                                   ELSE IfSet(i.field.maxUnavailable, "1")
  BY Zenon DEF BuildPDB
<1>3. QED
  BY <1>1, <1>2, Zenon DEF IfSet

\* The image is not the one with the tag latest.
LEMMA ImageNotLatest ==
    ASSUME NEW i, ImagePinned(i)
    PROVE  ImageRef(i) # <<i.field.repository, ":", "latest">>
<1>1. \A a, b, c, d : <<a, "@", b>> # <<c, ":", d>>
  OBVIOUS
<1>2. \A a, b, c, d : b # d => <<a, ":", b>> # <<c, ":", d>>
  OBVIOUS
<1> DEFINE repo == IfSet(i.field.repository, "ghcr")
<1>3. CASE i.field.digest # ""
  <2>1. ImageRef(i) = <<repo, "@", i.field.digest>>
    BY <1>3, Zenon DEF ImageRef
  <2>2. QED
    BY <1>1, <2>1, Zenon
<1>4. CASE i.field.digest = ""
  <2>1. ImageRef(i) = <<repo, ":", IfSet(i.field.tag, "latest")>>
    BY <1>4, Zenon DEF ImageRef
  <2>2. IfSet(i.field.tag, "latest") # "latest"
    BY <1>4, Zenon DEF ImagePinned, IfSet
  <2>3. QED
    BY <1>2, <2>1, <2>2, Zenon
<1>5. QED
  BY <1>3, <1>4, Zenon

\* All of it.
LEMMA Acceptable == AdmissionInv => ObjectsAcceptable
<1> SUFFICES ASSUME AdmissionInv, inst.exists PROVE ObjectsAcceptable
  BY DEF ObjectsAcceptable
<1>1. /\ inst \in Manifests /\ Complete(inst) /\ ImagePinned(inst)
      /\ ValidateCreate(inst)
  BY InvParts
<1>2. ValidateCommon(inst) /\ ValidateGateways(inst) /\ ValidateTailscale(inst)
  BY <1>1, Zenon DEF ValidateCreate
<1>3. UserNamesFree(inst) => PodConsistent(BuildStatefulSet(inst))
  BY <1>1, <1>2, PodIsConsistent
<1>4. PodNeeds(BuildStatefulSet(inst))
        \subseteq Created(inst) \cup Provided(inst)
  BY <1>1, PodNeedsMet
<1>5. AccountNamed(inst) =>
        BuildStatefulSet(inst).account
          \subseteq Created(inst) \cup Provided(inst)
  BY AccountMet
<1>6. {"honcho", "honchoPersistence"} \subseteq inst.on =>
        PodNeeds(BuildHonchoDeployment) \subseteq Created(inst)
  BY HonchoPod, Zenon DEF Created, When
<1>7. PodNeeds(BuildBackupOneShotJob) \subseteq Created(inst)
  BY BackupPod, CreatedHas, Zenon
<1>8. \A g \in Gateways \cap inst.on :
        RequiredRefs[g] \subseteq GatewayEnv(inst)
  BY <1>2, CredentialsThere
<1>9. "honcho" \in inst.on => HonchoConsumerEnv(inst).refs # {}
  BY <1>2, HonchoKeyThere
<1>10. ConfigUsable(inst)
  BY <1>1, ConfigIsUsable
<1>11. BuildHPA(inst).min <= BuildHPA(inst).max
  BY <1>1, <1>2, HPABounds
<1>12. inst.field.maxUnavailable \in {"", BuildPDB(inst).maxUnavailable}
  BY <1>2, PDBAsked, Zenon
<1>13. ImageRef(inst) # <<inst.field.repository, ":", "latest">>
  BY <1>1, ImageNotLatest, Zenon
<1>14. QED
  BY <1>3, <1>4, <1>5, <1>6, <1>7, <1>8, <1>9, <1>10, <1>11, <1>12, <1>13,
     HonchoPod, BackupPod, Zenon DEF ObjectsAcceptable

(***************************************************************************)
(* In every reachable state the objects the operator builds from the       *)
(* stored instance fit together (BuildStatefulSet, BuildConfigMap, BuildHPA *)
(* and the rest), for any manifests users submit and any cluster defaults. *)
(***************************************************************************)
THEOREM ObjectsAlwaysAcceptable == Spec => []ObjectsAcceptable
BY Acceptable, AdmissionInvHolds, PTL

-----------------------------------------------------------------------------
(***************************************************************************)
(* The ports of the Service.                                               *)
(***************************************************************************)
OwnPort(q) == [q EXCEPT !.target = TargetPort(q), !.proto = IfSet(@, "TCP")]

DefaultPort == ServicePort("gateway", GatewayPort, 0, "TCP")

OwnPorts(i) ==
    IF i.ports # <<>> THEN [n \in DOMAIN i.ports |-> OwnPort(i.ports[n])]
    ELSE <<DefaultPort>>

MetricsNumber(i) ==
    IF i.num.metricsPort = 0 THEN DefaultMetricsPort ELSE i.num.metricsPort

MetricsPort(i) == ServicePort("metrics", MetricsNumber(i), 0, "TCP")

MetricsAdded(i) ==
    IsNotFalse(i, "metricsEnabled") /\ "metrics" \notin PortNames(OwnPorts(i))

PortsOf(i) ==
    (IF i.ports # <<>> THEN {OwnPort(q) : q \in ToSet(i.ports)}
     ELSE {DefaultPort})
    \cup When(MetricsAdded(i), {MetricsPort(i)})

\* What a port of the user's becomes, and the operator's two.
LEMMA PortFacts ==
    ASSUME NEW i
    PROVE  /\ \A q \in NamedServicePort :
                /\ OwnPort(q).name = q.name /\ OwnPort(q).port = q.port
                /\ OwnPort(q).target = TargetPort(q)
                /\ OwnPort(q).proto = IfSet(q.proto, "TCP")
                /\ TargetPort(q) # 0
           /\ DefaultPort.name = "gateway" /\ DefaultPort.port = GatewayPort
           /\ DefaultPort.target = 0 /\ DefaultPort.proto = "TCP"
           /\ MetricsPort(i).name = "metrics" /\ MetricsPort(i).target = 0
           /\ MetricsPort(i).port = MetricsNumber(i)
<1>1. ASSUME NEW q \in NamedServicePort
      PROVE  /\ OwnPort(q).name = q.name /\ OwnPort(q).port = q.port
             /\ OwnPort(q).target = TargetPort(q)
             /\ OwnPort(q).proto = IfSet(q.proto, "TCP")
             /\ TargetPort(q) # 0
  <2>1. /\ OwnPort(q).name = q.name /\ OwnPort(q).port = q.port
        /\ OwnPort(q).target = TargetPort(q)
        /\ OwnPort(q).proto = IfSet(q.proto, "TCP")
    BY DEF OwnPort, NamedServicePort
  <2>2. q.port \in Nat \ {0}
    BY DEF NamedServicePort
  <2>3. TargetPort(q) # 0
    BY <2>2 DEF TargetPort
  <2>4. QED
    BY <2>1, <2>3
<1>2. /\ DefaultPort.name = "gateway" /\ DefaultPort.port = GatewayPort
      /\ DefaultPort.target = 0 /\ DefaultPort.proto = "TCP"
  BY DEF DefaultPort, ServicePort
<1>3. /\ MetricsPort(i).name = "metrics" /\ MetricsPort(i).target = 0
      /\ MetricsPort(i).port = MetricsNumber(i)
  BY DEF MetricsPort, ServicePort
<1>4. QED
  BY <1>1, <1>2, <1>3

\* The ports of a manifest.
LEMMA ManifestPorts ==
    ASSUME NEW i \in Manifests
    PROVE  /\ i.ports \in Seq(NamedServicePort)
           /\ ToSet(i.ports) \subseteq NamedServicePort
<1>1. i.ports \in Seq(NamedServicePort)
  BY DEF Manifests
<1>2. \A n \in DOMAIN i.ports : i.ports[n] \in NamedServicePort
  BY <1>1, ElementOfSeq, LenProperties
<1>3. QED
  BY <1>1, <1>2 DEF ToSet

\* The ports of the Service.
LEMMA ServicePortsAre ==
    ASSUME NEW i \in Manifests
    PROVE  ToSet(ServicePorts(i)) = PortsOf(i)
<1> DEFINE S == {OwnPort(q) : q \in NamedServicePort}
                \cup {DefaultPort, MetricsPort(i)}
           u == i.ports
           own == OwnPorts(i)
           metrics == SeqWhen(MetricsAdded(i), <<MetricsPort(i)>>)
<1>1. ServicePorts(i) = own \o metrics
  BY Zenon DEF ServicePorts, OwnPorts, OwnPort, DefaultPort, MetricsPort,
               MetricsNumber, MetricsAdded
<1>2. /\ \A q \in NamedServicePort : OwnPort(q) \in S
      /\ DefaultPort \in S /\ MetricsPort(i) \in S
  OBVIOUS
<1>3. u \in Seq(NamedServicePort)
  BY ManifestPorts
<1> HIDE DEF S, u
<1>4. /\ own \in Seq(S)
      /\ ToSet(own) = IF u # <<>> THEN {OwnPort(q) : q \in ToSet(u)}
                      ELSE {DefaultPort}
  <2>1. CASE u # <<>>
    <3>1. own = [n \in DOMAIN u |-> OwnPort(u[n])]
      BY <2>1 DEF OwnPorts, u
    <3>2. DOMAIN u = 1..Len(u) /\ Len(u) \in Nat
          /\ \A n \in DOMAIN u : u[n] \in NamedServicePort
      BY <1>3, LenProperties, ElementOfSeq
    <3> HIDE DEF own
    <3>3. own \in [1..Len(u) -> S]
      BY <1>2, <3>1, <3>2
    <3>4. own \in Seq(S)
      BY <3>2, <3>3, SeqDef
    <3>5. ToSet(own) = {OwnPort(q) : q \in ToSet(u)}
      BY <3>1 DEF ToSet
    <3>6. QED
      BY <2>1, <3>4, <3>5
  <2>2. CASE u = <<>>
    <3>1. own = <<DefaultPort>>
      BY <2>2 DEF OwnPorts, u
    <3>2. <<DefaultPort>> \in Seq(S) /\ ToSet(<<DefaultPort>>) = {DefaultPort}
      BY <1>2, UniqueOne DEF Unique
    <3> HIDE DEF own
    <3>3. QED
      BY <2>2, <3>1, <3>2, Zenon
  <2>3. QED
    BY <2>1, <2>2
<1>5. /\ metrics \in Seq(S)
      /\ ToSet(metrics) = When(MetricsAdded(i), {MetricsPort(i)})
  BY <1>2, UniqueWhen, Zenon DEF Unique
<1> HIDE DEF own, metrics
<1>6. ToSet(own \o metrics) = ToSet(own) \cup ToSet(metrics)
  BY <1>4, <1>5, ConcatSet
<1>7. QED
  BY <1>1, <1>4, <1>5, <1>6, Zenon DEF PortsOf, u

\* The names of the user's ports are those of the Service's own.
LEMMA OwnNames ==
    ASSUME NEW i \in Manifests
    PROVE  /\ i.ports # <<>> =>
                 \A q \in ToSet(i.ports) : OwnPort(q) \in ToSet(ServicePorts(i))
           /\ i.ports = <<>> => DefaultPort \in ToSet(ServicePorts(i))
           /\ MetricsAdded(i) => MetricsPort(i) \in ToSet(ServicePorts(i))
           /\ \A p \in ToSet(ServicePorts(i)) :
                \/ \E q \in ToSet(i.ports) : p = OwnPort(q) /\ i.ports # <<>>
                \/ p = DefaultPort /\ i.ports = <<>>
                \/ p = MetricsPort(i) /\ MetricsAdded(i)
<1>1. ToSet(ServicePorts(i)) = PortsOf(i)
  BY ServicePortsAre
<1>2. QED
  BY <1>1, Zenon DEF PortsOf, When

\* A port name of the user's is a port name of the Service, and other names
\* of the Service are the operator's.
LEMMA NamesOfPorts ==
    ASSUME NEW i \in Manifests
    PROVE  /\ \A x \in PortNames(i.ports) : x \in PortNames(ServicePorts(i))
           /\ i.ports = <<>> => "gateway" \in PortNames(ServicePorts(i))
           /\ IsNotFalse(i, "metricsEnabled")
                => "metrics" \in PortNames(ServicePorts(i))
<1> DEFINE P == ToSet(ServicePorts(i))
<1>1. /\ i.ports # <<>> => \A q \in ToSet(i.ports) : OwnPort(q) \in P
      /\ i.ports = <<>> => DefaultPort \in P
      /\ MetricsAdded(i) => MetricsPort(i) \in P
  BY OwnNames
<1>2. PortNames(ServicePorts(i)) = {p.name : p \in P}
  BY DEF PortNames
<1>3. \A q \in ToSet(i.ports) : q \in NamedServicePort /\ i.ports # <<>>
  BY ManifestPorts DEF ToSet
<1> HIDE DEF P
<1>4. \A x \in PortNames(i.ports) : x \in PortNames(ServicePorts(i))
  BY <1>1, <1>2, <1>3, PortFacts DEF PortNames
<1>5. i.ports = <<>> => "gateway" \in PortNames(ServicePorts(i))
  BY <1>1, <1>2, PortFacts
<1>6. ASSUME IsNotFalse(i, "metricsEnabled")
      PROVE  "metrics" \in PortNames(ServicePorts(i))
  <2>1. CASE MetricsAdded(i)
    BY <1>1, <1>2, <2>1, PortFacts
  <2>2. CASE ~MetricsAdded(i)
    <3>1. "metrics" \in PortNames(OwnPorts(i))
      BY <1>6, <2>2 DEF MetricsAdded
    <3>2. i.ports # <<>>
      <4>1. SUFFICES ASSUME i.ports = <<>> PROVE FALSE
        OBVIOUS
      <4>2. OwnPorts(i) = <<DefaultPort>>
        BY <4>1 DEF OwnPorts
      <4>3. ToSet(<<DefaultPort>>) = {DefaultPort}
        BY UniqueOne
      <4>4. PortNames(OwnPorts(i)) = {DefaultPort.name}
        BY <4>2, <4>3 DEF PortNames
      <4>5. QED
        BY <3>1, <4>4, PortFacts
    <3>3. ToSet(OwnPorts(i)) = {OwnPort(q) : q \in ToSet(i.ports)}
      BY <3>2 DEF OwnPorts, ToSet
    <3>4. PICK q \in ToSet(i.ports) : OwnPort(q).name = "metrics"
      BY <3>1, <3>3 DEF PortNames
    <3>5. QED
      BY <1>1, <1>2, <3>2, <3>4
  <2>3. QED
    BY <2>1, <2>2
<1>7. QED
  BY <1>4, <1>5, <1>6

\* The backend of an HTTPRoute is the port of its name.
LEMMA RouteLeads ==
    ASSUME NEW i \in Manifests, NEW r, r \in PortNames(ServicePorts(i))
    PROVE  \E p \in ToSet(ServicePorts(i)) :
             p.name = r /\ p.port = ServicePortNumber(i, r)
<1>1. CASE r \in PortNames(i.ports)
  <2> DEFINE n == CHOOSE n \in DOMAIN i.ports : i.ports[n].name = r
  <2>1. \E m \in DOMAIN i.ports : i.ports[m].name = r
    BY <1>1 DEF PortNames, ToSet
  <2>2. n \in DOMAIN i.ports /\ i.ports[n].name = r
    BY <2>1
  <2>3. ServicePortNumber(i, r) = i.ports[n].port
    BY <1>1 DEF ServicePortNumber
  <2> HIDE DEF n
  <2>4. i.ports[n] \in ToSet(i.ports) /\ i.ports # <<>>
    BY <2>2 DEF ToSet
  <2>5. i.ports[n] \in NamedServicePort
    BY <2>4, ManifestPorts
  <2>6. OwnPort(i.ports[n]) \in ToSet(ServicePorts(i))
    BY <2>4, OwnNames
  <2>7. QED
    BY <2>2, <2>3, <2>5, <2>6, PortFacts
<1>2. CASE r \notin PortNames(i.ports)
  <2>1. PICK p \in ToSet(ServicePorts(i)) : p.name = r
    BY DEF PortNames
  <2>2. CASE \E q \in ToSet(i.ports) : p = OwnPort(q)
    <3>1. PICK q \in ToSet(i.ports) : p = OwnPort(q)
      BY <2>2
    <3>2. q \in NamedServicePort
      BY ManifestPorts
    <3>3. r = q.name
      BY <2>1, <3>1, <3>2, PortFacts
    <3>4. QED
      BY <1>2, <3>3 DEF PortNames
  <2>3. CASE p = DefaultPort
    <3>1. r = "gateway" /\ p.port = GatewayPort
      BY <2>1, <2>3, PortFacts
    <3>2. ServicePortNumber(i, r) = GatewayPort
      BY <1>2, <3>1 DEF ServicePortNumber
    <3>3. QED
      BY <2>1, <3>1, <3>2
  <2>4. CASE p = MetricsPort(i)
    <3>1. r = "metrics" /\ p.port = MetricsNumber(i)
      BY <2>1, <2>4, PortFacts
    <3>2. ServicePortNumber(i, r) = MetricsNumber(i)
      BY <1>2, <3>1 DEF ServicePortNumber, MetricsNumber
    <3>3. QED
      BY <2>1, <3>1, <3>2
  <2>5. QED
    BY <2>2, <2>3, <2>4, OwnNames
<1>3. QED
  BY <1>1, <1>2

\* The rules of the policy.
LEMMA PolicyParts ==
    ASSUME NEW i
    PROVE  /\ BuildNetworkPolicy(i).selector = SelectorLabels
           /\ BuildNetworkPolicy(i).ingress =
                {Rule(OwnNamespace, p.proto, p.port) :
                    p \in NetworkPolicyIngressPorts(i)}
           /\ BuildNetworkPolicy(i).egress = EgressRules(i)
           /\ \A peer, proto, port :
                /\ Rule(peer, proto, port).peer = peer
                /\ Rule(peer, proto, port).proto = proto
                /\ Rule(peer, proto, port).port = port
<1>1. BuildNetworkPolicy(i).selector = SelectorLabels
  BY DEF BuildNetworkPolicy
<1>2. BuildNetworkPolicy(i).ingress =
        {Rule(OwnNamespace, p.proto, p.port) : p \in NetworkPolicyIngressPorts(i)}
  BY DEF BuildNetworkPolicy, IngressRules
<1>3. BuildNetworkPolicy(i).egress = EgressRules(i)
  BY DEF BuildNetworkPolicy
<1>4. \A peer, proto, port : /\ Rule(peer, proto, port).peer = peer
                             /\ Rule(peer, proto, port).proto = proto
                             /\ Rule(peer, proto, port).port = port
  BY DEF Rule
<1>5. QED
  BY <1>1, <1>2, <1>3, <1>4

\* A rule opens its port.
LEMMA RuleOpens ==
    ASSUME NEW rules, NEW peer, NEW labels, NEW proto, NEW port,
           Rule(peer, proto, port) \in rules, peer \subseteq labels
    PROVE  Opens(rules, labels, proto, port)
BY PolicyParts DEF Opens, Selects

\* The policy opens the ports of the pod.
LEMMA IngressOpens ==
    ASSUME NEW i, NEW labels, NEW proto, NEW port,
           [proto |-> proto, port |-> port] \in NetworkPolicyIngressPorts(i),
           OwnNamespace \subseteq labels
    PROVE  Opens(BuildNetworkPolicy(i).ingress, labels, proto, port)
<1> DEFINE x == [proto |-> proto, port |-> port]
<1>1. x.proto = proto /\ x.port = port
  OBVIOUS
<1>2. x \in NetworkPolicyIngressPorts(i)
  OBVIOUS
<1> HIDE DEF x
<1>3. Rule(OwnNamespace, x.proto, x.port) \in BuildNetworkPolicy(i).ingress
  BY <1>2, PolicyParts, Zenon
<1>4. Rule(OwnNamespace, proto, port) \in BuildNetworkPolicy(i).ingress
  BY <1>1, <1>3, Zenon
<1>5. QED
  BY <1>4, RuleOpens

\* The Service leads to the pod.
LEMMA ServiceLeads ==
    ASSUME NEW i \in Manifests
    PROVE  ServiceReaches(BuildService(i), BuildStatefulSet(i),
                          BuildNetworkPolicy(i))
<1> DEFINE service == BuildService(i)
           pod == BuildStatefulSet(i)
           policy == BuildNetworkPolicy(i)
<1>1. service.selector = SelectorLabels
  BY Zenon DEF BuildService
<1>2. service.ports = ServicePorts(i)
  BY Zenon DEF BuildService
<1>3. pod.labels = LabelsForInstance
  BY Zenon DEF BuildStatefulSet
<1>4. SelectorLabels \subseteq LabelsForInstance /\ OwnNamespace \subseteq Agent
  BY DEF LabelsForInstance, Agent
<1>5. HermesContainer(i) \in ToSet(pod.containers)
  BY PodContainers
<1>6. ASSUME NEW p \in ToSet(ServicePorts(i))
      PROVE  \/ \E port \in Targets(p, pod.containers) :
                  Opens(policy.ingress, Agent, p.proto, port)
             \/ p.name = "metrics" /\ p.target = 0
  <2>1. CASE p = MetricsPort(i)
    BY <2>1, PortFacts
  <2>2. CASE i.ports # <<>> /\ \E q \in ToSet(i.ports) : p = OwnPort(q)
    <3>1. PICK q \in ToSet(i.ports) : p = OwnPort(q)
      BY <2>2
    <3>2. q \in NamedServicePort
      BY ManifestPorts
    <3>3. /\ p.target = TargetPort(q) /\ p.proto = IfSet(q.proto, "TCP")
          /\ p.target # 0
      BY <3>1, <3>2, PortFacts
    <3>4. p.target \in Targets(p, pod.containers)
      BY <3>3 DEF Targets
    <3>5. [proto |-> IfSet(q.proto, "TCP"), port |-> TargetPort(q)]
            \in NetworkPolicyIngressPorts(i)
      BY <2>2 DEF NetworkPolicyIngressPorts
    <3>6. Opens(policy.ingress, Agent, p.proto, p.target)
      BY <1>4, <3>3, <3>5, IngressOpens
    <3>7. QED
      BY <3>4, <3>6
  <2>3. CASE p = DefaultPort /\ i.ports = <<>>
    <3>1. p.name = "gateway" /\ p.target = 0 /\ p.proto = "TCP"
      BY <2>3, PortFacts
    <3> DEFINE c == [name |-> "gateway", port |-> GatewayPort]
               all == UNION {x.ports : x \in ToSet(pod.containers)}
    <3>2. c.name = "gateway" /\ c.port = GatewayPort
      OBVIOUS
    <3>3. HermesContainer(i).ports = {c}
      BY ContainerFacts
    <3> HIDE DEF c
    <3>4. c \in all
      BY <1>5, <3>3
    <3>5. Targets(p, pod.containers) = {x.port : x \in {x \in all : x.name = p.name}}
      BY <3>1 DEF Targets
    <3> HIDE DEF all
    <3>6. GatewayPort \in Targets(p, pod.containers)
      BY <3>1, <3>2, <3>4, <3>5
    <3>7. [proto |-> "TCP", port |-> GatewayPort] \in NetworkPolicyIngressPorts(i)
      BY <2>3 DEF NetworkPolicyIngressPorts
    <3>8. Opens(policy.ingress, Agent, p.proto, GatewayPort)
      BY <1>4, <3>1, <3>7, IngressOpens
    <3>9. QED
      BY <3>6, <3>8
  <2>4. QED
    BY <2>1, <2>2, <2>3, OwnNames
<1>7. QED
  BY <1>1, <1>2, <1>3, <1>4, <1>6, Zenon DEF ServiceReaches, Selects

\* The Service of Honcho leads to its pod.
LEMMA HonchoLeads ==
    ServiceReaches(BuildHonchoService, BuildHonchoDeployment,
                   BuildHonchoNetworkPolicy)
<1> DEFINE service == BuildHonchoService
           pod == BuildHonchoDeployment
           policy == BuildHonchoNetworkPolicy
           http == ServicePort("http", HonchoPort, 0, "TCP")
           c == [name |-> "http", port |-> HonchoPort]
           all == UNION {x.ports : x \in ToSet(pod.containers)}
<1>1. service.selector = HonchoSelector /\ service.ports = <<http>>
  BY DEF BuildHonchoService
<1>2. pod.labels = HonchoLabels /\ pod.containers = <<HonchoContainer>>
  BY Zenon DEF BuildHonchoDeployment
<1>3. policy.ingress = {Rule(SelectorLabels, "TCP", HonchoPort)}
  BY DEF BuildHonchoNetworkPolicy
<1>4. /\ HonchoSelector \subseteq HonchoLabels
      /\ SelectorLabels \subseteq Agent
  BY DEF HonchoLabels, LabelsForInstance, Agent
<1>5. http.name = "http" /\ http.target = 0 /\ http.proto = "TCP"
  BY DEF ServicePort
<1>6. c.name = "http" /\ c.port = HonchoPort
  OBVIOUS
<1>7. HonchoContainer.ports = {c}
  BY DEF HonchoContainer, Container
<1> HIDE DEF service, pod, policy, http, c
<1>8. ToSet(<<http>>) = {http} /\ ToSet(<<HonchoContainer>>) = {HonchoContainer}
  BY UniqueOne
<1>9. c \in all
  BY <1>2, <1>7, <1>8
<1>10. Targets(http, pod.containers) =
         {x.port : x \in {x \in all : x.name = http.name}}
  BY <1>5 DEF Targets
<1> HIDE DEF all
<1>11. HonchoPort \in Targets(http, pod.containers)
  BY <1>5, <1>6, <1>9, <1>10
<1>12. Opens(policy.ingress, Agent, http.proto, HonchoPort)
  <2>1. Rule(SelectorLabels, "TCP", HonchoPort) \in policy.ingress
    BY <1>3
  <2>2. QED
    BY <1>4, <1>5, <2>1, RuleOpens
<1>13. \A p \in ToSet(service.ports) : p = http
  BY <1>1, <1>8
<1>14. ServiceReaches(service, pod, policy)
  BY <1>1, <1>2, <1>4, <1>11, <1>12, <1>13, Zenon DEF ServiceReaches, Selects
<1>15. QED
  BY <1>14 DEF service, pod, policy

\* The names of an Ingress backend that are ports of the Service.
LEMMA IngressLeads ==
    ASSUME NEW i \in Manifests, IngressPortServed(i)
    PROVE  IngressPortName(i) \in PortNames(ServicePorts(i))
<1>1. CASE i.ports = <<>> /\ i.ingressPort \in {"", "gateway"}
  <2>1. IngressPortName(i) = "gateway"
    BY <1>1, Zenon DEF IngressPortName, IfSet
  <2>2. "gateway" \in PortNames(ServicePorts(i))
    BY <1>1, NamesOfPorts, Zenon
  <2>3. QED
    BY <2>1, <2>2, Zenon
<1>2. CASE i.ingressPort = "metrics" /\ IsNotFalse(i, "metricsEnabled")
  <2>1. IngressPortName(i) = "metrics"
    BY <1>2, Zenon DEF IngressPortName, IfSet
  <2>2. "metrics" \in PortNames(ServicePorts(i))
    BY <1>2, NamesOfPorts, Zenon
  <2>3. QED
    BY <2>1, <2>2, Zenon
<1>3. QED
  BY <1>1, <1>2, Zenon DEF IngressPortServed

\* The ways out of the pod.
LEMMA EgressOpens ==
    ASSUME NEW i
    PROVE  LET egress == BuildNetworkPolicy(i).egress
           IN  /\ Opens(egress, {}, "TCP", 443)
               /\ "tailscale" \in i.on =>
                    \A port \in {3478, 41641} : Opens(egress, {}, "UDP", port)
               /\ "honcho" \in i.on =>
                    Opens(egress, HonchoLabels, "TCP", HonchoPort)
<1> DEFINE egress == BuildNetworkPolicy(i).egress
<1>1. egress = EgressRules(i)
  BY PolicyParts
<1>2. Rule({}, "TCP", 443) \in egress
  BY <1>1 DEF EgressRules
<1>3. ASSUME "tailscale" \in i.on, NEW port \in {3478, 41641}
      PROVE  Rule({}, "UDP", port) \in egress
  <2>1. Rule({}, "UDP", port) \in TailscaleEgressRules(i)
    BY <1>3 DEF TailscaleEgressRules, When
  <2>2. QED
    BY <1>1, <2>1 DEF EgressRules
<1>4. ASSUME "honcho" \in i.on
      PROVE  Rule(HonchoSelector, "TCP", HonchoPort) \in egress
  <2>1. Rule(HonchoSelector, "TCP", HonchoPort) \in ExtraEgressRules(i)
    BY <1>4 DEF ExtraEgressRules, When
  <2>2. QED
    BY <1>1, <2>1 DEF EgressRules
<1>5. HonchoSelector \subseteq HonchoLabels
  BY DEF HonchoLabels
<1> HIDE DEF egress
<1>6. Opens(egress, {}, "TCP", 443)
  BY <1>2, RuleOpens
<1>7. "tailscale" \in i.on =>
        \A port \in {3478, 41641} : Opens(egress, {}, "UDP", port)
  BY <1>3, RuleOpens
<1>8. "honcho" \in i.on => Opens(egress, HonchoLabels, "TCP", HonchoPort)
  BY <1>4, <1>5, RuleOpens
<1>9. QED
  BY <1>6, <1>7, <1>8 DEF egress

\* All of it.
LEMMA Reaches == AdmissionInv => Reachable
<1> SUFFICES ASSUME AdmissionInv, inst.exists PROVE Reachable
  BY DEF Reachable
<1> DEFINE pod == BuildStatefulSet(inst)
           service == BuildService(inst)
           policy == BuildNetworkPolicy(inst)
           names == PortNames(service.ports)
<1>1. inst \in Manifests
  BY InvParts
<1>2. SelectorLabels \subseteq LabelsForInstance
  BY DEF LabelsForInstance
<1>3. pod.selector = SelectorLabels
  BY Zenon DEF BuildStatefulSet
<1>4. pod.labels = LabelsForInstance
  BY Zenon DEF BuildStatefulSet
<1>5. service.ports = ServicePorts(inst)
  BY Zenon DEF BuildService
<1>6. policy.selector = SelectorLabels
  BY PolicyParts
<1>7. BuildBackupOneShotJob.labels = LabelsForInstance
  BY Zenon DEF BuildBackupOneShotJob
<1>8. /\ Selects(pod.selector, pod.labels)
      /\ Selects(policy.selector, pod.labels)
      /\ Selects(policy.selector, BuildBackupOneShotJob.labels)
  BY <1>2, <1>3, <1>4, <1>6, <1>7, Zenon DEF Selects
<1>9. ServiceReaches(service, pod, policy)
  BY <1>1, ServiceLeads
<1>10. RoutePortName(inst) \in names =>
         \E p \in ToSet(service.ports) :
            p.name = RoutePortName(inst) /\ p.port = RoutePort(inst)
  <2>1. ASSUME RoutePortName(inst) \in PortNames(ServicePorts(inst))
        PROVE  \E p \in ToSet(ServicePorts(inst)) :
                 p.name = RoutePortName(inst)
                 /\ p.port = ServicePortNumber(inst, RoutePortName(inst))
    BY <1>1, <2>1, RouteLeads
  <2>2. QED
    BY <1>5, <2>1, Zenon DEF RoutePort
<1>11. IngressPortServed(inst) => IngressPortName(inst) \in names
  BY <1>1, <1>5, IngressLeads, Zenon
<1>12. GatewayEgressEndpoints(inst) # {} => Opens(policy.egress, {}, "TCP", 443)
  BY EgressOpens
<1>13. ASSUME "tailscale" \in inst.on
       PROVE  /\ BuildConfigMap(inst).serves
                   \subseteq {p.port : p \in HermesContainer(inst).ports}
              /\ \A port \in {3478, 41641} :
                   Opens(policy.egress, {}, "UDP", port)
  <2> DEFINE c == [name |-> "gateway", port |-> GatewayPort]
  <2>1. BuildConfigMap(inst).serves = When("tailscale" \in inst.on, {GatewayPort})
    BY Zenon DEF BuildConfigMap
  <2>2. HermesContainer(inst).ports = {c} /\ c.port = GatewayPort
    BY ContainerFacts
  <2> HIDE DEF c
  <2>3. BuildConfigMap(inst).serves
          \subseteq {p.port : p \in HermesContainer(inst).ports}
    BY <2>1, <2>2 DEF When
  <2>4. QED
    BY <1>13, <2>3, EgressOpens
<1>14. ASSUME "honcho" \in inst.on
       PROVE  /\ ServiceReaches(BuildHonchoService, BuildHonchoDeployment,
                                BuildHonchoNetworkPolicy)
              /\ Selects(BuildHonchoNetworkPolicy.selector,
                         BuildHonchoDeployment.labels)
              /\ \A port \in HonchoConsumerEnv(inst).ports :
                   Opens(policy.egress, HonchoLabels, "TCP", port)
  <2>1. BuildHonchoNetworkPolicy.selector = HonchoSelector
    BY Zenon DEF BuildHonchoNetworkPolicy
  <2>2. BuildHonchoDeployment.labels = HonchoLabels
    BY Zenon DEF BuildHonchoDeployment
  <2>3. HonchoSelector \subseteq HonchoLabels
    BY DEF HonchoLabels
  <2>4. HonchoConsumerEnv(inst).ports = When("honcho" \in inst.on, {HonchoPort})
    BY Zenon DEF HonchoConsumerEnv
  <2>5. \A port \in HonchoConsumerEnv(inst).ports : port = HonchoPort
    BY <2>4 DEF When
  <2>6. Opens(policy.egress, HonchoLabels, "TCP", HonchoPort)
    BY <1>14, EgressOpens
  <2>7. QED
    BY <2>1, <2>2, <2>3, <2>5, <2>6, HonchoLeads, Zenon DEF Selects
<1>15. QED
  BY <1>8, <1>9, <1>10, <1>11, <1>12, <1>13, <1>14 DEF Reachable

(***************************************************************************)
(* In every reachable state traffic gets where the objects send it         *)
(* (buildServicePorts, networkPolicyIngressPorts, buildEgressRules,        *)
(* servicePortNumber), for any list of ports and any port numbers.         *)
(***************************************************************************)
THEOREM AlwaysReachable == Spec => []Reachable
BY Reaches, AdmissionInvHolds, PTL

=============================================================================
