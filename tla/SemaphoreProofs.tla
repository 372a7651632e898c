-------------------------- MODULE SemaphoreProofs ---------------------------
(***************************************************************************)
(* Proofs about Semaphore, for any set of instances that share a name and  *)
(* any number of creations, failed requests, lost answers and crashes.     *)
(***************************************************************************)
EXTENDS Semaphore, TLAPS

-----------------------------------------------------------------------------
\* Before the first reconcile the server is empty.
LEMMA InvInit == Init => SemaphoreInv
BY SemaphoreAssumption
   DEF Init, SemaphoreInv, TypeOK, NoDuplicates, PartsExist, Steps, Ids

-----------------------------------------------------------------------------
(***************************************************************************)
(* Facts about the parts of a step.                                        *)
(***************************************************************************)

\* A fault stays within its bound.
LEMMA FaultType == ASSUME TypeOK, Fault PROVE faults' \in 0..MaxFaults
BY SemaphoreAssumption DEF TypeOK, Fault

\* With the answer or without it, the reconcile is at a step.
LEMMA AnsweredType ==
    ASSUME TypeOK, NEW next \in Steps, Answered(next)
    PROVE  /\ pc' \in {next, "idle"}
           /\ pc' \in Steps
           /\ faults' \in 0..MaxFaults
<1>1. "idle" \in Steps
  BY DEF Steps
<1>2. CASE pc' = next /\ UNCHANGED faults
  BY <1>2 DEF TypeOK
<1>3. CASE pc' = "idle" /\ Fault
  BY <1>1, <1>3, FaultType
<1>4. QED
  BY <1>2, <1>3 DEF Answered

\* An id the server gives out is a positive number.
LEMMA NewIdType == ASSUME TypeOK, NewId PROVE lastId' \in Ids
BY DEF TypeOK, NewId, Ids

-----------------------------------------------------------------------------
(***************************************************************************)
(* What each request keeps.                                                *)
(***************************************************************************)

\* The first request of a reconcile finds nothing it relies on.
LEMMA BeginStep ==
    ASSUME SemaphoreInv, NEW i \in Instances, Begin(i)
    PROVE  SemaphoreInv'
<1>1. pc' \in {"ensureProject", "findProject"} /\ held' \subseteq Instances
      /\ who' \in Instances /\ pid' = 0 /\ uid' = 0
      /\ UNCHANGED <<life, skilled, secret, projects, users, members, lastId,
                     faults, creates>>
  BY DEF Begin, SemaphoreInv, TypeOK, server
<1>2. TypeOK'
  BY <1>1 DEF SemaphoreInv, TypeOK, Steps
<1>3. NoDuplicates' /\ PartsExist'
  BY <1>1 DEF SemaphoreInv, NoDuplicates, PartsExist
<1>4. QED
  BY <1>2, <1>3 DEF SemaphoreInv

\* The project that is found, or created when the list was empty, is the one.
LEMMA EnsureProjectStep ==
    ASSUME SemaphoreInv, EnsureProject
    PROVE  SemaphoreInv'
<1>1. UNCHANGED <<life, held, skilled, secret, creates, users, members, who, uid>>
  BY DEF EnsureProject, kubernetes
<1>2. pc' \in {"ensureUser", "idle"} /\ pc' \in Steps /\ faults' \in 0..MaxFaults
  BY AnsweredType DEF EnsureProject, Steps, SemaphoreInv
<1>3. /\ projects' \subseteq Ids
      /\ pid' \in projects'
      /\ lastId' \in Nat
      /\ \A p, q \in projects' : p = q
      /\ projects \subseteq projects'
  <2>1. CASE pid' \in projects /\ UNCHANGED <<projects, lastId>>
    BY <2>1 DEF SemaphoreInv, TypeOK, NoDuplicates
  <2>2. CASE projects = {} /\ NewId /\ projects' = {lastId'} /\ pid' = lastId'
    <3>1. lastId' \in Ids
      BY <2>2, NewIdType DEF SemaphoreInv
    <3>2. QED
      BY <2>2, <3>1 DEF Ids
  <2>3. QED
    BY <2>1, <2>2 DEF EnsureProject
<1>4. TypeOK'
  <2>1. pid' \in Nat
    BY <1>3 DEF Ids
  <2>2. members' \subseteq projects' \X users'
    BY <1>1, <1>3 DEF SemaphoreInv, TypeOK
  <2>3. QED
    BY <1>1, <1>2, <1>3, <2>1, <2>2 DEF SemaphoreInv, TypeOK
<1>5. NoDuplicates' /\ PartsExist'
  BY <1>1, <1>2, <1>3 DEF SemaphoreInv, NoDuplicates, PartsExist
<1>6. QED
  BY <1>4, <1>5 DEF SemaphoreInv

\* So is the user.
LEMMA EnsureUserStep ==
    ASSUME SemaphoreInv, EnsureUser
    PROVE  SemaphoreInv'
<1>1. UNCHANGED <<life, held, skilled, secret, creates, projects, members, who,
                  pid>>
  BY DEF EnsureUser, kubernetes
<1>2. pc' \in {"ensureMember", "idle"} /\ pc' \in Steps
      /\ faults' \in 0..MaxFaults
  BY AnsweredType DEF EnsureUser, Steps, SemaphoreInv
<1>3. /\ users' \subseteq Ids
      /\ uid' \in users'
      /\ lastId' \in Nat
      /\ \A u, v \in users' : u = v
      /\ users \subseteq users'
  <2>1. CASE uid' \in users /\ UNCHANGED <<users, lastId>>
    BY <2>1 DEF SemaphoreInv, TypeOK, NoDuplicates
  <2>2. CASE users = {} /\ NewId /\ users' = {lastId'} /\ uid' = lastId'
    <3>1. lastId' \in Ids
      BY <2>2, NewIdType DEF SemaphoreInv
    <3>2. QED
      BY <2>2, <3>1 DEF Ids
  <2>3. QED
    BY <2>1, <2>2 DEF EnsureUser
<1>4. TypeOK'
  <2>1. uid' \in Nat
    BY <1>3 DEF Ids
  <2>2. members' \subseteq projects' \X users'
    BY <1>1, <1>3 DEF SemaphoreInv, TypeOK
  <2>3. QED
    BY <1>1, <1>2, <1>3, <2>1, <2>2 DEF SemaphoreInv, TypeOK
<1>5. pid' \in projects'
  BY <1>1 DEF EnsureUser, SemaphoreInv, PartsExist
<1>6. NoDuplicates' /\ PartsExist'
  BY <1>1, <1>2, <1>3, <1>5 DEF SemaphoreInv, NoDuplicates, PartsExist
<1>7. QED
  BY <1>4, <1>6 DEF SemaphoreInv

\* The membership is between a project and a user that exist.
LEMMA EnsureMemberStep ==
    ASSUME SemaphoreInv, EnsureMember
    PROVE  SemaphoreInv'
<1>1. UNCHANGED <<life, held, skilled, secret, creates, projects, users, lastId,
                  who, pid, uid>>
      /\ members' = members \cup {<<pid, uid>>}
  BY DEF EnsureMember, kubernetes
<1>2. pc' \in {"ensureSecret", "idle"} /\ pc' \in Steps
      /\ faults' \in 0..MaxFaults
  BY AnsweredType DEF EnsureMember, Steps, SemaphoreInv
<1>3. pid \in projects /\ uid \in users
  BY DEF EnsureMember, SemaphoreInv, PartsExist
<1>4. TypeOK'
  <2>1. members' \subseteq projects' \X users'
    BY <1>1, <1>3 DEF SemaphoreInv, TypeOK
  <2>2. QED
    BY <1>1, <1>2, <2>1 DEF SemaphoreInv, TypeOK
<1>5. NoDuplicates' /\ PartsExist'
  BY <1>1, <1>2, <1>3 DEF SemaphoreInv, NoDuplicates, PartsExist
<1>6. QED
  BY <1>4, <1>5 DEF SemaphoreInv

\* The Secret holds the token of a user, or the empty string.
LEMMA SecretStep ==
    ASSUME SemaphoreInv, EnsureSecret \/ TokenRefused
    PROVE  SemaphoreInv'
<1>1. UNCHANGED <<life, held, skilled, projects, users, members, lastId, who, pid,
                  uid, creates>>
      /\ pc = "ensureSecret"
  BY DEF EnsureSecret, TokenRefused, server
<1>2. pc' \in {"ensureSkill", "idle"} /\ pc' \in Steps
      /\ faults' \in 0..MaxFaults
  <2>1. "ensureSkill" \in Steps
    BY DEF Steps
  <2>2. CASE EnsureSecret
    BY <2>1, <2>2, AnsweredType DEF EnsureSecret, SemaphoreInv
  <2>3. CASE TokenRefused
    BY <2>1, <2>3, FaultType DEF TokenRefused, SemaphoreInv
  <2>4. QED
    BY <2>2, <2>3
<1>3. pid \in projects /\ uid \in users /\ <<pid, uid>> \in members
  BY <1>1 DEF SemaphoreInv, PartsExist
<1>4. secret' \in [Instances -> Nat \cup {NoToken}] /\ secret'[who] # 0
  <2>1. uid \in Nat /\ uid # 0 /\ NoToken # 0 /\ who \in Instances
        /\ secret \in [Instances -> Nat \cup {NoToken}]
    BY <1>3 DEF SemaphoreInv, TypeOK, Ids, NoToken
  <2>2. \/ secret' = secret /\ secret[who] # 0
        \/ secret' = [secret EXCEPT ![who] = uid]
        \/ secret' = [secret EXCEPT ![who] = NoToken]
    BY DEF EnsureSecret, TokenRefused
  <2>3. QED
    BY <2>1, <2>2
<1>5. TypeOK'
  BY <1>1, <1>2, <1>4 DEF SemaphoreInv, TypeOK
<1>6. NoDuplicates' /\ PartsExist'
  BY <1>1, <1>2, <1>3, <1>4 DEF SemaphoreInv, NoDuplicates, PartsExist
<1>7. QED
  BY <1>5, <1>6 DEF SemaphoreInv

\* A cleanup deletes a project or a user together with its memberships.
LEMMA DeleteStep ==
    ASSUME SemaphoreInv, DeleteProject \/ DeleteUser
    PROVE  SemaphoreInv'
<1>1. UNCHANGED <<life, held, skilled, secret, creates, lastId, who, pid, uid>>
  BY DEF DeleteProject, DeleteUser, kubernetes
<1>2. pc' \in {"deleteUser", "removeFinalizer", "idle"} /\ pc' \in Steps
      /\ faults' \in 0..MaxFaults
  <2>1. "deleteUser" \in Steps /\ "removeFinalizer" \in Steps
    BY DEF Steps
  <2>2. CASE DeleteProject
    BY <2>1, <2>2, AnsweredType DEF DeleteProject, SemaphoreInv
  <2>3. CASE DeleteUser
    BY <2>1, <2>3, AnsweredType DEF DeleteUser, SemaphoreInv
  <2>4. QED
    BY <2>2, <2>3
<1>3. projects' \subseteq projects /\ users' \subseteq users
      /\ members' \subseteq projects' \X users'
  <2>1. members \subseteq projects \X users
    BY DEF SemaphoreInv, TypeOK
  <2>2. CASE DeleteProject
    BY <2>1, <2>2 DEF DeleteProject
  <2>3. CASE DeleteUser
    BY <2>1, <2>3 DEF DeleteUser
  <2>4. QED
    BY <2>2, <2>3
<1>4. TypeOK'
  BY <1>1, <1>2, <1>3 DEF SemaphoreInv, TypeOK
<1>5. NoDuplicates' /\ PartsExist'
  BY <1>1, <1>2, <1>3 DEF SemaphoreInv, NoDuplicates, PartsExist
<1>6. QED
  BY <1>4, <1>5 DEF SemaphoreInv

\* The other steps of a reconcile leave the server alone and end it, or are
\* steps of a cleanup.
LEMMA OtherWorkStep ==
    ASSUME SemaphoreInv,
           EnsureSkill \/ FindNoProject \/ FindProject \/ RemoveFinalizer
           \/ DeleteProjectRefused \/ DeleteUserRefused \/ RequestFails
    PROVE  SemaphoreInv'
<1>1. UNCHANGED <<secret, projects, users, members, lastId, who, creates>>
  BY DEF EnsureSkill, FindNoProject, FindProject, RemoveFinalizer,
     DeleteProjectRefused, DeleteUserRefused, RequestFails, kubernetes, server
<1>2. life' \in [Instances -> {"absent", "live", "deleting"}]
      /\ held' \subseteq Instances /\ skilled' \subseteq Instances
  BY DEF EnsureSkill, FindNoProject, FindProject, RemoveFinalizer,
     DeleteProjectRefused, DeleteUserRefused, RequestFails, kubernetes,
     SemaphoreInv, TypeOK
<1>3. pid' \in Nat /\ uid' \in Nat
  <2>1. CASE FindProject
    <3>1. projects \subseteq Nat /\ users \subseteq Nat
      BY DEF SemaphoreInv, TypeOK, Ids
    <3>2. pid' \in projects /\ (uid' = 0 \/ uid' \in users)
      BY <2>1 DEF FindProject
    <3>3. 0 \in Nat
      OBVIOUS
    <3>4. QED
      BY <3>1, <3>2, <3>3, Zenon
  <2>2. CASE ~FindProject
    BY <2>2 DEF EnsureSkill, FindNoProject, RemoveFinalizer,
       DeleteProjectRefused, DeleteUserRefused, RequestFails, SemaphoreInv,
       TypeOK
  <2>3. QED
    BY <2>1, <2>2
<1>4. pc' \in {"idle", "removeFinalizer", "deleteProject", "deleteUser"}
      /\ faults' \in 0..MaxFaults
  <2>1. CASE EnsureSkill \/ FindNoProject \/ FindProject
    BY <2>1 DEF EnsureSkill, FindNoProject, FindProject, SemaphoreInv, TypeOK
  <2>2. CASE RemoveFinalizer
    BY <2>2, AnsweredType DEF RemoveFinalizer, Steps, SemaphoreInv
  <2>3. CASE DeleteProjectRefused \/ DeleteUserRefused \/ RequestFails
    BY <2>3, FaultType
       DEF DeleteProjectRefused, DeleteUserRefused, RequestFails, SemaphoreInv
  <2>4. QED
    BY <2>1, <2>2, <2>3
<1>5. TypeOK'
  BY <1>1, <1>2, <1>3, <1>4 DEF SemaphoreInv, TypeOK, Steps
<1>6. NoDuplicates' /\ PartsExist'
  BY <1>1, <1>4 DEF SemaphoreInv, NoDuplicates, PartsExist
<1>7. QED
  BY <1>5, <1>6 DEF SemaphoreInv

\* Users create and delete instances; the server does not change.
LEMMA UserStep ==
    ASSUME SemaphoreInv, NEW i \in Instances, Create(i) \/ Delete(i)
    PROVE  SemaphoreInv'
<1>1. UNCHANGED <<held, skilled, secret, projects, users, members, lastId, pc,
                  who, pid, uid, faults>>
  BY DEF Create, Delete, server
<1>2. life' \in [Instances -> {"absent", "live", "deleting"}]
  BY DEF Create, Delete, SemaphoreInv, TypeOK
<1>3. creates' \in 0..MaxCreates
  BY SemaphoreAssumption DEF Create, Delete, SemaphoreInv, TypeOK
<1>4. TypeOK'
  BY <1>1, <1>2, <1>3 DEF SemaphoreInv, TypeOK
<1>5. NoDuplicates' /\ PartsExist'
  BY <1>1 DEF SemaphoreInv, NoDuplicates, PartsExist
<1>6. QED
  BY <1>4, <1>5 DEF SemaphoreInv

-----------------------------------------------------------------------------
\* No step of any kind disturbs the inductive invariant.
LEMMA InvStep == SemaphoreInv /\ [Next]_vars => SemaphoreInv'
<1> SUFFICES ASSUME SemaphoreInv, [Next]_vars
             PROVE  SemaphoreInv'
  OBVIOUS
<1>1. CASE Work
  BY <1>1, EnsureProjectStep, EnsureUserStep, EnsureMemberStep, SecretStep,
     OtherWorkStep, DeleteStep DEF Work
<1>2. CASE RequestFails \/ DeleteProjectRefused \/ DeleteUserRefused
  BY <1>2, OtherWorkStep
<1>3. CASE TokenRefused
  BY <1>3, SecretStep
<1>4. CASE \E i \in Instances : Begin(i) \/ Create(i) \/ Delete(i)
  BY <1>4, BeginStep, UserStep
<1>5. CASE UNCHANGED vars
  BY <1>5 DEF vars, SemaphoreInv, TypeOK, NoDuplicates, PartsExist
<1>6. QED
  BY <1>1, <1>2, <1>3, <1>4, <1>5 DEF Next

\* The inductive invariant holds throughout.
THEOREM SemaphoreInvHolds == Spec => []SemaphoreInv
BY InvInit, InvStep, PTL DEF Spec

\* Every reachable state is well typed: in particular a membership is always
\* between a project and a user that exist in the Semaphore server.
THEOREM SemaphoreTypeCorrect == Spec => []TypeOK
<1>1. SemaphoreInv => TypeOK
  BY DEF SemaphoreInv
<1>2. QED
  BY <1>1, SemaphoreInvHolds, PTL

\* However many instances share the name and however often requests fail, are
\* answered to nobody, or are cut short by a crash, reconcileSemaphore never
\* leaves two projects or two users of the name in the server.
THEOREM RetriesMakeNoDuplicates == Spec => []NoDuplicates
<1>1. SemaphoreInv => NoDuplicates
  BY DEF SemaphoreInv
<1>2. QED
  BY <1>1, SemaphoreInvHolds, PTL

\* When reconcileSemaphore is about to report SemaphoreReady, all it reports
\* exists.
THEOREM ReadyIsProvisioned == Spec => []ReadyMeansProvisioned
<1>1. SemaphoreInv => ReadyMeansProvisioned
  BY DEF SemaphoreInv, PartsExist, ReadyMeansProvisioned
<1>2. QED
  BY <1>1, SemaphoreInvHolds, PTL

=============================================================================
