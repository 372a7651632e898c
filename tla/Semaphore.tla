----------------------------- MODULE Semaphore ------------------------------
(***************************************************************************)
(* The Semaphore UI integration: what a reconcile provisions in the        *)
(* Semaphore server for an instance and what deletion removes again        *)
(*   internal/controller/hermesinstance_controller.go  reconcileSemaphore, *)
(*                                                     semaphoreCleanup    *)
(*                                                                         *)
(* Project and user are looked up by names made of the instance's name     *)
(* alone, so all instances of one name share them; Instances are the       *)
(* HermesInstances of one name, each in a namespace of its own, with       *)
(* spec.semaphore.enabled and cleanupOnDelete on.  One worker reconciles   *)
(* them (MaxConcurrentReconciles is 1).  Every request to the server is a  *)
(* step: it may fail, its answer may be lost, the operator may crash.      *)
(***************************************************************************)
EXTENDS Integers

CONSTANTS
    Instances,   \* the instances that share one name
    MaxCreates,  \* bound: creations of instances
    MaxFaults    \* bound: failed requests, lost answers and crashes

ASSUME SemaphoreAssumption ==
    /\ Instances # {}
    /\ MaxCreates \in Nat
    /\ MaxFaults \in Nat

VARIABLES
    life,       \* the instances in the API server
    held,       \* instances that carry the semaphore-cleanup finalizer
    skilled,    \* instances whose spec.skills has semaphore-ui
    secret,     \* the user whose API token an instance's Secret holds, 0
                \* without a Secret, NoToken when it holds the empty string
    projects,   \* ids of the projects of the name
    users,      \* ids of the users of the name
    members,    \* <<project, user>>: the user is a manager of the project
    lastId,     \* the last id the server gave out
    pc,         \* the next request of the running reconcile
    who,        \* the instance being reconciled
    pid,        \* its projectID
    uid,        \* its userID
    creates,    \* creations of instances so far
    faults      \* faults so far

vars == <<life, held, skilled, secret, projects, users, members, lastId,
          pc, who, pid, uid, creates, faults>>

kubernetes == <<life, held, skilled, secret, creates>>

server == <<projects, users, members, lastId>>

\* The server counts up.  A project or user is only created when there was
\* none, and it takes a cleanup of an instance, or the retry of one, to remove
\* it again: the bounds on these bound the ids.
Ids == Nat \ {0}

NoToken == -1

Steps == {"idle", "ensureProject", "ensureUser", "ensureMember",
          "ensureSecret", "ensureSkill", "findProject", "deleteProject",
          "deleteUser", "removeFinalizer"}

-----------------------------------------------------------------------------
Fault ==
    /\ faults < MaxFaults
    /\ faults' = faults + 1

\* The answer arrives and the reconcile goes on, or it is lost and the
\* reconcile returns the error; a crash at this point looks the same.
Answered(next) ==
    \/ pc' = next /\ UNCHANGED faults
    \/ pc' = "idle" /\ Fault

NewId == lastId' = lastId + 1

Init ==
    /\ life = [i \in Instances |-> "absent"]
    /\ held = {}
    /\ skilled = {}
    /\ secret = [i \in Instances |-> 0]
    /\ projects = {}
    /\ users = {}
    /\ members = {}
    /\ lastId = 0
    /\ pc = "idle"
    /\ who \in Instances
    /\ pid = 0
    /\ uid = 0
    /\ creates = 0
    /\ faults = 0

-----------------------------------------------------------------------------
(***************************************************************************)
(* Reconcile puts the finalizer on and comes to reconcileSemaphore, or     *)
(* comes to semaphoreCleanup.                                              *)
(***************************************************************************)
Begin(i) ==
    /\ pc = "idle"
    /\ \/ life[i] = "live" /\ held' = held \cup {i} /\ pc' = "ensureProject"
       \/ life[i] = "deleting" /\ i \in held /\ pc' = "findProject"
            /\ UNCHANGED held
    /\ who' = i
    /\ pid' = 0
    /\ uid' = 0
    /\ UNCHANGED <<life, skilled, secret, server, faults, creates>>

-----------------------------------------------------------------------------
(***************************************************************************)
(* reconcileSemaphore.  Each part is looked up and created if missing.     *)
(***************************************************************************)

\* Mutant: the list of projects is not consulted.
EnsureProject_AlwaysCreates ==
    /\ pc = "ensureProject"
    /\ NewId
    /\ projects' = projects \cup {lastId'}
    /\ pid' = lastId'
    /\ Answered("ensureUser")
    /\ UNCHANGED <<kubernetes, users, members, who, uid>>

EnsureProject ==
    /\ pc = "ensureProject"
    /\ \/ pid' \in projects /\ UNCHANGED <<projects, lastId>>
       \/ /\ projects = {}
          /\ NewId
          /\ projects' = {lastId'}
          /\ pid' = lastId'
    /\ Answered("ensureUser")
    /\ UNCHANGED <<kubernetes, users, members, who, uid>>

EnsureUser ==
    /\ pc = "ensureUser"
    /\ \/ uid' \in users /\ UNCHANGED <<users, lastId>>
       \/ /\ users = {}
          /\ NewId
          /\ users' = {lastId'}
          /\ uid' = lastId'
    /\ Answered("ensureMember")
    /\ UNCHANGED <<kubernetes, projects, members, who, pid>>

\* Mutant: an error of the POST is not returned.
EnsureMember_ErrorIgnored ==
    /\ pc = "ensureMember"
    /\ \/ members' = members \cup {<<pid, uid>>} /\ UNCHANGED faults
       \/ Fault /\ UNCHANGED members
    /\ pc' = "ensureSecret"
    /\ UNCHANGED <<kubernetes, projects, users, lastId, who, pid, uid>>

\* Mutant: project and user are swapped in the request.
EnsureMember_Swapped ==
    /\ pc = "ensureMember"
    /\ members' = members \cup {<<uid, pid>>}
    /\ Answered("ensureSecret")
    /\ UNCHANGED <<kubernetes, projects, users, lastId, who, pid, uid>>

EnsureMember ==
    /\ pc = "ensureMember"
    /\ members' = members \cup {<<pid, uid>>}
    /\ Answered("ensureSecret")
    /\ UNCHANGED <<kubernetes, projects, users, lastId, who, pid, uid>>

\* A Secret that exists is left alone; otherwise the user logs in, generates
\* a token and the Secret is created with it.
EnsureSecret ==
    /\ pc = "ensureSecret"
    /\ secret' = IF secret[who] = 0 THEN [secret EXCEPT ![who] = uid]
                 ELSE secret
    /\ Answered("ensureSkill")
    /\ UNCHANGED <<life, held, skilled, server, who, pid, uid, creates>>

\* The status code of the token request is not looked at: the id decoded from
\* an error is the empty string, and the Secret is created with that.
TokenRefused ==
    /\ pc = "ensureSecret"
    /\ secret[who] = 0
    /\ Fault
    /\ secret' = [secret EXCEPT ![who] = NoToken]
    /\ pc' = "ensureSkill"
    /\ UNCHANGED <<life, held, skilled, server, who, pid, uid, creates>>

EnsureSkill ==
    /\ pc = "ensureSkill"
    /\ skilled' = IF life[who] = "absent" THEN skilled ELSE skilled \cup {who}
    /\ pc' = "idle"
    /\ UNCHANGED <<life, held, secret, server, who, pid, uid, faults, creates>>

-----------------------------------------------------------------------------
(***************************************************************************)
(* semaphoreCleanup.  The status code of a DELETE is not looked at, so a   *)
(* DELETE the server refuses counts as done.                               *)
(***************************************************************************)
\* Mutant: a missing project is an error.
FindNoProject_Error ==
    /\ pc = "findProject"
    /\ projects = {}
    /\ pc' = "idle"
    /\ UNCHANGED <<kubernetes, server, who, pid, uid, faults>>

FindNoProject ==
    /\ pc = "findProject"
    /\ projects = {}
    /\ pc' = "removeFinalizer"
    /\ UNCHANGED <<kubernetes, server, who, pid, uid, faults>>

FindProject ==
    /\ pc = "findProject"
    /\ pid' \in projects
    /\ IF users = {} THEN uid' = 0 ELSE uid' \in users
    /\ pc' = "deleteProject"
    /\ UNCHANGED <<kubernetes, server, who, faults>>

DeleteProject ==
    /\ pc = "deleteProject"
    /\ projects' = projects \ {pid}
    /\ members' = {m \in members : m[1] # pid}
    /\ Answered("deleteUser")
    /\ UNCHANGED <<kubernetes, users, lastId, who, pid, uid>>

DeleteProjectRefused ==
    /\ pc = "deleteProject"
    /\ Fault
    /\ pc' = "deleteUser"
    /\ UNCHANGED <<kubernetes, server, who, pid, uid>>

\* uid is never the admin's (1), whose user name is another.
DeleteUser ==
    /\ pc = "deleteUser"
    /\ users' = users \ {uid}
    /\ members' = {m \in members : m[2] # uid}
    /\ Answered("removeFinalizer")
    /\ UNCHANGED <<kubernetes, projects, lastId, who, pid, uid>>

DeleteUserRefused ==
    /\ pc = "deleteUser"
    /\ Fault
    /\ pc' = "removeFinalizer"
    /\ UNCHANGED <<kubernetes, server, who, pid, uid>>

RemoveFinalizer ==
    /\ pc = "removeFinalizer"
    /\ held' = held \ {who}
    /\ life' = [life EXCEPT ![who] = "absent"]
    /\ skilled' = skilled \ {who}
    /\ Answered("idle")
    /\ UNCHANGED <<secret, server, who, pid, uid, creates>>

\* Any request may fail without an effect; the work queue tries again.
RequestFails ==
    /\ pc # "idle"
    /\ Fault
    /\ pc' = "idle"
    /\ UNCHANGED <<kubernetes, server, who, pid, uid>>

-----------------------------------------------------------------------------
Create(i) ==
    /\ life[i] = "absent"
    /\ creates < MaxCreates
    /\ creates' = creates + 1
    /\ life' = [life EXCEPT ![i] = "live"]
    /\ UNCHANGED <<held, skilled, secret, server, pc, who, pid, uid, faults>>

\* Without a finalizer the object is gone at once.
Delete(i) ==
    /\ life[i] = "live"
    /\ life' = [life EXCEPT ![i] = IF i \in held THEN "deleting" ELSE "absent"]
    /\ UNCHANGED <<held, skilled, secret, server, pc, who, pid, uid, creates,
                   faults>>

Work ==
    \/ EnsureProject \/ EnsureUser \/ EnsureMember \/ EnsureSecret
    \/ EnsureSkill
    \/ FindNoProject \/ FindProject \/ DeleteProject \/ DeleteUser
    \/ RemoveFinalizer

Next ==
    \/ Work \/ RequestFails \/ TokenRefused
    \/ DeleteProjectRefused \/ DeleteUserRefused
    \/ \E i \in Instances : Begin(i) \/ Create(i) \/ Delete(i)

Spec == Init /\ [][Next]_vars

(***************************************************************************)
(* The worker goes on with the reconcile it runs, and the work queue gives *)
(* every instance its turn.                                                *)
(***************************************************************************)
Fairness ==
    /\ WF_vars(Work)
    /\ \A i \in Instances : SF_vars(Begin(i))

FairSpec == Spec /\ Fairness

-----------------------------------------------------------------------------
TypeOK ==
    /\ life \in [Instances -> {"absent", "live", "deleting"}]
    /\ held \subseteq Instances
    /\ skilled \subseteq Instances
    /\ secret \in [Instances -> Nat \cup {NoToken}]
    /\ projects \subseteq Ids
    /\ users \subseteq Ids
    /\ members \subseteq projects \X users
    /\ lastId \in Nat
    /\ pc \in Steps
    /\ who \in Instances
    /\ pid \in Nat
    /\ uid \in Nat
    /\ creates \in 0..MaxCreates
    /\ faults \in 0..MaxFaults

(***************************************************************************)
(* However often a request is retried after a failure, a lost answer or a  *)
(* crash, the server never has two projects or two users of the name       *)
(* (reconcileSemaphore creates only what the list does not show).          *)
(***************************************************************************)
NoDuplicates ==
    /\ \A p, q \in projects : p = q
    /\ \A u, v \in users : u = v

(***************************************************************************)
(* When reconcileSemaphore comes to its last part, and so is about to      *)
(* report SemaphoreReady, the project, the user and its membership exist   *)
(* in the server, and the instance has its token Secret.                   *)
(***************************************************************************)
ReadyMeansProvisioned ==
    pc = "ensureSkill" =>
        /\ pid \in projects
        /\ uid \in users
        /\ <<pid, uid>> \in members
        /\ secret[who] # 0

(***************************************************************************)
(* What makes the two inductive: each part a running reconcileSemaphore    *)
(* has been through still exists, since the one worker runs no cleanup     *)
(* before this reconcile has ended.                                        *)
(***************************************************************************)
PartsExist ==
    /\ pc \in {"ensureUser", "ensureMember", "ensureSecret", "ensureSkill"}
         => pid \in projects
    /\ pc \in {"ensureMember", "ensureSecret", "ensureSkill"} => uid \in users
    /\ pc \in {"ensureSecret", "ensureSkill"} => <<pid, uid>> \in members
    /\ pc = "ensureSkill" => secret[who] # 0

SemaphoreInv == TypeOK /\ NoDuplicates /\ PartsExist

(***************************************************************************)
(* The cleanup of a deleted instance comes to an end, however it was       *)
(* interrupted and whatever it finds missing.                              *)
(***************************************************************************)
CleanupEnds ==
    \A i \in Instances : life[i] = "deleting" ~> life[i] = "absent"

-----------------------------------------------------------------------------
(***************************************************************************)
(* types.go on CleanupOnDelete: it "removes the Semaphore project and user *)
(* when the HermesInstance is deleted".                                    *)
(***************************************************************************)
CleanupRemovesBoth ==
    (\A i \in Instances : life[i] = "absent") /\ pc = "idle"
        => projects = {} /\ users = {}

=============================================================================
