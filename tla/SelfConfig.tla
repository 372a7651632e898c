----------------------------- MODULE SelfConfig -----------------------------
(***************************************************************************)
(* HermesSelfConfig: requests of an agent to change its own instance,      *)
(* checked against the policy of the parent and applied with Server-Side   *)
(* Apply under one field manager                                           *)
(*   internal/controller/hermesselfconfig_controller.go                    *)
(*   internal/controller/selfconfig_policy.go, selfconfig_apply.go         *)
(*   internal/webhook/webhook_hermesselfconfig.go                          *)
(*   internal/controller/hermesinstance_controller.go                      *)
(*                                            reconcileWorkspaceConfigMap  *)
(*                                                                         *)
(* One skill, one variable, one config patch, one file and one snapshot    *)
(* stand for the five categories; what tells two requests apart is whose   *)
(* value a field holds.  Requests and parent are read from informer        *)
(* caches, every write is a step, and users, other field managers and the  *)
(* instance reconciler act between any two of them.                        *)
(***************************************************************************)
EXTENDS Naturals

CONSTANTS
    Requests,   \* the HermesSelfConfigs of one instance
    Contents,   \* sets of actions a request may ask for
    Literal,    \* the requests whose file has content, not contentFrom
    Forcing,    \* the requests created with the force-ownership annotation
    MaxEdits,   \* bound: edits of the requests, the parent and its fields
    MaxFaults   \* bound: failed calls and crashes

Actions == {"skills", "config", "envVars", "workspaceFiles", "profiles"}

ASSUME SelfConfigAssumption ==
    /\ Contents \subseteq SUBSET Actions
    /\ Literal \subseteq Requests
    /\ Forcing \subseteq Requests
    /\ {"none", "other", "nobody"} \cap Requests = {}
    /\ MaxEdits \in Nat
    /\ MaxFaults \in Nat

VARIABLES
    parent,       \* the HermesInstance's policy in the API server
    parentCache,  \* the operator's informer copy of it
    scs,          \* the requests in the API server
    scCache,      \* the operator's informer copies of them
    fields,       \* who wrote each field: "none", "other" or a request
    jobs,         \* requests with a snapshot Job
    pc,           \* the next step of the running reconcile
    who,          \* the request being reconciled, or "nobody"
    sc,           \* its working copy
    policy,       \* the copy of the parent it has read
    applied,      \* applyAll's list of applied fields
    edits, faults,
    versions      \* history: every policy the API server has held

vars == <<parent, parentCache, scs, scCache, fields, jobs, pc, who, sc, policy,
          applied, edits, faults, versions>>

local == <<who, sc, policy>>

caches == <<parentCache, scCache>>

\* protects: protectedKeys match the config patch; files: initialFiles has
\* the file of the requests.
Policy == [exists : BOOLEAN, enabled : BOOLEAN, allowed : SUBSET Actions,
           protects : BOOLEAN, honcho : BOOLEAN, files : BOOLEAN]

\* gen 0: the request does not exist.  force: the force-ownership annotation.
Request == [gen : 0..(MaxEdits + 1), want : SUBSET Actions, force : BOOLEAN,
            phase : {"none", "Applied", "Denied"},
            observed : 0..(MaxEdits + 1), applied : SUBSET Actions]

InstanceFields == {"skills", "envVars"}

ConfigMapFields == {"config", "workspaceFiles"}

Fields == InstanceFields \cup ConfigMapFields

Steps == {"idle", "policy", "skills", "envVars", "configMap", "profiles",
          "markApplied", "deny"}

NoRequest == [gen |-> 0, want |-> {}, force |-> FALSE, phase |-> "none",
              observed |-> 0, applied |-> {}]

NoParent == [exists |-> FALSE, enabled |-> FALSE, allowed |-> {},
             protects |-> FALSE, honcho |-> FALSE, files |-> FALSE]

Init ==
    /\ parent \in [exists : {TRUE}, enabled : BOOLEAN,
                   allowed : SUBSET Actions, protects : BOOLEAN,
                   honcho : BOOLEAN, files : BOOLEAN]
    /\ parentCache = parent
    /\ scs = [r \in Requests |-> NoRequest]
    /\ scCache = scs
    /\ fields = [f \in Fields |-> IF f = "workspaceFiles" /\ parent.files
                                  THEN "other" ELSE "none"]
    /\ jobs = {}
    /\ pc = "idle"
    /\ who = "nobody"
    /\ sc = NoRequest
    /\ policy = NoParent
    /\ applied = {}
    /\ edits = 0
    /\ faults = 0
    /\ versions = {parent}

-----------------------------------------------------------------------------
Fault ==
    /\ faults < MaxFaults
    /\ faults' = faults + 1

Goto(next) == pc' = next

\* Reconcile returns: its local variables hold nothing.
Return ==
    /\ pc' = "idle"
    /\ who' = "nobody"
    /\ sc' = NoRequest
    /\ policy' = NoParent
    /\ applied' = {}

\* The canary: this generation has been processed.
Terminal(s) == s.observed = s.gen /\ s.phase \in {"Applied", "Denied"}

\* Mutant: one allowed action is enough.
CheckAllowedActions_Any(requested, allowed) ==
    IF requested \cap allowed = {} THEN requested ELSE {}

\* The requested actions that are not allowed.
CheckAllowedActions(requested, allowed) == requested \ allowed

Permitted(s, p) ==
    /\ p.exists /\ p.enabled
    /\ s.want # {}
    /\ CheckAllowedActions(s.want, p.allowed) = {}
    /\ ~("config" \in s.want /\ p.protects)

\* Mutant: every apply forces ownership.
Forced_Always(s) == TRUE

\* patchOptions
Forced(s) == s.force

Conflict(wanted) == ~Forced(sc) /\ \E f \in wanted : fields[f] = "other"

(***************************************************************************)
(* Server-Side Apply of a partial object that has the fields wanted, out   *)
(* of those the object can have.  A field the manager applied before and   *)
(* leaves out now is removed.  An object that is not there is created.     *)
(***************************************************************************)
Apply(possible, wanted) ==
    /\ ~Conflict(wanted)
    /\ fields' = [f \in Fields |->
                    IF f \in wanted THEN who
                    ELSE IF f \in possible /\ fields[f] \in Requests THEN "none"
                    ELSE fields[f]]
    /\ parent' = IF possible = InstanceFields /\ ~parent.exists
                 THEN [NoParent EXCEPT !.exists = TRUE] ELSE parent
    /\ versions' = versions \cup {parent'}

Unapplied == UNCHANGED <<fields, parent, versions>>

-----------------------------------------------------------------------------
(***************************************************************************)
(* Reconcile.  A terminal request returns at once.                         *)
(***************************************************************************)
BeginReconcile(r) ==
    /\ pc = "idle"
    /\ scCache[r].gen # 0
    /\ ~Terminal(scCache[r])
    /\ who' = r
    /\ sc' = scCache[r]
    /\ applied' = {}
    /\ Goto("policy")
    /\ UNCHANGED <<parent, caches, scs, fields, jobs, policy, edits, faults,
                   versions>>

CheckPolicy ==
    /\ pc = "policy"
    /\ policy' = parentCache
    /\ Goto(IF Permitted(sc, parentCache) THEN "skills" ELSE "deny")
    /\ UNCHANGED <<parent, caches, scs, fields, jobs, who, sc, applied, edits,
                   faults, versions>>

-----------------------------------------------------------------------------
(***************************************************************************)
(* applyAll: skills, then variables, then the ConfigMap, then the Job.     *)
(***************************************************************************)
ApplyInstance(action, next) ==
    /\ pc = action
    /\ IF action \in sc.want THEN Apply(InstanceFields, {action})
       ELSE Unapplied
    /\ applied' = applied \cup ({action} \cap sc.want)
    /\ Goto(next)
    /\ UNCHANGED <<caches, scs, jobs, local, edits, faults>>

\* A file with contentFrom is not in the payload.
ConfigMapPatch ==
    {f \in ConfigMapFields \cap sc.want :
        f = "workspaceFiles" => who \in Literal}

ApplyConfigMap ==
    /\ pc = "configMap"
    /\ IF ConfigMapFields \cap sc.want # {}
       THEN Apply(ConfigMapFields, ConfigMapPatch) ELSE Unapplied
    /\ applied' = applied \cup (ConfigMapFields \cap sc.want)
    /\ Goto("profiles")
    /\ UNCHANGED <<caches, scs, jobs, local, edits, faults>>

SnapshotProfile ==
    /\ pc = "profiles"
    /\ "profiles" \in sc.want => policy.honcho
    /\ jobs' = jobs \cup {r \in {who} : "profiles" \in sc.want}
    /\ applied' = applied \cup ({"profiles"} \cap sc.want)
    /\ Goto("markApplied")
    /\ Unapplied
    /\ UNCHANGED <<caches, scs, local, edits, faults>>

Refused ==
    \/ pc \in InstanceFields /\ Conflict({pc} \cap sc.want)
    \/ pc = "configMap" /\ Conflict(ConfigMapPatch)
    \/ pc = "profiles" /\ "profiles" \in sc.want /\ ~policy.honcho

\* Any error of applyAll, a passing one too, denies the request.
ApplyFails ==
    /\ \/ Refused /\ UNCHANGED faults
       \/ pc \in InstanceFields \cup {"configMap", "profiles"} /\ Fault
    /\ Goto("deny")
    /\ Unapplied
    /\ UNCHANGED <<caches, scs, jobs, local, applied, edits>>

-----------------------------------------------------------------------------
(***************************************************************************)
(* deny and markApplied.  The status write is refused unless the working   *)
(* copy is current; the error requeues the request.                        *)
(***************************************************************************)

\* Mutant: the status is patched without a resourceVersion.
StatusCurrent_Patch == TRUE

StatusCurrent == scs[who] = sc

\* Mutant: observedGeneration is not set.
Deny_NotObserved ==
    /\ pc = "deny"
    /\ StatusCurrent
    /\ scs' = [scs EXCEPT ![who].phase = "Denied"]
    /\ Return
    /\ Unapplied
    /\ UNCHANGED <<caches, jobs, edits, faults>>

\* Mutant: the phase is the reason the documentation gives.
Deny_Reason ==
    /\ pc = "deny"
    /\ StatusCurrent
    /\ scs' = [scs EXCEPT ![who].phase = "SSAConflict",
                          ![who].observed = sc.gen]
    /\ Return
    /\ Unapplied
    /\ UNCHANGED <<caches, jobs, edits, faults>>

\* appliedFields stay what they were.
Deny ==
    /\ pc = "deny"
    /\ StatusCurrent
    /\ scs' = [scs EXCEPT ![who].phase = "Denied", ![who].observed = sc.gen]
    /\ Return
    /\ Unapplied
    /\ UNCHANGED <<caches, jobs, edits, faults>>

\* Mutant: the new fields are appended to those of an earlier generation.
MarkApplied_Appends ==
    /\ pc = "markApplied"
    /\ StatusCurrent
    /\ scs' = [scs EXCEPT ![who].phase = "Applied", ![who].observed = sc.gen,
                          ![who].applied = @ \cup applied]
    /\ Return
    /\ Unapplied
    /\ UNCHANGED <<caches, jobs, edits, faults>>

MarkApplied ==
    /\ pc = "markApplied"
    /\ StatusCurrent
    /\ scs' = [scs EXCEPT ![who].phase = "Applied", ![who].observed = sc.gen,
                          ![who].applied = applied]
    /\ Return
    /\ Unapplied
    /\ UNCHANGED <<caches, jobs, edits, faults>>

StatusRefused ==
    /\ pc \in {"deny", "markApplied"}
    /\ ~StatusCurrent
    /\ Return
    /\ Unapplied
    /\ UNCHANGED <<caches, scs, jobs, edits, faults>>

\* A failed status write, or a crash anywhere.
Crash ==
    /\ pc # "idle"
    /\ Fault
    /\ Return
    /\ Unapplied
    /\ UNCHANGED <<caches, scs, jobs, edits>>

-----------------------------------------------------------------------------
(***************************************************************************)
(* The watches, and the instance reconciler's workspace ConfigMap, whose   *)
(* data it replaces by what spec.workspace asks for.                       *)
(***************************************************************************)
SyncParent ==
    /\ parentCache # parent
    /\ parentCache' = parent
    /\ UNCHANGED <<parent, scs, scCache, fields, jobs, pc, local, applied,
                   edits, faults, versions>>

SyncRequest(r) ==
    /\ scCache[r] # scs[r]
    /\ scCache' = [scCache EXCEPT ![r] = scs[r]]
    /\ UNCHANGED <<parent, parentCache, scs, fields, jobs, pc, local, applied,
                   edits, faults, versions>>

ReconcileWorkspaceConfigMap ==
    /\ parent.exists
    /\ fields' = [fields EXCEPT !["config"] = "none",
                                !["workspaceFiles"] =
                                    IF parent.files THEN "other" ELSE "none"]
    /\ fields' # fields
    /\ UNCHANGED <<parent, caches, scs, jobs, pc, local, applied, edits,
                   faults, versions>>

-----------------------------------------------------------------------------
(***************************************************************************)
(* The agent, the users and the other field managers.                      *)
(***************************************************************************)
Edit ==
    /\ edits < MaxEdits
    /\ edits' = edits + 1

\* HermesSelfConfigValidator
Validate(want) ==
    /\ parentCache.exists
    /\ "profiles" \in want => parentCache.honcho

WriteRequest(r, s) ==
    /\ scs' = [scs EXCEPT ![r] = s]
    /\ UNCHANGED <<parent, caches, fields, jobs, pc, local, applied, faults,
                   versions>>

CreateRequest(r, want) ==
    /\ scs[r].gen = 0
    /\ Validate(want)
    /\ WriteRequest(r, [NoRequest EXCEPT !.gen = 1, !.want = want,
                                       !.force = (r \in Forcing)])
    /\ UNCHANGED edits

EditRequest(r, want) ==
    /\ Edit
    /\ scs[r].gen # 0
    /\ want # scs[r].want
    /\ Validate(want)
    /\ WriteRequest(r, [scs[r] EXCEPT !.want = want, !.gen = @ + 1])

\* An annotation does not change the generation.
AnnotateForce(r) ==
    /\ Edit
    /\ scs[r].gen # 0
    /\ ~scs[r].force
    /\ WriteRequest(r, [scs[r] EXCEPT !.force = TRUE])

WritePolicy(p) ==
    /\ Edit
    /\ parent' = p
    /\ versions' = versions \cup {p}
    /\ UNCHANGED <<caches, scs, jobs, pc, local, applied, faults>>

EditPolicy ==
    /\ parent.exists
    /\ \/ WritePolicy([parent EXCEPT !.enabled = ~@])
       \/ \E a \in Actions : WritePolicy([parent EXCEPT !.allowed = @ \ {a}])
       \/ WritePolicy([parent EXCEPT !.protects = ~@])
       \/ WritePolicy([parent EXCEPT !.honcho = ~@])
    /\ UNCHANGED fields

\* The fields go with the instance and the ConfigMap it owns.
DeleteParent ==
    /\ parent.exists
    /\ WritePolicy(NoParent)
    /\ fields' = [f \in Fields |-> "none"]

\* Another field manager writes a field of the instance.
OtherWrites(f) ==
    /\ Edit
    /\ parent.exists
    /\ fields' = [fields EXCEPT ![f] = "other"]
    /\ UNCHANGED <<parent, caches, scs, jobs, pc, local, applied, faults,
                   versions>>

-----------------------------------------------------------------------------
ReconcileStep ==
    \/ CheckPolicy
    \/ ApplyInstance("skills", "envVars")
    \/ ApplyInstance("envVars", "configMap")
    \/ ApplyConfigMap \/ SnapshotProfile \/ ApplyFails
    \/ Deny \/ MarkApplied \/ StatusRefused

Next ==
    \/ ReconcileStep \/ Crash \/ SyncParent \/ ReconcileWorkspaceConfigMap
    \/ \E r \in Requests :
        \/ BeginReconcile(r) \/ SyncRequest(r) \/ AnnotateForce(r)
        \/ \E want \in Contents :
            CreateRequest(r, want) \/ EditRequest(r, want)
    \/ EditPolicy \/ DeleteParent
    \/ \E f \in InstanceFields : OtherWrites(f)

Spec == Init /\ [][Next]_vars

(***************************************************************************)
(* The worker goes on with its reconcile, the work queue gives every       *)
(* request its turn and the watches deliver.                               *)
(***************************************************************************)
Fairness ==
    /\ WF_vars(ReconcileStep)
    /\ \A r \in Requests :
        SF_vars(BeginReconcile(r)) /\ WF_vars(SyncRequest(r))

FairSpec == Spec /\ Fairness

-----------------------------------------------------------------------------
TypeOK ==
    /\ {parent, parentCache, policy} \subseteq Policy
    /\ scs \in [Requests -> Request]
    /\ scCache \in [Requests -> Request]
    /\ sc \in Request
    /\ fields \in [Fields -> {"none", "other"} \cup Requests]
    /\ jobs \subseteq Requests
    /\ pc \in Steps
    /\ who \in Requests \cup {"nobody"}
    /\ applied \subseteq Actions
    /\ edits \in 0..MaxEdits
    /\ faults \in 0..MaxFaults
    /\ versions \subseteq Policy

(***************************************************************************)
(* docs/selfconfig.md, policy reference: what a request has written was    *)
(* permitted, by a policy the parent had at some time: no retry, crash or  *)
(* edit of the request gets a category past the gates of Reconcile.        *)
(***************************************************************************)
GateHonoured ==
    /\ \A f \in Fields : fields[f] \in Requests =>
        \E v \in versions : /\ v.enabled /\ f \in v.allowed
                            /\ f = "config" => ~v.protects
    /\ jobs # {} => \E v \in versions :
        v.enabled /\ "profiles" \in v.allowed /\ v.honcho

(***************************************************************************)
(* "Default is collaborative" (the reconciler's comment): a field of       *)
(* another manager only becomes a request's when that request carries the  *)
(* force-ownership annotation.                                             *)
(***************************************************************************)
OthersKept ==
    [][ \A f \in Fields : fields[f] = "other" /\ fields'[f] \in Requests
            => scs[fields'[f]].force ]_vars

(***************************************************************************)
(* A decision stands: a reconcile that still works on a copy from before   *)
(* it never turns Applied into Denied or back for the same generation.     *)
(***************************************************************************)
DecisionFinal ==
    [][ \A r \in Requests : Terminal(scs[r]) /\ scs'[r].gen = scs[r].gen
            => scs'[r].phase = scs[r].phase ]_vars

(***************************************************************************)
(* appliedFields of an applied request are those of the generation that    *)
(* observedGeneration names, whatever was edited during the reconcile.     *)
(***************************************************************************)
StatusMatchesSpec ==
    \A r \in Requests : Terminal(scs[r]) /\ scs[r].phase = "Applied"
        => scs[r].applied = scs[r].want

(***************************************************************************)
(* What makes these inductive: the caches are older versions; a request    *)
(* never loses its annotation and never shows a generation that is still   *)
(* to come as observed; and a running reconcile works for an undecided     *)
(* copy, past the gates with a policy the parent has had, and has in its   *)
(* list what the copy asks for of the categories it has been through.      *)
(***************************************************************************)
RequestKnown(r) ==
    /\ scs[r].gen = 0 => scs[r] = NoRequest
    /\ scs[r].gen <= edits + 1
    /\ scs[r].observed <= scs[r].gen
    /\ scCache[r].force => scs[r].force

AppliedSoFar ==
    /\ pc \in {"policy", "skills"} => applied = {}
    /\ pc = "envVars" => applied = {"skills"} \cap sc.want
    /\ pc = "configMap" => applied = InstanceFields \cap sc.want
    /\ pc = "profiles" => applied = Fields \cap sc.want
    /\ pc = "markApplied" => applied = sc.want

ReconcileKnown ==
    /\ pc # "idle" => /\ who \in Requests
                      /\ sc.gen # 0
                      /\ ~Terminal(sc)
                      /\ sc.force => scs[who].force
    /\ pc \in Steps \ {"idle", "policy", "deny"} =>
        policy \in versions /\ Permitted(sc, policy)

SelfConfigInv ==
    /\ TypeOK
    /\ GateHonoured
    /\ StatusMatchesSpec
    /\ {parent, parentCache} \subseteq versions
    /\ \A r \in Requests : RequestKnown(r)
    /\ AppliedSoFar
    /\ ReconcileKnown

(***************************************************************************)
(* Every request is decided in the end, also when its parent is gone.      *)
(***************************************************************************)
EventuallyDecided ==
    \A r \in Requests : scs[r].gen # 0 ~> Terminal(scs[r])

-----------------------------------------------------------------------------
(***************************************************************************)
(* Statements of the documentation.                                        *)
(***************************************************************************)

\* types.go: "AddSkills appends skills to the parent's .spec.skills": when a
\* request is about to be marked Applied and nobody else has written, its
\* skill is there.
SkillsAppended ==
    pc = "markApplied" /\ "skills" \in sc.want => fields["skills"] = who

=============================================================================
