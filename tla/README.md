# TLA+ models of hermes-operator

hermes-operator is a Kubernetes operator, in Go, that runs Hermes agents. A
`HermesInstance` describes one agent, a `HermesSelfConfig` is an agent's
request to change its own instance, a `HermesClusterDefaults` gives defaults.
This directory models the controllers behind these kinds, checks the models
with TLC and proves, with TLAPS, their type correctness and all their safety
properties for every value of the constants, and that the deletion protocol and
the one-shots implement abstract specifications.

`PROJECT.json` is the index: runs, the source lines each definition stands for,
mutated definitions that show that every property can fail, hazards, findings
and theorems. Paths below are relative to the repository.

## 1. The system

| Component | State it keeps | Operations | What makes it correct |
|---|---|---|---|
| Instance loop (`internal/controller/hermesinstance_controller.go`) | conditions, phase, observedGeneration; some 25 owned objects | 18 ordered subsystem steps, each create, update or delete; then sub-controllers; then status | objects converge to the spec; the status claims no more than was applied and what answers to patches brought in; the pod comes after its policies; data is retained |
| Deletion (`backup.go`, Reconcile's deletion branch) | two finalizers, final backup Job, `status.backup` | add finalizers, run the Job, wait, give up at the deadline, remove finalizers, clean up Semaphore | no release without a reason; always released in the end |
| Auto-update (`autoupdate.go`, `backup.go: RunOneShot`) | `status.autoUpdate`, annotation, StatefulSet image | poll, backup, roll out, confirm, roll back | failed tags are not retried; backup first; a rollout ends |
| Restore, migration (`restore.go`, `migration.go`, init container builders, validating webhook) | latches `restoredFrom`, `migration.completed`; the volume | init containers; observing their exits; admission of edits | one-shots: done before latched, never both, never over used data |
| Semaphore (`reconcileSemaphore`, `semaphoreCleanup`) | project, user, membership, token in an outside server; Secret; skill | find or create, each over HTTP; delete | no duplicates, nothing left, cleanup ends |
| Self-configuration (`hermesselfconfig_controller.go`, `selfconfig_*.go`, its webhook) | phase and observedGeneration of each request; fields it owns in the parent and a ConfigMap; snapshot Jobs | policy gates, Server-Side Apply, deny, mark applied | only what a policy allowed; decided once; others' fields kept |
| Scheduled backup (`ReconcileCronJob`) | two CronJobs, condition BackupReady | create, update, delete | converges; errors do not stop the pass |
| Webhooks, cluster defaults (`internal/webhook`, `hermesclusterdefaults_controller.go`) | the HermesClusterDefaults named `cluster` and the cache it is read from | schema defaults, `ApplyClusterDefaults`, `ValidateCreate`, `ValidateUpdate` on every write of an instance | what users write wins; the operator's own patches are never refused; what is admitted can be built |
| Resource builders (`internal/resources`), gateways, Tailscale | none | pure construction of the objects from the spec | names unique, references resolved, ports and selectors of different objects agree |
| OCI client, S3 keys, metrics, `main.go` | none | network access, formatting, start-up | — |

The parts share the instance object. A reconcile reads it once, from an
informer cache that may be old, and hands this one working copy from part to
part. Each part may change the copy's status, save it with `Status().Update`
(refused if the object has changed since) or patch the object: its finalizers
before the loop, `spec.skills` in the Semaphore step, auto-update's annotation
after the loop. A patch is not refused, since a merge patch has no
resourceVersion, and its answer replaces the working copy by the server's
object: newer specs and their generation come into a pass that is half done,
and unsaved status is lost. A change whose save failed stays in the copy, and
the status update at the end may write it after all. The auto-update
and the StatefulSet step both write the pod template; the self-configuration
and the workspace step both write one ConfigMap. There is one worker per
controller, so reconciles of one controller do not overlap.

What is hard is therefore: old copies; a pass cut short by an error or a crash
between any two of its calls; users, kubelet, Job and StatefulSet controllers
acting in between; answers that get lost; deadlines. `hazards` in
`PROJECT.json` lists these at their lines, with the properties that would
catch each of them.

## 2. The modules

In all modules a step is one call to the API server or to another server, a
decision is taken together with the call it leads to, and the cache of a
watched object is a variable that follows the server's by a `Sync…` action.
Names of actions are those of the Go functions; a second word names the return
or branch (`FinalJobFailed`, `RestoreWaiting`). Operators with an underscore
(`FinalJobFailed_Releases`) are mutated forms and part of no specification.

**Deletion** — `api`, `cache`, `inst` are the object in the server, in the
informer and in the reconcile. `fins` is the finalizer list as a set, with
`foreign` for those of other controllers. `Patch` sets the whole list, as
`client.MergeFrom` on a changed list does, and the server refuses new
finalizers on an object being deleted; `StatusUpdate` needs `inst = api`.
`BeginReconcile` is the cached Get; `EnsureFinalizer`,
`EnsureSemaphoreFinalizer` the live branch; `FinalBackupNotHeld` to
`RemoveFinalizer` the branches of `HandleDeletion`; `SemaphoreCleanup` and
`RemoveSemaphoreFinalizer` the rest. `age` counts time since the deletion and
stops past `Deadline`. `snapshot`, `cleaned`, `versions` are history.

**Finalizer** is what one finalizer promises: on a live object it comes and goes;
from the deletion request on it is only taken off, only when that is earned,
and the object goes only without it. `BackupHold` and `SemaphoreHold` in
Deletion instantiate it for the two finalizers. For the backup finalizer it is
earned by a snapshot, the deadline or the user's opting out
(`ReleaseJustified`); for Semaphore's by the cleanup, or by the user ever having
switched on backup-on-delete, since then the race of `deletion_race` exists.

**AutoUpdate** — tags are numbers in semver order. `base` is the version the
reconcile last read or wrote, `inst` is `base` with unsaved changes. The pass is
`ReconcileStatefulSet` (which sets the image of the spec), the auto-update
branches, `UpdateStatus`. The cluster replaces the pod, makes it ready if its tag
is in `Good`, reports status late, and finishes or expires the backup Job.
`newest` is what `HighestMatching` returns.

**RestoreMigration** — both sub-controllers, the template, the pod's init
containers in order, the volume (`data`, `source`, `imported`, `used`), and
user edits as the webhook admits them against the stored version. The restore
script's test for an empty destination is in `InitRestoreRefuses`; an extraction
that breaks off leaves `partial` data.

**OneShot** is the abstract one-shot: asked for, re-asked, done, latched for
ever. `RestoreIsOneShot` and `MigrationIsOneShot` in RestoreMigration map each
half to it: what is asked for is the spec, what is done is on the volume, the
latch is the status. For the restore, done means that some snapshot was extracted
in full; which one the latch names is not compared.

**Semaphore** — the server's projects, users and members, by id, of the one name
that `Instances` share: the code looks both up by the name of the instance
without its namespace. Ids are counted up and never used again. A request may
fail before or after its effect. The patch of the skill is a step of its own
whose effect on the pass is in Instance.

**SelfConfig** — each category is a field with its writer. `Apply` gives
Server-Side Apply for one manager: it conflicts on a field of another manager
unless forced, and removes fields of the manager that the apply does not name.
`ReconcileWorkspaceConfigMap` is the instance controller's step on the shared
ConfigMap. `GateHonoured` asks that some policy the parent has had permits what is
written: one withdrawn between the gate and the write is not a violation, since
the code does not look again.

**Instance** — a `Reconcile…` operator is the sequence of calls the Go function
makes for a spec, `Order` the list of steps. What an object holds is the
generation it was built from. `CallSucceeds` makes the next call,
`SubsystemRefused` and `SubsystemFails` end the pass as the loop does (set the
condition to False, save and ignore the result), `CronJobRefused` and
`CronJobFails` go on, `UpdateStatus` ends it. `Lagging` informers follow later;
`Disturb` is drift. `base` is the version the pass has read or got back last,
`inst` its working copy. `BeginWithFinalizer`, `PatchSkill` and
`PatchAnnotation` are the patches; `Answered` says what their answer leaves of the
copy: the server's object, except for what JSON leaves out and decoding
therefore keeps (`kept`: features the user has removed rather than set to
false; the conditions while none is stored). Adding the skill is a new
generation. When the annotation is patched is left open. `loop` is the copy as
the loop began, `newest` the newest generation a loop began with, `lead` by how
much the stored observedGeneration is ahead of the one its loop began with;
the three are history. `MaxGeneration` is `2 * (MaxEdits + 1)`: the creation
and each edit may be followed by one patch of the skill.

**Resources** — the builders, as operators on the record of an instance. A
container, volume, port, rule or selector keeps its name and what it refers to;
an object that must exist is `<<kind, name, key>>`; `Created` is what the loop
creates. `ResolvedBody`, `MergeGatewayFragments` and `EnsureModelDefault` follow
config.yaml with its top-level model and the writer of each gateway's entry; a
body that is not a mapping has `ok = FALSE` and stays as it is. Pod labels of
Jobs are reduced to those that selectors look at. `IngressRules` lets in the
instance's namespace; the namespaces and CIDRs a user allows besides get the
same ports in further rules, which are left out.

**Admission** — every write of an instance on its way into the API server.
`Markers` has the CRD's default markers, `Manifests` the manifests there may be,
with values out of `Texts`; `SchemaDefaulted` fills the defaults where the
object around the field is given; `Default` is the mutating webhook with the cached
HermesClusterDefaults; its answer has every object of the spec, since the Go
JSON encoder never omits a struct, so `Defaulted` fills the schema's defaults a
second time; `ImagePinned` is the CEL rule; `ValidateCreate`
and `ValidateUpdate` are the validating webhook. Writers: a user who creates,
replaces or applies (`Applied` is the three-way merge with the manifest before),
the operator's patches (`OperatorPatches`: finalizers, annotation, skills; auto-update
never writes the tag of the spec, `autoupdate.go:176-192` patches the
StatefulSet). `ReconcilePVC` creates the claim once from the cached copy; the latches of
restore and migration are set as RestoreMigration says.

`MC…` modules choose initial states and inputs for TLC. The proofs are in
**DeletionProofs**, **SemaphoreProofs**, **RestoreMigrationProofs**,
**SelfConfigProofs**, **AutoUpdateProofs**, **InstanceProofs** and
**AdmissionProofs**, each of which extends the module it is about, and in
**ResourcesProofs**, which extends AdmissionProofs with the properties of what is
built from an admitted instance. The inductive invariants (`…Inv`) are stated in the component's module,
next to the properties they serve.

## 3. The runs

Passing runs:

| Run | States | Shows |
|---|---|---|
| `deletion` | both finalizers or Semaphore alone, 1 edit, 1 fault | each finalizer implements Finalizer, from whatever copy its patches are computed; status honest; both go in the end even if every Job fails |
| `autoupdate` | two tags, the newer never ready; a rollout with backup, one without and 1 fault, or none until 1 edit or new tag | no retry of a failed tag; a pre-update backup before the rollout; a rollout has a deadline exactly while it is in flight; it ends although its pod never gets ready |
| `restore` | 2 keys, 1 edit, 1 restart, 1 fault | each half implements OneShot; never both; the latch follows the exit; used data is not overwritten |
| `semaphore` | 2 namesakes, 3 creations, 2 faults | no duplicates; readiness means provisioned; cleanup ends |
| `selfconfig` | 2 requests with 5 categories between them, 1 edit, 1 fault | gates, others' fields, finality, status of the right generation, every request decided |
| `instance` | 9 features on, 2 of them switched, the skill to be added; 1 edit or 1 fault | what the status has observed was applied, but for what answers to patches brought in; pod after its policies; removal only when off; convergence; failures reported |
| `admission` | 47 manifests to create from, 7 to replace or apply later, 3 cluster defaults; 1 later submission, 2 writes of the defaults | explicit values win; the operator's own patches are admitted; a manifest can be submitted again while the defaults fit; the class of the volume stays in the spec; pods and their objects fit together; traffic gets through |

Runs that TLC must refute state what a document or comment of the repository
says and the code does not do:

- `deletion_race` — a patch computed before the Semaphore finalizer was seen
  replaces the list without it; the object goes before the cleanup.
- `instance_observed` — an edit reaches the pass through the answer to the
  patch of the skill, after the step it is for; the status claims its
  generation, without the object, until the next pass (`docs/api-reference.md:464`).
- `autoupdate_confirmed` — a rollout is confirmed from StatefulSet status that
  is about another template; the tag has never run.
- `semaphore_leak` — after a fault between the two deletes the retry finds no
  project and returns before it looks for the user.
- `selfconfig_skills` — the second apply of a request, for variables, removes
  the skill the first one added.

Other places where a document says more than the code does, met while
modelling and left without a run:

- `docs/conditions.md:35` has Ready depend on every other condition;
  `updateStatus` (controller, line 769) takes it from the StatefulSet alone.
- `examples/cluster-defaults/README.md:65-83` re-applies instances with
  `kubectl replace` after the defaults changed. An instance that got its class
  or its only tag from the defaults is refused once the defaults name another
  class or no tag; `ResyncAdmitted` states when it works. The fallback
  ":latest, 10Gi" named there is refused by the CEL rule, and the schema's is 1Gi.
- `ApplyClusterDefaults` replaces a CA bundle that names neither a ConfigMap nor
  a Secret as a whole (`webhook_hermesinstance_default.go:77-79`), so an explicit
  `key` in it is overridden. That contradicts line 19 of the same file, "It never
  overrides explicit values". `ExplicitWins` excepts exactly this case
  (`Overridden`), so that it passes says nothing against the disagreement.
- `docs/autoupdate.md:47` has a backup before a rollout. The pre-update Job has
  one name, and a later rollout takes an earlier Job that has not expired for its
  own (`backup.go:278-285`). `BackupBeforeRollout` says only that some pre-update
  backup has completed: after the first one it says nothing more.
- `restore.go:65` latches the restoreFrom of the moment the exit is seen. After an
  edit between extraction and latch `status.restoredFrom` names a snapshot that
  was not extracted; `RestoreIsOneShot` does not look at which.
- `docs/autoupdate.md:94` lets a rollout in flight complete when auto-update is
  switched off; the early return in `autoupdate.go:51` leaves it as it is.
- The metrics port of the Service leads to a container port nobody declares and
  no policy opens; `Reachable` leaves it out.
- The webhook refuses the names of the Tailscale sidecar and its volumes, and no
  other name of the operator's; it does not look whether a mount has a volume, or
  whether the port an Ingress or HTTPRoute names is a port of the Service.
  `UserNamesFree`, `IngressPortServed` and the premise of `Reachable` on routes
  say under which conditions the objects fit.
- A digest has no pattern in the schema; the rule on images takes any text for
  one, so `digest: latest` is pinned. `imageRef` writes it after an `@`.
- The Honcho Deployment mounts its claim also with persistence off, when nobody
  creates it.
- The annotation with the tag and `status.autoUpdate.targetTag` may name
  different tags: a second rollout, decided on an old copy, patches the annotation
  without a resourceVersion and then has its status update refused. No document
  claims that they agree.
- `configmap.go` leaves it to the validating webhook to refuse a malformed
  config; the webhook does not look at it.

**Bounds.** `MaxEdits`, `MaxFaults`, `MaxRestarts`, `MaxCreates` cap what the
environment does, never what the operator does. One edit and one fault, at any
moment of a pass, reach all the pairs the hazards are about: an old copy, a
save refused, a pass cut short, a retry. Two tags are an old and a new one, two
keys a snapshot and another. Three creations of two namesakes let one be
deleted and created again next to the other. Two requests are needed for
ownership between requests. In `autoupdate`
auto-update is on at the start, and backup, fault and edit are explored in
different initial states to keep it small: with a newer tag there either the
backup or a fault, without one the edit, which may bring the tag, change the
spec's or switch a flag. An edit in the middle of a rollout that began
without it is not in that run; what is safe then rests on the theorems, which have
no such bounds. In `instance` an initial state has one edit or one fault left. The manifests of `MCAdmission` use every field and
option at least once, and twice where the webhook compares two; some are
refused. Two writes of the defaults and one later submission reach a default
that comes, changes or goes between two admissions while the cache shows either;
finalizer patches are not bounded. All instances share the features of
`MCInit` in `instance`; steps of features that are off still make their
delete calls. `instance_observed` needs one switched feature and one edit.

**Deadlock** is checked for AutoUpdate, RestoreMigration, Instance and Admission, whose
instance is reconciled for ever. It is not checked for the others, which may
stop: a deleted instance is gone, a decided request is not reconciled again.

**Fairness.** The step of a running reconcile is weakly fair and an instance is
reconciled again and again: controller-runtime retries errors with backoff,
and Reconcile requeues after five minutes, polls or waits. Informers deliver
(weak fairness of `Sync…`). Strong fairness of `Begin(i)` and
`BeginReconcile(r)` says that the work queue is fair between objects of one
worker. Time passes (`Tick`, `RolloutWindowElapses`). Semaphore is not down for
ever (strong fairness of `SemaphoreCleanup` in Deletion); another controller
releases its own finalizer. Nothing is assumed of backup Jobs, pods, users or
the order of watches. Two liveness properties have a premise the code needs:
`EventuallyGone` that cleanupOnDelete stays on while its finalizer is there
(the branch is skipped otherwise and the object stays), `RolloutEnds` that
auto-update and rollback stay enabled.

## 4. What is proved

`DeletionProofs` proves, for every `Deadline`, `MaxEdits`, `MaxFaults` in Nat
(`BoundsAssumption`, the only assumption) and every initial set of flags, with
or without a finalizer of another controller:

- `TypeCorrect`: `Spec => []TypeOK`.
- `InvHolds`: `Spec => []DeletionInv`.
- `StatusIsHonest`: `Spec => []StatusHonest`.
- `ReleaseIsJustified`: `Spec => BackupBeforeRelease`, an action property.

`BackupBeforeRelease` is about any patch, and a patch of `EnsureFinalizer` or of
the Semaphore branch may be computed from a copy that has never shown the
backup finalizer. `DeletionInv` says why none of them drops it wrongly:

- `CopiesKnown`: each copy's flags are of a version the server has held, so a
  copy without onDelete proves that the user had opted out at some time;
- `ShowsDeletion`: the finalizers of an object being deleted only shrink, so a
  copy that shows the deletion shows at least the finalizers still there;
- `CompleteJobHasSnapshot`: a complete Job, in the server or in the cache, has
  left a snapshot;
- `StepsKnown`: at `removeFinalizer` the release is justified; past it the copy
  has no backup finalizer; at `ensureSemaphore` the copy has the backup finalizer
  or the user had opted out. The last is what makes the Semaphore patch of a
  live copy harmless to the backup finalizer.

Step lemmas go by action. `ReasonsPersist` and `JustificationPersists` say that
`versions`, `snapshot` and `age` only grow, so what justified a release still
does; `PatchKeepsCopies`, `UpdateKeepsCopies`, `UnwrittenKeeps` and
`UserWriteKeeps` carry the statements on copies over each kind of write. The
same argument fails for the Semaphore finalizer, because `EnsureFinalizer` runs
first on a copy that may lack it: that is `deletion_race`.

It also proves that the specification implements the abstract one, for every
value of the constants:

- `BackupRefinement`: `Spec => BackupImplementsFinalizer`.
- `SemaphoreRefinement`: `Spec => SemaphoreImplementsFinalizer`.

Each step of Deletion is first put into one of four classes by what it does to
the object (`EveryStepMoves`): it leaves phase and finalizers alone
(`LifeKept`), writes a live object (`StaysLive`), marks it (`BecomesDeleted`), or
takes finalizers off a marked one, which goes with the last of them
(`ShrinksDeleted`). Each class maps to one action of Finalizer or to a stutter,
except that a step that takes the finalizer in question off a marked object must
be a Release, with its reason. For the backup finalizer the reason is
`ReleaseIsJustified`'s argument on the same invariant (`BackupStep`). For
Semaphore's it needs `CleanedKnown` besides: at `removeSemaphore` the cleanup has
been done (`CleanedStep`); any other patch that drops the finalizer belongs to a
copy in which backup-on-delete is or was wanted, so `OptedIn` holds (`SemaphoreStep`).

`SemaphoreProofs` (`SemaphoreAssumption`: some instance, bounds in Nat) proves
`SemaphoreTypeCorrect`, `RetriesMakeNoDuplicates` (`NoDuplicates`) and
`ReadyIsProvisioned` (`ReadyMeansProvisioned`) for any number of namesakes,
creations and faults. `SemaphoreInv` adds `PartsExist`: each part a running
reconcile has been through still exists, because the one worker runs no cleanup
before the reconcile has ended. Without it nothing is known of the ids the
later requests use.

`RestoreMigrationProofs` (`OneShotAssumption`: at least one key, bounds in Nat)
proves `RestoreTypeCorrect`, `AtMostOneIsRecorded` (`OneShotsExclusive`), the
action property `WorkIsNotOverwritten` (`RestoreNeverOverwrites`) and both
refinements, `RestoreRefinesOneShot` and `MigrationRefinesOneShot`. `OneShotInv`
ties each copy to the volume: `Honest` says that a copy, old or unsaved, asks for
one of the two at most and has latched only what was carried out, `WorkingCopy`
that unsaved changes are to the status alone, `PodHonest` that an exit code 0 is of
a container that did its work. `WhatAStepDoes` classifies the steps by their
effect on latches and volume; `RestoreShotStep` and `MigrationShotStep` map each
class to a step of OneShot.

`SelfConfigProofs` (`SelfConfigAssumption`: the requests are not named like the
other writers of a field; bounds in Nat) proves `SelfConfigTypeCorrect`,
`NothingPassesTheGate` (`GateHonoured`), `AppliedIsWhatWasAsked`
(`StatusMatchesSpec`) and the action properties `OthersAreKept` (`OthersKept`)
and `DecisionsAreFinal` (`DecisionFinal`), for any set of requests.
`SelfConfigInv` adds that the copies of the parent are versions it has had, what
the stored requests may look like (`RequestKnown`), that a pass beyond the gates
has a policy that permits all it is about to write (`ReconcileKnown`), and that
its list of applied fields is what the copy asks for so far (`AppliedSoFar`).

`AutoUpdateProofs` (`ConstantsAssumption`: the first tag is good, bounds in Nat)
proves `AutoUpdateTypeCorrect`, `FailedTagsStayOff` (`FailedTagNotRetried`),
`NoRolloutWithoutBackup` (`BackupBeforeRollout`) and `EveryRolloutHasDeadline`
(`RolloutHasDeadline`). The poll compares a tag with the lastFailedTag of a copy
that may be old. `AutoUpdateInv` says why that is enough: lastFailedTag changes
only when a rollout ends that the operator has read from its cache, so a copy
without a rollout, however old, shows the lastFailedTag of now (`CacheKnown`,
`UndecidedKnown`), and nobody but the running reconcile changes it while it
starts or ends a rollout (`StartKnown`, `EndKnown`).

`InstanceProofs` (`InstanceAssumption`: which features are switched, objects lag,
drift or fail is any subset; bounds in Nat) proves `InstanceTypeCorrect`,
`ObservedIsApplied` (`ObservedMeansApplied`), `PodComesAfterPolicies`
(`PodAfterItsPolicies`) and the action property `RemovedOnlyAfterOff`
(`RemovedOnlyWhenOff`), for every combination of features. Two lemmas carry what
the code's order of steps has to do with it: `WalkIsLegal`, every call a step
makes for a spec is one the spec asks for (it applies what is wanted, deletes
what is not), and `WalkIsComplete`, what a spec wants is written by some step,
and all but the pod and Honcho's objects before the pod's. `InstanceInv` measures
by `newest`, the newest generation a loop has begun with. Up to the patch of the
skill, the last call of the loop, a pass works for the generation its loop began
with, and that is never an older one than a loop before it had (`LoopKnown`):
the cache may be older than an answer to a patch only while it lacks the finalizer,
and then the next pass patches it again before it begins. What an object holds
is of a generation up to `newest` (`Justified`); a cached object is still at
least that new unless a later spec up to `newest` switched it off
(`CacheKnown`), so an update that is skipped on the cache's word was not needed;
and what the running loop has been through is up to date (`PassKnown`).
CronJobs, which come after the patch, are left out of these. So the status, whose
generation may have come with an answer, holds for the generation its loop began
with: `ObservedMeansApplied` subtracts `lead` from it, and
`instance_observed` shows that without this it does not hold.

`AdmissionProofs` proves `AdmissionTypeCorrect`, `OwnWritesAlwaysAdmitted`
(`OwnWritesAdmitted`), `ExplicitAlwaysWins` (`ExplicitWins`),
`ResyncAlwaysAdmitted` (`ResyncAdmitted`) and `ClassStaysWithVolume`
(`ClassMatchesVolume`) for any manifests and cluster defaults.
`AdmissionAssumption` says that these have the shape of their types, that `Texts`
has the schema's defaults and that the bounds are in Nat. `DefaultedIs` says what the two passes of the
schema and the webhook between them do to a field: what is set stays, the rest
is filled (`Filled`). `AdmissionInv` adds `Accepted`, what is stored has passed
admission; `FollowsLast`, what nothing but a manifest changes is what the last
one said, which is needed for the three-way merge and for submitting that
manifest again; and `CopiesKnown`, the cached copy's class, once there, has
stayed. Every write of the spec is one of `Carries`, a request that says what the
last manifest says, and `SubmittedStep` does them all at once.

`ResourcesProofs` proves `ObjectsAlwaysAcceptable` (`ObjectsAcceptable`) and
`AlwaysReachable` (`Reachable`) for any lists of containers, volumes, mounts and
ports. Both follow from `AdmissionInv` in the state they are about (`Acceptable`,
`Reaches`); they use of it that a stored instance has the shape of its type, has
every number (`Complete`: without the second pass of the schema's defaults the
HPA's bounds could be out of order), has passed `ValidateCreate` and has a pinned
image. No assumption is added to `AdmissionAssumption`. The argument:

- `Unique(s, S, N)` says of a sequence that no name comes twice and that all are
  out of `N`. It holds for what the operator adds under a condition
  (`UniqueWhen`, `UniqueWhenTwo`), for the lists of the user (`UserList`,
  `UserVolumeList`), and for a concatenation when the two sets of names are
  disjoint (`UniqueConcat`): that is where the user's free names and the
  webhook's rule on Tailscale's names come in.
- `PodContainers`, `PodVolumes` and `ServicePortsAre` turn the sequences into
  sets of known elements (`ContainersOf`, `VolumesOf`, `PortsOf`); mounts
  (`MountsHaveVolumes`), references (`VolumeNeeds`, `PodNeedsMet`) and target
  ports (`ServiceLeads`) are then looked at element by element.
- `RouteLeads` follows `servicePortNumber`, which takes the number of the user's
  port of that name and else the operator's, to a port of the Service.
- `MergeWith` and `EnsureModel` have the value of an open field as a parameter,
  so that `FilledIn`, what becomes of model and gateways in config.yaml, is
  shown without looking at the text that stands for it.

Trying the proofs corrected the model in five places, in which the properties had
held only for the manifests of `MCAdmission`: a mount of `ca-bundle` in an
instance without a bundle, a digest with the text `latest`, a Service port 0
(excluded by the schema, now by `NamedServicePort`), an Ingress to a port of no
Service port's name, and a `UNION` next to a `\cup` that TLC and the prover read
differently.

Only model-checked:

- liveness (`BackupEventuallyReleased`, `EventuallyGone`, `RolloutEnds`,
  `LatchFollowsExit`, `CleanupEnds`, `EventuallyDecided`, `Converges`,
  `FailureReported`): the prover has no support for fairness;
- the four statements of the runs that are refuted.

## 5. What is not modelled

Of Kubernetes objects, what no other object or check depends on: probes,
security contexts, annotations, rules of Roles, dashboards, alert rules, the
values of settings that are passed on. HTTP, JSON and login details of Semaphore,
and the environment it adds to the pod; semver and registry access; glob matching
of protectedKeys and the merge of config trees (one flag each, or the entries
the operator cares about); the webhook's warnings and its look-ups of Secrets;
events, metrics, logs; manager start-up; the InvalidName status of
HermesClusterDefaults that are not named `cluster`; two operator replicas at once
(`config/manager/manager.yaml` deploys one, with `--leader-elect`). The override `HERMES_RESTORE_FORCE`
(`docs/backup-restore.md:56-62`), which a user sets on the StatefulSet to restore
over data, is not modelled, so `RestoreNeverOverwrites` is about restores without
it. Replicas of
the StatefulSet, which each pass sets to 1 even with an HPA, are not in Instance.
`deleteIfExists` does not look at owners and names may collide between instances
(`a` with Honcho off deletes the Service `a-honcho` of an instance of that name);
Instance and Admission model one instance.

## 6. Plan

Done: Deletion with its refinement of Finalizer, AutoUpdate, RestoreMigration
with its refinement of OneShot, Semaphore, SelfConfig, Instance, Resources and
Admission; proofs of all their safety properties. Next, in this order:

1. Composition: Deletion with Semaphore, where `cleaned` becomes the server's
   state; two instances with colliding names; one snapshot per rollout.
2. `HighestMatching`, `parsePollInterval` and the glob match of protectedKeys as
   operators with reference definitions; a request decided once as an abstract
   specification that SelfConfig implements.
