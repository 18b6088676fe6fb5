# Verification of the Tarantool operator

TLA+ models of the Kubernetes operator for Tarantool Cartridge in this
repository, checked with TLC and, for the parameterised results, proved with
TLAPS. Source paths are relative to the repository root.

## 1. The system

A user describes a Cartridge cluster with three kinds of custom resource: one
`Cluster`, several `Role`s (groups of replicasets) and any number of
`CartridgeConfig`s. One process runs three controllers, each with one worker
and its own work queue (`main.go`); the manager's leader election is off by
default, so two processes may overlap. The controllers share nothing but the
Kubernetes objects, which they read through a lagging informer cache and write
under optimistic concurrency, and the Tarantool instances, in which they execute
Lua snippets through `kubectl exec`.

| Component | State | Operations | Interacts with |
|---|---|---|---|
| Leader election (`pkg/election`) | `Cluster.Status.Leader`, `.Bootstrapped` | load, find, elect, probe | Cluster status, pods; called by all controllers |
| Stepped reconciler (`pkg/reconciliation`) | the object being reconciled, in memory | run the steps until one errs, requeues or completes; write the status | API server, work queue |
| Cluster controller | `Cluster.Status.Phase`; vshard of the instances | wait for the Roles, elect, bootstrap, configure failover, sync the service | phases of the Roles (watch and cache), leader |
| Role controller | `Role.Status.Phase`, StatefulSets | create and update StatefulSets, wait for the pods, join them, set vshard roles and weights | leader, `Bootstrapped` flag |
| Cluster-wide Service (`internal/implementation/resources_manager.go`, `SyncClusterWideServiceStep`) | the headless Service of the Cluster's name | create, adopt, compare, update | Cluster spec; owner references, by which its events wake the Cluster and the garbage collector takes it |
| CartridgeConfig controller | its phase; the clusterwide configuration | compare, patch | leader, `Bootstrapped` flag |
| Topology calls (`pkg/topology`) | none; the state is in the instances | join, bootstrap, probe, weights, roles, failover, configuration | pod exec transport |
| Pod exec transport (`pkg/topology/transport/podexec`) | one exec stream per call | dial, stream, parse the answer | kubelet, `tarantoolctl` in the pod; called by the only worker of a controller |
| StatefulSet management (`internal/implementation`) | StatefulSets | create, synchronise | Role spec |

The core of the program is a protocol between the controllers: a leader is
elected once; it joins itself, which starts a Cartridge cluster; the other pods
are joined through it; when every Role waits for the bootstrap, the Cluster
controller bootstraps vshard and marks the Cluster; then the Roles go on to
Ready. What makes it hard:

* **Concurrency and staleness.** All three controllers elect. Each decides on a
  cached copy and holds it over many remote calls.
* **Failure.** Any remote call may be executed and its reply lost; any status
  write may be refused; the process may stop between two steps.
* **Irreversibility.** Starting a second Cartridge cluster or bootstrapping
  vshard too early cannot be undone by a later reconcile.
* **Wake-ups.** A reconcile that ends with `Complete` is not repeated until a
  watch delivers something.
* **Level-triggered edits.** Users edit every object at any time, also between
  the step that read it and the one that acts on it; "nothing is left to do"
  must mean that the last edit is in force.

What makes each component correct:

* election: one leader before the bootstrap, never replaced before it; replaced
  after it when it cannot lead; no stale write undoes an election or the flag;
* joining: at most one Cartridge cluster is ever started; a Role is reported
  past joining only if all its pods are joined;
* bootstrap: only in a cluster that holds all pods; the flag only if it is done;
* joining at the scale of a Role: no replicaset and no pod of the spec is passed
  over for good, although the cache may lack its StatefulSet and no event of a
  pod wakes the controller;
* the Service: served at rest, a stranger's is never written, and it does not
  come back when its Cluster is deleted;
* transport: a call is executed at most once, and a result is that of an
  execution;
* wake-ups: no bootstrap is slept through, the Roles become ready, a resting
  Cluster's phase is true and its failover applied;
* the steps that bring something in line with a spec (StatefulSets, vshard roles
  and weights, configuration, failover): at rest the present spec is in force;
  nothing is undone that somebody else has written; it comes to rest.

The hazards, each with its source line and the properties that answer it, are
in `PROJECT.json`.

## 2. Modules

```
LeaderRegister        what is promised about the leader (abstract)
    ^ implemented by
Election              the election by concurrent workers on stale copies
    ^ EXTENDS                     ^ EXTENDS
Formation             joining     Election_proofs   theorems, for all constants
    and bootstrapping             MCElection        instances for TLC
    ^ EXTENDS
MCFormation           instances for TLC
Formation_proofs      theorems; EXTENDS Election_proofs as well

ClusterWakeup         watches, queues, phases and       ClusterWakeup_proofs
                      the failover

StatefulSets          creation and synchronisation      MCStatefulSets
    ^ EXTENDS
RolePods              from them to the joined pods      MCRolePods, RolePods_proofs (both)

RemoteCall            what a call promises (abstract)
    ^ implemented by
PodExec               one exec stream
    ^ EXTENDS
ClusterService        the Cluster's Service, with       MCClusterService
                      deletion and calls                ClusterService_proofs (both)

VShardRoles           vshard roles, then weights        MCVShardRoles, VShardRoles_proofs
ConfigApply           the clusterwide configuration     MCConfigApply, ConfigApply_proofs
Failover              parameters and their secret       MCFailover, Failover_proofs

LevelTriggered        what every controller promises (abstract)
    ^ implemented by
StatefulSets, RolePods, VShardRoles, ClusterService, ConfigApply, Failover,
ClusterWakeup
```

Election and Formation are about the order of the whole protocol, ClusterWakeup
about who wakes whom. StatefulSets, ClusterService, VShardRoles, ConfigApply and
Failover each take one step (or a few) out of a reconcile and model it with
everything that can happen around it. They share a shape: the
object in memory is `copy` and `fresh` says whether it is still the stored
version; the final status update (`End`, or `UpdateStatus` in ClusterService)
requeues the object if it is not; a step that waits or fails requeues it as well,
`Complete` does not; whatever an informer delivers fills the queue.

**LevelTriggered** is what the stepped reconciler (`pkg/reconciliation/reconciler.go`)
makes of a controller, whatever its steps do. `goal` is what users ask for, `world` what
the controller keeps in line with it, `fulfilled` whether it is, and `awake` says that the
worker is busy, the object queued, or an event on its way that will queue it. Anything may
happen that leaves the controller awake or wakes it up (`Act`), in its sleep neither the
goal nor the world changes, and it falls asleep only when the goal is fulfilled (`Rest`): a
step that returns an error or a result, and a status update that is refused, ask for
another reconcile. Each module says in `ImplementsController` what these are for its
controller (`ImplementsRoleController` for the whole reconcile of RolePods). That is more
than its invariant about rest: an edit that is undone at once, before anybody has seen it,
must wake the controller up as well.

Two more kinds of promise are stated in the modules of single steps. `Steady` are states in
which the goal is fulfilled and everybody who matters has seen it; `SteadyKept` says
that the operator then changes nothing any more, through reconciles, failures and restarts
(in ClusterWakeup the only such thing is the flag: `BootstrapKept`). `SettlesDown` says that
each step of the worker lowers a natural number, `Effort`, which `EffortBounded` limits to
the steps of two or three reconciles.

**LeaderRegister** is the comment of `GetLeaderInstance` as a machine: `leader`
is written once, may be rewritten when `bootstrapped`, which is never reset.

**Election** follows `pkg/election/election.go` call by call. `stored` is the
status in the API server, `cache` the informer's view of it, `copy[w]` the
object in a worker's memory, `fresh[w]` whether the copy carries the stored
resource version. `pc[w]` is `load` (loadLeaderInstance), `scan`
(findNewLeaderInstance, one pod per step with the rest in `todo[w]`), `save`
(the status update of ElectLeaderInstance), `lead` (the steps after GetLeader)
and `finish` (the final status update, of Cluster workers only). Every branch
is an action; requests and replies may be lost, workers crash, pods change
between any two steps, also between the probe and the use of its answer.
Resource versions are abstracted to fresh or stale: exact, because a version is
only ever compared with the stored one and every write makes a new one. One
over-approximation is deliberate: `LoadProbeError`, `ScanProbeError` and
`StopEarly` may happen at any time.

**Formation** refines the `lead` control point. `stage` and `left` are the
position of JoinInstancesStep; `rolePhase` and `roleCache` are the phases of the
Roles, of which all early ones are one value; `disk`, `servers` and `vshard` are
what the instances keep. A "brain" is a Cartridge cluster: the first topology
edit executed on an unconfigured instance starts one. `JoinSelf` and
`JoinThroughLeader` model Cartridge's `admin_edit_topology` from how the code
uses it, and are external, as are the life of a pod (`PodDown`, `PodBoots`,
`PodStarts`, `PodConfigures`) and the informers.

**ClusterWakeup** leaves the election out and keeps what wakes whom: the FIFO
watch of each Role, the work queue of each controller, the mapper of the
Cluster's Role watch, the conflict of the final status update, the failover a
user edits and the vshard roles a user adds. The informer's resync (ten hours by
default) is left out on purpose: the question is what the watches achieve.

**StatefulSets** (`internal/implementation/replicasets_manger.go`). `sts` are the
StatefulSets by replicaset ordinal, `cache` what the informer shows, `unseen`
those of which a version has not been delivered, `list` and `current` what
UpdateStatefulSets listed and which of it is still stored.
`SyncStatefulSet` is the synchronisation as a function of the Role and the
object. Labels are one value, the hash of the template another; `selected` says
whether the labels the selectors ask for are there. `settings` is the update
strategy, which the API server fills in when it is unset, so that the operator
writes the object at every reconcile. Users scale, relabel and delete
StatefulSets; an edit of the labels stands for one of any other field that is
compared with the Role.

**RolePods** goes on where StatefulSets ends, in the same reconcile: the `rest`
of StatefulSets is its readiness count, then the loops of JoinInstances and
ConfigureVShardRoles. A pod is a pair of the StatefulSet's ordinal and its own;
`ready` are the pods that run and answer, and the count is over all of them, of
whichever replicaset, as in `ensure_cartridge_ready.go:75`. A replicaset whose
StatefulSet the cache lacks is passed over *without* making the loop incomplete
(`Listed`), which is where the lag could hide a replicaset: the model shows that the
event of the StatefulSet's creation always leads to another reconcile. `ImplementsStatefulSets`
maps the module back: the loops over pods are the `rest` of StatefulSets, and an end that
asks for another reconcile, or writes a new phase, is its `StepFails`. Pods wake
nobody up, nor do the status updates of StatefulSets here: nothing may depend on
them. `JoinRefused` is a pod that lacks a vshard role, which ends the reconcile in
`ConfigError`; the end of a reconcile is that of StatefulSets with the phase
written (`EndIn`).

**PodExec** is one exec stream: `dialing`, `streaming`, then `closed` (the output is
parsed), `error`, or `hung`. The request's timeout and retries are set on a request
of which only the URL is used (`transport.go`), and the context is the
reconcile's, so nothing ends a hung stream but the end of the process in the pod
(`PodRestarts`). `runs` counts the executions, and `ImplementsRemoteCall` maps the
module to **RemoteCall**: at most one execution, a result only of an execution, an
error that says nothing. These are the faults the other modules give their calls
(the request or the reply is lost); there a call is one step.

**ClusterService** is the Cluster controller from the queue to
SyncClusterWideServiceStep, object deletion included, and its only worker's later
calls, which it makes through PodExec: a hung call stops everything else.
`cluster` and `service` are stored, `seen` and `cached` are in the informers,
`behind` are the objects of which a version has not been delivered, and `notice`
says whether one of the Service's versions on its way had a Cluster as controller,
because only the owners of the old and the new object of an event are enqueued. A
Cluster has a uid: one deleted and created again under its name finds the Service
of the other, which it may adopt, and the garbage collector may take. The
comparison `Changed` is always true for a Service read back, since ports are
compared with ports whose target is not set yet, so that every reconcile writes.

**VShardRoles** visits the replicasets in order, first to compare and set their
roles, then, in a bootstrapped cluster, their weights. `topo` is what Cartridge
has. Cartridge reports roles with or without their dependencies (`Reported`),
hence the comparison through the hierarchy. A failed role edit is remembered in
`allConfigured`, a failed weight edit ends the reconcile. Cartridge refuses to take
the weight of the last storage (`LastStorage`, the `ErrLastStorageWeight` of
`common.go:135`) as often as it is asked to (`WeightRefused`), until the spec, or the
other Roles' storages, are others; its other refusals are calls that fail. Pods are
joined without a weight if it is zero, and get the one Cartridge chooses (`Init`).

**ConfigApply** is the whole reconcile of a CartridgeConfig, by one or several
operators, each with its own queue and cache. A document is a function from
sections to values; `Null` removes a section. Two details of the comparison are
kept: sections of the blacklist are never read back, so that a document which
names one is never found in place, and numbers never compare equal, because JSON
makes them floats and YAML integers. In both cases the document is patched at
every reconcile.

**Failover** keeps what the parameters depend on: mode, provider, fencing, the
secret and its password. The other parameters are data carried along. The
operator writes the secret back from its cache to own it, and `notices` says for
which secrets a version that is not delivered yet had the Cluster as its owner:
only those, and those the informer shows as owned, bring the Cluster back. `granted`
says whether the rights of the operator's service account include the update of
secrets; it may change at any time, and nothing tells the operator.

Definitions whose name ends in a defect (`SaveAcceptedUnversioned`,
`PodMissingForgotten`, ...) and which are marked `mutant` are not part of the
model. They are plausible bugs of the definition that follows them;
`PROJECT.json` names the property each one violates when it takes the
definition's place.

## 3. Runs

| Run | Question | Bounds | Outcome |
|---|---|---|---|
| `MCElection.cfg` | Is the leader unique and fixed until the bootstrap, whatever the copies? Is one elected, and replaced when it is not ready? | a Role worker and a Cluster worker, two pods, six pod states, any number of elections, writes and crashes | 170k states, holds |
| `MCElectionLeaderGone.cfg` | Is it replaced when its pod is gone (election.go:36-37)? | the same | violated |
| `MCFormation.cfg` | One Cartridge cluster, complete when bootstrapped, phases true? | two Roles of one pod, two workers, two brains | 2.29M states, holds |
| `MCFormationLive.cfg` | Is the cluster formed in the end? | one Role of two pods, one brain | 0.48M states, holds |
| `ClusterWakeup.cfg` | Is a wake-up missed? Do the watches suffice for all Roles to become Ready? | two Roles that may lack vshard roles at first, two failover settings, one undelivered update per Role | 710k states, holds |
| `ClusterWakeupStuck.cfg` | Is the phase of a resting Cluster true? | as `ClusterWakeup` | violated |
| `MCRolePods.cfg` | Is a replicaset or a pod passed over for good? Are all joined in the end? | two replicasets of two pods, a Role edited between 1x2 and 2x1 | 768k states, holds |
| `MCClusterService.cfg` | Is the Service in place at rest, and in the end? Is a stranger's written? Does deletion end? Is a call executed twice? | two ports, two Clusters of the name, Services of nobody (with and without an address), of a stranger and of either Cluster | 752k states, holds |
| `MCVShardRoles.cfg` | Does Ready mean that roles and weights are set, weights last, and is it reached? | two replicasets, four sets of roles, the weights 0 and 100, no storage in other Roles | 249k states, holds |
| `MCConfigApply.cfg` | Is the present document applied at rest, and when Ready is written? Is there a rest? | two operators, one object, three documents | 424k states, holds |
| `MCFailover.cfg` | Are parameters and password in force at rest, users' secrets left alone, and is it reached? | four configurations, a secret in this namespace and one in another, two passwords, rights granted and withdrawn | 418k states, holds |
| `MCStatefulSets.cfg` | Is everything synchronised at rest, never scaled down, and is there a rest? | two replicasets, two Role specs, users who scale, delete and relabel | 503k states, holds |

*Why these bounds are enough to be interesting.* A wrong election needs two
electors, two candidates and a stale copy; a split brain needs a second brain
and two pods; an incomplete bootstrap needs two Roles (stale phase of one of
them) or two pods of one Role (a skipped pod). The election run has one worker per
kind of elector: the third controller's is a Role worker's twin before the
bootstrap, and safety for any number of workers is proved. `Brains` has two members because
the properties forbid the second. `MaxLag` bounds the updates of a Role that
have not been delivered to one: a phase is written on the condition that the Role
read from the cache is the stored one, so that a second update by the operator
meets a delivered first one. In RolePods the reshaped Role has a
surplus pod that is counted (the second pod of the first replicaset) and a
StatefulSet the cache does not have yet. `MaxUID` = 2 lets a Cluster find the
Service of its predecessor; a third would find no other case.
In the modules of single steps a
wrong state at rest needs an edit during a reconcile and a copy older than it:
two values of each edited thing, two objects where one can be visited before the
other, two operators where they can overtake each other; caches there lag by any
number of versions, the last of which is delivered. Nothing else is bounded: no
model has counters. `Brains` is a symmetry set in
the safety runs of Formation. Deadlock is checked in every run.

Two runs are expected to be violated; they are the project's findings, with the
lines they quote in `PROJECT.json`:

1. a leader whose pod is gone is never replaced, although the comment of
   `GetLeaderInstance` says so;
2. a Cluster can rest in `WaitingForRoles` while every Role is `Ready`.

### Premises of the passing runs

What follows is behaviour of the code that the properties above leave out, by a
premise or by a constant; without it TLC violates them.

* `NoSplitBrain` needs persistent disks (`Persistent <- Pods`). Without them
  (`volumeClaimTemplates` is optional) a leader that restarts empty passes
  `CanBeLeader`, is still the leader, joins itself again and starts a second
  Cartridge cluster.
* `NoMissedBootstrap` excuses a Cluster that reports `UnableToBootstrap`, which the
  Roles that lack vshard roles at first cause (`Misconfigured`): neither code nor
  docs promise a retry there.
* `RolesEventuallyReady` excuses the same phase.
* `RestMeansJoined` and `EventuallyJoined` excuse a Role in `ConfigError`: a pod that
  does not know a vshard role of the Role completes the reconcile, until users edit
  the Role.
* `EventuallyServed` excuses (`Obstructed`) a Service that something else controls, which
  is refused at every reconcile, and one that has an address: `ClusterIP` cannot be
  changed to `None`, and the operator neither deletes the Service nor says so.
  `RestMeansServed` needs neither: such a Cluster does not rest.
* `Enabled` in VShardRoles excuses an empty list of roles: it is encoded with
  `omitempty` (`request.go:13`) and never sent, yet the Role becomes Ready.
* `EventuallyConfigured` and `SettlesDown` in VShardRoles need a Role whose weight is
  `Acceptable`: zero for the last storage of the cluster is refused at every reconcile
  (`ErrLastStorageWeight`), and the Role never becomes Ready. The liveness run assumes in
  addition that no edit of roles is refused for good and that the Cluster is
  bootstrapped once it is waited for; the code knows no such refusals by name.
* `Configured` in Failover excuses a fencing that is switched off: `false` is not
  sent either (`request.go:42`). `EventuallyConfigured` and `SettlesDown` need a
  `Usable` secret. One in another namespace is not: the owner reference is refused
  (`conifgure_failover.go:139`) and the failover never configured, although
  `cluster_types.go:175` says that a reference has "enough information to retrieve a
  value secret in any namespace". Nor is any secret that the operator has no right to
  update (`granted`). **The manifests of this repository do not give it that right**:
  the marker at `cluster_controller.go:42`, and with it `config/rbac/role.yaml:77-83`,
  grants get, list and watch, while `conifgure_failover.go:144` makes an update. As
  installed by `make deploy`, a stateful failover whose password is in a secret is
  requeued for ever and never configured; the property speaks of an installation that
  has been granted the verb. The safety properties need no such premise.
* `LeaderElected` assumes that no probe of the scan fails for good (an error at one
  candidate ends it, `election.go:174`), `EventuallyReady` that the leader's pod comes up
  again before the bootstrap, and `EventuallyServed` that a hung instance is restarted.
* `EventuallySynced` excuses StatefulSets without the labels they are found by: the
  creation fails with AlreadyExists for ever. `RestMeansSynced` does not excuse one the
  Role still needs, because such a Role does not rest. `Synced`
  allows more replicas than the Role asks for: nothing is scaled down
  (`replicasets_manger.go:208`).
* ConfigApply says nothing of the phase at rest: the update to `Ready` is itself
  reconciled, finds nothing to change and ends in `Applying`
  (`configure.go:29`), where an applied CartridgeConfig rests.
* No property orders the candidates of an election: `FirstOf` goes by pod ordinal
  first, as the code does (`election.go:144`), and not as its comment says.

### Fairness

`Election` and `Formation` assume weak fairness of what each worker does by
itself: an error or a `Requeue` brings the object back to the queue after ten
seconds, an update of an object enqueues it, and the resync reconciles every
object again. A Role is served by one worker in FIFO order, hence strong
fairness of `RoleStart(w, r)`. Caches deliver (weak fairness). In
`ClusterWakeup` fairness is given only to queues that hold an item and to watches
that hold an update, because there the wake-ups themselves are in question.

In the modules of single steps the worker and every delivery are weakly fair
(in RolePods also pods that come up and the bootstrap by the Cluster controller; in
ClusterService also the transport, the garbage collector, and the restart of an
instance that hangs: a liveness probe would do it, the operator does not);
in ConfigApply, where one worker serves several objects in FIFO order, each of
them is begun with strong fairness.

All liveness runs assume that faults stop at some time: pods stop going down,
calls that a running instance could answer stop failing, users and foreign
writers leave the objects alone. Election and Formation say it as
`<>[][~Disturbance]_vars`, where a disturbance is a step no progress action
explains; the other modules say that from some time on every step is a step of a
worker or a delivery (`<>[][Calm]_vars`). Nothing else is assumed: a leader that
never comes up again before the bootstrap blocks the cluster, by design.

## 4. Proofs

`Election_proofs` holds for every set of Roles, any replica counts and any
number of workers of each controller (the assumption is
`ElectionAssumption`: counts are naturals, the three sets of workers are
disjoint, the empty leader name is not a pod).

* `TypeCorrect`: `Spec => []TypeOK`.
* `ElectionInvariant`: `Spec => []ElectionInv`, the inductive invariant.
* `LeaderAgreement`: `Spec => []WorkersAgreeOnLeader`.
* `LeaderFixed`: `Spec => LeaderFixedUntilBootstrapped`.
* `Refinement`: `Spec => Register!Spec`.

*The argument.* Neither of the two safety properties is inductive: that an
accepted write does not replace a leader depends on what the writer's copy can
contain. `ElectionInv` says it by control point. A copy that has not been
changed yet shows an *earlier* status (`Earlier`): it may miss the leader or the
flag, but what it has is still true, the leader at least until the bootstrap.
If it is fresh, it shows the stored status. A changed copy (`save`, `finish`) is
constrained only if it is fresh, since only then it can be written: it keeps the
stored flag, and keeps the stored leader unless the cluster is bootstrapped. A
worker at `lead` therefore knows the stored leader, which is
`WorkersAgreeOnLeader`, and every accepted write is a step of the register.
The proof has one lemma for steps that leave the API server alone (`LocalStep`),
one for accepted writes (`CommitStep`), which covers all four writers, and one
for the environment (`EnvironmentStep`); `StoredStep` turns the invariant into
the action properties.

`Formation_proofs` adds to Election_proofs what the instances keep. Roles, pods, brains
and workers are arbitrary (`FormationAssumption`).

* `FormationElects`: `FormationSpec => Spec`, so that `ElectionInv` and all that is
  proved of the election hold in the composition.
* `RolesJoined`: `FormationSpec => []ReportedRolesJoined`.
* with all disks persistent (`Persistent = Pods`, as in the TLC runs):
  `FormationInvariant` (`[]FormationInv`), `OneBrain` (`[]NoSplitBrain`), `FlagTrue`
  (`[]BootstrappedMeansBootstrapped`) and `CompleteBootstrap`
  (`BootstrapsCompleteCluster`).

*The argument.* `MembershipInv` needs no premise: topologies only grow, a pod with a
configuration is in the topology it names, and a phase past joining means that the
Role's pods are members of one, wherever the phase is seen: stored, cached, about to be
written by a Role worker at the end of its loop, or acted upon by a Cluster worker
past WaitForRoles. `BrainInv` needs the premise. Once a topology exists, every leader
in the stored status, in the cache and in any copy that may still be used or written is
`Configured` (`LeadersConfigured`). A configured leader does not join itself
(`JoinSelf` is disabled), so no second Cartridge cluster starts; and an election does
not replace it. The copies matter: a Role worker may hold a leader from before the
first join over any number of calls, and only `Earlier` of the election, with the
leader fixed until the bootstrap, says that it is the stored one. The bootstrap then
meets one Cartridge cluster, of which all pods are members.

`RolePods_proofs` holds, in its part about StatefulSets, for any values of the Roles,
counts, templates, labels and edits (`StatefulSetsAssumption`: ordinals and counts are naturals, and
Roles and hashes have the types of their fields).

* `TypeCorrect`: `Spec => []TypeOK`.
* `NoScaleDown`: `Spec => NeverScaledDown`.
* `SyncIdempotent`: synchronising a synchronised StatefulSet changes nothing.
* if no two templates have one hash (`CollisionFree`): `SyncInvariant`
  (`[]SyncInv`), `RestSynced` (`[]RestMeansSynced`) and `SyncTriggered`
  (`Spec => ImplementsController`).
* `SyncSteady`: `Spec => SteadyKept`; `SyncSettles`: `Spec => SettlesDown /\
  []EffortBounded`, for finitely many replicasets.

*The argument.* `syncStatefulSet` keeps the larger count of the Role and of the
StatefulSet *listed*, which may be old. `NeverScaledDown` therefore needs that an
update is accepted only if the listed version is the stored one. That is
`Knowledge`: what has no version on its way is cached as it is stored
(`Ordinals \ unseen`), what is in `current` is listed as it is stored, and what
is left to update has been found by its labels, so it is a StatefulSet. The two
lemmas `WriteKeeps` and `EndStep` show that every write, by whomever, and every
end of a reconcile keep it; `KeptByUpdate` and `KeptByCreate` are the only writes
of the operator, also when the reply is lost (`StepFails`).

At rest everything is synchronised because of `Progressing`: unless the Role is queued
(or the reconcile will queue it when it ends), the worker has the present Role in
memory, and each ordinal it has passed has its StatefulSet (`create`) or is `Settled`
(`update` and later), or has a version on its way, whose delivery queues the Role.
UpdateStatefulSets passes a StatefulSet that it leaves as it is, also if a write made
no new version; `SyncFixpoint` says that such a one carries the Role's template.
There `HashesTrue` is needed, that the hash label tells the template, and the premise:
`syncStatefulSet` compares labels only.

`ClusterService_proofs` holds for any ports, any number of Clusters of the name and
any set of Services users make (`ServiceAssumption`: the constants that stand for
no port, no owner and no object differ from those that are).

* `ServiceInvariant`: `Spec => []ServiceInv`.
* `RestServed`: `Spec => []RestMeansServed`.
* `StrangersKept`: `Spec => StrangersServiceKept`.
* `ServiceTriggered` (`ImplementsController`), `ServiceSteady` (`SteadyKept`).
* `CallsAreRemoteCalls`: `Spec => ImplementsRemoteCall`, by the theorem that PodExec
  implements RemoteCall, which needs no assumption.

*The argument.* That a resting Cluster is served is not inductive: between the
write of the Service and the rest anything may be edited. `ServiceInv` adds three
parts. `CopiesCurrent`: what has no version on its way is cached as it is stored,
and what is `fresh` is what the worker read, so that a conditional write is based on
the present object. `Noticed`: when a Service that a Cluster controls is on its
way, the queue will be filled by it. `ConcludedMeansServed`: from the moment the
worker has passed the Service without an error (`Concluded`), a live Cluster whose
last version is delivered and that is not queued is served, or an event of a
Service that a Cluster controls, or did, is on its way (`WillWake`). Every
change of the Service by others preserves it, because the Service changed was the
Cluster's: its event wakes the Cluster. At rest nothing is on its way, which leaves
`Served`. `StrangersServiceKept` follows from `CopiesCurrent` alone: an accepted
update had a current Service, and it was adoptable when it was read.

`Failover_proofs` holds for any configurations, providers, secrets and passwords
(`FailoverAssumption`).

* `FailoverInvariant` (`[]FailoverInv`), `RestConfigured` (`[]RestMeansConfigured`),
  `EditsKept` (`SecretEditsKept`).
* `FailoverTriggered` (`ImplementsController`), `FailoverSteady` (`SteadyKept`),
  `FailoverSettles` (`SettlesDown` and `[]EffortBounded`).

*The argument.* The operator learns of a rotated password only through the owner
reference it puts on the secret, and it reads the secret before it puts it. `Watched`
says what makes up for the gap: the secret holds the password that was read and is
owned, or a version is on its way whose old or new object is owned. The write that
puts the reference is such a version; if the reference is there already, nothing is
written, and the secret in memory was current (`secretFresh`), so it was owned when
it was last delivered. `Told` carries this to rest. `SecretEditsKept` is `Knowledge`:
a secret that may be written holds the password in memory.

`ConfigApply_proofs` holds for any operators, objects and documents
(`ConfigAssumption`: there is an operator, documents name sections).

* `ReadyTold`: `Spec => ReadyWhenWritten`.
* `AppliedSteady` (`SteadyKept`); `PatchCompares`: a patched document is found in place
  exactly if it has no system section, number or null.
* if no two objects own one section (`NoOverlap`, system sections apart):
  `ConfigInvariant` (`[]ConfigInv`), `RestApplied` (`[]RestMeansApplied`) and
  `ConfigTriggered` (`ImplementsController`).

*The argument.* Any operator may patch with an old document after a newer one has been
applied. `PendingOrApplied` says that then some operator has still to deal with the object
(`Pending`): its cache is behind, its queue holds the object, or its worker has not
patched yet or holds a copy that is not fresh, whose status update will be refused.
Without `NoOverlap` a patch for one object undoes the other's, and nothing wakes that
one up: the controller promises nothing there.

`VShardRoles_proofs` holds for any replicasets, roles, dependencies and weights
(`VShardAssumption`).

* `VShardInvariant` (`[]VShardInv`), `ReadyConfigured` (`[]ReadyMeansConfigured`),
  `WeightsAfterRoles` (`WeightsLast`).
* `ConfigureTriggered` (`ImplementsController`), `ConfiguredSteady` (`SteadyKept`), and for
  finitely many replicasets `ConfigureSettles` (`SettlesDown` and `[]EffortBounded`).

*The argument.* `Progress`: what the loop has passed has the roles of the copy, unless
`allConfigured` is false, and then the weight; a copy that is not the present spec means
that the Role is queued or that the status update will fail. The comparison
through the hierarchy decides whether the roles are the desired ones whichever list
Cartridge reports (`Reported`).

The part of `RolePods_proofs` about RolePods holds for any number of replicasets and pods
and any values of the Role; no premise about hashes is needed.

* `RolePodsInvariant` (`[]RolePodsInv`), `RestJoined` (`[]RestMeansJoined`).
* `RoleTriggered`: `RolePodsSpec => ImplementsRoleController`.
* `PodsRefineSync`: `RolePodsSpec => ImplementsStatefulSets`.

*The argument.* A StatefulSet always has the labels it is found by
(`AlwaysSelected`: here users leave StatefulSets alone), so the cache fails to list one
only while its version is on its way, and its delivery queues the Role. `JoinProgress`
says so for each point of the reconcile: unless the Role is queued, each replicaset of
the spec is still to be created, or stored, or on its way (`unseen`); and each one the
loop has passed is on its way too, or has joined all its pods but those in `podsLeft`,
unless `complete` is false. The readiness count is not part of the argument: it only
delays the loop, and the surplus pods it counts join nothing.

`PodsRefineSync` needs that nothing is left to visit when the loops begin (`RestLeft`).
The steps before them are taken as they are (`SyncMaps`), those of the loops are stutters
(`LoopStutters`), and each end of the reconcile is `Finish` or `StepFails` of StatefulSets
(`EndMaps`). So the theorems about StatefulSets, which hold of every behaviour of its
`Spec`, hold of the same steps among the later ones.

`ClusterWakeup_proofs` holds for any number of Roles, any failovers and any lag of the
watches (`WakeupAssumption`).

* `WakeupInvariant` (`[]WakeupInv`), `BootstrapNoticed` (`[]NoMissedBootstrap`),
  `ReadyApplied` (`[]ReadyMeansApplied`).
* `WakeupTriggered` (`ImplementsController`), `FlagKept` (`BootstrapKept`).

*The argument.* `Concluded` says what a sleeping Cluster that is not queued has dealt with:
the Roles as the *cache* shows them, and the failover. It need not hold while the worker is
busy, because each way a reconcile ends either restores it or enqueues the Cluster
(`EndClusterKeeps`); those that may enqueue nothing are `WaitForRoles`, where the cache shows
Roles that do not wait, a refused bootstrap, and `ConfigureFailover`, after which the
Cluster is bootstrapped and its failover applied. An update that makes the last Role wait
enqueues the Cluster as it reaches the cache (`UpdateKeeps`), and since the newest version of a
Role is at the end of its watch (`LatestOf`), empty watches mean a true cache. `CopyTrue` is what
optimistic concurrency gives: a copy that can still be written has the failover of the spec and
takes back no bootstrap.

*What the controllers have in common.* The theorems `...Triggered` have one argument. A step
after which the controller sleeps has changed neither the goal nor, if it slept before, the
world: an edit leaves a version on its way or fills the queue, a write that was refused or
failed asks for another reconcile, and a write that made no version changed nothing
(`SilentWrite`). That the goal is fulfilled then is the invariant about rest, taken from the
theorem that proves it in the same module.

The theorems `...Steady` need no other invariant than the one of the module, but they need
what the API server and Cartridge make of a write: what is written in a steady state is what
is there, defaults included (`SyncedFixpoint`; in Failover a fencing that was switched off;
in VShardRoles an empty list of roles; in ClusterService ports without a target; in
ConfigApply a document that never compares equal). In StatefulSets it takes in addition that
CreateStatefulSets visits ordinals of the Role only (`CreatesDesired`).

The theorems `...Settles` are the part of "it comes to rest" that a prover without fairness
can do. `Effort` is lexicographic: the reconciles that are still to come, the steps of the
present one, and what a step has still to visit. A worker that is scheduled therefore reaches
`Effort = 0`, which is rest, in at most as many steps as `EffortBounded` says, unless a
user, a fault or a delivery comes in between. In VShardRoles that is so from every state of a
bootstrapped cluster whose Role is `Acceptable`: the worker may still have an older copy of
it, whose weight is refused, but such a copy is reconciled again anyway (`RefusedIsOld`). In StatefulSets and Failover from a steady one, because before it the
worker's own writes come back as deliveries, and how often they do is for TLC
(`EventuallySynced`, `EventuallyConfigured`). These definitions (`ImplementsController`,
`ImplementsRoleController`, `ImplementsStatefulSets`, `SteadyKept`, `BootstrapKept`,
`SettlesDown`, `EffortBounded`) are theorems, and no run repeats them.

Only model-checked: the liveness properties, because fairness is out of the prover's reach,
and with them that a controller which is awake does get to rest. Every safety property of a
passing run is a theorem, under the premises named above.

## 5. Plan

Done: all modules of section 2, proofs of every safety property of a passing run, and proofs
that the controllers are level-triggered, leave alone what is in place, and (in three modules)
settle down.

Next, in this order:

1. **Formation**: an abstract specification of what the operator promises (the members
   grow, one cluster is started, vshard is bootstrapped once and after the topology is
   complete, the flag is set after that) which Formation implements when every pod has a
   persistent volume; the lemmas `SoundStep`, `BrainStep`, `JoinEffect` and
   `BootstrapEffect` are the steps such a proof needs.
   No effort is planned for ClusterService, whose status may alternate for ever
   while the calls keep failing and succeeding, nor for ConfigApply, whose effort would be
   a sum over the operators and so needs an induction over data.
2. **Reconciler**: the result of a run (requeue, error, completion) as a function
   of the steps' results and of the status write, of which `LevelTriggered` states the
   consequence; deletion in the controllers of the Role and of the CartridgeConfig.
3. Election with `ForeignLeader`, which shadows the stored leader.

## 6. Not modelled

* the v1alpha1 API, generated code, manifests: no logic of the operator;
* in PodExec: a command that is executed after its stream broke, by a process that
  lives on in the pod (a call counts as over when its error is returned), and a
  result of `null`, which parses and leaves zero values;
* in ClusterService: the ports as more than one value (they are set together), and
  deletion with orphaned dependents;
* in RolePods: users' edits of StatefulSets (module StatefulSets has them), the events
  of the StatefulSets' status and of their pods, and the `ReadyPods` column, which
  nothing reads;
* the config maps of `resources_manager.go`, which no controller uses;
* process setup, logging, events: no state the controllers read;
* in StatefulSets: collisions of the 32-bit hash (`Hash` may have them; the instance
  has none, and `RestMeansSynced` would not hold), user edits of the pod template
  itself; in Failover: a provider whose own section is missing; in ConfigApply: a
  CartridgeConfig without the cluster label, which ends every reconcile at once;
* everything listed under Plan, and deletion of objects other than as a
  reconcile that stops early (the controllers install no finalizers).
