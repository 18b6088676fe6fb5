---------------------------- MODULE VShardRoles -----------------------------
(***************************************************************************)
(* The last steps of a Role's reconcile: ConfigureVShardRolesStep brings   *)
(* the vshard roles of every replicaset in line with the Role's spec, and  *)
(* once the cluster is bootstrapped SetVShardWeightsStep does the same     *)
(* with the weights.  Both work on a copy of the Role, one replicaset      *)
(* after the other, each by calls executed on the leader that may fail,    *)
(* or succeed and lose their reply.  A failed role edit is skipped and     *)
(* remembered, a failed weight edit ends the reconcile.  Cartridge refuses *)
(* to take the weight of the last storage, each time it is asked to.       *)
(***************************************************************************)
EXTENDS Naturals, FiniteSets

CONSTANTS
  Replicasets,   \* ordinals of the Role's replicasets
  RoleNames,     \* the vshard roles the application has
  Hierarchy,     \* get_role_dependencies of each of them
  RoleSets,      \* the values of Spec.VShard.ClusterRoles
  Weights,       \* the values of Spec.VShard.Weight
  Storage,       \* the role of a vshard storage
  OtherStorages  \* whether another Role of the cluster keeps a storage with a weight

ASSUME VShardAssumption ==
  /\ Replicasets \subseteq Nat
  /\ Hierarchy \in [RoleNames -> SUBSET RoleNames]
  /\ RoleSets \subseteq SUBSET RoleNames
  /\ Weights \subseteq Nat
  /\ Storage \in RoleNames
  /\ OtherStorages \in BOOLEAN
  \* Cartridge reports dependencies with their own dependencies.
  /\ \A r \in RoleNames : \A d \in Hierarchy[r] : Hierarchy[d] \subseteq Hierarchy[r]

VARIABLES
  spec,           \* vshard roles and weight in the Role's spec
  phase,          \* Role.Status.Phase; "Joining" stands for all before it
  queued,         \* whether the Role is in the work queue
  topo,           \* roles and weight of each replicaset in the topology
  bootstrapped,   \* whether the Cluster is marked bootstrapped
  pc,             \* the step being executed
  copy,           \* the spec in memory
  fresh,          \* whether it carries the stored resource version
  sawBootstrapped,  \* whether the Cluster was marked when it was read
  left,           \* replicasets the step has still to visit
  allConfigured   \* allRolesConfigured of ConfigureVShardRolesStep

vars == <<spec, phase, queued, topo, bootstrapped, pc, copy, fresh,
          sawBootstrapped, left, allConfigured>>

Specs == [roles : RoleSets, weight : Weights]
Phases == {"Joining", "Configuring", "WaitingForBootstrap",
           "ConfiguringWeights", "Ready"}

TypeOK ==
  /\ spec \in Specs
  /\ phase \in Phases
  /\ queued \in BOOLEAN
  /\ topo \in [Replicasets -> [roles : SUBSET RoleNames, weight : Weights]]
  /\ bootstrapped \in BOOLEAN
  /\ pc \in {"idle", "roles", "weights"}
  /\ copy \in Specs
  /\ fresh \in BOOLEAN
  /\ sawBootstrapped \in BOOLEAN
  /\ left \in SUBSET Replicasets
  /\ allConfigured \in BOOLEAN

-----------------------------------------------------------------------------
(* pkg/utils/vshard.go: a list of roles stands for these roles and their   *)
(* dependencies, and lists are equal if they stand for the same.           *)
VShardRolesToMap(roles) == roles \cup UNION {Hierarchy[r] : r \in roles}

IsVShardRolesEquals(rolesA, rolesB) ==
  VShardRolesToMap(rolesA) = VShardRolesToMap(rolesB)

\* Cartridge keeps the enabled roles with their dependencies and may report
\* them without.
Reported(rs) == {roles \in SUBSET RoleNames : VShardRolesToMap(roles) = topo[rs].roles}

\* The edit carries "roles,omitempty": an empty list is not sent.
SetReplicasetRoles(rs, roles) ==
  topo' = IF roles = {} THEN topo
          ELSE [topo EXCEPT ![rs].roles = VShardRolesToMap(roles)]

SetWeight(rs, weight) == topo' = [topo EXCEPT ![rs].weight = weight]

\* "At least one vshard-storage must have weight > 0": ErrLastStorageWeight.  A
\* weight that is as desired is not edited.
LastStorage(rs, weight) ==
  /\ weight = 0 /\ topo[rs].weight # 0
  /\ ~OtherStorages
  /\ Storage \in topo[rs].roles
  /\ \A q \in Replicasets \ {rs} : Storage \in topo[q].roles => topo[q].weight = 0

\* The pods are joined with the roles and the weight of the Role.  The request has
\* "weight,omitempty": for a weight of zero Cartridge chooses one.
Init ==
  /\ spec \in Specs
  /\ phase = "Joining"
  /\ queued = TRUE
  /\ topo \in [Replicasets -> [roles : {VShardRolesToMap(spec.roles)},
                                weight : IF spec.weight = 0 THEN Weights ELSE {spec.weight}]]
  /\ bootstrapped = FALSE
  /\ pc = "idle"
  /\ copy = spec
  /\ fresh = FALSE
  /\ sawBootstrapped = FALSE
  /\ left = {}
  /\ allConfigured = TRUE

-----------------------------------------------------------------------------
Begin ==
  /\ pc = "idle"
  /\ queued
  /\ queued' = FALSE
  /\ pc' = "roles"
  /\ copy' = spec
  /\ fresh' = TRUE
  /\ sawBootstrapped' = bootstrapped
  /\ left' = Replicasets
  /\ allConfigured' = TRUE
  /\ UNCHANGED <<spec, phase, topo, bootstrapped>>

Visit(rs, step) ==
  /\ pc = step
  /\ rs \in left
  /\ \A q \in left : rs <= q
  /\ left' = left \ {rs}

\* The final status update.
End(newPhase, requeue) ==
  /\ pc' = "idle"
  /\ fresh' = FALSE
  /\ left' = {}
  /\ IF fresh
     THEN /\ phase' = newPhase
          /\ queued' = (queued \/ requeue \/ newPhase # phase)
     ELSE /\ queued' = TRUE
          /\ UNCHANGED phase
  /\ UNCHANGED <<spec, bootstrapped, copy, sawBootstrapped, allConfigured>>

\* A step up to JoinInstances ends the reconcile, by an error or to wait.
EarlierStepFails ==
  /\ pc = "roles"
  /\ left = Replicasets
  /\ End("Joining", TRUE)
  /\ UNCHANGED topo

RolesAsDesired(rs) ==
  /\ Visit(rs, "roles")
  /\ \E actual \in Reported(rs) : IsVShardRolesEquals(actual, copy.roles)
  /\ UNCHANGED <<spec, phase, queued, topo, bootstrapped, pc, copy, fresh,
                 sawBootstrapped, allConfigured>>

RolesSet(rs) ==
  /\ Visit(rs, "roles")
  /\ \E actual \in Reported(rs) : ~IsVShardRolesEquals(actual, copy.roles)
  /\ SetReplicasetRoles(rs, copy.roles)
  /\ UNCHANGED <<spec, phase, queued, bootstrapped, pc, copy, fresh,
                 sawBootstrapped, allConfigured>>

RolesFailForgotten(rs) ==   \* mutant: the failure is not remembered
  /\ Visit(rs, "roles")
  /\ topo' = topo \/ SetReplicasetRoles(rs, copy.roles)
  /\ UNCHANGED <<spec, phase, queued, bootstrapped, pc, copy, fresh, sawBootstrapped,
                 allConfigured>>

\* Listing the StatefulSets, reading the hierarchy or the roles, or setting
\* them fails; the edit may have been done.
RolesFail(rs) ==
  /\ Visit(rs, "roles")
  /\ allConfigured' = FALSE
  /\ topo' = topo \/ SetReplicasetRoles(rs, copy.roles)
  /\ UNCHANGED <<spec, phase, queued, bootstrapped, pc, copy, fresh, sawBootstrapped>>

RolesIncompleteGoesOn ==   \* mutant: failed replicasets are forgotten
  /\ pc = "roles"
  /\ left = {}
  /\ ~allConfigured
  /\ sawBootstrapped
  /\ pc' = "weights"
  /\ left' = Replicasets
  /\ UNCHANGED <<spec, phase, queued, topo, bootstrapped, copy, fresh,
                 sawBootstrapped, allConfigured>>

RolesIncompleteCompletes ==   \* mutant: Complete instead of Requeue
  /\ pc = "roles"
  /\ left = {}
  /\ ~allConfigured
  /\ End("Configuring", FALSE)
  /\ UNCHANGED topo

RolesIncomplete ==
  /\ pc = "roles"
  /\ left = {}
  /\ ~allConfigured
  /\ End("Configuring", TRUE)
  /\ UNCHANGED topo

WaitForClusterBootstrapped ==
  /\ pc = "roles"
  /\ left = {}
  /\ allConfigured
  /\ ~sawBootstrapped
  /\ End("WaitingForBootstrap", TRUE)
  /\ UNCHANGED topo

GoOnToWeights ==
  /\ pc = "roles"
  /\ left = {}
  /\ allConfigured
  /\ sawBootstrapped
  /\ pc' = "weights"
  /\ left' = Replicasets
  /\ UNCHANGED <<spec, phase, queued, topo, bootstrapped, copy, fresh,
                 sawBootstrapped, allConfigured>>

\* The weight is compared and edited in one call.
WeightSet(rs) ==
  /\ Visit(rs, "weights")
  /\ ~LastStorage(rs, copy.weight)
  /\ SetWeight(rs, copy.weight)
  /\ UNCHANGED <<spec, phase, queued, bootstrapped, pc, copy, fresh,
                 sawBootstrapped, allConfigured>>

WeightFailCompletes(rs) ==   \* mutant: the error is not returned
  /\ pc = "weights"
  /\ rs \in left
  /\ \A q \in left : rs <= q
  /\ End("Ready", FALSE)
  /\ topo' = topo \/ (~LastStorage(rs, copy.weight) /\ SetWeight(rs, copy.weight))

WeightFail(rs) ==
  /\ pc = "weights"
  /\ rs \in left
  /\ \A q \in left : rs <= q
  /\ End("ConfiguringWeights", TRUE)
  /\ topo' = topo \/ (~LastStorage(rs, copy.weight) /\ SetWeight(rs, copy.weight))

\* The refusal is an error like any other: it ends the reconcile, which is retried.
WeightRefused(rs) ==
  /\ pc = "weights"
  /\ rs \in left
  /\ \A q \in left : rs <= q
  /\ LastStorage(rs, copy.weight)
  /\ End("ConfiguringWeights", TRUE)
  /\ UNCHANGED topo

Ready ==
  /\ pc = "weights"
  /\ left = {}
  /\ End("Ready", FALSE)
  /\ UNCHANGED topo

-----------------------------------------------------------------------------
\* A user edits the Role.
EditSpec(new) ==
  /\ new # spec
  /\ spec' = new
  /\ queued' = TRUE
  /\ fresh' = FALSE
  /\ UNCHANGED <<phase, topo, bootstrapped, pc, copy, sawBootstrapped, left, allConfigured>>

\* The Cluster controller's BootstrapStep.
BootstrapCluster ==
  /\ ~bootstrapped
  /\ phase = "WaitingForBootstrap"
  /\ bootstrapped' = TRUE
  /\ UNCHANGED <<spec, phase, queued, topo, pc, copy, fresh, sawBootstrapped,
                 left, allConfigured>>

\* The operator restarts; it enqueues every object it lists.
Restart ==
  /\ pc' = "idle"
  /\ fresh' = FALSE
  /\ left' = {}
  /\ queued' = TRUE
  /\ UNCHANGED <<spec, phase, topo, bootstrapped, copy, sawBootstrapped, allConfigured>>

Work ==
  \/ Begin
  \/ \E rs \in left : \/ RolesAsDesired(rs) \/ RolesSet(rs)
                       \/ WeightSet(rs) \/ WeightRefused(rs)
  \/ RolesIncomplete \/ WaitForClusterBootstrapped \/ GoOnToWeights
  \/ Ready

Fault == Restart \/ EarlierStepFails \/ \E rs \in left : RolesFail(rs) \/ WeightFail(rs)

Next ==
  \/ Work
  \/ Fault
  \/ BootstrapCluster
  \/ \E new \in Specs : EditSpec(new)

Spec == Init /\ [][Next]_vars

-----------------------------------------------------------------------------
AtRest == pc = "idle" /\ ~queued

\* An empty list of roles is never sent: the old roles stay.
Enabled(rs, roles) == roles # {} => topo[rs].roles = VShardRolesToMap(roles)

Configured(rs) ==
  /\ Enabled(rs, spec.roles)
  /\ topo[rs].weight = spec.weight

\* A Role at rest and Ready has its current spec in the topology, over edits
\* during a reconcile, failed edits of single replicasets and restarts.
ReadyMeansConfigured ==
  AtRest /\ phase = "Ready" => \A rs \in Replicasets : Configured(rs)

\* What it rests on.  A replicaset the worker has passed has the roles, then the
\* weight, of the copy in memory, unless it is known that some edit failed; the
\* copy is the present spec, or the Role will be reconciled again.
Progress ==
  /\ sawBootstrapped => bootstrapped
  /\ fresh => copy = spec
  /\ pc # "idle" /\ ~queued => fresh
  /\ pc = "roles" /\ allConfigured => \A q \in Replicasets \ left : Enabled(q, copy.roles)
  /\ pc = "weights" =>
       /\ sawBootstrapped
       /\ \A q \in Replicasets : Enabled(q, copy.roles)
       /\ \A q \in Replicasets \ left : topo[q].weight = copy.weight

VShardInv == TypeOK /\ Progress /\ ReadyMeansConfigured

\* Weights are edited only in a bootstrapped cluster, and only when every
\* replicaset has got the roles of the same copy of the spec: buckets are not
\* moved to a replicaset that is not a storage yet.
WeightsLast ==
  [][\A rs \in Replicasets : topo'[rs].weight # topo[rs].weight =>
       /\ bootstrapped
       /\ \A q \in Replicasets : Enabled(q, copy.roles)]_vars

\* Seen from the Role's spec and the topology, this is a level-triggered controller.
Controller == INSTANCE LevelTriggered WITH
  goal <- spec, world <- topo, fulfilled <- \A rs \in Replicasets : Configured(rs),
  awake <- pc # "idle" \/ queued

\* It rests only when every replicaset is configured, and no edit of the Role
\* finds it asleep for good.
ImplementsController == Controller!Spec

\* Once every replicaset is configured the topology is not changed any more, even
\* by edits that fail after they were done, restarts or further reconciles.
Steady ==
  /\ pc # "idle" => copy = spec
  /\ \A rs \in Replicasets : Configured(rs)

SteadyKept == [][Steady /\ (Work \/ Fault) => Steady' /\ topo' = topo]_vars

\* How many steps the worker may still take in a bootstrapped cluster.  A reconcile is
\* repeated if the copy is old or some roles could not be set, and once more if it
\* changes the phase.
Redo == pc # "idle" /\ (~fresh \/ (pc = "roles" /\ ~(allConfigured /\ sawBootstrapped)))

ReconcilesAhead ==
  IF Redo THEN 2
  ELSE IF pc = "idle"
  THEN IF ~queued THEN 0 ELSE IF phase # "Ready" THEN 2 ELSE 1
  ELSE IF queued \/ phase # "Ready" THEN 1 ELSE 0

StepsAhead == CASE pc = "roles" -> 2 [] pc = "weights" -> 1 [] OTHER -> 0

Effort ==
  (3 * ReconcilesAhead + StepsAhead) * (Cardinality(Replicasets) + 1) + Cardinality(left)

\* A Role whose weight Cartridge does not refuse for good: it is not the last storage's.
Acceptable ==
  \/ OtherStorages
  \/ spec.weight > 0
  \/ spec.roles # {} /\ Storage \notin VShardRolesToMap(spec.roles)

\* As long as the Role asks for no such weight, each of them leaves less to do, from
\* whatever state, and there are never more than three reconciles of them: the status
\* updates, each of which is an event, and the edits of roles that failed do not keep
\* the Role going.
SettlesDown ==
  [][bootstrapped /\ Acceptable /\ Work => Effort' < Effort]_vars

EffortBounded ==
  /\ Effort \in 0 .. 9 * (Cardinality(Replicasets) + 1)
  /\ Effort = 0 => AtRest

\* Users and faults leave the Role alone in the end, and no role edit is refused for good.
LiveSpec ==
  /\ Spec
  /\ WF_vars(Work)
  /\ WF_vars(BootstrapCluster)
  /\ <>[][Work \/ BootstrapCluster]_vars

\* Then a Role with an acceptable weight becomes Ready, whatever edits were refused
\* or failed before.
EventuallyConfigured ==
  <>[]Acceptable => <>[](phase = "Ready" /\ \A rs \in Replicasets : Configured(rs))
=============================================================================
