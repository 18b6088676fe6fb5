------------------------------- MODULE RolePods -------------------------------
(***************************************************************************)
(* The Role controller from its StatefulSets to its joined instances, over *)
(* caches that lag: the StatefulSets are created and updated as in module  *)
(* StatefulSets, EnsureCartridgeReady counts the Role's pods, whatever     *)
(* replicaset they are of, and JoinInstances and ConfigureVShardRoles      *)
(* visit the pods of those StatefulSets the cache lists.  One the cache    *)
(* lacks is passed over without an error, and pods, which belong to the    *)
(* StatefulSets, wake nobody up: that no replicaset is forgotten hangs on  *)
(* the events of the StatefulSets.  Users leave the StatefulSets alone.    *)
(***************************************************************************)
EXTENDS StatefulSets

CONSTANT Indexes   \* pod ordinals 0 .. n

ASSUME RolePodsAssumption == Indexes \subseteq Nat /\ IsFiniteSet(Ordinals \X Indexes)

VARIABLES
  ready,         \* pods that run and whose Cartridge is started
  joined,        \* pods that are in the Cartridge topology
  bootstrapped,  \* Cluster.Status.Bootstrapped
  phase,         \* Role.Status.Phase
  podsLeft,      \* pods JoinInstances has still to visit in the StatefulSet
  complete       \* allJoined, then allRolesConfigured

cluster == <<ready, joined, bootstrapped>>
loop == <<podsLeft, complete>>
podVars == <<cluster, phase, loop>>
allVars == <<vars, podVars>>

\* A pod is an ordinal of a StatefulSet and one of its own.
Pods == Ordinals \X Indexes
PodsOf(o, n) == {p \in Pods : p[1] = o /\ p[2] < n}
Wanted == {p \in Pods : p[1] < role.replicasets /\ p[2] < role.replicas}

\* "Progressing" is every other phase.
Phases == {"Progressing", "WaitingForBootstrap", "Ready", "ConfigError"}

RolePodsInit ==
  /\ Init
  /\ ready = {}
  /\ joined = {}
  /\ bootstrapped = FALSE
  /\ phase = "Progressing"
  /\ podsLeft = {}
  /\ complete = FALSE

-------------------------------------------------------------------------------
\* The reconcile ends.  A changed phase is a new version of the Role, which
\* the controller watches.
SavePhase(p) == phase' = IF fresh THEN p ELSE phase

EndIn(p, requeue) ==
  /\ End(requeue \/ (fresh /\ p # phase))
  /\ SavePhase(p)
  /\ current' = {}
  /\ podsLeft' = {}
  /\ complete' = FALSE
  /\ UNCHANGED <<sts, unseen, cluster>>

SyncStatefulSets ==
  /\ \/ Begin \/ List \/ GoOn
     \/ \E o \in left : CreateSkip(o) \/ Create(o) \/ UpdateSkip(o) \/ Update(o)
  /\ UNCHANGED podVars

SyncFails ==
  /\ \E o \in left : AlreadyExists(o) \/ UpdateConflict(o)
  /\ SavePhase("Progressing")
  /\ UNCHANGED <<cluster, loop>>

\* IsCartridgeReady: pods beyond the wanted ones count as well.
ReadyPods == Cardinality(ready)

CartridgeReady ==
  /\ pc = "rest"
  /\ ReadyPods >= copy.replicasets * copy.replicas
  /\ pc' = "join"
  /\ left' = Desired(copy)
  /\ complete' = TRUE
  /\ UNCHANGED <<role, sts, informer, queued, copy, fresh, list, current, cluster,
                 phase, podsLeft>>

CartridgeNotReady ==
  /\ pc = "rest"
  /\ ReadyPods < copy.replicasets * copy.replicas
  /\ EndIn("Progressing", TRUE)

-------------------------------------------------------------------------------
\* SelectorByReplicasetOrdinal finds the StatefulSet in the cache.
Listed(o) == cache[o].selected

\* ~IsPodDeleting /\ IsPodRunning, and Cartridge answers.
Runs(p) == p \in ready

\* The next StatefulSet of the loop is listed, or passed over.
ListReplicaset(o) ==
  /\ pc = "join"
  /\ podsLeft = {}
  /\ Lowest(o)
  /\ left' = left \ {o}
  /\ podsLeft' = IF Listed(o) THEN PodsOf(o, copy.replicas) ELSE {}
  /\ UNCHANGED <<role, sts, informer, queued, pc, copy, fresh, list, current,
                 cluster, phase, complete>>

Visit(p) ==
  /\ pc = "join"
  /\ p \in podsLeft /\ \A q \in podsLeft : p[2] <= q[2]
  /\ podsLeft' = podsLeft \ {p}
  /\ UNCHANGED <<vars, ready, bootstrapped, phase>>

PodMissingForgotten(p) ==   \* mutant: allJoined stays true
  /\ Visit(p)
  /\ ~Runs(p)
  /\ UNCHANGED <<joined, complete>>

\* The pod does not exist, is not running or is being deleted.
PodMissing(p) ==
  /\ Visit(p)
  /\ ~Runs(p)
  /\ complete' = FALSE
  /\ UNCHANGED joined

\* GetInstanceUUID finds the pod joined, or it is joined through the leader,
\* which is taken to have joined before (module Formation is about that).
JoinPod(p) ==
  /\ Visit(p)
  /\ Runs(p)
  /\ joined' = joined \cup {p}
  /\ UNCHANGED complete

\* The pod does not know a vshard role of the Role: that is for users to mend,
\* the reconcile is complete.
JoinRefused(p) ==
  /\ pc = "join"
  /\ p \in podsLeft /\ \A q \in podsLeft : p[2] <= q[2]
  /\ Runs(p) /\ p \notin joined
  /\ EndIn("ConfigError", FALSE)

NotAllJoined ==
  /\ pc = "join"
  /\ left = {} /\ podsLeft = {} /\ ~complete
  /\ EndIn("Progressing", TRUE)

AllJoined ==
  /\ pc = "join"
  /\ left = {} /\ podsLeft = {} /\ complete
  /\ pc' = "configure"
  /\ left' = Desired(copy)
  /\ UNCHANGED <<role, sts, informer, queued, copy, fresh, list, current, cluster,
                 phase, loop>>

\* ConfigureVShardRoles lists the StatefulSet again; a replicaset that is not in
\* the topology cannot be configured.
ConfigureReplicaset(o) ==
  /\ pc = "configure"
  /\ Lowest(o)
  /\ left' = left \ {o}
  /\ complete' = (complete /\ (Listed(o) => \E p \in joined : p[1] = o))
  /\ UNCHANGED <<role, sts, informer, queued, pc, copy, fresh, list, current,
                 cluster, phase, podsLeft>>

NotAllConfigured ==
  /\ pc = "configure"
  /\ left = {} /\ ~complete
  /\ EndIn("Progressing", TRUE)

WaitForBootstrapOnce ==   \* mutant: the Role trusts in the events of the Cluster
  /\ pc = "configure"
  /\ left = {} /\ complete /\ ~bootstrapped
  /\ EndIn("WaitingForBootstrap", FALSE)

WaitForBootstrap ==
  /\ pc = "configure"
  /\ left = {} /\ complete /\ ~bootstrapped
  /\ EndIn("WaitingForBootstrap", TRUE)

RoleReady ==
  /\ pc = "configure"
  /\ left = {} /\ complete /\ bootstrapped
  /\ EndIn("Ready", FALSE)

\* A call to the API server, to the leader or to a pod fails, or its reply is
\* lost.
CallFails ==
  /\ StepFails
  /\ SavePhase("Progressing")
  /\ joined' \in {joined} \cup {joined \cup {p} : p \in podsLeft \cap ready}
  /\ podsLeft' = {}
  /\ complete' = FALSE
  /\ UNCHANGED <<ready, bootstrapped>>

OperatorRestarts ==
  /\ Restart
  /\ podsLeft' = {}
  /\ complete' = FALSE
  /\ UNCHANGED <<cluster, phase>>

-------------------------------------------------------------------------------
(* The StatefulSet controller and the pods.  What they do to the status of *)
(* a StatefulSet wakes the controller up, but nothing may depend on it: it *)
(* is left out.                                                            *)

Owned(p) == sts[p[1]].exists /\ p[2] < sts[p[1]].replicas

PodsChange == UNCHANGED <<vars, joined, bootstrapped, phase, loop>>

PodComesUp(p) ==
  /\ Owned(p) /\ p \notin ready
  /\ ready' = ready \cup {p}
  /\ PodsChange

\* It fails or is restarted, or the StatefulSet has no place for it.
PodGoesDown(p) ==
  /\ p \in ready
  /\ ready' = ready \ {p}
  /\ PodsChange

\* The Cluster controller bootstraps a cluster some instance of which joined.
BootstrapCluster ==
  /\ ~bootstrapped /\ joined # {}
  /\ bootstrapped' = TRUE
  /\ UNCHANGED <<vars, ready, joined, phase, loop>>

DeliverStatefulSet(o) == Deliver(o) /\ UNCHANGED podVars

-------------------------------------------------------------------------------
RoleWork ==
  \/ SyncStatefulSets \/ SyncFails
  \/ CartridgeReady \/ CartridgeNotReady
  \/ \E o \in left : ListReplicaset(o) \/ ConfigureReplicaset(o)
  \/ \E p \in podsLeft : PodMissing(p) \/ JoinPod(p)
  \/ NotAllJoined \/ AllJoined
  \/ NotAllConfigured \/ WaitForBootstrap \/ RoleReady

Kubernetes ==
  \/ \E o \in Ordinals : DeliverStatefulSet(o)
  \/ \E p \in Pods : PodComesUp(p)
  \/ BootstrapCluster

RolePodsNext ==
  \/ RoleWork
  \/ Kubernetes
  \/ CallFails \/ OperatorRestarts
  \/ \E p \in podsLeft : JoinRefused(p)
  \/ \E p \in Pods : PodGoesDown(p)
  \/ \E new \in RoleSpecs : EditRole(new) /\ UNCHANGED podVars

RolePodsSpec == RolePodsInit /\ [][RolePodsNext]_allVars

-------------------------------------------------------------------------------
\* A Role that has nothing left to do has joined every pod of its spec, or tells
\* users that it cannot: none was passed over for good because the cache lacked
\* its StatefulSet, because a pod of another replicaset stood for it, or because
\* it did not run for a moment.
RestMeansJoined == AtRest /\ phase # "ConfigError" => Wanted \subseteq joined

\* What it rests on.  StatefulSets have the labels they are found by; unless the
\* Role is queued again, those it needs exist, and what the loops have passed is
\* joined, is remembered as not joined, or has a version on its way.
PodsTypeOK ==
  /\ role \in RoleSpecs /\ copy \in RoleSpecs
  /\ sts \in [Ordinals -> Existing \cup {Absent}]
  /\ cache \in [Ordinals -> Existing \cup {Absent}]
  /\ list \in [Ordinals -> Existing \cup {Absent}]
  /\ left \subseteq Ordinals
  /\ pc \in {"idle", "create", "update", "rest", "join", "configure"}

AlwaysSelected == \A o \in Ordinals : sts[o].exists => sts[o].selected

JoinedBut(o, pods) == o \in unseen \/ PodsOf(o, role.replicas) \ pods \subseteq joined

JoinProgress ==
  ~queued =>
    /\ pc # "idle" =>
         /\ copy = role /\ fresh
         /\ \A o \in Desired(role) : (pc = "create" /\ o \in left) \/ o \in unseen \/ sts[o].selected
    /\ pc = "join" /\ complete => \A o \in Desired(role) \ left : JoinedBut(o, podsLeft)
    /\ pc = "configure" /\ complete => \A o \in Desired(role) : JoinedBut(o, {})
    /\ pc = "idle" /\ phase # "ConfigError" => \A o \in Desired(role) : JoinedBut(o, {})

RolePodsInv == PodsTypeOK /\ Knowledge /\ AlwaysSelected /\ JoinProgress

\* The steps of module StatefulSets are taken as they are there: the loops after
\* them are its "rest".
Sync == INSTANCE StatefulSets WITH
  pc <- IF pc \in {"join", "configure"} THEN "rest" ELSE pc,
  left <- IF pc \in {"join", "configure"} THEN {} ELSE left

\* What holds of StatefulSets holds here: the later steps, their waits and their
\* failures, and the phase they write, change nothing about it.
ImplementsStatefulSets == Sync!Spec

\* Seen from the Role, its StatefulSets and the topology, the Role controller is
\* level-triggered.
RoleController == INSTANCE LevelTriggered WITH
  goal <- role, world <- <<sts, joined>>,
  fulfilled <- phase # "ConfigError" => Wanted \subseteq joined, awake <- ~AtRest

\* It rests only when every wanted pod is joined, or users are told.
ImplementsRoleController == RoleController!Spec

\* The queue is served, the informer delivers, pods come up and the cluster is
\* bootstrapped; users and faults leave the objects alone from some time on.
RolePodsLiveSpec ==
  /\ RolePodsSpec
  /\ WF_allVars(RoleWork)
  /\ \A o \in Ordinals : WF_allVars(DeliverStatefulSet(o))
  /\ \A p \in Pods : WF_allVars(PodComesUp(p))
  /\ WF_allVars(BootstrapCluster)
  /\ <>[][RoleWork \/ Kubernetes]_allVars

\* Then the Role is ready with all its pods joined, and stays so, unless it
\* waits for its vshard roles to be mended.
EventuallyJoined ==
  []<>(phase # "ConfigError") => <>[](phase = "Ready" /\ AtRest /\ Wanted \subseteq joined)
===============================================================================
