--------------------------- MODULE ClusterWakeup ----------------------------
(***************************************************************************)
(* What wakes the Cluster controller up, and whether it sleeps through     *)
(* anything.  The Cluster is reconciled again only if it is put in the     *)
(* work queue: by an error, by a change of the Cluster itself, or by an    *)
(* update of a Role that is, before or after the update, in phase          *)
(* WaitingForBootstrap (cluster_controller.go:157-174).  A reconcile that  *)
(* finds the Roles in other phases ends with Complete, which asks for no   *)
(* requeue (wait_for_roles_phase.go).                                      *)
(*                                                                         *)
(* Role updates reach the cache and the queue through the Role's watch, a  *)
(* FIFO channel.  The election of the leader and the joining of the pods   *)
(* are those of modules Election and Formation and are left out: a Role    *)
(* either gets through to WaitForClusterBootstrappedStep or it does not.   *)
(***************************************************************************)
EXTENDS Naturals, Sequences

CONSTANTS
  Roles,          \* the Role objects of the cluster
  NoRole,         \* the Role worker between two reconciles
  Failovers,      \* the settings Cluster.Spec.Failover takes
  Misconfigured,  \* whether the Roles may lack the vshard roles at first
  MaxLag          \* bound on the updates of a Role not yet delivered

ASSUME WakeupAssumption ==
  /\ Roles # {} /\ NoRole \notin Roles
  /\ Failovers # {}
  /\ Misconfigured \in BOOLEAN
  /\ MaxLag \in Nat \ {0}

VARIABLES
  rolePhase,     \* Role.Status.Phase in the API server
  roleCache,     \* the same in the informer cache
  watch,         \* updates of each Role on their way to the cache
  able,          \* Roles whose pods run, are joined and configurable
  roleQueue,     \* Roles in the work queue of the Role controller
  job,           \* the Role being reconciled
  sawBootstrap,  \* the bootstrapped flag in its copy of the Cluster
  specRoles,     \* whether the Roles' specs hold all vshard roles
  topoRoles,     \* whether the replicasets in the topology do
  bootstrapped,  \* Cluster.Status.Bootstrapped
  bootCache,     \* the same in the informer cache
  phase,         \* Cluster.Status.Phase
  failover,      \* Cluster.Spec.Failover
  applied,       \* the failover parameters of the Cartridge cluster
  queued,        \* whether the Cluster is in the work queue
  pc,            \* the step the Cluster worker executes
  copy           \* its copy of the Cluster

roleVars == <<rolePhase, watch, roleQueue>>
workVars == <<job, sawBootstrap>>
clusterVars == <<bootstrapped, phase, queued, pc, copy>>
specVars == <<specRoles, failover>>
vars == <<roleVars, roleCache, able, workVars, specVars, topoRoles,
          clusterVars, bootCache, applied>>

\* "Progressing" is every phase of a Role but the two the Cluster waits for,
\* and of a Cluster the phase of a step that failed.
RolePhases == {"Progressing", "WaitingForBootstrap", "Ready"}
ClusterPhases == {"Progressing", "WaitingForRoles", "UnableToBootstrap", "Ready"}
Copies == [fresh : BOOLEAN, bootstrapped : BOOLEAN, failover : Failovers]

TypeOK ==
  /\ rolePhase \in [Roles -> RolePhases]
  /\ roleCache \in [Roles -> RolePhases]
  /\ watch \in [Roles -> Seq(RolePhases)]
  /\ \A r \in Roles : Len(watch[r]) <= MaxLag
  /\ able \subseteq Roles
  /\ roleQueue \subseteq Roles
  /\ job \in Roles \cup {NoRole}
  /\ sawBootstrap \in BOOLEAN
  /\ specRoles \in BOOLEAN
  /\ topoRoles \in BOOLEAN
  /\ bootstrapped \in BOOLEAN
  /\ bootCache \in BOOLEAN
  /\ phase \in ClusterPhases
  /\ failover \in Failovers
  /\ applied \in Failovers
  /\ queued \in BOOLEAN
  /\ pc \in {"idle", "roles", "bootstrap", "failover"}
  /\ copy \in Copies

Init ==
  /\ rolePhase = [r \in Roles |-> "Progressing"]
  /\ roleCache = [r \in Roles |-> "Progressing"]
  /\ watch = [r \in Roles |-> <<>>]
  /\ able = {}
  /\ roleQueue = Roles
  /\ job = NoRole
  /\ sawBootstrap = FALSE
  /\ specRoles = ~Misconfigured
  /\ topoRoles = FALSE
  /\ bootstrapped = FALSE
  /\ bootCache = FALSE
  /\ phase = "Progressing"
  /\ failover \in Failovers
  /\ applied \in Failovers
  /\ queued = TRUE
  /\ pc = "idle"
  /\ copy = [fresh |-> FALSE, bootstrapped |-> FALSE, failover |-> failover]

-----------------------------------------------------------------------------
(* The Role controller: one worker, and a queue that holds a Role once.    *)

RoleBegin(r) ==
  /\ job = NoRole
  /\ r \in roleQueue
  /\ job' = r
  /\ sawBootstrap' = bootCache
  /\ roleQueue' = roleQueue \ {r}
  /\ UNCHANGED <<rolePhase, watch, roleCache, able, specVars, topoRoles,
                 clusterVars, bootCache, applied>>

\* The final status update of a Role.  The same phase again makes no new
\* version of the object, hence no update.
EndRole(newPhase, requeue) ==
  /\ \/ newPhase = rolePhase[job] /\ UNCHANGED <<rolePhase, watch>>
     \/ /\ newPhase # rolePhase[job]
        /\ Len(watch[job]) < MaxLag
        /\ rolePhase' = [rolePhase EXCEPT ![job] = newPhase]
        /\ watch' = [watch EXCEPT ![job] = Append(@, newPhase)]
  /\ roleQueue' = IF requeue THEN roleQueue \cup {job} ELSE roleQueue
  /\ job' = NoRole
  /\ sawBootstrap' = FALSE
  /\ UNCHANGED <<roleCache, able, specVars, clusterVars, bootCache, applied>>

\* A step up to ConfigureVShardRolesStep fails or has to wait.
RoleWaits ==
  /\ job # NoRole
  /\ job \notin able
  /\ EndRole("Progressing", TRUE)
  /\ UNCHANGED topoRoles

\* ConfigureVShardRolesStep brings the topology in line with the spec, then
\* WaitForClusterBootstrappedStep asks for a requeue, or is passed.
RoleReachesNoRequeue ==   \* mutant: the Role waits for a wake-up instead
  /\ job \in able
  /\ topoRoles' = specRoles
  /\ IF sawBootstrap THEN EndRole("Ready", FALSE)
                     ELSE EndRole("WaitingForBootstrap", FALSE)

RoleReaches ==
  /\ job \in able
  /\ topoRoles' = specRoles
  /\ IF sawBootstrap THEN EndRole("Ready", FALSE)
                     ELSE EndRole("WaitingForBootstrap", TRUE)

\* An update of a Role reaches the cache.  The Role itself is enqueued, and
\* the Cluster if the old or the new object waits for the bootstrap.
RoleUpdateReadyOnly(r) ==   \* mutant: the mapper looks for another phase
  /\ watch[r] # <<>>
  /\ roleCache' = [roleCache EXCEPT ![r] = Head(watch[r])]
  /\ watch' = [watch EXCEPT ![r] = Tail(@)]
  /\ roleQueue' = roleQueue \cup {r}
  /\ queued' = (queued \/ "Ready" \in {roleCache[r], Head(watch[r])})
  /\ UNCHANGED <<rolePhase, able, workVars, specVars, topoRoles, bootstrapped,
                 phase, pc, copy, bootCache, applied>>

RoleUpdate(r) ==
  /\ watch[r] # <<>>
  /\ roleCache' = [roleCache EXCEPT ![r] = Head(watch[r])]
  /\ watch' = [watch EXCEPT ![r] = Tail(@)]
  /\ roleQueue' = roleQueue \cup {r}
  /\ queued' = (queued \/ "WaitingForBootstrap" \in {roleCache[r], Head(watch[r])})
  /\ UNCHANGED <<rolePhase, able, workVars, specVars, topoRoles, bootstrapped,
                 phase, pc, copy, bootCache, applied>>

-----------------------------------------------------------------------------
(* The Cluster controller.                                                 *)

ClusterBegin ==
  /\ pc = "idle"
  /\ queued
  /\ queued' = FALSE
  /\ pc' = "roles"
  /\ copy' = [fresh |-> TRUE, bootstrapped |-> bootstrapped, failover |-> failover]
  /\ UNCHANGED <<roleVars, roleCache, able, workVars, specVars, topoRoles,
                 bootstrapped, phase, bootCache, applied>>

\* The final status update.  It is refused if the Cluster was changed since
\* the copy was read, which is an error and brings the Cluster back to the
\* queue; so does the update of the Cluster if the write changes it.
EndCluster(newPhase, boot, error) ==
  /\ pc' = "idle"
  /\ copy' = [copy EXCEPT !.fresh = FALSE]
  /\ IF copy.fresh
     THEN /\ phase' = newPhase
          /\ bootstrapped' = boot
          /\ queued' = (queued \/ error \/ newPhase # phase \/ boot # bootstrapped)
     ELSE /\ queued' = TRUE
          /\ UNCHANGED <<phase, bootstrapped>>
  /\ UNCHANGED <<roleVars, roleCache, able, workVars, specVars, topoRoles, bootCache>>

AllRolesAtPhase(p) == \A r \in Roles : roleCache[r] = p

RolesInPhase ==
  AllRolesAtPhase("WaitingForBootstrap") \/ AllRolesAtPhase("Ready")

WaitForRolesKeepsPhase ==   \* mutant: the phase of the last reconcile stays
  /\ pc = "roles"
  /\ ~RolesInPhase
  /\ EndCluster(phase, copy.bootstrapped, FALSE)
  /\ UNCHANGED applied

WaitForRoles ==
  /\ pc = "roles"
  /\ ~RolesInPhase
  /\ EndCluster("WaitingForRoles", copy.bootstrapped, FALSE)
  /\ UNCHANGED applied

PassRoles ==
  /\ pc = "roles"
  /\ RolesInPhase
  /\ pc' = "bootstrap"
  /\ UNCHANGED <<roleVars, roleCache, able, workVars, specVars, topoRoles,
                 bootstrapped, phase, queued, copy, bootCache, applied>>

\* BootstrapStep: nothing to do, done, or no instance with the vshard roles.
Bootstrap ==
  /\ pc = "bootstrap"
  /\ copy.bootstrapped \/ topoRoles
  /\ pc' = "failover"
  /\ copy' = [copy EXCEPT !.bootstrapped = TRUE]
  /\ UNCHANGED <<roleVars, roleCache, able, workVars, specVars, topoRoles,
                 bootstrapped, phase, queued, bootCache, applied>>

UnableToBootstrap ==
  /\ pc = "bootstrap"
  /\ ~copy.bootstrapped /\ ~topoRoles
  /\ EndCluster("UnableToBootstrap", FALSE, FALSE)
  /\ UNCHANGED applied

\* ConfigureFailoverStep and the end of the reconcile.
ConfigureFailover ==
  /\ pc = "failover"
  /\ applied' = copy.failover
  /\ EndCluster("Ready", copy.bootstrapped, FALSE)

ClusterFailsCompletes ==   \* mutant: the error is not returned
  /\ pc \in {"bootstrap", "failover"}
  /\ EndCluster("Progressing", copy.bootstrapped, FALSE)
  /\ UNCHANGED applied

\* GetLeader, the bootstrap or the failover fails.
ClusterFails ==
  /\ pc \in {"bootstrap", "failover"}
  /\ EndCluster("Progressing", copy.bootstrapped, TRUE)
  /\ UNCHANGED applied

-----------------------------------------------------------------------------
(* The environment.                                                        *)

ClusterCacheSync ==
  /\ bootCache # bootstrapped
  /\ bootCache' = bootstrapped
  /\ UNCHANGED <<roleVars, roleCache, able, workVars, specVars, topoRoles,
                 clusterVars, applied>>

\* The pods of a Role become ready, or are restarted: its StatefulSets change.
PodsChange(r, newAble) ==
  /\ able # newAble
  /\ able' = newAble
  /\ roleQueue' = roleQueue \cup {r}
  /\ UNCHANGED <<rolePhase, watch, roleCache, workVars, specVars, topoRoles,
                 clusterVars, bootCache, applied>>

PodsReady(r) == PodsChange(r, able \cup {r})
PodsRestart(r) == PodsChange(r, able \ {r})

\* A user edits the failover of the Cluster.
EditFailover(f) ==
  /\ f # failover
  /\ failover' = f
  /\ queued' = TRUE
  /\ copy' = [copy EXCEPT !.fresh = FALSE]
  /\ UNCHANGED <<roleVars, roleCache, able, workVars, specRoles, topoRoles,
                 bootstrapped, phase, pc, bootCache, applied>>

\* A user adds the missing vshard roles to the spec of a Role.
FixRoles(r) ==
  /\ ~specRoles
  /\ Len(watch[r]) < MaxLag
  /\ specRoles' = TRUE
  /\ watch' = [watch EXCEPT ![r] = Append(@, rolePhase[r])]
  /\ UNCHANGED <<rolePhase, roleQueue, roleCache, able, workVars, failover,
                 topoRoles, clusterVars, bootCache, applied>>

-----------------------------------------------------------------------------
RoleWork == (\E r \in Roles : RoleBegin(r)) \/ RoleWaits \/ RoleReaches

ClusterWork ==
  \/ ClusterBegin
  \/ WaitForRoles \/ PassRoles
  \/ Bootstrap \/ UnableToBootstrap
  \/ ConfigureFailover

Next ==
  \/ RoleWork
  \/ \E r \in Roles :
       RoleUpdate(r) \/ PodsReady(r) \/ PodsRestart(r) \/ FixRoles(r)
  \/ ClusterWork \/ ClusterFails
  \/ ClusterCacheSync
  \/ \E f \in Failovers : EditFailover(f)

Spec == Init /\ [][Next]_vars

-----------------------------------------------------------------------------
\* Nothing under way will wake the Cluster controller up.
ClusterAtRest ==
  /\ pc = "idle" /\ ~queued
  /\ \A r \in Roles : watch[r] = <<>>

RolesAtRest == job = NoRole /\ roleQueue = {}

\* No wake-up is missed before the bootstrap: once all Roles wait for it, the
\* Cluster is not at rest unless it is bootstrapped, or was refused the
\* bootstrap for want of vshard roles.
NoMissedBootstrap ==
  ClusterAtRest /\ (\A r \in Roles : rolePhase[r] = "WaitingForBootstrap")
    => bootstrapped \/ phase = "UnableToBootstrap"

\* A Cluster at rest and reported ready has its current failover applied.
ReadyMeansApplied ==
  ClusterAtRest /\ phase = "Ready" => applied = failover

\* What the two rest on.  The cache of a Role that no update is on its way for
\* shows it as it is stored, a copy that is still the stored version has its
\* failover and a bootstrap that was recorded, and a Cluster that rests without
\* being queued has dealt with what the cache shows.
LatestOf(r) == IF watch[r] = <<>> THEN roleCache[r] ELSE watch[r][Len(watch[r])]

CopyTrue ==
  /\ copy.fresh => copy.failover = failover /\ (bootstrapped => copy.bootstrapped)
  /\ pc = "failover" => copy.bootstrapped

Concluded ==
  /\ AllRolesAtPhase("WaitingForBootstrap") => bootstrapped \/ phase = "UnableToBootstrap"
  /\ phase = "Ready" => applied = failover

WakeupInv ==
  /\ TypeOK
  /\ \A r \in Roles : LatestOf(r) = rolePhase[r]
  /\ CopyTrue
  /\ pc = "idle" /\ ~queued => Concluded

\* The phase of a Cluster at rest tells the state of the cluster: it is not
\* WaitingForRoles when every Role has long been ready.
PhaseIsCurrent ==
  ClusterAtRest /\ RolesAtRest /\ (\A r \in Roles : rolePhase[r] = "Ready")
    => phase # "WaitingForRoles"

\* A bootstrap that has been recorded is not forgotten, although each status update
\* writes the flag of a copy that was read before: Roles that are configured do
\* not wait for a bootstrap again.
BootstrapKept == [][bootstrapped => bootstrapped']_vars

\* Seen from the failover and the phases of the Roles, the Cluster controller is
\* level-triggered.
Controller == INSTANCE LevelTriggered WITH
  goal <- <<failover, rolePhase>>, world <- <<applied, bootstrapped, phase>>,
  fulfilled <-
    /\ (\A r \in Roles : rolePhase[r] = "WaitingForBootstrap")
         => bootstrapped \/ phase = "UnableToBootstrap"
    /\ phase = "Ready" => applied = failover,
  awake <- ~ClusterAtRest

\* It rests only when no bootstrap is waited for and the failover it reports is
\* applied, and neither an edit nor a phase of a Role finds it asleep for good.
ImplementsController == Controller!Spec

-----------------------------------------------------------------------------
\* Queues are served, watches deliver, and pods become ready in the end; the
\* users and the transport leave the cluster alone from some point on.
LiveSpec ==
  /\ Spec
  /\ WF_vars(ClusterWork) /\ WF_vars(RoleWaits \/ RoleReaches)
  /\ \A r \in Roles :
       SF_vars(RoleBegin(r)) /\ WF_vars(RoleUpdate(r)) /\ WF_vars(PodsReady(r))
  /\ WF_vars(ClusterCacheSync)
  /\ <>[][\/ ClusterWork \/ RoleWork \/ ClusterCacheSync
          \/ \E r \in Roles : RoleUpdate(r) \/ PodsReady(r)]_vars

\* The wake-ups suffice for the bootstrap, and for every Role after it.  A
\* bootstrap refused for want of vshard roles is the exception: only the
\* informer's resync, which is not modelled, repeats it for certain.
RolesEventuallyReady ==
  <>[](phase = "UnableToBootstrap" \/ \A r \in Roles : rolePhase[r] = "Ready")
=============================================================================
