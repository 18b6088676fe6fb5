----------------------------- MODULE Formation ------------------------------
(***************************************************************************)
(* How a Cartridge cluster is formed: the Role controller joins the pods   *)
(* of each Role through the elected leader (EnsureCartridgeReadyStep,      *)
(* JoinInstancesStep), the Cluster controller waits for the phases of the  *)
(* Roles and bootstraps vshard through the same leader (WaitForRolesPhase, *)
(* BootstrapStep).  The module refines the "lead" control point of module  *)
(* Election and adds what the instances themselves keep: whether their     *)
(* disk holds the configuration of a Cartridge cluster, and which.         *)
(*                                                                         *)
(* A Cartridge cluster ("brain") is started when the first topology edit   *)
(* is executed on an instance that has no configuration yet.               *)
(***************************************************************************)
EXTENDS Election

CONSTANTS
  Brains,       \* the Cartridge clusters that can be told apart
  NoBrain,      \* an instance without a configuration
  Persistent,   \* pods whose disk survives the pod (volumeClaimTemplates)
  NoRole        \* a Role worker between two reconciles

ASSUME FormationAssumption ==
  /\ NoBrain \notin Brains
  /\ NoRole \notin Roles
  /\ Persistent \subseteq Pods
  /\ ConfigWorkers = {}
  /\ {"Booting", "Started", "Configured"} \subseteq InstStates
  /\ "OperationError" \notin InstStates

VARIABLES
  disk,        \* the brain whose configuration each pod's disk holds
  servers,     \* the pods in the topology of each brain
  vshard,      \* the brains in which vshard is bootstrapped
  rolePhase,   \* Role.Status.Phase in the API server
  roleCache,   \* the same in the informer cache
  job,         \* the Role each Role worker reconciles
  left,        \* pods JoinInstancesStep has still to visit
  stage        \* EnsureCartridgeReadyStep, or JoinInstancesStep and its allJoined

instanceVars == <<disk, servers, vshard>>
phaseVars == <<rolePhase, roleCache>>
joinVars == <<left, stage>>
formationVars == <<vars, instanceVars, phaseVars, job, joinVars>>

\* Every phase of a Role but the two the Cluster waits for is one.
RolePhases == {"Progressing", "WaitingForBootstrap", "Ready"}

\* "ready": before JoinInstancesStep; "joining": in it, all pods visited so
\* far are joined; "incomplete": in it, some were not.
Stages == {"ready", "joining", "incomplete"}

PodsOf(r) == {p \in Pods : p[1] = r}

FormationTypeOK ==
  /\ disk \in [Pods -> Brains \cup {NoBrain}]
  /\ servers \in [Brains -> SUBSET Pods]
  /\ vshard \subseteq Brains
  /\ rolePhase \in [Roles -> RolePhases]
  /\ roleCache \in [Roles -> RolePhases]
  /\ job \in [RoleWorkers -> Roles \cup {NoRole}]
  /\ left \in [RoleWorkers -> SUBSET Pods]
  /\ stage \in [RoleWorkers -> Stages]

FormationInit ==
  /\ Init
  /\ \A p \in Pods : inst[p] \in {"Booting", "Started"}
  /\ disk = [p \in Pods |-> NoBrain]
  /\ servers = [b \in Brains |-> {}]
  /\ vshard = {}
  /\ rolePhase = [r \in Roles |-> "Progressing"]
  /\ roleCache = [r \in Roles |-> "Progressing"]
  /\ job = [w \in RoleWorkers |-> NoRole]
  /\ left = [w \in RoleWorkers |-> {}]
  /\ stage = [w \in RoleWorkers |-> "ready"]

-----------------------------------------------------------------------------
(* Role workers.  The phase a reconcile ends in is written to the Role     *)
(* with optimistic concurrency; the write can be refused or lost.          *)

WritePhase(w, phase) ==
  /\ rolePhase' = [rolePhase EXCEPT ![job[w]] = phase]
  /\ UNCHANGED roleCache

\* The worker forgets its Role.
Release(w) ==
  /\ job' = [job EXCEPT ![w] = NoRole]
  /\ left' = [left EXCEPT ![w] = {}]
  /\ stage' = [stage EXCEPT ![w] = "ready"]

RoleStart(w, r) ==
  /\ Start(w)
  /\ job' = [job EXCEPT ![w] = r]
  /\ UNCHANGED <<instanceVars, phaseVars, joinVars>>

\* The steps of a reconcile up to GetLeader; one that ends there leaves the
\* Role in one of the early phases.
UpToLeader(w, step) ==
  /\ pc[w] \in {"load", "scan", "save"}
  /\ step
  /\ IF pc'[w] = "idle"
     THEN WritePhase(w, "Progressing") /\ Release(w)
     ELSE UNCHANGED <<phaseVars, job, joinVars>>
  /\ UNCHANGED instanceVars

\* The end of a reconcile that got past GetLeader, in the given phase.
EndRole(w, phase) ==
  /\ LeadDone(w)
  /\ WritePhase(w, phase)
  /\ Release(w)

\* The same with the status update refused or lost.
EndRoleUnsaved(w) ==
  /\ LeadDone(w)
  /\ Release(w)
  /\ UNCHANGED phaseVars

\* EnsureCartridgeReadyStep counts the pods of the Role that run and whose
\* Cartridge is started.
CartridgeReady(w) ==
  /\ pc[w] = "lead"
  /\ stage[w] = "ready"
  /\ \A p \in PodsOf(job[w]) : IsCartridgeStarted(inst[p])
  /\ stage' = [stage EXCEPT ![w] = "joining"]
  /\ left' = [left EXCEPT ![w] = PodsOf(job[w])]
  /\ UNCHANGED <<vars, instanceVars, phaseVars, job>>

CartridgeNotReady(w) ==
  /\ stage[w] = "ready"
  /\ \E p \in PodsOf(job[w]) : ~IsCartridgeStarted(inst[p])
  /\ EndRole(w, "Progressing")
  /\ UNCHANGED instanceVars

-----------------------------------------------------------------------------
(* JoinInstancesStep visits the pods of the Role by replicaset, then by    *)
(* pod ordinal.  GetInstanceUUID is empty until box.cfg has been called:   *)
(* always for an instance without a configuration, never for a configured  *)
(* one, and either while an instance with a configuration is starting.     *)

Visited(w, p, joined) ==
  /\ left' = [left EXCEPT ![w] = @ \ {p}]
  /\ stage' = [stage EXCEPT ![w] = IF joined THEN @ ELSE "incomplete"]
  /\ UNCHANGED <<vars, phaseVars, job>>

NextToJoin(w, p) ==
  /\ pc[w] = "lead"
  /\ p \in left[w]
  /\ \A q \in left[w] : p[2] < q[2] \/ (p[2] = q[2] /\ p[3] <= q[3])

MayHaveUUID(p) ==
  \/ inst[p] = "Configured"
  \/ inst[p] = "Started" /\ disk[p] # NoBrain

MayLackUUID(p) == inst[p] \in {"Booting", "Started"}

JoinPodDown(w, p) ==
  /\ NextToJoin(w, p)
  /\ inst[p] \in {"Absent", "NotRunning"}
  /\ Visited(w, p, FALSE)
  /\ UNCHANGED instanceVars

JoinAlready(w, p) ==
  /\ NextToJoin(w, p)
  /\ MayHaveUUID(p)
  /\ Visited(w, p, TRUE)
  /\ UNCHANGED instanceVars

JoinLeaderFirstForgotten(w, p) ==   \* mutant: allJoined stays true
  /\ NextToJoin(w, p)
  /\ MayLackUUID(p)
  /\ p # copy[w].leader
  /\ MayLackUUID(copy[w].leader)
  /\ Visited(w, p, TRUE)
  /\ UNCHANGED instanceVars

\* The leader itself is not joined yet: the pod has to wait.
JoinLeaderFirst(w, p) ==
  /\ NextToJoin(w, p)
  /\ MayLackUUID(p)
  /\ p # copy[w].leader
  /\ MayLackUUID(copy[w].leader)
  /\ Visited(w, p, FALSE)
  /\ UNCHANGED instanceVars

(* Topology.Join, executed on the leader.  On an unconfigured instance the *)
(* edit starts a new Cartridge cluster; on a configured one it adds the    *)
(* pod to the cluster of the leader and hands it the configuration, and    *)
(* fails if the pod is in the topology already or has another              *)
(* configuration.                                                          *)
JoinSelfAnyPod(w, p) ==   \* mutant: the edit is executed on the pod itself
  /\ NextToJoin(w, p)
  /\ inst[p] = "Started"
  /\ disk[p] = NoBrain
  /\ \E b \in Brains :
       /\ servers[b] = {}
       /\ servers' = [servers EXCEPT ![b] = {p}]
       /\ disk' = [disk EXCEPT ![p] = b]
  /\ UNCHANGED vshard

JoinSelf(w, p) ==
  /\ NextToJoin(w, p)
  /\ p = copy[w].leader
  /\ inst[p] = "Started"
  /\ disk[p] = NoBrain
  /\ \E b \in Brains :
       /\ servers[b] = {}
       /\ servers' = [servers EXCEPT ![b] = {p}]
       /\ disk' = [disk EXCEPT ![p] = b]
  /\ UNCHANGED vshard

JoinThroughLeader(w, p) ==
  LET brain == disk[copy[w].leader] IN
  /\ NextToJoin(w, p)
  /\ p # copy[w].leader
  /\ inst[copy[w].leader] = "Configured"
  /\ inst[p] = "Started"
  /\ disk[p] = NoBrain
  /\ p \notin servers[brain]
  /\ servers' = [servers EXCEPT ![brain] = @ \cup {p}]
  /\ disk' = [disk EXCEPT ![p] = brain]
  /\ UNCHANGED vshard

Join(w, p) == JoinSelf(w, p) \/ JoinThroughLeader(w, p)

Joined(w, p) ==
  /\ Join(w, p)
  /\ Visited(w, p, TRUE)

JoinReplyLost(w, p) ==
  /\ Join(w, p)
  /\ EndRole(w, "Progressing")

\* The edit is refused, or an instance it needs cannot be reached: the pod is
\* in the topology already (ErrAlreadyJoined), its instance is not started,
\* the leader's is down.
JoinError(w, p) ==
  LET l == copy[w].leader IN
  /\ NextToJoin(w, p)
  /\ inst[p] \notin {"Absent", "NotRunning"}
  /\ ~MayHaveUUID(p)
  /\ \/ inst[p] # "Started"
     \/ p # l /\ inst[l] \notin {"Booting", "Started", "Configured"}
     \/ p # l /\ inst[l] = "Configured" /\ p \in servers[disk[l]]
  /\ EndRole(w, "Progressing")
  /\ UNCHANGED instanceVars

\* Requeue if some pod was not joined.  Otherwise ConfigureVShardRolesStep,
\* WaitForClusterBootstrappedStep (on the copy read at the start) and, past
\* it, SetVShardWeightsStep.
RoleIncomplete(w) ==
  /\ stage[w] = "incomplete"
  /\ left[w] = {}
  /\ EndRole(w, "Progressing")
  /\ UNCHANGED instanceVars

RoleDone(w) ==
  /\ stage[w] = "joining"
  /\ left[w] = {}
  /\ EndRole(w, IF copy[w].bootstrapped THEN "Ready" ELSE "WaitingForBootstrap")
  /\ UNCHANGED instanceVars

\* A step fails or asks for a requeue (transport, GetPod, unknown vshard
\* role, roles that cannot be configured), the final status update is refused
\* or lost, the operator restarts.
RoleFailure(w) ==
  /\ \/ EndRole(w, "Progressing")
     \/ EndRoleUnsaved(w)
     \/ Crash(w) /\ Release(w) /\ UNCHANGED phaseVars
  /\ UNCHANGED instanceVars

-----------------------------------------------------------------------------
(* Cluster workers.  WaitForRolesPhasesStep reads the Roles from the cache *)
(* right before GetLeader: all in WaitingForBootstrap, or all Ready.       *)

AnyRoleAtPhase(phase) ==   \* mutant: one Role in the phase is enough
  \E r \in Roles : roleCache[r] = phase

AllRolesAtPhase(phase) ==
  /\ Roles # {}
  /\ \A r \in Roles : roleCache[r] = phase

RolesReady == AllRolesAtPhase("Ready")   \* mutant: only the last phase passes

RolesInPhase == AllRolesAtPhase("WaitingForBootstrap") \/ AllRolesAtPhase("Ready")

ClusterStart(w) ==
  /\ Start(w)
  /\ UNCHANGED <<instanceVars, phaseVars, job, joinVars>>

WaitForRoles(w) ==
  /\ StopEarly(w)
  /\ ~RolesInPhase
  /\ UNCHANGED <<instanceVars, phaseVars, job, joinVars>>

\* GetLeaderStep; only its first action depends on the Roles.
ClusterElection(w, step) ==
  /\ pc[w] \in {"load", "scan", "save", "finish"}
  /\ pc[w] = "load" => RolesInPhase
  /\ step
  /\ UNCHANGED <<instanceVars, phaseVars, job, joinVars>>

\* admin_bootstrap_vshard on the leader; "already bootstrapped" is a success.
BootstrapVshard(w) ==
  /\ ~copy[w].bootstrapped
  /\ inst[copy[w].leader] = "Configured"
  /\ vshard' = vshard \cup {disk[copy[w].leader]}
  /\ UNCHANGED <<disk, servers, phaseVars, job, joinVars>>

BootstrapSucceeds(w) ==
  /\ MarkBootstrapped(w)
  /\ BootstrapVshard(w)

BootstrapReplyLost(w) ==
  /\ w \in ClusterWorkers
  /\ LeadDone(w)
  /\ BootstrapVshard(w)

\* The remaining steps of a bootstrapped cluster configure the failover; a
\* leader that is not configured cannot bootstrap.
ClusterDone(w) ==
  /\ w \in ClusterWorkers
  /\ LeadDone(w)
  /\ copy[w].bootstrapped \/ inst[copy[w].leader] # "Configured"
  /\ UNCHANGED <<instanceVars, phaseVars, job, joinVars>>

\* The call fails: in transport, or for want of instances with the
\* vshard-router and vshard-storage roles (UnableToBootstrap).
BootstrapErrorSwallowed(w) ==   \* mutant: marked bootstrapped all the same
  /\ w \in ClusterWorkers
  /\ MarkBootstrapped(w)
  /\ UNCHANGED <<instanceVars, phaseVars, job, joinVars>>

BootstrapFails(w) ==
  /\ w \in ClusterWorkers
  /\ LeadDone(w)
  /\ ~copy[w].bootstrapped
  /\ UNCHANGED <<instanceVars, phaseVars, job, joinVars>>

ClusterCrash(w) ==
  /\ Crash(w)
  /\ UNCHANGED <<instanceVars, phaseVars, job, joinVars>>

-----------------------------------------------------------------------------
(* The environment.  A pod that goes down loses its disk unless it is      *)
(* persistent; an instance with a configuration comes up configured, one   *)
(* without stays started until it is joined.                               *)

PodStep(p, from, to) ==
  /\ inst[p] \in from
  /\ \E s \in to \cap InstStates : inst' = [inst EXCEPT ![p] = s]
  /\ UNCHANGED <<apiVars, workerVars, phaseVars, job, joinVars, servers, vshard>>

PodDown(p) ==
  /\ PodStep(p, {"Booting", "Started", "Configured"},
                {"NotRunning", "Absent", "Unreachable", "Booting"} \ {inst[p]})
  /\ disk' = IF p \in Persistent THEN disk ELSE [disk EXCEPT ![p] = NoBrain]

PodBoots(p) ==
  /\ PodStep(p, {"NotRunning", "Absent", "Unreachable"}, {"Booting"})
  /\ UNCHANGED disk

PodStarts(p) ==
  /\ PodStep(p, {"Booting"}, {"Started"})
  /\ UNCHANGED disk

PodConfigures(p) ==
  /\ disk[p] # NoBrain
  /\ PodStep(p, {"Started"}, {"Configured"})
  /\ UNCHANGED disk

CachesSync ==
  /\ CacheSync
  /\ UNCHANGED <<instanceVars, phaseVars, job, joinVars>>

RoleCacheSync(r) ==
  /\ roleCache[r] # rolePhase[r]
  /\ roleCache' = [roleCache EXCEPT ![r] = rolePhase[r]]
  /\ UNCHANGED <<vars, instanceVars, rolePhase, job, joinVars>>

-----------------------------------------------------------------------------
RoleProgress(w) ==
  \/ \E r \in Roles : RoleStart(w, r)
  \/ UpToLeader(w, Progress(w))
  \/ CartridgeReady(w) \/ CartridgeNotReady(w)
  \/ \E p \in left[w] :
       \/ JoinPodDown(w, p) \/ JoinAlready(w, p) \/ JoinLeaderFirst(w, p)
       \/ Joined(w, p) \/ JoinError(w, p)
  \/ RoleIncomplete(w) \/ RoleDone(w)

RoleFault(w) ==
  \/ UpToLeader(w, Fault(w))
  \/ \E p \in left[w] : JoinReplyLost(w, p)
  \/ RoleFailure(w)

ClusterProgress(w) ==
  \/ ClusterStart(w)
  \/ WaitForRoles(w)
  \/ ClusterElection(w, Progress(w))
  \/ BootstrapSucceeds(w)
  \/ ClusterDone(w)

ClusterFault(w) ==
  \/ ClusterElection(w, Fault(w))
  \/ BootstrapReplyLost(w) \/ BootstrapFails(w)
  \/ ClusterCrash(w)

FormationNext ==
  \/ \E w \in RoleWorkers : RoleProgress(w) \/ RoleFault(w)
  \/ \E w \in ClusterWorkers : ClusterProgress(w) \/ ClusterFault(w)
  \/ \E p \in Pods : PodDown(p) \/ PodBoots(p) \/ PodStarts(p) \/ PodConfigures(p)
  \/ \E r \in Roles : RoleCacheSync(r)
  \/ CachesSync

FormationSpec == FormationInit /\ [][FormationNext]_formationVars

-----------------------------------------------------------------------------
(***************************************************************************)
(* Properties.                                                             *)
(***************************************************************************)

\* The reason the election never replaces the leader of a cluster that is
\* not bootstrapped (election.go:38-41): at most one Cartridge cluster is
\* ever started, over all retries, lost replies and restarts of instances.
NoSplitBrain ==
  \A b, c \in Brains : servers[b] # {} /\ servers[c] # {} => b = c

\* vshard is bootstrapped only in a Cartridge cluster that holds every pod of
\* every Role: a later storage replicaset would start without buckets.  The
\* Cluster worker knows it only from cached phases of the Roles.
BootstrapsCompleteCluster ==
  [][\A b \in vshard' \ vshard : servers[b] = Pods]_formationVars

\* A Cluster marked bootstrapped has a bootstrapped vshard, in the Cartridge
\* cluster its leader belongs to.
BootstrappedMeansBootstrapped ==
  stored.bootstrapped => disk[stored.leader] \in vshard

\* A Role is reported past its joining only while its pods are in a topology.
ReportedRolesJoined ==
  \A r \in Roles : rolePhase[r] # "Progressing" =>
    \A p \in PodsOf(r) : \E b \in Brains : p \in servers[b]

\* What the properties rest on.  A pod with a configuration is in the topology
\* it names; a phase past joining, stored, cached, acted upon by a Cluster worker
\* or about to be reported by a Role worker, is true.
Members == UNION {servers[b] : b \in Brains}

MembershipInv ==
  /\ \A p \in Pods : inst[p] \in InstStates
  /\ \A p \in Pods : inst[p] = "Configured" => disk[p] # NoBrain
  /\ \A p \in Pods : disk[p] # NoBrain => p \in servers[disk[p]]
  /\ \A r \in Roles : rolePhase[r] # "Progressing" => PodsOf(r) \subseteq Members
  /\ \A r \in Roles : roleCache[r] # "Progressing" => PodsOf(r) \subseteq Members
  /\ \A w \in RoleWorkers : stage[w] # "ready" => pc[w] = "lead"
  /\ \A w \in RoleWorkers :
       stage[w] = "joining" => PodsOf(job[w]) \ left[w] \subseteq Members
  /\ \A w \in ClusterWorkers :
       pc[w] \in {"scan", "save", "lead"} => Pods \subseteq Members

\* If all disks are persistent: once a Cartridge cluster is started, every leader
\* a worker may still use, or write, has a configuration, so that none is taken
\* for a pod that could start another one.
Configured(p) == p \in Pods /\ disk[p] # NoBrain

LeadersConfigured ==
  Members # {} =>
    /\ Configured(stored.leader)
    /\ cache.leader = NoPod \/ Configured(cache.leader)
    /\ \A w \in Workers : pc[w] \in {"load", "scan", "lead"} =>
         copy[w].leader = NoPod \/ Configured(copy[w].leader)

BrainInv ==
  /\ NoSplitBrain
  /\ LeadersConfigured
  /\ \A w \in Workers : pc[w] \in {"save", "finish"} /\ copy[w].bootstrapped =>
       vshard # {} /\ Configured(copy[w].leader)
  /\ stored.bootstrapped => vshard # {}
  /\ \A b \in vshard : servers[b] # {}

FormationInv == FormationTypeOK /\ MembershipInv /\ BrainInv

-----------------------------------------------------------------------------
(***************************************************************************)
(* Liveness, once pods stop going down and calls stop failing for reasons  *)
(* of their own.                                                           *)
(***************************************************************************)
FormationDisturbance ==
  \/ \E w \in RoleWorkers : RoleFault(w) /\ ~RoleProgress(w)
  \/ \E w \in ClusterWorkers : ClusterFault(w) /\ ~ClusterProgress(w)
  \/ \E p \in Pods : PodDown(p)

FormationLiveSpec ==
  /\ FormationSpec
  /\ \A w \in RoleWorkers :
       /\ WF_formationVars(RoleProgress(w))
       /\ \A r \in Roles : SF_formationVars(RoleStart(w, r))
  /\ \A w \in ClusterWorkers : WF_formationVars(ClusterProgress(w))
  /\ \A p \in Pods : WF_formationVars(PodBoots(p) \/ PodStarts(p) \/ PodConfigures(p))
  /\ \A r \in Roles : WF_formationVars(RoleCacheSync(r))
  /\ WF_formationVars(CachesSync)
  /\ <>[][~FormationDisturbance]_formationVars

\* The cluster is formed in the end: the leader is elected, joins itself,
\* joins the others, the Roles' phases let the Cluster bootstrap vshard, and
\* every Role becomes ready after it.
EventuallyReady == <>(\A r \in Roles : rolePhase[r] = "Ready")
=============================================================================
