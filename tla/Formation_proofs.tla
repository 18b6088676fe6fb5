-------------------------- MODULE Formation_proofs ---------------------------
(***************************************************************************)
(* Proofs about Formation for every set of Roles, pods, brains and workers *)
(* of the Role and Cluster controllers: it refines Election, the phases of *)
(* the Roles are true, and, if all disks are persistent, one Cartridge     *)
(* cluster is started at most and only a complete one is bootstrapped.     *)
(***************************************************************************)
EXTENDS Formation, Election_proofs

\* A step of the election by one worker.
Moves(w) == Progress(w) \/ Fault(w)

-----------------------------------------------------------------------------
(* Every step of Formation is a step of Election, or leaves its variables  *)
(* alone.                                                                  *)

\* A step of a worker of the Role controller.
LEMMA RoleMoves ==
  ASSUME NEW w \in RoleWorkers, RoleProgress(w) \/ RoleFault(w)
  PROVE  Moves(w) \/ UNCHANGED vars
<1>1. CASE \E r \in Roles : RoleStart(w, r)
  BY <1>1 DEF RoleStart, Moves, Progress
<1>2. CASE UpToLeader(w, Progress(w)) \/ UpToLeader(w, Fault(w))
  BY <1>2 DEF UpToLeader, Moves
<1>3. CASE LeadDone(w) \/ Crash(w)
  BY <1>3 DEF Moves, Progress, Fault
<1>4. CASE CartridgeReady(w) \/ CartridgeNotReady(w) \/ RoleIncomplete(w)
           \/ RoleDone(w) \/ RoleFailure(w)
  BY <1>3, <1>4 DEF CartridgeReady, CartridgeNotReady, RoleIncomplete,
                    RoleDone, RoleFailure, EndRole, EndRoleUnsaved
<1>5. CASE \E p \in left[w] :
             \/ JoinPodDown(w, p) \/ JoinAlready(w, p) \/ JoinLeaderFirst(w, p)
             \/ Joined(w, p) \/ JoinError(w, p) \/ JoinReplyLost(w, p)
  BY <1>3, <1>5 DEF JoinPodDown, JoinAlready, JoinLeaderFirst, Joined, Visited,
                    JoinError, JoinReplyLost, EndRole
<1>6. QED
  BY <1>1, <1>2, <1>4, <1>5 DEF RoleProgress, RoleFault

\* A step of a worker of the Cluster controller.
LEMMA ClusterMoves ==
  ASSUME NEW w \in ClusterWorkers, ClusterProgress(w) \/ ClusterFault(w)
  PROVE  Moves(w)
BY DEF ClusterProgress, ClusterFault, ClusterStart, WaitForRoles,
       ClusterElection, BootstrapSucceeds, BootstrapReplyLost, BootstrapFails,
       ClusterDone, ClusterCrash, Moves, Progress, Fault

\* A step in the life of a pod.
LEMMA PodMoves ==
  ASSUME NEW p \in Pods,
         PodDown(p) \/ PodBoots(p) \/ PodStarts(p) \/ PodConfigures(p)
  PROVE  PodChange(p)
BY DEF PodDown, PodBoots, PodStarts, PodConfigures, PodStep, PodChange

\* All steps.
LEMMA StepMoves == [FormationNext]_formationVars => [Next]_vars
<1> SUFFICES ASSUME FormationNext PROVE [Next]_vars
  BY DEF formationVars
<1>1. CASE \E w \in RoleWorkers : RoleProgress(w) \/ RoleFault(w)
  BY <1>1, RoleMoves DEF Next, Moves, Workers
<1>2. CASE \E w \in ClusterWorkers : ClusterProgress(w) \/ ClusterFault(w)
  BY <1>2, ClusterMoves DEF Next, Moves, Workers
<1>3. CASE \E p \in Pods : PodDown(p) \/ PodBoots(p) \/ PodStarts(p) \/ PodConfigures(p)
  BY <1>3, PodMoves DEF Next
<1>4. CASE (\E r \in Roles : RoleCacheSync(r)) \/ CachesSync
  BY <1>4 DEF RoleCacheSync, CachesSync, Next
<1>5. QED
  BY <1>1, <1>2, <1>3, <1>4 DEF FormationNext

(* Formation implements Election: what is proved of the election holds     *)
(* while the cluster is formed.                                            *)
THEOREM FormationElects == FormationSpec => Spec
BY StepMoves, PTL DEF FormationSpec, FormationInit, Spec

\* A step of the election changes the memory of one worker, and gets past "load"
\* only from there.
LEMMA MoveEffect ==
  ASSUME TypeOK, NEW w \in Workers, Moves(w)
  PROVE  /\ OnlyWorker(w) /\ inst' = inst
         /\ pc'[w] \in {"scan", "save", "lead"} => pc[w] \in {"load", "scan", "save", "lead"}
<1>1. CASE EndReconcile(w) /\ inst' = inst
  BY <1>1, EndEffect
<1>2. CASE Idle(w) /\ inst' = inst
  BY <1>2, IdleEffect
<1>3. CASE Start(w) \/ Load(w)
  BY <1>1, <1>3 DEF Start, Load, LoadNotElected, LoadUnavailable, LoadReady,
                    LoadNotReady, TypeOK, OnlyWorker, ControlPoints
<1>4. CASE Scan(w)
  BY <1>1, <1>4 DEF Scan, ScanSkip, ScanFound, ScanUnreachable, ScanNoAvailableLeader,
                    TypeOK, OnlyWorker, ControlPoints
<1>5. CASE SaveAccepted(w) \/ MarkBootstrapped(w) \/ SaveReplyLost(w)
  BY <1>2, <1>5 DEF SaveAccepted, MarkBootstrapped, SaveReplyLost, TypeOK, OnlyWorker,
                    ControlPoints
<1>6. QED
  BY <1>1, <1>2, <1>3, <1>4, <1>5
     DEF Moves, Progress, Fault, SaveConflict, LeadDone, FinishConflict,
         FinishUnchanged, FinishAccepted, StopEarly, LoadProbeError,
         ScanProbeError, SaveRequestLost, FinishPhase, Crash

-----------------------------------------------------------------------------
(* Types and membership.                                                   *)

\* What every lemma of this part assumes of the state.
Sound == ElectionInv /\ FormationTypeOK /\ MembershipInv

\* The part of the invariant that is about the instances, and that topologies
\* only grow.
InstancesKept ==
  /\ disk' \in [Pods -> Brains \cup {NoBrain}]
  /\ servers' \in [Brains -> SUBSET Pods]
  /\ vshard' \subseteq Brains
  /\ \A p \in Pods : inst'[p] \in InstStates
  /\ \A p \in Pods : inst'[p] = "Configured" => disk'[p] # NoBrain
  /\ \A p \in Pods : disk'[p] # NoBrain => p \in servers'[disk'[p]]
  /\ \A b \in Brains : servers[b] \subseteq servers'[b]

\* A pod is of a Role.
LEMMA PodOfRole == ASSUME NEW p \in Pods PROVE p[1] \in Roles /\ p \in PodsOf(p[1])
<1>1. PICK r \in Roles : p \in {<<r, s, o>> : s \in 0 .. Replicasets[r] - 1,
                                              o \in 0 .. Replicas[r] - 1}
  BY DEF Pods
<1>2. p[1] = r
  BY <1>1
<1>3. QED
  BY <1>1, <1>2 DEF PodsOf

\* Who is a member stays one.
LEMMA MembersGrow == ASSUME InstancesKept PROVE Members \subseteq Members'
BY DEF InstancesKept, Members

\* The leader of a worker past GetLeader is a pod.
LEMMA LeaderIsPod ==
  ASSUME Sound, NEW w \in Workers, pc[w] = "lead"
  PROVE  copy[w].leader \in Pods /\ copy[w].leader # NoPod
BY DEF Sound, ElectionInv, TypeOK, Status, CopyInv

\* A step that leaves the instances alone.
LEMMA InstancesSame ==
  ASSUME Sound, UNCHANGED <<instanceVars, inst>>
  PROVE  InstancesKept
BY DEF Sound, FormationTypeOK, MembershipInv, InstancesKept, instanceVars

\* What a pod that joins comes to belong to: a new Cartridge cluster, if it is
\* the leader, or that of the leader.
LEMMA JoinEffect ==
  ASSUME Sound, NEW w \in RoleWorkers, NEW p \in left[w], Join(w, p)
  PROVE  /\ p \in Pods /\ disk[p] = NoBrain /\ pc[w] = "lead" /\ vshard' = vshard
         /\ inst[p] = "Started"
         /\ \E b \in Brains :
              /\ servers' = [servers EXCEPT ![b] = servers[b] \cup {p}]
              /\ disk' = [disk EXCEPT ![p] = b]
              /\ \/ servers[b] = {} /\ p = copy[w].leader
                 \/ p # copy[w].leader /\ inst[copy[w].leader] = "Configured"
                    /\ disk[copy[w].leader] = b
<1>1. p \in Pods /\ pc[w] = "lead"
  BY DEF Sound, FormationTypeOK, Join, JoinSelf, JoinThroughLeader, NextToJoin
<1>2. CASE JoinSelf(w, p)
  BY <1>1, <1>2 DEF JoinSelf
<1>3. CASE JoinThroughLeader(w, p)
  <2>1. disk[copy[w].leader] \in Brains
    BY <1>1, <1>3, LeaderIsPod
       DEF JoinThroughLeader, Sound, FormationTypeOK, MembershipInv, Workers
  <2>2. QED
    BY <1>1, <1>3, <2>1 DEF JoinThroughLeader, Sound, FormationTypeOK
<1>4. QED
  BY <1>2, <1>3 DEF Join

\* It is a member then, and the others stay what they are.
LEMMA JoinKeeps ==
  ASSUME Sound, NEW w \in RoleWorkers, NEW p \in left[w], Join(w, p), inst' = inst
  PROVE  InstancesKept /\ p \in Members'
<1>1. PICK b \in Brains : /\ servers' = [servers EXCEPT ![b] = servers[b] \cup {p}]
                          /\ disk' = [disk EXCEPT ![p] = b]
  BY JoinEffect
<1>2. p \in Pods /\ vshard' = vshard
  BY JoinEffect
<1>3. InstancesKept
  BY <1>1, <1>2, FormationAssumption
     DEF Sound, FormationTypeOK, MembershipInv, InstancesKept
<1>4. p \in servers'[b]
  BY <1>1 DEF Sound, FormationTypeOK
<1>5. QED
  BY <1>3, <1>4 DEF Members

\* The bootstrap is that of the Cartridge cluster of a leader that is a member.
LEMMA BootstrapEffect ==
  ASSUME Sound, NEW w \in ClusterWorkers, pc[w] = "lead", BootstrapVshard(w)
  PROVE  \E b \in Brains : /\ b = disk[copy[w].leader] /\ copy[w].leader \in servers[b]
                           /\ copy[w].leader \in Pods
                           /\ vshard' = vshard \cup {b}
                           /\ UNCHANGED <<disk, servers>>
BY LeaderIsPod DEF BootstrapVshard, Sound, FormationTypeOK, MembershipInv, Workers

\* A worker may say that a Role is past joining if its pods are members.
Truthful(phase, r) == phase # "Progressing" => PodsOf(r) \subseteq Members

PhaseWritten(w) ==
  \/ UNCHANGED phaseVars
  \/ \E phase \in RolePhases : WritePhase(w, phase) /\ Truthful(phase, job[w])

\* The phases written by a Role worker are true.
LEMMA PhasesKept ==
  ASSUME Sound, InstancesKept, NEW w \in RoleWorkers, PhaseWritten(w)
  PROVE  /\ rolePhase' \in [Roles -> RolePhases] /\ roleCache' \in [Roles -> RolePhases]
         /\ \A r \in Roles : rolePhase'[r] # "Progressing" => PodsOf(r) \subseteq Members'
         /\ \A r \in Roles : roleCache'[r] # "Progressing" => PodsOf(r) \subseteq Members'
BY MembersGrow
   DEF Sound, FormationTypeOK, MembershipInv, PhaseWritten, WritePhase, Truthful, phaseVars

\* Cluster workers remember the truth.
LEMMA ClustersKept ==
  ASSUME Sound, InstancesKept, NEW v \in ClusterWorkers, pc'[v] = pc[v]
  PROVE  pc'[v] \in {"scan", "save", "lead"} => Pods \subseteq Members'
BY MembersGrow DEF Sound, MembershipInv

\* So do the other Role workers, while one changes its own memory.
OnlyJob(w) ==
  /\ job' \in [RoleWorkers -> Roles \cup {NoRole}]
  /\ left' \in [RoleWorkers -> SUBSET Pods]
  /\ stage' \in [RoleWorkers -> Stages]
  /\ \A v \in RoleWorkers \ {w} :
       job'[v] = job[v] /\ left'[v] = left[v] /\ stage'[v] = stage[v]

\* The instances and phases change, and one Role worker visits its pods.
LEMMA RolesKept ==
  ASSUME Sound, InstancesKept, NEW w \in RoleWorkers, OnlyJob(w), OnlyWorker(w),
         PhaseWritten(w),
         stage'[w] # "ready" => pc'[w] = "lead",
         stage'[w] = "joining" => PodsOf(job'[w]) \ left'[w] \subseteq Members'
  PROVE  FormationTypeOK' /\ MembershipInv'
<1>1. \A v \in RoleWorkers :
        /\ stage'[v] # "ready" => pc'[v] = "lead"
        /\ stage'[v] = "joining" => PodsOf(job'[v]) \ left'[v] \subseteq Members'
  BY MembersGrow DEF Sound, MembershipInv, OnlyJob, OnlyWorker, Workers
<1>2. \A v \in ClusterWorkers : pc'[v] = pc[v]
  BY ElectionAssumption DEF OnlyWorker, Workers
<1>3. \A v \in ClusterWorkers : pc'[v] \in {"scan", "save", "lead"} => Pods \subseteq Members'
  BY <1>2, ClustersKept
<1>4. FormationTypeOK'
  BY PhasesKept DEF FormationTypeOK, InstancesKept, OnlyJob
<1>5. QED
  BY <1>1, <1>3, <1>4, PhasesKept DEF MembershipInv, InstancesKept, PodsOf

\* A Role worker that lets go of its Role.
LEMMA Released ==
  ASSUME Sound, InstancesKept, NEW w \in RoleWorkers, OnlyWorker(w), Release(w),
         PhaseWritten(w)
  PROVE  FormationTypeOK' /\ MembershipInv'
<1>1. OnlyJob(w) /\ stage'[w] = "ready"
  BY DEF Release, OnlyJob, Sound, FormationTypeOK, Stages
<1>2. QED
  BY <1>1, RolesKept

\* Visiting a pod: only a member counts as joined.
LEMMA VisitKept ==
  ASSUME Sound, InstancesKept, NEW w \in RoleWorkers, NEW p \in left[w],
         NEW joined \in BOOLEAN, Visited(w, p, joined), pc[w] = "lead",
         joined => p \in Members'
  PROVE  FormationTypeOK' /\ MembershipInv'
<1>1. OnlyJob(w) /\ OnlyWorker(w) /\ PhaseWritten(w) /\ pc'[w] = "lead"
  BY DEF Visited, OnlyJob, OnlyWorker, PhaseWritten, Sound, FormationTypeOK, Stages, vars
<1>2. /\ job'[w] = job[w] /\ left'[w] = left[w] \ {p}
      /\ stage'[w] = "joining" => joined /\ stage[w] = "joining"
  BY DEF Visited, Sound, FormationTypeOK, Stages
<1>3. stage'[w] = "joining" => PodsOf(job'[w]) \ left'[w] \subseteq Members'
  BY <1>2, MembersGrow DEF Sound, MembershipInv
<1>4. QED
  BY <1>1, <1>3, RolesKept

\* Every step of a Role worker keeps types and membership.
LEMMA RoleStep ==
  ASSUME Sound, NEW w \in RoleWorkers, RoleProgress(w) \/ RoleFault(w)
  PROVE  FormationTypeOK' /\ MembershipInv'
<1>1. w \in Workers /\ TypeOK /\ inst' = inst
  <2>1. w \in Workers /\ TypeOK
    BY DEF Workers, Sound, ElectionInv
  <2>2. QED
    BY <2>1, RoleMoves, MoveEffect DEF vars
<1>2. OnlyWorker(w)
  BY <1>1, RoleMoves, MoveEffect DEF vars, OnlyWorker
<1>3. CASE \E r \in Roles : RoleStart(w, r)
  <2>1. PICK r \in Roles : RoleStart(w, r)
    BY <1>3
  <2>2. stage[w] = "ready"
    BY <2>1 DEF RoleStart, Start, Sound, MembershipInv, FormationTypeOK, Stages
  <2>3. OnlyJob(w) /\ PhaseWritten(w) /\ stage'[w] = "ready"
    BY <2>1, <2>2 DEF RoleStart, OnlyJob, PhaseWritten, joinVars, Sound, FormationTypeOK
  <2>4. InstancesKept
    BY <1>1, <2>1, InstancesSame DEF RoleStart
  <2>5. QED
    BY <1>2, <2>3, <2>4, RolesKept
<1>4. CASE UpToLeader(w, Progress(w)) \/ UpToLeader(w, Fault(w))
  <2>1. InstancesKept /\ pc[w] \in {"load", "scan", "save"}
    BY <1>1, <1>4, InstancesSame DEF UpToLeader
  <2>2. CASE pc'[w] = "idle"
    <3>1. WritePhase(w, "Progressing") /\ Release(w)
      BY <1>4, <2>2 DEF UpToLeader
    <3>2. PhaseWritten(w)
      BY <3>1 DEF PhaseWritten, Truthful, RolePhases
    <3>3. QED
      BY <1>2, <2>1, <3>1, <3>2, Released
  <2>3. CASE pc'[w] # "idle"
    <3>1. UNCHANGED <<phaseVars, job, joinVars>>
      BY <1>4, <2>3 DEF UpToLeader
    <3>2. stage[w] = "ready"
      BY <2>1 DEF Sound, MembershipInv, FormationTypeOK, Stages
    <3>3. OnlyJob(w) /\ PhaseWritten(w) /\ stage'[w] = "ready"
      BY <3>1, <3>2 DEF OnlyJob, PhaseWritten, joinVars, Sound, FormationTypeOK
    <3>4. QED
      BY <1>2, <2>1, <3>3, RolesKept
  <2>4. QED
    BY <2>2, <2>3
<1>5. CASE \/ CartridgeNotReady(w) \/ RoleIncomplete(w) \/ RoleDone(w) \/ RoleFailure(w)
           \/ \E p \in left[w] : JoinError(w, p)
  <2>1. InstancesKept /\ Release(w)
    BY <1>1, <1>5, InstancesSame
       DEF CartridgeNotReady, RoleIncomplete, RoleDone, RoleFailure, JoinError,
           EndRole, EndRoleUnsaved
  <2>2. PhaseWritten(w)
    <3>1. CASE RoleDone(w)
      <4>1. PodsOf(job[w]) \subseteq Members
        BY <3>1 DEF RoleDone, Sound, MembershipInv
      <4>2. QED
        BY <3>1, <4>1 DEF RoleDone, EndRole, PhaseWritten, Truthful, RolePhases
    <3>2. CASE ~RoleDone(w)
      <4>1. WritePhase(w, "Progressing") \/ UNCHANGED phaseVars
        BY <1>5, <3>2 DEF CartridgeNotReady, RoleIncomplete, RoleFailure, JoinError,
                          EndRole, EndRoleUnsaved
      <4>2. QED
        BY <4>1 DEF PhaseWritten, Truthful, RolePhases
    <3>3. QED
      BY <3>1, <3>2
  <2>3. QED
    BY <1>2, <2>1, <2>2, Released
<1>6. CASE CartridgeReady(w)
  <2>1. InstancesKept
    BY <1>1, <1>6, InstancesSame DEF CartridgeReady
  <2>2. OnlyJob(w) /\ PhaseWritten(w)
    BY <1>6 DEF CartridgeReady, OnlyJob, PhaseWritten, Sound, FormationTypeOK, Stages,
                PodsOf
  <2>3. pc'[w] = "lead" /\ job'[w] = job[w] /\ left'[w] = PodsOf(job[w])
    BY <1>6 DEF CartridgeReady, vars, Sound, FormationTypeOK
  <2>4. QED
    BY <1>2, <2>1, <2>2, <2>3, RolesKept
<1>7. CASE \E p \in left[w] : JoinPodDown(w, p) \/ JoinAlready(w, p) \/ JoinLeaderFirst(w, p)
  <2>1. PICK p \in left[w] :
          JoinPodDown(w, p) \/ JoinAlready(w, p) \/ JoinLeaderFirst(w, p)
    BY <1>7
  <2>2. InstancesKept /\ pc[w] = "lead" /\ p \in Pods
    BY <1>1, <2>1, InstancesSame
       DEF JoinPodDown, JoinAlready, JoinLeaderFirst, NextToJoin, Sound, FormationTypeOK
  <2>3. CASE JoinAlready(w, p)
    <3>1. disk[p] # NoBrain
      BY <2>2, <2>3 DEF JoinAlready, MayHaveUUID, Sound, MembershipInv
    <3>2. p \in Members
      BY <2>2, <3>1 DEF Sound, MembershipInv, FormationTypeOK, Members
    <3>3. QED
      BY <2>2, <2>3, <3>2, MembersGrow, VisitKept DEF JoinAlready
  <2>4. CASE JoinPodDown(w, p) \/ JoinLeaderFirst(w, p)
    BY <2>2, <2>4, VisitKept DEF JoinPodDown, JoinLeaderFirst
  <2>5. QED
    BY <2>1, <2>3, <2>4
<1>8. CASE \E p \in left[w] : Joined(w, p)
  <2>1. PICK p \in left[w] : Join(w, p) /\ Visited(w, p, TRUE)
    BY <1>8 DEF Joined
  <2>2. InstancesKept /\ p \in Members' /\ pc[w] = "lead"
    BY <1>1, <2>1, JoinKeeps, JoinEffect
  <2>3. QED
    BY <2>1, <2>2, VisitKept
<1>9. CASE \E p \in left[w] : JoinReplyLost(w, p)
  <2>1. PICK p \in left[w] : Join(w, p) /\ EndRole(w, "Progressing")
    BY <1>9 DEF JoinReplyLost
  <2>2. InstancesKept
    BY <1>1, <2>1, JoinKeeps
  <2>3. PhaseWritten(w) /\ Release(w)
    BY <2>1 DEF EndRole, PhaseWritten, Truthful, RolePhases
  <2>4. QED
    BY <1>2, <2>2, <2>3, Released
<1>10. QED
  BY <1>3, <1>4, <1>5, <1>6, <1>7, <1>8, <1>9 DEF RoleProgress, RoleFault

\* Every step of a Cluster worker keeps them.
LEMMA ClusterStep ==
  ASSUME Sound, NEW w \in ClusterWorkers, ClusterProgress(w) \/ ClusterFault(w)
  PROVE  FormationTypeOK' /\ MembershipInv'
<1>1. w \in Workers /\ TypeOK /\ Moves(w)
  BY ClusterMoves DEF Workers, Sound, ElectionInv
<1>2. /\ inst' = inst /\ OnlyWorker(w)
      /\ pc'[w] \in {"scan", "save", "lead"} => pc[w] \in {"load", "scan", "save", "lead"}
  BY <1>1, MoveEffect
<1>3. UNCHANGED <<phaseVars, job, joinVars>>
  BY DEF ClusterProgress, ClusterFault, ClusterStart, WaitForRoles, ClusterElection,
         BootstrapSucceeds, BootstrapReplyLost, BootstrapVshard, ClusterDone,
         BootstrapFails, ClusterCrash
<1>4. InstancesKept
  <2>1. CASE UNCHANGED instanceVars
    BY <1>2, <2>1, InstancesSame
  <2>2. CASE BootstrapSucceeds(w) \/ BootstrapReplyLost(w)
    <3>1. BootstrapVshard(w) /\ pc[w] = "lead"
      BY <2>2 DEF BootstrapSucceeds, BootstrapReplyLost, MarkBootstrapped, LeadDone
    <3>2. QED
      BY <1>2, <3>1, BootstrapEffect
         DEF InstancesKept, Sound, FormationTypeOK, MembershipInv
  <2>3. QED
    BY <2>1, <2>2
       DEF ClusterProgress, ClusterFault, ClusterStart, WaitForRoles, ClusterElection,
           ClusterDone, BootstrapFails, ClusterCrash
<1>5. pc'[w] \in {"scan", "save", "lead"} => Pods \subseteq Members'
  <2>1. CASE pc[w] = "load" /\ RolesInPhase
    <3>1. \A r \in Roles : PodsOf(r) \subseteq Members
      BY <2>1 DEF RolesInPhase, AllRolesAtPhase, Sound, MembershipInv
    <3>2. QED
      BY <1>4, <3>1, PodOfRole, MembersGrow
  <2>2. CASE pc[w] \in {"scan", "save", "lead"}
    BY <1>4, <2>2, MembersGrow DEF Sound, MembershipInv
  <2>3. CASE pc[w] = "load" /\ ~RolesInPhase
    <3>1. WaitForRoles(w) \/ ClusterCrash(w)
      BY <2>3 DEF ClusterProgress, ClusterFault, ClusterStart, Start, ClusterElection,
                  BootstrapSucceeds, MarkBootstrapped, BootstrapReplyLost, ClusterDone,
                  BootstrapFails, LeadDone
    <3>2. pc'[w] \notin {"scan", "save", "lead"}
      BY <1>1, <3>1 DEF WaitForRoles, StopEarly, ClusterCrash, Crash, EndReconcile,
                        Idle, TypeOK
    <3>3. QED
      BY <3>2
  <2>4. QED
    BY <1>2, <2>1, <2>2, <2>3
<1>6. \A v \in ClusterWorkers : pc'[v] \in {"scan", "save", "lead"} => Pods \subseteq Members'
  BY <1>2, <1>4, <1>5, ClustersKept DEF OnlyWorker, Workers
<1>7. \A v \in RoleWorkers : pc'[v] = pc[v]
  BY <1>2, ElectionAssumption DEF OnlyWorker, Workers
<1>8. FormationTypeOK'
  BY <1>3, <1>4 DEF FormationTypeOK, InstancesKept, Sound, phaseVars, joinVars
<1>9. Members \subseteq Members'
  BY <1>4, MembersGrow
<1>10. QED
  BY <1>3, <1>4, <1>6, <1>7, <1>8, <1>9
     DEF MembershipInv, Sound, InstancesKept, PodsOf, phaseVars, joinVars

\* So do the pods, the deliveries and steps that change nothing.
LEMMA SurroundingsStep ==
  ASSUME Sound,
         \/ \E p \in Pods : PodDown(p) \/ PodBoots(p) \/ PodStarts(p) \/ PodConfigures(p)
         \/ \E r \in Roles : RoleCacheSync(r)
         \/ CachesSync
         \/ UNCHANGED formationVars
  PROVE  FormationTypeOK' /\ MembershipInv'
<1>1. ASSUME NEW p \in Pods,
             PodDown(p) \/ PodBoots(p) \/ PodStarts(p) \/ PodConfigures(p)
      PROVE  FormationTypeOK' /\ MembershipInv'
  <2>1. /\ UNCHANGED <<pc, rolePhase, roleCache, job, left, stage, servers, vshard>>
        /\ disk' = disk \/ disk' = [disk EXCEPT ![p] = NoBrain]
        /\ \E s \in InstStates : inst' = [inst EXCEPT ![p] = s]
    BY <1>1 DEF PodDown, PodBoots, PodStarts, PodConfigures, PodStep, workerVars,
                phaseVars, joinVars
  <2>2. inst'[p] = "Configured" => disk'[p] # NoBrain
    <3>1. CASE PodConfigures(p)
      BY <3>1 DEF PodConfigures
    <3>2. CASE ~PodConfigures(p)
      <4>1. \E s \in InstStates \ {"Configured"} : inst' = [inst EXCEPT ![p] = s]
        BY <1>1, <3>2 DEF PodDown, PodBoots, PodStarts, PodStep
      <4>2. QED
        BY <4>1 DEF Sound, ElectionInv, TypeOK
    <3>3. QED
      BY <3>1, <3>2
  <2>3. FormationTypeOK'
    BY <2>1 DEF Sound, FormationTypeOK
  <2>4. \A q \in Pods :
          /\ inst'[q] \in InstStates
          /\ inst'[q] = "Configured" => disk'[q] # NoBrain
          /\ disk'[q] # NoBrain => disk'[q] = disk[q]
    BY <2>1, <2>2 DEF Sound, ElectionInv, TypeOK, FormationTypeOK, MembershipInv
  <2>5. InstancesKept
    <3>1. servers' = servers
      BY <2>1
    <3>2. ASSUME NEW q \in Pods, disk'[q] # NoBrain
          PROVE  q \in servers'[disk'[q]]
      <4>1. disk'[q] = disk[q]
        BY <2>4, <3>2
      <4>2. q \in servers[disk[q]]
        BY <3>2, <4>1 DEF Sound, MembershipInv
      <4>3. QED
        BY <3>1, <4>1, <4>2
    <3>3. /\ disk' \in [Pods -> Brains \cup {NoBrain}]
          /\ servers' \in [Brains -> SUBSET Pods] /\ vshard' \subseteq Brains
      BY <2>3 DEF FormationTypeOK
    <3>4. QED
      BY <2>4, <3>1, <3>2, <3>3 DEF InstancesKept
  <2>6. Members \subseteq Members'
    BY <2>5, MembersGrow
  <2>7. /\ rolePhase' = rolePhase /\ roleCache' = roleCache /\ stage' = stage
        /\ pc' = pc /\ job' = job /\ left' = left
    BY <2>1
  <2>8. QED
    BY <2>3, <2>5, <2>6, <2>7 DEF Sound, InstancesKept, MembershipInv, PodsOf
<1>2. ASSUME NEW r \in Roles, RoleCacheSync(r)
      PROVE  FormationTypeOK' /\ MembershipInv'
  BY <1>2 DEF RoleCacheSync, vars, instanceVars, joinVars, Sound, FormationTypeOK,
              MembershipInv, Members, PodsOf
<1>3. CASE CachesSync
  BY <1>3 DEF CachesSync, CacheSync, workerVars, instanceVars, phaseVars, joinVars,
              Sound, FormationTypeOK, MembershipInv, Members, PodsOf
<1>4. CASE UNCHANGED formationVars
  BY <1>4 DEF formationVars, vars, instanceVars, phaseVars, joinVars, Sound,
              FormationTypeOK, MembershipInv, Members, PodsOf
<1>5. QED
  BY <1>1, <1>2, <1>3, <1>4

\* Every step keeps the three invariants together.
LEMMA SoundStep == Sound /\ [FormationNext]_formationVars => Sound'
<1> SUFFICES ASSUME Sound, [FormationNext]_formationVars PROVE Sound'
  OBVIOUS
<1>1. ElectionInv'
  BY StepMoves, NextInv DEF Sound
<1>2. FormationTypeOK' /\ MembershipInv'
  BY RoleStep, ClusterStep, SurroundingsStep DEF FormationNext
<1>3. QED
  BY <1>1, <1>2 DEF Sound

\* They hold initially.
LEMMA SoundInit == FormationInit => Sound
<1> SUFFICES ASSUME FormationInit PROVE Sound
  OBVIOUS
<1>1. ElectionInv
  BY InitInv DEF FormationInit
<1>2. FormationTypeOK
  BY DEF FormationInit, FormationTypeOK, RolePhases, Stages
<1>3. MembershipInv
  BY ElectionAssumption, FormationAssumption
     DEF FormationInit, Init, MembershipInv, Workers
<1>4. QED
  BY <1>1, <1>2, <1>3 DEF Sound

(* Every variable keeps its type, and membership what it says.             *)
THEOREM SoundAlways == FormationSpec => []Sound
BY SoundInit, SoundStep, PTL DEF FormationSpec

(* A Role is never reported past its joining while one of its pods is not  *)
(* in a topology, whether the disks are persistent or not.                 *)
THEOREM RolesJoined == FormationSpec => []ReportedRolesJoined
<1>1. Sound => ReportedRolesJoined
  BY DEF Sound, MembershipInv, ReportedRolesJoined, Members, PodsOf
<1>2. QED
  BY <1>1, SoundAlways, PTL

-----------------------------------------------------------------------------
(* One brain, if all disks are persistent.                                 *)

\* A leader that cannot start a Cartridge cluster.
Harmless(l) == l = NoPod \/ Configured(l)

\* If anything is bootstrapped there is a member.
LEMMA BootstrappedFounded ==
  ASSUME Sound, BrainInv, vshard # {}
  PROVE  Members # {}
BY DEF Sound, FormationTypeOK, BrainInv, Members

\* What BrainInv says of the memory of one worker.
MemoryHarmless(w) ==
  /\ pc[w] \in {"load", "scan", "lead"} /\ Members # {} => Harmless(copy[w].leader)
  /\ pc[w] \in {"save", "finish"} /\ copy[w].bootstrapped =>
       vshard # {} /\ Configured(copy[w].leader)

\* The status is as it was, or is now the copy of a worker.
StatusHarmless(w) ==
  \/ UNCHANGED apiVars
  \/ /\ stored' = copy[w] /\ cache' = cache
     /\ Members # {} => Configured(copy[w].leader)
     /\ copy[w].bootstrapped => vshard # {}

\* A step of one worker that forms nothing.
LEMMA HarmlessStep ==
  ASSUME Sound, BrainInv, NEW w \in Workers, OnlyWorker(w),
         UNCHANGED <<disk, servers>>, vshard \subseteq vshard',
         \A b \in vshard' : servers[b] # {},
         StatusHarmless(w), MemoryHarmless(w)'
  PROVE  BrainInv'
<1>1. /\ Members' = Members /\ NoSplitBrain'
      /\ \A l : Configured(l)' <=> Configured(l)
  BY DEF Members, Configured, BrainInv, NoSplitBrain
<1>2. Members # {} => Configured(stored'.leader) /\ Harmless(cache'.leader)
  BY DEF StatusHarmless, BrainInv, LeadersConfigured, Harmless, apiVars
<1>3. \A v \in Workers : MemoryHarmless(v)'
  <2>1. SUFFICES ASSUME NEW v \in Workers \ {w} PROVE MemoryHarmless(v)'
    OBVIOUS
  <2>2. MemoryHarmless(v) /\ pc'[v] = pc[v] /\ copy'[v] = copy[v]
    BY DEF OnlyWorker, BrainInv, LeadersConfigured, MemoryHarmless, Harmless
  <2>3. QED
    BY <1>1, <2>2 DEF MemoryHarmless, Harmless
<1>4. stored'.bootstrapped => vshard' # {}
  BY DEF StatusHarmless, BrainInv, apiVars
<1>5. LeadersConfigured'
  BY <1>1, <1>2, <1>3 DEF LeadersConfigured, MemoryHarmless, Harmless
<1>6. QED
  BY <1>1, <1>3, <1>4, <1>5 DEF BrainInv, MemoryHarmless

\* What a worker knows when it writes: whatever it elected, the leader of a
\* cluster that has been started is configured.
LEMMA WriteHarmless ==
  ASSUME Sound, BrainInv, NEW w \in Workers, pc[w] \in {"save", "finish"}, fresh[w]
  PROVE  /\ Members # {} => Configured(copy[w].leader)
         /\ copy[w].bootstrapped => vshard # {}
<1>1. CopyInv(w) /\ NoPod \notin Pods
  BY ElectionAssumption DEF Sound, ElectionInv
<1>2. copy[w].bootstrapped => vshard # {} /\ Configured(copy[w].leader)
  BY DEF BrainInv
<1>3. ASSUME Members # {}, ~copy[w].bootstrapped PROVE Configured(copy[w].leader)
  <2>1. Configured(stored.leader) /\ stored.leader # NoPod
    BY <1>1, <1>3 DEF BrainInv, LeadersConfigured, Configured
  <2>2. copy[w].leader = stored.leader
    BY <1>1, <1>3, <2>1 DEF CopyInv
  <2>3. QED
    BY <2>1, <2>2
<1>4. QED
  BY <1>2, <1>3

\* What a worker may keep when it ends a reconcile.
LEMMA EndHarmless ==
  ASSUME Sound, BrainInv, NEW w \in Workers, copy[w].bootstrapped,
         pc[w] \in {"load", "scan", "save", "lead"}
  PROVE  vshard # {} /\ Configured(copy[w].leader)
<1>1. CASE pc[w] = "save"
  BY <1>1 DEF BrainInv
<1>2. CASE pc[w] \in {"load", "scan", "lead"}
  <2>1. stored.bootstrapped /\ copy[w].leader # NoPod
    BY <1>2 DEF Sound, ElectionInv, CopyInv, Earlier
  <2>2. vshard # {}
    BY <2>1 DEF BrainInv
  <2>3. QED
    BY <1>2, <2>1, <2>2, BootstrappedFounded DEF BrainInv, LeadersConfigured
<1>3. QED
  BY <1>1, <1>2

\* A step of the election, alone or with the bootstrap.
LEMMA MoveHarmless ==
  ASSUME Sound, BrainInv, NEW w \in Workers, Moves(w),
         UNCHANGED <<disk, servers>>, vshard \subseteq vshard',
         \A b \in vshard' : servers[b] # {},
         MarkBootstrapped(w) => vshard' # {} /\ Configured(copy[w].leader)
  PROVE  BrainInv'
<1> DEFINE Kept == vshard # {} => vshard' # {}
<1>1. TypeOK /\ OnlyWorker(w) /\ Members' = Members /\ Kept
      /\ \A l : Configured(l)' <=> Configured(l)
  BY MoveEffect DEF Sound, ElectionInv, Members, Configured
<1>2. MemoryHarmless(w)
  BY DEF BrainInv, LeadersConfigured, MemoryHarmless, Harmless
<1>3. CASE EndReconcile(w) /\ UNCHANGED apiVars /\ pc[w] \in {"load", "scan", "save", "lead"}
  <2>1. MemoryHarmless(w)'
    BY <1>1, <1>3, EndEffect, EndHarmless DEF MemoryHarmless
  <2>2. QED
    BY <1>1, <1>3, <2>1, HarmlessStep DEF StatusHarmless
<1>4. CASE Idle(w) /\ UNCHANGED apiVars
  <2>1. MemoryHarmless(w)'
    BY <1>1, <1>4, IdleEffect DEF MemoryHarmless
  <2>2. QED
    BY <1>1, <1>4, <2>1, HarmlessStep DEF StatusHarmless
<1>5. CASE Start(w)
  <2>1. pc'[w] = "load" /\ copy'[w] = cache /\ UNCHANGED apiVars
    BY <1>1, <1>5 DEF Start, TypeOK
  <2>2. MemoryHarmless(w)'
    BY <1>1, <2>1 DEF MemoryHarmless, BrainInv, LeadersConfigured, Harmless
  <2>3. QED
    BY <1>1, <2>1, <2>2, HarmlessStep DEF StatusHarmless
<1>6. CASE Load(w)
  <2>1. CASE /\ pc[w] = "load" /\ pc'[w] \in {"scan", "lead"} /\ copy' = copy
             /\ UNCHANGED apiVars
    <3>1. MemoryHarmless(w)'
      BY <1>1, <1>2, <2>1 DEF MemoryHarmless, Harmless
    <3>2. QED
      BY <1>1, <2>1, <3>1, HarmlessStep DEF StatusHarmless
  <2>2. QED
    BY <1>1, <1>3, <1>6, <2>1
       DEF Load, LoadNotElected, LoadUnavailable, LoadReady, LoadNotReady, TypeOK
<1>7. CASE \E p \in todo[w] : ScanSkip(w, p)
  <2>1. UNCHANGED <<apiVars, pc, copy>>
    BY <1>7 DEF ScanSkip
  <2>2. MemoryHarmless(w)'
    BY <1>1, <1>2, <2>1 DEF MemoryHarmless, Harmless
  <2>3. QED
    BY <1>1, <2>1, <2>2, HarmlessStep DEF StatusHarmless
<1>8. CASE \E p \in todo[w] : ScanFound(w, p)
  <2>1. PICK p \in todo[w] : ScanFound(w, p)
    BY <1>8
  <2>2. /\ p \in Pods /\ pc[w] = "scan" /\ pc'[w] = "save" /\ UNCHANGED apiVars
        /\ copy'[w].leader = p /\ copy'[w].bootstrapped = copy[w].bootstrapped
    BY <1>1, <2>1 DEF ScanFound, TypeOK, Status
  <2>3. ASSUME copy[w].bootstrapped PROVE vshard # {} /\ Configured(p)
    <3>1. inst[p] = "Configured"
      BY <2>1, <2>2, <2>3, FormationAssumption
         DEF ScanFound, CanBeLeader, IsCartridgeConfigured, Sound, MembershipInv
    <3>2. QED
      BY <2>2, <2>3, <3>1, EndHarmless DEF Sound, MembershipInv, Configured
  <2>4. MemoryHarmless(w)'
    BY <1>1, <2>2, <2>3 DEF MemoryHarmless
  <2>5. QED
    BY <1>1, <2>2, <2>4, HarmlessStep DEF StatusHarmless
<1>9. CASE SaveAccepted(w) \/ SaveReplyLost(w) \/ FinishAccepted(w) \/ FinishPhase(w)
  <2>1. /\ pc[w] \in {"save", "finish"} /\ fresh[w] /\ stored' = copy[w] /\ cache' = cache
        /\ \/ pc'[w] = "idle"
           \/ pc'[w] = "lead" /\ copy' = copy
           \/ pc'[w] = "finish" /\ copy' = copy
    BY <1>1, <1>9, IdleEffect
       DEF SaveAccepted, SaveReplyLost, FinishAccepted, FinishPhase, Commit, TypeOK
  <2>2. StatusHarmless(w)
    BY <2>1, WriteHarmless DEF StatusHarmless
  <2>3. MemoryHarmless(w)'
    BY <1>1, <1>2, <2>1, WriteHarmless DEF MemoryHarmless, Harmless
  <2>4. QED
    BY <1>1, <2>2, <2>3, HarmlessStep
<1>10. CASE MarkBootstrapped(w)
  <2>1. /\ pc'[w] = "finish" /\ copy'[w].leader = copy[w].leader /\ UNCHANGED apiVars
    BY <1>1, <1>10 DEF MarkBootstrapped, TypeOK, Status
  <2>2. MemoryHarmless(w)'
    BY <1>1, <1>10, <2>1 DEF MemoryHarmless
  <2>3. QED
    BY <1>1, <2>1, <2>2, HarmlessStep DEF StatusHarmless
<1>11. CASE \/ Scan(w) \/ SaveConflict(w) \/ LeadDone(w) \/ StopEarly(w)
            \/ LoadProbeError(w) \/ SaveRequestLost(w)
            \/ \E p \in todo[w] : ScanProbeError(w, p)
  BY <1>3, <1>7, <1>8, <1>11
     DEF Scan, ScanUnreachable, ScanNoAvailableLeader, SaveConflict, LeadDone,
         StopEarly, LoadProbeError, SaveRequestLost, ScanProbeError
<1>12. CASE FinishConflict(w) \/ FinishUnchanged(w) \/ Crash(w)
  BY <1>4, <1>12 DEF FinishConflict, FinishUnchanged, Crash
<1>13. QED
  BY <1>5, <1>6, <1>9, <1>10, <1>11, <1>12 DEF Moves, Progress, Fault

\* A pod that joins: the first one is the leader all workers agree on, the
\* others come to the one brain there is.
LEMMA JoinHarmless ==
  ASSUME Sound, BrainInv, NEW w \in RoleWorkers, NEW p \in left[w], Join(w, p),
         InstancesKept, UNCHANGED apiVars, OnlyWorker(w),
         pc'[w] = "idle" \/ UNCHANGED <<pc, copy>>
  PROVE  BrainInv'
<1>1. /\ p \in Pods /\ disk[p] = NoBrain /\ pc[w] = "lead" /\ vshard' = vshard
      /\ w \in Workers
  BY JoinEffect DEF Workers
<1>2. PICK b \in Brains :
        /\ servers' = [servers EXCEPT ![b] = servers[b] \cup {p}]
        /\ disk' = [disk EXCEPT ![p] = b]
        /\ \/ servers[b] = {} /\ p = copy[w].leader
           \/ p # copy[w].leader /\ inst[copy[w].leader] = "Configured"
              /\ disk[copy[w].leader] = b
  BY JoinEffect
<1>3. LET l == copy[w].leader IN l \in Pods /\ l # NoPod
  BY <1>1, LeaderIsPod
<1>4. \A l : Configured(l) => Configured(l)'
  BY <1>2, FormationAssumption DEF Configured, Sound, FormationTypeOK
<1>5. \A v \in Workers : pc'[v] # "idle" => pc'[v] = pc[v] /\ copy'[v] = copy[v]
  BY DEF OnlyWorker
<1>6. \A c \in vshard' : servers'[c] # {}
  BY <1>1 DEF BrainInv, InstancesKept, Sound, FormationTypeOK
<1>7. stored' = stored /\ cache' = cache
  BY DEF apiVars
<1>8. CASE Members # {}
  <2>1. disk[copy[w].leader] # NoBrain
    BY <1>1, <1>3, <1>8 DEF BrainInv, LeadersConfigured, Configured
  <2>2. disk[copy[w].leader] = b /\ copy[w].leader \in servers[b]
    BY <1>1, <1>2, <1>3, <2>1 DEF Sound, MembershipInv
  <2>3. NoSplitBrain'
    BY <1>2, <2>2 DEF BrainInv, NoSplitBrain, Sound, FormationTypeOK
  <2>4. LeadersConfigured'
    BY <1>4, <1>5, <1>7, <1>8 DEF LeadersConfigured, BrainInv
  <2>5. QED
    BY <1>1, <1>4, <1>5, <1>6, <1>7, <2>3, <2>4 DEF BrainInv
<1>9. CASE Members = {}
  <2>1. \A c \in Brains : servers[c] = {}
    BY <1>9 DEF Members
  <2>2. p = copy[w].leader
    BY <1>2, <1>3, <2>1 DEF Sound, MembershipInv, FormationTypeOK
  <2>3. ~stored.bootstrapped
    BY <1>9, BootstrappedFounded DEF BrainInv
  <2>4. p = stored.leader
    BY <1>1, <2>2, <2>3, <1>3 DEF Sound, ElectionInv, CopyInv, Earlier
  <2>5. Configured(p)'
    BY <1>1, <1>2, FormationAssumption DEF Configured, Sound, FormationTypeOK
  <2>6. cache.leader \in {NoPod, p}
    BY <2>3, <2>4 DEF Sound, ElectionInv, CacheInv, Earlier
  <2>7. \A v \in Workers : pc[v] \in {"load", "scan", "lead"} => copy[v].leader \in {NoPod, p}
    BY <2>3, <2>4 DEF Sound, ElectionInv, CopyInv, Earlier
  <2>8. LeadersConfigured'
    BY <1>5, <1>7, <2>4, <2>5, <2>6, <2>7 DEF LeadersConfigured
  <2>9. NoSplitBrain'
    BY <1>2, <2>1 DEF NoSplitBrain, Sound, FormationTypeOK
  <2>10. QED
    BY <1>1, <1>4, <1>5, <1>6, <1>7, <2>8, <2>9 DEF BrainInv
<1>10. QED
  BY <1>8, <1>9

\* Every step of a Role worker keeps the invariant.
LEMMA RoleHarmless ==
  ASSUME Sound, BrainInv, NEW w \in RoleWorkers, RoleProgress(w) \/ RoleFault(w)
  PROVE  BrainInv'
<1>1. w \in Workers /\ w \notin ClusterWorkers /\ TypeOK
  BY ElectionAssumption DEF Workers, Sound, ElectionInv
<1>2. CASE UNCHANGED instanceVars
  <2>1. CASE Moves(w)
    BY <1>1, <1>2, <2>1, MoveHarmless DEF instanceVars, MarkBootstrapped, BrainInv
  <2>2. CASE UNCHANGED vars
    BY <1>2, <2>2
       DEF instanceVars, vars, BrainInv, NoSplitBrain, LeadersConfigured, Members, Configured
  <2>3. QED
    BY <2>1, <2>2, RoleMoves
<1>3. CASE \E p \in left[w] : Joined(w, p) \/ JoinReplyLost(w, p)
  <2>1. PICK p \in left[w] : Join(w, p) /\ (Visited(w, p, TRUE) \/ EndRole(w, "Progressing"))
    BY <1>3 DEF Joined, JoinReplyLost
  <2>2. /\ inst' = inst /\ OnlyWorker(w) /\ UNCHANGED apiVars
        /\ pc'[w] = "idle" \/ UNCHANGED <<pc, copy>>
    <3>1. CASE Visited(w, p, TRUE)
      BY <3>1 DEF Visited, vars, apiVars, OnlyWorker
    <3>2. CASE EndRole(w, "Progressing")
      <4>1. LeadDone(w)
        BY <3>2 DEF EndRole
      <4>2. QED
        BY <1>1, <4>1, MoveEffect
           DEF Moves, Progress, LeadDone, EndReconcile, Idle, TypeOK
    <3>3. QED
      BY <2>1, <3>1, <3>2
  <2>3. InstancesKept
    BY <2>1, <2>2, JoinKeeps
  <2>4. QED
    BY <2>1, <2>2, <2>3, JoinHarmless
<1>4. QED
  BY <1>2, <1>3
     DEF RoleProgress, RoleFault, RoleStart, UpToLeader, CartridgeReady,
         CartridgeNotReady, JoinPodDown, JoinAlready, JoinLeaderFirst, JoinError,
         RoleIncomplete, RoleDone, RoleFailure

\* What a step of a Cluster worker does to the instances: nothing, or the bootstrap.
LEMMA ClusterInstances ==
  ASSUME NEW w \in ClusterWorkers, ClusterProgress(w) \/ ClusterFault(w)
  PROVE  \/ UNCHANGED instanceVars
         \/ pc[w] = "lead" /\ BootstrapVshard(w)
BY DEF ClusterProgress, ClusterFault, ClusterStart, WaitForRoles, ClusterElection,
       BootstrapSucceeds, BootstrapReplyLost, MarkBootstrapped, LeadDone, ClusterDone,
       BootstrapFails, ClusterCrash

\* Every step of a Cluster worker keeps the invariant.
LEMMA ClusterHarmless ==
  ASSUME Sound, BrainInv, NEW w \in ClusterWorkers, ClusterProgress(w) \/ ClusterFault(w)
  PROVE  BrainInv'
<1>1. w \in Workers /\ TypeOK /\ Moves(w)
  BY ClusterMoves DEF Workers, Sound, ElectionInv
<1>2. CASE pc[w] = "lead" /\ BootstrapVshard(w)
  <2>1. PICK b \in Brains : /\ b = disk[copy[w].leader] /\ copy[w].leader \in servers[b]
                            /\ copy[w].leader \in Pods
                            /\ vshard' = vshard \cup {b}
                            /\ UNCHANGED <<disk, servers>>
    BY <1>2, BootstrapEffect
  <2>2. Configured(copy[w].leader) /\ vshard' # {}
    BY <2>1, FormationAssumption DEF Configured
  <2>3. \A c \in vshard' : servers[c] # {}
    BY <2>1 DEF BrainInv
  <2>4. QED
    BY <1>1, <2>1, <2>2, <2>3, MoveHarmless
<1>3. CASE UNCHANGED instanceVars /\ ~(pc[w] = "lead" /\ BootstrapVshard(w))
  <2>1. ~MarkBootstrapped(w)
    <3>1. CASE pc[w] # "lead"
      BY <3>1 DEF MarkBootstrapped
    <3>2. CASE LeadDone(w) \/ Crash(w)
      <4>1. copy'[w] = copy[w] \/ pc'[w] = "idle"
        BY <1>1, <3>2 DEF LeadDone, Crash, EndReconcile, Idle, TypeOK
      <4>2. QED
        BY <1>1, <4>1 DEF MarkBootstrapped, TypeOK, Status
    <3>3. QED
      BY <1>3, <3>1, <3>2
         DEF BootstrapSucceeds, ClusterProgress, ClusterFault, ClusterStart, Start, WaitForRoles, StopEarly,
             ClusterElection, BootstrapReplyLost, ClusterDone, BootstrapFails, ClusterCrash
  <2>2. QED
    BY <1>1, <1>3, <2>1, MoveHarmless DEF instanceVars, BrainInv
<1>4. QED
  BY <1>2, <1>3, ClusterInstances

\* So do deliveries, and pods whose disk survives them.
LEMMA SurroundingsHarmless ==
  ASSUME Persistent = Pods, Sound, BrainInv,
         \/ \E p \in Pods : PodDown(p) \/ PodBoots(p) \/ PodStarts(p) \/ PodConfigures(p)
         \/ \E r \in Roles : RoleCacheSync(r)
         \/ CachesSync
         \/ UNCHANGED formationVars
  PROVE  BrainInv'
<1>1. /\ UNCHANGED <<stored, pc, copy, instanceVars>>
      /\ cache' \in {cache, stored}
  BY DEF PodDown, PodBoots, PodStarts, PodConfigures, PodStep, apiVars, workerVars,
         RoleCacheSync, CachesSync, CacheSync, vars, formationVars, instanceVars
<1>2. Members' = Members /\ NoSplitBrain' /\ \A l : Configured(l)' <=> Configured(l)
  BY <1>1 DEF instanceVars, Members, Configured, BrainInv, NoSplitBrain
<1>3. LeadersConfigured'
  BY <1>1, <1>2 DEF BrainInv, LeadersConfigured
<1>4. QED
  BY <1>1, <1>2, <1>3 DEF BrainInv, instanceVars

\* The invariant is inductive.
LEMMA BrainStep ==
  ASSUME Persistent = Pods
  PROVE  Sound /\ BrainInv /\ [FormationNext]_formationVars => BrainInv'
BY RoleHarmless, ClusterHarmless, SurroundingsHarmless DEF FormationNext

\* It holds initially.
LEMMA BrainInit == FormationInit => BrainInv
BY DEF FormationInit, Init, NewStatus, BrainInv, NoSplitBrain, LeadersConfigured,
       Members, Configured

(* With persistent disks, whatever the copies, the lost replies, the       *)
(* crashes and the restarts of pods: the inductive invariant holds.        *)
THEOREM FormationInvariant ==
  ASSUME Persistent = Pods
  PROVE  FormationSpec => []FormationInv
<1>1. FormationInit => Sound /\ BrainInv
  BY SoundInit, BrainInit
<1>2. Sound /\ BrainInv /\ [FormationNext]_formationVars => (Sound /\ BrainInv)'
  BY SoundStep, BrainStep
<1>3. Sound /\ BrainInv => FormationInv
  BY DEF Sound, FormationInv
<1>4. QED
  BY <1>1, <1>2, <1>3, PTL DEF FormationSpec

(* At most one Cartridge cluster is ever started.                          *)
THEOREM OneBrain ==
  ASSUME Persistent = Pods
  PROVE  FormationSpec => []NoSplitBrain
<1>1. FormationInv => NoSplitBrain
  BY DEF FormationInv, BrainInv
<1>2. QED
  BY <1>1, FormationInvariant, PTL

(* A Cluster marked bootstrapped is: vshard runs in the Cartridge cluster  *)
(* its leader, the present one, belongs to.                                *)
THEOREM FlagTrue ==
  ASSUME Persistent = Pods
  PROVE  FormationSpec => []BootstrappedMeansBootstrapped
<1>1. ASSUME FormationInv PROVE BootstrappedMeansBootstrapped
  <2>1. SUFFICES ASSUME stored.bootstrapped PROVE disk[stored.leader] \in vshard
    BY DEF BootstrappedMeansBootstrapped
  <2>2. PICK b \in vshard : b \in Brains /\ servers[b] # {}
    BY <1>1, <2>1 DEF FormationInv, BrainInv, FormationTypeOK
  <2>3. Members # {}
    BY <1>1, <2>2 DEF Members, FormationInv, FormationTypeOK
  <2>4. Configured(stored.leader)
    BY <1>1, <2>3 DEF FormationInv, BrainInv, LeadersConfigured
  <2>5. /\ disk[stored.leader] \in Brains
        /\ stored.leader \in servers[disk[stored.leader]]
    BY <1>1, <2>4 DEF Configured, FormationInv, MembershipInv, FormationTypeOK
  <2>6. QED
    BY <1>1, <2>2, <2>5 DEF FormationInv, BrainInv, NoSplitBrain
<1>2. QED
  BY <1>1, FormationInvariant, PTL

(* vshard is bootstrapped only when all pods of all Roles are members.     *)
THEOREM CompleteBootstrap ==
  ASSUME Persistent = Pods
  PROVE  FormationSpec => BootstrapsCompleteCluster
<1>1. ASSUME Sound, BrainInv, [FormationNext]_formationVars, NEW b \in vshard' \ vshard
      PROVE  servers[b] = Pods
  <2>1. PICK w \in ClusterWorkers : pc[w] = "lead" /\ BootstrapVshard(w)
    <3>1. ASSUME NEW w \in RoleWorkers PROVE ~(RoleProgress(w) \/ RoleFault(w))
      <4>1. SUFFICES ASSUME RoleProgress(w) \/ RoleFault(w) PROVE vshard' = vshard
        BY <1>1
      <4>2. CASE \E p \in left[w] : Join(w, p)
        BY <1>1, <4>2, JoinEffect
      <4>3. CASE UNCHANGED instanceVars
        BY <4>3 DEF instanceVars
      <4>4. QED
        BY <4>1, <4>2, <4>3
           DEF RoleProgress, RoleFault, RoleStart, UpToLeader, CartridgeReady,
               CartridgeNotReady, JoinPodDown, JoinAlready, JoinLeaderFirst, JoinError,
               RoleIncomplete, RoleDone, RoleFailure, Joined, JoinReplyLost
    <3>2. ASSUME NEW w \in ClusterWorkers, ClusterProgress(w) \/ ClusterFault(w)
          PROVE  pc[w] = "lead" /\ BootstrapVshard(w)
      BY <1>1, <3>2, ClusterInstances DEF instanceVars
    <3>3. ~((\E p \in Pods : PodDown(p) \/ PodBoots(p) \/ PodStarts(p) \/ PodConfigures(p))
            \/ (\E r \in Roles : RoleCacheSync(r)) \/ CachesSync \/ UNCHANGED formationVars)
      BY <1>1 DEF PodDown, PodBoots, PodStarts, PodConfigures, PodStep, RoleCacheSync,
                  CachesSync, formationVars, instanceVars
    <3>4. QED
      BY <1>1, <3>1, <3>2, <3>3 DEF FormationNext
  <2>2. b \in Brains /\ servers[b] # {} /\ Pods \subseteq Members
    BY <1>1, <2>1, BootstrapEffect DEF Sound, MembershipInv
  <2>3. Pods \subseteq servers[b]
    BY <1>1, <2>2 DEF BrainInv, NoSplitBrain, Members
  <2>4. QED
    BY <1>1, <2>2, <2>3 DEF Sound, FormationTypeOK
<1>2. Sound /\ BrainInv /\ [FormationNext]_formationVars
        => [\A b \in vshard' \ vshard : servers[b] = Pods]_formationVars
  BY <1>1
<1>3. Sound /\ BrainInv /\ [FormationNext]_formationVars => (Sound /\ BrainInv)'
  BY SoundStep, BrainStep
<1>4. FormationInit => Sound /\ BrainInv
  BY SoundInit, BrainInit
<1>5. QED
  BY <1>2, <1>3, <1>4, PTL DEF FormationSpec, BootstrapsCompleteCluster
=============================================================================
