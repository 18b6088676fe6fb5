------------------------------ MODULE Election ------------------------------
(***************************************************************************)
(* Leader election of one Cluster (pkg/election/election.go) as the three  *)
(* controllers run it concurrently.  Every worker copies the Cluster out   *)
(* of the informer cache, which lags behind the API server, decides on     *)
(* that copy and writes the status back under optimistic concurrency: the  *)
(* write succeeds only if the copy still carries the stored resource       *)
(* version.  A resource version is modelled by whether it is the stored    *)
(* one ("fresh"); any write makes every other copy stale, which needs no   *)
(* counter and therefore no bound.                                         *)
(*                                                                         *)
(* The steps of a reconcile that do not concern the leader are collapsed:  *)
(* those before the GetLeader step into Start and StopEarly, those after   *)
(* it into the "lead" control point, refined by module Formation.          *)
(***************************************************************************)
EXTENDS Naturals

CONSTANTS
  Roles,           \* the Role objects of the cluster
  Replicasets,     \* Role.Spec.Replicasets of each role
  Replicas,        \* Role.Spec.ReplicasetTemplate.Replicas of each role
  RoleWorkers,     \* workers of the Role controllers
  ClusterWorkers,  \* workers of the Cluster controllers
  ConfigWorkers,   \* workers of the CartridgeConfig controllers
  InstStates,      \* the instance states the environment goes through
  NoPod            \* the empty leader name

Workers == RoleWorkers \cup ClusterWorkers \cup ConfigWorkers

\* A pod is named by its role, the ordinal of its replicaset (StatefulSet)
\* and its own ordinal in the replicaset.
Pods == UNION {{<<r, s, o>> : s \in 0 .. Replicasets[r] - 1,
                              o \in 0 .. Replicas[r] - 1} : r \in Roles}

\* What GetPod and the Lua probe of the instance can say of a pod.
\*   Absent          GetPod returns NotFound
\*   NotRunning      being deleted, or its phase is not Running
\*   Unreachable     Running, but commands cannot be executed in it
\*   Booting         Running, Cartridge state '', InitError, BootError, ReloadError
\*   Started         any other Cartridge state short of RolesConfigured
\*   Configured      Cartridge state RolesConfigured
\*   OperationError  Cartridge state OperationError
AllInstStates == {"Absent", "NotRunning", "Unreachable", "Booting", "Started",
                  "Configured", "OperationError"}

ASSUME ElectionAssumption ==
  /\ Replicasets \in [Roles -> Nat]
  /\ Replicas \in [Roles -> Nat]
  /\ ClusterWorkers \cap (RoleWorkers \cup ConfigWorkers) = {}
  /\ RoleWorkers \cap ConfigWorkers = {}
  /\ InstStates \subseteq AllInstStates
  /\ NoPod \notin Pods

VARIABLES
  stored,      \* leader and bootstrapped of Cluster.Status in the API server
  cache,       \* the same in the informer cache every worker reads
  cacheFresh,  \* whether the cache holds the stored resource version
  inst,        \* the state of each pod
  pc,          \* control point of each worker
  copy,        \* the Cluster object in the memory of each worker
  fresh,       \* whether the copy carries the stored resource version
  todo         \* pods the scan for a new leader has still to look at

vars == <<stored, cache, cacheFresh, inst, pc, copy, fresh, todo>>
workerVars == <<pc, copy, fresh, todo>>
apiVars == <<stored, cache, cacheFresh>>

Status == [leader : Pods \cup {NoPod}, bootstrapped : BOOLEAN]
NewStatus == [leader |-> NoPod, bootstrapped |-> FALSE]
ControlPoints == {"idle", "load", "scan", "save", "lead", "finish"}

TypeOK ==
  /\ stored \in Status
  /\ cache \in Status
  /\ cacheFresh \in BOOLEAN
  /\ inst \in [Pods -> AllInstStates]
  /\ pc \in [Workers -> ControlPoints]
  /\ copy \in [Workers -> Status]
  /\ fresh \in [Workers -> BOOLEAN]
  /\ todo \in [Workers -> SUBSET Pods]

Init ==
  /\ stored = NewStatus
  /\ cache = NewStatus
  /\ cacheFresh = TRUE
  /\ inst \in [Pods -> InstStates]
  /\ pc = [w \in Workers |-> "idle"]
  /\ copy = [w \in Workers |-> NewStatus]
  /\ fresh = [w \in Workers |-> FALSE]
  /\ todo = [w \in Workers |-> {}]

-----------------------------------------------------------------------------
(* The answer of CanBeLeader about a pod that exists.  A pod that is not   *)
(* running is refused without asking it; any other pod is asked for its    *)
(* Cartridge state.  Asking can fail at any time, also for a pod the cache *)
(* still shows running when it is gone.                                    *)

IsCartridgeStarted(s) == s \in {"Started", "Configured"}
IsCartridgeConfigured(s) == s \in {"Configured", "OperationError"}

CanBeLeader(c, p) ==
  IF c.bootstrapped THEN IsCartridgeConfigured(inst[p])
                    ELSE IsCartridgeStarted(inst[p])

ProbeFails(p) == inst[p] = "Unreachable"

\* findNewLeaderInstance looks at the pods of a lower pod ordinal first, then
\* of a lower replicaset ordinal; among the roles it follows the order in
\* which the cache happens to list them.
Before(p, q) ==
  \/ p[3] < q[3]
  \/ p[3] = q[3] /\ p[2] < q[2]

FirstOf(S) == {p \in S : \A q \in S : ~Before(q, p)}

-----------------------------------------------------------------------------
(* Ending a reconcile.  The requested object's status is written whatever  *)
(* happened (SteppedReconciler.Run); it is the Cluster only for a Cluster  *)
(* worker, whose memory is kept for that write.                            *)

Idle(w) ==
  /\ pc' = [pc EXCEPT ![w] = "idle"]
  /\ copy' = [copy EXCEPT ![w] = NewStatus]
  /\ todo' = [todo EXCEPT ![w] = {}]

EndReconcile(w) ==
  IF w \in ClusterWorkers
  THEN /\ pc' = [pc EXCEPT ![w] = "finish"]
       /\ todo' = [todo EXCEPT ![w] = {}]
       /\ UNCHANGED <<copy, fresh>>
  ELSE /\ Idle(w)
       /\ fresh' = [fresh EXCEPT ![w] = FALSE]

\* The API server accepts a status: every other copy becomes stale.  The
\* writer's copy receives the new version if the reply reaches it.
Commit(status, w, replied) ==
  /\ stored' = status
  /\ cacheFresh' = FALSE
  /\ fresh' = [v \in Workers |-> replied /\ v = w]
  /\ UNCHANGED cache

-----------------------------------------------------------------------------
(* GetRequestedObject of the Cluster controller, GetClusterByLabels of the *)
(* others: both read the cache.  A CartridgeConfig worker goes on only if  *)
(* its copy is bootstrapped (WaitForClusterBootstrapped).                  *)
Start(w) ==
  /\ pc[w] = "idle"
  /\ w \in ConfigWorkers => cache.bootstrapped
  /\ pc' = [pc EXCEPT ![w] = "load"]
  /\ copy' = [copy EXCEPT ![w] = cache]
  /\ fresh' = [fresh EXCEPT ![w] = cacheFresh]
  /\ UNCHANGED <<apiVars, inst, todo>>

(* A step before GetLeader ends the reconcile: an error, roles that are    *)
(* not in the expected phase, a Cluster being deleted.                     *)
StopEarly(w) ==
  /\ pc[w] = "load"
  /\ EndReconcile(w)
  /\ UNCHANGED <<apiVars, inst>>

(* loadLeaderInstance and the branches of GetLeaderInstance on its result. *)
LoadNotElectedOffByOne(w) ==   \* mutant: the pod loop runs one too far
  /\ pc[w] = "load"
  /\ copy[w].leader = NoPod
  /\ pc' = [pc EXCEPT ![w] = "scan"]
  /\ todo' = [todo EXCEPT ![w] = Pods \cup {<<r, 0, Replicas[r]>> : r \in Roles}]
  /\ UNCHANGED <<apiVars, inst, copy, fresh>>

LoadNotElected(w) ==
  /\ pc[w] = "load"
  /\ copy[w].leader = NoPod
  /\ pc' = [pc EXCEPT ![w] = "scan"]
  /\ todo' = [todo EXCEPT ![w] = Pods]
  /\ UNCHANGED <<apiVars, inst, copy, fresh>>

\* The error of GetPod (NotFound included) or of the probe is returned as is.
LoadUnavailable(w) ==
  /\ pc[w] = "load"
  /\ copy[w].leader # NoPod
  /\ inst[copy[w].leader] \in {"Absent", "Unreachable"}
  /\ EndReconcile(w)
  /\ UNCHANGED <<apiVars, inst>>

LoadProbeError(w) ==
  /\ pc[w] = "load"
  /\ copy[w].leader # NoPod
  /\ EndReconcile(w)
  /\ UNCHANGED <<apiVars, inst>>

LoadReady(w) ==
  /\ pc[w] = "load"
  /\ copy[w].leader # NoPod
  /\ CanBeLeader(copy[w], copy[w].leader)
  /\ pc' = [pc EXCEPT ![w] = "lead"]
  /\ UNCHANGED <<apiVars, inst, copy, fresh, todo>>

LoadNotReadyAlwaysScans(w) ==   \* mutant: also before the bootstrap
  /\ pc[w] = "load"
  /\ copy[w].leader # NoPod
  /\ inst[copy[w].leader] \notin {"Absent", "Unreachable"}
  /\ ~CanBeLeader(copy[w], copy[w].leader)
  /\ pc' = [pc EXCEPT ![w] = "scan"]
  /\ todo' = [todo EXCEPT ![w] = Pods \ {copy[w].leader}]
  /\ UNCHANGED <<apiVars, inst, copy, fresh>>

LoadNotReadyNeverScans(w) ==   \* mutant: waits for the old leader
  /\ pc[w] = "load"
  /\ copy[w].leader # NoPod
  /\ inst[copy[w].leader] \notin {"Absent", "Unreachable"}
  /\ ~CanBeLeader(copy[w], copy[w].leader)
  /\ EndReconcile(w)
  /\ UNCHANGED <<apiVars, inst>>

LoadNotReady(w) ==
  /\ pc[w] = "load"
  /\ copy[w].leader # NoPod
  /\ inst[copy[w].leader] \notin {"Absent", "Unreachable"}
  /\ ~CanBeLeader(copy[w], copy[w].leader)
  /\ IF copy[w].bootstrapped
     THEN /\ pc' = [pc EXCEPT ![w] = "scan"]
          /\ todo' = [todo EXCEPT ![w] = Pods \ {copy[w].leader}]
          /\ UNCHANGED <<copy, fresh>>
     ELSE EndReconcile(w)
  /\ UNCHANGED <<apiVars, inst>>

-----------------------------------------------------------------------------
(* One iteration of findNewLeaderInstance on the next pod p: a pod that    *)
(* does not exist or cannot lead is skipped, a failed probe ends the scan  *)
(* with an error, and the first pod that can lead is put in the copy       *)
(* (SetLeader) for the status update that follows.                         *)
ScanSkipGivesUp(w, p) ==   \* mutant: a pod that cannot lead ends the scan
  /\ pc[w] = "scan"
  /\ p \in FirstOf(todo[w])
  /\ ~ProbeFails(p)
  /\ ~CanBeLeader(copy[w], p)
  /\ EndReconcile(w)
  /\ UNCHANGED <<apiVars, inst>>

ScanSkip(w, p) ==
  /\ pc[w] = "scan"
  /\ p \in FirstOf(todo[w])
  /\ ~ProbeFails(p)
  /\ ~CanBeLeader(copy[w], p)
  /\ todo' = [todo EXCEPT ![w] = @ \ {p}]
  /\ UNCHANGED <<apiVars, inst, pc, copy, fresh>>

ScanUnreachable(w, p) ==
  /\ pc[w] = "scan"
  /\ p \in FirstOf(todo[w])
  /\ ProbeFails(p)
  /\ EndReconcile(w)
  /\ UNCHANGED <<apiVars, inst>>

ScanProbeError(w, p) ==
  /\ pc[w] = "scan"
  /\ p \in FirstOf(todo[w])
  /\ EndReconcile(w)
  /\ UNCHANGED <<apiVars, inst>>

ScanFound(w, p) ==
  /\ pc[w] = "scan"
  /\ p \in FirstOf(todo[w])
  /\ CanBeLeader(copy[w], p)
  /\ pc' = [pc EXCEPT ![w] = "save"]
  /\ copy' = [copy EXCEPT ![w].leader = p]
  /\ todo' = [todo EXCEPT ![w] = {}]
  /\ UNCHANGED <<apiVars, inst, fresh>>

ScanNoAvailableLeader(w) ==
  /\ pc[w] = "scan"
  /\ todo[w] = {}
  /\ EndReconcile(w)
  /\ UNCHANGED <<apiVars, inst>>

-----------------------------------------------------------------------------
(* ElectLeaderInstance: Status().Update of the Cluster with the new leader.*)
(* The write is accepted, refused because the copy is stale                *)
(* (ErrLeaderElectionConflict), lost before it reaches the API server, or  *)
(* accepted with its reply lost; only the first leaves a leader to use.    *)
SaveAcceptedUnversioned(w) ==   \* mutant: a patch without a version
  /\ pc[w] = "save"
  /\ Commit(copy[w], w, TRUE)
  /\ pc' = [pc EXCEPT ![w] = "lead"]
  /\ UNCHANGED <<inst, copy, todo>>

SaveAccepted(w) ==
  /\ pc[w] = "save"
  /\ fresh[w]
  /\ Commit(copy[w], w, TRUE)
  /\ pc' = [pc EXCEPT ![w] = "lead"]
  /\ UNCHANGED <<inst, copy, todo>>

SaveConflictIgnored(w) ==   \* mutant: the elector goes on with its leader
  /\ pc[w] = "save"
  /\ ~fresh[w]
  /\ pc' = [pc EXCEPT ![w] = "lead"]
  /\ UNCHANGED <<apiVars, inst, copy, fresh, todo>>

SaveConflict(w) ==
  /\ pc[w] = "save"
  /\ ~fresh[w]
  /\ EndReconcile(w)
  /\ UNCHANGED <<apiVars, inst>>

SaveRequestLost(w) ==
  /\ pc[w] = "save"
  /\ EndReconcile(w)
  /\ UNCHANGED <<apiVars, inst>>

SaveReplyLost(w) ==
  /\ pc[w] = "save"
  /\ fresh[w]
  /\ Commit(copy[w], w, FALSE)
  /\ IF w \in ClusterWorkers
     THEN /\ pc' = [pc EXCEPT ![w] = "finish"]
          /\ UNCHANGED <<copy, todo>>
     ELSE Idle(w)
  /\ UNCHANGED inst

-----------------------------------------------------------------------------
(* The steps after GetLeader.  They change the Cluster object only in      *)
(* BootstrapStep, which sets the flag in memory once the topology call     *)
(* returned without error; the flag reaches the API server with the final  *)
(* status update.                                                          *)
MarkBootstrapped(w) ==
  /\ pc[w] = "lead"
  /\ w \in ClusterWorkers
  /\ ~copy[w].bootstrapped
  /\ copy' = [copy EXCEPT ![w].bootstrapped = TRUE]
  /\ pc' = [pc EXCEPT ![w] = "finish"]
  /\ UNCHANGED <<apiVars, inst, fresh, todo>>

LeadDone(w) ==
  /\ pc[w] = "lead"
  /\ EndReconcile(w)
  /\ UNCHANGED <<apiVars, inst>>

-----------------------------------------------------------------------------
(* SteppedReconciler.UpdateStatus of a Cluster worker.  A write that       *)
(* changes nothing makes no new version; one that changes only the phase,  *)
(* which is not modelled here, does.                                       *)
FinishConflict(w) ==
  /\ pc[w] = "finish"
  /\ ~fresh[w]
  /\ Idle(w)
  /\ UNCHANGED <<apiVars, inst, fresh>>

FinishUnchanged(w) ==
  /\ pc[w] = "finish"
  /\ copy[w] = stored
  /\ Idle(w)
  /\ fresh' = [fresh EXCEPT ![w] = FALSE]
  /\ UNCHANGED <<apiVars, inst>>

FinishAcceptedUnversioned(w) ==   \* mutant: a patch without a version
  /\ pc[w] = "finish"
  /\ copy[w] # stored
  /\ Commit(copy[w], w, FALSE)
  /\ Idle(w)
  /\ UNCHANGED inst

FinishAccepted(w) ==
  /\ pc[w] = "finish"
  /\ fresh[w]
  /\ copy[w] # stored
  /\ Commit(copy[w], w, FALSE)
  /\ Idle(w)
  /\ UNCHANGED inst

FinishPhase(w) ==
  /\ pc[w] = "finish"
  /\ fresh[w]
  /\ copy[w] = stored
  /\ Commit(copy[w], w, FALSE)
  /\ Idle(w)
  /\ UNCHANGED inst

-----------------------------------------------------------------------------
(* The environment.                                                        *)

\* The watch delivers the stored object to the cache.
CacheSync ==
  /\ ~cacheFresh
  /\ cache' = stored
  /\ cacheFresh' = TRUE
  /\ UNCHANGED <<stored, inst, workerVars>>

\* Somebody else writes the Cluster object: a user edits its spec, a phase
\* of the status changes.
ForeignWrite ==
  /\ cacheFresh' = FALSE
  /\ fresh' = [w \in Workers |-> FALSE]
  /\ UNCHANGED <<stored, cache, inst, pc, copy, todo>>

\* A worker dies with what it holds in memory: the operator restarts, or a
\* write of the final status is lost.
Crash(w) ==
  /\ pc[w] # "idle"
  /\ Idle(w)
  /\ fresh' = [fresh EXCEPT ![w] = FALSE]
  /\ UNCHANGED <<apiVars, inst>>

\* A pod is created, started, probed, restarted, rescheduled, deleted.
PodChange(p) ==
  /\ \E s \in InstStates \ {inst[p]} : inst' = [inst EXCEPT ![p] = s]
  /\ UNCHANGED <<apiVars, workerVars>>

-----------------------------------------------------------------------------
\* What a worker does by itself when nothing fails around it.
Load(w) ==
  \/ LoadNotElected(w)
  \/ LoadUnavailable(w)
  \/ LoadReady(w)
  \/ LoadNotReady(w)

Scan(w) ==
  \/ \E p \in todo[w] :
       \/ ScanSkip(w, p)
       \/ ScanFound(w, p)
       \/ ScanUnreachable(w, p)
  \/ ScanNoAvailableLeader(w)

Progress(w) ==
  \/ Start(w)
  \/ Load(w)
  \/ Scan(w)
  \/ SaveAccepted(w) \/ SaveConflict(w)
  \/ MarkBootstrapped(w) \/ LeadDone(w)
  \/ FinishConflict(w) \/ FinishUnchanged(w) \/ FinishAccepted(w)

\* What can go wrong around a worker.
Fault(w) ==
  \/ StopEarly(w)
  \/ LoadProbeError(w)
  \/ \E p \in todo[w] : ScanProbeError(w, p)
  \/ SaveRequestLost(w) \/ SaveReplyLost(w)
  \/ FinishPhase(w)
  \/ Crash(w)

Next ==
  \/ \E w \in Workers : Progress(w) \/ Fault(w)
  \/ \E p \in Pods : PodChange(p)
  \/ CacheSync
  \/ ForeignWrite

Spec == Init /\ [][Next]_vars

-----------------------------------------------------------------------------
(***************************************************************************)
(* Safety.                                                                 *)
(***************************************************************************)

\* The comment of GetLeaderInstance (1.2.2): as long as the cluster is not
\* bootstrapped, the elected leader is never replaced, however stale the
\* copies are the workers decide on.
LeaderFixedUntilBootstrapped ==
  [][stored.leader \notin {NoPod, stored'.leader} => stored.bootstrapped]_vars

\* All workers that go on past GetLeader before the cluster is bootstrapped
\* talk to one and the same instance, the stored leader: two instances used
\* as leaders would each start a Cartridge cluster of its own.
WorkersAgreeOnLeader ==
  \A w \in Workers :
    pc[w] = "lead" /\ ~stored.bootstrapped => copy[w].leader = stored.leader

\* Election, seen only through the stored status, is the leader register.
Register == INSTANCE LeaderRegister WITH leader <- stored.leader,
                                         bootstrapped <- stored.bootstrapped

\* Every write of the Cluster's status that an elector or a final status
\* update gets accepted elects, bootstraps or re-elects; in particular no
\* stale copy undoes a bootstrap.
ImplementsRegister == Register!Spec

\* The strengthening of the two invariants above.  A fresh copy shows the
\* stored status until its worker changes it; a stale one shows an earlier
\* status, of which the bootstrapped flag and, before the bootstrap, an
\* elected leader never change again.
Earlier(c) ==
  /\ c.bootstrapped => stored.bootstrapped /\ c.leader # NoPod
  /\ c.leader # NoPod => stored.bootstrapped \/ c.leader = stored.leader

BootstrappedHasLeader == stored.bootstrapped => stored.leader # NoPod

CacheInv ==
  /\ Earlier(cache)
  /\ cacheFresh => cache = stored

CopyInv(w) ==
  /\ pc[w] \in {"load", "scan", "lead"} =>
       /\ Earlier(copy[w])
       /\ fresh[w] => copy[w] = stored
  /\ pc[w] \in {"save", "finish"} /\ fresh[w] =>
       /\ stored.bootstrapped => copy[w].bootstrapped
       /\ stored.leader # NoPod =>
            stored.bootstrapped \/ copy[w].leader = stored.leader
  /\ pc[w] = "scan" /\ ~copy[w].bootstrapped => copy[w].leader = NoPod
  /\ pc[w] = "save" => copy[w].leader # NoPod
  /\ pc[w] = "lead" => copy[w].leader # NoPod
  /\ pc[w] = "save" /\ copy[w].bootstrapped => stored.bootstrapped
  /\ pc[w] = "finish" /\ fresh[w] /\ copy[w].bootstrapped =>
       stored.bootstrapped \/ copy[w].leader = stored.leader
  /\ pc[w] = "finish" /\ copy[w].bootstrapped => copy[w].leader # NoPod

ElectionInv ==
  /\ TypeOK
  /\ BootstrappedHasLeader
  /\ CacheInv
  /\ \A w \in Workers : CopyInv(w)

-----------------------------------------------------------------------------
(***************************************************************************)
(* Liveness.  The environment calms down at some point: pods stop          *)
(* changing, nobody else writes the Cluster, and no call fails that a      *)
(* running instance could answer.  A Cluster worker may still stop before  *)
(* GetLeader for ever, waiting for its roles.  Workers are fair because a  *)
(* reconcile that failed or asked for a requeue is repeated, the           *)
(* StatefulSets of a Role whose pods change are watched, and every object  *)
(* is reconciled again at the informer's resync.                           *)
(***************************************************************************)
Disturbance ==
  \/ \E w \in Workers :
       Fault(w) /\ ~Progress(w) /\ ~(w \in ClusterWorkers /\ StopEarly(w))
  \/ \E p \in Pods : PodChange(p)
  \/ ForeignWrite

LiveSpec ==
  /\ Spec
  /\ \A w \in Workers : WF_vars(Progress(w))
  /\ WF_vars(CacheSync)
  /\ <>[][~Disturbance]_vars

\* Some pod other than the stored leader can lead and no probe of the scan
\* fails.
CandidateAvailable ==
  /\ \E p \in Pods \ {stored.leader} :
       inst[p] # "Absent" /\ CanBeLeader(stored, p)
  /\ \A p \in Pods \ {stored.leader} : ~ProbeFails(p)

\* A leader is eventually elected as soon as one can be.
LeaderElected ==
  stored.leader = NoPod /\ CandidateAvailable
    ~> stored.leader # NoPod \/ ~CandidateAvailable

\* The comment of GetLeaderInstance (1.2.1), for a leader whose pod is not
\* running or whose Cartridge is not configured: it is eventually replaced,
\* or recovers.
LeaderNotReady ==
  /\ stored.bootstrapped
  /\ inst[stored.leader] \in {"NotRunning", "Booting", "Started"}

NotReadyLeaderReplaced ==
  LeaderNotReady /\ CandidateAvailable
    ~> ~LeaderNotReady \/ ~CandidateAvailable

\* The same comment for every leader that is not available: one whose pod is
\* gone, and one in which nothing can be executed, included.
LeaderUnavailable ==
  /\ stored.bootstrapped
  /\ inst[stored.leader] \in {"Absent", "Unreachable", "NotRunning",
                              "Booting", "Started"}

UnavailableLeaderReplaced ==
  LeaderUnavailable /\ CandidateAvailable
    ~> ~LeaderUnavailable \/ ~CandidateAvailable
=============================================================================
