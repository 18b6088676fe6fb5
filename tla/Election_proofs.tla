-------------------------- MODULE Election_proofs ---------------------------
(***************************************************************************)
(* Proofs about Election for every set of roles, pods and workers: the     *)
(* inductive invariant, agreement on the leader, and that the stored       *)
(* status implements LeaderRegister.                                       *)
(***************************************************************************)
EXTENDS Election, TLAPS

\* What a write of the status may do to it: never undo a bootstrap, and
\* replace a leader only after the bootstrap.
Advances(s, t) ==
  /\ s.bootstrapped => t.bootstrapped
  /\ s.leader # NoPod => s.bootstrapped \/ t.leader = s.leader
  /\ t.bootstrapped => t.leader # NoPod

-----------------------------------------------------------------------------
(* Type correctness.                                                       *)

\* The status of a Cluster just created is a status.
LEMMA NewStatusType == NewStatus \in Status
BY DEF NewStatus, Status

\* The initial states are well typed.
LEMMA InitType == Init => TypeOK
BY NewStatusType, ElectionAssumption DEF Init, TypeOK, ControlPoints

\* A worker that ends a reconcile, or goes idle, keeps its variables typed.
LEMMA EndType ==
  ASSUME TypeOK, NEW w \in Workers, EndReconcile(w)
  PROVE  /\ pc' \in [Workers -> ControlPoints]
         /\ copy' \in [Workers -> Status]
         /\ fresh' \in [Workers -> BOOLEAN]
         /\ todo' \in [Workers -> SUBSET Pods]
BY NewStatusType DEF TypeOK, EndReconcile, Idle, ControlPoints

\* So does a worker that goes idle after its status update.
LEMMA IdleType ==
  ASSUME TypeOK, NEW w \in Workers, Idle(w)
  PROVE  /\ pc' \in [Workers -> ControlPoints]
         /\ copy' \in [Workers -> Status]
         /\ todo' \in [Workers -> SUBSET Pods]
BY NewStatusType DEF TypeOK, Idle, ControlPoints

\* A status write, answered or not, keeps what is stored and cached typed.
LEMMA CommitType ==
  ASSUME TypeOK, NEW w \in Workers, NEW replied \in BOOLEAN,
         Commit(copy[w], w, replied)
  PROVE  /\ stored' \in Status
         /\ cache' \in Status
         /\ cacheFresh' \in BOOLEAN
         /\ fresh' \in [Workers -> BOOLEAN]
BY DEF TypeOK, Commit

\* Every step of a reconcile that meets no fault keeps the state typed.
LEMMA ProgressType ==
  ASSUME TypeOK, NEW w \in Workers, Progress(w)
  PROVE  TypeOK'
<1>1. CASE Start(w)
  BY <1>1 DEF TypeOK, Start, apiVars, ControlPoints
<1>2. CASE LoadNotElected(w) \/ LoadReady(w)
  BY <1>2 DEF TypeOK, LoadNotElected, LoadReady, apiVars, ControlPoints
<1>3. CASE LoadNotReady(w)
  <2>1. CASE copy[w].bootstrapped
    BY <1>3, <2>1 DEF TypeOK, LoadNotReady, apiVars, ControlPoints
  <2>2. CASE ~copy[w].bootstrapped
    <3>1. EndReconcile(w) /\ UNCHANGED <<apiVars, inst>>
      BY <1>3, <2>2 DEF LoadNotReady
    <3>2. QED
      BY <3>1, EndType DEF TypeOK, apiVars
  <2>3. QED
    BY <2>1, <2>2
<1>4. CASE \/ LoadUnavailable(w) \/ ScanNoAvailableLeader(w)
           \/ SaveConflict(w) \/ LeadDone(w)
           \/ \E p \in todo[w] : ScanUnreachable(w, p)
  <2>1. EndReconcile(w) /\ UNCHANGED <<apiVars, inst>>
    BY <1>4 DEF LoadUnavailable, ScanNoAvailableLeader, SaveConflict,
                LeadDone, ScanUnreachable
  <2>2. QED
    BY <2>1, EndType DEF TypeOK, apiVars
<1>5. CASE \E p \in todo[w] : ScanSkip(w, p) \/ ScanFound(w, p)
  <2>1. PICK p \in todo[w] : ScanSkip(w, p) \/ ScanFound(w, p)
    BY <1>5
  <2>2. p \in Pods
    BY DEF TypeOK
  <2>3. CASE ScanSkip(w, p)
    BY <2>3 DEF TypeOK, ScanSkip, apiVars
  <2>4. CASE ScanFound(w, p)
    <3>1. [copy[w] EXCEPT !.leader = p] \in Status
      BY <2>2 DEF TypeOK, Status
    <3>2. copy' = [copy EXCEPT ![w] = [copy[w] EXCEPT !.leader = p]]
      BY <2>4 DEF TypeOK, ScanFound
    <3>3. QED
      BY <2>4, <3>1, <3>2 DEF TypeOK, ScanFound, apiVars, ControlPoints
  <2>5. QED
    BY <2>1, <2>3, <2>4
<1>6. CASE SaveAccepted(w)
  BY <1>6, CommitType DEF TypeOK, SaveAccepted, ControlPoints
<1>7. CASE MarkBootstrapped(w)
  <2>1. [copy[w] EXCEPT !.bootstrapped = TRUE] \in Status
    BY DEF TypeOK, Status
  <2>2. QED
    BY <1>7, <2>1 DEF TypeOK, MarkBootstrapped, apiVars, ControlPoints
<1>8. CASE FinishConflict(w) \/ FinishUnchanged(w)
  BY <1>8, IdleType DEF TypeOK, FinishConflict, FinishUnchanged, apiVars
<1>9. CASE FinishAccepted(w)
  BY <1>9, IdleType, CommitType DEF TypeOK, FinishAccepted
<1>10. QED
  BY <1>1, <1>2, <1>3, <1>4, <1>5, <1>6, <1>7, <1>8, <1>9
     DEF Progress, Load, Scan

\* Errors, lost requests and replies, and crashes keep the state typed.
LEMMA FaultType ==
  ASSUME TypeOK, NEW w \in Workers, Fault(w)
  PROVE  TypeOK'
<1>1. CASE \/ StopEarly(w) \/ LoadProbeError(w) \/ SaveRequestLost(w)
           \/ \E p \in todo[w] : ScanProbeError(w, p)
  <2>1. EndReconcile(w) /\ UNCHANGED <<apiVars, inst>>
    BY <1>1 DEF StopEarly, LoadProbeError, SaveRequestLost, ScanProbeError
  <2>2. QED
    BY <2>1, EndType DEF TypeOK, apiVars
<1>2. CASE SaveReplyLost(w)
  <2>1. /\ pc' \in [Workers -> ControlPoints]
        /\ copy' \in [Workers -> Status]
        /\ todo' \in [Workers -> SUBSET Pods]
    BY <1>2, IdleType DEF TypeOK, SaveReplyLost, ControlPoints
  <2>2. QED
    BY <1>2, <2>1, CommitType DEF TypeOK, SaveReplyLost
<1>3. CASE FinishPhase(w)
  BY <1>3, IdleType, CommitType DEF TypeOK, FinishPhase
<1>4. CASE Crash(w)
  BY <1>4, IdleType DEF TypeOK, Crash, apiVars
<1>5. QED
  BY <1>1, <1>2, <1>3, <1>4 DEF Fault

\* Every step keeps the state typed.
LEMMA NextType == TypeOK /\ [Next]_vars => TypeOK'
<1> SUFFICES ASSUME TypeOK, [Next]_vars PROVE TypeOK'
  OBVIOUS
<1>1. CASE \E w \in Workers : Progress(w) \/ Fault(w)
  BY <1>1, ProgressType, FaultType
<1>2. CASE \E p \in Pods : PodChange(p)
  BY <1>2, ElectionAssumption
     DEF TypeOK, PodChange, apiVars, workerVars
<1>3. CASE CacheSync
  BY <1>3 DEF TypeOK, CacheSync, workerVars
<1>4. CASE ForeignWrite
  BY <1>4 DEF TypeOK, ForeignWrite
<1>5. CASE UNCHANGED vars
  BY <1>5 DEF TypeOK, vars
<1>6. QED
  BY <1>1, <1>2, <1>3, <1>4, <1>5 DEF Next

(* Every variable keeps its type, for any set of pods and workers.         *)
THEOREM TypeCorrect == Spec => []TypeOK
BY InitType, NextType, PTL DEF Spec

-----------------------------------------------------------------------------
(* The inductive invariant.  A step changes the memory of at most one      *)
(* worker, and the stored status only by a Commit that Advances it; the    *)
(* two lemmas below reduce each action to the new memory of that worker.   *)

OnlyWorker(w) ==
  \A v \in Workers \ {w} : pc'[v] = pc[v] /\ copy'[v] = copy[v]

\* A step of one worker that leaves the API server alone keeps the invariant
\* if it holds of the copy the worker has then.
LEMMA LocalStep ==
  ASSUME ElectionInv, TypeOK', NEW w \in Workers, UNCHANGED apiVars,
         OnlyWorker(w), \A v \in Workers \ {w} : fresh'[v] => fresh[v],
         CopyInv(w)'
  PROVE  ElectionInv'
<1>1. BootstrappedHasLeader' /\ CacheInv'
  BY DEF ElectionInv, BootstrappedHasLeader, CacheInv, Earlier, apiVars
<1>2. ASSUME NEW v \in Workers \ {w} PROVE CopyInv(v)'
  <2>1. /\ pc'[v] = pc[v] /\ copy'[v] = copy[v]
        /\ fresh'[v] => fresh[v]
        /\ stored' = stored
        /\ CopyInv(v)
    BY <1>2 DEF OnlyWorker, apiVars, ElectionInv
  <2>2. QED
    BY <2>1 DEF CopyInv, Earlier
<1>3. QED
  BY <1>1, <1>2 DEF ElectionInv

\* An accepted write keeps the invariant if it advances the stored status: it
\* loses neither the flag nor, before the bootstrap, the leader.
LEMMA CommitStep ==
  ASSUME ElectionInv, TypeOK', NEW w \in Workers, NEW replied \in BOOLEAN,
         Commit(copy[w], w, replied), Advances(stored, copy[w]),
         OnlyWorker(w), CopyInv(w)'
  PROVE  ElectionInv'
<1>1. stored' = copy[w] /\ cache' = cache /\ cacheFresh' = FALSE
  BY DEF Commit
<1>2. BootstrappedHasLeader'
  BY <1>1 DEF Advances, BootstrappedHasLeader
<1>3. CacheInv'
  BY <1>1 DEF ElectionInv, CacheInv, Earlier, Advances
<1>4. ASSUME NEW v \in Workers \ {w} PROVE CopyInv(v)'
  <2>1. /\ pc'[v] = pc[v] /\ copy'[v] = copy[v] /\ ~fresh'[v]
        /\ CopyInv(v)
    BY <1>4 DEF OnlyWorker, Commit, ElectionInv
  <2>2. QED
    BY <1>1, <2>1 DEF CopyInv, Earlier, Advances
<1>5. QED
  BY <1>2, <1>3, <1>4 DEF ElectionInv

\* What the end of a reconcile does to the memory of the worker.
LEMMA EndEffect ==
  ASSUME TypeOK, NEW w \in Workers, EndReconcile(w)
  PROVE  /\ OnlyWorker(w)
         /\ \A v \in Workers \ {w} : fresh'[v] = fresh[v]
         /\ \/ pc'[w] = "idle"
            \/ pc'[w] = "finish" /\ copy'[w] = copy[w] /\ fresh'[w] = fresh[w]
BY DEF TypeOK, EndReconcile, Idle, OnlyWorker

\* Going idle concerns one worker only.
LEMMA IdleEffect ==
  ASSUME TypeOK, NEW w \in Workers, Idle(w)
  PROVE  OnlyWorker(w) /\ pc'[w] = "idle"
BY DEF TypeOK, Idle, OnlyWorker

\* A reconcile can end at every control point but "idle" and "finish".
LEMMA EndStep ==
  ASSUME ElectionInv, TypeOK', NEW w \in Workers, EndReconcile(w),
         UNCHANGED apiVars, pc[w] \in {"load", "scan", "save", "lead"}
  PROVE  ElectionInv'
<1>1. TypeOK /\ CopyInv(w) /\ BootstrappedHasLeader
  BY DEF ElectionInv
<1>2. CopyInv(w)'
  <2>1. CASE pc'[w] = "idle"
    BY <2>1 DEF CopyInv
  <2>2. CASE pc'[w] = "finish" /\ copy'[w] = copy[w] /\ fresh'[w] = fresh[w]
    <3>1. stored' = stored
      BY DEF apiVars
    <3>2. QED
      BY <1>1, <2>2, <3>1 DEF CopyInv, Earlier, BootstrappedHasLeader
  <2>3. QED
    BY <1>1, <2>1, <2>2, EndEffect
<1>3. QED
  BY <1>1, <1>2, EndEffect, LocalStep

-----------------------------------------------------------------------------
\* Every step of a reconcile that meets no fault keeps the invariant.
LEMMA ProgressStep ==
  ASSUME ElectionInv, TypeOK', NEW w \in Workers, Progress(w)
  PROVE  ElectionInv'
<1>1. TypeOK /\ CopyInv(w) /\ BootstrappedHasLeader /\ CacheInv
  BY DEF ElectionInv
<1>2. CASE Start(w)
  <2>1. UNCHANGED apiVars /\ OnlyWorker(w)
    BY <1>1, <1>2 DEF Start, OnlyWorker, TypeOK
  <2>2. \A v \in Workers \ {w} : fresh'[v] => fresh[v]
    BY <1>1, <1>2 DEF Start, TypeOK
  <2>3. pc'[w] = "load" /\ copy'[w] = cache /\ fresh'[w] = cacheFresh
    BY <1>1, <1>2 DEF Start, TypeOK
  <2>4. CopyInv(w)'
    BY <1>1, <2>1, <2>3 DEF CopyInv, CacheInv, Earlier, apiVars
  <2>5. QED
    BY <2>1, <2>2, <2>4, LocalStep
<1>3. CASE \/ LoadNotElected(w) \/ LoadReady(w)
           \/ LoadNotReady(w) /\ copy[w].bootstrapped
  <2>1. UNCHANGED apiVars /\ OnlyWorker(w) /\ UNCHANGED <<copy, fresh>>
    BY <1>1, <1>3 DEF LoadNotElected, LoadReady, LoadNotReady, OnlyWorker, TypeOK
  <2>2. /\ pc[w] = "load"
        /\ \/ pc'[w] = "scan" /\ (copy[w].bootstrapped \/ copy[w].leader = NoPod)
           \/ pc'[w] = "lead" /\ copy[w].leader # NoPod
    BY <1>1, <1>3 DEF LoadNotElected, LoadReady, LoadNotReady, TypeOK
  <2>3. CopyInv(w)'
    BY <1>1, <2>1, <2>2 DEF CopyInv, Earlier, apiVars
  <2>4. QED
    BY <2>1, <2>3, LocalStep
<1>4. CASE \/ LoadUnavailable(w) \/ ScanNoAvailableLeader(w)
           \/ SaveConflict(w) \/ LeadDone(w)
           \/ LoadNotReady(w) /\ ~copy[w].bootstrapped
           \/ \E p \in todo[w] : ScanUnreachable(w, p)
  <2>1. /\ EndReconcile(w) /\ UNCHANGED apiVars
        /\ pc[w] \in {"load", "scan", "save", "lead"}
    BY <1>4 DEF LoadUnavailable, ScanNoAvailableLeader, SaveConflict,
                LeadDone, LoadNotReady, ScanUnreachable
  <2>2. QED
    BY <2>1, EndStep
<1>5. CASE \E p \in todo[w] : ScanSkip(w, p)
  <2>1. UNCHANGED <<apiVars, pc, copy, fresh>>
    BY <1>5 DEF ScanSkip
  <2>2. CopyInv(w)'
    BY <1>1, <2>1 DEF CopyInv, Earlier, apiVars
  <2>3. QED
    BY <2>1, <2>2, LocalStep DEF OnlyWorker
<1>6. CASE \E p \in todo[w] : ScanFound(w, p)
  <2>1. PICK p \in todo[w] : ScanFound(w, p)
    BY <1>6
  <2>2. p # NoPod
    BY <1>1, ElectionAssumption DEF TypeOK
  <2>3. UNCHANGED <<apiVars, fresh>> /\ OnlyWorker(w)
    BY <1>1, <2>1 DEF ScanFound, OnlyWorker, TypeOK
  <2>4. /\ pc[w] = "scan" /\ pc'[w] = "save"
        /\ copy'[w].leader = p /\ copy'[w].bootstrapped = copy[w].bootstrapped
    BY <1>1, <2>1 DEF ScanFound, TypeOK, Status
  <2>5. CopyInv(w)'
    BY <1>1, <2>2, <2>3, <2>4 DEF CopyInv, Earlier, apiVars
  <2>6. QED
    BY <2>3, <2>5, LocalStep
<1>7. CASE SaveAccepted(w)
  <2>1. /\ Commit(copy[w], w, TRUE) /\ OnlyWorker(w) /\ UNCHANGED copy
        /\ pc[w] = "save" /\ pc'[w] = "lead" /\ fresh[w]
        /\ stored' = copy[w]
    BY <1>1, <1>7 DEF SaveAccepted, OnlyWorker, TypeOK, Commit
  <2>2. Advances(stored, copy[w])
    BY <1>1, <2>1 DEF CopyInv, Advances
  <2>3. CopyInv(w)'
    BY <1>1, <2>1 DEF CopyInv, Earlier
  <2>4. QED
    BY <2>1, <2>2, <2>3, CommitStep
<1>8. CASE MarkBootstrapped(w)
  <2>1. UNCHANGED <<apiVars, fresh>> /\ OnlyWorker(w)
    BY <1>1, <1>8 DEF MarkBootstrapped, OnlyWorker, TypeOK
  <2>2. /\ pc[w] = "lead" /\ pc'[w] = "finish"
        /\ copy'[w].leader = copy[w].leader /\ copy'[w].bootstrapped
    BY <1>1, <1>8 DEF MarkBootstrapped, TypeOK, Status
  <2>3. CopyInv(w)'
    BY <1>1, <2>1, <2>2 DEF CopyInv, Earlier, apiVars
  <2>4. QED
    BY <2>1, <2>3, LocalStep
<1>9. CASE FinishConflict(w) \/ FinishUnchanged(w)
  <2>1. UNCHANGED apiVars /\ OnlyWorker(w) /\ pc'[w] = "idle"
    BY <1>1, <1>9, IdleEffect DEF FinishConflict, FinishUnchanged
  <2>2. \A v \in Workers \ {w} : fresh'[v] => fresh[v]
    BY <1>1, <1>9 DEF FinishConflict, FinishUnchanged, TypeOK
  <2>3. QED
    BY <2>1, <2>2, LocalStep DEF CopyInv
<1>10. CASE FinishAccepted(w)
  <2>1. /\ Commit(copy[w], w, FALSE) /\ OnlyWorker(w) /\ pc'[w] = "idle"
        /\ pc[w] = "finish" /\ fresh[w]
    BY <1>1, <1>10, IdleEffect DEF FinishAccepted
  <2>2. Advances(stored, copy[w])
    BY <1>1, <2>1 DEF CopyInv, Advances
  <2>3. QED
    BY <2>1, <2>2, CommitStep DEF CopyInv
<1>11. CASE Load(w)
  <2>1. CASE copy[w].bootstrapped
    BY <1>3, <1>4, <1>11, <2>1 DEF Load
  <2>2. CASE ~copy[w].bootstrapped
    BY <1>3, <1>4, <1>11, <2>2 DEF Load
  <2>3. QED
    BY <2>1, <2>2
<1>12. CASE Scan(w)
  BY <1>4, <1>5, <1>6, <1>12 DEF Scan
<1>13. QED
  BY <1>2, <1>4, <1>7, <1>8, <1>9, <1>10, <1>11, <1>12 DEF Progress

\* Errors, lost requests and replies, and crashes keep the invariant.
LEMMA FaultStep ==
  ASSUME ElectionInv, TypeOK', NEW w \in Workers, Fault(w)
  PROVE  ElectionInv'
<1>1. TypeOK /\ CopyInv(w) /\ BootstrappedHasLeader
  BY DEF ElectionInv
<1>2. CASE \/ StopEarly(w) \/ LoadProbeError(w) \/ SaveRequestLost(w)
           \/ \E p \in todo[w] : ScanProbeError(w, p)
  <2>1. /\ EndReconcile(w) /\ UNCHANGED apiVars
        /\ pc[w] \in {"load", "scan", "save", "lead"}
    BY <1>2 DEF StopEarly, LoadProbeError, SaveRequestLost, ScanProbeError
  <2>2. QED
    BY <2>1, EndStep
<1>3. CASE SaveReplyLost(w)
  <2>1. /\ Commit(copy[w], w, FALSE) /\ OnlyWorker(w)
        /\ pc[w] = "save" /\ fresh[w]
        /\ \/ pc'[w] = "idle"
           \/ pc'[w] = "finish" /\ UNCHANGED copy
    BY <1>1, <1>3, IdleEffect DEF SaveReplyLost, OnlyWorker, TypeOK
  <2>2. Advances(stored, copy[w])
    BY <1>1, <2>1 DEF CopyInv, Advances
  <2>3. CopyInv(w)'
    <3>1. fresh'[w] = FALSE
      BY <2>1 DEF Commit
    <3>2. QED
      BY <1>1, <2>1, <3>1 DEF CopyInv
  <2>4. QED
    BY <2>1, <2>2, <2>3, CommitStep
<1>4. CASE FinishPhase(w)
  <2>1. /\ Commit(copy[w], w, FALSE) /\ OnlyWorker(w) /\ pc'[w] = "idle"
        /\ copy[w] = stored
    BY <1>1, <1>4, IdleEffect DEF FinishPhase
  <2>2. Advances(stored, copy[w])
    BY <1>1, <2>1 DEF Advances, BootstrappedHasLeader
  <2>3. QED
    BY <2>1, <2>2, CommitStep DEF CopyInv
<1>5. CASE Crash(w)
  <2>1. UNCHANGED apiVars /\ OnlyWorker(w) /\ pc'[w] = "idle"
    BY <1>1, <1>5, IdleEffect DEF Crash
  <2>2. \A v \in Workers \ {w} : fresh'[v] => fresh[v]
    BY <1>1, <1>5 DEF Crash, TypeOK
  <2>3. QED
    BY <2>1, <2>2, LocalStep DEF CopyInv
<1>6. QED
  BY <1>2, <1>3, <1>4, <1>5 DEF Fault

\* So do changes of Pods, deliveries to the cache and writes of other fields.
LEMMA EnvironmentStep ==
  ASSUME ElectionInv, TypeOK',
         (\E p \in Pods : PodChange(p)) \/ CacheSync \/ ForeignWrite
         \/ UNCHANGED vars
  PROVE  ElectionInv'
<1>1. UNCHANGED <<stored, pc, copy>>
  BY DEF PodChange, CacheSync, ForeignWrite, vars, workerVars, apiVars
<1>2. \A v \in Workers : fresh'[v] => fresh[v]
  BY DEF PodChange, CacheSync, ForeignWrite, vars, workerVars
<1>3. CacheInv'
  <2>1. CASE CacheSync
    BY <2>1, <1>1
       DEF CacheSync, ElectionInv, CacheInv, Earlier, BootstrappedHasLeader
  <2>2. CASE ~CacheSync
    <3>1. UNCHANGED cache /\ (cacheFresh' => cacheFresh)
      BY <2>2 DEF PodChange, ForeignWrite, vars, apiVars
    <3>2. QED
      BY <1>1, <3>1 DEF ElectionInv, CacheInv, Earlier
  <2>3. QED
    BY <2>1, <2>2
<1>4. ASSUME NEW v \in Workers PROVE CopyInv(v)'
  BY <1>1, <1>2, <1>4 DEF ElectionInv, CopyInv, Earlier
<1>5. QED
  BY <1>1, <1>3, <1>4 DEF ElectionInv, BootstrappedHasLeader

\* The invariant is inductive.
LEMMA NextInv == ElectionInv /\ [Next]_vars => ElectionInv'
<1> SUFFICES ASSUME ElectionInv, [Next]_vars PROVE ElectionInv'
  OBVIOUS
<1>1. TypeOK'
  BY NextType DEF ElectionInv
<1>2. CASE \E w \in Workers : Progress(w) \/ Fault(w)
  BY <1>1, <1>2, ProgressStep, FaultStep
<1>3. CASE (\E p \in Pods : PodChange(p)) \/ CacheSync \/ ForeignWrite
           \/ UNCHANGED vars
  BY <1>1, <1>3, EnvironmentStep
<1>4. QED
  BY <1>2, <1>3 DEF Next

\* It holds initially.
LEMMA InitInv == Init => ElectionInv
BY InitType DEF Init, ElectionInv, BootstrappedHasLeader, CacheInv, CopyInv,
                Earlier, NewStatus

(* The inductive invariant holds in every reachable state.                 *)
THEOREM ElectionInvariant == Spec => []ElectionInv
BY InitInv, NextInv, PTL DEF Spec

(* Until the cluster is bootstrapped, every worker past GetLeader uses the *)
(* stored leader, whatever the staleness of its copy, the crashes and the  *)
(* lost writes.                                                            *)
THEOREM LeaderAgreement == Spec => []WorkersAgreeOnLeader
<1>1. ElectionInv => WorkersAgreeOnLeader
  BY DEF ElectionInv, WorkersAgreeOnLeader, CopyInv, Earlier
<1>2. QED
  BY <1>1, ElectionInvariant, PTL

-----------------------------------------------------------------------------
(* The stored status as a leader register.                                 *)

\* A step leaves the stored status alone or commits a worker's copy that
\* advances it without bootstrapping and electing at once.
LEMMA StoredStep ==
  ASSUME ElectionInv, [Next]_vars, stored' # stored
  PROVE  \E w \in Workers :
           /\ stored' = copy[w]
           /\ fresh[w]
           /\ pc[w] \in {"save", "finish"}
<1>1. PICK w \in Workers : Progress(w) \/ Fault(w)
  BY DEF Next, vars, PodChange, CacheSync, ForeignWrite, apiVars
<1>2. SaveAccepted(w) \/ SaveReplyLost(w) \/ FinishAccepted(w) \/ FinishPhase(w)
  <2>1. CASE Progress(w)
    <3>1. ~Start(w) /\ ~Load(w) /\ ~Scan(w)
      BY DEF Start, Load, LoadNotElected, LoadUnavailable, LoadReady,
             LoadNotReady, Scan, ScanSkip, ScanFound, ScanUnreachable,
             ScanNoAvailableLeader, apiVars
    <3>2. QED
      BY <2>1, <3>1 DEF Progress, SaveConflict, MarkBootstrapped, LeadDone,
                        FinishConflict, FinishUnchanged, apiVars
  <2>2. CASE Fault(w)
    BY <2>2 DEF Fault, StopEarly, LoadProbeError, ScanProbeError,
                SaveRequestLost, Crash, apiVars
  <2>3. QED
    BY <1>1, <2>1, <2>2
<1>3. QED
  BY <1>2 DEF SaveAccepted, SaveReplyLost, FinishAccepted, FinishPhase, Commit

(* Before the bootstrap an elected leader is never replaced.               *)
THEOREM LeaderFixed == Spec => LeaderFixedUntilBootstrapped
<1>1. ASSUME ElectionInv, [Next]_vars
      PROVE  [stored.leader \notin {NoPod, stored'.leader} => stored.bootstrapped]_vars
  <2>1. CASE stored' = stored
    BY <2>1
  <2>2. CASE stored' # stored
    <3>1. PICK w \in Workers : /\ stored' = copy[w] /\ fresh[w]
                               /\ pc[w] \in {"save", "finish"}
      BY <1>1, <2>2, StoredStep
    <3>2. QED
      BY <1>1, <3>1 DEF ElectionInv, CopyInv
  <2>3. QED
    BY <2>1, <2>2
<1>2. QED
  BY <1>1, ElectionInvariant, PTL DEF Spec, LeaderFixedUntilBootstrapped

(* The stored status implements the leader register: every accepted write  *)
(* elects a first leader, bootstraps, or re-elects after the bootstrap.    *)
THEOREM Refinement == Spec => ImplementsRegister
<1>1. Init => Register!Init
  BY DEF Init, Register!Init, NewStatus
<1>2. ASSUME ElectionInv, [Next]_vars
      PROVE  [Register!Next]_(Register!vars)
  <2>1. CASE stored' = stored
    BY <2>1 DEF Register!vars
  <2>2. CASE stored' # stored
    <3>1. PICK w \in Workers : /\ stored' = copy[w] /\ fresh[w]
                               /\ pc[w] \in {"save", "finish"}
      BY <1>2, <2>2, StoredStep
    <3>2. CopyInv(w) /\ TypeOK /\ BootstrappedHasLeader
      BY <1>2 DEF ElectionInv
    <3>3. CASE stored'.leader = stored.leader
      <4>1. stored'.bootstrapped # stored.bootstrapped
        BY <2>2, <3>1, <3>2, <3>3 DEF TypeOK, Status
      <4>2. /\ stored.bootstrapped = FALSE /\ stored'.bootstrapped = TRUE
            /\ stored.leader # NoPod
        BY <3>1, <3>2, <3>3, <4>1 DEF CopyInv, TypeOK, Status
      <4>3. QED
        BY <3>3, <4>2 DEF Register!Next, Register!Bootstrap
    <3>4. CASE stored'.leader # stored.leader
      <4>1. /\ stored'.bootstrapped = stored.bootstrapped
            /\ stored.leader = NoPod \/ stored.bootstrapped
            /\ stored'.leader \in Pods
        BY <3>1, <3>2, <3>4 DEF CopyInv, TypeOK, Status, BootstrappedHasLeader
      <4>2. QED
        BY <4>1 DEF Register!Next, Register!Elect, Register!Reelect
    <3>5. QED
      BY <3>3, <3>4
  <2>3. QED
    BY <2>1, <2>2
<1>3. QED
  BY <1>1, <1>2, ElectionInvariant, PTL
     DEF Spec, ImplementsRegister, Register!Spec
=============================================================================
