------------------------- MODULE ClusterWakeup_proofs --------------------------
(***************************************************************************)
(* Theorems about ClusterWakeup, for any number of Roles, any failovers    *)
(* and any lag of the watches: the Cluster controller sleeps through       *)
(* neither the bootstrap nor an edit of the failover.                      *)
(***************************************************************************)
EXTENDS ClusterWakeup, SequenceTheorems, TLAPS

CacheFollows == \A r \in Roles : LatestOf(r) = rolePhase[r]
Noticed == pc = "idle" /\ ~queued => Concluded

\* The operator starts with the Cluster in the queue.
LEMMA WakeupInit == Init => WakeupInv
<1> SUFFICES ASSUME Init  PROVE WakeupInv
  OBVIOUS
<1> USE WakeupAssumption
<1>1. TypeOK
  <2>1. /\ rolePhase \in [Roles -> RolePhases] /\ roleCache \in [Roles -> RolePhases]
        /\ copy \in Copies
    BY DEF Init, RolePhases, Copies
  <2>2. watch \in [Roles -> Seq(RolePhases)] /\ \A r \in Roles : Len(watch[r]) <= MaxLag
    <3>1. <<>> \in Seq(RolePhases) /\ Len(<<>>) = 0
      OBVIOUS
    <3>2. watch = [r \in Roles |-> <<>>] /\ 0 <= MaxLag
      BY DEF Init
    <3> QED  BY <3>1, <3>2
  <2> QED  BY <2>1, <2>2 DEF Init, TypeOK, ClusterPhases
<1>2. \A r \in Roles : LatestOf(r) = rolePhase[r]
  BY DEF Init, LatestOf
<1> QED  BY <1>1, <1>2 DEF Init, WakeupInv, CopyTrue

-------------------------------------------------------------------------------
(* The steps of the Role controller and of the watches.                    *)

\* What is left of a sequence when its head is taken.
LEMMA HeadTaken ==
  ASSUME NEW S, NEW s \in Seq(S), s # <<>>
  PROVE  /\ Head(s) \in S /\ Tail(s) \in Seq(S)
         /\ Len(s) \in Nat \ {0} /\ Len(Tail(s)) = Len(s) - 1
         /\ Head(s) = s[1]
         /\ Tail(s) = <<>> => Len(s) = 1
         /\ Tail(s) # <<>> => Tail(s)[Len(Tail(s))] = s[Len(s)]
<1>1. /\ Head(s) \in S /\ Tail(s) \in Seq(S)
      /\ Len(Tail(s)) = Len(s) - 1
      /\ \A i \in 1 .. Len(Tail(s)) : Tail(s)[i] = s[i + 1]
  BY HeadTailProperties
<1>2. Len(s) \in Nat \ {0} /\ (Tail(s) # <<>> => Len(Tail(s)) \in Nat \ {0})
  BY <1>1, EmptySeq
<1>3. Tail(s) = <<>> => Len(s) = 1
  <2>1. Tail(s) = <<>> => Len(Tail(s)) = 0
    BY EmptySeq
  <2> QED  BY <1>1, <1>2, <2>1
<1>4. Tail(s) # <<>> => Tail(s)[Len(Tail(s))] = s[Len(s)]
  BY <1>1, <1>2
<1> QED  BY <1>1, <1>2, <1>3, <1>4

\* A version of a Role is put at the end of its watch.
LEMMA WatchAppended ==
  ASSUME TypeOK, CacheFollows, NEW r \in Roles, NEW p \in RolePhases, Len(watch[r]) < MaxLag,
         watch' = [watch EXCEPT ![r] = Append(@, p)],
         rolePhase' = [rolePhase EXCEPT ![r] = p],
         roleCache' = roleCache
  PROVE  /\ watch' \in [Roles -> Seq(RolePhases)]
         /\ \A q \in Roles : Len(watch'[q]) <= MaxLag
         /\ CacheFollows'
<1>1. watch \in [Roles -> Seq(RolePhases)] /\ rolePhase \in [Roles -> RolePhases] /\ MaxLag \in Nat
  BY WakeupAssumption DEF TypeOK
<1>2. /\ Append(watch[r], p) \in Seq(RolePhases)
      /\ Len(Append(watch[r], p)) = Len(watch[r]) + 1
      /\ Append(watch[r], p)[Len(watch[r]) + 1] = p
      /\ Append(watch[r], p) # <<>>
  <2>1. watch[r] \in Seq(RolePhases)
    BY <1>1
  <2> QED  BY <2>1, AppendProperties
<1>3. /\ \A q \in Roles : watch'[q] = IF q = r THEN Append(watch[r], p) ELSE watch[q]
      /\ watch' \in [Roles -> Seq(RolePhases)]
  <2> DEFINE new == Append(watch[r], p)
  <2>1. new \in Seq(RolePhases) /\ watch' = [watch EXCEPT ![r] = new]
    BY <1>2
  <2>2. \A q \in Roles : watch'[q] = IF q = r THEN new ELSE watch[q]
    <3> HIDE DEF new
    <3> QED  BY <1>1, <2>1
  <2>3. watch' \in [Roles -> Seq(RolePhases)]
    <3> HIDE DEF new
    <3> QED  BY <1>1, <2>1
  <2> QED  BY <2>2, <2>3
<1>5. \A q \in Roles : Len(watch'[q]) <= MaxLag
  BY <1>1, <1>2, <1>3 DEF TypeOK
<1>6. CacheFollows'
  BY <1>1, <1>2, <1>3 DEF CacheFollows, LatestOf
<1> QED  BY <1>3, <1>5, <1>6

\* The end of a Role's reconcile.
LEMMA EndRoleKeeps ==
  ASSUME WakeupInv, job # NoRole, NEW p \in RolePhases, NEW requeue \in BOOLEAN,
         EndRole(p, requeue), topoRoles' \in BOOLEAN
  PROVE  WakeupInv'
<1>1. job \in Roles
  BY DEF WakeupInv, TypeOK
<1>2. /\ watch' \in [Roles -> Seq(RolePhases)]
      /\ \A q \in Roles : Len(watch'[q]) <= MaxLag
      /\ CacheFollows'
      /\ rolePhase' \in [Roles -> RolePhases]
  <2>1. CASE UNCHANGED <<rolePhase, watch>>
    BY <2>1 DEF WakeupInv, TypeOK, CacheFollows, LatestOf, EndRole
  <2>2. CASE /\ Len(watch[job]) < MaxLag
             /\ rolePhase' = [rolePhase EXCEPT ![job] = p]
             /\ watch' = [watch EXCEPT ![job] = Append(@, p)]
    <3>1. roleCache' = roleCache /\ TypeOK /\ CacheFollows
      BY DEF EndRole, WakeupInv, CacheFollows
    <3>2. rolePhase' \in [Roles -> RolePhases]
      BY <2>2, <3>1 DEF TypeOK
    <3> QED  BY <1>1, <2>2, <3>1, <3>2, WatchAppended
  <2> QED  BY <2>1, <2>2 DEF EndRole
<1>3. UNCHANGED <<roleCache, able, specRoles, failover, bootstrapped, phase, queued, pc, copy, bootCache, applied>>
      /\ job' = NoRole /\ sawBootstrap' = FALSE
      /\ roleQueue' = IF requeue THEN roleQueue \cup {job} ELSE roleQueue
  BY DEF EndRole, specVars, clusterVars
<1>4. TypeOK'
  BY <1>1, <1>2, <1>3 DEF WakeupInv, TypeOK
<1> QED  BY <1>2, <1>3, <1>4 DEF WakeupInv, CopyTrue, Concluded, AllRolesAtPhase, CacheFollows

\* An update of a Role reaches the cache: if it makes the last of them wait for
\* the bootstrap, it enqueues the Cluster.
LEMMA UpdateKeeps ==
  ASSUME WakeupInv, NEW r \in Roles, RoleUpdate(r)
  PROVE  WakeupInv'
<1>1. /\ watch \in [Roles -> Seq(RolePhases)] /\ roleCache \in [Roles -> RolePhases]
      /\ watch[r] \in Seq(RolePhases) /\ watch[r] # <<>>
      /\ roleCache' = [roleCache EXCEPT ![r] = Head(watch[r])]
      /\ watch' = [watch EXCEPT ![r] = Tail(@)]
      /\ MaxLag \in Nat
  BY WakeupAssumption DEF RoleUpdate, WakeupInv, TypeOK
<1>2. /\ Head(watch[r]) \in RolePhases /\ Tail(watch[r]) \in Seq(RolePhases)
      /\ Len(watch[r]) \in Nat \ {0} /\ Len(Tail(watch[r])) = Len(watch[r]) - 1
      /\ Head(watch[r]) = watch[r][1]
      /\ Tail(watch[r]) = <<>> => Len(watch[r]) = 1
      /\ Tail(watch[r]) # <<>> => Tail(watch[r])[Len(Tail(watch[r]))] = watch[r][Len(watch[r])]
  BY <1>1, HeadTaken
<1>3. /\ watch'[r] = Tail(watch[r]) /\ roleCache'[r] = Head(watch[r])
      /\ \A q \in Roles \ {r} : watch'[q] = watch[q] /\ roleCache'[q] = roleCache[q]
  <2> DEFINE rest == Tail(watch[r])
             first == Head(watch[r])
  <2>1. watch' = [watch EXCEPT ![r] = rest] /\ roleCache' = [roleCache EXCEPT ![r] = first]
    BY <1>1
  <2>2. /\ watch'[r] = rest /\ roleCache'[r] = first
        /\ \A q \in Roles \ {r} : watch'[q] = watch[q] /\ roleCache'[q] = roleCache[q]
    <3> HIDE DEF rest, first
    <3> QED  BY <1>1, <2>1
  <2> QED  BY <2>2
<1>4. CacheFollows'
  <2>1. LatestOf(r)' = LatestOf(r)
    BY <1>1, <1>2, <1>3 DEF LatestOf
  <2>2. \A q \in Roles \ {r} : LatestOf(q)' = LatestOf(q)
    BY <1>3 DEF LatestOf
  <2> QED  BY <2>1, <2>2 DEF CacheFollows, WakeupInv, RoleUpdate
<1>5. TypeOK'
  <2>1. watch' \in [Roles -> Seq(RolePhases)] /\ roleCache' \in [Roles -> RolePhases]
    <3> DEFINE rest == Tail(watch[r])
    <3>1. rest \in Seq(RolePhases) /\ watch' = [watch EXCEPT ![r] = rest]
      BY <1>1, <1>2
    <3> HIDE DEF rest
    <3> QED  BY <1>1, <1>2, <3>1
  <2>2. \A q \in Roles : Len(watch'[q]) <= MaxLag
    BY <1>1, <1>2, <1>3 DEF WakeupInv, TypeOK
  <2> QED  BY <2>1, <2>2 DEF RoleUpdate, WakeupInv, TypeOK, workVars, specVars
<1>6. CopyTrue'
  BY DEF RoleUpdate, WakeupInv, CopyTrue, specVars
<1>7. Noticed'
  <2> SUFFICES ASSUME pc' = "idle", ~queued'  PROVE Concluded'
    BY DEF Noticed
  <2>1. Head(watch[r]) # "WaitingForBootstrap" /\ Concluded
    BY DEF RoleUpdate, WakeupInv
  <2>2. ~AllRolesAtPhase("WaitingForBootstrap")'
    BY <1>3, <2>1 DEF AllRolesAtPhase
  <2> QED  BY <2>1, <2>2 DEF Concluded, RoleUpdate, specVars
<1> QED  BY <1>4, <1>5, <1>6, <1>7 DEF WakeupInv, CacheFollows, Noticed

-------------------------------------------------------------------------------
(* The steps of the Cluster controller.                                    *)

\* The end of a reconcile: refused, it enqueues the Cluster; accepted, it does
\* so if it changes the Cluster, and forgets no bootstrap.
LEMMA EndClusterKeeps ==
  ASSUME WakeupInv, NEW p \in ClusterPhases, NEW boot \in BOOLEAN, NEW error \in BOOLEAN,
         EndCluster(p, boot, error), applied' \in Failovers,
         copy.bootstrapped => boot,
         copy.fresh /\ ~error =>
           /\ AllRolesAtPhase("WaitingForBootstrap") => boot \/ p = "UnableToBootstrap"
           /\ p = "Ready" => applied' = failover
  PROVE  WakeupInv'
<1>1. /\ pc' = "idle" /\ copy' = [copy EXCEPT !.fresh = FALSE]
      /\ UNCHANGED <<rolePhase, watch, roleQueue, roleCache, able, job, sawBootstrap,
                     specRoles, failover, topoRoles, bootCache>>
      /\ copy \in Copies
  BY DEF EndCluster, roleVars, workVars, specVars, WakeupInv, TypeOK
<1>2. copy' \in Copies /\ ~copy'.fresh
  BY <1>1 DEF Copies
<1>3. phase' \in ClusterPhases /\ bootstrapped' \in BOOLEAN /\ queued' \in BOOLEAN
  BY DEF EndCluster, WakeupInv, TypeOK
<1>4. TypeOK'
  BY <1>1, <1>2, <1>3 DEF WakeupInv, TypeOK
<1>5. CacheFollows' /\ CopyTrue'
  BY <1>1, <1>2 DEF WakeupInv, CacheFollows, LatestOf, CopyTrue
<1>6. ~queued' => Concluded'
  BY <1>1 DEF EndCluster, Concluded, AllRolesAtPhase
<1> QED  BY <1>4, <1>5, <1>6 DEF WakeupInv, CacheFollows

\* Every step of the Cluster controller.
LEMMA ClusterStep ==
  ASSUME WakeupInv, ClusterWork \/ ClusterFails
  PROVE  WakeupInv'
<1>1. TypeOK /\ copy \in Copies /\ copy.bootstrapped \in BOOLEAN /\ copy.failover \in Failovers
  BY DEF WakeupInv, TypeOK, Copies
<1>2. {"Progressing", "WaitingForRoles", "UnableToBootstrap", "Ready"} \subseteq ClusterPhases
  BY DEF ClusterPhases
<1>3. CASE ClusterBegin
  <2>1. /\ copy' \in Copies
        /\ UNCHANGED <<rolePhase, watch, roleQueue, roleCache, able, job, sawBootstrap, specRoles,
                       failover, topoRoles, bootstrapped, phase, bootCache, applied>>
        /\ pc' = "roles" /\ queued' = FALSE
        /\ copy'.failover = failover /\ copy'.bootstrapped = bootstrapped
    BY <1>1, <1>3 DEF ClusterBegin, roleVars, workVars, specVars, Copies, TypeOK
  <2> QED  BY <2>1 DEF WakeupInv, TypeOK, LatestOf, CopyTrue
<1>4. CASE WaitForRoles
  <2>1. EndCluster("WaitingForRoles", copy.bootstrapped, FALSE) /\ applied' = applied
        /\ ~AllRolesAtPhase("WaitingForBootstrap")
    BY <1>4 DEF WaitForRoles, RolesInPhase
  <2> QED  BY <1>1, <1>2, <2>1, EndClusterKeeps DEF TypeOK
<1>5. CASE PassRoles
  BY <1>5 DEF PassRoles, WakeupInv, TypeOK, LatestOf, CopyTrue, roleVars, workVars, specVars
<1>6. CASE Bootstrap
  <2>1. copy' \in Copies /\ copy'.bootstrapped /\ copy'.fresh = copy.fresh /\ copy'.failover = copy.failover
    BY <1>1, <1>6 DEF Bootstrap, Copies
  <2> QED  BY <1>6, <2>1 DEF Bootstrap, WakeupInv, TypeOK, LatestOf, CopyTrue, roleVars, workVars, specVars
<1>7. CASE UnableToBootstrap
  <2>1. EndCluster("UnableToBootstrap", FALSE, FALSE) /\ applied' = applied /\ ~copy.bootstrapped
    BY <1>7 DEF UnableToBootstrap
  <2> QED  BY <1>1, <1>2, <2>1, EndClusterKeeps DEF TypeOK
<1>8. CASE ConfigureFailover
  <2>1. /\ EndCluster("Ready", copy.bootstrapped, FALSE) /\ applied' = copy.failover
        /\ copy.bootstrapped /\ (copy.fresh => copy.failover = failover)
    BY <1>8 DEF ConfigureFailover, WakeupInv, CopyTrue
  <2> QED  BY <1>1, <1>2, <2>1, EndClusterKeeps
<1>9. CASE ClusterFails
  <2>1. EndCluster("Progressing", copy.bootstrapped, TRUE) /\ applied' = applied
    BY <1>9 DEF ClusterFails
  <2> QED  BY <1>1, <1>2, <2>1, EndClusterKeeps DEF TypeOK
<1> QED  BY <1>3, <1>4, <1>5, <1>6, <1>7, <1>8, <1>9 DEF ClusterWork

-------------------------------------------------------------------------------
\* The steps of the Role controller.
LEMMA RoleStep ==
  ASSUME WakeupInv, RoleWork
  PROVE  WakeupInv'
<1>1. ASSUME NEW r \in Roles, RoleBegin(r)  PROVE WakeupInv'
  BY <1>1 DEF RoleBegin, WakeupInv, TypeOK, LatestOf, CopyTrue, Concluded, AllRolesAtPhase,
              specVars, clusterVars
<1>2. CASE RoleWaits
  <2>1. job # NoRole /\ EndRole("Progressing", TRUE) /\ topoRoles' \in BOOLEAN
    BY <1>2 DEF RoleWaits, WakeupInv, TypeOK
  <2> QED  BY <2>1, EndRoleKeeps DEF RolePhases
<1>3. CASE RoleReaches
  <2>1. /\ job # NoRole /\ topoRoles' \in BOOLEAN
        /\ EndRole("Ready", FALSE) \/ EndRole("WaitingForBootstrap", TRUE)
    BY <1>3, WakeupAssumption DEF RoleReaches, WakeupInv, TypeOK
  <2> QED  BY <2>1, EndRoleKeeps DEF RolePhases
<1> QED  BY <1>1, <1>2, <1>3 DEF RoleWork

\* The steps of pods, users and the informer of the Cluster.
LEMMA EnvironmentStep ==
  ASSUME WakeupInv,
         \/ \E r \in Roles : PodsReady(r) \/ PodsRestart(r) \/ FixRoles(r)
         \/ ClusterCacheSync
         \/ \E f \in Failovers : EditFailover(f)
         \/ UNCHANGED vars
  PROVE  WakeupInv'
<1>1. ASSUME NEW r \in Roles, PodsReady(r) \/ PodsRestart(r)  PROVE WakeupInv'
  <2>1. PICK newAble \in SUBSET Roles : PodsChange(r, newAble)
    BY <1>1 DEF PodsReady, PodsRestart, WakeupInv, TypeOK
  <2> QED  BY <2>1 DEF PodsChange, WakeupInv, TypeOK, LatestOf, CopyTrue, Concluded, AllRolesAtPhase,
                      workVars, specVars, clusterVars
<1>2. ASSUME NEW r \in Roles, FixRoles(r)  PROVE WakeupInv'
  <2>1. /\ TypeOK /\ CacheFollows /\ roleCache' = roleCache /\ Len(watch[r]) < MaxLag
        /\ rolePhase[r] \in RolePhases
        /\ watch' = [watch EXCEPT ![r] = Append(@, rolePhase[r])]
        /\ rolePhase' = [rolePhase EXCEPT ![r] = rolePhase[r]]
    BY <1>2 DEF FixRoles, WakeupInv, TypeOK, CacheFollows
  <2>2. /\ watch' \in [Roles -> Seq(RolePhases)]
        /\ \A q \in Roles : Len(watch'[q]) <= MaxLag
        /\ CacheFollows'
    BY <2>1, WatchAppended
  <2>3. TypeOK'
    BY <1>2, <2>2 DEF FixRoles, WakeupInv, TypeOK, workVars, clusterVars
  <2> QED  BY <1>2, <2>2, <2>3 DEF FixRoles, WakeupInv, CacheFollows, CopyTrue, Concluded,
                                  AllRolesAtPhase, clusterVars
<1>3. CASE ClusterCacheSync
  BY <1>3 DEF ClusterCacheSync, WakeupInv, TypeOK, LatestOf, CopyTrue, Concluded, AllRolesAtPhase,
              roleVars, workVars, specVars, clusterVars
<1>4. ASSUME NEW f \in Failovers, EditFailover(f)  PROVE WakeupInv'
  <2>1. copy' \in Copies /\ ~copy'.fresh /\ copy'.bootstrapped = copy.bootstrapped
    BY <1>4 DEF EditFailover, WakeupInv, TypeOK, Copies
  <2> QED  BY <1>4, <2>1 DEF EditFailover, WakeupInv, TypeOK, LatestOf, CopyTrue, roleVars, workVars
<1>5. CASE UNCHANGED vars
  BY <1>5 DEF vars, roleVars, workVars, specVars, clusterVars, WakeupInv, TypeOK, LatestOf,
              CopyTrue, Concluded, AllRolesAtPhase
<1> QED  BY <1>1, <1>2, <1>3, <1>4, <1>5

\* What the Cluster controller knows, and what it has dealt with when it sleeps,
\* is true for any number of Roles and any lag of their watches: every change
\* that would need it either finds it awake or enqueues the Cluster.
THEOREM WakeupInvariant == Spec => []WakeupInv
<1>1. WakeupInv /\ [Next]_vars => WakeupInv'
  BY UpdateKeeps, ClusterStep, RoleStep, EnvironmentStep DEF Next
<1> QED  BY WakeupInit, <1>1, PTL DEF Spec

\* No wake-up for the bootstrap is missed: a Cluster all of whose Roles wait for
\* it does not rest before it is bootstrapped or refused.
THEOREM BootstrapNoticed == Spec => []NoMissedBootstrap
<1>1. WakeupInv => NoMissedBootstrap
  <2> SUFFICES ASSUME WakeupInv, ClusterAtRest, \A r \in Roles : rolePhase[r] = "WaitingForBootstrap"
               PROVE  bootstrapped \/ phase = "UnableToBootstrap"
    BY DEF NoMissedBootstrap
  <2>1. AllRolesAtPhase("WaitingForBootstrap")
    BY DEF WakeupInv, LatestOf, ClusterAtRest, AllRolesAtPhase
  <2> QED  BY <2>1 DEF WakeupInv, ClusterAtRest, Concluded
<1> QED  BY WakeupInvariant, <1>1, PTL

\* A Cluster that rests in Ready has the failover of its spec applied.
THEOREM ReadyApplied == Spec => []ReadyMeansApplied
<1>1. WakeupInv => ReadyMeansApplied
  BY DEF WakeupInv, ReadyMeansApplied, ClusterAtRest, Concluded
<1> QED  BY WakeupInvariant, <1>1, PTL

-------------------------------------------------------------------------------
(* The controller is level-triggered.                                      *)

\* A version of a Role in its watch is one that has to be delivered.
LEMMA AppendedAwake ==
  ASSUME TypeOK, NEW r \in Roles, NEW p \in RolePhases,
         watch' = [watch EXCEPT ![r] = Append(@, p)]
  PROVE  ~ClusterAtRest'
<1> DEFINE new == Append(watch[r], p)
<1>1. watch \in [Roles -> Seq(RolePhases)] /\ watch[r] \in Seq(RolePhases)
  BY DEF TypeOK
<1>2. new # <<>>
  BY <1>1, AppendProperties
<1>3. watch' = [watch EXCEPT ![r] = new]
  OBVIOUS
<1> HIDE DEF new
<1>4. watch'[r] # <<>>
  BY <1>1, <1>2, <1>3
<1> QED  BY <1>4 DEF ClusterAtRest

\* A step after which the controller sleeps leaves the failover that is asked for
\* and the phases of the Roles as they are, and if it slept already, the Cluster.
LEMMA SleepStep ==
  ASSUME WakeupInv, [Next]_vars, ClusterAtRest'
  PROVE  /\ UNCHANGED <<failover, rolePhase>>
         /\ ClusterAtRest => UNCHANGED <<applied, bootstrapped, phase>>
<1>0. TypeOK
  BY DEF WakeupInv
<1>1. ASSUME NEW r \in Roles, RoleBegin(r) \/ RoleUpdate(r) \/ PodsReady(r) \/ PodsRestart(r)
      PROVE  UNCHANGED <<failover, rolePhase, applied, bootstrapped, phase>>
  BY <1>1 DEF RoleBegin, RoleUpdate, PodsReady, PodsRestart, PodsChange, specVars, clusterVars
<1>2. CASE RoleWaits \/ RoleReaches
  <2>1. PICK p \in RolePhases, requeue \in BOOLEAN : EndRole(p, requeue)
    BY <1>2 DEF RoleWaits, RoleReaches, RolePhases
  <2>2. job \in Roles
    BY <1>0, <1>2 DEF RoleWaits, RoleReaches, TypeOK
  <2>3. UNCHANGED rolePhase
    BY <1>0, <2>1, <2>2, AppendedAwake DEF EndRole
  <2> QED  BY <2>1, <2>3 DEF EndRole, specVars, clusterVars
<1>3. ASSUME NEW r \in Roles, FixRoles(r)  PROVE FALSE
  <2>1. rolePhase[r] \in RolePhases /\ watch' = [watch EXCEPT ![r] = Append(@, rolePhase[r])]
    BY <1>0, <1>3 DEF FixRoles, TypeOK
  <2> QED  BY <1>0, <2>1, AppendedAwake
<1>4. CASE ClusterWork \/ ClusterFails
  <2>1. ClusterBegin \/ pc # "idle"
    BY <1>4 DEF ClusterWork, ClusterFails, WaitForRoles, PassRoles, Bootstrap, UnableToBootstrap,
                ConfigureFailover
  <2>2. ~ClusterAtRest
    BY <2>1 DEF ClusterBegin, ClusterAtRest
  <2>3. UNCHANGED <<failover, rolePhase>>
    BY <1>4 DEF ClusterWork, ClusterFails, ClusterBegin, WaitForRoles, PassRoles, Bootstrap,
                UnableToBootstrap, ConfigureFailover, EndCluster, specVars, roleVars
  <2> QED  BY <2>2, <2>3
<1>5. ASSUME NEW f \in Failovers, EditFailover(f)  PROVE FALSE
  BY <1>5 DEF EditFailover, ClusterAtRest
<1>6. CASE ClusterCacheSync \/ UNCHANGED vars
  BY <1>6 DEF ClusterCacheSync, vars, roleVars, specVars, clusterVars
<1> QED  BY <1>1, <1>2, <1>3, <1>4, <1>5, <1>6 DEF Next, RoleWork

\* Every step is one of a level-triggered controller.
LEMMA ControllerStep ==
  WakeupInv /\ NoMissedBootstrap' /\ ReadyMeansApplied' /\ [Next]_vars
    => [Controller!Next]_(Controller!vars)
<1> SUFFICES ASSUME WakeupInv, NoMissedBootstrap', ReadyMeansApplied', [Next]_vars, ClusterAtRest'
             PROVE  Controller!Rest \/ UNCHANGED Controller!vars
  BY DEF Controller!Next, Controller!Act
<1>1. /\ UNCHANGED <<failover, rolePhase>>
      /\ ClusterAtRest => UNCHANGED <<applied, bootstrapped, phase>>
  BY SleepStep
<1>2. /\ (\A r \in Roles : rolePhase'[r] = "WaitingForBootstrap")
           => bootstrapped' \/ phase' = "UnableToBootstrap"
      /\ phase' = "Ready" => applied' = failover'
  BY DEF NoMissedBootstrap, ReadyMeansApplied
<1>3. CASE ~ClusterAtRest
  BY <1>1, <1>2, <1>3 DEF Controller!Rest
<1>4. CASE ClusterAtRest
  BY <1>1, <1>4 DEF Controller!vars
<1> QED  BY <1>3, <1>4

\* The Cluster controller rests only when no bootstrap is waited for and the
\* failover it reports is applied; an edit of the failover and every new phase of a
\* Role leave an event that is still to be delivered, or enqueue the Cluster.
THEOREM WakeupTriggered == Spec => ImplementsController
<1>1. Init => Controller!Init
  BY DEF Init, ClusterAtRest, Controller!Init
<1> QED
  BY <1>1, ControllerStep, WakeupInvariant, BootstrapNoticed, ReadyApplied, PTL
  DEF Spec, ImplementsController, Controller!Spec

-------------------------------------------------------------------------------
(* The flag of the bootstrap.                                              *)

\* A status update that is accepted writes the flag of a copy that has it if the
\* stored Cluster does.
LEMMA FlagStep == WakeupInv /\ [Next]_vars => [bootstrapped => bootstrapped']_vars
<1> SUFFICES ASSUME WakeupInv, Next, bootstrapped  PROVE bootstrapped'
  OBVIOUS
<1>1. copy.fresh => copy.bootstrapped
  BY DEF WakeupInv, CopyTrue
<1>2. CASE ClusterWork \/ ClusterFails
  BY <1>1, <1>2 DEF ClusterWork, ClusterFails, ClusterBegin, WaitForRoles, PassRoles, Bootstrap,
                    UnableToBootstrap, ConfigureFailover, EndCluster
<1>3. CASE RoleWork
  BY <1>3 DEF RoleWork, RoleBegin, RoleWaits, RoleReaches, EndRole, clusterVars
<1>4. CASE \/ \E r \in Roles : RoleUpdate(r) \/ PodsReady(r) \/ PodsRestart(r) \/ FixRoles(r)
           \/ ClusterCacheSync
           \/ \E f \in Failovers : EditFailover(f)
  BY <1>4 DEF RoleUpdate, PodsReady, PodsRestart, PodsChange, FixRoles, ClusterCacheSync,
              EditFailover, clusterVars
<1> QED  BY <1>2, <1>3, <1>4 DEF Next

\* A recorded bootstrap stays recorded: a reconcile that read the Cluster before
\* another one had it bootstrapped cannot write its older flag.
THEOREM FlagKept == Spec => BootstrapKept
BY FlagStep, WakeupInvariant, PTL DEF Spec, BootstrapKept
================================================================================
