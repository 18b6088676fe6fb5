-------------------------- MODULE VShardRoles_proofs --------------------------
(***************************************************************************)
(* Theorems about VShardRoles, for any replicasets, roles, dependencies    *)
(* and weights: a Role that rests in Ready is configured, weights are      *)
(* edited last, what is configured is left alone, and the work in a        *)
(* bootstrapped cluster comes to an end.                                   *)
(***************************************************************************)
EXTENDS VShardRoles, FiniteSetTheorems, TLAPS

TopoType == [Replicasets -> [roles : SUBSET RoleNames, weight : Weights]]

\* Roles and their dependencies are roles.
LEMMA MapTyped ==
  ASSUME NEW roles \in RoleSets
  PROVE  VShardRolesToMap(roles) \in SUBSET RoleNames
<1>1. roles \subseteq RoleNames /\ \A r \in roles : Hierarchy[r] \subseteq RoleNames
  BY VShardAssumption
<1> QED  BY <1>1 DEF VShardRolesToMap

\* The edit of the roles of one replicaset.
LEMMA RolesEffect ==
  ASSUME TypeOK, NEW rs \in Replicasets, SetReplicasetRoles(rs, copy.roles)
  PROVE  /\ topo' \in TopoType
         /\ Enabled(rs, copy.roles)' \/ copy' # copy
         /\ \A q \in Replicasets : topo'[q].weight = topo[q].weight
         /\ \A q \in Replicasets \ {rs} : topo'[q] = topo[q]
<1>1. VShardRolesToMap(copy.roles) \in SUBSET RoleNames
  BY MapTyped DEF TypeOK, Specs
<1> DEFINE map == VShardRolesToMap(copy.roles)
<1>2. topo' = IF copy.roles = {} THEN topo ELSE [topo EXCEPT ![rs].roles = map]
  BY DEF SetReplicasetRoles
<1>3. topo \in TopoType
  BY DEF TypeOK, TopoType
<1> HIDE DEF map
<1>4. /\ topo' \in TopoType
      /\ copy.roles # {} => topo'[rs].roles = map
      /\ \A q \in Replicasets : topo'[q].weight = topo[q].weight
      /\ \A q \in Replicasets \ {rs} : topo'[q] = topo[q]
  <2>1. map \in SUBSET RoleNames
    BY <1>1 DEF map
  <2> QED  BY <1>2, <1>3, <2>1 DEF TopoType
<1>5. copy' = copy => Enabled(rs, copy.roles)'
  BY <1>4 DEF Enabled, VShardRolesToMap, map
<1> QED  BY <1>4, <1>5

\* The edit of the weight of one replicaset.
LEMMA WeightEffect ==
  ASSUME TypeOK, NEW rs \in Replicasets, SetWeight(rs, copy.weight)
  PROVE  /\ topo' \in TopoType
         /\ topo'[rs].weight = copy.weight
         /\ \A q \in Replicasets : topo'[q].roles = topo[q].roles
         /\ \A q \in Replicasets \ {rs} : topo'[q] = topo[q]
BY DEF TypeOK, TopoType, SetWeight, Specs

\* The end of a reconcile.  It comes to rest only in the phase it already had.
LEMMA EndStep ==
  ASSUME VShardInv, NEW newPhase \in Phases, NEW requeue \in BOOLEAN, End(newPhase, requeue),
         topo' \in TopoType,
         requeue \/ ~fresh \/ (UNCHANGED topo /\ \A rs \in Replicasets : Configured(rs))
  PROVE  VShardInv'
<1>1. TypeOK'
  BY DEF VShardInv, TypeOK, TopoType, End
<1>2. Progress'
  BY DEF VShardInv, Progress, End
<1>3. ReadyMeansConfigured'
  BY DEF ReadyMeansConfigured, AtRest, End, Configured, Enabled
<1> QED  BY <1>1, <1>2, <1>3 DEF VShardInv

\* A replicaset is visited in ConfigureVShardRolesStep.
LEMMA RolesVisited ==
  ASSUME VShardInv, NEW rs \in left, RolesAsDesired(rs) \/ RolesSet(rs) \/ RolesFail(rs)
  PROVE  VShardInv'
<1>1. /\ rs \in Replicasets /\ pc = "roles" /\ left' = left \ {rs}
      /\ UNCHANGED <<spec, phase, queued, bootstrapped, pc, copy, fresh, sawBootstrapped>>
  BY DEF VShardInv, TypeOK, RolesAsDesired, RolesSet, RolesFail, Visit
<1>2. \/ UNCHANGED topo
      \/ SetReplicasetRoles(rs, copy.roles)
  BY DEF RolesAsDesired, RolesSet, RolesFail
<1>3. topo' \in TopoType /\ \A q \in Replicasets \ {rs} : topo'[q] = topo[q]
  BY <1>1, <1>2, RolesEffect DEF VShardInv, TypeOK, TopoType
<1>4. allConfigured' => Enabled(rs, copy.roles)' /\ allConfigured
  <2>1. CASE RolesAsDesired(rs)
    BY <1>1, <2>1 DEF RolesAsDesired, Reported, IsVShardRolesEquals, Enabled, VShardRolesToMap
  <2>2. CASE RolesSet(rs)
    BY <1>1, <2>2, RolesEffect DEF RolesSet, VShardInv
  <2>3. CASE RolesFail(rs)
    BY <2>3 DEF RolesFail
  <2> QED  BY <2>1, <2>2, <2>3
<1>5. TypeOK'
  BY <1>1, <1>3 DEF VShardInv, TypeOK, TopoType, RolesAsDesired, RolesSet, RolesFail
<1>6. ASSUME allConfigured', NEW q \in Replicasets \ left'  PROVE Enabled(q, copy.roles)'
  <2>1. CASE q = rs
    BY <1>4, <1>6, <2>1
  <2>2. CASE q # rs
    <3>1. Enabled(q, copy.roles) /\ topo'[q] = topo[q]
      BY <1>1, <1>3, <1>4, <1>6, <2>2 DEF VShardInv, Progress
    <3> QED  BY <1>1, <3>1 DEF Enabled, VShardRolesToMap
  <2> QED  BY <2>1, <2>2
<1>7. Progress'
  BY <1>1, <1>6 DEF VShardInv, Progress
<1>8. ReadyMeansConfigured'
  BY <1>1 DEF ReadyMeansConfigured, AtRest
<1> QED  BY <1>5, <1>7, <1>8 DEF VShardInv

\* A replicaset is visited in SetVShardWeightsStep.
LEMMA WeightVisited ==
  ASSUME VShardInv, NEW rs \in left, WeightSet(rs)
  PROVE  VShardInv'
<1>1. /\ rs \in Replicasets /\ pc = "weights" /\ left' = left \ {rs}
      /\ SetWeight(rs, copy.weight)
      /\ UNCHANGED <<spec, phase, queued, bootstrapped, pc, copy, fresh, sawBootstrapped,
                     allConfigured>>
  BY DEF VShardInv, TypeOK, WeightSet, Visit
<1>2. /\ topo' \in TopoType
      /\ topo'[rs].weight = copy.weight
      /\ \A q \in Replicasets : topo'[q].roles = topo[q].roles
      /\ \A q \in Replicasets \ {rs} : topo'[q] = topo[q]
  BY <1>1, WeightEffect DEF VShardInv
<1>3. TypeOK'
  BY <1>1, <1>2 DEF VShardInv, TypeOK, TopoType
<1>4. \A q \in Replicasets : Enabled(q, copy.roles)'
  BY <1>1, <1>2 DEF VShardInv, Progress, Enabled, VShardRolesToMap
<1>5. \A q \in Replicasets \ left' : topo'[q].weight = copy'.weight
  BY <1>1, <1>2 DEF VShardInv, Progress
<1>6. Progress'
  BY <1>1, <1>4, <1>5 DEF VShardInv, Progress
<1>7. ReadyMeansConfigured'
  BY <1>1 DEF ReadyMeansConfigured, AtRest
<1> QED  BY <1>3, <1>6, <1>7 DEF VShardInv

\* The invariant is inductive.
LEMMA StepInv == VShardInv /\ [Next]_vars => VShardInv'
<1> SUFFICES ASSUME VShardInv, [Next]_vars  PROVE VShardInv'
  OBVIOUS
<1>0. topo \in TopoType
  BY DEF VShardInv, TypeOK, TopoType
<1>1. CASE Begin
  BY <1>1 DEF Begin, VShardInv, TypeOK, Progress, ReadyMeansConfigured, AtRest
<1>2. ASSUME NEW rs \in left, RolesAsDesired(rs) \/ RolesSet(rs) \/ RolesFail(rs)  PROVE VShardInv'
  BY <1>2, RolesVisited
<1>3. ASSUME NEW rs \in left, WeightSet(rs)  PROVE VShardInv'
  BY <1>3, WeightVisited
<1>4. CASE \/ EarlierStepFails \/ RolesIncomplete \/ WaitForClusterBootstrapped
           \/ \E rs \in left : WeightRefused(rs)
  <2>1. UNCHANGED topo /\ \E newPhase \in Phases : End(newPhase, TRUE)
    BY <1>4 DEF EarlierStepFails, RolesIncomplete, WaitForClusterBootstrapped, WeightRefused, Phases
  <2> QED  BY <1>0, <2>1, EndStep
<1>5. ASSUME NEW rs \in left, WeightFail(rs)  PROVE VShardInv'
  <2>1. rs \in Replicasets /\ End("ConfiguringWeights", TRUE) /\ "ConfiguringWeights" \in Phases
    BY <1>5 DEF WeightFail, VShardInv, TypeOK, Phases
  <2>2. topo' \in TopoType
    BY <1>0, <1>5, <2>1, WeightEffect DEF WeightFail, VShardInv
  <2> QED  BY <2>1, <2>2, EndStep
<1>6. CASE GoOnToWeights
  BY <1>6 DEF GoOnToWeights, VShardInv, TypeOK, Progress, ReadyMeansConfigured, AtRest, Enabled,
              VShardRolesToMap
<1>7. CASE Ready
  <2>1. End("Ready", FALSE) /\ UNCHANGED topo /\ "Ready" \in Phases
    BY <1>7 DEF Ready, Phases
  <2>2. fresh => \A rs \in Replicasets : Configured(rs)
    BY <1>7 DEF Ready, VShardInv, Progress, Configured
  <2> QED  BY <1>0, <2>1, <2>2, EndStep
<1>8. ASSUME NEW new \in Specs, EditSpec(new)  PROVE VShardInv'
  BY <1>8 DEF EditSpec, VShardInv, TypeOK, Progress, ReadyMeansConfigured, AtRest, Enabled,
              VShardRolesToMap
<1>9. CASE BootstrapCluster \/ UNCHANGED vars
  <2>1. /\ UNCHANGED <<spec, phase, queued, topo, pc, copy, fresh, sawBootstrapped, left, allConfigured>>
        /\ bootstrapped' \in BOOLEAN /\ (bootstrapped => bootstrapped')
    BY <1>9 DEF BootstrapCluster, vars, VShardInv, TypeOK
  <2>2. TypeOK'
    BY <2>1 DEF VShardInv, TypeOK
  <2>3. \A q \in Replicasets : Enabled(q, copy.roles)' <=> Enabled(q, copy.roles)
    BY <2>1 DEF Enabled, VShardRolesToMap
  <2>4. Progress'
    BY <2>1, <2>3 DEF VShardInv, Progress
  <2>5. ReadyMeansConfigured'
    BY <2>1 DEF VShardInv, ReadyMeansConfigured, AtRest, Configured, Enabled, VShardRolesToMap
  <2> QED  BY <2>2, <2>4, <2>5 DEF VShardInv
<1>10. CASE Restart
  BY <1>10 DEF Restart, VShardInv, TypeOK, Progress, ReadyMeansConfigured, AtRest
<1> QED
  BY <1>1, <1>2, <1>3, <1>4, <1>5, <1>6, <1>7, <1>8, <1>9, <1>10 DEF Next, Work, Fault

\* The invariant holds initially.
LEMMA InitInv == Init => VShardInv
<1> SUFFICES ASSUME Init  PROVE VShardInv
  OBVIOUS
<1>1. spec.roles \in RoleSets /\ spec.weight \in Weights
  BY DEF Init, Specs
<1>2. VShardRolesToMap(spec.roles) \in SUBSET RoleNames
  BY <1>1, MapTyped
<1>3. TypeOK
  <2> DEFINE roleSet == {VShardRolesToMap(spec.roles)}
             weightSet == IF spec.weight = 0 THEN Weights ELSE {spec.weight}
  <2>1. topo \in [Replicasets -> [roles : roleSet, weight : weightSet]]
    BY DEF Init
  <2>2. roleSet \subseteq SUBSET RoleNames /\ weightSet \subseteq Weights
    BY <1>1, <1>2
  <2> HIDE DEF roleSet, weightSet
  <2>3. topo \in TopoType
    BY <2>1, <2>2 DEF TopoType
  <2> QED  BY <2>3 DEF Init, TypeOK, TopoType, Phases
<1>4. Progress /\ ReadyMeansConfigured
  BY DEF Init, Progress, ReadyMeansConfigured, AtRest
<1> QED  BY <1>3, <1>4 DEF VShardInv

\* Replicasets already visited have what the copy of the spec asks for, and a
\* copy that is out of date is not written, whatever calls fail, and whichever
\* have been executed although they did.
THEOREM VShardInvariant == Spec => []VShardInv
BY InitInv, StepInv, PTL DEF Spec

\* A Role that rests in the phase Ready has its present roles and weight in
\* every replicaset: the edit of a user during the reconcile, or a replicaset
\* that could not be configured, never ends there.
THEOREM ReadyConfigured == Spec => []ReadyMeansConfigured
<1>1. VShardInv => ReadyMeansConfigured
  BY DEF VShardInv
<1> QED  BY <1>1, VShardInvariant, PTL

-----------------------------------------------------------------------------
(* Weights are edited last.                                                *)

\* What WeightsLast says of one step.
Last ==
  \A rs \in Replicasets : topo'[rs].weight # topo[rs].weight =>
    /\ bootstrapped
    /\ \A q \in Replicasets : Enabled(q, copy.roles)

\* Weights change in the last step only, past the configuration of the roles.
LEMMA LastStep == VShardInv /\ [Next]_vars => [Last]_vars
<1> SUFFICES ASSUME VShardInv, Next  PROVE Last
  OBVIOUS
<1>1. CASE UNCHANGED topo
  BY <1>1 DEF Last
<1>2. CASE pc = "weights"
  BY <1>2 DEF VShardInv, Progress, Last
<1>3. ASSUME NEW rs \in left, RolesSet(rs) \/ RolesFail(rs)  PROVE Last
  <2>1. rs \in Replicasets /\ (UNCHANGED topo \/ SetReplicasetRoles(rs, copy.roles))
    BY <1>3 DEF RolesSet, RolesFail, VShardInv, TypeOK
  <2> QED  BY <2>1, RolesEffect DEF VShardInv, Last
<1>4. CASE \/ Begin \/ RolesIncomplete \/ WaitForClusterBootstrapped \/ GoOnToWeights \/ Ready
           \/ Restart \/ EarlierStepFails \/ BootstrapCluster
           \/ \E rs \in left : RolesAsDesired(rs) \/ WeightSet(rs) \/ WeightFail(rs)
                               \/ WeightRefused(rs)
           \/ \E new \in Specs : EditSpec(new)
  BY <1>1, <1>2, <1>4 DEF Begin, RolesIncomplete, WaitForClusterBootstrapped, GoOnToWeights, Ready,
       Restart, EarlierStepFails, BootstrapCluster, RolesAsDesired, WeightSet, WeightFail, WeightRefused,
       Visit, EditSpec
<1> QED  BY <1>3, <1>4 DEF Next, Work, Fault

\* The weight of a replicaset is changed only in a bootstrapped cluster, when
\* all replicasets have the roles of the copy the weight comes from.
THEOREM WeightsAfterRoles == Spec => WeightsLast
<1>1. VShardInv /\ [Next]_vars => [Last]_vars
  BY LastStep
<1> QED  BY <1>1, VShardInvariant, PTL DEF Spec, WeightsLast, Last

-----------------------------------------------------------------------------
(* The controller is level-triggered.                                      *)

\* Of the steps after which the controller sleeps, only the last of a reconcile
\* that got through finds it awake; the others change nothing.
LEMMA SleepStep ==
  ASSUME VShardInv, [Next]_vars, pc' = "idle", ~queued'
  PROVE  \/ Ready /\ fresh
         \/ pc = "idle" /\ ~queued /\ UNCHANGED <<spec, topo>>
<1>1. CASE Ready
  BY <1>1 DEF Ready, End
<1>2. CASE \/ Begin \/ RolesIncomplete \/ WaitForClusterBootstrapped \/ GoOnToWeights
           \/ Restart \/ EarlierStepFails
           \/ \E rs \in left : RolesAsDesired(rs) \/ RolesSet(rs) \/ WeightSet(rs)
                               \/ RolesFail(rs) \/ WeightFail(rs) \/ WeightRefused(rs)
           \/ \E new \in Specs : EditSpec(new)
  BY <1>2 DEF Begin, RolesIncomplete, WaitForClusterBootstrapped, GoOnToWeights, Restart,
       EarlierStepFails, RolesAsDesired, RolesSet, WeightSet, RolesFail, WeightFail,
       WeightRefused, EditSpec, Visit, End
<1>3. CASE BootstrapCluster \/ UNCHANGED vars
  BY <1>3 DEF BootstrapCluster, vars
<1> QED  BY <1>1, <1>2, <1>3 DEF Next, Work, Fault

\* A reconcile that got through has configured every replicaset.
LEMMA ReadyConfigures ==
  ASSUME VShardInv, Ready, fresh
  PROVE  UNCHANGED <<spec, topo>> /\ \A rs \in Replicasets : Configured(rs)
BY DEF VShardInv, Progress, Ready, End, Configured

\* Every step is one of a level-triggered controller.
LEMMA ControllerStep ==
  VShardInv /\ [Next]_vars =>
    [Controller!Next]_<<spec, topo, \A rs \in Replicasets : Configured(rs), pc # "idle" \/ queued>>
<1> SUFFICES ASSUME VShardInv, [Next]_vars, pc' = "idle", ~queued'
             PROVE  Controller!Rest \/ (pc = "idle" /\ ~queued /\ UNCHANGED <<spec, topo>>)
  BY DEF Controller!Next, Controller!Act, Configured, Enabled, VShardRolesToMap
<1>1. CASE Ready /\ fresh
  <2>1. UNCHANGED <<spec, topo>> /\ \A rs \in Replicasets : Configured(rs)
    BY <1>1, ReadyConfigures
  <2>2. \A rs \in Replicasets : Configured(rs)'
    BY <2>1 DEF Configured, Enabled, VShardRolesToMap
  <2> QED  BY <1>1, <2>1, <2>2 DEF Controller!Rest, Ready
<1> QED  BY <1>1, SleepStep

\* The controller rests only when every replicaset is configured, and wakes up for
\* every edit of the Role's spec: a reconcile of an older spec, of roles that could
\* not be set or of a cluster that is not bootstrapped asks for another one.
THEOREM ConfigureTriggered == Spec => ImplementsController
<1>1. Init => Controller!Init
  BY DEF Init, Controller!Init
<1> QED  BY <1>1, ControllerStep, VShardInvariant, PTL DEF Spec, ImplementsController, Controller!Spec, Controller!vars

-----------------------------------------------------------------------------
(* What is configured is left alone.                                       *)

\* An edit of a replicaset that is as the worker's copy of the spec wants it
\* changes nothing.
LEMMA EditsOfConfigured ==
  ASSUME VShardInv, Steady, pc # "idle", NEW rs \in Replicasets,
         SetReplicasetRoles(rs, copy.roles) \/ SetWeight(rs, copy.weight)
  PROVE  topo' = topo
<1>1. topo \in TopoType /\ copy = spec /\ Configured(rs)
  BY DEF VShardInv, TypeOK, TopoType, Steady
<1>2. topo[rs] \in [roles : SUBSET RoleNames, weight : Weights] /\ topo[rs].weight = copy.weight
  BY <1>1 DEF TopoType, Configured
<1>3. CASE SetReplicasetRoles(rs, copy.roles)
  <2>1. copy.roles # {} => topo[rs].roles = VShardRolesToMap(copy.roles)
    BY <1>1 DEF Configured, Enabled
  <2>2. CASE copy.roles # {}
    <3>1. topo' = [topo EXCEPT ![rs].roles = topo[rs].roles]
      BY <1>3, <2>1, <2>2 DEF SetReplicasetRoles
    <3> QED  BY <1>1, <1>2, <3>1 DEF TopoType
  <2> QED  BY <1>3, <2>2 DEF SetReplicasetRoles
<1>4. CASE SetWeight(rs, copy.weight)
  <2>1. topo' = [topo EXCEPT ![rs].weight = topo[rs].weight]
    BY <1>2, <1>4 DEF SetWeight
  <2> QED  BY <1>1, <1>2, <2>1 DEF TopoType
<1> QED  BY <1>3, <1>4

\* What SteadyKept says of one step.
Still == Steady /\ (Work \/ Fault) => Steady' /\ topo' = topo

\* No step of the worker changes a steady topology, whichever calls fail.
LEMMA StillStep == VShardInv => Still
<1> SUFFICES ASSUME VShardInv, Steady, Work \/ Fault
             PROVE  /\ UNCHANGED <<spec, topo>>
                    /\ pc' # "idle" => copy' = spec
  BY DEF Still, Steady, Configured, Enabled, VShardRolesToMap
<1>1. CASE \/ Begin \/ RolesIncomplete \/ WaitForClusterBootstrapped \/ GoOnToWeights \/ Ready
           \/ Restart \/ EarlierStepFails
  BY <1>1 DEF Begin, RolesIncomplete, WaitForClusterBootstrapped, GoOnToWeights, Ready, Restart,
       EarlierStepFails, End, Steady
<1>2. ASSUME NEW rs \in left, \/ RolesAsDesired(rs) \/ RolesSet(rs) \/ RolesFail(rs)
                              \/ WeightSet(rs) \/ WeightFail(rs) \/ WeightRefused(rs)
      PROVE  /\ UNCHANGED <<spec, topo>>
             /\ pc' # "idle" => copy' = spec
  <2>1. rs \in Replicasets
    BY DEF VShardInv, TypeOK
  <2>2. pc # "idle" /\ UNCHANGED spec /\ (pc' = "idle" \/ UNCHANGED copy)
    BY <1>2 DEF RolesAsDesired, RolesSet, RolesFail, WeightSet, WeightFail, WeightRefused,
         Visit, End
  <2>3. \/ UNCHANGED topo
        \/ SetReplicasetRoles(rs, copy.roles) \/ SetWeight(rs, copy.weight)
    BY <1>2 DEF RolesAsDesired, RolesSet, RolesFail, WeightSet, WeightFail, WeightRefused
  <2> QED  BY <2>1, <2>2, <2>3, EditsOfConfigured DEF Steady
<1> QED  BY <1>1, <1>2 DEF Work, Fault

\* Once every replicaset is configured, reconciling the Role over and over, calls
\* that fail after they were carried out, and restarts change nothing in the
\* topology: an empty list of roles, which never compares equal to the roles a
\* replicaset has, is set again and again and does nothing.
THEOREM ConfiguredSteady == Spec => SteadyKept
<1>1. VShardInv /\ [Next]_vars => [Still]_vars
  BY StillStep
<1> QED  BY <1>1, VShardInvariant, PTL DEF Spec, SteadyKept, Still

-----------------------------------------------------------------------------
(* The work that is left comes to an end.                                  *)

\* Of two measures the first one decides.
LEMMA FirstDecides ==
  ASSUME NEW n \in Nat, NEW a \in Nat, NEW b \in Nat, NEW c \in Nat, NEW d \in Nat,
         a < b, c <= n
  PROVE  a * (n + 1) + c < b * (n + 1) + d
<1>1. (a + 1) * (n + 1) = a * (n + 1) + n + 1
  OBVIOUS
<1>2. (a + 1) * (n + 1) <= b * (n + 1)
  OBVIOUS
<1>3. a * (n + 1) \in Nat /\ b * (n + 1) \in Nat
  OBVIOUS
<1> QED  BY <1>1, <1>2, <1>3

\* How far the worker is from the end, the replicasets of the step aside.
Distance == 3 * ReconcilesAhead + StepsAhead

\* The distance is small, and what is left of a step finite.
LEMMA EffortParts ==
  ASSUME IsFiniteSet(Replicasets), left \in SUBSET Replicasets
  PROVE  /\ Distance \in 0 .. 8
         /\ Cardinality(Replicasets) \in Nat
         /\ Cardinality(left) \in 0 .. Cardinality(Replicasets)
         /\ \A rs \in left : Cardinality(left \ {rs}) = Cardinality(left) - 1
         /\ Effort = Distance * (Cardinality(Replicasets) + 1) + Cardinality(left)
<1>1. Distance \in 0 .. 8
  BY DEF Distance, ReconcilesAhead, StepsAhead
<1>2. IsFiniteSet(left) /\ Cardinality(left) <= Cardinality(Replicasets)
  BY FS_Subset
<1>3. Cardinality(Replicasets) \in Nat /\ Cardinality(left) \in Nat
  BY <1>2, FS_CardinalityType
<1>4. \A rs \in left : Cardinality(left \ {rs}) = Cardinality(left) - 1
  BY <1>2, FS_RemoveElement
<1> QED  BY <1>1, <1>2, <1>3, <1>4 DEF Effort, Distance

\* A step that comes closer to the end, or no further from it and visits a
\* replicaset, leaves less to do.
LEMMA EffortFalls ==
  ASSUME IsFiniteSet(Replicasets), left \in SUBSET Replicasets, left' \in SUBSET Replicasets,
         \/ Distance' < Distance
         \/ Distance' <= Distance /\ \E rs \in left : left' = left \ {rs}
  PROVE  Effort' < Effort
<1> DEFINE n == Cardinality(Replicasets)
           a == 3 * ReconcilesAhead' + StepsAhead'
           c == Cardinality(left')
<1>1. /\ Distance \in 0 .. 8 /\ n \in Nat /\ Cardinality(left) \in 0 .. n
      /\ \A rs \in left : Cardinality(left \ {rs}) = Cardinality(left) - 1
      /\ Effort = Distance * (n + 1) + Cardinality(left)
  BY EffortParts
<1>2. a \in 0 .. 8
  BY DEF ReconcilesAhead, StepsAhead
<1>3. c \in 0 .. n
  <2>1. IsFiniteSet(left') /\ Cardinality(left') <= n
    BY FS_Subset
  <2> QED  BY <1>1, <2>1, FS_CardinalityType
<1>4. Effort' = a * (n + 1) + c /\ Distance' = a
  BY DEF Effort, Distance
<1> HIDE DEF n, a, c
<1>5. CASE a < Distance
  BY <1>1, <1>2, <1>3, <1>4, <1>5, FirstDecides
<1>6. CASE a = Distance /\ c = Cardinality(left) - 1
  <2>1. a * (n + 1) \in Nat
    BY <1>1, <1>2
  <2> QED  BY <1>1, <1>3, <1>4, <1>6, <2>1
<1>7. a < Distance \/ (a <= Distance /\ c = Cardinality(left) - 1)
  BY <1>1, <1>4 DEF c
<1> QED  BY <1>1, <1>2, <1>5, <1>6, <1>7

\* What SettlesDown says of one step.
Settling == bootstrapped /\ Acceptable /\ Work => Effort' < Effort

\* Cartridge refuses a weight of an acceptable Role only if the worker has it from an
\* older one, and so reconciles the Role again.
LEMMA RefusedIsOld ==
  ASSUME VShardInv, Acceptable, NEW rs \in left, WeightRefused(rs)
  PROVE  ~fresh
<1> SUFFICES ASSUME fresh  PROVE FALSE
  OBVIOUS
<1>1. /\ rs \in Replicasets /\ pc = "weights"
      /\ copy.weight = 0 /\ ~OtherStorages /\ Storage \in topo[rs].roles
  BY DEF WeightRefused, LastStorage, VShardInv, TypeOK
<1>2. copy = spec /\ Enabled(rs, spec.roles)
  BY <1>1 DEF VShardInv, Progress
<1>3. spec.roles # {} /\ Storage \notin VShardRolesToMap(spec.roles)
  BY <1>1, <1>2 DEF Acceptable
<1> QED  BY <1>1, <1>2, <1>3 DEF Enabled

\* A step of a reconcile comes closer to its end.  The end of one that is done again
\* leaves as much to do as was counted, that of the others no reconcile but the one
\* their change of the phase brings.
LEMMA SettlingStep ==
  ASSUME IsFiniteSet(Replicasets), VShardInv, TypeOK'
  PROVE  Settling
<1> SUFFICES ASSUME bootstrapped, Acceptable, Work  PROVE Effort' < Effort
  BY DEF Settling
<1>0. left \in SUBSET Replicasets /\ left' \in SUBSET Replicasets
  BY DEF VShardInv, TypeOK
<1>1. CASE Begin
  <2>1. pc = "idle" /\ queued /\ pc' = "roles" /\ ~queued' /\ fresh' /\ allConfigured' /\ sawBootstrapped'
        /\ UNCHANGED phase
    BY <1>1 DEF Begin
  <2>2. ~Redo' /\ ~Redo
    BY <2>1 DEF Redo
  <2>3. ReconcilesAhead' = ReconcilesAhead - 1 /\ ReconcilesAhead \in 1 .. 2
    BY <2>1, <2>2 DEF ReconcilesAhead
  <2>4. Distance' < Distance
    BY <2>1, <2>3 DEF Distance, StepsAhead
  <2> QED  BY <1>0, <2>4, EffortFalls
<1>2. ASSUME NEW rs \in left, RolesAsDesired(rs) \/ RolesSet(rs) \/ WeightSet(rs)
      PROVE  Effort' < Effort
  <2>1. left' = left \ {rs} /\ UNCHANGED <<phase, queued, pc, fresh, allConfigured, sawBootstrapped>>
    BY <1>2 DEF RolesAsDesired, RolesSet, WeightSet, Visit
  <2>2. Redo' = Redo
    BY <2>1 DEF Redo
  <2>3. ReconcilesAhead' = ReconcilesAhead /\ StepsAhead' = StepsAhead
    BY <2>1, <2>2 DEF ReconcilesAhead, StepsAhead
  <2>4. Distance' <= Distance
    BY <2>3 DEF Distance, ReconcilesAhead, StepsAhead
  <2> QED  BY <1>0, <2>1, <2>4, EffortFalls
<1>3. CASE GoOnToWeights
  <2>1. pc = "roles" /\ pc' = "weights" /\ allConfigured /\ sawBootstrapped
        /\ UNCHANGED <<phase, queued, fresh, allConfigured, sawBootstrapped>>
    BY <1>3 DEF GoOnToWeights
  <2>2. Redo' <=> Redo
    BY <2>1 DEF Redo
  <2>3. ReconcilesAhead' = ReconcilesAhead
    BY <2>1, <2>2 DEF ReconcilesAhead
  <2>4. Distance' < Distance
    BY <2>1, <2>3 DEF Distance, ReconcilesAhead, StepsAhead
  <2> QED  BY <1>0, <2>4, EffortFalls
<1>4. CASE \/ RolesIncomplete \/ WaitForClusterBootstrapped \/ Ready
           \/ \E rs \in left : WeightRefused(rs)
  <2>1. pc # "idle" /\ pc' = "idle" /\ ~Redo'
    BY <1>4 DEF RolesIncomplete, WaitForClusterBootstrapped, Ready, WeightRefused, End, Redo
  <2>2. CASE Redo
    <3>1. ReconcilesAhead = 2 /\ ReconcilesAhead' <= 2
      BY <2>1, <2>2 DEF ReconcilesAhead
    <3> QED  BY <1>0, <2>1, <3>1, EffortFalls DEF Distance, ReconcilesAhead, StepsAhead, VShardInv, TypeOK
  <2>3. CASE ~Redo
    <3>1. Ready /\ fresh
      BY <1>4, <2>1, <2>3, RefusedIsOld DEF RolesIncomplete, WaitForClusterBootstrapped, Redo
    <3>2. phase' = "Ready" /\ (queued' => queued \/ phase # "Ready")
      BY <3>1 DEF Ready, End
    <3>3. ReconcilesAhead' <= ReconcilesAhead
      BY <2>1, <2>3, <3>2 DEF ReconcilesAhead
    <3> QED  BY <1>0, <2>1, <3>3, EffortFalls DEF Distance, ReconcilesAhead, StepsAhead, VShardInv, TypeOK
  <2> QED  BY <2>2, <2>3
<1> QED  BY <1>1, <1>2, <1>3, <1>4 DEF Work

\* Once the cluster is bootstrapped there is work for three reconciles at most, unless
\* a user edits the Role, an edit fails, or the weight asked for is one that Cartridge
\* refuses for good: one that ends in a conflict or with roles that could not be set,
\* one that sets them and writes the phase, and the one that this event brings.  By ConfigureTriggered the Role is configured when they end.
THEOREM ConfigureSettles ==
  ASSUME IsFiniteSet(Replicasets)
  PROVE  Spec => SettlesDown /\ []EffortBounded
<1>1. VShardInv /\ VShardInv' /\ [Next]_vars => [Settling]_vars
  BY SettlingStep DEF VShardInv
<1>2. VShardInv => EffortBounded
  <2> SUFFICES ASSUME VShardInv  PROVE EffortBounded
    OBVIOUS
  <2> DEFINE n == Cardinality(Replicasets)
  <2>1. /\ Distance \in 0 .. 8 /\ n \in Nat /\ Cardinality(left) \in 0 .. n
        /\ Effort = Distance * (n + 1) + Cardinality(left)
    BY EffortParts DEF VShardInv, TypeOK
  <2>2. ASSUME Effort = 0  PROVE AtRest
    <3>1. Distance = 0
      <4>1. Distance > 0 => Distance * (n + 1) >= n + 1
        BY <2>1
      <4> HIDE DEF n
      <4> QED  BY <2>1, <2>2, <4>1
    <3>2. ReconcilesAhead = 0 /\ StepsAhead = 0
      BY <3>1 DEF Distance, ReconcilesAhead, StepsAhead
    <3>3. pc = "idle"
      BY <3>2 DEF StepsAhead, VShardInv, TypeOK
    <3> QED  BY <3>2, <3>3 DEF ReconcilesAhead, AtRest
  <2>3. Effort \in 0 .. 9 * (n + 1)
    <3>1. Distance * (n + 1) \in 0 .. 8 * (n + 1)
      BY <2>1
    <3> HIDE DEF n
    <3> QED  BY <2>1, <3>1
  <2> QED  BY <2>2, <2>3 DEF EffortBounded
<1> QED
  BY <1>1, <1>2, VShardInvariant, PTL DEF Spec, SettlesDown, Settling
==============================================================================
