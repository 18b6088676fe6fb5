------------------------- MODULE ClusterService_proofs -------------------------
(***************************************************************************)
(* Theorems about ClusterService, for any ports, edits and number of       *)
(* Clusters of the name: a Cluster at rest has its Service, the Service of *)
(* a stranger is never written, and every call to an instance is a remote  *)
(* call.                                                                   *)
(***************************************************************************)
EXTENDS ClusterService, TLAPS

-------------------------------------------------------------------------------
(* Facts about PodExec: whatever the transport and the caller do, Lua is  *)
(* executed at most once and a result is that of an execution.            *)


\* All that can happen to a call.
ExecNext == Exec \/ Transport \/ TransportFault \/ PodRestarts \/ Taken \/ Dropped

ExecInv == ExecTypeOK /\ ExecOnce

\* Before the first call nothing has been executed.
LEMMA ExecInvInit == ExecInit => ExecInv /\ Remote!Init
BY DEF ExecInit, ExecInv, ExecTypeOK, ExecOnce, Outputs, Remote!Init

\* A call keeps count of its executions: there is output only after one.
LEMMA ExecInvStep == ExecInv /\ [ExecNext]_execVars => ExecInv'
<1> SUFFICES ASSUME ExecInv, [ExecNext]_execVars
             PROVE  ExecInv'
  OBVIOUS
<1> USE DEF ExecInv, ExecTypeOK, ExecOnce, Outputs
<1>1. CASE Exec
  BY <1>1 DEF Exec, GoTo
<1>2. CASE Transport
  BY <1>2 DEF Transport, Dial, Execute, StreamEnds, Unmarshal, GoTo
<1>3. CASE TransportFault \/ PodRestarts
  BY <1>3 DEF TransportFault, DialFails, StreamBreaks, Hang, PodRestarts, GoTo
<1>4. CASE Taken \/ Dropped
  BY <1>4 DEF Taken, Dropped, Forgotten
<1>5. CASE UNCHANGED execVars
  BY <1>5 DEF execVars
<1> QED  BY <1>1, <1>2, <1>3, <1>4, <1>5 DEF ExecNext

\* Every step of a call is one of a remote call, or none.
LEMMA RemoteStep ==
  ExecInv /\ [ExecNext]_execVars
    => [Remote!Next]_<<IF stage \in {"none", "ok", "error"} THEN stage ELSE "pending", runs>>
<1> SUFFICES ASSUME ExecInv, [ExecNext]_execVars
             PROVE  [Remote!Next]_<<IF stage \in {"none", "ok", "error"} THEN stage ELSE "pending", runs>>
  OBVIOUS
<1> USE DEF ExecInv, ExecTypeOK, ExecOnce, Outputs, Remote!Next
<1>1. CASE Exec
  BY <1>1 DEF Exec, GoTo, Remote!Call
<1>2. CASE Transport
  <2>1. CASE Dial \/ StreamEnds
    BY <2>1 DEF Dial, StreamEnds, GoTo
  <2>2. CASE Execute
    BY <2>2 DEF Execute, Remote!Execute
  <2>3. CASE Unmarshal
    BY <2>3 DEF Unmarshal, GoTo, Remote!Return, Remote!Fail
  <2> QED  BY <1>2, <2>1, <2>2, <2>3 DEF Transport
<1>3. CASE TransportFault \/ PodRestarts
  BY <1>3 DEF TransportFault, DialFails, StreamBreaks, Hang, PodRestarts, GoTo, Remote!Fail
<1>4. CASE Taken \/ Dropped
  BY <1>4 DEF Taken, Dropped, Forgotten, Remote!Forget
<1>5. CASE UNCHANGED execVars
  BY <1>5 DEF execVars
<1> QED  BY <1>1, <1>2, <1>3, <1>4, <1>5 DEF ExecNext

-------------------------------------------------------------------------------
(* Services and Clusters.                                                  *)

\* A Service that can be stored has a target port, and there is one.
LEMMA StoredServices ==
  ASSUME NEW s \in Services
  PROVE  s \in Drafts /\ s.target \in Ports /\ s # Nothing
BY ServiceAssumption DEF Services, Drafts, Defaulted

\* What the operator writes for a Cluster can be stored.
LEMMA WrittenService ==
  ASSUME NEW c \in Clusters
  PROVE  Defaulted(Synced(c)) \in Services
BY DEF Clusters, Synced, Defaulted, Services, Drafts, Owners

\* And it is the Service the Cluster is served with, which it controls.
LEMMA WrittenServes ==
  ASSUME NEW c \in Clusters
  PROVE  /\ Defaulted(Synced(c)) = Defaulted([owner |-> c.uid, wired |-> TRUE,
              headless |-> TRUE, port |-> c.port, target |-> Unset])
         /\ Controlled(Defaulted(Synced(c)))
<1>1. Defaulted(Synced(c)) # Nothing
  BY WrittenService, StoredServices
<1> QED  BY <1>1 DEF Clusters, Synced, Defaulted, Controlled

\* The step finds something to write in every Service that is stored: the ports
\* it compares have no target.
LEMMA AlwaysChanged ==
  ASSUME NEW s \in Services, NEW c \in Clusters
  PROVE  Changed(s, c)
<1>1. s.target \in Ports
  BY StoredServices
<1>2. Synced(c).target = Unset
  BY DEF Synced
<1> QED  BY <1>1, <1>2, ServiceAssumption DEF Changed

-------------------------------------------------------------------------------
(* The calls to the instances.                                             *)

\* A step of the controller is a step of the call it makes, or leaves it alone.
LEMMA StepsOfCalls == [Next]_vars => [ExecNext]_execVars
<1> SUFFICES ASSUME [Next]_vars
             PROVE  [ExecNext]_execVars
  OBVIOUS
<1>1. CASE Reconcile
  BY <1>1 DEF Reconcile, Begin, CheckDeletion, ServiceOfStranger, GetService, CreateObject,
    AlreadyExists, UpdateObject, UpdateRefused, RolesNotReady, CallInstance, CallReturns,
    UpdateStatus, Save, ExecNext
<1>2. CASE (Transport \/ PodRestarts) /\ Others
  BY <1>2 DEF ExecNext
<1>3. CASE DeliverCluster \/ DeliverService \/ Collect
  BY <1>3 DEF DeliverCluster, DeliverService, Collect, CollectService, FinalizeCluster,
    ClusterChanges
<1>4. CASE RequestFails
  BY <1>4 DEF RequestFails
<1>5. CASE Restart
  BY <1>5 DEF Restart, ExecNext
<1>6. CASE TransportFault /\ Others
  BY <1>6 DEF ExecNext
<1>7. CASE Users
  BY <1>7 DEF Users, EditCluster, DeleteCluster, CreateCluster, EditService, ClusterChanges
<1>8. CASE UNCHANGED vars
  BY <1>8 DEF vars
<1> QED  BY <1>1, <1>2, <1>3, <1>4, <1>5, <1>6, <1>7, <1>8 DEF Next, Calm

-------------------------------------------------------------------------------
(* The inductive invariant.                                                *)

\* At first the caches are up to date and the Cluster is in the queue.
LEMMA InitServiceInv == Init => ServiceInv
<1> SUFFICES ASSUME Init
             PROVE  ServiceInv
  OBVIOUS
<1>1. ExecTypeOK /\ ExecOnce
  BY ExecInvInit DEF Init, ExecInv
<1>2. TypeOK
  <2>1. 1 \in UIDs
    BY ServiceAssumption DEF UIDs
  <2>2. cluster \in Clusters
    BY <2>1 DEF Init, Clusters
  <2>3. service \in Services \cup {Nothing}
    BY ServiceAssumption DEF Init
  <2>4. outcome \in [phase : Phases, error : BOOLEAN]
    BY DEF Init, NoOutcome, Phases
  <2> QED  BY <1>1, <2>2, <2>3, <2>4 DEF Init, TypeOK, Phases
<1> QED  BY <1>1, <1>2 DEF Init, ServiceInv, CopiesCurrent, Noticed, ConcludedMeansServed, Concluded

\* The steps that end a reconcile.
LEMMA StopStep ==
  ASSUME NEW p \in Phases, NEW e \in BOOLEAN, Stop(p, e)
  PROVE  /\ outcome' \in [phase : Phases, error : BOOLEAN]
         /\ outcome'.error = e
         /\ pc' = "status"
         /\ UNCHANGED <<seen, cached, queued, copy, fresh>>
BY DEF Stop, caches

\* No step of the controller or of anybody else disturbs it.
LEMMA NextServiceInv == ServiceInv /\ [Next]_vars => ServiceInv'
<1> SUFFICES ASSUME ServiceInv, [Next]_vars
             PROVE  ServiceInv'
  OBVIOUS
<1>exec. ExecTypeOK' /\ ExecOnce'
  BY StepsOfCalls, ExecInvStep DEF ServiceInv, TypeOK, CopiesCurrent, ExecInv
<1> USE DEF ServiceInv, TypeOK, CopiesCurrent, Noticed, ConcludedMeansServed, WillWake, Concluded
<1>1. CASE Begin
  <2>1. CASE seen.life = "gone"
    BY <1>1, <1>exec, <2>1 DEF Begin, objects, caches, Served, Controlled
  <2>2. CASE seen.life # "gone"
    <3>1. /\ UNCHANGED <<cluster, phase, service, behind, notice, seen, cached, outcome>>
          /\ queued' = FALSE /\ pc' = "deletion" /\ copy' = seen
      BY <1>1, <2>2 DEF Begin, objects, caches
    <3>2. /\ fresh' \subseteq {"cluster", "service"}
          /\ "service" \notin fresh'
          /\ "cluster" \in fresh' => "cluster" \notin behind
      BY <1>1, <2>2 DEF Begin
    <3> QED  BY <1>exec, <3>1, <3>2 DEF Controlled
  <2> QED  BY <2>1, <2>2
<1>2. CASE CheckDeletion
  <2>1. CASE copy.life = "deleting"
    <3>1. Stop("Pending", FALSE) /\ "Pending" \in Phases
      BY <1>2, <2>1 DEF CheckDeletion, Phases
    <3> QED  BY <1>2, <1>exec, <2>1, <3>1, StopStep DEF CheckDeletion, objects
  <2>2. CASE copy.life # "deleting"
    BY <1>2, <1>exec, <2>2 DEF CheckDeletion, objects, caches
  <2> QED  BY <2>1, <2>2
<1>3. CASE ServiceOfStranger \/ AlreadyExists \/ UpdateRefused
  <2>1. Stop("SyncingService", TRUE) /\ "SyncingService" \in Phases /\ UNCHANGED objects
    BY <1>3 DEF ServiceOfStranger, AlreadyExists, UpdateRefused, Phases
  <2> QED  BY <1>exec, <2>1, StopStep DEF objects
<1>4. CASE GetService
  <2>1. pc' \in {"create", "update"}
    BY <1>4, AlwaysChanged DEF GetService
  <2>2. fresh' \subseteq fresh \cup {"service"}
    BY <1>4 DEF GetService
  <2>3. "service" \in fresh' /\ pc' = "update" => service # Nothing /\ service.owner # Stranger
    BY <1>4 DEF GetService, Adoptable
  <2> QED  BY <1>4, <1>exec, <2>1, <2>2, <2>3 DEF GetService, objects, caches
<1>5. CASE RolesNotReady
  <2>1. Stop("Waiting", FALSE) /\ "Waiting" \in Phases
    BY <1>5 DEF RolesNotReady, Phases
  <2> QED  BY <1>5, <1>exec, <2>1, StopStep DEF RolesNotReady, objects, Served, Controlled
<1>6. CASE CallInstance
  BY <1>6, <1>exec DEF CallInstance, objects, caches, Served, Controlled
<1>7. CASE CallReturns
  <2>1. PICK p \in Phases, e \in BOOLEAN : Stop(p, e)
    BY <1>7 DEF CallReturns, Phases
  <2> QED  BY <1>7, <1>exec, <2>1, StopStep DEF CallReturns, objects, Served, Controlled
<1>8. CASE (Transport \/ PodRestarts \/ TransportFault) /\ Others
  BY <1>8, <1>exec DEF Others, objects, caches, worker, Served, Controlled
<1>9. CASE UNCHANGED vars
  BY <1>9, <1>exec DEF vars, objects, caches, worker, Served, Controlled
<1>10. CASE DeliverCluster
  BY <1>10, <1>exec DEF DeliverCluster, worker
<1>11. CASE DeliverService
  BY <1>11, <1>exec DEF DeliverService, worker, Served, Controlled
<1>12. CASE Restart
  BY <1>12, <1>exec DEF Restart, NoOutcome, Phases
<1>13. CASE CreateObject \/ UpdateObject
  <2> DEFINE new == Defaulted(Synced(copy))
  <2>1. new \in Services /\ Controlled(new)
    BY <1>13, WrittenService, WrittenServes DEF CreateObject, UpdateObject
  <2>2. Save
    BY <1>13 DEF CreateObject, UpdateObject
  <2>3. "cluster" \in fresh => new = Defaulted([owner |-> cluster.uid, wired |-> TRUE,
          headless |-> TRUE, port |-> cluster.port, target |-> Unset])
    BY WrittenServes
  <2> HIDE DEF new
  <2>4. /\ service' = new
        /\ UNCHANGED <<cluster, phase, seen, cached, queued, copy, outcome>>
        /\ fresh' = fresh \ {"service"} /\ pc' = "roles"
        /\ IF new = service THEN UNCHANGED <<behind, notice>>
           ELSE behind' = behind \cup {"service"} /\ notice' = TRUE
    BY <2>1, <2>2 DEF Save, WriteService, caches, new
  <2> QED  BY <1>exec, <2>1, <2>3, <2>4 DEF Served, Controlled
<1>14. CASE UpdateStatus
  BY <1>14, <1>exec DEF UpdateStatus, WriteCluster, objects, caches, NoOutcome, Phases, Served,
    Controlled
<1>15. CASE RequestFails
  <2>1. Stop("SyncingService", TRUE) /\ "SyncingService" \in Phases
    BY <1>15 DEF RequestFails, Phases
  <2>2. UNCHANGED objects \/ WriteService(Defaulted(Synced(copy)))
    BY <1>15 DEF RequestFails
  <2>3. pc \in {"service", "create", "update"}
    BY <1>15 DEF RequestFails
  <2>4. CASE UNCHANGED objects
    BY <1>exec, <2>1, <2>3, <2>4, StopStep DEF objects
  <2>5. CASE WriteService(Defaulted(Synced(copy)))
    <3> DEFINE new == Defaulted(Synced(copy))
    <3>1. new \in Services
      BY <2>3, WrittenService
    <3> HIDE DEF new
    <3>2. /\ service' = new /\ UNCHANGED <<cluster, phase>>
      BY <2>5 DEF WriteService, new
    <3>3. CASE new = service
      <4>1. UNCHANGED objects
        BY <2>5, <3>3 DEF WriteService, objects, new
      <4> QED  BY <2>4, <4>1
    <3>4. CASE new # service
      <4>1. /\ behind' = behind \cup {"service"}
            /\ notice' \in BOOLEAN
            /\ Controlled(new) => notice'
        BY <2>5, <3>4 DEF WriteService, Controlled, new
      <4> QED  BY <1>exec, <2>1, <3>1, <3>2, <4>1, StopStep DEF Controlled
    <3> QED  BY <3>3, <3>4
  <2> QED  BY <2>2, <2>4, <2>5
<1>16. CASE \E c \in Clusters, p \in Phases : ClusterChanges(c, p)
  BY <1>16, <1>exec DEF ClusterChanges, WriteCluster, caches, Served, Controlled
<1>17. CASE \E new \in Services \cup {Nothing} : EditService(new)
  <2>1. PICK new \in Services \cup {Nothing} : EditService(new)
    BY <1>17
  <2>2. /\ service' = new /\ new # service
        /\ behind' = behind \cup {"service"} /\ notice' \in BOOLEAN
        /\ Controlled(new) \/ notice => notice'
        /\ fresh' = fresh \ {"service"}
        /\ UNCHANGED <<cluster, phase, seen, cached, queued, pc, copy, outcome>>
    BY <2>1 DEF EditService, WriteService, caches, Controlled
  <2>3. Served => Controlled(service)
    BY WrittenServes DEF Served
  <2> QED  BY <1>exec, <2>2, <2>3 DEF Served, Controlled
<1>18. CASE CollectService
  BY <1>18, <1>exec, StoredServices DEF CollectService, Garbage, WriteService, caches, Served,
    Controlled
<1>19. CASE FinalizeCluster
  <2>1. [cluster EXCEPT !.life = "gone"] \in Clusters
    BY DEF Clusters
  <2> QED  BY <1>16, <1>19, <2>1 DEF FinalizeCluster
<1>20. CASE Users
  <2>1. CASE \E p \in Ports : EditCluster(p)
    <3>1. \A p \in Ports : [cluster EXCEPT !.port = p] \in Clusters
      BY DEF Clusters
    <3> QED  BY <1>16, <2>1, <3>1 DEF EditCluster
  <2>2. CASE \E life \in {"deleting", "gone"} : DeleteCluster(life)
    <3>1. \A life \in {"deleting", "gone"} : [cluster EXCEPT !.life = life] \in Clusters
      BY DEF Clusters
    <3> QED  BY <1>16, <2>2, <3>1 DEF DeleteCluster
  <2>3. CASE CreateCluster
    <3>1. [uid |-> cluster.uid + 1, life |-> "live", port |-> cluster.port] \in Clusters
      BY <2>3, ServiceAssumption DEF CreateCluster, Clusters, UIDs
    <3>2. "Pending" \in Phases
      BY DEF Phases
    <3> QED  BY <1>16, <2>3, <3>1, <3>2 DEF CreateCluster
  <2>4. CASE \E new \in UserServices : EditService(new)
    BY <1>17, <2>4, ServiceAssumption
  <2> QED  BY <1>20, <2>1, <2>2, <2>3, <2>4 DEF Users
<1> QED
  BY <1>1, <1>2, <1>3, <1>4, <1>5, <1>6, <1>7, <1>8, <1>9, <1>10, <1>11, <1>12, <1>13, <1>14,
     <1>15, <1>18, <1>19, <1>20 DEF Next, Calm, Reconcile, Collect

-------------------------------------------------------------------------------
(* Theorems.                                                               *)

\* What the worker knows of the stored objects is true, and a Service that is
\* not as it should be brings the Cluster back to the queue.
THEOREM ServiceInvariant == Spec => []ServiceInv
BY InitServiceInv, NextServiceInv, PTL DEF Spec

\* A Cluster with nothing left to do has its Service, whatever users did to
\* both, whatever the caches showed and whichever requests failed.
THEOREM RestServed == Spec => []RestMeansServed
<1>1. ServiceInv => RestMeansServed
  BY DEF ServiceInv, ConcludedMeansServed, Concluded, WillWake, RestMeansServed, AtRest
<1> QED  BY <1>1, ServiceInvariant, PTL

\* The operator never writes a Service that something else controls.
THEOREM StrangersKept == Spec => StrangersServiceKept
<1>1. ServiceInv /\ [Next]_vars =>
        [service # Nothing /\ service.owner = Stranger /\ service' # service => pc' = pc]_vars
  <2> SUFFICES ASSUME ServiceInv, Next, service # Nothing, service.owner = Stranger, pc' # pc
               PROVE  service' = service
    BY DEF vars, objects, worker
  <2>1. CASE Reconcile
    BY <2>1 DEF Reconcile, Begin, CheckDeletion, ServiceOfStranger, GetService, CreateObject,
      AlreadyExists, UpdateObject, UpdateRefused, RolesNotReady, CallInstance, CallReturns,
      UpdateStatus, WriteCluster, objects, ServiceInv, CopiesCurrent
  <2>2. CASE RequestFails
    BY <2>2 DEF RequestFails, objects, ServiceInv, CopiesCurrent
  <2>3. CASE Restart
    BY <2>3 DEF Restart
  <2>4. CASE Users \/ Collect \/ DeliverCluster \/ DeliverService
    BY <2>4 DEF Users, Collect, EditCluster, DeleteCluster, CreateCluster, EditService,
      CollectService, FinalizeCluster, ClusterChanges, DeliverCluster, DeliverService, worker
  <2>5. CASE (Transport \/ PodRestarts \/ TransportFault) /\ Others
    BY <2>5 DEF Others, worker
  <2> QED  BY <2>1, <2>2, <2>3, <2>4, <2>5 DEF Next, Calm
<1> QED  BY <1>1, ServiceInvariant, PTL DEF Spec, StrangersServiceKept

\* Every call the operator makes is a remote call: executed at most once, and a
\* result only after an execution.
THEOREM CallsAreRemoteCalls == Spec => ImplementsRemoteCall
<1>1. Init => Remote!Init
  BY ExecInvInit DEF Init
<1>2. ServiceInv /\ [Next]_vars =>
        [Remote!Next]_<<IF stage \in {"none", "ok", "error"} THEN stage ELSE "pending", runs>>
  BY StepsOfCalls, RemoteStep DEF ServiceInv, TypeOK, CopiesCurrent, ExecInv
<1> QED  BY <1>1, <1>2, ServiceInvariant, PTL DEF Spec, ImplementsRemoteCall, Remote!Spec

-------------------------------------------------------------------------------
(* The controller is level-triggered.                                      *)

\* A step after which the controller sleeps changes neither the Cluster nor the
\* Service: a write of either leaves a version to deliver.
LEMMA SleepStep ==
  ASSUME [Next]_vars, AtRest'
  PROVE  UNCHANGED <<cluster, service>>
<1>1. CASE Reconcile
  BY <1>1 DEF Reconcile, Begin, CheckDeletion, ServiceOfStranger, GetService, CreateObject,
    AlreadyExists, UpdateObject, UpdateRefused, Save, Stop, RolesNotReady, CallInstance, CallReturns,
    UpdateStatus, WriteCluster, objects, AtRest
<1>2. CASE RequestFails
  BY <1>2 DEF RequestFails, Stop, AtRest
<1>3. CASE Restart \/ DeliverCluster \/ DeliverService
  BY <1>3 DEF Restart, DeliverCluster, DeliverService
<1>4. CASE Users \/ Collect
  BY <1>4 DEF Users, Collect, EditCluster, DeleteCluster, CreateCluster, EditService, WriteService,
    CollectService, FinalizeCluster, ClusterChanges, WriteCluster, AtRest
<1>5. CASE (Transport \/ PodRestarts \/ TransportFault) /\ Others
  BY <1>5 DEF Others, objects
<1>6. CASE UNCHANGED vars
  BY <1>6 DEF vars, objects
<1> QED  BY <1>1, <1>2, <1>3, <1>4, <1>5, <1>6 DEF Next, Calm

\* Every step is one of a level-triggered controller.
LEMMA ControllerStep ==
  RestMeansServed' /\ [Next]_vars => [Controller!Next]_(Controller!vars)
<1> SUFFICES ASSUME RestMeansServed', [Next]_vars, AtRest'
             PROVE  Controller!Rest \/ UNCHANGED Controller!vars
  BY DEF Controller!Next, Controller!Act
<1>1. UNCHANGED <<cluster, service>>
  BY SleepStep
<1>2. (cluster.life = "live" => Served)'
  BY DEF RestMeansServed
<1>3. CASE ~AtRest
  BY <1>1, <1>2, <1>3 DEF Controller!Rest
<1>4. CASE AtRest
  BY <1>1, <1>4 DEF Served, Controller!vars
<1> QED  BY <1>3, <1>4

\* The controller rests only when a live Cluster has its Service, and no edit,
\* deletion or new creation of either finds it asleep for good: whoever changes
\* one of them leaves an event that wakes the controller up, unless it need not.
THEOREM ServiceTriggered == Spec => ImplementsController
<1>1. Init => Controller!Init
  BY DEF Init, AtRest, Controller!Init
<1> QED
  BY <1>1, ControllerStep, RestServed, PTL
  DEF Spec, ImplementsController, Controller!Spec

-------------------------------------------------------------------------------
(* What is served is left alone.                                           *)

\* The Service of a served Cluster is there, and the one the operator writes.
LEMMA ServedAlready ==
  ASSUME TypeOK, Steady
  PROVE  /\ service # Nothing /\ service = Defaulted(Synced(cluster))
         /\ service.owner = cluster.uid
<1>1. cluster \in Clusters
  BY DEF TypeOK
<1>2. service = Defaulted(Synced(cluster))
  BY DEF Steady, Served, Synced
<1>3. service # Nothing
  BY <1>1, <1>2, WrittenService, StoredServices
<1>4. service.owner = cluster.uid
  BY <1>2 DEF Defaulted, Synced
<1> QED  BY <1>2, <1>3, <1>4

\* What SteadyKept says of one step.
Still == Steady /\ ~Users => Steady' /\ service' = service

\* A step that leaves both objects and their caches alone.
LEMMA StillObjects ==
  ASSUME Steady, UNCHANGED <<cluster, service>>,
         seen' = seen \/ seen' = cluster, cached' = cached \/ cached' = service,
         pc' = "idle" \/ copy' = cluster
  PROVE  Steady' /\ service' = service
BY DEF Steady, Served

\* Nobody but users changes the Service of a steady Cluster.
LEMMA StillStep == TypeOK /\ [Next]_vars => Still
<1> SUFFICES ASSUME TypeOK, [Next]_vars, Steady, ~Users
             PROVE  Steady' /\ service' = service
  BY DEF Still
<1>0. /\ service # Nothing /\ service = Defaulted(Synced(cluster)) /\ service.owner = cluster.uid
      /\ cluster.life = "live" /\ seen = cluster /\ cached = service
      /\ pc = "idle" \/ copy = cluster
  BY ServedAlready DEF Steady
<1>1. CASE Begin
  <2>1. copy' = seen /\ UNCHANGED <<cluster, service, seen, cached>>
    BY <1>0, <1>1 DEF Begin, objects, caches
  <2> QED  BY <1>0, <2>1, StillObjects
<1>2. CASE CheckDeletion \/ ServiceOfStranger \/ GetService \/ AlreadyExists \/ UpdateRefused
           \/ RolesNotReady \/ CallInstance \/ CallReturns
  <2>1. pc # "idle" /\ UNCHANGED <<cluster, service, seen, cached, copy>>
    BY <1>2 DEF CheckDeletion, ServiceOfStranger, GetService, AlreadyExists, UpdateRefused,
      RolesNotReady, CallInstance, CallReturns, Stop, objects, caches
  <2> QED  BY <1>0, <2>1, StillObjects
<1>3. CASE CreateObject \/ UpdateObject \/ RequestFails
  <2>1. pc # "idle" /\ UNCHANGED <<seen, cached, copy>>
    BY <1>3 DEF CreateObject, UpdateObject, RequestFails, Save, Stop, caches
  <2>2. UNCHANGED objects \/ WriteService(Defaulted(Synced(copy)))
    BY <1>3 DEF CreateObject, UpdateObject, RequestFails, Save
  <2>3. UNCHANGED <<cluster, service>>
    BY <1>0, <2>1, <2>2 DEF objects, WriteService
  <2> QED  BY <1>0, <2>1, <2>3, StillObjects
<1>4. CASE UpdateStatus
  <2>1. pc' = "idle" /\ UNCHANGED <<cluster, service, seen, cached>>
    BY <1>4 DEF UpdateStatus, WriteCluster, objects, caches
  <2> QED  BY <2>1, StillObjects
<1>5. CASE DeliverCluster \/ DeliverService
  <2>1. /\ UNCHANGED <<cluster, service, pc, copy>>
        /\ seen' \in {seen, cluster} /\ cached' \in {cached, service}
    BY <1>5 DEF DeliverCluster, DeliverService, worker
  <2> QED  BY <1>0, <2>1, StillObjects
<1>6. CASE Restart
  BY <1>6, StillObjects DEF Restart
<1>7. CASE Collect
  BY <1>0, <1>7 DEF Collect, CollectService, FinalizeCluster, Garbage
<1>8. CASE ((Transport \/ PodRestarts \/ TransportFault) /\ Others) \/ UNCHANGED vars
  <2>1. UNCHANGED <<cluster, service, seen, cached, pc, copy>>
    BY <1>8 DEF Others, vars, objects, caches, worker
  <2> QED  BY <1>0, <2>1, StillObjects
<1> QED
  BY <1>1, <1>2, <1>3, <1>4, <1>5, <1>6, <1>7, <1>8 DEF Next, Calm, Reconcile

\* The Service of a served Cluster stays as it is until a user changes one of the
\* two: every reconcile saves it (the ports it compares never are equal), and each
\* of these writes is the Service that is stored, no new version that would bring
\* the Cluster back for ever; nor does the garbage collector ever take it.
THEOREM ServiceSteady == Spec => SteadyKept
<1>1. ServiceInv /\ [Next]_vars => [Still]_vars
  BY StillStep DEF ServiceInv
<1> QED  BY <1>1, ServiceInvariant, PTL DEF Spec, SteadyKept, Still
===============================================================================
