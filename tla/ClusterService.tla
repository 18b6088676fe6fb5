---------------------------- MODULE ClusterService ----------------------------
(***************************************************************************)
(* The Cluster controller from the work queue to SyncClusterWideService,   *)
(* and what the calls after it do to its only worker.  The Cluster and the *)
(* headless Service of the same name are read from informer caches; the    *)
(* Service is created, adopted or brought in line with the Cluster by a    *)
(* conditional write, and an event of a Service that a Cluster controls    *)
(* brings that Cluster back to the queue.  Users edit, delete and create   *)
(* both objects; a Cluster is deleted at once or, in the foreground, after *)
(* the objects it controls.  The steps after the Service are those of      *)
(* other modules: here they stop waiting for the Roles, or execute         *)
(* something in an instance through module PodExec and end.                *)
(***************************************************************************)
EXTENDS PodExec

CONSTANTS
  Ports,         \* values of Spec.ListenPort
  MaxUID,        \* bound on the Clusters created under the name
  Nothing,       \* no Service, or no Cluster in memory
  Nobody,        \* the Service has no controller
  Stranger,      \* its controller is not a Cluster of this name
  Unset,         \* a target port that is not given
  UserServices   \* what users may turn the Service into

UIDs == 1..MaxUID
Owners == UIDs \cup {Nobody, Stranger}
\* wired: Selector and PublishNotReadyAddresses are as the operator sets them;
\* headless: ClusterIP is None.
Drafts == [owner : Owners, wired : BOOLEAN, headless : BOOLEAN,
           port : Ports, target : Ports \cup {Unset}]

\* TargetPort defaults to the port.
Defaulted(s) == [s EXCEPT !.target = IF @ = Unset THEN s.port ELSE @]
Services == {Defaulted(s) : s \in Drafts}

ASSUME ServiceAssumption ==
  /\ Unset \notin Ports
  /\ MaxUID \in Nat \ {0}
  /\ Nobody # Stranger /\ Nobody \notin UIDs /\ Stranger \notin UIDs
  /\ Nothing \notin Drafts
  /\ UserServices \subseteq Services \cup {Nothing}

VARIABLES
  cluster,    \* the stored Cluster; its uid is that of the last one
  phase,      \* its Status.Phase
  seen,       \* the Cluster in the informer's cache
  service,    \* the stored Service
  cached,     \* the Service in the informer's cache
  behind,     \* objects of which a version has not been delivered
  notice,     \* whether a Cluster controls one of the Service's
  queued,     \* whether the Cluster is in the work queue
  pc,         \* the call the worker is about to make
  copy,       \* the Cluster in its memory
  fresh,      \* objects whose stored version is the one it read
  outcome     \* the phase and the error the steps ended with

objects == <<cluster, phase, service, behind, notice>>
caches == <<seen, cached>>
worker == <<pc, copy, fresh, outcome>>
vars == <<objects, caches, queued, worker, execVars>>

\* "Waiting" is every phase in which a later step stops.
Phases == {"Pending", "SyncingService", "Waiting", "Ready"}
Clusters == [uid : UIDs, life : {"live", "deleting", "gone"}, port : Ports]
NoOutcome == [phase |-> "Pending", error |-> FALSE]

TypeOK ==
  /\ ExecTypeOK
  /\ cluster \in Clusters
  /\ phase \in Phases
  /\ seen \in Clusters
  /\ service \in Services \cup {Nothing}
  /\ cached \in Services \cup {Nothing}
  /\ behind \subseteq {"cluster", "service"}
  /\ notice \in BOOLEAN
  /\ queued \in BOOLEAN
  /\ pc \in {"idle", "deletion", "service", "create", "update", "roles", "call", "status"}
  /\ copy \in Clusters \cup {Nothing}
  /\ fresh \subseteq {"cluster", "service"}
  /\ outcome \in [phase : Phases, error : BOOLEAN]

Controlled(s) == s # Nothing /\ s.owner \in UIDs

Init ==
  /\ ExecInit
  /\ \E p \in Ports : cluster = [uid |-> 1, life |-> "live", port |-> p]
  /\ phase = "Pending"
  /\ seen = cluster
  /\ service \in UserServices /\ ~Controlled(service)
  /\ cached = service
  /\ behind = {}
  /\ notice = FALSE
  /\ queued = TRUE
  /\ pc = "idle"
  /\ copy = Nothing
  /\ fresh = {}
  /\ outcome = NoOutcome

-------------------------------------------------------------------------------
\* A write that changes nothing makes no version.  A new version is newer than
\* what the worker has in its memory.
WriteCluster(c, p) ==
  /\ cluster' = c
  /\ phase' = p
  /\ behind' = behind \cup {"cluster"}
  /\ UNCHANGED <<service, notice>>

WriteService(s) ==
  /\ service' = s
  /\ IF s = service
     THEN UNCHANGED <<behind, notice>>
     ELSE behind' = behind \cup {"service"} /\ notice' = (notice \/ Controlled(s))
  /\ UNCHANGED <<cluster, phase>>

\* The steps end here, in the phase of the last SetPhaseStep.
Stop(p, error) ==
  /\ pc' = "status"
  /\ outcome' = [phase |-> p, error |-> error]
  /\ UNCHANGED <<caches, queued, copy, fresh>>

\* GetRequestedObjectStep.
Begin ==
  /\ pc = "idle"
  /\ queued
  /\ queued' = FALSE
  /\ IF seen.life = "gone"
     THEN UNCHANGED <<pc, copy, fresh>>
     ELSE pc' = "deletion" /\ copy' = seen /\ fresh' = {"cluster"} \ behind
  /\ UNCHANGED <<objects, caches, outcome, execVars>>

CheckDeletionIgnored ==   \* mutant: the step is missing
  /\ pc = "deletion"
  /\ pc' = "service"
  /\ UNCHANGED <<objects, caches, queued, copy, fresh, outcome, execVars>>

\* CheckDeletionStep.
CheckDeletion ==
  /\ pc = "deletion"
  /\ IF copy.life = "deleting"
     THEN Stop("Pending", FALSE)
     ELSE pc' = "service" /\ UNCHANGED <<caches, queued, copy, fresh, outcome>>
  /\ UNCHANGED <<objects, execVars>>

-------------------------------------------------------------------------------
(* SyncClusterWideServiceStep.                                             *)

\* ControlObject: SetControllerReference replaces the reference of an earlier
\* Cluster of the name, and refuses a Service that something else controls.
AdoptableOwnOnly(s) ==   \* mutant: a Service without controller is refused, too
  Controlled(s)

Adoptable(s) == s.owner # Stranger

\* The object in memory after the step's assignments; ports are given without
\* a target.
Synced(c) ==
  [owner |-> c.uid, wired |-> TRUE, headless |-> TRUE, port |-> c.port, target |-> Unset]

\* Whether the step saves the Service.  Read back, ports have a target: they
\* never compare equal.
Changed(s, c) == s # Synced(c)

ServiceOfStranger ==
  /\ pc = "service"
  /\ cached # Nothing
  /\ ~Adoptable(cached)
  /\ Stop("SyncingService", TRUE)
  /\ UNCHANGED <<objects, execVars>>

GetService ==
  /\ pc = "service"
  /\ cached # Nothing => Adoptable(cached)
  /\ pc' = IF cached = Nothing THEN "create"
           ELSE IF Changed(cached, copy) THEN "update" ELSE "roles"
  /\ fresh' = IF cached # Nothing /\ "service" \notin behind
              THEN fresh \cup {"service"} ELSE fresh
  /\ UNCHANGED <<objects, caches, queued, copy, outcome, execVars>>

\* The Service is saved.
Save ==
  /\ WriteService(Defaulted(Synced(copy)))
  /\ fresh' = fresh \ {"service"}
  /\ pc' = "roles"
  /\ UNCHANGED <<caches, queued, copy, outcome, execVars>>

CreateObject ==
  /\ pc = "create"
  /\ service = Nothing
  /\ Save

AlreadyExists ==
  /\ pc = "create"
  /\ service # Nothing
  /\ Stop("SyncingService", TRUE)
  /\ UNCHANGED <<objects, execVars>>

UpdateObjectUnversioned ==   \* mutant: written without the version it was read in
  /\ pc = "update"
  /\ service # Nothing /\ service.headless
  /\ Save

UpdateObject ==
  /\ pc = "update"
  /\ "service" \in fresh
  /\ service.headless
  /\ Save

\* The cached Service is old, or has an address: it cannot lose that.
UpdateRefused ==
  /\ pc = "update"
  /\ \/ "service" \notin fresh
     \/ service # Nothing /\ ~service.headless
  /\ Stop("SyncingService", TRUE)
  /\ UNCHANGED <<objects, execVars>>

-------------------------------------------------------------------------------
(* The steps after it, and the end of the reconcile.                       *)

RolesNotReady ==
  /\ pc = "roles"
  /\ Stop("Waiting", FALSE)
  /\ UNCHANGED <<objects, execVars>>

\* GetLeader and the later steps execute Lua in an instance.
CallInstance ==
  /\ pc = "roles"
  /\ Exec
  /\ pc' = "call"
  /\ UNCHANGED <<objects, caches, queued, copy, fresh, outcome>>

CallReturns ==
  /\ pc = "call"
  /\ IF stage = "ok" THEN Stop("Ready", FALSE) ELSE Stop("Waiting", TRUE)
  /\ Taken
  /\ UNCHANGED objects

\* Run and UpdateStatus.  An error, one of the status update included, brings
\* the Cluster back to the queue.
UpdateStatus ==
  /\ pc = "status"
  /\ pc' = "idle"
  /\ fresh' = {}
  /\ copy' = Nothing
  /\ outcome' = NoOutcome
  /\ queued' = (queued \/ outcome.error \/ "cluster" \notin fresh)
  /\ IF "cluster" \in fresh /\ outcome.phase # phase
     THEN WriteCluster(cluster, outcome.phase)
     ELSE UNCHANGED objects
  /\ UNCHANGED <<caches, execVars>>

\* A request to the API server fails; it may have been carried out.
RequestFails ==
  /\ \/ pc \in {"service", "create", "update"} /\ UNCHANGED objects
     \/ pc = "create" /\ service = Nothing /\ WriteService(Defaulted(Synced(copy)))
     \/ pc = "update" /\ "service" \in fresh /\ service.headless
        /\ WriteService(Defaulted(Synced(copy)))
  /\ Stop("SyncingService", TRUE)
  /\ UNCHANGED execVars

-------------------------------------------------------------------------------
(* Deliveries of the informers, the garbage collector and the users.       *)

DeliverCluster ==
  /\ "cluster" \in behind
  /\ behind' = behind \ {"cluster"}
  /\ seen' = cluster
  /\ queued' = TRUE
  /\ UNCHANGED <<cluster, phase, service, notice, cached, worker, execVars>>

DeliverServiceNewOwner ==   \* mutant: the owner of the old object is not enqueued
  /\ "service" \in behind
  /\ behind' = behind \ {"service"}
  /\ notice' = FALSE
  /\ cached' = service
  /\ queued' = (queued \/ Controlled(service))
  /\ UNCHANGED <<cluster, phase, service, seen, worker, execVars>>

\* Owns(&v1.Service{}) enqueues by name the controllers of the old and the new
\* object of every version.
DeliverService ==
  /\ "service" \in behind
  /\ behind' = behind \ {"service"}
  /\ notice' = FALSE
  /\ cached' = service
  /\ queued' = (queued \/ Controlled(cached) \/ notice)
  /\ UNCHANGED <<cluster, phase, service, seen, worker, execVars>>

\* The Service of a Cluster that is gone, or is deleted in the foreground.
Garbage ==
  /\ Controlled(service)
  /\ service.owner # cluster.uid \/ cluster.life # "live"

CollectService ==
  /\ Garbage
  /\ WriteService(Nothing)
  /\ fresh' = fresh \ {"service"}
  /\ UNCHANGED <<caches, queued, pc, copy, outcome, execVars>>

ClusterChanges(c, p) ==
  /\ WriteCluster(c, p)
  /\ fresh' = fresh \ {"cluster"}
  /\ UNCHANGED <<caches, queued, pc, copy, outcome, execVars>>

\* The last finalizer of a Cluster deleted in the foreground is removed.
FinalizeCluster ==
  /\ cluster.life = "deleting"
  /\ ~Garbage
  /\ ClusterChanges([cluster EXCEPT !.life = "gone"], phase)

EditCluster(p) ==
  /\ cluster.life = "live"
  /\ p # cluster.port
  /\ ClusterChanges([cluster EXCEPT !.port = p], phase)

\* In the background or in the foreground.
DeleteCluster(life) ==
  /\ cluster.life = "live"
  /\ ClusterChanges([cluster EXCEPT !.life = life], phase)

CreateCluster ==
  /\ cluster.life = "gone"
  /\ cluster.uid < MaxUID
  /\ ClusterChanges([uid |-> cluster.uid + 1, life |-> "live",
                     port |-> cluster.port], "Pending")

\* A user edits, deletes or creates the Service; the address stays as long as
\* the Service does, and no user makes a Cluster its controller.
EditService(new) ==
  /\ new # service
  /\ service # Nothing /\ new # Nothing => new.headless = service.headless
  /\ Controlled(new) => service # Nothing /\ new.owner = service.owner
  /\ WriteService(new)
  /\ fresh' = fresh \ {"service"}
  /\ UNCHANGED <<caches, queued, pc, copy, outcome, execVars>>

\* The operator ends and starts again: it lists and enqueues every object.
Restart ==
  /\ pc' = "idle"
  /\ queued' = TRUE
  /\ seen' = cluster
  /\ copy' = Nothing
  /\ cached' = service
  /\ behind' = {}
  /\ notice' = FALSE
  /\ fresh' = {}
  /\ outcome' = NoOutcome
  /\ Dropped
  /\ UNCHANGED <<cluster, phase, service>>

-------------------------------------------------------------------------------
Reconcile ==
  \/ Begin \/ CheckDeletion
  \/ ServiceOfStranger \/ GetService
  \/ CreateObject \/ AlreadyExists \/ UpdateObject \/ UpdateRefused
  \/ RolesNotReady \/ CallInstance \/ CallReturns
  \/ UpdateStatus

Others == UNCHANGED <<objects, caches, queued, worker>>

Collect == CollectService \/ FinalizeCluster

Calm ==
  \/ Reconcile
  \/ (Transport \/ PodRestarts) /\ Others
  \/ DeliverCluster \/ DeliverService
  \/ Collect

Users ==
  \/ \E p \in Ports : EditCluster(p)
  \/ \E life \in {"deleting", "gone"} : DeleteCluster(life)
  \/ CreateCluster
  \/ \E new \in UserServices : EditService(new)

Next ==
  \/ Calm
  \/ RequestFails \/ Restart
  \/ TransportFault /\ Others
  \/ Users

Spec == Init /\ [][Next]_vars

-------------------------------------------------------------------------------
AtRest == pc = "idle" /\ ~queued /\ behind = {}

Served ==
  service = Defaulted([owner |-> cluster.uid, wired |-> TRUE, headless |-> TRUE,
                       port |-> cluster.port, target |-> Unset])

\* A Cluster with nothing left to do has its Service, as its spec wants it: no
\* edit, deletion or loss of the owner reference went unnoticed, and no error
\* was taken for success.
RestMeansServed == AtRest /\ cluster.life = "live" => Served

\* The inductive invariant behind it: what the worker still knows of the stored
\* objects, and that a Service which is not as it should be brings the Cluster
\* back to the queue, now or when it is delivered.
CopiesCurrent ==
  /\ "cluster" \notin behind => seen = cluster
  /\ "service" \notin behind => cached = service
  /\ "cluster" \in fresh => "cluster" \notin behind /\ copy = cluster
  /\ pc = "update" /\ "service" \in fresh => service # Nothing /\ service.owner # Stranger
  /\ "service" \in fresh => pc \in {"update", "status"}
  /\ pc \in {"deletion", "service", "create", "update"} => copy \in Clusters
  /\ ExecOnce

WillWake == "service" \in behind /\ (Controlled(cached) \/ notice)

Concluded ==
  \/ pc = "idle"
  \/ /\ "cluster" \in fresh
     /\ pc \in {"roles", "call"} \/ (pc = "status" /\ ~outcome.error)

Noticed == "service" \in behind /\ Controlled(service) => notice

ConcludedMeansServed ==
  cluster.life = "live" /\ "cluster" \notin behind /\ ~queued /\ Concluded
    => Served \/ WillWake

ServiceInv == TypeOK /\ CopiesCurrent /\ Noticed /\ ConcludedMeansServed

\* The operator never writes a Service something else controls, although it
\* decides on a copy that may show the Service as it was before.
StrangersServiceKept ==
  [][service # Nothing /\ service.owner = Stranger /\ service' # service
       => pc' = pc]_vars

\* Seen from the Cluster and its Service, this is a level-triggered controller.
Controller == INSTANCE LevelTriggered WITH
  goal <- cluster, world <- service, fulfilled <- cluster.life = "live" => Served,
  awake <- ~AtRest

\* It rests only when a live Cluster is served, and no edit, deletion or new
\* creation of either object finds it asleep for good.
ImplementsController == Controller!Spec

\* Once a live Cluster is served and both caches show it, the Service is not
\* written any more, although each reconcile finds it different from its ports
\* and saves it: neither the operator nor the garbage collector touches it.
Steady ==
  /\ cluster.life = "live"
  /\ Served
  /\ seen = cluster /\ cached = service
  /\ pc = "idle" \/ copy = cluster

SteadyKept == [][Steady /\ ~Users => Steady' /\ service' = service]_vars

\* Queues are served, the informers deliver, garbage is collected and a hung
\* instance is restarted; users and faults leave the objects alone from some
\* time on.
LiveSpec ==
  /\ Spec
  /\ WF_vars(Reconcile)
  /\ WF_vars(Transport /\ Others)
  /\ WF_vars(PodRestarts /\ Others)
  /\ WF_vars(DeliverCluster) /\ WF_vars(DeliverService)
  /\ WF_vars(CollectService) /\ WF_vars(FinalizeCluster)
  /\ <>[][Calm]_vars

\* Then a Cluster is served for good if its Service can be adopted and needs no
\* address taken away.
Obstructed == service # Nothing /\ (service.owner = Stranger \/ ~service.headless)

EventuallyServed ==
  <>[](cluster.life = "live" /\ ~Obstructed) => <>[]Served

\* And a deleted Cluster disappears, with its Service: the operator does not
\* bring back what the garbage collector takes.
DeletionCompletes ==
  <>[](cluster.life # "live") => <>[](cluster.life = "gone" /\ ~Controlled(service) /\ AtRest)
===============================================================================
