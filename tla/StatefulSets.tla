---------------------------- MODULE StatefulSets -----------------------------
(***************************************************************************)
(* The first steps of a Role's reconcile: CreateStatefulSets creates the   *)
(* missing StatefulSets of the Role, one per replicaset, and               *)
(* UpdateStatefulSets brings all that carry the Role's labels in line with *)
(* it.  Both read the informer's cache; a create finds out that the cache  *)
(* lacked the object, an update that it had an old version.  Users edit    *)
(* the Role and the StatefulSets, and delete the latter.                   *)
(***************************************************************************)
EXTENDS Integers, FiniteSets

CONSTANTS
  Ordinals,    \* replicaset ordinals 0 .. n
  Counts,      \* replica counts
  Templates,   \* pod templates
  Hashes,      \* values of the hash label
  Hash,        \* utils.HashObject of a template
  LabelSets,   \* labels of Roles, and of StatefulSets as edited by users
  RoleSpecs,   \* values of the Role's spec and labels
  UserEdits    \* <<o, edit>>: "replicas", "labels", "selector" or "delete"

Settings == {"unset", "RollingUpdate", "OnDelete"}

ASSUME StatefulSetsAssumption ==
  /\ Ordinals \subseteq Nat
  /\ Counts \subseteq Nat
  /\ Hash \in [Templates -> Hashes]
  /\ RoleSpecs \subseteq [replicasets : Nat, replicas : Counts, template : Templates,
                          labels : LabelSets, settings : Settings]

VARIABLES
  role,      \* the Role's spec
  sts,       \* the stored StatefulSets, by ordinal
  cache,     \* the StatefulSets the informer shows
  unseen,    \* ordinals of which a version has not been delivered
  queued,    \* whether the Role is in the work queue
  pc,        \* the step being executed
  copy,      \* the Role in memory
  fresh,     \* whether it is the stored version
  left,      \* ordinals the step has still to visit
  list,      \* the StatefulSets listed by the update step
  current    \* ordinals of which the listed version is the stored one

informer == <<cache, unseen>>
vars == <<role, sts, informer, queued, pc, copy, fresh, left, list, current>>

\* selected: whether it has the labels the selectors ask for.
Existing == [replicas : Counts, template : Templates, hash : Hashes, labels : LabelSets,
             podLabels : Hashes \X LabelSets, settings : Settings \ {"unset"},
             selected : BOOLEAN, exists : {TRUE}]
Absent == [exists |-> FALSE, selected |-> FALSE]

TypeOK ==
  /\ role \in RoleSpecs
  /\ sts \in [Ordinals -> Existing \cup {Absent}]
  /\ cache \in [Ordinals -> Existing \cup {Absent}]
  /\ unseen \subseteq Ordinals
  /\ queued \in BOOLEAN
  /\ pc \in {"idle", "create", "update", "rest"}
  /\ copy \in RoleSpecs
  /\ fresh \in BOOLEAN
  /\ left \subseteq Ordinals
  /\ list \in [Ordinals -> Existing \cup {Absent}]
  /\ current \subseteq Ordinals

-----------------------------------------------------------------------------
Desired(spec) == {o \in Ordinals : o < spec.replicasets}
PodLabels(spec) == <<Hash[spec.template], spec.labels>>

SyncLabelsFirst(spec, s) ==   \* mutant: the hash label is set before it is compared
  [s EXCEPT !.replicas = IF spec.replicas > @ THEN spec.replicas ELSE @,
            !.hash = Hash[spec.template],
            !.labels = spec.labels,
            !.podLabels = PodLabels(spec),
            !.settings = spec.settings]

\* syncStatefulSet of an existing object: only scaled up, and the template
\* replaced only if the hash label differs.
SyncStatefulSet(spec, s) ==
  [replicas |-> IF spec.replicas > s.replicas THEN spec.replicas ELSE s.replicas,
   template |-> IF Hash[spec.template] # s.hash THEN spec.template ELSE s.template,
   hash |-> Hash[spec.template], labels |-> spec.labels, podLabels |-> PodLabels(spec),
   settings |-> spec.settings, selected |-> s.selected, exists |-> TRUE]

NewStatefulSetUnlabelled(spec) ==   \* mutant: the hash label is forgotten
  [replicas |-> spec.replicas, template |-> spec.template, hash |-> "",
   labels |-> spec.labels, podLabels |-> PodLabels(spec), settings |-> spec.settings,
   selected |-> TRUE, exists |-> TRUE]

\* createStatefulSet: a new object, synchronised.
NewStatefulSet(spec) ==
  [replicas |-> spec.replicas, template |-> spec.template, hash |-> Hash[spec.template],
   labels |-> spec.labels, podLabels |-> PodLabels(spec), settings |-> spec.settings,
   selected |-> TRUE, exists |-> TRUE]

\* The API server fills in the update strategy.
Defaulted(s) == [s EXCEPT !.settings = IF @ = "unset" THEN "RollingUpdate" ELSE @]

\* A write that changes nothing makes no version.
Write(o, new) ==
  /\ sts' = [sts EXCEPT ![o] = new]
  /\ IF new = sts[o] THEN UNCHANGED <<unseen, current>>
     ELSE unseen' = unseen \cup {o} /\ current' = current \ {o}

Init ==
  /\ role \in RoleSpecs
  /\ sts = [o \in Ordinals |-> Absent]
  /\ cache = sts
  /\ unseen = {}
  /\ queued = TRUE
  /\ pc = "idle"
  /\ copy = role
  /\ fresh = FALSE
  /\ left = {}
  /\ list = cache
  /\ current = {}

-----------------------------------------------------------------------------
Begin ==
  /\ pc = "idle"
  /\ queued
  /\ queued' = FALSE
  /\ pc' = "create"
  /\ copy' = role
  /\ fresh' = TRUE
  /\ left' = Desired(role)
  /\ UNCHANGED <<role, sts, informer, list, current>>

\* The reconcile ends; the status update finds out whether the Role in memory
\* is old.  What the steps have read is forgotten.
End(requeue) ==
  /\ pc' = "idle"
  /\ queued' = (queued \/ requeue \/ ~fresh)
  /\ fresh' = FALSE
  /\ left' = {}
  /\ list' = [o \in Ordinals |-> Absent]
  /\ UNCHANGED <<role, cache, copy>>

Lowest(o) == o \in left /\ \A q \in left : o <= q

CreateSkip(o) ==
  /\ pc = "create"
  /\ Lowest(o)
  /\ cache[o].selected
  /\ left' = left \ {o}
  /\ UNCHANGED <<role, sts, informer, queued, pc, copy, fresh, list, current>>

Create(o) ==
  /\ pc = "create"
  /\ Lowest(o)
  /\ ~cache[o].selected
  /\ ~sts[o].exists
  /\ Write(o, Defaulted(NewStatefulSet(copy)))
  /\ left' = left \ {o}
  /\ UNCHANGED <<role, cache, queued, pc, copy, fresh, list>>

AlreadyExists(o) ==
  /\ pc = "create"
  /\ Lowest(o)
  /\ ~cache[o].selected
  /\ sts[o].exists
  /\ End(TRUE)
  /\ current' = {}
  /\ UNCHANGED <<sts, unseen>>

\* UpdateStatefulSets lists once what carries the Role's labels, in any order.
List ==
  /\ pc = "create"
  /\ left = {}
  /\ pc' = "update"
  /\ list' = cache
  /\ current' = Ordinals \ unseen
  /\ left' = {o \in Ordinals : cache[o].selected}
  /\ UNCHANGED <<role, sts, informer, queued, copy, fresh>>

UpdateSkip(o) ==
  /\ pc = "update"
  /\ o \in left
  /\ SyncStatefulSet(copy, list[o]) = list[o]
  /\ left' = left \ {o}
  /\ UNCHANGED <<role, sts, informer, queued, pc, copy, fresh, list, current>>

UpdateForced(o) ==   \* mutant: the resource version is not sent
  /\ pc = "update"
  /\ o \in left
  /\ SyncStatefulSet(copy, list[o]) # list[o]
  /\ sts[o].exists
  /\ Write(o, Defaulted(SyncStatefulSet(copy, list[o])))
  /\ left' = left \ {o}
  /\ UNCHANGED <<role, cache, queued, pc, copy, fresh, list>>

UpdateStamped(o) ==   \* mutant: the time of the update is stored with the object
  /\ pc = "update"
  /\ o \in left
  /\ SyncStatefulSet(copy, list[o]) # list[o]
  /\ o \in current
  /\ sts' = [sts EXCEPT ![o] = Defaulted(SyncStatefulSet(copy, list[o]))]
  /\ unseen' = unseen \cup {o}
  /\ current' = current \ {o}
  /\ left' = left \ {o}
  /\ UNCHANGED <<role, cache, queued, pc, copy, fresh, list>>

Update(o) ==
  /\ pc = "update"
  /\ o \in left
  /\ SyncStatefulSet(copy, list[o]) # list[o]
  /\ o \in current
  /\ Write(o, Defaulted(SyncStatefulSet(copy, list[o])))
  /\ left' = left \ {o}
  /\ UNCHANGED <<role, cache, queued, pc, copy, fresh, list>>

UpdateConflict(o) ==
  /\ pc = "update"
  /\ o \in left
  /\ SyncStatefulSet(copy, list[o]) # list[o]
  /\ o \notin current
  /\ End(TRUE)
  /\ current' = {}
  /\ UNCHANGED <<sts, unseen>>

GoOn ==
  /\ pc = "update"
  /\ left = {}
  /\ pc' = "rest"
  /\ UNCHANGED <<role, sts, informer, queued, copy, fresh, left, list, current>>

\* The steps after these.
Finish ==
  /\ pc = "rest"
  /\ End(FALSE)
  /\ current' = {}
  /\ UNCHANGED <<sts, unseen>>

\* A call fails, or its reply is lost after it has been executed.
StepFails ==
  /\ pc # "idle"
  /\ End(TRUE)
  /\ current' = {}
  /\ \/ UNCHANGED <<sts, unseen>>
     \/ \E o \in left :
          /\ \/ pc = "create" /\ Lowest(o) /\ ~cache[o].selected /\ ~sts[o].exists
                /\ sts' = [sts EXCEPT ![o] = Defaulted(NewStatefulSet(copy))]
             \/ pc = "update" /\ o \in current
                /\ sts' = [sts EXCEPT ![o] = Defaulted(SyncStatefulSet(copy, list[o]))]
          /\ unseen' = IF sts' = sts THEN unseen ELSE unseen \cup {o}

-----------------------------------------------------------------------------
\* A user edits the Role.
EditRole(new) ==
  /\ new # role
  /\ role' = new
  /\ queued' = TRUE
  /\ fresh' = FALSE
  /\ UNCHANGED <<sts, informer, pc, copy, left, list, current>>

\* A user scales a StatefulSet, edits or removes its labels, or deletes it.
EditStatefulSet(o) ==
  /\ sts[o].exists
  /\ \/ \E n \in Counts : <<o, "replicas">> \in UserEdits /\ Write(o, [sts[o] EXCEPT !.replicas = n])
     \/ \E l \in LabelSets : <<o, "labels">> \in UserEdits /\ Write(o, [sts[o] EXCEPT !.labels = l])
     \/ <<o, "selector">> \in UserEdits /\ Write(o, [sts[o] EXCEPT !.selected = FALSE])
     \/ <<o, "delete">> \in UserEdits /\ Write(o, Absent)
  /\ UNCHANGED <<role, cache, queued, pc, copy, fresh, left, list>>

\* The informer delivers a StatefulSet; its owner is the Role.
Deliver(o) ==
  /\ o \in unseen
  /\ unseen' = unseen \ {o}
  /\ cache' = [cache EXCEPT ![o] = sts[o]]
  /\ queued' = TRUE
  /\ UNCHANGED <<role, sts, pc, copy, fresh, left, list, current>>

\* The operator restarts; it lists and enqueues every object.
Restart ==
  /\ pc' = "idle"
  /\ queued' = TRUE
  /\ cache' = sts
  /\ unseen' = {}
  /\ fresh' = FALSE
  /\ left' = {}
  /\ list' = [o \in Ordinals |-> Absent]
  /\ current' = {}
  /\ UNCHANGED <<role, sts, copy>>

Work ==
  \/ Begin
  \/ \E o \in left :
       \/ CreateSkip(o) \/ Create(o) \/ AlreadyExists(o)
       \/ UpdateSkip(o) \/ Update(o) \/ UpdateConflict(o)
  \/ List \/ GoOn \/ Finish

Fault == StepFails \/ Restart

Next ==
  \/ Work
  \/ Fault
  \/ \E o \in Ordinals : Deliver(o) \/ EditStatefulSet(o)
  \/ \E new \in RoleSpecs : EditRole(new)

Spec == Init /\ [][Next]_vars

-----------------------------------------------------------------------------
AtRest == pc = "idle" /\ ~queued /\ unseen = {}

Synced(spec, s) ==
  /\ s.exists
  /\ s.replicas >= spec.replicas
  /\ s.template = spec.template
  /\ s.labels = spec.labels
  /\ s.podLabels = PodLabels(spec)
  /\ s.settings = Defaulted([settings |-> spec.settings]).settings

\* With nothing left to do, the Role has all its StatefulSets and each carries
\* its template, labels and settings, also those of replicasets it has no
\* more (unless users took away the labels they are found by): no edit of the
\* Role or of a StatefulSet is missed, whatever the cache showed when the
\* StatefulSets were listed.
Settled(o) == o \in Desired(role) \/ sts[o].selected => Synced(role, sts[o])

RestMeansSynced == AtRest => \A o \in Ordinals : Settled(o)

\* What it rests on.  A StatefulSet of which every version has been delivered is
\* cached as it is stored, one listed in a version that is still stored as it is
\* stored; what is left to update is in the list.
Knowledge ==
  /\ \A o \in Ordinals \ unseen : cache[o] = sts[o]
  /\ \A o \in current : list[o] = sts[o]
  /\ pc = "update" => \A o \in left : list[o].selected

\* The hash label tells the template, which nobody else writes.
HashesTrue == \A o \in Ordinals : sts[o].exists => sts[o].hash = Hash[sts[o].template]

\* Unless the Role is queued again, the worker has the present Role in memory,
\* and what it has passed is as it should be, or will wake it up.
Progressing ==
  ~queued =>
    /\ pc # "idle" => copy = role /\ fresh
    /\ pc = "create" => \A o \in Desired(role) \ left : o \in unseen \/ sts[o].selected
    /\ pc = "update" => \A o \in Ordinals :
         o \in unseen \/ (IF o \in left THEN list[o] = sts[o] ELSE Settled(o))
    /\ pc \in {"idle", "rest"} => \A o \in Ordinals : o \in unseen \/ Settled(o)

SyncInv == TypeOK /\ Knowledge /\ HashesTrue /\ Progressing

\* No step of the operator removes a replica or a StatefulSet: instances are
\* never stopped by an edit of the Role, or by an old copy of a StatefulSet
\* that has been scaled up since.
NeverScaledDown ==
  [][pc' # pc \/ left' # left => \A o \in Ordinals : sts[o].exists =>
       sts'[o].exists /\ sts'[o].replicas >= sts[o].replicas]_vars

\* Seen from the Role and its StatefulSets, this is a level-triggered controller.
Controller == INSTANCE LevelTriggered WITH
  goal <- role, world <- sts, fulfilled <- \A o \in Ordinals : Settled(o), awake <- ~AtRest

\* It rests only when all is synchronised, and an edit of the Role or of a
\* StatefulSet, even one that is undone at once, never finds it asleep for good.
ImplementsController == Controller!Spec

\* Once everything is synchronised, has the labels it is found by and has been
\* delivered, the operator writes no new version any more, even if it fails,
\* restarts or reconciles the Role over and over: its own writes, which the watch
\* brings back to it, come to an end.
Steady ==
  /\ unseen = {}
  /\ pc # "idle" => copy = role
  /\ \A o \in Ordinals : Settled(o) /\ (sts[o].exists => sts[o].selected)

SteadyKept == [][Steady /\ (Work \/ Fault) => Steady' /\ sts' = sts]_vars

\* How many steps the worker may still take in such a state.  It begins another
\* reconcile if the Role is queued, or will be when this one ends: because the Role
\* in memory is old, or a StatefulSet was listed in an old version.
Again ==
  \/ queued
  \/ pc # "idle" /\ ~fresh
  \/ pc = "update" /\ ~(left \subseteq current)

StepsAhead ==
  CASE pc = "create" -> 3 [] pc = "update" -> 2 [] pc = "rest" -> 1 [] OTHER -> 0

Effort ==
  ((IF Again THEN 4 ELSE 0) + StepsAhead) * (Cardinality(Ordinals) + 1) + Cardinality(left)

\* The work that is left grows with no step of the worker, and is never more than
\* two reconciles: it writes StatefulSets and the status in every one of them, yet
\* goes round no further.
SettlesDown ==
  [][Steady /\ Work => Effort' < Effort]_vars

EffortBounded ==
  /\ Effort \in 0 .. 8 * (Cardinality(Ordinals) + 1)
  /\ Steady /\ Effort = 0 => AtRest

\* Users and faults leave the objects alone from some time on.
Calm == Work \/ \E o \in Ordinals : Deliver(o)

LiveSpec ==
  /\ Spec
  /\ WF_vars(Work)
  /\ \A o \in Ordinals : WF_vars(Deliver(o))
  /\ <>[][Calm]_vars

\* Then, if all StatefulSets have the labels they are found by, they are
\* synchronised and the operator comes to rest: its own updates, which the
\* watch brings back to it, do not go on for ever.
EventuallySynced ==
  <>[](\A o \in Ordinals : sts[o].exists => sts[o].selected)
    => <>[](AtRest /\ \A o \in Desired(role) : Synced(role, sts[o]))
=============================================================================
