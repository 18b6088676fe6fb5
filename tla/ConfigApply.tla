----------------------------- MODULE ConfigApply -----------------------------
(***************************************************************************)
(* The CartridgeConfig controller: it reads the clusterwide configuration  *)
(* through the leader, compares it with the document of a CartridgeConfig  *)
(* and patches it.  Several operators may run (the manager's own leader    *)
(* election is off by default), each with a lagging cache of the objects.  *)
(* Reading and patching are two calls between which others may patch; both *)
(* may fail, and a patch whose reply is lost has been applied.  A status   *)
(* that changes is an update of the object like any other: it is delivered *)
(* and reconciled again.                                                   *)
(***************************************************************************)
EXTENDS FiniteSets

CONSTANTS
  Operators,   \* running operators, one CartridgeConfig worker each
  Configs,     \* CartridgeConfig objects
  Sections,    \* sections of the clusterwide configuration
  Blacklist,   \* sections Cartridge keeps for itself (topology, vshard, ...)
  Values,      \* contents of a section
  Numeric,     \* those among them that hold a number
  Null,        \* no section; null in a document
  Documents    \* Documents[c]: the values of Spec.Data of c

ASSUME ConfigAssumption ==
  /\ Operators # {}
  /\ Blacklist \subseteq Sections
  /\ Numeric \subseteq Values
  /\ Null \notin Values
  /\ \A c \in Configs : \A doc \in Documents[c] :
       /\ doc.valid \in BOOLEAN
       /\ DOMAIN doc.data \subseteq Sections
       /\ \A s \in DOMAIN doc.data : doc.data[s] \in Values \cup {Null}

VARIABLES
  spec,          \* the document of each CartridgeConfig
  phase,         \* its Status.Phase
  config,        \* the clusterwide configuration
  view,          \* view[o][c]: the document in the cache of o
  current,       \* current[o]: the objects whose cached version is the stored one
  bootstrapped,  \* operators whose cached Cluster is marked bootstrapped
  queue,         \* queue[o]: the work queue of o
  task           \* task[o]: what the worker of o is doing

objects == <<spec, phase, config>>
caches == <<view, current, bootstrapped>>
vars == <<objects, caches, queue, task>>

AnyDocument == UNION {Documents[c] : c \in Configs}

\* at: the next call; job: the object reconciled; doc: the document in memory;
\* fresh: whether the copy carries the stored resource version.
Idle == [at |-> "idle"]
Tasks == [at : {"leader", "read", "apply", "done"}, job : Configs,
          doc : AnyDocument, fresh : BOOLEAN]
Phases == {"Pending", "WaitingForCluster", "WaitingForLeader", "Applying", "Ready"}

TypeOK ==
  /\ spec \in [Configs -> AnyDocument]
  /\ phase \in [Configs -> Phases]
  /\ config \in [Sections -> Values \cup {Null}]
  /\ view \in [Operators -> [Configs -> AnyDocument]]
  /\ current \in [Operators -> SUBSET Configs]
  /\ bootstrapped \subseteq Operators
  /\ queue \in [Operators -> SUBSET Configs]
  /\ task \in [Operators -> {Idle} \cup Tasks]

-----------------------------------------------------------------------------
(* The sections GetCartridgeConfig returns.                                *)
ActualConfig == {s \in Sections \ Blacklist : config[s] # Null}

\* A number read back as JSON is a float64, in the YAML document an int:
\* cmp.Equal never finds them equal.
SameValue(s, doc) == config[s] = doc[s] /\ doc[s] \notin Numeric

IsMapSubsetMissingIsEqual(doc) ==   \* mutant: found is not looked at
  \A s \in DOMAIN doc : s \in ActualConfig => SameValue(s, doc)

\* The comparison of the lengths in IsMapSubset follows from this.
IsMapSubset(doc) == \A s \in DOMAIN doc : s \in ActualConfig /\ SameValue(s, doc)

ApplyCartridgeConfig(doc) ==
  config' = [s \in Sections |-> IF s \in DOMAIN doc \ Blacklist THEN doc[s] ELSE config[s]]

\* A new version of the object c: the caches are behind, and a worker with an
\* older copy can not write it any more.
Behind(c) == current' = [o \in Operators |-> current[o] \ {c}]
Outdated(c) ==
  [o \in Operators |-> IF task[o] # Idle /\ task[o].job = c
                       THEN [task[o] EXCEPT !.fresh = FALSE] ELSE task[o]]

At(o, place) == task[o].at = place
GoTo(o, place) == task' = [task EXCEPT ![o].at = place]

Init ==
  /\ \E initial \in [Configs -> AnyDocument] :
       /\ \A c \in Configs : initial[c] \in Documents[c]
       /\ spec = initial
       /\ view = [o \in Operators |-> initial]
  /\ phase = [c \in Configs |-> "Pending"]
  /\ \E own \in Values :
       config = [s \in Sections |-> IF s \in Blacklist THEN own ELSE Null]
  /\ current = [o \in Operators |-> Configs]
  /\ bootstrapped = {}
  /\ queue = [o \in Operators |-> Configs]
  /\ task = [o \in Operators |-> Idle]

-----------------------------------------------------------------------------
Begin(o, c) ==
  /\ At(o, "idle")
  /\ c \in queue[o]
  /\ queue' = [queue EXCEPT ![o] = @ \ {c}]
  /\ task' = [task EXCEPT ![o] = [at |-> "leader", job |-> c, doc |-> view[o][c],
                                  fresh |-> c \in current[o]]]
  /\ UNCHANGED <<objects, caches>>

EndUnversioned(o, newPhase, requeue) ==   \* mutant: the status is forced
  LET c == task[o].job
      writes == newPhase # phase[c]
  IN /\ queue' = [queue EXCEPT ![o] = IF requeue THEN @ \cup {c} ELSE @]
     /\ task' = [(IF writes THEN Outdated(c) ELSE task) EXCEPT ![o] = Idle]
     /\ IF writes
        THEN phase' = [phase EXCEPT ![c] = newPhase] /\ Behind(c)
        ELSE UNCHANGED <<phase, current>>
     /\ UNCHANGED <<spec, view, bootstrapped>>

\* The final status update: refused if the copy is old, a new version of the
\* object if the phase changes.
End(o, newPhase, requeue) ==
  LET c == task[o].job
      writes == task[o].fresh /\ newPhase # phase[c]
  IN /\ queue' = [queue EXCEPT ![o] =
          IF requeue \/ ~task[o].fresh THEN @ \cup {c} ELSE @]
     /\ task' = [(IF writes THEN Outdated(c) ELSE task) EXCEPT ![o] = Idle]
     /\ IF writes
        THEN phase' = [phase EXCEPT ![c] = newPhase] /\ Behind(c)
        ELSE UNCHANGED <<phase, current>>
     /\ UNCHANGED <<spec, view, bootstrapped>>

WaitForClusterBootstrapped(o) ==
  /\ At(o, "leader")
  /\ o \notin bootstrapped
  /\ End(o, "WaitingForCluster", TRUE)
  /\ UNCHANGED config

\* The Cluster is not found.
ClusterFails(o) ==
  /\ At(o, "leader")
  /\ End(o, "WaitingForCluster", TRUE)
  /\ UNCHANGED config

GetLeader(o) ==
  /\ At(o, "leader")
  /\ o \in bootstrapped
  /\ GoTo(o, "read")
  /\ UNCHANGED <<objects, caches, queue>>

LeaderFails(o) ==
  /\ At(o, "leader")
  /\ o \in bootstrapped
  /\ End(o, "WaitingForLeader", TRUE)
  /\ UNCHANGED config

\* The call fails, or the document is not YAML.
ReadFails(o) ==
  /\ At(o, "read")
  /\ End(o, "Applying", TRUE)
  /\ UNCHANGED config

DocumentMalformed(o) ==
  /\ At(o, "read")
  /\ ~task[o].doc.valid
  /\ End(o, "Applying", TRUE)
  /\ UNCHANGED config

NothingToChangeRequeues(o) ==   \* mutant: Requeue instead of Complete
  /\ At(o, "read")
  /\ task[o].doc.valid
  /\ IsMapSubset(task[o].doc.data)
  /\ End(o, "Applying", TRUE)
  /\ UNCHANGED config

NothingToChange(o) ==
  /\ At(o, "read")
  /\ task[o].doc.valid
  /\ IsMapSubset(task[o].doc.data)
  /\ End(o, "Applying", FALSE)
  /\ UNCHANGED config

SomethingToChange(o) ==
  /\ At(o, "read")
  /\ task[o].doc.valid
  /\ ~IsMapSubset(task[o].doc.data)
  /\ GoTo(o, "apply")
  /\ UNCHANGED <<objects, caches, queue>>

Apply(o) ==
  /\ At(o, "apply")
  /\ ApplyCartridgeConfig(task[o].doc.data)
  /\ GoTo(o, "done")
  /\ UNCHANGED <<spec, phase, caches, queue>>

ApplyFailsCompletes(o) ==   \* mutant: the error is not returned
  /\ At(o, "apply")
  /\ End(o, "Applying", FALSE)
  /\ UNCHANGED config \/ ApplyCartridgeConfig(task[o].doc.data)

\* The patch is refused, or done and its reply lost.
ApplyFails(o) ==
  /\ At(o, "apply")
  /\ End(o, "Applying", TRUE)
  /\ UNCHANGED config \/ ApplyCartridgeConfig(task[o].doc.data)

Finish(o) ==
  /\ At(o, "done")
  /\ End(o, "Ready", FALSE)
  /\ UNCHANGED config

\* The status update ends in an error of its own, executed or not.
FinishFails(o) ==
  /\ At(o, "done")
  /\ End(o, "Ready", TRUE)
  /\ UNCHANGED config

StatusNotWritten(o) ==
  /\ ~At(o, "idle")
  /\ task' = [task EXCEPT ![o] = Idle]
  /\ queue' = [queue EXCEPT ![o] = @ \cup {task[o].job}]
  /\ UNCHANGED <<objects, caches>>

-----------------------------------------------------------------------------
\* A user edits a CartridgeConfig.
Edit(c, doc) ==
  /\ doc \in Documents[c]
  /\ doc # spec[c]
  /\ spec' = [spec EXCEPT ![c] = doc]
  /\ Behind(c)
  /\ task' = Outdated(c)
  /\ UNCHANGED <<phase, config, view, bootstrapped, queue>>

\* The informer of o delivers the stored object.
Deliver(o, c) ==
  /\ c \notin current[o]
  /\ current' = [current EXCEPT ![o] = @ \cup {c}]
  /\ view' = [view EXCEPT ![o][c] = spec[c]]
  /\ queue' = [queue EXCEPT ![o] = @ \cup {c}]
  /\ UNCHANGED <<objects, bootstrapped, task>>

\* The Cluster is bootstrapped and its informer says so.
DeliverBootstrapped(o) ==
  /\ o \notin bootstrapped
  /\ bootstrapped' = bootstrapped \cup {o}
  /\ UNCHANGED <<objects, view, current, queue, task>>

\* An operator restarts; it lists and enqueues every object.
Restart(o) ==
  /\ task' = [task EXCEPT ![o] = Idle]
  /\ current' = [current EXCEPT ![o] = Configs]
  /\ view' = [view EXCEPT ![o] = spec]
  /\ queue' = [queue EXCEPT ![o] = Configs]
  /\ UNCHANGED <<objects, bootstrapped>>

Work(o) ==
  \/ \E c \in Configs : Begin(o, c)
  \/ WaitForClusterBootstrapped(o) \/ GetLeader(o)
  \/ DocumentMalformed(o) \/ NothingToChange(o) \/ SomethingToChange(o)
  \/ Apply(o) \/ Finish(o)

Fault(o) ==
  \/ ClusterFails(o) \/ LeaderFails(o) \/ ReadFails(o) \/ ApplyFails(o) \/ FinishFails(o)
  \/ StatusNotWritten(o) \/ Restart(o)

Next ==
  \/ \E o \in Operators :
       \/ Work(o)
       \/ Fault(o)
       \/ DeliverBootstrapped(o)
       \/ \E c \in Configs : Deliver(o, c)
  \/ \E c \in Configs : \E doc \in Documents[c] : Edit(c, doc)

Spec == Init /\ [][Next]_vars

-----------------------------------------------------------------------------
AtRest ==
  \A o \in Operators : At(o, "idle") /\ queue[o] = {} /\ current[o] = Configs

\* What is left to configure is in the configuration, null meaning nothing.
Applied(c) ==
  /\ spec[c].valid
  /\ \A s \in DOMAIN spec[c].data \ Blacklist : config[s] = spec[c].data[s]

\* When nothing is left to do, every document is applied: no edit is lost to a
\* cached copy, a failed call, a restart or a second operator that patches
\* with an older document.
RestMeansApplied == AtRest => \A c \in Configs : Applied(c)

\* What it rests on.  What is current in a cache, and what is fresh in memory, is
\* the stored document; a malformed one gets no further than the comparison.
Known ==
  /\ \A c \in Configs : spec[c] \in Documents[c]
  /\ \A o \in Operators : \A c \in Configs :
       view[o][c] \in Documents[c] /\ (c \in current[o] => view[o][c] = spec[c])
  /\ \A o \in Operators : ~At(o, "idle") =>
       /\ task[o].doc \in Documents[task[o].job]
       /\ task[o].fresh => task[o].doc = spec[task[o].job]
       /\ task[o].at \in {"apply", "done"} => task[o].doc.valid

\* The operator o will deal with c: in a reconcile that has not patched yet, in
\* one that ends in a conflict, or in a later one.
Pending(o, c) ==
  \/ c \in queue[o] \/ c \notin current[o]
  \/ ~At(o, "idle") /\ task[o].job = c /\ (~task[o].fresh \/ ~At(o, "done"))

PendingOrApplied == \A c \in Configs : (\E o \in Operators : Pending(o, c)) \/ Applied(c)

ConfigInv == TypeOK /\ Known /\ PendingOrApplied

\* The phase Ready is written only by an operator that has patched with the
\* document the object has at that moment: an edit after the patch, or a newer
\* status, makes the update fail.
ReadyWhenWritten ==
  [][\A c \in Configs : phase[c] # "Ready" /\ phase'[c] = "Ready" =>
       \E o \in Operators : task[o].at = "done" /\ task[o].job = c /\ task[o].doc = spec[c]]_vars

\* Seen from the documents and the clusterwide configuration, the operators
\* together are a level-triggered controller.
Controller == INSTANCE LevelTriggered WITH
  goal <- spec, world <- config, fulfilled <- \A c \in Configs : Applied(c),
  awake <- ~AtRest

\* They rest only when every document is applied, and no edit finds all of them
\* asleep for good.
ImplementsController == Controller!Spec

\* Once every well-formed document is applied, and no operator has an older one in
\* its cache or in its worker, the configuration is not changed any more, although
\* documents that never compare equal are patched again and again.
Steady ==
  /\ \A c \in Configs : spec[c].valid => Applied(c)
  /\ \A o \in Operators : view[o] = spec
  /\ \A o \in Operators : ~At(o, "idle") => task[o].doc = spec[task[o].job]

SteadyKept == [][Steady /\ spec' = spec => Steady' /\ config' = config]_vars

\* Users and faults leave the objects alone from some time on.
Calm ==
  \E o \in Operators :
    Work(o) \/ DeliverBootstrapped(o) \/ \E c \in Configs : Deliver(o, c)

LiveSpec ==
  /\ Spec
  /\ \A o \in Operators :
       /\ WF_vars(Work(o))
       /\ WF_vars(DeliverBootstrapped(o))
       /\ \A c \in Configs : SF_vars(Begin(o, c)) /\ WF_vars(Deliver(o, c))
  /\ <>[][Calm]_vars

\* Then, if the documents are well formed, every document is applied and the
\* controllers come to rest: the updates of the status, each of which is
\* reconciled again, do not go on for ever.
EventuallySettles ==
  <>[](\A c \in Configs : spec[c].valid) => <>[](AtRest /\ \A c \in Configs : Applied(c))
=============================================================================
