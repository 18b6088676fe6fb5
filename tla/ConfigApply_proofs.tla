-------------------------- MODULE ConfigApply_proofs --------------------------
(***************************************************************************)
(* Theorems about ConfigApply, for any operators, objects and documents:   *)
(* Ready is written only for the document that has been patched, and, if   *)
(* no two objects own the same section, at rest every document is applied. *)
(***************************************************************************)
EXTENDS ConfigApply, TLAPS

\* What is true without any regard to what is left to do.
Sound == TypeOK /\ Known

\* The documents of one object are documents.
LEMMA DocumentOf ==
  ASSUME NEW c \in Configs, NEW doc \in Documents[c]
  PROVE  doc \in AnyDocument
BY DEF AnyDocument

\* What a worker that is not idle is doing.
LEMMA Busy ==
  ASSUME Sound, NEW o \in Operators, ~At(o, "idle")
  PROVE  /\ task[o] \in Tasks /\ task[o] # Idle
         /\ task[o].job \in Configs /\ task[o].doc \in Documents[task[o].job]
         /\ task[o].fresh \in BOOLEAN
         /\ task[o].fresh => task[o].doc = spec[task[o].job]
         /\ task[o].at \in {"apply", "done"} => task[o].doc.valid
         /\ task[o].at \in {"leader", "read", "apply", "done"}
BY DEF Sound, TypeOK, Known, At, Idle, Tasks

\* A worker is idle or busy.
LEMMA IdleOrBusy ==
  ASSUME Sound, NEW o \in Operators
  PROVE  At(o, "idle") <=> task[o] = Idle
BY DEF Sound, TypeOK, At, Idle, Tasks

\* What a new version of the object c makes of the tasks.
LEMMA OutdatedEffect ==
  ASSUME Sound, NEW c \in Configs
  PROVE  /\ Outdated(c) \in [Operators -> {Idle} \cup Tasks]
         /\ \A o \in Operators : At(o, "idle") => Outdated(c)[o] = Idle
         /\ \A o \in Operators : ~At(o, "idle") =>
              /\ Outdated(c)[o].at = task[o].at
              /\ Outdated(c)[o].job = task[o].job
              /\ Outdated(c)[o].doc = task[o].doc
              /\ Outdated(c)[o].fresh => task[o].fresh /\ task[o].job # c
<1>1. ASSUME NEW o \in Operators, At(o, "idle")  PROVE Outdated(c)[o] = Idle
  BY <1>1, IdleOrBusy DEF Outdated
<1>2. ASSUME NEW o \in Operators, ~At(o, "idle")
      PROVE  /\ Outdated(c)[o] \in Tasks
             /\ Outdated(c)[o].at = task[o].at
             /\ Outdated(c)[o].job = task[o].job
             /\ Outdated(c)[o].doc = task[o].doc
             /\ Outdated(c)[o].fresh => task[o].fresh /\ task[o].job # c
  <2>1. task[o] \in Tasks /\ task[o] # Idle
    BY <1>2, Busy
  <2> QED  BY <2>1 DEF Outdated, Tasks
<1>3. Outdated(c) \in [Operators -> {Idle} \cup Tasks]
  <2>1. \A o \in Operators : Outdated(c)[o] \in {Idle} \cup Tasks
    BY <1>1, <1>2
  <2>2. Outdated(c) = [o \in Operators |-> Outdated(c)[o]]
    BY DEF Outdated
  <2> QED  BY <2>1, <2>2
<1> QED  BY <1>1, <1>2, <1>3

\* Tasks are as they were, or idle, or know of a version less.
TasksOutdated(newer) ==
  /\ task' \in [Operators -> {Idle} \cup Tasks]
  /\ \A o \in Operators :
       \/ task'[o] = Idle
       \/ /\ ~At(o, "idle")
          /\ task'[o].at = task[o].at /\ task'[o].job = task[o].job /\ task'[o].doc = task[o].doc
          /\ task'[o].fresh => task[o].fresh /\ task[o].job \notin newer

\* The end of a reconcile, said of one operator and object at a time.
LEMMA EndEffect ==
  ASSUME Sound, NEW o \in Operators, ~At(o, "idle"), NEW newPhase \in Phases,
         NEW requeue \in BOOLEAN, End(o, newPhase, requeue)
  PROVE  /\ UNCHANGED <<spec, view, bootstrapped>>
         /\ phase' \in [Configs -> Phases]
         /\ current' \in [Operators -> SUBSET Configs]
         /\ queue' \in [Operators -> SUBSET Configs]
         /\ TasksOutdated({})
         /\ task'[o] = Idle
         /\ \A q \in Operators : current'[q] \subseteq current[q] /\ queue[q] \subseteq queue'[q]
         /\ requeue \/ ~task[o].fresh => task[o].job \in queue'[o]
         /\ \A q \in Operators \ {o} : ~At(q, "idle") => task'[q] # Idle
<1> DEFINE c == task[o].job
           writes == task[o].fresh /\ newPhase # phase[c]
<1>1. c \in Configs
  BY Busy
<1>2. /\ task \in [Operators -> {Idle} \cup Tasks] /\ phase \in [Configs -> Phases]
      /\ current \in [Operators -> SUBSET Configs] /\ queue \in [Operators -> SUBSET Configs]
  BY DEF Sound, TypeOK
<1>3. /\ UNCHANGED <<spec, view, bootstrapped>>
      /\ queue' \in [Operators -> SUBSET Configs]
      /\ \A q \in Operators : queue[q] \subseteq queue'[q]
      /\ requeue \/ ~task[o].fresh => c \in queue'[o]
  BY <1>1, <1>2 DEF End
<1>4. /\ phase' \in [Configs -> Phases]
      /\ current' \in [Operators -> SUBSET Configs]
      /\ \A q \in Operators : current'[q] \subseteq current[q]
  <2>1. CASE writes
    BY <1>1, <1>2, <2>1 DEF End, Behind
  <2>2. CASE ~writes
    BY <1>1, <1>2, <2>2 DEF End
  <2> QED  BY <2>1, <2>2
<1>5. TasksOutdated({}) /\ task'[o] = Idle /\ \A q \in Operators \ {o} : ~At(q, "idle") => task'[q] # Idle
  <2>1. CASE writes
    <3>1. task' = [Outdated(c) EXCEPT ![o] = Idle]
      BY <2>1 DEF End
    <3>2. \A q \in Operators \ {o} : ~At(q, "idle") => task[q].at # "idle"
      BY DEF At
    <3> QED  BY <1>1, <3>1, <3>2, OutdatedEffect DEF TasksOutdated, Idle
  <2>2. CASE ~writes
    <3>1. task' = [task EXCEPT ![o] = Idle]
      BY <2>2 DEF End
    <3> QED  BY <1>2, <3>1, IdleOrBusy DEF TasksOutdated
  <2> QED  BY <2>1, <2>2
<1> QED  BY <1>3, <1>4, <1>5

\* What is known stays true when tasks end or learn of newer versions.
LEMMA OutdatedSound ==
  ASSUME Sound, TasksOutdated({}), UNCHANGED <<spec, view, bootstrapped>>,
         phase' \in [Configs -> Phases],
         config' \in [Sections -> Values \cup {Null}],
         current' \in [Operators -> SUBSET Configs],
         \A q \in Operators : current'[q] \subseteq current[q],
         queue' \in [Operators -> SUBSET Configs]
  PROVE  Sound'
<1>1. TypeOK'
  BY DEF Sound, TypeOK, TasksOutdated
<1>2. \A q \in Operators : ~At(q, "idle")' => ~At(q, "idle")
  BY DEF TasksOutdated, At, Idle
<1>3. Known'
  BY <1>2 DEF Sound, Known, TasksOutdated, At, Idle
<1> QED  BY <1>1, <1>3 DEF Sound

\* A patch keeps the configuration well typed.
LEMMA PatchTyped ==
  ASSUME Sound, NEW c \in Configs, NEW doc \in Documents[c], ApplyCartridgeConfig(doc.data)
  PROVE  config' \in [Sections -> Values \cup {Null}]
BY ConfigAssumption DEF Sound, TypeOK, ApplyCartridgeConfig

\* A step of a worker's program, or of its surroundings, that ends nothing.
LEMMA StepSound == Sound /\ [Next]_vars => Sound'
<1> SUFFICES ASSUME Sound, [Next]_vars  PROVE Sound'
  OBVIOUS
<1>0. /\ task \in [Operators -> {Idle} \cup Tasks] /\ queue \in [Operators -> SUBSET Configs]
      /\ current \in [Operators -> SUBSET Configs] /\ phase \in [Configs -> Phases]
      /\ config \in [Sections -> Values \cup {Null}] /\ bootstrapped \subseteq Operators
      /\ spec \in [Configs -> AnyDocument] /\ view \in [Operators -> [Configs -> AnyDocument]]
  BY DEF Sound, TypeOK
<1>1. ASSUME NEW o \in Operators, NEW c \in Configs, Begin(o, c)  PROVE Sound'
  <2>1. view[o][c] \in Documents[c] /\ view[o][c] \in AnyDocument /\ (c \in current[o] => view[o][c] = spec[c])
    BY DocumentOf DEF Sound, Known
  <2>2. task' \in [Operators -> {Idle} \cup Tasks]
    BY <1>0, <1>1, <2>1 DEF Begin, Tasks
  <2>3. TypeOK'
    BY <1>0, <1>1, <2>2 DEF Begin, TypeOK, objects, caches
  <2>4. Known'
    BY <1>0, <1>1, <2>1 DEF Begin, Sound, Known, At, objects, caches
  <2> QED  BY <2>3, <2>4 DEF Sound
<1>2. ASSUME NEW o \in Operators, ~At(o, "idle"), NEW newPhase \in Phases, NEW requeue \in BOOLEAN,
             End(o, newPhase, requeue),
             UNCHANGED config \/ ApplyCartridgeConfig(task[o].doc.data)
      PROVE  Sound'
  <2>1. config' \in [Sections -> Values \cup {Null}]
    BY <1>0, <1>2, Busy, PatchTyped
  <2> QED  BY <1>2, <2>1, EndEffect, OutdatedSound
<1>3. ASSUME NEW o \in Operators, GetLeader(o) \/ SomethingToChange(o) \/ Apply(o)  PROVE Sound'
  <2>1. PICK place \in {"read", "apply", "done"} : GoTo(o, place) /\ (place # "read" => task[o].doc.valid)
    BY <1>3, Busy DEF GetLeader, SomethingToChange, Apply, At
  <2>2. ~At(o, "idle") /\ config' \in [Sections -> Values \cup {Null}]
    BY <1>0, <1>3, Busy, PatchTyped DEF GetLeader, SomethingToChange, Apply, At, objects
  <2>3. UNCHANGED <<spec, phase, caches, queue>>
    BY <1>3 DEF GetLeader, SomethingToChange, Apply, objects
  <2>4. task[o] \in Tasks
    BY <2>2, Busy
  <2>5. task'[o] = [task[o] EXCEPT !.at = place] /\ task' \in [Operators -> {Idle} \cup Tasks]
        /\ \A q \in Operators \ {o} : task'[q] = task[q]
    BY <1>0, <2>1, <2>4 DEF GoTo, Tasks
  <2>6. TypeOK'
    BY <1>0, <2>2, <2>3, <2>5 DEF TypeOK, caches
  <2>7. /\ task'[o].at = place /\ task'[o].job = task[o].job /\ task'[o].doc = task[o].doc
        /\ task'[o].fresh = task[o].fresh
    BY <2>4, <2>5 DEF Tasks
  <2>8. ASSUME NEW q \in Operators, ~At(q, "idle")'
        PROVE  /\ task'[q].doc \in Documents[task'[q].job]
               /\ task'[q].fresh => task'[q].doc = spec'[task'[q].job]
               /\ task'[q].at \in {"apply", "done"} => task'[q].doc.valid
    <3>1. CASE q = o
      BY <3>1, <2>1, <2>2, <2>3, <2>7, Busy
    <3>2. CASE q # o
      <4>1. task'[q] = task[q] /\ ~At(q, "idle") /\ UNCHANGED spec
        BY <3>2, <2>3, <2>5, <2>8 DEF At
      <4> QED  BY <4>1, Busy
    <3> QED  BY <3>1, <3>2
  <2>9. Known'
    BY <2>3, <2>8 DEF Sound, Known, caches
  <2> QED  BY <2>6, <2>9 DEF Sound
<1>4. ASSUME NEW o \in Operators, StatusNotWritten(o)  PROVE Sound'
  <2>1. TasksOutdated({})
    BY <1>0, <1>4, IdleOrBusy DEF StatusNotWritten, TasksOutdated
  <2>2. queue' \in [Operators -> SUBSET Configs]
    BY <1>0, <1>4, Busy DEF StatusNotWritten
  <2> QED  BY <1>0, <1>4, <2>1, <2>2, OutdatedSound DEF StatusNotWritten, objects, caches
<1>5. ASSUME NEW o \in Operators, Restart(o)  PROVE Sound'
  <2>1. \A q \in Operators \ {o} : task'[q] = task[q] /\ view'[q] = view[q] /\ current'[q] = current[q]
    BY <1>0, <1>5 DEF Restart
  <2>2. task'[o] = Idle /\ view'[o] = spec /\ UNCHANGED spec
    BY <1>0, <1>5 DEF Restart, objects
  <2>3. TypeOK'
    BY <1>0, <1>5 DEF Restart, TypeOK, objects
  <2>4. Known'
    BY <2>1, <2>2 DEF Sound, Known, At, Idle
  <2> QED  BY <2>3, <2>4 DEF Sound
<1>6. ASSUME NEW o \in Operators, DeliverBootstrapped(o)  PROVE Sound'
  BY <1>6 DEF DeliverBootstrapped, Sound, TypeOK, Known, At, objects
<1>7. ASSUME NEW o \in Operators, NEW c \in Configs, Deliver(o, c)  PROVE Sound'
  <2>1. TypeOK'
    BY <1>0, <1>7 DEF Deliver, TypeOK, objects
  <2>2. /\ \A q \in Operators, d \in Configs :
             view'[q][d] = IF q = o /\ d = c THEN spec[c] ELSE view[q][d]
        /\ \A q \in Operators, d \in Configs : d \in current'[q] => (q = o /\ d = c) \/ d \in current[q]
        /\ UNCHANGED <<spec, task>>
    BY <1>0, <1>7 DEF Deliver, objects
  <2>3. Known'
    BY <2>2 DEF Sound, Known, At
  <2> QED  BY <2>1, <2>3 DEF Sound
<1>8. ASSUME NEW c \in Configs, NEW doc \in Documents[c], Edit(c, doc)  PROVE Sound'
  <2>1. TypeOK'
    BY <1>0, <1>8, DocumentOf, OutdatedEffect DEF Edit, Behind, TypeOK
  <2>2. /\ spec'[c] = doc /\ \A d \in Configs \ {c} : spec'[d] = spec[d]
        /\ \A q \in Operators : current'[q] = current[q] \ {c}
        /\ task' = Outdated(c) /\ UNCHANGED view
    BY <1>0, <1>8 DEF Edit, Behind
  <2>3. ASSUME NEW o \in Operators, ~At(o, "idle")'
        PROVE  /\ task'[o].doc \in Documents[task'[o].job]
               /\ task'[o].fresh => task'[o].doc = spec'[task'[o].job]
               /\ task'[o].at \in {"apply", "done"} => task'[o].doc.valid
    <3>1. ~At(o, "idle")
      BY <2>2, <2>3, OutdatedEffect DEF At, Idle
    <3> QED  BY <3>1, <2>2, OutdatedEffect, Busy
  <2>4. Known'
    BY <2>2, <2>3 DEF Sound, Known
  <2> QED  BY <2>1, <2>4 DEF Sound
<1>9. CASE UNCHANGED vars
  BY <1>9 DEF vars, objects, caches, Sound, TypeOK, Known, At
<1>10. ASSUME NEW o \in Operators,
              \/ WaitForClusterBootstrapped(o) \/ ClusterFails(o) \/ LeaderFails(o)
              \/ ReadFails(o) \/ DocumentMalformed(o) \/ NothingToChange(o)
              \/ ApplyFails(o) \/ Finish(o) \/ FinishFails(o)
       PROVE  Sound'
  <2>1. ~At(o, "idle")
    BY <1>10 DEF At, WaitForClusterBootstrapped, ClusterFails, LeaderFails, ReadFails,
                 DocumentMalformed, NothingToChange, ApplyFails, Finish, FinishFails
  <2>2. \E newPhase \in Phases, requeue \in BOOLEAN : End(o, newPhase, requeue)
    BY <1>10 DEF WaitForClusterBootstrapped, ClusterFails, LeaderFails, ReadFails,
                 DocumentMalformed, NothingToChange, ApplyFails, Finish, FinishFails, Phases
  <2>3. UNCHANGED config \/ ApplyCartridgeConfig(task[o].doc.data)
    BY <1>10 DEF WaitForClusterBootstrapped, ClusterFails, LeaderFails, ReadFails,
                 DocumentMalformed, NothingToChange, ApplyFails, Finish, FinishFails
  <2> QED  BY <1>2, <2>1, <2>2, <2>3
<1> QED
  BY <1>1, <1>3, <1>4, <1>5, <1>6, <1>7, <1>8, <1>9, <1>10 DEF Next, Work, Fault

-----------------------------------------------------------------------------
(* Ready is written for the present document only.                         *)

\* What ReadyWhenWritten says of one step.
ReadyTrue ==
  \A c \in Configs : phase[c] # "Ready" /\ phase'[c] = "Ready" =>
    \E o \in Operators : task[o].at = "done" /\ task[o].job = c /\ task[o].doc = spec[c]

\* The status is written only if the copy is the stored version, whose document
\* is the one in memory.
LEMMA EndReady ==
  ASSUME Sound, NEW o \in Operators, ~At(o, "idle"), NEW newPhase, NEW requeue,
         End(o, newPhase, requeue), newPhase = "Ready" => At(o, "done")
  PROVE  ReadyTrue
<1> SUFFICES ASSUME NEW c \in Configs, phase[c] # "Ready", phase'[c] = "Ready"
             PROVE  task[o].at = "done" /\ task[o].job = c /\ task[o].doc = spec[c]
  BY DEF ReadyTrue
<1>1. task[o].fresh /\ newPhase # phase[task[o].job]
      /\ phase' = [phase EXCEPT ![task[o].job] = newPhase]
  BY DEF End
<1>2. c = task[o].job /\ newPhase = "Ready"
  BY <1>1 DEF Sound, TypeOK
<1> QED  BY <1>1, <1>2, Busy DEF At

\* Nothing else writes the phase.
LEMMA ReadyStep == Sound /\ [Next]_vars => [ReadyTrue]_vars
<1> SUFFICES ASSUME Sound, Next  PROVE ReadyTrue
  OBVIOUS
<1>1. CASE UNCHANGED phase
  BY <1>1 DEF ReadyTrue
<1>2. ASSUME NEW o \in Operators,
             \/ WaitForClusterBootstrapped(o) \/ ClusterFails(o) \/ LeaderFails(o)
             \/ ReadFails(o) \/ DocumentMalformed(o) \/ NothingToChange(o)
             \/ ApplyFails(o) \/ Finish(o) \/ FinishFails(o)
      PROVE  ReadyTrue
  BY <1>2, EndReady DEF At, WaitForClusterBootstrapped, ClusterFails, LeaderFails, ReadFails,
                        DocumentMalformed, NothingToChange, ApplyFails, Finish, FinishFails
<1>3. CASE \/ \E o \in Operators :
                \/ \E c \in Configs : Begin(o, c) \/ Deliver(o, c)
                \/ GetLeader(o) \/ SomethingToChange(o) \/ Apply(o)
                \/ StatusNotWritten(o) \/ Restart(o) \/ DeliverBootstrapped(o)
           \/ \E c \in Configs : \E doc \in Documents[c] : Edit(c, doc)
  BY <1>1, <1>3 DEF Begin, Deliver, GetLeader, SomethingToChange, Apply, StatusNotWritten,
                    Restart, DeliverBootstrapped, Edit, objects
<1> QED  BY <1>2, <1>3 DEF Next, Work, Fault

-----------------------------------------------------------------------------
(* At rest every document is applied.                                      *)

\* No section belongs to two objects; those that do are patched for ever in
\* turn, or keep the document patched last.
NoOverlap ==
  \A c, d \in Configs : c # d =>
    \A doc \in Documents[c], other \in Documents[d] :
      DOMAIN doc.data \cap DOMAIN other.data \subseteq Blacklist

\* A patch with a document of one object leaves the others applied.
LEMMA OthersApplied ==
  ASSUME NoOverlap, Sound, NEW c \in Configs, NEW doc \in Documents[c],
         ApplyCartridgeConfig(doc.data), UNCHANGED spec,
         NEW d \in Configs, d # c, Applied(d)
  PROVE  Applied(d)'
<1>1. /\ spec[d] \in Documents[d] /\ \A s \in DOMAIN spec[d].data : s \in Sections
  BY ConfigAssumption DEF Sound, Known
<1>2. \A s \in DOMAIN spec[d].data \ Blacklist : s \notin DOMAIN doc.data
  BY <1>1 DEF NoOverlap
<1>3. \A s \in DOMAIN spec[d].data \ Blacklist : config'[s] = config[s]
  BY <1>1, <1>2 DEF ApplyCartridgeConfig
<1> QED  BY <1>3 DEF Applied

\* A patch with the stored document of an object applies it.
LEMMA PatchApplies ==
  ASSUME Sound, NEW c \in Configs, spec[c].valid, ApplyCartridgeConfig(spec[c].data), UNCHANGED spec
  PROVE  Applied(c)'
<1>1. \A s \in DOMAIN spec[c].data : s \in Sections
  BY ConfigAssumption DEF Sound, Known
<1> QED  BY <1>1 DEF Applied, ApplyCartridgeConfig

\* What an operator has to do stays to be done by it, but for the object it is
\* just done with.
LEMMA PendingKept ==
  ASSUME Sound, NEW newer, TasksOutdated(newer), NEW q \in Operators, NEW d \in Configs,
         Pending(q, d), queue[q] \subseteq queue'[q], current'[q] \subseteq current[q],
         task'[q] = Idle => At(q, "idle") \/ task[q].job # d \/ d \in queue'[q]
                            \/ (task[q].fresh /\ At(q, "done"))
  PROVE  Pending(q, d)'
BY Busy, IdleOrBusy DEF Pending, TasksOutdated, At, Idle

\* A reconcile may end when its document is applied, or it has been tried, or
\* the object is queued again.
LEMMA EndProgress ==
  ASSUME Sound, PendingOrApplied, NEW o \in Operators, ~At(o, "idle"),
         NEW newPhase \in Phases, NEW requeue \in BOOLEAN, End(o, newPhase, requeue),
         \A d \in Configs \ {task[o].job} : Applied(d) => Applied(d)',
         requeue \/ (UNCHANGED config /\ (At(o, "done") \/ (task[o].fresh => Applied(task[o].job))))
  PROVE  PendingOrApplied'
<1>1. /\ UNCHANGED <<spec, view, bootstrapped>>
      /\ TasksOutdated({})
      /\ task'[o] = Idle
      /\ \A q \in Operators : current'[q] \subseteq current[q] /\ queue[q] \subseteq queue'[q]
      /\ requeue \/ ~task[o].fresh => task[o].job \in queue'[o]
      /\ \A q \in Operators \ {o} : ~At(q, "idle") => task'[q] # Idle
      /\ task[o].job \in Configs
  BY EndEffect, Busy
<1>2. ASSUME NEW d \in Configs  PROVE (\E q \in Operators : Pending(q, d)') \/ Applied(d)'
  <2>1. CASE task[o].job \in queue'[o] /\ d = task[o].job
    BY <2>1 DEF Pending
  <2>2. CASE d # task[o].job
    <3>1. CASE Applied(d)
      BY <2>2, <3>1
    <3>2. ASSUME NEW q \in Operators, Pending(q, d)  PROVE Pending(q, d)'
      BY <1>1, <2>2, <3>2, PendingKept
    <3> QED  BY <3>1, <3>2 DEF PendingOrApplied
  <2>3. CASE task[o].job \notin queue'[o] /\ d = task[o].job
    <3>1. UNCHANGED config /\ task[o].fresh /\ (At(o, "done") \/ Applied(d))
      BY <1>1, <2>3
    <3>2. CASE Applied(d)
      BY <1>1, <3>1, <3>2 DEF Applied
    <3>3. ASSUME ~Applied(d), NEW q \in Operators, Pending(q, d)  PROVE Pending(q, d)'
      BY <1>1, <3>1, <3>3, PendingKept
    <3> QED  BY <3>2, <3>3 DEF PendingOrApplied
  <2> QED  BY <2>1, <2>2, <2>3
<1> QED  BY <1>2 DEF PendingOrApplied

\* Nothing to change means that the document is in the configuration already.
LEMMA SubsetApplied ==
  ASSUME Sound, NEW c \in Configs, spec[c].valid, IsMapSubset(spec[c].data)
  PROVE  Applied(c)
BY DEF Applied, IsMapSubset, SameValue

\* The steps that end a reconcile.
LEMMA EndsProgress ==
  ASSUME NoOverlap, Sound, PendingOrApplied, NEW o \in Operators,
         \/ WaitForClusterBootstrapped(o) \/ ClusterFails(o) \/ LeaderFails(o)
         \/ ReadFails(o) \/ DocumentMalformed(o) \/ NothingToChange(o)
         \/ ApplyFails(o) \/ Finish(o) \/ FinishFails(o)
  PROVE  PendingOrApplied'
<1>1. ~At(o, "idle")
  BY DEF At, WaitForClusterBootstrapped, ClusterFails, LeaderFails, ReadFails,
         DocumentMalformed, NothingToChange, ApplyFails, Finish, FinishFails
<1>2. UNCHANGED spec
  BY DEF End, WaitForClusterBootstrapped, ClusterFails, LeaderFails, ReadFails,
         DocumentMalformed, NothingToChange, ApplyFails, Finish, FinishFails
<1>3. CASE UNCHANGED config
  <2>1. \A d \in Configs : Applied(d) => Applied(d)'
    BY <1>2, <1>3 DEF Applied
  <2>2. CASE NothingToChange(o)
    <3>1. task[o].fresh => Applied(task[o].job)
      BY <1>1, <2>2, Busy, SubsetApplied DEF NothingToChange
    <3>2. End(o, "Applying", FALSE) /\ "Applying" \in Phases
      BY <2>2 DEF NothingToChange, Phases
    <3> QED  BY <1>1, <1>3, <2>1, <3>1, <3>2, EndProgress
  <2>3. CASE Finish(o)
    <3>1. End(o, "Ready", FALSE) /\ At(o, "done") /\ "Ready" \in Phases
      BY <2>3 DEF Finish, Phases
    <3> QED  BY <1>1, <1>3, <2>1, <3>1, EndProgress
  <2>4. CASE ~NothingToChange(o) /\ ~Finish(o)
    <3>1. PICK newPhase \in Phases : End(o, newPhase, TRUE)
      BY <2>4 DEF WaitForClusterBootstrapped, ClusterFails, LeaderFails, ReadFails,
                  DocumentMalformed, ApplyFails, FinishFails, Phases
    <3> QED  BY <1>1, <2>1, <3>1, EndProgress
  <2> QED  BY <2>2, <2>3, <2>4
<1>4. CASE ApplyFails(o) /\ ApplyCartridgeConfig(task[o].doc.data)
  <2>1. \A d \in Configs \ {task[o].job} : Applied(d) => Applied(d)'
    BY <1>1, <1>2, <1>4, Busy, OthersApplied
  <2>2. End(o, "Applying", TRUE) /\ "Applying" \in Phases
    BY <1>4 DEF ApplyFails, Phases
  <2> QED  BY <1>1, <2>1, <2>2, EndProgress
<1> QED
  BY <1>3, <1>4 DEF WaitForClusterBootstrapped, ClusterFails, LeaderFails, ReadFails,
                    DocumentMalformed, NothingToChange, ApplyFails, Finish, FinishFails

\* A patch of a document that is no more the stored one brings the object back.
LEMMA ApplyProgress ==
  ASSUME NoOverlap, Sound, PendingOrApplied, NEW o \in Operators, Apply(o)
  PROVE  PendingOrApplied'
<1>1. /\ ~At(o, "idle") /\ ApplyCartridgeConfig(task[o].doc.data)
      /\ UNCHANGED <<spec, current, queue>> /\ task[o].at = "apply"
  BY DEF Apply, At, caches
<1>2. /\ task[o].job \in Configs /\ task[o].doc \in Documents[task[o].job] /\ task[o].doc.valid
      /\ task[o].fresh => task[o].doc = spec[task[o].job]
      /\ task[o] \in Tasks
  BY <1>1, Busy
<1>3. /\ task'[o] = [task[o] EXCEPT !.at = "done"]
      /\ \A q \in Operators \ {o} : task'[q] = task[q]
  BY DEF Apply, GoTo, Sound, TypeOK
<1>4. task'[o].at = "done" /\ task'[o].job = task[o].job /\ task'[o].fresh = task[o].fresh
  BY <1>2, <1>3 DEF Tasks
<1>5. ASSUME NEW d \in Configs  PROVE (\E q \in Operators : Pending(q, d)') \/ Applied(d)'
  <2>1. CASE d = task[o].job /\ task[o].fresh
    BY <1>1, <1>2, <2>1, PatchApplies
  <2>2. CASE d = task[o].job /\ ~task[o].fresh
    BY <1>4, <2>2 DEF Pending, At
  <2>3. CASE d # task[o].job
    <3>1. Applied(d) => Applied(d)'
      BY <1>1, <1>2, <2>3, OthersApplied
    <3>2. ASSUME NEW q \in Operators, Pending(q, d)  PROVE Pending(q, d)'
      BY <1>1, <1>3, <1>4, <2>3, <3>2 DEF Pending, At
    <3> QED  BY <3>1, <3>2 DEF PendingOrApplied
  <2> QED  BY <2>1, <2>2, <2>3
<1> QED  BY <1>5 DEF PendingOrApplied

\* Every step of an operator and of the others.
LEMMA ProgressStep ==
  ASSUME NoOverlap
  PROVE  Sound /\ PendingOrApplied /\ [Next]_vars => PendingOrApplied'
<1> SUFFICES ASSUME Sound, PendingOrApplied, [Next]_vars  PROVE PendingOrApplied'
  OBVIOUS
<1>0. /\ task \in [Operators -> {Idle} \cup Tasks] /\ queue \in [Operators -> SUBSET Configs]
      /\ current \in [Operators -> SUBSET Configs]
  BY DEF Sound, TypeOK
<1>1. ASSUME NEW o \in Operators, NEW c \in Configs, Begin(o, c)  PROVE PendingOrApplied'
  <2>1. /\ UNCHANGED <<spec, config, current>> /\ At(o, "idle")
        /\ \A q \in Operators \ {o} : task'[q] = task[q] /\ queue'[q] = queue[q]
        /\ queue'[o] = queue[o] \ {c}
        /\ task'[o].at = "leader" /\ task'[o].job = c
    BY <1>0, <1>1 DEF Begin, objects, caches
  <2>2. Pending(o, c)'
    BY <2>1 DEF Pending, At
  <2>3. ASSUME NEW q \in Operators, NEW d \in Configs, Pending(q, d), d # c  PROVE Pending(q, d)'
    BY <2>1, <2>3 DEF Pending, At
  <2>4. \A d \in Configs : Applied(d) => Applied(d)'
    BY <2>1 DEF Applied
  <2> QED  BY <2>2, <2>3, <2>4 DEF PendingOrApplied
<1>2. ASSUME NEW o \in Operators, GetLeader(o) \/ SomethingToChange(o)  PROVE PendingOrApplied'
  <2>1. UNCHANGED <<spec, config, current, queue>> /\ ~At(o, "idle")
    BY <1>2 DEF GetLeader, SomethingToChange, objects, caches, At
  <2>2. PICK place \in {"read", "apply"} : GoTo(o, place)
    BY <1>2 DEF GetLeader, SomethingToChange
  <2>3. /\ task'[o] = [task[o] EXCEPT !.at = place] /\ task[o] \in Tasks
        /\ \A q \in Operators \ {o} : task'[q] = task[q]
    BY <1>0, <2>1, <2>2, Busy DEF GoTo
  <2>4. task'[o].at = place /\ task'[o].job = task[o].job
    BY <2>3 DEF Tasks
  <2>5. \A q \in Operators, d \in Configs : Pending(q, d) => Pending(q, d)'
    BY <2>1, <2>3, <2>4 DEF Pending, At
  <2>6. \A d \in Configs : Applied(d) => Applied(d)'
    BY <2>1 DEF Applied
  <2> QED  BY <2>5, <2>6 DEF PendingOrApplied
<1>3. ASSUME NEW o \in Operators, Apply(o)  PROVE PendingOrApplied'
  BY <1>3, ApplyProgress
<1>4. ASSUME NEW o \in Operators,
             \/ WaitForClusterBootstrapped(o) \/ ClusterFails(o) \/ LeaderFails(o)
             \/ ReadFails(o) \/ DocumentMalformed(o) \/ NothingToChange(o)
             \/ ApplyFails(o) \/ Finish(o) \/ FinishFails(o)
      PROVE  PendingOrApplied'
  BY <1>4, EndsProgress
<1>5. ASSUME NEW o \in Operators, StatusNotWritten(o)  PROVE PendingOrApplied'
  <2>1. /\ UNCHANGED <<spec, config, current>> /\ task[o].job \in Configs
        /\ task' = [task EXCEPT ![o] = Idle]
        /\ \A q \in Operators : queue[q] \subseteq queue'[q]
        /\ task[o].job \in queue'[o]
    BY <1>0, <1>5, Busy DEF StatusNotWritten, objects, caches
  <2>2. \A q \in Operators, d \in Configs : Pending(q, d) => Pending(q, d)'
    BY <1>0, <2>1 DEF Pending, At
  <2>3. \A d \in Configs : Applied(d) => Applied(d)'
    BY <2>1 DEF Applied
  <2> QED  BY <2>2, <2>3 DEF PendingOrApplied
<1>6. ASSUME NEW o \in Operators, Restart(o)  PROVE PendingOrApplied'
  BY <1>0, <1>6 DEF Restart, PendingOrApplied, Pending
<1>7. ASSUME NEW o \in Operators, DeliverBootstrapped(o)  PROVE PendingOrApplied'
  BY <1>7 DEF DeliverBootstrapped, objects, PendingOrApplied, Pending, Applied, At
<1>8. ASSUME NEW o \in Operators, NEW c \in Configs, Deliver(o, c)  PROVE PendingOrApplied'
  <2>1. /\ UNCHANGED <<spec, config, task>> /\ c \in queue'[o]
        /\ \A q \in Operators, d \in Configs :
             /\ d \in queue[q] => d \in queue'[q]
             /\ d \in current'[q] => (q = o /\ d = c) \/ d \in current[q]
    BY <1>0, <1>8 DEF Deliver, objects
  <2>2. \A q \in Operators, d \in Configs : Pending(q, d) => Pending(q, d)'
    BY <2>1 DEF Pending, At
  <2>3. \A d \in Configs : Applied(d) => Applied(d)'
    BY <2>1 DEF Applied
  <2> QED  BY <2>2, <2>3 DEF PendingOrApplied
<1>9. ASSUME NEW c \in Configs, NEW doc \in Documents[c], Edit(c, doc)  PROVE PendingOrApplied'
  <2>1. /\ UNCHANGED <<config, queue>> /\ task' = Outdated(c)
        /\ \A d \in Configs \ {c} : spec'[d] = spec[d]
        /\ \A q \in Operators : current'[q] = current[q] \ {c}
    BY <1>0, <1>9 DEF Edit, Behind, Sound, TypeOK
  <2>2. \E q \in Operators : Pending(q, c)'
    BY <2>1, ConfigAssumption DEF Pending
  <2>3. ASSUME NEW q \in Operators, NEW d \in Configs, Pending(q, d)  PROVE Pending(q, d)'
    BY <2>1, <2>3, OutdatedEffect DEF Pending, At
  <2>4. \A d \in Configs \ {c} : Applied(d) => Applied(d)'
    BY <2>1 DEF Applied
  <2> QED  BY <2>2, <2>3, <2>4 DEF PendingOrApplied
<1>10. CASE UNCHANGED vars
  BY <1>10 DEF vars, objects, caches, PendingOrApplied, Pending, Applied, At
<1> QED
  BY <1>1, <1>2, <1>3, <1>4, <1>5, <1>6, <1>7, <1>8, <1>9, <1>10 DEF Next, Work, Fault

\* At first everything is queued.
LEMMA InitInv == Init => Sound /\ PendingOrApplied
<1> SUFFICES ASSUME Init  PROVE Sound /\ PendingOrApplied
  OBVIOUS
<1>1. PICK initial \in [Configs -> AnyDocument] :
        /\ \A c \in Configs : initial[c] \in Documents[c]
        /\ spec = initial /\ view = [o \in Operators |-> initial]
  BY DEF Init
<1>2. config \in [Sections -> Values \cup {Null}]
  BY DEF Init
<1>3. TypeOK
  BY <1>1, <1>2 DEF Init, TypeOK, Phases
<1>4. Known
  BY <1>1 DEF Init, Known, At, Idle
<1>5. PendingOrApplied
  BY ConfigAssumption DEF Init, PendingOrApplied, Pending
<1> QED  BY <1>3, <1>4, <1>5 DEF Sound

\* What the operators know of the objects is true, and the phase Ready is only
\* written by an operator that has patched with the document of that moment.
THEOREM ReadyTold == Spec => ReadyWhenWritten
<1>1. Init => Sound
  BY InitInv
<1>2. Sound /\ [Next]_vars => Sound'
  BY StepSound
<1>3. Sound /\ [Next]_vars => [ReadyTrue]_vars
  BY ReadyStep
<1> QED  BY <1>1, <1>2, <1>3, PTL DEF Spec, ReadyWhenWritten, ReadyTrue

\* If no two objects own one section: every document is applied, or some
\* operator has still to deal with its object.
THEOREM ConfigInvariant ==
  ASSUME NoOverlap
  PROVE  Spec => []ConfigInv
<1>1. Init => ConfigInv
  BY InitInv DEF ConfigInv, Sound
<1>2. ConfigInv /\ [Next]_vars => ConfigInv'
  BY StepSound, ProgressStep DEF ConfigInv, Sound
<1> QED  BY <1>1, <1>2, PTL DEF Spec

\* If no two objects own one section: when no operator has anything left to do,
\* every document is applied, for any number of operators that patch with
\* documents of different age, lost replies, refused updates and restarts.
THEOREM RestApplied ==
  ASSUME NoOverlap
  PROVE  Spec => []RestMeansApplied
<1>1. ConfigInv => RestMeansApplied
  BY DEF ConfigInv, PendingOrApplied, Pending, RestMeansApplied, AtRest
<1> QED  BY <1>1, ConfigInvariant, PTL

-----------------------------------------------------------------------------
(* The controllers are level-triggered.                                    *)

\* A step after which all operators sleep changes neither a document nor the
\* configuration: a patch is followed by the end of the reconcile or by another
\* one, an edit by its delivery to every operator.
LEMMA SleepStep ==
  ASSUME Sound, [Next]_vars, AtRest'
  PROVE  UNCHANGED <<spec, config>>
<1>1. ASSUME NEW o \in Operators, Apply(o)  PROVE FALSE
  <2>1. task[o] \in Tasks /\ task \in [Operators -> {Idle} \cup Tasks]
    BY <1>1, Busy DEF Apply, At, Sound, TypeOK
  <2>2. task'[o].at = "done"
    BY <1>1, <2>1 DEF Apply, GoTo, Tasks
  <2> QED  BY <2>2 DEF AtRest, At
<1>2. ASSUME NEW o \in Operators, ApplyFails(o)  PROVE FALSE
  <2>1. ~At(o, "idle") /\ End(o, "Applying", TRUE) /\ "Applying" \in Phases
    BY <1>2 DEF ApplyFails, At, Phases
  <2>2. task[o].job \in queue'[o]
    BY <2>1, EndEffect
  <2> QED  BY <2>2 DEF AtRest
<1>3. ASSUME NEW c \in Configs, NEW doc \in Documents[c], Edit(c, doc)  PROVE FALSE
  <2>1. PICK o \in Operators : TRUE
    BY ConfigAssumption
  <2>2. c \notin current'[o]
    BY <1>3 DEF Edit, Behind
  <2> QED  BY <2>2 DEF AtRest
<1>4. ASSUME NEW o \in Operators,
             \/ WaitForClusterBootstrapped(o) \/ ClusterFails(o) \/ LeaderFails(o)
             \/ ReadFails(o) \/ DocumentMalformed(o) \/ NothingToChange(o)
             \/ Finish(o) \/ FinishFails(o)
      PROVE  UNCHANGED <<spec, config>>
  BY <1>4 DEF WaitForClusterBootstrapped, ClusterFails, LeaderFails, ReadFails, DocumentMalformed,
              NothingToChange, Finish, FinishFails, End
<1>5. CASE \/ \E o \in Operators :
                \/ \E c \in Configs : Begin(o, c) \/ Deliver(o, c)
                \/ GetLeader(o) \/ SomethingToChange(o)
                \/ StatusNotWritten(o) \/ Restart(o) \/ DeliverBootstrapped(o)
           \/ UNCHANGED vars
  BY <1>5 DEF Begin, Deliver, GetLeader, SomethingToChange, StatusNotWritten, Restart,
              DeliverBootstrapped, vars, objects
<1> QED  BY <1>1, <1>2, <1>3, <1>4, <1>5 DEF Next, Work, Fault

\* Every step is one of a level-triggered controller.
LEMMA ControllerStep ==
  Sound /\ RestMeansApplied' /\ [Next]_vars => [Controller!Next]_(Controller!vars)
<1> SUFFICES ASSUME Sound, RestMeansApplied', [Next]_vars, AtRest'
             PROVE  Controller!Rest \/ UNCHANGED Controller!vars
  BY DEF Controller!Next, Controller!Act
<1>1. UNCHANGED <<spec, config>>
  BY SleepStep
<1>2. (\A c \in Configs : Applied(c))'
  BY DEF RestMeansApplied
<1>3. CASE ~AtRest
  BY <1>1, <1>2, <1>3 DEF Controller!Rest
<1>4. CASE AtRest
  BY <1>1, <1>4 DEF Applied, Controller!vars
<1> QED  BY <1>3, <1>4

\* If no two objects own one section, the operators rest only when every document
\* is applied, and no edit of a document finds all of them asleep for good.
THEOREM ConfigTriggered ==
  ASSUME NoOverlap
  PROVE  Spec => ImplementsController
<1>1. Init => Controller!Init
  <2> SUFFICES ASSUME Init, NEW c \in Configs  PROVE ~AtRest
    BY DEF Controller!Init
  <2>1. PICK o \in Operators : TRUE
    BY ConfigAssumption
  <2>2. c \in queue[o]
    BY DEF Init
  <2> QED  BY <2>2 DEF AtRest
<1>2. ConfigInv => Sound
  BY DEF ConfigInv, Sound
<1> QED
  BY <1>1, <1>2, ControllerStep, ConfigInvariant, RestApplied, PTL
  DEF Spec, ImplementsController, Controller!Spec

-----------------------------------------------------------------------------
(* What is applied is left alone.                                          *)

\* Patching with a document that is applied changes nothing.
LEMMA PatchedAlready ==
  ASSUME Sound, Steady, NEW o \in Operators, At(o, "apply"),
         ApplyCartridgeConfig(task[o].doc.data)
  PROVE  config' = config
<1>1. /\ task[o].job \in Configs /\ task[o].doc = spec[task[o].job] /\ task[o].doc.valid
      /\ config \in [Sections -> Values \cup {Null}]
  BY Busy DEF At, Steady, Sound, TypeOK
<1> DEFINE data == task[o].doc.data
<1>2. \A s \in DOMAIN data \ Blacklist : config[s] = data[s]
  BY <1>1 DEF Steady, Applied
<1>3. config' = [s \in Sections |-> IF s \in DOMAIN data \ Blacklist THEN data[s] ELSE config[s]]
  BY DEF ApplyCartridgeConfig
<1> HIDE DEF data
<1>4. config' = [s \in Sections |-> config[s]]
  BY <1>2, <1>3
<1> QED  BY <1>1, <1>4

\* What SteadyKept says of one step.
Still == Steady /\ spec' = spec => Steady' /\ config' = config

\* The tasks that go on work with the documents they had.
SameDocuments ==
  \A o \in Operators : ~At(o, "idle")' =>
    /\ ~At(o, "idle")
    /\ task'[o].doc = task[o].doc /\ task'[o].job = task[o].job

\* A step that leaves the configuration alone and looks at no older document.
LEMMA StillTasks ==
  ASSUME Steady, UNCHANGED <<spec, config>>, SameDocuments,
         \A o \in Operators : view'[o] = view[o] \/ view'[o] = spec
  PROVE  Steady' /\ config' = config
BY DEF Steady, SameDocuments, Applied

\* Only an edit of a document changes a steady configuration.
LEMMA StillStep == Sound /\ [Next]_vars => Still
<1> SUFFICES ASSUME Sound, [Next]_vars, Steady, spec' = spec
             PROVE  Steady' /\ config' = config
  BY DEF Still
<1>0. /\ task \in [Operators -> {Idle} \cup Tasks] /\ view \in [Operators -> [Configs -> AnyDocument]]
      /\ spec \in [Configs -> AnyDocument]
  BY DEF Sound, TypeOK
<1>1. ASSUME NEW o \in Operators, NEW c \in Configs, Begin(o, c)  PROVE Steady' /\ config' = config
  <2>1. /\ UNCHANGED <<config, view>>
        /\ task'[o].doc = view[o][c] /\ task'[o].job = c
        /\ \A q \in Operators \ {o} : task'[q] = task[q]
    BY <1>0, <1>1 DEF Begin, objects, caches
  <2> QED  BY <2>1 DEF Steady, Applied, At
<1>2. ASSUME NEW o \in Operators, NEW newPhase \in Phases, NEW requeue \in BOOLEAN, ~At(o, "idle"),
             End(o, newPhase, requeue),
             \/ UNCHANGED config
             \/ At(o, "apply") /\ ApplyCartridgeConfig(task[o].doc.data)
      PROVE  Steady' /\ config' = config
  <2>1. UNCHANGED view /\ TasksOutdated({})
    BY <1>2, EndEffect
  <2>2. SameDocuments
    BY <2>1 DEF TasksOutdated, SameDocuments, At, Idle
  <2>3. UNCHANGED config
    BY <1>2, PatchedAlready
  <2> QED  BY <2>1, <2>2, <2>3, StillTasks
<1>3. ASSUME NEW o \in Operators, GetLeader(o) \/ SomethingToChange(o) \/ Apply(o)
      PROVE  Steady' /\ config' = config
  <2>1. PICK place \in {"read", "apply", "done"} : GoTo(o, place)
    BY <1>3 DEF GetLeader, SomethingToChange, Apply
  <2>2. task[o] \in Tasks /\ ~At(o, "idle")
    BY <1>3, Busy DEF GetLeader, SomethingToChange, Apply, At
  <2>3. SameDocuments
    BY <1>0, <2>1, <2>2 DEF GoTo, SameDocuments, At, Tasks
  <2>4. UNCHANGED <<config, view>>
    BY <1>3, PatchedAlready DEF GetLeader, SomethingToChange, Apply, objects, caches
  <2> QED  BY <2>3, <2>4, StillTasks
<1>4. ASSUME NEW o \in Operators, StatusNotWritten(o) \/ Restart(o)  PROVE Steady' /\ config' = config
  <2>1. task' = [task EXCEPT ![o] = Idle] /\ UNCHANGED config
    BY <1>4 DEF StatusNotWritten, Restart, objects
  <2>2. SameDocuments
    BY <1>0, <2>1 DEF SameDocuments, At, Idle
  <2>3. \A q \in Operators : view'[q] = view[q] \/ view'[q] = spec
    BY <1>0, <1>4 DEF StatusNotWritten, Restart, caches
  <2> QED  BY <2>1, <2>2, <2>3, StillTasks
<1>5. ASSUME NEW o \in Operators, NEW c \in Configs, Deliver(o, c)  PROVE Steady' /\ config' = config
  <2>1. UNCHANGED <<config, task>> /\ view' = [view EXCEPT ![o][c] = spec[c]]
    BY <1>5 DEF Deliver, objects
  <2>2. view[o] = spec
    BY DEF Steady
  <2>3. \A q \in Operators : view'[q] = view[q]
    BY <1>0, <2>1, <2>2
  <2> QED  BY <2>1, <2>3, StillTasks DEF SameDocuments, At
<1>6. ASSUME NEW o \in Operators, DeliverBootstrapped(o)  PROVE Steady' /\ config' = config
  BY <1>6, StillTasks DEF DeliverBootstrapped, objects, SameDocuments, At
<1>7. ASSUME NEW c \in Configs, NEW doc \in Documents[c], Edit(c, doc)  PROVE FALSE
  BY <1>0, <1>7 DEF Edit
<1>8. CASE UNCHANGED vars
  BY <1>8, StillTasks DEF vars, objects, caches, SameDocuments, At
<1>9. ASSUME NEW o \in Operators,
             \/ WaitForClusterBootstrapped(o) \/ ClusterFails(o) \/ LeaderFails(o)
             \/ ReadFails(o) \/ DocumentMalformed(o) \/ NothingToChange(o)
             \/ ApplyFails(o) \/ Finish(o) \/ FinishFails(o)
      PROVE  Steady' /\ config' = config
  <2>1. /\ ~At(o, "idle")
        /\ \E newPhase \in Phases, requeue \in BOOLEAN : End(o, newPhase, requeue)
    BY <1>9 DEF At, WaitForClusterBootstrapped, ClusterFails, LeaderFails, ReadFails,
                DocumentMalformed, NothingToChange, ApplyFails, Finish, FinishFails, Phases
  <2>2. UNCHANGED config \/ (At(o, "apply") /\ ApplyCartridgeConfig(task[o].doc.data))
    BY <1>9 DEF WaitForClusterBootstrapped, ClusterFails, LeaderFails, ReadFails,
                DocumentMalformed, NothingToChange, ApplyFails, Finish, FinishFails
  <2> QED  BY <1>2, <2>1, <2>2
<1> QED
  BY <1>1, <1>3, <1>4, <1>5, <1>6, <1>7, <1>8, <1>9 DEF Next, Work, Fault

\* Once the well-formed documents are applied and every operator knows them, the
\* configuration stays as it is until a document is edited, although a document
\* with numbers, nulls or sections of Cartridge's own never compares equal and is
\* patched in each reconcile of each operator.
THEOREM AppliedSteady == Spec => SteadyKept
<1>1. Init => Sound
  BY InitInv
<1>2. Sound /\ [Next]_vars => Sound'
  BY StepSound
<1>3. Sound /\ [Next]_vars => [Still]_vars
  BY StillStep
<1> QED  BY <1>1, <1>2, <1>3, PTL DEF Spec, SteadyKept, Still

\* Which documents these are: after a patch the comparison with the configuration
\* finds nothing to change if, and only if, the document has none of these values.
\* All others are patched in every reconcile, although they are applied.
THEOREM PatchCompares ==
  ASSUME NEW c \in Configs, NEW doc \in Documents[c], ApplyCartridgeConfig(doc.data)
  PROVE  IsMapSubset(doc.data)' <=>
           \A s \in DOMAIN doc.data : s \notin Blacklist /\ doc.data[s] \notin Numeric \cup {Null}
<1> DEFINE data == doc.data
<1>1. DOMAIN data \subseteq Sections
  BY ConfigAssumption
<1>2. config' = [s \in Sections |-> IF s \in DOMAIN data \ Blacklist THEN data[s] ELSE config[s]]
  BY DEF ApplyCartridgeConfig
<1> HIDE DEF data
<1>3. ASSUME NEW s \in DOMAIN data
      PROVE  (s \in ActualConfig /\ SameValue(s, data))' <=>
               s \notin Blacklist /\ data[s] \notin Numeric \cup {Null}
  <2>1. CASE s \in Blacklist
    BY <2>1 DEF ActualConfig
  <2>2. CASE s \notin Blacklist
    <3>1. config'[s] = data[s] /\ s \in Sections
      BY <1>1, <1>2, <1>3, <2>2
    <3> QED  BY <2>2, <3>1 DEF ActualConfig, SameValue
  <2> QED  BY <2>1, <2>2
<1>4. IsMapSubset(data)' <=> \A s \in DOMAIN data : s \notin Blacklist /\ data[s] \notin Numeric \cup {Null}
  BY <1>3 DEF IsMapSubset
<1> QED  BY <1>4 DEF data
==============================================================================
