---------------------------- MODULE RolePods_proofs ----------------------------
(***************************************************************************)
(* Theorems about StatefulSets and RolePods, for any Roles, replica        *)
(* counts, templates, labels and edits.  Of the StatefulSets: the state    *)
(* stays well typed, what the operator thinks it knows of them is true,    *)
(* and no step of it takes away a replica or a StatefulSet; at rest all    *)
(* are synchronised, and what is synchronised is left alone.  Of the pods: *)
(* a Role that rests has joined every pod of its spec.  Both are           *)
(* level-triggered, and the pods' reconcile contains the StatefulSets'.    *)
(***************************************************************************)
EXTENDS RolePods, FiniteSetTheorems, TLAPS

-----------------------------------------------------------------------------
(* The functions that make the objects the operator writes.                *)

Synchronised == [replicas : Counts, template : Templates, hash : Hashes, labels : LabelSets,
                 podLabels : Hashes \X LabelSets, settings : Settings,
                 selected : BOOLEAN, exists : {TRUE}]

\* What the operator takes from a Role has the type of the field it fills.
LEMMA RoleFields ==
  ASSUME NEW spec \in RoleSpecs
  PROVE  /\ spec.replicas \in Counts
         /\ spec.replicas \in Nat
         /\ spec.template \in Templates
         /\ spec.labels \in LabelSets
         /\ spec.settings \in Settings
         /\ Hash[spec.template] \in Hashes
         /\ PodLabels(spec) \in Hashes \X LabelSets
BY StatefulSetsAssumption DEF PodLabels

\* The replicas of a StatefulSet can be compared.
LEMMA NaturalReplicas ==
  ASSUME NEW s \in Existing
  PROVE  s.exists /\ s.replicas \in Nat
BY StatefulSetsAssumption DEF Existing

\* With its defaults filled in, what the operator writes is a StatefulSet.
LEMMA DefaultedExists ==
  ASSUME NEW s \in Synchronised
  PROVE  Defaulted(s) \in Existing /\ Defaulted(s).replicas = s.replicas
BY DEF Defaulted, Synchronised, Existing, Settings

\* createStatefulSet makes a StatefulSet.
LEMMA CreateWellTyped ==
  ASSUME NEW spec \in RoleSpecs
  PROVE  Defaulted(NewStatefulSet(spec)) \in Existing
<1>1. NewStatefulSet(spec) \in Synchronised
  BY RoleFields DEF NewStatefulSet, Synchronised
<1> QED  BY <1>1, DefaultedExists

\* syncStatefulSet makes one, with no fewer replicas.
LEMMA SyncWellTyped ==
  ASSUME NEW spec \in RoleSpecs, NEW s \in Existing
  PROVE  /\ Defaulted(SyncStatefulSet(spec, s)) \in Existing
         /\ Defaulted(SyncStatefulSet(spec, s)).replicas >= s.replicas
<1>1. s.replicas \in Nat
  BY NaturalReplicas
<1>2. SyncStatefulSet(spec, s) \in Synchronised
  BY RoleFields DEF SyncStatefulSet, Synchronised, Existing
<1>3. SyncStatefulSet(spec, s).replicas >= s.replicas
  BY <1>1, RoleFields DEF SyncStatefulSet
<1> QED  BY <1>2, <1>3, DefaultedExists

\* Synchronising twice is synchronising once: an update does not cause the
\* next one.
THEOREM SyncIdempotent ==
  ASSUME NEW spec \in RoleSpecs, NEW s \in Existing
  PROVE  SyncStatefulSet(spec, SyncStatefulSet(spec, s)) = SyncStatefulSet(spec, s)
<1>1. s.replicas \in Nat
  BY NaturalReplicas
<1> QED  BY <1>1, RoleFields DEF SyncStatefulSet

-----------------------------------------------------------------------------
(* What the operator knows.                                                *)

\* What the operator knows of the StatefulSets, and the types.
IInv == TypeOK /\ Knowledge

\* Before the first reconcile nothing is known and nothing is stored.
LEMMA InitIInv == Init => IInv
BY DEF Init, IInv, TypeOK, Knowledge

\* What a write makes of the invariant, whoever writes.
LEMMA WriteStep ==
  ASSUME IInv, NEW o \in Ordinals, NEW new \in Existing \cup {Absent}, Write(o, new)
  PROVE  /\ sts' \in [Ordinals -> Existing \cup {Absent}]
         /\ unseen' \subseteq Ordinals
         /\ current' \subseteq current
         /\ \A p \in Ordinals \ unseen' : p \notin unseen /\ sts'[p] = sts[p]
         /\ \A p \in current' : sts'[p] = sts[p]
<1>1. CASE new = sts[o]
  BY <1>1 DEF IInv, TypeOK, Write
<1>2. CASE new # sts[o]
  BY <1>2 DEF IInv, TypeOK, Write
<1> QED  BY <1>1, <1>2

\* Only what has the labels of the Role is listed: it exists.
LEMMA SelectedExists ==
  ASSUME NEW s \in Existing \cup {Absent}, s.selected
  PROVE  s \in Existing
BY DEF Absent

\* The end of a reconcile forgets what was listed, whatever it has written.
LEMMA EndStep ==
  ASSUME IInv, NEW requeue \in BOOLEAN, End(requeue), current' = {},
         sts' \in [Ordinals -> Existing \cup {Absent}],
         unseen' \subseteq Ordinals,
         \A p \in Ordinals \ unseen' : p \notin unseen /\ sts'[p] = sts[p]
  PROVE  IInv'
<1>1. TypeOK'
  BY DEF IInv, TypeOK, End
<1>2. Knowledge'
  BY DEF IInv, TypeOK, Knowledge, End
<1> QED  BY <1>1, <1>2 DEF IInv

-----------------------------------------------------------------------------
(* Every step keeps the invariant.                                         *)

\* A write of one StatefulSet, by a step that leaves the cache, the list and
\* the Role's copy as they are and visits no more ordinals.
LEMMA WriteKeeps ==
  ASSUME IInv, NEW o \in Ordinals, NEW new \in Existing \cup {Absent}, Write(o, new),
         left' \subseteq left,
         UNCHANGED <<role, cache, queued, pc, copy, fresh, list>>
  PROVE  IInv'
<1>1. /\ sts' \in [Ordinals -> Existing \cup {Absent}]
      /\ unseen' \subseteq Ordinals
      /\ current' \subseteq current
      /\ \A p \in Ordinals \ unseen' : p \notin unseen /\ sts'[p] = sts[p]
      /\ \A p \in current' : sts'[p] = sts[p]
  BY WriteStep
<1>2. TypeOK'
  BY <1>1 DEF IInv, TypeOK
<1>3. Knowledge'
  BY <1>1 DEF IInv, Knowledge
<1> QED  BY <1>2, <1>3 DEF IInv

\* What an update writes is a StatefulSet, and as many replicas as the listed
\* one had.
LEMMA UpdateWrites ==
  ASSUME IInv, pc = "update", NEW o \in left
  PROVE  /\ o \in Ordinals
         /\ Defaulted(SyncStatefulSet(copy, list[o])) \in Existing
         /\ Defaulted(SyncStatefulSet(copy, list[o])).replicas >= list[o].replicas
<1>1. o \in Ordinals /\ list[o] \in Existing \cup {Absent} /\ list[o].selected /\ copy \in RoleSpecs
  BY DEF IInv, TypeOK, Knowledge
<1>2. list[o] \in Existing
  BY <1>1, SelectedExists
<1> QED  BY <1>1, <1>2, SyncWellTyped

\* A call that fails, executed or not, keeps the invariant.
LEMMA FailureKeeps == IInv /\ StepFails => IInv'
<1> SUFFICES ASSUME IInv, StepFails  PROVE IInv'
  OBVIOUS
<1>1. End(TRUE) /\ current' = {}
  BY DEF StepFails
<1>2. CASE UNCHANGED <<sts, unseen>>
  BY <1>1, <1>2, EndStep DEF IInv, TypeOK
<1>3. ASSUME NEW o \in left, NEW new \in Existing,
             sts' = [sts EXCEPT ![o] = new],
             unseen' = IF sts' = sts THEN unseen ELSE unseen \cup {o}
      PROVE  IInv'
  <2>1. /\ sts' \in [Ordinals -> Existing \cup {Absent}]
        /\ unseen' \subseteq Ordinals
        /\ \A p \in Ordinals \ unseen' : p \notin unseen /\ sts'[p] = sts[p]
    BY <1>3 DEF IInv, TypeOK
  <2> QED  BY <1>1, <2>1, EndStep
<1>4. CASE \E o \in left :
             /\ \/ sts' = [sts EXCEPT ![o] = Defaulted(NewStatefulSet(copy))]
                \/ pc = "update" /\ sts' = [sts EXCEPT ![o] = Defaulted(SyncStatefulSet(copy, list[o]))]
             /\ unseen' = IF sts' = sts THEN unseen ELSE unseen \cup {o}
  <2>1. copy \in RoleSpecs
    BY DEF IInv, TypeOK
  <2> QED  BY <1>3, <1>4, <2>1, CreateWellTyped, UpdateWrites
<1> QED  BY <1>2, <1>4 DEF StepFails

\* What a user makes of a StatefulSet is one, or no longer exists.
LEMMA EditKeeps ==
  ASSUME IInv, NEW o \in Ordinals, EditStatefulSet(o)
  PROVE  IInv'
<1>1. sts[o] \in Existing
  BY DEF IInv, TypeOK, EditStatefulSet, Absent
<1>2. PICK new \in Existing \cup {Absent} : Write(o, new)
  <2>1. \A n \in Counts : [sts[o] EXCEPT !.replicas = n] \in Existing
    BY <1>1 DEF Existing
  <2>2. \A l \in LabelSets : [sts[o] EXCEPT !.labels = l] \in Existing
    BY <1>1 DEF Existing
  <2>3. [sts[o] EXCEPT !.selected = FALSE] \in Existing
    BY <1>1 DEF Existing
  <2> QED  BY <2>1, <2>2, <2>3 DEF EditStatefulSet
<1> QED  BY <1>2, WriteKeeps DEF EditStatefulSet

\* The invariant is inductive.
LEMMA StepIInv == IInv /\ [Next]_vars => IInv'
<1> SUFFICES ASSUME IInv, [Next]_vars  PROVE IInv'
  OBVIOUS
<1>1. CASE Begin
  BY <1>1 DEF IInv, TypeOK, Knowledge, Begin, informer, Desired
<1>2. ASSUME NEW o \in left, CreateSkip(o)  PROVE IInv'
  BY <1>2 DEF IInv, TypeOK, Knowledge, CreateSkip, informer
<1>3. ASSUME NEW o \in left, Create(o)  PROVE IInv'
  <2>1. o \in Ordinals /\ copy \in RoleSpecs
    BY DEF IInv, TypeOK
  <2> QED  BY <1>3, <2>1, CreateWellTyped, WriteKeeps DEF Create
<1>4. ASSUME NEW o \in left, AlreadyExists(o)  PROVE IInv'
  BY <1>4, EndStep DEF AlreadyExists, IInv, TypeOK
<1>5. CASE List
  BY <1>5 DEF IInv, TypeOK, Knowledge, List, informer
<1>6. ASSUME NEW o \in left, UpdateSkip(o)  PROVE IInv'
  BY <1>6 DEF IInv, TypeOK, Knowledge, UpdateSkip, informer
<1>7. ASSUME NEW o \in left, Update(o)  PROVE IInv'
  BY <1>7, UpdateWrites, WriteKeeps DEF Update
<1>8. ASSUME NEW o \in left, UpdateConflict(o)  PROVE IInv'
  BY <1>8, EndStep DEF UpdateConflict, IInv, TypeOK
<1>9. CASE GoOn
  BY <1>9 DEF IInv, TypeOK, Knowledge, GoOn, informer
<1>10. CASE Finish
  BY <1>10, EndStep DEF Finish, IInv, TypeOK
<1>11. CASE StepFails
  BY <1>11, FailureKeeps
<1>12. CASE Restart
  BY <1>12 DEF IInv, TypeOK, Knowledge, Restart
<1>13. ASSUME NEW o \in Ordinals, Deliver(o)  PROVE IInv'
  BY <1>13 DEF IInv, TypeOK, Knowledge, Deliver
<1>14. ASSUME NEW o \in Ordinals, EditStatefulSet(o)  PROVE IInv'
  BY <1>14, EditKeeps
<1>15. ASSUME NEW new \in RoleSpecs, EditRole(new)  PROVE IInv'
  BY <1>15 DEF IInv, TypeOK, Knowledge, EditRole, informer
<1>16. CASE UNCHANGED vars
  BY <1>16 DEF IInv, TypeOK, Knowledge, vars, informer
<1> QED
  BY <1>1, <1>2, <1>3, <1>4, <1>5, <1>6, <1>7, <1>8, <1>9, <1>10, <1>11, <1>12, <1>13,
     <1>14, <1>15, <1>16 DEF Next, Work, Fault

\* The invariant holds throughout.
LEMMA Invariance == Spec => []IInv
BY InitIInv, StepIInv, PTL DEF Spec

\* Whatever the operator, users and faults do, the state stays well typed:
\* every object written is a StatefulSet with all its fields.
THEOREM TypeCorrect == Spec => []TypeOK
<1>1. IInv => TypeOK
  BY DEF IInv
<1> QED  BY <1>1, Invariance, PTL

-----------------------------------------------------------------------------
(* No step of the operator takes away a replica or a StatefulSet.          *)

\* What NeverScaledDown says of one step.
Kept == pc' # pc \/ left' # left => \A o \in Ordinals : sts[o].exists =>
          sts'[o].exists /\ sts'[o].replicas >= sts[o].replicas

\* A step that writes no StatefulSet takes nothing away.
LEMMA KeptWhenUnchanged == IInv /\ UNCHANGED sts => Kept
<1> SUFFICES ASSUME IInv, UNCHANGED sts, NEW o \in Ordinals, sts[o].exists
             PROVE  sts[o].replicas >= sts[o].replicas
  BY DEF Kept
<1>1. sts[o] \in Existing
  BY DEF IInv, TypeOK, Absent
<1>2. sts[o].replicas \in Nat
  BY <1>1, NaturalReplicas
<1> QED  BY <1>2

\* A write keeps the replicas if it replaces nothing, or a StatefulSet with no
\* more of them.
LEMMA KeptByWrite ==
  ASSUME IInv, NEW o \in Ordinals, NEW new \in Existing,
         sts[o].exists => new.replicas >= sts[o].replicas,
         sts' = [sts EXCEPT ![o] = new]
  PROVE  Kept
<1> SUFFICES ASSUME NEW p \in Ordinals, sts[p].exists
             PROVE  sts'[p].exists /\ sts'[p].replicas >= sts[p].replicas
  BY DEF Kept
<1>1. sts[p] \in Existing
  BY DEF IInv, TypeOK, Absent
<1>2. CASE p = o
  BY <1>2 DEF IInv, TypeOK, Existing
<1>3. CASE p # o
  <2>1. sts'[p] = sts[p]
    BY <1>3 DEF IInv, TypeOK
  <2>2. sts[p].replicas \in Nat
    BY <1>1, NaturalReplicas
  <2> QED  BY <2>1, <2>2
<1> QED  BY <1>2, <1>3

\* The update of a StatefulSet listed in the version that is stored.
LEMMA KeptByUpdate ==
  ASSUME IInv, pc = "update", NEW o \in left, o \in current,
         sts' = [sts EXCEPT ![o] = Defaulted(SyncStatefulSet(copy, list[o]))]
  PROVE  Kept
<1>1. list[o] = sts[o]
  BY DEF IInv, Knowledge
<1> QED  BY <1>1, UpdateWrites, KeptByWrite

\* The creation of a StatefulSet that does not exist replaces nothing.
LEMMA KeptByCreate ==
  ASSUME IInv, NEW o \in left, ~sts[o].exists,
         sts' = [sts EXCEPT ![o] = Defaulted(NewStatefulSet(copy))]
  PROVE  Kept
<1>1. o \in Ordinals /\ copy \in RoleSpecs
  BY DEF IInv, TypeOK
<1> QED  BY <1>1, CreateWellTyped, KeptByWrite

\* Every step of the operator keeps the replicas; the others are not bound to.
LEMMA StepKept == IInv /\ [Next]_vars => [Kept]_vars
<1> SUFFICES ASSUME IInv, Next  PROVE Kept
  OBVIOUS
<1>1. CASE UNCHANGED sts
  BY <1>1, KeptWhenUnchanged
<1>2. ASSUME NEW o \in left, Create(o)  PROVE Kept
  BY <1>2, KeptByCreate DEF Create, Write
<1>3. ASSUME NEW o \in left, Update(o)  PROVE Kept
  BY <1>3, KeptByUpdate DEF Update, Write
<1>4. CASE StepFails
  BY <1>1, <1>4, KeptByCreate, KeptByUpdate DEF StepFails
<1>5. ASSUME NEW o \in Ordinals, EditStatefulSet(o)  PROVE Kept
  BY <1>5 DEF EditStatefulSet, Kept
<1>6. CASE \/ Begin \/ List \/ GoOn \/ Finish \/ Restart
           \/ \E o \in left : CreateSkip(o) \/ AlreadyExists(o) \/ UpdateSkip(o) \/ UpdateConflict(o)
           \/ \E o \in Ordinals : Deliver(o)
           \/ \E new \in RoleSpecs : EditRole(new)
  BY <1>1, <1>6 DEF Begin, List, GoOn, Finish, Restart, CreateSkip, AlreadyExists, UpdateSkip,
                    UpdateConflict, Deliver, EditRole
<1> QED  BY <1>2, <1>3, <1>4, <1>5, <1>6 DEF Next, Work, Fault

\* CreateStatefulSets and UpdateStatefulSets never take a replica or a
\* StatefulSet away, with however old a cache, and even if the reply to a
\* write is lost: an update in which syncStatefulSet kept more replicas than
\* the Role asks for is refused if the StatefulSet has been scaled up since.
THEOREM NoScaleDown == Spec => NeverScaledDown
<1>1. IInv /\ [Next]_vars => [Kept]_vars
  BY StepKept
<1> QED  BY <1>1, Invariance, PTL DEF Spec, NeverScaledDown, Kept

-----------------------------------------------------------------------------
(* At rest everything is synchronised.                                     *)

\* What the operator writes carries the hash of its template.
LEMMA HashWritten ==
  ASSUME NEW spec \in RoleSpecs, NEW s \in Existing, s.hash = Hash[s.template]
  PROVE  LET new == Defaulted(SyncStatefulSet(spec, s)) IN new.hash = Hash[new.template]
BY DEF Defaulted, SyncStatefulSet

\* So does what it creates.
LEMMA HashCreated ==
  ASSUME NEW spec \in RoleSpecs
  PROVE  LET new == Defaulted(NewStatefulSet(spec)) IN new.hash = Hash[new.template]
BY DEF Defaulted, NewStatefulSet

\* One write of a StatefulSet with the hash of its template, or a deletion.
LEMMA HashWrite ==
  ASSUME IInv, HashesTrue, NEW o \in Ordinals, NEW new,
         sts' = [sts EXCEPT ![o] = new], new.exists => new.hash = Hash[new.template]
  PROVE  HashesTrue'
BY DEF IInv, TypeOK, HashesTrue

\* What is left to update and listed in the stored version.
LEMMA ListedTrue ==
  ASSUME IInv, HashesTrue, pc = "update", NEW o \in left, o \in current
  PROVE  /\ o \in Ordinals /\ list[o] = sts[o] /\ sts[o] \in Existing
         /\ sts[o].hash = Hash[sts[o].template]
<1>1. o \in Ordinals /\ list[o] = sts[o] /\ sts[o] \in Existing \cup {Absent} /\ sts[o].selected
  BY DEF IInv, TypeOK, Knowledge
<1>2. sts[o] \in Existing
  BY <1>1, SelectedExists
<1> QED  BY <1>1, <1>2, NaturalReplicas DEF HashesTrue

\* The hash labels stay true.
LEMMA HashStep == IInv /\ HashesTrue /\ [Next]_vars => HashesTrue'
<1> SUFFICES ASSUME IInv, HashesTrue, [Next]_vars  PROVE HashesTrue'
  OBVIOUS
<1>0. copy \in RoleSpecs /\ left \subseteq Ordinals
  BY DEF IInv, TypeOK
<1>1. CASE UNCHANGED sts
  BY <1>1 DEF HashesTrue
<1>2. ASSUME NEW o \in left, sts' = [sts EXCEPT ![o] = Defaulted(NewStatefulSet(copy))]
      PROVE  HashesTrue'
  BY <1>0, <1>2, HashCreated, HashWrite
<1>3. ASSUME NEW o \in left, pc = "update", o \in current,
             sts' = [sts EXCEPT ![o] = Defaulted(SyncStatefulSet(copy, list[o]))]
      PROVE  HashesTrue'
  <2>1. o \in Ordinals /\ list[o] \in Existing /\ list[o].hash = Hash[list[o].template]
    BY <1>3, ListedTrue
  <2> DEFINE new == Defaulted(SyncStatefulSet(copy, list[o]))
  <2>2. new.hash = Hash[new.template]
    BY <1>0, <2>1, HashWritten
  <2>3. sts' = [sts EXCEPT ![o] = new]
    BY <1>3
  <2> HIDE DEF new
  <2> QED  BY <2>1, <2>2, <2>3, HashWrite
<1>4. CASE StepFails
  BY <1>1, <1>2, <1>3, <1>4 DEF StepFails
<1>5. ASSUME NEW o \in Ordinals, EditStatefulSet(o)  PROVE HashesTrue'
  <2>1. sts[o] \in Existing /\ sts[o].hash = Hash[sts[o].template]
    BY <1>5 DEF IInv, TypeOK, EditStatefulSet, Absent, HashesTrue
  <2>2. PICK new : Write(o, new) /\ (new.exists => new.hash = Hash[new.template])
    <3>1. \A n \in Counts : LET new == [sts[o] EXCEPT !.replicas = n] IN new.hash = Hash[new.template]
      BY <2>1 DEF Existing
    <3>2. \A l \in LabelSets : LET new == [sts[o] EXCEPT !.labels = l] IN new.hash = Hash[new.template]
      BY <2>1 DEF Existing
    <3>3. LET new == [sts[o] EXCEPT !.selected = FALSE] IN new.hash = Hash[new.template]
      BY <2>1 DEF Existing
    <3>4. ~Absent.exists
      BY DEF Absent
    <3> QED  BY <1>5, <3>1, <3>2, <3>3, <3>4 DEF EditStatefulSet
  <2> QED  BY <2>2, HashWrite DEF Write
<1>6. ASSUME NEW o \in left, Create(o)  PROVE HashesTrue'
  BY <1>2, <1>6 DEF Create, Write
<1>7. ASSUME NEW o \in left, Update(o)  PROVE HashesTrue'
  BY <1>3, <1>7 DEF Update, Write
<1>8. CASE \/ Begin \/ List \/ GoOn \/ Finish \/ Restart
           \/ \E o \in left : CreateSkip(o) \/ AlreadyExists(o) \/ UpdateSkip(o) \/ UpdateConflict(o)
           \/ \E o \in Ordinals : Deliver(o)
           \/ \E new \in RoleSpecs : EditRole(new)
           \/ UNCHANGED vars
  BY <1>1, <1>8 DEF Begin, List, GoOn, Finish, Restart, CreateSkip, AlreadyExists, UpdateSkip,
                    UpdateConflict, Deliver, EditRole, vars
<1> QED  BY <1>4, <1>5, <1>6, <1>7, <1>8 DEF Next, Work, Fault

\* No two templates have the same hash.
CollisionFree == \A s, t \in Templates : Hash[s] = Hash[t] => s = t

\* A StatefulSet that an update leaves as it is, with defaults filled in, is as
\* the Role wants it.
LEMMA SyncFixpoint ==
  ASSUME CollisionFree, NEW spec \in RoleSpecs, NEW s \in Existing,
         s.hash = Hash[s.template], Defaulted(SyncStatefulSet(spec, s)) = s
  PROVE  Synced(spec, s)
<1> DEFINE new == Defaulted(SyncStatefulSet(spec, s))
<1>1. /\ new.hash = Hash[spec.template] /\ new.labels = spec.labels
      /\ new.podLabels = PodLabels(spec)
      /\ new.settings = IF spec.settings = "unset" THEN "RollingUpdate" ELSE spec.settings
      /\ new.replicas = IF spec.replicas > s.replicas THEN spec.replicas ELSE s.replicas
  BY DEF Defaulted, SyncStatefulSet
<1>2. spec.template = s.template
  <2>1. Hash[spec.template] = Hash[s.template]
    BY <1>1
  <2>2. spec.template \in Templates /\ s.template \in Templates
    BY RoleFields DEF Existing
  <2> QED  BY <2>1, <2>2 DEF CollisionFree
<1>3. s.replicas >= spec.replicas
  BY <1>1, RoleFields, NaturalReplicas
<1> QED  BY <1>1, <1>2, <1>3, NaturalReplicas DEF Synced, Defaulted

\* One that synchronising does not change has its defaults filled in.
LEMMA SyncUnchanged ==
  ASSUME NEW spec \in RoleSpecs, NEW s \in Existing, SyncStatefulSet(spec, s) = s
  PROVE  Defaulted(SyncStatefulSet(spec, s)) = s
<1>1. s.settings # "unset"
  BY DEF Existing
<1>2. Defaulted(s) = s
  BY <1>1 DEF Defaulted, Existing
<1> QED  BY <1>2

\* What a write makes of the StatefulSets of which nothing is on its way then.
LEMMA WriteSettles ==
  ASSUME IInv, NEW o \in Ordinals, NEW new, Write(o, new)
  PROVE  /\ unseen \subseteq unseen'
         /\ \A p \in Ordinals \ unseen' : sts'[p] = sts[p]
         /\ o \notin unseen' => new = sts[o]
BY DEF IInv, TypeOK, Write

\* A StatefulSet nobody has touched is settled as it was.
LEMMA SettledKept ==
  ASSUME NEW o \in Ordinals, UNCHANGED role, sts'[o] = sts[o]
  PROVE  Settled(o)' <=> Settled(o)
BY DEF Settled, Desired, Synced, PodLabels, Defaulted

\* Whoever writes a StatefulSet, its new version wakes the worker up.
LEMMA ProgressWrite ==
  ASSUME IInv, Progressing, NEW o \in Ordinals, NEW new, Write(o, new),
         UNCHANGED <<role, cache, queued, pc, copy, fresh, left, list>>
  PROVE  Progressing'
<1> SUFFICES ASSUME ~queued  PROVE Progressing'
  BY DEF Progressing
<1>1. \A p \in Ordinals \ unseen' : p \notin unseen /\ sts'[p] = sts[p] /\ (Settled(p) => Settled(p)')
  BY WriteSettles, SettledKept
<1>2. Desired(role)' = Desired(role) /\ Desired(role) \subseteq Ordinals
  BY DEF Desired
<1>3. (pc' # "idle" => copy' = role' /\ fresh')
  BY DEF Progressing
<1>4. pc' = "create" => \A p \in Desired(role)' \ left' : p \in unseen' \/ sts'[p].selected
  BY <1>1, <1>2 DEF Progressing
<1>5. pc' = "update" => \A p \in Ordinals :
        p \in unseen' \/ (IF p \in left' THEN list'[p] = sts'[p] ELSE Settled(p)')
  BY <1>1 DEF Progressing
<1>6. pc' \in {"idle", "rest"} => \A p \in Ordinals : p \in unseen' \/ Settled(p)'
  BY <1>1 DEF Progressing
<1> QED  BY <1>3, <1>4, <1>5, <1>6 DEF Progressing

\* CreateStatefulSets passes what it has created, or found.
LEMMA ProgressCreate ==
  ASSUME IInv, Progressing, NEW o \in left, CreateSkip(o) \/ Create(o)
  PROVE  Progressing'
<1> SUFFICES ASSUME ~queued  PROVE Progressing'
  BY DEF Progressing, CreateSkip, Create
<1>1. /\ o \in Ordinals /\ left' = left \ {o} /\ pc = "create"
      /\ UNCHANGED <<role, queued, pc, copy, fresh>>
  BY DEF IInv, TypeOK, CreateSkip, Create
<1>2. o \in unseen' \/ sts'[o].selected
  <2>1. CASE CreateSkip(o)
    BY <2>1, <1>1 DEF CreateSkip, informer, IInv, Knowledge
  <2>2. CASE Create(o)
    BY <2>2, <1>1 DEF Create, Write, IInv, TypeOK, NewStatefulSet, Defaulted
  <2> QED  BY <2>1, <2>2
<1>3. unseen \subseteq unseen' /\ \A p \in Ordinals \ unseen' : sts'[p] = sts[p]
  <2>1. CASE CreateSkip(o)
    BY <2>1 DEF CreateSkip, informer
  <2>2. CASE Create(o)
    BY <2>2, <1>1, WriteSettles DEF Create
  <2> QED  BY <2>1, <2>2
<1>4. Desired(role)' = Desired(role) /\ Desired(role) \subseteq Ordinals
  BY <1>1 DEF Desired
<1>5. \A p \in Desired(role)' \ left' : p \in unseen' \/ sts'[p].selected
  BY <1>1, <1>2, <1>3, <1>4 DEF Progressing
<1> QED  BY <1>1, <1>5 DEF Progressing

\* What UpdateStatefulSets lists is up to date and all there is, or a version is
\* on its way.
LEMMA ProgressList == IInv /\ Progressing /\ List => Progressing'
<1> SUFFICES ASSUME IInv, Progressing, List, ~queued  PROVE Progressing'
  BY DEF Progressing, List
<1>1. UNCHANGED <<role, sts, unseen, copy, fresh>> /\ pc' = "update" /\ copy = role /\ fresh
  BY DEF List, informer, Progressing
<1>2. ASSUME NEW p \in Ordinals \ unseen
      PROVE  IF p \in left' THEN list'[p] = sts[p] ELSE Settled(p)
  <2>1. cache[p] = sts[p]
    BY DEF IInv, Knowledge
  <2>2. p \in left' <=> sts[p].selected
    BY <2>1 DEF List
  <2>3. p \in Desired(role) => sts[p].selected
    BY DEF Progressing, List
  <2> QED  BY <2>1, <2>2, <2>3 DEF List, Settled
<1>3. \A p \in Ordinals : Settled(p)' <=> Settled(p)
  BY <1>1, SettledKept
<1> QED  BY <1>1, <1>2, <1>3 DEF Progressing

\* UpdateStatefulSets passes what is settled, or whose new version will come.
LEMMA ProgressUpdate ==
  ASSUME CollisionFree, IInv, HashesTrue, Progressing, NEW o \in left,
         UpdateSkip(o) \/ Update(o)
  PROVE  Progressing'
<1> SUFFICES ASSUME ~queued  PROVE Progressing'
  BY DEF Progressing, UpdateSkip, Update
<1>1. /\ o \in Ordinals /\ left' = left \ {o} /\ pc = "update" /\ copy = role /\ fresh
      /\ copy \in RoleSpecs /\ UNCHANGED <<role, queued, pc, copy, fresh, list>>
  BY DEF IInv, TypeOK, UpdateSkip, Update, Progressing
<1> DEFINE new == Defaulted(SyncStatefulSet(copy, list[o]))
<1>2. unseen \subseteq unseen' /\ \A p \in Ordinals \ unseen' : sts'[p] = sts[p]
  <2>1. CASE UpdateSkip(o)
    BY <2>1 DEF UpdateSkip, informer
  <2>2. CASE Update(o)
    BY <2>2, <1>1, WriteSettles DEF Update
  <2> QED  BY <2>1, <2>2
<1>3. ASSUME o \notin unseen'  PROVE Settled(o)'
  <2>1. list[o] = sts[o]
    <3>1. CASE UpdateSkip(o)
      BY <3>1, <1>1, <1>3 DEF UpdateSkip, informer, Progressing
    <3>2. CASE Update(o)
      BY <3>2 DEF Update, IInv, Knowledge
    <3> QED  BY <3>1, <3>2
  <2>2. sts[o] \in Existing /\ sts[o].hash = Hash[sts[o].template]
    <3>1. sts[o] \in Existing \cup {Absent} /\ sts[o].selected
      BY <1>1, <2>1 DEF IInv, TypeOK, Knowledge
    <3>2. sts[o] \in Existing
      BY <3>1, SelectedExists
    <3> QED  BY <1>1, <3>2, NaturalReplicas DEF HashesTrue
  <2>3. Defaulted(SyncStatefulSet(role, sts[o])) = sts[o]
    <3>1. CASE UpdateSkip(o)
      BY <3>1, <1>1, <2>1, <2>2, SyncUnchanged DEF UpdateSkip
    <3>2. CASE Update(o)
      BY <3>2, <1>1, <1>3, <2>1, WriteSettles DEF Update
    <3> QED  BY <3>1, <3>2
  <2>4. Synced(role, sts[o])
    BY <1>1, <2>2, <2>3, SyncFixpoint
  <2> QED  BY <1>1, <1>2, <1>3, <2>4, SettledKept DEF Settled
<1>4. ASSUME NEW p \in Ordinals
      PROVE  p \in unseen' \/ (IF p \in left' THEN list'[p] = sts'[p] ELSE Settled(p)')
  <2>1. CASE p = o
    BY <2>1, <1>1, <1>3
  <2>2. CASE p # o /\ p \notin unseen'
    <3>1. sts'[p] = sts[p] /\ p \notin unseen
      BY <2>2, <1>2
    <3>2. Settled(p)' <=> Settled(p)
      BY <3>1, <1>1, SettledKept
    <3> QED  BY <2>2, <3>1, <3>2, <1>1 DEF Progressing
  <2> QED  BY <2>1, <2>2
<1> QED  BY <1>1, <1>4 DEF Progressing

\* A step that leaves the Role in the queue.
LEMMA ProgressQueued == queued' => Progressing'
BY DEF Progressing

\* Every step of the worker and of the others.
LEMMA ProgressStep ==
  ASSUME CollisionFree
  PROVE  IInv /\ HashesTrue /\ Progressing /\ [Next]_vars => Progressing'
<1> SUFFICES ASSUME IInv, HashesTrue, Progressing, [Next]_vars  PROVE Progressing'
  OBVIOUS
<1>1. CASE Begin
  BY <1>1 DEF Begin, Progressing, Desired
<1>2. ASSUME NEW o \in left, CreateSkip(o) \/ Create(o)  PROVE Progressing'
  BY <1>2, ProgressCreate
<1>3. CASE List
  BY <1>3, ProgressList
<1>4. ASSUME NEW o \in left, UpdateSkip(o) \/ Update(o)  PROVE Progressing'
  BY <1>4, ProgressUpdate
<1>5. CASE GoOn \/ Finish
  <2>1. UNCHANGED <<role, sts, unseen, copy>> /\ (queued' \/ (fresh /\ ~queued))
        /\ (pc' = "idle" \/ (pc' = "rest" /\ fresh' = fresh))
        /\ (pc = "rest" \/ (pc = "update" /\ left = {}))
    BY <1>5 DEF GoOn, Finish, End, informer, IInv, TypeOK, Progressing
  <2>2. \A p \in Ordinals : Settled(p)' <=> Settled(p)
    BY <2>1, SettledKept
  <2> QED  BY <2>1, <2>2 DEF Progressing
<1>6. ASSUME NEW o \in Ordinals, EditStatefulSet(o)  PROVE Progressing'
  <2>1. PICK new : Write(o, new)
    BY <1>6 DEF EditStatefulSet
  <2> QED  BY <1>6, <2>1, ProgressWrite DEF EditStatefulSet
<1>7. CASE \/ StepFails \/ Restart
           \/ \E o \in left : AlreadyExists(o) \/ UpdateConflict(o)
           \/ \E o \in Ordinals : Deliver(o)
           \/ \E new \in RoleSpecs : EditRole(new)
  BY <1>7, ProgressQueued DEF StepFails, Restart, AlreadyExists, UpdateConflict, End, Deliver, EditRole
<1>8. CASE UNCHANGED vars
  <2>1. \A p \in Ordinals : Settled(p)' <=> Settled(p)
    BY <1>8, SettledKept DEF vars
  <2>2. Desired(role)' = Desired(role)
    BY <1>8 DEF vars, Desired
  <2> QED  BY <1>8, <2>1, <2>2 DEF vars, informer, Progressing
<1> QED
  BY <1>1, <1>2, <1>3, <1>4, <1>5, <1>6, <1>7, <1>8 DEF Next, Work, Fault

\* What the operator knows and what it has still to do tell the truth about the
\* StatefulSets, if no two templates have the same hash.
THEOREM SyncInvariant ==
  ASSUME CollisionFree
  PROVE  Spec => []SyncInv
<1>1. Init => IInv /\ HashesTrue /\ Progressing
  <2>1. Init => HashesTrue /\ Progressing
    BY DEF Init, HashesTrue, Progressing, Absent
  <2> QED  BY <2>1, InitIInv
<1>2. IInv /\ HashesTrue /\ Progressing /\ [Next]_vars => (IInv /\ HashesTrue /\ Progressing)'
  BY StepIInv, HashStep, ProgressStep
<1>3. IInv /\ HashesTrue /\ Progressing => SyncInv
  BY DEF IInv, SyncInv
<1> QED  BY <1>1, <1>2, <1>3, PTL DEF Spec

\* When there is nothing left to do, the Role has all its StatefulSets, and each
\* found by its labels carries the Role's template, labels and settings, for
\* any edits, deletions, failures and restarts, and however late the informer:
\* neither of the two steps passes a StatefulSet by without a wake-up to come.
\* Two templates with one hash are the exception: syncStatefulSet compares the
\* hash label only.
THEOREM RestSynced ==
  ASSUME CollisionFree
  PROVE  Spec => []RestMeansSynced
<1>1. SyncInv => RestMeansSynced
  BY DEF SyncInv, Progressing, RestMeansSynced, AtRest
<1> QED  BY <1>1, SyncInvariant, PTL

-----------------------------------------------------------------------------
(* The two steps as a level-triggered controller.                          *)

\* A write whose version is not on its way has changed nothing.
LEMMA SilentWrite ==
  ASSUME IInv, NEW o \in Ordinals, NEW new, Write(o, new), unseen' = {}
  PROVE  sts' = sts
<1>1. sts \in [Ordinals -> Existing \cup {Absent}]
  BY DEF IInv, TypeOK
<1>2. new = sts[o]
  BY DEF Write
<1> QED  BY <1>1, <1>2 DEF Write

\* A step after which the controller sleeps has changed neither the Role nor a
\* StatefulSet: failed calls and edits of the Role ask for a reconcile, writes are
\* on their way to the cache.
LEMMA SyncSleep ==
  ASSUME IInv, [Next]_vars, AtRest'
  PROVE  UNCHANGED <<role, sts>>
<1>1. ASSUME NEW o \in left, Create(o) \/ Update(o)  PROVE UNCHANGED <<role, sts>>
  <2>1. o \in Ordinals
    BY DEF IInv, TypeOK
  <2> QED  BY <1>1, <2>1, SilentWrite DEF Create, Update, AtRest
<1>2. ASSUME NEW o \in Ordinals, EditStatefulSet(o)  PROVE UNCHANGED <<role, sts>>
  <2>1. PICK new : Write(o, new)
    BY <1>2 DEF EditStatefulSet
  <2> QED  BY <1>2, <2>1, SilentWrite DEF EditStatefulSet, AtRest
<1>3. CASE \/ StepFails \/ Restart
           \/ \E o \in left : AlreadyExists(o) \/ UpdateConflict(o)
           \/ \E o \in Ordinals : Deliver(o)
           \/ \E new \in RoleSpecs : EditRole(new)
  BY <1>3 DEF StepFails, Restart, AlreadyExists, UpdateConflict, End, Deliver, EditRole, AtRest
<1>4. CASE \/ Begin \/ List \/ GoOn \/ Finish
           \/ \E o \in left : CreateSkip(o) \/ UpdateSkip(o)
           \/ UNCHANGED vars
  BY <1>4 DEF Begin, List, GoOn, Finish, CreateSkip, UpdateSkip, End, vars
<1> QED  BY <1>1, <1>2, <1>3, <1>4 DEF Next, Work, Fault

\* Every step is one of a level-triggered controller.
LEMMA SyncControllerStep ==
  IInv /\ RestMeansSynced' /\ [Next]_vars => [Controller!Next]_(Controller!vars)
<1> SUFFICES ASSUME IInv, RestMeansSynced', [Next]_vars, AtRest'
             PROVE  Controller!Rest \/ UNCHANGED Controller!vars
  BY DEF Controller!Next, Controller!Act
<1>1. UNCHANGED <<role, sts>>
  BY SyncSleep
<1>2. (\A o \in Ordinals : Settled(o))' = \A o \in Ordinals : Settled(o)
  <2>1. \A o \in Ordinals : Settled(o)' <=> Settled(o)
    BY <1>1, SettledKept
  <2> QED  BY <2>1
<1>3. CASE AtRest
  BY <1>1, <1>2, <1>3 DEF Controller!vars
<1>4. CASE ~AtRest
  <2>1. (\A o \in Ordinals : Settled(o))'
    BY DEF RestMeansSynced
  <2> QED  BY <1>1, <1>4, <2>1 DEF Controller!Rest
<1> QED  BY <1>3, <1>4

\* Creating and updating the StatefulSets is a level-triggered controller: it
\* sleeps only when all is synchronised, and whatever users do to the Role or to a
\* StatefulSet, even what they undo at once, it is awake until it has seen it.
THEOREM SyncTriggered ==
  ASSUME CollisionFree
  PROVE  Spec => ImplementsController
<1>1. Init => Controller!Init
  BY DEF Init, AtRest, Controller!Init
<1> QED
  BY <1>1, SyncControllerStep, Invariance, RestSynced, PTL
  DEF Spec, ImplementsController, Controller!Spec

-----------------------------------------------------------------------------
(* What is synchronised is left alone.                                     *)

\* CreateStatefulSets visits ordinals of the Role's replicasets only.
CreatesDesired == pc = "create" => left \subseteq Desired(copy)

\* Begin takes them from the Role, and the step only removes some.
LEMMA CreatesDesiredStep == CreatesDesired /\ [Next]_vars => CreatesDesired'
<1> SUFFICES ASSUME CreatesDesired, [Next]_vars, pc' = "create"  PROVE left' \subseteq Desired(copy)'
  BY DEF CreatesDesired
<1>1. CASE Begin
  BY <1>1 DEF Begin, Desired
<1>2. ASSUME NEW o \in left, \/ CreateSkip(o) \/ Create(o) \/ AlreadyExists(o)
                             \/ UpdateSkip(o) \/ Update(o) \/ UpdateConflict(o)
      PROVE  left' \subseteq Desired(copy)'
  BY <1>2 DEF CreateSkip, Create, AlreadyExists, UpdateSkip, Update, UpdateConflict, End,
              CreatesDesired, Desired
<1>3. CASE List \/ GoOn \/ Finish \/ StepFails \/ Restart
  BY <1>3 DEF List, GoOn, Finish, StepFails, Restart, End
<1>4. CASE \/ \E o \in Ordinals : Deliver(o) \/ EditStatefulSet(o)
           \/ \E new \in RoleSpecs : EditRole(new)
           \/ UNCHANGED vars
  BY <1>4 DEF Deliver, EditStatefulSet, EditRole, vars, CreatesDesired, Desired
<1> QED  BY <1>1, <1>2, <1>3, <1>4 DEF Next, Work, Fault

\* Synchronising what is synchronised gives the same object, defaults included: the
\* update of a Role without an update strategy is not undone by the API server
\* and done again.
LEMMA SyncedFixpoint ==
  ASSUME NEW spec \in RoleSpecs, NEW s \in Existing, Synced(spec, s),
         s.hash = Hash[s.template]
  PROVE  Defaulted(SyncStatefulSet(spec, s)) = s
<1>1. s.replicas \in Nat /\ spec.replicas \in Nat
  BY NaturalReplicas, RoleFields
<1>2. (IF spec.replicas > s.replicas THEN spec.replicas ELSE s.replicas) = s.replicas
  BY <1>1 DEF Synced
<1>3. Hash[spec.template] = s.hash /\ spec.template = s.template /\ spec.labels = s.labels
      /\ PodLabels(spec) = s.podLabels
  BY DEF Synced
<1>4. (IF spec.settings = "unset" THEN "RollingUpdate" ELSE spec.settings) = s.settings
  BY DEF Synced, Defaulted
<1> DEFINE new == Defaulted(SyncStatefulSet(spec, s))
<1>5. /\ new.replicas = s.replicas /\ new.template = s.template /\ new.hash = s.hash
      /\ new.labels = s.labels /\ new.podLabels = s.podLabels /\ new.settings = s.settings
      /\ new.selected = s.selected /\ new.exists = s.exists
  BY <1>2, <1>3, <1>4, NaturalReplicas DEF Defaulted, SyncStatefulSet, Existing
<1>6. new \in Existing
  BY SyncWellTyped
<1> HIDE DEF new
<1>7. new = s
  BY <1>5, <1>6 DEF Existing
<1> QED  BY <1>7 DEF new

\* In a steady state there is nothing to create.
LEMMA NothingToCreate ==
  ASSUME IInv, CreatesDesired, Steady, pc = "create", NEW o \in left
  PROVE  cache[o].selected /\ sts[o].exists
<1>1. o \in Ordinals /\ o \in Desired(role)
  BY DEF IInv, TypeOK, CreatesDesired, Steady
<1>2. sts[o].exists /\ sts[o].selected
  BY <1>1 DEF Steady, Settled, Synced
<1>3. cache[o] = sts[o]
  BY <1>1 DEF IInv, Knowledge, Steady
<1> QED  BY <1>2, <1>3

\* And an update of what is stored changes nothing.
LEMMA NothingToUpdate ==
  ASSUME IInv, HashesTrue, Steady, pc = "update", NEW o \in left, o \in current
  PROVE  Defaulted(SyncStatefulSet(copy, list[o])) = sts[o]
<1>1. o \in Ordinals /\ list[o] = sts[o] /\ sts[o] \in Existing /\ sts[o].hash = Hash[sts[o].template]
  BY ListedTrue
<1>2. copy = role /\ copy \in RoleSpecs /\ list[o].selected
  BY DEF IInv, TypeOK, Knowledge, Steady
<1>3. Synced(copy, sts[o])
  BY <1>1, <1>2 DEF Steady, Settled
<1> QED  BY <1>1, <1>2, <1>3, SyncedFixpoint

\* What SteadyKept says of one step.
SyncStill == Steady /\ (Work \/ Fault) => Steady' /\ sts' = sts

\* No step of the worker writes then, whichever calls fail.
LEMMA SyncStillStep == IInv /\ HashesTrue /\ CreatesDesired => SyncStill
<1> SUFFICES ASSUME IInv, HashesTrue, CreatesDesired, Steady, Work \/ Fault
             PROVE  /\ UNCHANGED <<role, sts, unseen>>
                    /\ pc' # "idle" => copy' = role
  <2>1. ASSUME Steady, UNCHANGED <<role, sts, unseen>>, pc' # "idle" => copy' = role
        PROVE  Steady'
    <3>1. \A o \in Ordinals : Settled(o)' <=> Settled(o)
      BY <2>1, SettledKept
    <3> QED  BY <2>1, <3>1 DEF Steady
  <2> QED  BY <2>1 DEF SyncStill
<1>0. left \subseteq Ordinals /\ sts \in [Ordinals -> Existing \cup {Absent}] /\ unseen = {}
  BY DEF IInv, TypeOK, Steady
<1>1. CASE Begin \/ List \/ GoOn \/ Finish \/ Restart
  BY <1>0, <1>1 DEF Begin, List, GoOn, Finish, Restart, End, Steady, informer
<1>2. ASSUME NEW o \in left, CreateSkip(o) \/ AlreadyExists(o) \/ UpdateSkip(o) \/ UpdateConflict(o)
      PROVE  UNCHANGED <<role, sts, unseen>> /\ (pc' # "idle" => copy' = role)
  BY <1>2 DEF CreateSkip, AlreadyExists, UpdateSkip, UpdateConflict, End, Steady, informer
<1>3. ASSUME NEW o \in left, Create(o)  PROVE FALSE
  BY <1>3, NothingToCreate DEF Create
<1>4. ASSUME NEW o \in left, Update(o)
      PROVE  UNCHANGED <<role, sts, unseen>> /\ (pc' # "idle" => copy' = role)
  <2>1. Write(o, sts[o]) /\ UNCHANGED <<role, pc, copy>> /\ pc = "update"
    BY <1>4, NothingToUpdate DEF Update
  <2>2. sts' = sts /\ unseen' = unseen
    BY <1>0, <2>1 DEF Write
  <2> QED  BY <2>1, <2>2 DEF Steady
<1>5. CASE StepFails
  <2>1. UNCHANGED role /\ pc' = "idle"
    BY <1>5 DEF StepFails, End
  <2>2. ASSUME NEW o \in left, pc = "update", o \in current,
               sts' = [sts EXCEPT ![o] = Defaulted(SyncStatefulSet(copy, list[o]))]
        PROVE  sts' = sts
    <3>1. sts' = [sts EXCEPT ![o] = sts[o]]
      BY <2>2, NothingToUpdate
    <3> QED  BY <1>0, <3>1
  <2>3. sts' = sts /\ unseen' = unseen
    BY <1>5, <2>2, NothingToCreate DEF StepFails
  <2> QED  BY <2>1, <2>3
<1> QED  BY <1>1, <1>2, <1>3, <1>4, <1>5 DEF Work, Fault

\* Once all StatefulSets are synchronised and seen, the operator's reconciles,
\* failures and restarts write no new version of any: the watch brings it nothing
\* of its own making, so that it does not wake itself up for ever.
THEOREM SyncSteady == Spec => SteadyKept
<1>1. Init => HashesTrue /\ CreatesDesired
  BY DEF Init, HashesTrue, CreatesDesired, Absent
<1>2. IInv /\ HashesTrue /\ CreatesDesired /\ [Next]_vars => (HashesTrue /\ CreatesDesired)'
  BY HashStep, CreatesDesiredStep
<1>3. IInv /\ HashesTrue /\ CreatesDesired /\ [Next]_vars => [SyncStill]_vars
  BY SyncStillStep
<1> QED  BY <1>1, <1>2, <1>3, Invariance, PTL DEF Spec, SteadyKept, SyncStill

-----------------------------------------------------------------------------
(* The work that is left comes to an end.                                  *)

\* Of two measures the first one decides.
LEMMA FirstDecides ==
  ASSUME NEW n \in Nat, NEW a \in Nat, NEW b \in Nat, NEW c \in Nat, NEW d \in Nat,
         a < b, c <= n
  PROVE  a * (n + 1) + c < b * (n + 1) + d
<1>1. (a + 1) * (n + 1) = a * (n + 1) + n + 1
  OBVIOUS
<1>2. (a + 1) * (n + 1) <= b * (n + 1)
  OBVIOUS
<1>3. a * (n + 1) \in Nat /\ b * (n + 1) \in Nat
  OBVIOUS
<1> QED  BY <1>1, <1>2, <1>3

\* How far the worker is from the end, the StatefulSets of the step aside.
Distance == (IF Again THEN 4 ELSE 0) + StepsAhead

\* The distance is small, and what is left of a step finite.
LEMMA EffortParts ==
  ASSUME IsFiniteSet(Ordinals), left \subseteq Ordinals
  PROVE  /\ Distance \in 0 .. 7
         /\ Cardinality(Ordinals) \in Nat
         /\ Cardinality(left) \in 0 .. Cardinality(Ordinals)
         /\ \A o \in left : Cardinality(left \ {o}) = Cardinality(left) - 1
         /\ Effort = Distance * (Cardinality(Ordinals) + 1) + Cardinality(left)
<1>1. Distance \in 0 .. 7
  BY DEF Distance, StepsAhead
<1>2. IsFiniteSet(left) /\ Cardinality(left) <= Cardinality(Ordinals)
  BY FS_Subset
<1>3. Cardinality(Ordinals) \in Nat /\ Cardinality(left) \in Nat
  BY <1>2, FS_CardinalityType
<1>4. \A o \in left : Cardinality(left \ {o}) = Cardinality(left) - 1
  BY <1>2, FS_RemoveElement
<1> QED  BY <1>1, <1>2, <1>3, <1>4 DEF Effort, Distance

\* A step that comes closer to the end, or no further from it and visits a
\* StatefulSet, leaves less to do.
LEMMA EffortFalls ==
  ASSUME IsFiniteSet(Ordinals), left \subseteq Ordinals, left' \subseteq Ordinals,
         \/ Distance' < Distance
         \/ Distance' <= Distance /\ \E o \in left : left' = left \ {o}
  PROVE  Effort' < Effort
<1> DEFINE n == Cardinality(Ordinals)
           a == (IF Again' THEN 4 ELSE 0) + StepsAhead'
           c == Cardinality(left')
<1>1. /\ Distance \in 0 .. 7 /\ n \in Nat /\ Cardinality(left) \in 0 .. n
      /\ \A o \in left : Cardinality(left \ {o}) = Cardinality(left) - 1
      /\ Effort = Distance * (n + 1) + Cardinality(left)
  BY EffortParts
<1>2. a \in 0 .. 7
  BY DEF StepsAhead
<1>3. c \in 0 .. n
  <2>1. IsFiniteSet(left') /\ Cardinality(left') <= n
    BY FS_Subset
  <2> QED  BY <1>1, <2>1, FS_CardinalityType
<1>4. Effort' = a * (n + 1) + c /\ Distance' = a
  BY DEF Effort, Distance
<1> HIDE DEF n, a, c
<1>5. CASE a < Distance
  BY <1>1, <1>2, <1>3, <1>4, <1>5, FirstDecides
<1>6. CASE a = Distance /\ c = Cardinality(left) - 1
  <2>1. a * (n + 1) \in Nat
    BY <1>1, <1>2
  <2> QED  BY <1>1, <1>3, <1>4, <1>6, <2>1
<1>7. a < Distance \/ (a <= Distance /\ c = Cardinality(left) - 1)
  BY <1>1, <1>4 DEF c
<1> QED  BY <1>1, <1>2, <1>5, <1>6, <1>7

\* What SettlesDown says of one step.
SyncSettling == Steady /\ Work => Effort' < Effort

\* A step of a reconcile comes closer to its end, and causes no other one: in a
\* steady state nothing exists that is to be created, and what is listed anew is
\* listed in the stored version.
LEMMA SyncSettlingStep ==
  ASSUME IsFiniteSet(Ordinals), IInv, CreatesDesired, [Next]_vars
  PROVE  SyncSettling
<1> SUFFICES ASSUME Steady, Work  PROVE Effort' < Effort
  BY DEF SyncSettling
<1>0. left \subseteq Ordinals /\ left' \subseteq Ordinals
  BY StepIInv DEF IInv, TypeOK
<1> USE DEF Distance, StepsAhead
<1>1. CASE Begin
  <2>1. Again /\ ~Again' /\ pc = "idle" /\ pc' = "create"
    BY <1>1 DEF Begin, Again
  <2> QED  BY <1>0, <2>1, EffortFalls
<1>2. ASSUME NEW o \in left, CreateSkip(o) \/ Create(o) \/ UpdateSkip(o) \/ Update(o)
      PROVE  Effort' < Effort
  <2>1. left' = left \ {o} /\ pc' = pc /\ pc \in {"create", "update"}
    BY <1>2 DEF CreateSkip, Create, UpdateSkip, Update
  <2>2. Again' => Again
    <3>1. CASE CreateSkip(o) \/ UpdateSkip(o)
      BY <3>1, <2>1 DEF CreateSkip, UpdateSkip, Again
    <3>2. CASE Create(o)
      BY <3>2, NothingToCreate DEF Create
    <3>3. CASE Update(o)
      <4>1. current \ {o} \subseteq current' /\ UNCHANGED <<queued, fresh>>
        BY <3>3 DEF Update, Write
      <4> QED  BY <2>1, <4>1 DEF Again
    <3> QED  BY <1>2, <3>1, <3>2, <3>3
  <2> QED  BY <1>0, <2>1, <2>2, EffortFalls
<1>3. ASSUME NEW o \in left, AlreadyExists(o)  PROVE FALSE
  BY <1>3, NothingToCreate DEF AlreadyExists
<1>4. ASSUME NEW o \in left, UpdateConflict(o)  PROVE Effort' < Effort
  <2>1. Again /\ pc = "update" /\ pc' = "idle"
    BY <1>4 DEF UpdateConflict, Again, End
  <2> QED  BY <1>0, <2>1, EffortFalls
<1>5. CASE List \/ GoOn \/ Finish
  <2>1. StepsAhead' < StepsAhead
    BY <1>5 DEF List, GoOn, Finish, End
  <2>2. Again' => Again
    <3>1. CASE List
      <4>1. left' \subseteq current' /\ UNCHANGED <<queued, fresh>> /\ pc = "create"
        BY <3>1 DEF List, Steady
      <4> QED  BY <4>1 DEF Again
    <3>2. CASE GoOn \/ Finish
      BY <3>2 DEF GoOn, Finish, End, Again
    <3> QED  BY <1>5, <3>1, <3>2
  <2> QED  BY <1>0, <2>1, <2>2, EffortFalls
<1> QED  BY <1>1, <1>2, <1>3, <1>4, <1>5 DEF Work

\* Once all StatefulSets are synchronised and seen, there is work for two reconciles
\* at most, unless a user changes something or a call fails: the operator comes to
\* rest, though the API server keeps filling in what it compares.
THEOREM SyncSettles ==
  ASSUME IsFiniteSet(Ordinals)
  PROVE  Spec => SettlesDown /\ []EffortBounded
<1>1. Init => CreatesDesired
  BY DEF Init, CreatesDesired
<1>2. IInv /\ CreatesDesired /\ [Next]_vars => [SyncSettling]_vars
  BY SyncSettlingStep
<1>3. IInv => EffortBounded
  <2> SUFFICES ASSUME IInv  PROVE EffortBounded
    OBVIOUS
  <2> DEFINE n == Cardinality(Ordinals)
  <2>1. /\ Distance \in 0 .. 7 /\ n \in Nat /\ Cardinality(left) \in 0 .. n
        /\ Effort = Distance * (n + 1) + Cardinality(left)
    BY EffortParts DEF IInv, TypeOK
  <2>2. ASSUME Steady, Effort = 0  PROVE AtRest
    <3>1. Distance = 0
      <4>1. Distance > 0 => Distance * (n + 1) >= n + 1
        BY <2>1
      <4> HIDE DEF n
      <4> QED  BY <2>1, <2>2, <4>1
    <3>2. ~Again /\ StepsAhead = 0
      BY <3>1 DEF Distance, StepsAhead
    <3>3. pc = "idle"
      BY <3>2 DEF StepsAhead, IInv, TypeOK
    <3> QED  BY <2>2, <3>2, <3>3 DEF Again, AtRest, Steady
  <2>3. Effort \in 0 .. 8 * (n + 1)
    <3>1. Distance * (n + 1) \in 0 .. 7 * (n + 1)
      BY <2>1
    <3> HIDE DEF n
    <3> QED  BY <2>1, <3>1
  <2> QED  BY <2>2, <2>3 DEF EffortBounded
<1> QED
  BY <1>1, <1>2, <1>3, CreatesDesiredStep, Invariance, PTL DEF Spec, SettlesDown, SyncSettling

-------------------------------------------------------------------------------
(* The Role from its StatefulSets to its joined pods.                      *)

\* What is true without any regard to what is left to do.
PodsSound == PodsTypeOK /\ Knowledge /\ AlwaysSelected

\* A StatefulSet the operator writes with the labels it is found by.
LEMMA PodsWrite ==
  ASSUME PodsSound, NEW o \in Ordinals, NEW new \in Existing, new.selected,
         sts' = [sts EXCEPT ![o] = new],
         unseen' = IF new = sts[o] THEN unseen ELSE unseen \cup {o}
  PROVE  /\ sts' \in [Ordinals -> Existing \cup {Absent}]
         /\ AlwaysSelected'
         /\ unseen \subseteq unseen'
         /\ sts'[o] = new
         /\ \A q \in Ordinals \ {o} : sts'[q] = sts[q]
         /\ \A q \in Ordinals \ unseen' : q \notin unseen /\ sts'[q] = sts[q]
<1>1. sts \in [Ordinals -> Existing \cup {Absent}]
  BY DEF PodsSound, PodsTypeOK
<1>2. /\ sts' \in [Ordinals -> Existing \cup {Absent}]
      /\ sts'[o] = new
      /\ \A q \in Ordinals \ {o} : sts'[q] = sts[q]
  BY <1>1
<1>3. AlwaysSelected'
  BY <1>2 DEF PodsSound, AlwaysSelected
<1> QED  BY <1>1, <1>2, <1>3

\* What CreateStatefulSets writes.
LEMMA CreatedSelected ==
  ASSUME PodsSound
  PROVE  Defaulted(NewStatefulSet(copy)) \in Existing /\ Defaulted(NewStatefulSet(copy)).selected
<1>1. copy \in RoleSpecs
  BY DEF PodsSound, PodsTypeOK
<1>2. Defaulted(NewStatefulSet(copy)).selected
  BY DEF Defaulted, NewStatefulSet
<1> QED  BY <1>1, <1>2, CreateWellTyped

\* What UpdateStatefulSets writes.
LEMMA UpdatedSelected ==
  ASSUME PodsSound, pc = "update", NEW o \in left
  PROVE  /\ Defaulted(SyncStatefulSet(copy, list[o])) \in Existing
         /\ Defaulted(SyncStatefulSet(copy, list[o])).selected
<1>1. /\ copy \in RoleSpecs /\ o \in Ordinals /\ list[o].selected
      /\ list[o] \in Existing \cup {Absent}
  BY DEF PodsSound, PodsTypeOK, Knowledge
<1>2. list[o] \in Existing
  BY <1>1, SelectedExists
<1>3. Defaulted(SyncStatefulSet(copy, list[o])).selected
  BY <1>1 DEF Defaulted, SyncStatefulSet
<1> QED  BY <1>1, <1>2, <1>3, SyncWellTyped

\* A step that leaves the StatefulSets and the informer alone.
Quiet ==
  /\ UNCHANGED <<sts, informer, list>>
  /\ role' \in RoleSpecs /\ copy' \in RoleSpecs
  /\ left' \subseteq Ordinals /\ current' \subseteq current
  /\ pc' \in {"idle", "create", "update", "rest", "join", "configure"}
  /\ pc' = "update" => pc = "update" /\ left' \subseteq left

\* It keeps what is sound.
LEMMA QuietSound == PodsSound /\ Quiet => PodsSound'
BY DEF PodsSound, Quiet, PodsTypeOK, Knowledge, AlwaysSelected, informer

\* The end of a reconcile, whatever its last call has done.
LEMMA EndSound ==
  ASSUME PodsSound, NEW requeue, End(requeue), current' = {},
         sts' \in [Ordinals -> Existing \cup {Absent}], AlwaysSelected',
         \A q \in Ordinals \ unseen' : q \notin unseen /\ sts'[q] = sts[q]
  PROVE  PodsSound'
BY DEF PodsSound, PodsTypeOK, Knowledge, End

\* It may have written nothing.
LEMMA EndQuiet ==
  ASSUME PodsSound, NEW requeue, End(requeue), current' = {}, UNCHANGED <<sts, unseen>>
  PROVE  PodsSound'
<1>1. AlwaysSelected' /\ sts' \in [Ordinals -> Existing \cup {Absent}]
  BY DEF PodsSound, PodsTypeOK, AlwaysSelected
<1> QED  BY <1>1, EndSound

\* A call that fails.
LEMMA FailureSound == PodsSound /\ StepFails => PodsSound'
<1> SUFFICES ASSUME PodsSound, StepFails  PROVE PodsSound'
  OBVIOUS
<1>1. End(TRUE) /\ current' = {}
  BY DEF StepFails
<1>2. CASE UNCHANGED <<sts, unseen>>
  BY <1>1, <1>2, EndQuiet
<1>3. ASSUME NEW o \in left, NEW new \in Existing, new.selected,
             sts' = [sts EXCEPT ![o] = new],
             unseen' = IF sts' = sts THEN unseen ELSE unseen \cup {o}
      PROVE  PodsSound'
  <2>1. o \in Ordinals /\ (sts' = sts <=> new = sts[o])
    BY <1>3 DEF PodsSound, PodsTypeOK
  <2>2. /\ sts' \in [Ordinals -> Existing \cup {Absent}] /\ AlwaysSelected'
        /\ \A q \in Ordinals \ unseen' : q \notin unseen /\ sts'[q] = sts[q]
    BY <1>3, <2>1, PodsWrite
  <2> QED  BY <1>1, <2>2, EndSound
<1>4. CASE \E o \in left :
             /\ \/ sts' = [sts EXCEPT ![o] = Defaulted(NewStatefulSet(copy))]
                \/ pc = "update" /\ sts' = [sts EXCEPT ![o] = Defaulted(SyncStatefulSet(copy, list[o]))]
             /\ unseen' = IF sts' = sts THEN unseen ELSE unseen \cup {o}
  BY <1>3, <1>4, CreatedSelected, UpdatedSelected
<1> QED  BY <1>2, <1>4 DEF StepFails

\* A StatefulSet is created or updated.
LEMMA WritesSound ==
  ASSUME PodsSound, NEW o \in left, Create(o) \/ Update(o)
  PROVE  PodsSound' /\ unseen \subseteq unseen' /\ sts'[o].selected
         /\ \A q \in Ordinals \ {o} : sts'[q] = sts[q]
<1>1. PICK new \in Existing : Write(o, new) /\ new.selected
  BY CreatedSelected, UpdatedSelected DEF Create, Update
<1>2. o \in Ordinals /\ left' = left \ {o} /\ UNCHANGED <<role, cache, queued, pc, copy, fresh, list>>
  BY DEF Create, Update, PodsSound, PodsTypeOK
<1>3. sts' = [sts EXCEPT ![o] = new] /\ unseen' = IF new = sts[o] THEN unseen ELSE unseen \cup {o}
  BY <1>1 DEF Write
<1>4. /\ sts' \in [Ordinals -> Existing \cup {Absent}]
      /\ AlwaysSelected'
      /\ unseen \subseteq unseen' /\ sts'[o] = new
      /\ \A q \in Ordinals \ {o} : sts'[q] = sts[q]
      /\ \A q \in Ordinals \ unseen' : q \notin unseen /\ sts'[q] = sts[q]
  BY <1>1, <1>2, <1>3, PodsWrite
<1>5. \A q \in current' : q \in current /\ (q # o \/ new = sts[o])
  BY <1>1 DEF Write
<1>6. \A q \in current' : sts'[q] = sts[q]
  BY <1>1, <1>2, <1>3, <1>5 DEF PodsSound, PodsTypeOK, Write
<1>7. PodsTypeOK'
  BY <1>2, <1>4 DEF PodsSound, PodsTypeOK
<1>8. Knowledge'
  BY <1>2, <1>4, <1>5, <1>6 DEF PodsSound, Knowledge
<1> QED  BY <1>1, <1>4, <1>7, <1>8 DEF PodsSound

-------------------------------------------------------------------------------
\* The steps of the loops over StatefulSets and pods.
LoopSteps ==
  \/ Begin \/ GoOn \/ CartridgeReady \/ AllJoined
  \/ \E o \in left : CreateSkip(o) \/ UpdateSkip(o) \/ ListReplicaset(o) \/ ConfigureReplicaset(o)
  \/ \E p \in podsLeft : PodMissing(p) \/ JoinPod(p)

\* They neither write a StatefulSet nor list any.
LEMMA LoopQuiet == PodsSound /\ LoopSteps => Quiet
<1> SUFFICES ASSUME PodsSound, LoopSteps  PROVE Quiet
  OBVIOUS
<1> USE DEF PodsSound, PodsTypeOK, Quiet
<1>1. CASE Begin
  BY <1>1 DEF Begin, Desired
<1>2. CASE GoOn
  BY <1>2 DEF GoOn
<1>3. CASE CartridgeReady
  BY <1>3 DEF CartridgeReady, Desired
<1>4. CASE AllJoined
  BY <1>4 DEF AllJoined, Desired
<1>5. ASSUME NEW o \in left, CreateSkip(o) \/ UpdateSkip(o)  PROVE Quiet
  BY <1>5 DEF CreateSkip, UpdateSkip
<1>6. ASSUME NEW o \in left, ListReplicaset(o) \/ ConfigureReplicaset(o)  PROVE Quiet
  BY <1>6 DEF ListReplicaset, ConfigureReplicaset
<1>7. ASSUME NEW p \in podsLeft, PodMissing(p) \/ JoinPod(p)  PROVE Quiet
  BY <1>7 DEF PodMissing, JoinPod, Visit, vars
<1> QED  BY <1>1, <1>2, <1>3, <1>4, <1>5, <1>6, <1>7 DEF LoopSteps

\* The ends of a reconcile in which no call failed.
EndSteps ==
  \/ CartridgeNotReady \/ NotAllJoined \/ NotAllConfigured \/ WaitForBootstrap \/ RoleReady
  \/ \E p \in podsLeft : JoinRefused(p)
  \/ SyncFails

\* They do not write a StatefulSet either.
LEMMA EndsSound == PodsSound /\ EndSteps => PodsSound'
<1> SUFFICES ASSUME PodsSound, EndSteps  PROVE PodsSound'
  OBVIOUS
<1>1. ASSUME NEW p, NEW requeue, EndIn(p, requeue)  PROVE PodsSound'
  <2>1. End(requeue \/ (fresh /\ p # phase)) /\ current' = {} /\ UNCHANGED <<sts, unseen>>
    BY <1>1 DEF EndIn
  <2> QED  BY <2>1, EndQuiet
<1>2. CASE SyncFails
  <2>1. End(TRUE) /\ current' = {} /\ UNCHANGED <<sts, unseen>>
    BY <1>2 DEF SyncFails, AlreadyExists, UpdateConflict
  <2> QED  BY <2>1, EndQuiet
<1> QED
  BY <1>1, <1>2 DEF EndSteps, CartridgeNotReady, NotAllJoined, NotAllConfigured,
                    WaitForBootstrap, RoleReady, JoinRefused

\* The steps of others, which leave the worker alone.
Outside ==
  \/ \E p \in Pods : PodComesUp(p) \/ PodGoesDown(p)
  \/ BootstrapCluster
  \/ UNCHANGED allVars

\* Every step of the system is one of these.
LEMMA StepsSorted ==
  ASSUME [RolePodsNext]_allVars
  PROVE  \/ LoopSteps \/ EndSteps \/ Outside
         \/ List /\ UNCHANGED podVars
         \/ \E o \in left : (Create(o) \/ Update(o)) /\ UNCHANGED podVars
         \/ CallFails \/ OperatorRestarts
         \/ \E o \in Ordinals : DeliverStatefulSet(o)
         \/ \E new \in RoleSpecs : EditRole(new) /\ UNCHANGED podVars
BY DEF RolePodsNext, RoleWork, Kubernetes, SyncStatefulSets, LoopSteps, EndSteps, Outside

\* Every step keeps what is sound.
LEMMA PodsSoundStep == PodsSound /\ [RolePodsNext]_allVars => PodsSound'
<1> SUFFICES ASSUME PodsSound, [RolePodsNext]_allVars  PROVE PodsSound'
  OBVIOUS
<1>1. CASE LoopSteps
  BY <1>1, LoopQuiet, QuietSound
<1>2. CASE EndSteps
  BY <1>2, EndsSound
<1>3. CASE Outside
  <2>1. UNCHANGED vars
    BY <1>3 DEF Outside, PodComesUp, PodGoesDown, PodsChange, BootstrapCluster, allVars
  <2>2. Quiet
    BY <2>1 DEF vars, Quiet, PodsSound, PodsTypeOK
  <2> QED  BY <2>2, QuietSound
<1>4. CASE List
  BY <1>4 DEF List, PodsSound, PodsTypeOK, Knowledge, AlwaysSelected, informer
<1>5. ASSUME NEW o \in left, Create(o) \/ Update(o)  PROVE PodsSound'
  BY <1>5, WritesSound
<1>6. CASE CallFails
  BY <1>6, FailureSound DEF CallFails
<1>7. CASE OperatorRestarts
  BY <1>7 DEF OperatorRestarts, Restart, PodsSound, PodsTypeOK, Knowledge, AlwaysSelected
<1>8. ASSUME NEW o \in Ordinals, DeliverStatefulSet(o)  PROVE PodsSound'
  BY <1>8 DEF DeliverStatefulSet, Deliver, PodsSound, PodsTypeOK, Knowledge, AlwaysSelected
<1>9. ASSUME NEW new \in RoleSpecs, EditRole(new)  PROVE PodsSound'
  BY <1>9 DEF EditRole, PodsSound, PodsTypeOK, Knowledge, AlwaysSelected, informer
<1> QED  BY <1>1, <1>2, <1>3, <1>4, <1>5, <1>6, <1>7, <1>8, <1>9, StepsSorted

\* While a reconcile goes on, what is joined, remembered or on its way is so
\* after each step of the loops.
LEMMA LoopProgress ==
  ASSUME PodsSound, JoinProgress, LoopSteps
  PROVE  JoinProgress'
<1> SUFFICES ASSUME ~queued'  PROVE JoinProgress'
  BY DEF JoinProgress
<1>1. \A o \in Ordinals \ unseen : cache[o] = sts[o]
  BY DEF PodsSound, Knowledge
<1>2. CASE Begin
  BY <1>2 DEF Begin, JoinProgress, Desired, informer
<1>3. CASE GoOn
  BY <1>3 DEF GoOn, JoinProgress, Desired, informer
<1>4. CASE CartridgeReady
  BY <1>4 DEF CartridgeReady, JoinProgress, Desired, informer
<1>5. CASE AllJoined
  BY <1>5 DEF AllJoined, JoinProgress, JoinedBut, Desired, PodsOf, Pods, informer, cluster, loop
<1>6. ASSUME NEW o \in left, CreateSkip(o) \/ UpdateSkip(o)  PROVE JoinProgress'
  BY <1>1, <1>6 DEF CreateSkip, UpdateSkip, JoinProgress, Desired, informer
<1>7. ASSUME NEW o \in left, ConfigureReplicaset(o)  PROVE JoinProgress'
  BY <1>7 DEF ConfigureReplicaset, JoinProgress, JoinedBut, Desired, PodsOf, Pods, informer, cluster
<1>8. ASSUME NEW o \in left, ListReplicaset(o)  PROVE JoinProgress'
  <2>1. /\ ~queued /\ pc = "join" /\ copy = role /\ podsLeft = {}
        /\ UNCHANGED <<role, sts, unseen, pc, copy, fresh, joined, phase, complete>>
        /\ left' = left \ {o}
        /\ podsLeft' = IF Listed(o) THEN PodsOf(o, role.replicas) ELSE {}
    BY <1>8 DEF ListReplicaset, JoinProgress, informer, cluster
  <2>2. \A q \in Desired(role) : q \in unseen \/ sts[q].selected
    BY <2>1 DEF JoinProgress
  <2>3. o \in Desired(role) => o \in unseen \/ Listed(o)
    BY <1>1, <2>2 DEF Desired, Listed
  <2>4. ASSUME complete, NEW q \in Desired(role), q \notin left'
        PROVE  JoinedBut(q, podsLeft)'
    <3>1. CASE q = o
      BY <2>1, <2>3, <2>4, <3>1 DEF JoinedBut, PodsOf, Pods
    <3>2. CASE q # o
      <4>1. JoinedBut(q, {})
        BY <2>1, <2>4, <3>2 DEF JoinProgress
      <4> QED  BY <2>1, <4>1 DEF JoinedBut, PodsOf, Pods
    <3> QED  BY <3>1, <3>2
  <2> QED  BY <2>1, <2>4 DEF JoinProgress, Desired
<1>9. ASSUME NEW p \in podsLeft, PodMissing(p) \/ JoinPod(p)  PROVE JoinProgress'
  BY <1>9 DEF PodMissing, JoinPod, Visit, JoinProgress, JoinedBut, Desired, PodsOf, Pods, vars, informer
<1> QED  BY <1>2, <1>3, <1>4, <1>5, <1>6, <1>7, <1>8, <1>9 DEF LoopSteps

\* A reconcile that ends without another one to come has joined every pod, or
\* has told users that it cannot.
LEMMA EndProgress ==
  ASSUME PodsSound, JoinProgress, EndSteps
  PROVE  JoinProgress'
<1> SUFFICES ASSUME ~queued'  PROVE JoinProgress'
  BY DEF JoinProgress
<1>1. CASE RoleReady
  <2>1. /\ pc = "configure" /\ complete /\ ~queued
        /\ pc' = "idle"
        /\ UNCHANGED <<role, unseen, joined>>
    BY <1>1 DEF RoleReady, EndIn, End, cluster
  <2> QED  BY <2>1 DEF JoinProgress, JoinedBut, Desired, PodsOf, Pods
<1>2. ASSUME NEW p \in podsLeft, JoinRefused(p)  PROVE JoinProgress'
  <2>1. pc' = "idle" /\ phase' = "ConfigError"
    BY <1>2 DEF JoinRefused, EndIn, End, SavePhase
  <2> QED  BY <2>1 DEF JoinProgress
<1> QED
  BY <1>1, <1>2 DEF EndSteps, CartridgeNotReady, NotAllJoined, NotAllConfigured, WaitForBootstrap,
                    EndIn, SyncFails, AlreadyExists, UpdateConflict, End

\* Every step keeps the progress known.
LEMMA JoinProgressStep == PodsSound /\ JoinProgress /\ [RolePodsNext]_allVars => JoinProgress'
<1> SUFFICES ASSUME PodsSound, JoinProgress, [RolePodsNext]_allVars, ~queued'
             PROVE  JoinProgress'
  BY DEF JoinProgress
<1>1. CASE Outside
  <2>1. UNCHANGED <<vars, joined, phase, loop>>
    BY <1>1 DEF Outside, PodComesUp, PodGoesDown, PodsChange, BootstrapCluster, allVars, podVars, cluster
  <2> QED  BY <2>1 DEF vars, informer, loop, JoinProgress, JoinedBut, Desired, PodsOf, Pods
<1>2. CASE List /\ UNCHANGED podVars
  BY <1>2 DEF List, podVars, informer, JoinProgress, Desired
<1>3. ASSUME NEW o \in left, Create(o) \/ Update(o)  PROVE JoinProgress'
  <2>1. /\ ~queued /\ pc \in {"create", "update"}
        /\ UNCHANGED <<role, pc, copy, fresh>> /\ left' = left \ {o}
    BY <1>3 DEF Create, Update
  <2>2. unseen \subseteq unseen' /\ sts'[o].selected /\ \A q \in Ordinals \ {o} : sts'[q] = sts[q]
    BY <1>3, WritesSound
  <2>3. \A q \in Desired(role) : (pc = "create" /\ q \in left') \/ q \in unseen' \/ sts'[q].selected
    BY <2>1, <2>2 DEF JoinProgress, Desired
  <2> QED  BY <2>1, <2>3 DEF JoinProgress, Desired
<1>4. CASE CallFails
  BY <1>4 DEF CallFails, StepFails, End
<1>5. CASE OperatorRestarts
  BY <1>5 DEF OperatorRestarts, Restart
<1>6. ASSUME NEW o \in Ordinals, DeliverStatefulSet(o)  PROVE FALSE
  BY <1>6 DEF DeliverStatefulSet, Deliver
<1>7. ASSUME NEW new \in RoleSpecs, EditRole(new)  PROVE FALSE
  BY <1>7 DEF EditRole
<1> QED
  BY <1>1, <1>2, <1>3, <1>4, <1>5, <1>6, <1>7, StepsSorted, LoopProgress, EndProgress

\* The operator starts with nothing stored and the Role in the queue.
LEMMA PodsInit == RolePodsInit => RolePodsInv
BY DEF RolePodsInit, Init, RolePodsInv, PodsTypeOK, Knowledge, AlwaysSelected, JoinProgress, Absent

\* The invariant of the Role's reconcile over lagging caches, for any shape of
\* the Role and any edit of it: unless the Role is queued again, a replicaset
\* that JoinInstances has passed is joined, is remembered as not joined, or has
\* a StatefulSet whose version is on its way to the cache.
THEOREM RolePodsInvariant == RolePodsSpec => []RolePodsInv
<1>1. RolePodsInv /\ [RolePodsNext]_allVars => RolePodsInv'
  BY PodsSoundStep, JoinProgressStep DEF RolePodsInv, PodsSound
<1> QED  BY PodsInit, <1>1, PTL DEF RolePodsSpec

\* A Role at rest has joined every pod of its spec, or tells users that it
\* cannot: no replicaset JoinInstances did not find in the cache is forgotten.
THEOREM RestJoined == RolePodsSpec => []RestMeansJoined
<1>1. RolePodsInv => RestMeansJoined
  <2> SUFFICES ASSUME RolePodsInv, AtRest, phase # "ConfigError", NEW p \in Wanted
               PROVE  p \in joined
    BY DEF RestMeansJoined
  <2>1. p \in PodsOf(p[1], role.replicas) /\ p[1] \in Desired(role)
    BY DEF Wanted, PodsOf, Pods, Desired
  <2>2. JoinedBut(p[1], {}) /\ unseen = {}
    BY <2>1 DEF RolePodsInv, JoinProgress, AtRest
  <2> QED  BY <2>1, <2>2 DEF JoinedBut
<1> QED  BY RolePodsInvariant, <1>1, PTL

-------------------------------------------------------------------------------
(* The whole reconcile as a level-triggered controller.                    *)

\* A step after which the controller sleeps has not changed the Role, and if it
\* slept before, nothing but pods and the Cluster has changed.
LEMMA RoleSleep ==
  ASSUME [RolePodsNext]_allVars, AtRest'
  PROVE  /\ UNCHANGED role
         /\ AtRest => UNCHANGED <<sts, joined, phase>>
<1>1. CASE LoopSteps
  BY <1>1 DEF LoopSteps, Begin, GoOn, CartridgeReady, AllJoined, CreateSkip, UpdateSkip, ListReplicaset,
              ConfigureReplicaset, PodMissing, JoinPod, Visit, vars, AtRest
<1>2. CASE EndSteps
  BY <1>2 DEF EndSteps, CartridgeNotReady, NotAllJoined, NotAllConfigured, WaitForBootstrap, RoleReady,
              JoinRefused, EndIn, SyncFails, AlreadyExists, UpdateConflict, End, AtRest
<1>3. CASE Outside
  BY <1>3 DEF Outside, PodComesUp, PodGoesDown, PodsChange, BootstrapCluster, allVars, podVars, cluster, vars
<1>4. ASSUME NEW o \in left, Create(o) \/ Update(o)
      PROVE  UNCHANGED role /\ ~AtRest
  BY <1>4 DEF Create, Update, AtRest
<1>5. CASE List \/ CallFails \/ OperatorRestarts
  BY <1>5 DEF List, CallFails, StepFails, OperatorRestarts, Restart, End, AtRest
<1>6. CASE \/ \E o \in Ordinals : DeliverStatefulSet(o)
           \/ \E new \in RoleSpecs : EditRole(new) /\ UNCHANGED podVars
  BY <1>6 DEF DeliverStatefulSet, Deliver, EditRole, AtRest
<1> QED  BY <1>1, <1>2, <1>3, <1>4, <1>5, <1>6, StepsSorted

\* Every step is one of a level-triggered controller.
LEMMA RoleControllerStep ==
  RestMeansJoined' /\ [RolePodsNext]_allVars => [RoleController!Next]_(RoleController!vars)
<1> SUFFICES ASSUME RestMeansJoined', [RolePodsNext]_allVars, AtRest'
             PROVE  RoleController!Rest \/ UNCHANGED RoleController!vars
  BY DEF RoleController!Next, RoleController!Act
<1>1. UNCHANGED role /\ (AtRest => UNCHANGED <<sts, joined, phase>>)
  BY RoleSleep
<1>2. CASE AtRest
  <2>1. Wanted' = Wanted
    BY <1>1 DEF Wanted, Pods
  <2>2. (phase # "ConfigError" => Wanted \subseteq joined)' = (phase # "ConfigError" => Wanted \subseteq joined)
    BY <1>1, <1>2, <2>1
  <2> QED  BY <1>1, <1>2, <2>2 DEF RoleController!vars
<1>3. CASE ~AtRest
  <2>1. (phase # "ConfigError" => Wanted \subseteq joined)'
    BY DEF RestMeansJoined
  <2> QED  BY <1>1, <1>3, <2>1 DEF RoleController!Rest
<1> QED  BY <1>2, <1>3

\* The Role controller is level-triggered: it sleeps only when every pod of the
\* Role's spec is joined, or users are told that one cannot be, and nothing that
\* changes the Role, its StatefulSets or what is joined leaves it asleep, though
\* no pod ever wakes it up.
THEOREM RoleTriggered == RolePodsSpec => ImplementsRoleController
<1>1. RolePodsInit => RoleController!Init
  BY DEF RolePodsInit, Init, AtRest, RoleController!Init
<1> QED
  BY <1>1, RoleControllerStep, RestJoined, PTL
  DEF RolePodsSpec, ImplementsRoleController, RoleController!Spec

-------------------------------------------------------------------------------
(* The steps of module StatefulSets are taken as they are there.           *)

\* The two first steps are through when the loops over pods begin.
RestLeft == PodsTypeOK /\ (pc = "rest" => left = {})

\* GoOn has visited all there is, and only new reconciles and loops fill left.
LEMMA RestLeftStep == RestLeft /\ PodsTypeOK' /\ [RolePodsNext]_allVars => RestLeft'
<1> SUFFICES ASSUME RestLeft, [RolePodsNext]_allVars, pc' = "rest"  PROVE left' = {}
  BY DEF RestLeft
<1>1. CASE LoopSteps
  BY <1>1 DEF LoopSteps, Begin, GoOn, CartridgeReady, AllJoined, CreateSkip, UpdateSkip, ListReplicaset,
              ConfigureReplicaset, PodMissing, JoinPod, Visit, vars, RestLeft
<1>2. CASE EndSteps
  BY <1>2 DEF EndSteps, CartridgeNotReady, NotAllJoined, NotAllConfigured, WaitForBootstrap, RoleReady,
              JoinRefused, EndIn, SyncFails, AlreadyExists, UpdateConflict, End
<1>3. CASE Outside
  BY <1>3 DEF Outside, PodComesUp, PodGoesDown, PodsChange, BootstrapCluster, allVars, vars, RestLeft
<1>4. ASSUME NEW o \in left, Create(o) \/ Update(o)  PROVE FALSE
  BY <1>4 DEF Create, Update
<1>5. CASE List \/ CallFails \/ OperatorRestarts
  BY <1>5 DEF List, CallFails, StepFails, OperatorRestarts, Restart, End
<1>6. CASE \/ \E o \in Ordinals : DeliverStatefulSet(o)
           \/ \E new \in RoleSpecs : EditRole(new) /\ UNCHANGED podVars
  BY <1>6 DEF DeliverStatefulSet, Deliver, EditRole, RestLeft
<1> QED  BY <1>1, <1>2, <1>3, <1>4, <1>5, <1>6, StepsSorted

\* The step being executed, and what it has still to visit, as module StatefulSets
\* sees them.
SyncPc == IF pc \in {"join", "configure"} THEN "rest" ELSE pc
SyncLeft == IF pc \in {"join", "configure"} THEN {} ELSE left

\* The steps before the loops are taken as they are.
LEMMA SyncMaps ==
  ASSUME SyncStatefulSets
  PROVE  Sync!Work
<1>1. CASE Begin
  <2>1. Sync!Begin
    BY <1>1 DEF Begin, Sync!Begin, Desired, Sync!Desired, informer, Sync!informer
  <2> QED  BY <2>1 DEF Sync!Work
<1>2. CASE List
  <2>1. Sync!List
    BY <1>2 DEF List, Sync!List, informer, Sync!informer
  <2> QED  BY <2>1 DEF Sync!Work
<1>3. CASE GoOn
  <2>1. Sync!GoOn
    BY <1>3 DEF GoOn, Sync!GoOn, informer, Sync!informer
  <2> QED  BY <2>1 DEF Sync!Work
<1>4. ASSUME NEW o \in left, CreateSkip(o) \/ Create(o)  PROVE Sync!Work
  <2>1. Sync!CreateSkip(o) \/ Sync!Create(o)
    BY <1>4 DEF CreateSkip, Create, Sync!CreateSkip, Sync!Create, Lowest, Sync!Lowest, Write, Sync!Write,
                Defaulted, Sync!Defaulted, NewStatefulSet, Sync!NewStatefulSet, PodLabels, Sync!PodLabels,
                informer, Sync!informer
  <2>2. o \in SyncLeft
    BY <1>4 DEF CreateSkip, Create, SyncLeft
  <2> QED  BY <2>1, <2>2 DEF Sync!Work, SyncLeft
<1>5. ASSUME NEW o \in left, UpdateSkip(o) \/ Update(o)  PROVE Sync!Work
  <2>1. Sync!UpdateSkip(o) \/ Sync!Update(o)
    BY <1>5 DEF UpdateSkip, Update, Sync!UpdateSkip, Sync!Update, Write, Sync!Write, Defaulted,
                Sync!Defaulted, SyncStatefulSet, Sync!SyncStatefulSet, PodLabels, Sync!PodLabels,
                informer, Sync!informer
  <2>2. o \in SyncLeft
    BY <1>5 DEF UpdateSkip, Update, SyncLeft
  <2> QED  BY <2>1, <2>2 DEF Sync!Work, SyncLeft
<1> QED  BY <1>1, <1>2, <1>3, <1>4, <1>5 DEF SyncStatefulSets

\* So are their failures.
LEMMA SyncFailsMaps ==
  ASSUME SyncFails
  PROVE  Sync!Work
<1> PICK o \in left : AlreadyExists(o) \/ UpdateConflict(o)
  BY DEF SyncFails
<1>1. Sync!AlreadyExists(o) \/ Sync!UpdateConflict(o)
  BY DEF AlreadyExists, UpdateConflict, Sync!AlreadyExists, Sync!UpdateConflict, Lowest, Sync!Lowest,
         End, Sync!End, SyncStatefulSet, Sync!SyncStatefulSet, PodLabels, Sync!PodLabels,
         Absent, Sync!Absent
<1>2. o \in SyncLeft
  BY DEF AlreadyExists, UpdateConflict, SyncLeft
<1> QED  BY <1>1, <1>2 DEF Sync!Work, SyncLeft

\* An end of the later steps is the end of the reconcile there, or a call that
\* fails if another reconcile is asked for.
LEMMA EndMaps ==
  ASSUME NEW p, NEW requeue \in BOOLEAN, EndIn(p, requeue), pc \in {"rest", "join", "configure"}
  PROVE  Sync!Finish \/ Sync!StepFails
<1>1. CASE requeue \/ (fresh /\ p # phase)
  BY <1>1 DEF EndIn, End, Sync!StepFails, Sync!End, Absent, Sync!Absent
<1>2. CASE ~(requeue \/ (fresh /\ p # phase))
  BY <1>2 DEF EndIn, End, Sync!Finish, Sync!End, Absent, Sync!Absent
<1> QED  BY <1>1, <1>2

\* A call that fails does so there, wherever the worker is.
LEMMA CallFailsMaps ==
  ASSUME StepFails
  PROVE  Sync!StepFails
BY DEF StepFails, Sync!StepFails, End, Sync!End, Absent, Sync!Absent, Lowest, Sync!Lowest, Defaulted, Sync!Defaulted,
       NewStatefulSet, Sync!NewStatefulSet, SyncStatefulSet, Sync!SyncStatefulSet, PodLabels, Sync!PodLabels

\* A step of the loops is none there.
LEMMA LoopStutters ==
  ASSUME RestLeft, \/ CartridgeReady \/ AllJoined
                   \/ \E o \in left : ListReplicaset(o) \/ ConfigureReplicaset(o)
                   \/ \E p \in podsLeft : PodMissing(p) \/ JoinPod(p)
                   \/ Outside
  PROVE  UNCHANGED Sync!vars
BY DEF RestLeft, CartridgeReady, AllJoined, ListReplicaset, ConfigureReplicaset, PodMissing, JoinPod, Visit,
       Outside, PodComesUp, PodGoesDown, PodsChange, BootstrapCluster, allVars, vars, informer,
       Sync!vars, Sync!informer

\* Every step is one of module StatefulSets, or none.
LEMMA PodsRefineStep == RestLeft /\ [RolePodsNext]_allVars => [Sync!Next]_(Sync!vars)
<1> SUFFICES ASSUME RestLeft, [RolePodsNext]_allVars  PROVE Sync!Next \/ UNCHANGED Sync!vars
  OBVIOUS
<1>1. CASE SyncStatefulSets \/ SyncFails
  BY <1>1, SyncMaps, SyncFailsMaps DEF Sync!Next
<1>2. CASE \/ CartridgeReady \/ AllJoined
           \/ \E o \in left : ListReplicaset(o) \/ ConfigureReplicaset(o)
           \/ \E p \in podsLeft : PodMissing(p) \/ JoinPod(p)
           \/ \E p \in Pods : PodComesUp(p) \/ PodGoesDown(p)
           \/ BootstrapCluster \/ UNCHANGED allVars
  BY <1>2, LoopStutters DEF Outside
<1>3. CASE \/ CartridgeNotReady \/ NotAllJoined \/ NotAllConfigured \/ WaitForBootstrap \/ RoleReady
           \/ \E p \in podsLeft : JoinRefused(p)
  <2>1. Sync!Finish \/ Sync!StepFails
    BY <1>3, EndMaps DEF CartridgeNotReady, NotAllJoined, NotAllConfigured, WaitForBootstrap, RoleReady,
                         JoinRefused
  <2> QED  BY <2>1 DEF Sync!Next, Sync!Work, Sync!Fault
<1>4. CASE CallFails
  BY <1>4, CallFailsMaps DEF CallFails, Sync!Next, Sync!Fault
<1>5. CASE OperatorRestarts
  <2>1. Sync!Restart
    BY <1>5 DEF OperatorRestarts, Restart, Sync!Restart, Absent, Sync!Absent
  <2> QED  BY <2>1 DEF Sync!Next, Sync!Fault
<1>6. ASSUME NEW o \in Ordinals, DeliverStatefulSet(o)  PROVE Sync!Next
  <2>1. Sync!Deliver(o)
    BY <1>6 DEF DeliverStatefulSet, Deliver, Sync!Deliver
  <2> QED  BY <2>1 DEF Sync!Next
<1>7. ASSUME NEW new \in RoleSpecs, EditRole(new)  PROVE Sync!Next
  <2>1. Sync!EditRole(new)
    BY <1>7 DEF EditRole, Sync!EditRole, informer, Sync!informer
  <2> QED  BY <2>1 DEF Sync!Next
<1> QED
  BY <1>1, <1>2, <1>3, <1>4, <1>5, <1>6, <1>7 DEF RolePodsNext, RoleWork, Kubernetes

\* The first steps of a Role's reconcile behave among the later ones as in module
\* StatefulSets by themselves: what is proved and checked of them there holds in
\* the whole reconcile, whatever the waits, the failures and the phase of the later
\* steps make of the Role's place in the queue.
THEOREM PodsRefineSync == RolePodsSpec => ImplementsStatefulSets
<1>1. RolePodsInit => Sync!Init /\ RestLeft
  BY DEF RolePodsInit, Init, Sync!Init, RestLeft, PodsTypeOK, Absent, Sync!Absent
<1>2. RolePodsInv => PodsTypeOK
  BY DEF RolePodsInv
<1> QED
  BY <1>1, <1>2, RestLeftStep, PodsRefineStep, RolePodsInvariant, PTL
  DEF RolePodsSpec, ImplementsStatefulSets, Sync!Spec
================================================================================
