--------------------------- MODULE Failover_proofs ---------------------------
(***************************************************************************)
(* Theorems about Failover, for any configurations, providers, secrets and *)
(* passwords: at rest Cartridge has the failover of the spec with the      *)
(* present password, and the operator undoes no edit of a secret.          *)
(***************************************************************************)
EXTENDS Failover, TLAPS

\* What is true without any regard to what is left to do.
Sound == TypeOK /\ Knowledge

\* The fields of a configuration.
LEMMA ConfigFields ==
  ASSUME NEW c \in Configs
  PROVE  /\ c.mode \in {"disabled", "eventual", "stateful"}
         /\ c.provider \in Providers
         /\ c.secret \in Secrets \cup {NoSecret}
         /\ c.fencing \in BOOLEAN
BY FailoverAssumption

\* What a write of a secret makes of the informer.
LEMMA VersionStep ==
  ASSUME Sound, NEW s \in Secrets, NEW new \in SecretStates, NewVersion(s, new)
  PROVE  /\ secrets' \in [Secrets -> SecretStates]
         /\ secrets'[s] = new
         /\ unseen \subseteq unseen' /\ unseen' \subseteq Secrets
         /\ notices \subseteq notices' /\ notices' \subseteq unseen'
         /\ \A r \in Secrets \ unseen' : r \notin unseen /\ secrets'[r] = secrets[r]
         /\ \A r \in Secrets \ {s} : secrets'[r] = secrets[r] /\ (r \in unseen' => r \in unseen)
<1>1. secrets \in [Secrets -> SecretStates] /\ unseen \subseteq Secrets /\ notices \subseteq unseen
  BY DEF Sound, TypeOK
<1>2. CASE new = secrets[s]
  BY <1>1, <1>2 DEF NewVersion
<1>3. CASE new # secrets[s]
  BY <1>1, <1>3 DEF NewVersion
<1> QED  BY <1>2, <1>3

\* What Cartridge is told is well typed.
LEMMA ParamsTyped ==
  ASSUME Sound, SetFailoverParams
  PROVE  failover' \in [mode : {"disabled", "eventual", "stateful"}, provider : Providers,
                        password : [Providers -> AnyPassword], fencing : BOOLEAN]
<1>1. /\ copy \in Configs /\ password \in AnyPassword
      /\ failover.password \in [Providers -> AnyPassword] /\ failover.fencing \in BOOLEAN
  BY DEF Sound, TypeOK
<1>2. [failover.password EXCEPT ![copy.provider] = password] \in [Providers -> AnyPassword]
  BY <1>1, ConfigFields
<1> QED  BY <1>1, <1>2, ConfigFields DEF SetFailoverParams

\* The end of a reconcile, whatever its last call has done.
LEMMA EndStep ==
  ASSUME Sound, NEW requeue \in BOOLEAN, End(requeue),
         secrets' \in [Secrets -> SecretStates],
         notices' \subseteq unseen', unseen' \subseteq Secrets,
         \A r \in Secrets \ unseen' : r \notin unseen /\ secrets'[r] = secrets[r],
         failover' \in [mode : {"disabled", "eventual", "stateful"}, provider : Providers,
                        password : [Providers -> AnyPassword], fencing : BOOLEAN]
  PROVE  Sound'
<1>1. TypeOK'
  BY DEF Sound, TypeOK, End, AnyPassword
<1>2. Knowledge'
  BY DEF Sound, Knowledge, End
<1> QED  BY <1>1, <1>2 DEF Sound

\* The secret that is written back.
LEMMA OwnedTyped ==
  ASSUME Sound, pc = "own", secretFresh
  PROVE  /\ copy.secret \in Secrets /\ copy.secret \notin unseen
         /\ Owned \in SecretStates /\ Owned.owned
         /\ Owned.password = secrets[copy.secret].password
<1>1. copy.secret \in Secrets /\ copy.secret \notin unseen /\ password = secrets[copy.secret].password
  BY DEF Sound, Knowledge
<1>2. secrets[copy.secret] \in SecretStates
  BY <1>1 DEF Sound, TypeOK
<1> QED  BY <1>1, <1>2 DEF Owned, SecretStates

\* A call that fails.
LEMMA FailureSound == Sound /\ StepFails => Sound'
<1> SUFFICES ASSUME Sound, StepFails  PROVE Sound'
  OBVIOUS
<1>1. End(TRUE)
  BY DEF StepFails
<1>2. CASE UNCHANGED <<secrets, unseen, notices, failover>>
  BY <1>1, <1>2, EndStep DEF Sound, TypeOK
<1>3. CASE pc = "own" /\ granted /\ secretFresh /\ UNCHANGED failover /\ NewVersion(copy.secret, Owned)
  <2>1. copy.secret \in Secrets /\ Owned \in SecretStates
    BY <1>3, OwnedTyped
  <2>2. /\ secrets' \in [Secrets -> SecretStates]
        /\ notices' \subseteq unseen' /\ unseen' \subseteq Secrets
        /\ \A r \in Secrets \ unseen' : r \notin unseen /\ secrets'[r] = secrets[r]
    BY <1>3, <2>1, VersionStep
  <2> QED  BY <1>1, <1>3, <2>2, EndStep DEF Sound, TypeOK
<1>4. CASE SetFailoverParams /\ UNCHANGED <<secrets, unseen, notices>>
  BY <1>1, <1>4, ParamsTyped, EndStep DEF Sound, TypeOK
<1> QED  BY <1>2, <1>3, <1>4 DEF StepFails

\* What the operator knows of the secrets is true, whatever happens.
LEMMA SoundStep == Sound /\ [Next]_vars => Sound'
<1> SUFFICES ASSUME Sound, [Next]_vars  PROVE Sound'
  OBVIOUS
<1>1. CASE Begin
  <2>1. config \in Configs
    BY DEF Sound, TypeOK
  <2>2. config.secret # NoSecret => config.secret \in Secrets
    BY <2>1, ConfigFields
  <2> QED  BY <1>1, <2>1, <2>2 DEF Begin, Sound, TypeOK, Knowledge, informer, AnyPassword
<1>2. CASE SecretMissing \/ SecretForeign \/ OwnSecretRefused \/ Finish
  <2>1. PICK requeue \in BOOLEAN : End(requeue)
    BY <1>2 DEF SecretMissing, SecretForeign, OwnSecretRefused, Finish
  <2>2. UNCHANGED <<secrets, unseen, notices, failover>>
    BY <1>2 DEF SecretMissing, SecretForeign, OwnSecretRefused, Finish
  <2> QED  BY <2>1, <2>2, EndStep DEF Sound, TypeOK
<1>3. CASE SecretFound
  <2>1. copy.secret \in Secrets /\ copy.mode = "stateful"
    BY <1>3 DEF SecretFound, Sound, Knowledge
  <2>2. cache[copy.secret].password \in Passwords
    BY <1>3, <2>1 DEF SecretFound, Sound, TypeOK, SecretStates
  <2>3. copy.secret \notin unseen => cache[copy.secret] = secrets[copy.secret]
    BY <2>1 DEF Sound, Knowledge
  <2> QED  BY <1>3, <2>1, <2>2, <2>3 DEF SecretFound, Sound, TypeOK, Knowledge, informer, AnyPassword
<1>4. CASE OwnSecret
  <2>1. copy.secret \in Secrets /\ Owned \in SecretStates
    BY <1>4, OwnedTyped DEF OwnSecret
  <2>2. /\ secrets' \in [Secrets -> SecretStates]
        /\ notices' \subseteq unseen' /\ unseen' \subseteq Secrets
        /\ \A r \in Secrets \ unseen' : r \notin unseen /\ secrets'[r] = secrets[r]
    BY <1>4, <2>1, VersionStep DEF OwnSecret
  <2> QED  BY <1>4, <2>2 DEF OwnSecret, Sound, TypeOK, Knowledge
<1>5. CASE ParamsEqual \/ ParamsDiffer
  BY <1>5 DEF ParamsEqual, ParamsDiffer, Sound, TypeOK, Knowledge, informer
<1>6. CASE SetParams
  BY <1>6, ParamsTyped DEF SetParams, Sound, TypeOK, Knowledge, informer
<1>7. CASE StepFails
  BY <1>7, FailureSound
<1>8. CASE Restart
  BY <1>8 DEF Restart, Sound, TypeOK, Knowledge, AnyPassword
<1>9. ASSUME NEW s \in Secrets, DeliverSecret(s)  PROVE Sound'
  BY <1>9 DEF DeliverSecret, Sound, TypeOK, Knowledge
<1>10. ASSUME NEW new \in Configs, EditConfig(new)  PROVE Sound'
  BY <1>10 DEF EditConfig, Sound, TypeOK, Knowledge, informer
<1>11. ASSUME NEW s \in Secrets, NEW new \in SecretStates, EditSecret(s, new)  PROVE Sound'
  <2>1. /\ secrets' \in [Secrets -> SecretStates]
        /\ notices' \subseteq unseen' /\ unseen' \subseteq Secrets
        /\ \A r \in Secrets \ unseen' : r \notin unseen /\ secrets'[r] = secrets[r]
        /\ \A r \in Secrets \ {s} : secrets'[r] = secrets[r] /\ (r \in unseen' => r \in unseen)
    BY <1>11, VersionStep DEF EditSecret
  <2>2. TypeOK'
    BY <1>11, <2>1 DEF EditSecret, Sound, TypeOK
  <2>3. Knowledge'
    BY <1>11, <2>1 DEF EditSecret, Sound, Knowledge
  <2> QED  BY <2>2, <2>3 DEF Sound
<1>12. CASE ChangeRights
  BY <1>12 DEF ChangeRights, informer, Sound, TypeOK, Knowledge
<1>13. CASE UNCHANGED vars
  BY <1>13 DEF vars, informer, Sound, TypeOK, Knowledge
<1> QED
  BY <1>1, <1>2, <1>3, <1>4, <1>5, <1>6, <1>7, <1>8, <1>9, <1>10, <1>11, <1>12, <1>13
     DEF Next, Work, Fault

-----------------------------------------------------------------------------
(* No edit of a secret is undone.                                          *)

\* What SecretEditsKept says of one step.
Kept == pc' # pc => \A s \in Secrets : secrets'[s].password = secrets[s].password

\* Only the owner reference of a secret is written, or nothing.
LEMMA OwnedKept ==
  ASSUME Sound, pc = "own", secretFresh, NewVersion(copy.secret, Owned)
  PROVE  Kept
<1>1. /\ copy.secret \in Secrets /\ Owned \in SecretStates
      /\ Owned.password = secrets[copy.secret].password
  BY OwnedTyped
<1>2. /\ secrets'[copy.secret] = Owned
      /\ \A r \in Secrets \ {copy.secret} : secrets'[r] = secrets[r]
  BY <1>1, VersionStep
<1> QED  BY <1>1, <1>2 DEF Kept

\* Every step of the operator keeps the passwords.
LEMMA KeptStep == Sound /\ [Next]_vars => [Kept]_vars
<1> SUFFICES ASSUME Sound, Next  PROVE Kept
  OBVIOUS
<1>1. CASE UNCHANGED secrets \/ pc' = pc
  BY <1>1 DEF Kept
<1>2. CASE OwnSecret
  BY <1>2, OwnedKept DEF OwnSecret
<1>3. CASE StepFails
  BY <1>1, <1>3, OwnedKept DEF StepFails
<1>4. CASE \/ Begin \/ SecretMissing \/ SecretForeign \/ SecretFound \/ OwnSecretRefused
           \/ ParamsEqual \/ ParamsDiffer \/ SetParams \/ Finish \/ Restart
           \/ ChangeRights
           \/ \E s \in Secrets : DeliverSecret(s)
           \/ \E new \in Configs : EditConfig(new)
           \/ \E s \in Secrets, new \in SecretStates : EditSecret(s, new)
  BY <1>1, <1>4 DEF Begin, SecretMissing, SecretForeign, SecretFound, OwnSecretRefused,
                    ParamsEqual, ParamsDiffer, SetParams, Finish, Restart, ChangeRights,
                    DeliverSecret, EditConfig, EditSecret
<1> QED  BY <1>2, <1>3, <1>4 DEF Next, Work, Fault

-----------------------------------------------------------------------------
(* At rest the failover is the one asked for.                              *)

\* A secret somebody writes that is watched stays so: a new version of it comes.
LEMMA WatchedWrite ==
  ASSUME Sound, NEW s \in Secrets, NEW new \in SecretStates, NewVersion(s, new),
         UNCHANGED cache, NEW r \in Secrets, NEW pw, Watched(r, pw)
  PROVE  Watched(r, pw)'
<1>1. /\ unseen \subseteq unseen' /\ notices \subseteq notices'
      /\ \A q \in Secrets \ unseen' : q \notin unseen /\ secrets'[q] = secrets[q]
  BY VersionStep
<1>2. r \notin unseen => cache[r] = secrets[r]
  BY DEF Sound, Knowledge
<1> QED  BY <1>1, <1>2 DEF Watched

\* So does the password that is asked for.
LEMMA CurrentWrite ==
  ASSUME Sound, NEW s \in Secrets, NEW new \in SecretStates, NewVersion(s, new),
         UNCHANGED <<config, cache>>, NEW pw, Current(pw)
  PROVE  Current(pw)'
<1>1. config.secret # NoSecret => config.secret \in Secrets
  BY ConfigFields DEF Sound, TypeOK
<1> QED  BY <1>1, WatchedWrite DEF Current

\* Somebody edits a secret.
LEMMA ProgressEdit ==
  ASSUME Sound, Progressing, NEW s \in Secrets, NEW new \in SecretStates, NewVersion(s, new),
         UNCHANGED <<config, cache, queued, failover, pc, copy, fresh, password>>
  PROVE  Progressing'
<1> SUFFICES ASSUME ~queued  PROVE Progressing'
  BY DEF Progressing
<1>1. Current(password) => Current(password)'
  BY CurrentWrite
<1>2. Current(failover.password[config.provider]) => Current(failover.password[config.provider])'
  BY CurrentWrite
<1>3. Told => Told'
  BY <1>2 DEF Told
<1> QED  BY <1>1, <1>3 DEF Progressing

\* The delivery of a secret that is not what it was wakes the Cluster up.
LEMMA ProgressDeliver ==
  ASSUME Sound, Progressing, NEW s \in Secrets, DeliverSecret(s)
  PROVE  Progressing'
<1> SUFFICES ASSUME ~queued'  PROVE Progressing'
  BY DEF Progressing
<1>1. ~queued /\ ~cache[s].owned /\ s \notin notices /\ s \in unseen
      /\ UNCHANGED <<config, secrets, failover, pc, copy, fresh, password>>
  BY DEF DeliverSecret
<1>2. ASSUME NEW pw, Current(pw)  PROVE Current(pw)'
  <2>1. config.secret # s \/ config.mode # "stateful"
    BY <1>1, <1>2, FailoverAssumption DEF Current, Watched
  <2>2. config.mode = "stateful" /\ config.secret # NoSecret =>
          /\ config.secret \in unseen' <=> config.secret \in unseen
          /\ config.secret \in notices' <=> config.secret \in notices
          /\ cache'[config.secret] = cache[config.secret]
    BY <2>1, ConfigFields DEF DeliverSecret, Sound, TypeOK
  <2> QED  BY <1>1, <1>2, <2>2 DEF Current, Watched
<1>3. Told => Told'
  BY <1>1, <1>2 DEF Told
<1> QED  BY <1>1, <1>2, <1>3 DEF Progressing

\* The secret is owned with the password read, or its new version will come.
LEMMA ProgressOwn == Sound /\ Progressing /\ OwnSecret => Progressing'
<1> SUFFICES ASSUME Sound, Progressing, OwnSecret, ~queued  PROVE Progressing'
  BY DEF Progressing, OwnSecret
<1>1. /\ copy = config /\ fresh /\ pc' = "params" /\ queued' = queued
      /\ UNCHANGED <<config, copy, fresh, password, cache>>
  BY DEF Progressing, OwnSecret
<1>2. /\ copy.secret \in Secrets /\ copy.secret \notin unseen /\ Owned \in SecretStates
      /\ Owned.owned /\ Owned.password = password
  BY OwnedTyped DEF OwnSecret, Owned
<1>3. secrets'[copy.secret] = Owned
  BY <1>2, VersionStep DEF OwnSecret
<1>4. copy.secret \in unseen' => copy.secret \in notices'
  BY <1>2 DEF OwnSecret, NewVersion
<1>5. Watched(copy.secret, password)'
  BY <1>1, <1>2, <1>3, <1>4 DEF Watched
<1>6. copy.secret # NoSecret
  BY <1>2, FailoverAssumption
<1> QED  BY <1>1, <1>5, <1>6 DEF Progressing, Current

\* Cartridge is told the password read.
LEMMA ProgressParams ==
  ASSUME Sound, Progressing, ParamsEqual \/ SetParams
  PROVE  Progressing'
<1> SUFFICES ASSUME ~queued  PROVE Progressing'
  BY DEF Progressing, ParamsEqual, SetParams
<1>1. /\ copy = config /\ fresh /\ Current(password) /\ pc' = "done"
      /\ UNCHANGED <<config, secrets, cache, unseen, notices, queued, copy, fresh>>
  BY DEF Progressing, ParamsEqual, SetParams, informer
<1>2. /\ copy \in Configs /\ copy.provider \in Providers /\ copy.fencing \in BOOLEAN
      /\ failover.password \in [Providers -> AnyPassword]
  BY ConfigFields DEF Sound, TypeOK
<1>3. /\ failover'.mode = config.mode
      /\ config.fencing => failover'.fencing
      /\ config.mode = "stateful" =>
           failover'.provider = config.provider /\ failover'.password[config.provider] = password
  <2>1. CASE ParamsEqual
    BY <2>1, <1>1 DEF ParamsEqual, SameParams
  <2>2. CASE SetParams
    BY <2>2, <1>1, <1>2 DEF SetParams, SetFailoverParams
  <2> QED  BY <2>1, <2>2
<1>4. Told'
  BY <1>1, <1>3 DEF Told, Current, Watched
<1> QED  BY <1>1, <1>4 DEF Progressing

\* Every step of the worker and of the others.
LEMMA ProgressStep == Sound /\ Progressing /\ [Next]_vars => Progressing'
<1> SUFFICES ASSUME Sound, Progressing, [Next]_vars  PROVE Progressing'
  OBVIOUS
<1>1. CASE Begin
  BY <1>1, ConfigFields DEF Begin, Progressing, Current
<1>2. CASE SecretFound
  BY <1>2 DEF SecretFound, Progressing
<1>3. CASE OwnSecret
  BY <1>3, ProgressOwn
<1>4. CASE ParamsEqual \/ SetParams
  BY <1>4, ProgressParams
<1>5. CASE ParamsDiffer \/ ChangeRights \/ UNCHANGED vars
  BY <1>5 DEF ParamsDiffer, ChangeRights, vars, informer, Progressing, Told, Current, Watched
<1>6. CASE Finish
  BY <1>6 DEF Finish, End, Progressing, Told, Current, Watched
<1>7. ASSUME NEW s \in Secrets, NEW new \in SecretStates, EditSecret(s, new)  PROVE Progressing'
  BY <1>7, ProgressEdit DEF EditSecret
<1>8. ASSUME NEW s \in Secrets, DeliverSecret(s)  PROVE Progressing'
  BY <1>8, ProgressDeliver
<1>9. CASE \/ SecretMissing \/ SecretForeign \/ OwnSecretRefused \/ StepFails \/ Restart
           \/ \E new \in Configs : EditConfig(new)
  BY <1>9 DEF SecretMissing, SecretForeign, OwnSecretRefused, StepFails, Restart, EditConfig,
              End, Progressing
<1> QED
  BY <1>1, <1>2, <1>3, <1>4, <1>5, <1>6, <1>7, <1>8, <1>9 DEF Next, Work, Fault

\* The invariant holds initially.
LEMMA InitInv == Init => FailoverInv
<1> SUFFICES ASSUME Init  PROVE FailoverInv
  OBVIOUS
<1>1. TypeOK
  <2>1. PICK p \in Providers :
          failover = [mode |-> "disabled", provider |-> p, fencing |-> FALSE,
                      password |-> [q \in Providers |-> NoSecret]]
    BY DEF Init
  <2>2. [q \in Providers |-> NoSecret] \in [Providers -> AnyPassword]
    BY DEF AnyPassword
  <2>3. failover \in [mode : {"disabled", "eventual", "stateful"}, provider : Providers,
                      password : [Providers -> AnyPassword], fencing : BOOLEAN]
    BY <2>1, <2>2
  <2> QED  BY <2>3 DEF Init, TypeOK, AnyPassword
<1>2. Knowledge /\ Progressing
  BY DEF Init, Knowledge, Progressing
<1> QED  BY <1>1, <1>2 DEF FailoverInv

\* What the operator knows of the secrets, and what it has told Cartridge, is
\* true or will be put right, whatever users, the informer and faults do.
THEOREM FailoverInvariant == Spec => []FailoverInv
<1>1. FailoverInv /\ [Next]_vars => FailoverInv'
  BY SoundStep, ProgressStep DEF FailoverInv, Sound
<1> QED  BY <1>1, InitInv, PTL DEF Spec

\* At rest Cartridge has the failover of the Cluster's spec with the password
\* its secret holds at that time: every rotation of a secret is noticed, because
\* a secret that was told to Cartridge is owned by the Cluster, or was when it
\* was last delivered.
THEOREM RestConfigured == Spec => []RestMeansConfigured
<1>1. FailoverInv => RestMeansConfigured
  BY ConfigFields DEF FailoverInv, TypeOK, Progressing, RestMeansConfigured, AtRest, Configured,
                      Told, Current, Watched
<1> QED  BY <1>1, FailoverInvariant, PTL

\* The operator writes a secret back as it was in its cache, yet no edit of the
\* user is undone: the update is accepted only if the cached version was the
\* stored one and still is.
THEOREM EditsKept == Spec => SecretEditsKept
<1>1. FailoverInv /\ [Next]_vars => [Kept]_vars
  BY KeptStep DEF FailoverInv, Sound
<1> QED  BY <1>1, FailoverInvariant, PTL DEF Spec, SecretEditsKept, Kept

-----------------------------------------------------------------------------
(* The controller is level-triggered.                                      *)

\* Of the steps after which the controller sleeps, the end of a reconcile that got
\* through and the delivery of a secret that concerns nobody find it awake; an edit
\* of a secret leaves a version to deliver.
LEMMA SleepStep ==
  ASSUME [Next]_vars, AtRest'
  PROVE  \/ ~AtRest /\ UNCHANGED <<config, secrets, failover>>
         \/ AtRest /\ UNCHANGED <<config, secrets, informer, failover>>
<1>1. CASE Begin \/ SecretFound \/ OwnSecret \/ ParamsEqual \/ ParamsDiffer \/ SetParams
  BY <1>1 DEF Begin, SecretFound, OwnSecret, ParamsEqual, ParamsDiffer, SetParams, AtRest
<1>2. CASE SecretMissing \/ SecretForeign \/ OwnSecretRefused \/ StepFails \/ Restart
  BY <1>2 DEF SecretMissing, SecretForeign, OwnSecretRefused, StepFails, Restart, End, AtRest
<1>3. CASE Finish
  BY <1>3 DEF Finish, End, AtRest
<1>4. ASSUME NEW s \in Secrets, DeliverSecret(s)
      PROVE  ~AtRest /\ UNCHANGED <<config, secrets, failover>>
  BY <1>4 DEF DeliverSecret, AtRest
<1>5. ASSUME NEW new \in Configs, EditConfig(new)  PROVE FALSE
  BY <1>5 DEF EditConfig, AtRest
<1>6. ASSUME NEW s \in Secrets, NEW new \in SecretStates, EditSecret(s, new)  PROVE FALSE
  BY <1>6 DEF EditSecret, NewVersion, AtRest
<1>7. CASE ChangeRights \/ UNCHANGED vars
  BY <1>7 DEF ChangeRights, vars, informer, AtRest
<1> QED  BY <1>1, <1>2, <1>3, <1>4, <1>5, <1>6, <1>7 DEF Next, Work, Fault

\* Every step is one of a level-triggered controller.
LEMMA ControllerStep ==
  RestMeansConfigured' /\ [Next]_vars => [Controller!Next]_(Controller!vars)
<1> SUFFICES ASSUME RestMeansConfigured', [Next]_vars, AtRest'
             PROVE  Controller!Rest \/ UNCHANGED Controller!vars
  BY DEF Controller!Next, Controller!Act
<1>1. CASE ~AtRest /\ UNCHANGED <<config, secrets, failover>>
  <2>1. Configured'
    BY DEF RestMeansConfigured
  <2> QED  BY <1>1, <2>1 DEF Controller!Rest
<1>2. CASE AtRest /\ UNCHANGED <<config, secrets, informer, failover>>
  BY <1>2 DEF AtRest, Configured, Controller!vars
<1> QED  BY <1>1, <1>2, SleepStep

\* The controller rests only when Cartridge has the failover that is asked for, and
\* wakes up for every edit of the Cluster's spec and of the secret it names.
THEOREM FailoverTriggered == Spec => ImplementsController
<1>1. Init => Controller!Init
  BY DEF Init, AtRest, Controller!Init
<1> QED
  BY <1>1, ControllerStep, RestConfigured, PTL
  DEF Spec, ImplementsController, Controller!Spec

-----------------------------------------------------------------------------
(* What is configured is left alone.                                       *)

\* The owner reference of a secret that has it is no new version.
LEMMA OwnedAlready ==
  ASSUME Sound, Steady, pc = "own", NewVersion(copy.secret, Owned)
  PROVE  UNCHANGED <<secrets, unseen, notices>>
<1>1. /\ copy = config /\ copy.mode = "stateful" /\ copy.secret \in Secrets
      /\ copy.secret # NoSecret /\ secrets[copy.secret].owned
      /\ password = secrets[copy.secret].password
  BY FailoverAssumption DEF Sound, Knowledge, Steady, Configured
<1>2. secrets \in [Secrets -> SecretStates] /\ secrets[copy.secret] \in SecretStates
  BY <1>1 DEF Sound, TypeOK
<1>3. Owned = secrets[copy.secret]
  BY <1>1, <1>2 DEF Owned, SecretStates
<1> QED  BY <1>1, <1>2, <1>3 DEF NewVersion

\* Setting the parameters Cartridge has changes none, although fencing that is
\* switched off is not sent.
LEMMA SetAlready ==
  ASSUME Sound, Steady, pc = "set", SetFailoverParams
  PROVE  failover' = failover
<1>1. /\ copy = config /\ failover.mode = copy.mode /\ failover.provider = copy.provider
      /\ copy.fencing => failover.fencing
      /\ copy.mode = "stateful" => password = failover.password[copy.provider]
  BY DEF Steady, Configured
<1>2. copy.fencing \in BOOLEAN /\ copy.provider \in Providers
  BY ConfigFields DEF Sound, TypeOK
<1>3. /\ failover \in [mode : {"disabled", "eventual", "stateful"}, provider : Providers,
                       password : [Providers -> AnyPassword], fencing : BOOLEAN]
      /\ failover.password \in [Providers -> AnyPassword] /\ failover.fencing \in BOOLEAN
  BY DEF Sound, TypeOK
<1>4. failover.fencing = (copy.fencing \/ failover.fencing)
  BY <1>1, <1>2, <1>3
<1>5. failover.password = IF copy.mode = "stateful"
                          THEN [failover.password EXCEPT ![copy.provider] = password]
                          ELSE failover.password
  BY <1>1, <1>2, <1>3
<1> QED  BY <1>1, <1>3, <1>4, <1>5 DEF SetFailoverParams

\* What SteadyKept says of one step.
Still == Steady /\ (Work \/ Fault) => Steady' /\ UNCHANGED <<secrets, failover>>

\* A step that leaves the objects alone, whose worker knows what is stored.
LEMMA StillWorker ==
  ASSUME Steady, UNCHANGED <<config, secrets, failover>>, unseen' = {},
         pc' # "idle" => copy' = config,
         pc' \in {"own", "params", "set"} /\ config.mode = "stateful" =>
           password' = failover.password[config.provider]
  PROVE  Steady' /\ UNCHANGED <<secrets, failover>>
BY DEF Steady, Configured

\* No step of the worker changes a steady failover, whichever calls fail.
LEMMA StillStep == Sound => Still
<1> SUFFICES ASSUME Sound, Steady, Work \/ Fault
             PROVE  Steady' /\ UNCHANGED <<secrets, failover>>
  BY DEF Still
<1>1. CASE Begin
  <2>1. /\ UNCHANGED <<config, secrets, failover>> /\ unseen' = {} /\ copy' = config
        /\ password' = NoSecret
        /\ pc' = IF config.mode = "stateful" /\ config.secret # NoSecret THEN "secret" ELSE "params"
    BY <1>1 DEF Begin, informer, Steady
  <2>2. pc' = "params" /\ config.mode = "stateful" => failover.password[config.provider] = NoSecret
    BY <2>1 DEF Steady, Configured
  <2>3. pc' \notin {"own", "set"}
    BY <2>1
  <2> QED  BY <2>1, <2>2, <2>3, StillWorker
<1>2. CASE SecretFound
  <2>1. /\ UNCHANGED <<config, secrets, failover>> /\ unseen' = {} /\ copy = config /\ copy' = copy
        /\ password' = cache[copy.secret].password
        /\ copy.mode = "stateful" /\ copy.secret \in Secrets
    BY <1>2 DEF SecretFound, informer, Steady, Sound, Knowledge
  <2>2. cache[copy.secret] = secrets[copy.secret] /\ copy.secret # NoSecret
    BY <2>1, FailoverAssumption DEF Sound, Knowledge, Steady
  <2>3. failover.password[config.provider] = secrets[config.secret].password
    BY <2>1, <2>2 DEF Steady, Configured
  <2> QED  BY <2>1, <2>2, <2>3, StillWorker
<1>3. CASE OwnSecret
  <2>1. UNCHANGED <<config, secrets, failover, unseen, copy, password>> /\ pc = "own"
    BY <1>3, OwnedAlready DEF OwnSecret
  <2>2. /\ unseen' = {} /\ copy' = config
        /\ config.mode = "stateful" => password' = failover.password[config.provider]
    BY <2>1 DEF Steady
  <2> QED  BY <2>1, <2>2, StillWorker
<1>4. CASE ParamsEqual \/ ParamsDiffer \/ SetParams
  <2>1. /\ UNCHANGED <<config, secrets, failover, unseen, copy, password>>
        /\ pc \in {"params", "set"}
    BY <1>4, SetAlready DEF ParamsEqual, ParamsDiffer, SetParams, informer
  <2>2. /\ unseen' = {} /\ copy' = config
        /\ config.mode = "stateful" => password' = failover.password[config.provider]
    BY <2>1 DEF Steady
  <2> QED  BY <2>1, <2>2, StillWorker
<1>5. CASE SecretMissing \/ SecretForeign \/ OwnSecretRefused \/ Finish \/ StepFails \/ Restart
  <2>1. pc' = "idle" /\ UNCHANGED config
    BY <1>5 DEF SecretMissing, SecretForeign, OwnSecretRefused, Finish, StepFails, Restart, End
  <2>2. UNCHANGED <<secrets, failover>> /\ unseen' = {}
    BY <1>5, OwnedAlready, SetAlready
    DEF SecretMissing, SecretForeign, OwnSecretRefused, Finish, StepFails, Restart, Steady
  <2> QED  BY <2>1, <2>2, StillWorker
<1> QED  BY <1>1, <1>2, <1>3, <1>4, <1>5 DEF Work, Fault

\* Once the failover is configured and its secret owned, further reconciles, calls
\* that fail after they were carried out, and restarts write neither the secret nor
\* Cartridge's parameters: the owner reference that is set each time does not make
\* versions of the secret that would bring the Cluster back for ever.
THEOREM FailoverSteady == Spec => SteadyKept
<1>1. FailoverInv /\ [Next]_vars => [Still]_vars
  BY StillStep DEF FailoverInv, Sound
<1> QED  BY <1>1, FailoverInvariant, PTL DEF Spec, SteadyKept, Still

-----------------------------------------------------------------------------
(* The work that is left comes to an end.                                  *)

\* The effort of a state without another reconcile to come is that of its step.
LEMMA EffortIs ==
  /\ Effort \in Nat /\ Effort <= 11
  /\ Again => Effort = 6 + StepsAhead
  /\ ~Again => Effort = StepsAhead
BY DEF Effort, StepsAhead

\* What SettlesDown says of one step.
Settling == Steady /\ Usable /\ Work => Effort' < Effort

\* A step leaves fewer steps of the reconcile, and causes no other one: in a steady
\* state the secret is current when it is read, and its update is refused only if it
\* was read before.
LEMMA SettlingStep == FailoverInv => Settling
<1> SUFFICES ASSUME FailoverInv, Steady, Usable, Work  PROVE Effort' < Effort
  BY DEF Settling
<1> USE DEF Effort, StepsAhead, Again
<1>1. CASE Begin
  BY <1>1 DEF Begin
<1>2. CASE SecretMissing \/ SecretForeign
  <2>1. /\ pc = "secret" /\ copy = config /\ unseen = {}
        /\ copy.mode = "stateful" /\ copy.secret \in Secrets
    BY <1>2 DEF SecretMissing, SecretForeign, Steady, FailoverInv, Knowledge
  <2>2. copy.secret # NoSecret
    BY <2>1, FailoverAssumption
  <2>3. cache[copy.secret] = secrets[copy.secret]
    BY <2>1 DEF FailoverInv, Knowledge
  <2> QED  BY <1>2, <2>1, <2>2, <2>3 DEF SecretMissing, SecretForeign, Usable
<1>3. CASE SecretFound
  <2>1. secretFresh'
    BY <1>3 DEF SecretFound, Steady
  <2> QED  BY <1>3, <2>1 DEF SecretFound
<1>4. CASE OwnSecret \/ ParamsEqual \/ ParamsDiffer \/ SetParams
  BY <1>4 DEF OwnSecret, ParamsEqual, ParamsDiffer, SetParams
<1>5. CASE OwnSecretRefused
  <2>1. pc = "own" /\ copy = config /\ copy.mode = "stateful" /\ copy.secret # NoSecret
    BY <1>5, FailoverAssumption DEF OwnSecretRefused, Steady, FailoverInv, Knowledge
  <2>2. ~secretFresh
    BY <1>5, <2>1 DEF OwnSecretRefused, Usable
  <2>3. pc' = "idle"
    BY <1>5 DEF OwnSecretRefused, End
  <2> QED  BY <2>1, <2>2, <2>3
<1>6. CASE Finish
  <2>1. pc = "done" /\ pc' = "idle" /\ (queued' => queued \/ ~fresh)
    BY <1>6 DEF Finish, End
  <2> QED  BY <2>1
<1> QED  BY <1>1, <1>2, <1>3, <1>4, <1>5, <1>6 DEF Work

\* Once the failover is configured and its secret usable, the operator takes at most
\* eleven more steps for it, whatever it writes to the secret and to Cartridge in
\* them, unless somebody else changes something or a call fails.
THEOREM FailoverSettles == Spec => SettlesDown /\ []EffortBounded
<1>1. FailoverInv /\ [Next]_vars => [Settling]_vars
  BY SettlingStep
<1>2. FailoverInv => EffortBounded
  <2> SUFFICES ASSUME FailoverInv, Steady, Effort = 0  PROVE AtRest
    BY EffortIs DEF EffortBounded
  <2>1. ~Again /\ StepsAhead = 0
    BY EffortIs DEF Effort, StepsAhead
  <2>2. pc = "idle"
    BY <2>1 DEF StepsAhead, FailoverInv, TypeOK
  <2> QED  BY <2>1, <2>2 DEF Again, AtRest, Steady
<1> QED
  BY <1>1, <1>2, FailoverInvariant, PTL DEF Spec, SettlesDown, Settling
=============================================================================
