------------------------------ MODULE Failover -------------------------------
(***************************************************************************)
(* ConfigureFailoverStep of the Cluster controller.  The parameters come   *)
(* from the Cluster's spec and, for a stateful failover, from a secret in  *)
(* the informer's cache.  The step makes the Cluster an owner of the       *)
(* secret, so that a watch brings later edits of the secret back to the    *)
(* Cluster, and the conditional update that does so fails if the cached    *)
(* secret is old, or if the operator has no right to update secrets.  Then *)
(* the parameters are compared with Cartridge's and set.  Users edit the   *)
(* Cluster, the secrets and the rights at any time.                        *)
(***************************************************************************)
EXTENDS Naturals

CONSTANTS
  Configs,     \* values of Spec.Failover: mode, provider, secret, fencing
  Providers,   \* etcd2, stateboard
  Secrets,     \* secrets a configuration may name
  Foreign,     \* those in another namespace than the Cluster's
  Passwords,   \* values of the key the configurations name
  NoSecret,    \* no secret is named: the password is empty
  NoKey        \* the secret does not exist or does not have the key

ASSUME FailoverAssumption ==
  /\ Configs \subseteq [mode : {"disabled", "eventual", "stateful"}, provider : Providers,
                        secret : Secrets \cup {NoSecret}, fencing : BOOLEAN]
  /\ Foreign \subseteq Secrets
  /\ NoSecret \notin Secrets
  /\ NoKey \notin Passwords

VARIABLES
  config,       \* Spec.Failover of the stored Cluster
  granted,      \* whether the operator's rights let it update secrets
  secrets,      \* the stored secrets
  cache,        \* the secrets the informer shows
  unseen,       \* secrets of which a version has not been delivered
  notices,      \* those where one of these versions has the Cluster as owner
  queued,       \* whether the Cluster is in the work queue
  failover,     \* what Cartridge has been told
  pc,           \* the call the step is about to make
  copy,         \* the configuration in memory
  fresh,        \* whether the Cluster in memory is the stored version
  secretFresh,  \* whether the secret in memory is the stored version
  password      \* the password found

informer == <<cache, unseen, notices>>
vars == <<config, granted, secrets, informer, queued, failover, pc, copy, fresh,
          secretFresh, password>>

AnyPassword == Passwords \cup {NoSecret}
\* owned: the Cluster is among the owner references.
SecretStates == [password : Passwords \cup {NoKey}, owned : BOOLEAN]

TypeOK ==
  /\ config \in Configs
  /\ granted \in BOOLEAN
  /\ secrets \in [Secrets -> SecretStates]
  /\ cache \in [Secrets -> SecretStates]
  /\ notices \subseteq unseen
  /\ unseen \subseteq Secrets
  /\ queued \in BOOLEAN
  /\ failover \in [mode : {"disabled", "eventual", "stateful"}, provider : Providers,
                   password : [Providers -> AnyPassword], fencing : BOOLEAN]
  /\ pc \in {"idle", "secret", "own", "params", "set", "done"}
  /\ copy \in Configs
  /\ fresh \in BOOLEAN
  /\ secretFresh \in BOOLEAN
  /\ password \in AnyPassword

-----------------------------------------------------------------------------
(* Cartridge's failover_set_params changes the parameters it is given.     *)
(* "fencing_enabled,omitempty": FALSE is not given.                        *)
SetFailoverParams ==
  failover' = [mode |-> copy.mode,
               provider |-> copy.provider,
               fencing |-> copy.fencing \/ failover.fencing,
               password |-> IF copy.mode = "stateful"
                            THEN [failover.password EXCEPT ![copy.provider] = password]
                            ELSE failover.password]

SameParams ==
  /\ failover.mode = copy.mode
  /\ failover.provider = copy.provider
  /\ failover.fencing = copy.fencing
  /\ copy.mode = "stateful" => failover.password[copy.provider] = password

Init ==
  /\ config \in Configs
  /\ granted \in BOOLEAN
  /\ secrets \in [Secrets -> SecretStates]
  /\ \A s \in Secrets : ~secrets[s].owned
  /\ cache = secrets
  /\ unseen = {}
  /\ notices = {}
  /\ queued = TRUE
  /\ \E p \in Providers :
       failover = [mode |-> "disabled", provider |-> p, fencing |-> FALSE,
                   password |-> [q \in Providers |-> NoSecret]]
  /\ pc = "idle"
  /\ copy = config
  /\ fresh = FALSE
  /\ secretFresh = FALSE
  /\ password = NoSecret

-----------------------------------------------------------------------------
\* A write that changes nothing makes no version.
NewVersion(s, new) ==
  /\ secrets' = [secrets EXCEPT ![s] = new]
  /\ IF new = secrets[s]
     THEN UNCHANGED <<unseen, notices>>
     ELSE /\ unseen' = unseen \cup {s}
          /\ notices' = IF new.owned THEN notices \cup {s} ELSE notices

\* A reconcile of the Cluster arrives at the step.
Begin ==
  /\ pc = "idle"
  /\ queued
  /\ queued' = FALSE
  /\ pc' = IF config.mode = "stateful" /\ config.secret # NoSecret THEN "secret" ELSE "params"
  /\ copy' = config
  /\ fresh' = TRUE
  /\ password' = NoSecret
  /\ UNCHANGED <<config, granted, secrets, informer, failover, secretFresh>>

EndRequeues(requeue) ==   \* mutant: Requeue whatever the step said
  /\ pc' = "idle"
  /\ queued' = TRUE
  /\ fresh' = FALSE
  /\ secretFresh' = FALSE
  /\ password' = NoSecret
  /\ UNCHANGED <<config, granted, cache, copy>>

\* The reconcile ends; the status update finds out whether the Cluster in
\* memory is old.
End(requeue) ==
  /\ pc' = "idle"
  /\ queued' = (queued \/ requeue \/ ~fresh)
  /\ fresh' = FALSE
  /\ secretFresh' = FALSE
  /\ password' = NoSecret
  /\ UNCHANGED <<config, granted, cache, copy>>

\* The secret is missing or has no such key.
SecretMissing ==
  /\ pc = "secret"
  /\ cache[copy.secret].password = NoKey
  /\ End(TRUE)
  /\ UNCHANGED <<secrets, unseen, notices, failover>>

\* An owner reference across namespaces is refused.
SecretForeign ==
  /\ pc = "secret"
  /\ copy.secret \in Foreign
  /\ cache[copy.secret].password # NoKey
  /\ End(TRUE)
  /\ UNCHANGED <<secrets, unseen, notices, failover>>

SecretFoundUnchecked ==   \* mutant: ok is not looked at
  /\ pc = "secret"
  /\ copy.secret \notin Foreign
  /\ password' = cache[copy.secret].password
  /\ secretFresh' = (copy.secret \notin unseen)
  /\ pc' = "own"
  /\ UNCHANGED <<config, granted, secrets, informer, queued, failover, copy, fresh>>

SecretFound ==
  /\ pc = "secret"
  /\ copy.secret \notin Foreign
  /\ cache[copy.secret].password # NoKey
  /\ password' = cache[copy.secret].password
  /\ secretFresh' = (copy.secret \notin unseen)
  /\ pc' = "own"
  /\ UNCHANGED <<config, granted, secrets, informer, queued, failover, copy, fresh>>

\* The secret as it was cached when the password was read, with the reference.
Owned == [password |-> password, owned |-> TRUE]

OwnSecretNot ==   \* mutant: no owner reference is set
  /\ pc = "own"
  /\ pc' = "params"
  /\ UNCHANGED <<config, granted, secrets, informer, queued, failover, copy, fresh,
                 secretFresh, password>>

OwnSecretUnversioned ==   \* mutant: the resource version is not sent
  /\ pc = "own"
  /\ NewVersion(copy.secret, Owned)
  /\ pc' = "params"
  /\ UNCHANGED <<config, granted, cache, queued, failover, copy, fresh, secretFresh, password>>

\* SetOwnerReference and Update.
OwnSecret ==
  /\ pc = "own"
  /\ granted
  /\ secretFresh
  /\ NewVersion(copy.secret, Owned)
  /\ pc' = "params"
  /\ UNCHANGED <<config, granted, cache, queued, failover, copy, fresh, secretFresh, password>>

\* The cached secret is old, or the role the operator runs with does not have the
\* verb: that of config/rbac has get, list and watch for secrets alone.
OwnSecretRefused ==
  /\ pc = "own"
  /\ ~granted \/ ~secretFresh
  /\ End(TRUE)
  /\ UNCHANGED <<secrets, unseen, notices, failover>>

ParamsEqual ==
  /\ pc = "params"
  /\ SameParams
  /\ pc' = "done"
  /\ UNCHANGED <<config, granted, secrets, informer, queued, failover, copy, fresh,
                 secretFresh, password>>

\* The parameters Cartridge reports may differ by defaults alone.
ParamsDiffer ==
  /\ pc = "params"
  /\ pc' = "set"
  /\ UNCHANGED <<config, granted, secrets, informer, queued, failover, copy, fresh,
                 secretFresh, password>>

SetParams ==
  /\ pc = "set"
  /\ SetFailoverParams
  /\ pc' = "done"
  /\ UNCHANGED <<config, granted, secrets, informer, queued, copy, fresh,
                 secretFresh, password>>

Finish ==
  /\ pc = "done"
  /\ End(FALSE)
  /\ UNCHANGED <<secrets, unseen, notices, failover>>

\* A call fails; it may have been done.
StepFails ==
  /\ pc # "idle"
  /\ End(TRUE)
  /\ \/ pc = "own" /\ granted /\ secretFresh /\ UNCHANGED failover
        /\ NewVersion(copy.secret, Owned)
     \/ pc = "set" /\ SetFailoverParams /\ UNCHANGED <<secrets, unseen, notices>>
     \/ UNCHANGED <<secrets, unseen, notices, failover>>

-----------------------------------------------------------------------------
\* A user edits the Cluster.
EditConfig(new) ==
  /\ new # config
  /\ config' = new
  /\ queued' = TRUE
  /\ fresh' = FALSE
  /\ UNCHANGED <<granted, secrets, informer, failover, pc, copy, secretFresh, password>>

\* Somebody grants the right or withdraws it; the operator is not told.
ChangeRights ==
  /\ granted' = ~granted
  /\ UNCHANGED <<config, secrets, informer, queued, failover, pc, copy, fresh,
                 secretFresh, password>>

\* A user creates, edits, replaces or deletes a secret: only the operator
\* makes the Cluster its owner.  (A secret in another namespace is refused
\* whatever it holds: its edits are left out.)
EditSecret(s, new) ==
  /\ s \notin Foreign
  /\ new # secrets[s]
  /\ new.owned => secrets[s].owned
  /\ NewVersion(s, new)
  /\ secretFresh' = (secretFresh /\ copy.secret # s)
  /\ UNCHANGED <<config, granted, cache, queued, failover, pc, copy, fresh, password>>

\* The versions are delivered in their order, here at once;
\* EnqueueRequestForOwner looks at the old and the new object of each.
DeliverSecret(s) ==
  /\ s \in unseen
  /\ unseen' = unseen \ {s}
  /\ notices' = notices \ {s}
  /\ cache' = [cache EXCEPT ![s] = secrets[s]]
  /\ queued' = (queued \/ cache[s].owned \/ s \in notices)
  /\ UNCHANGED <<config, granted, secrets, failover, pc, copy, fresh, secretFresh, password>>

\* The operator restarts; it lists and enqueues every object.
Restart ==
  /\ pc' = "idle"
  /\ queued' = TRUE
  /\ cache' = secrets
  /\ unseen' = {}
  /\ notices' = {}
  /\ fresh' = FALSE
  /\ secretFresh' = FALSE
  /\ password' = NoSecret
  /\ UNCHANGED <<config, granted, secrets, failover, copy>>

Work ==
  \/ Begin
  \/ SecretMissing \/ SecretForeign \/ SecretFound
  \/ OwnSecret \/ OwnSecretRefused
  \/ ParamsEqual \/ ParamsDiffer \/ SetParams \/ Finish

Fault == StepFails \/ Restart

Next ==
  \/ Work
  \/ Fault
  \/ \E s \in Secrets : DeliverSecret(s)
  \/ ChangeRights
  \/ \E new \in Configs : EditConfig(new)
  \/ \E s \in Secrets, new \in SecretStates : EditSecret(s, new)

Spec == Init /\ [][Next]_vars

-----------------------------------------------------------------------------
AtRest == pc = "idle" /\ ~queued /\ unseen = {}

\* What the Cluster's spec and the stored secret ask for.  Fencing that is
\* switched off is never sent: it stays on.
Configured ==
  /\ failover.mode = config.mode
  /\ config.fencing => failover.fencing
  /\ config.mode = "stateful" =>
       /\ failover.provider = config.provider
       /\ failover.password[config.provider] =
            IF config.secret = NoSecret THEN NoSecret ELSE secrets[config.secret].password

\* Without anything left to do, Cartridge has the failover of the spec and the
\* present password: no rotation of a secret is missed, whatever the cache
\* showed when the secret was read and however its owner reference got lost.
RestMeansConfigured ==
  AtRest => Configured

\* What it rests on.  A secret of which every version has been delivered is cached
\* as it is stored; one in memory that may be written is the stored one.
Knowledge ==
  /\ \A s \in Secrets \ unseen : cache[s] = secrets[s]
  /\ pc \in {"secret", "own"} => copy.mode = "stateful" /\ copy.secret \in Secrets
  /\ pc = "own" /\ secretFresh =>
       copy.secret \notin unseen /\ password = secrets[copy.secret].password

\* The secret s holds the password pw and is watched, or a version that wakes
\* the Cluster up is on its way.
Watched(s, pw) ==
  IF s \in unseen THEN cache[s].owned \/ s \in notices
  ELSE secrets[s].owned /\ secrets[s].password = pw

\* The password pw is the one the spec asks for.
Current(pw) ==
  config.mode = "stateful" =>
    IF config.secret = NoSecret THEN pw = NoSecret ELSE Watched(config.secret, pw)

Told ==
  /\ failover.mode = config.mode
  /\ config.fencing => failover.fencing
  /\ config.mode = "stateful" => failover.provider = config.provider
  /\ Current(failover.password[config.provider])

\* Unless the Cluster is queued again, the worker has the present spec, and the
\* password it has read, and then told, is the present one or will be replaced.
Progressing ==
  ~queued =>
    /\ pc # "idle" => copy = config /\ fresh
    /\ pc \in {"params", "set"} => Current(password)
    /\ pc \in {"idle", "done"} => Told

FailoverInv == TypeOK /\ Knowledge /\ Progressing

\* The operator writes secrets back from its cache, yet never undoes a user's
\* edit or brings a deleted secret back.
SecretEditsKept ==
  [][pc' # pc => \A s \in Secrets : secrets'[s].password = secrets[s].password]_vars

\* Seen from the Cluster's spec, the secrets and Cartridge's parameters, this is a
\* level-triggered controller.
Controller == INSTANCE LevelTriggered WITH
  goal <- <<config, secrets>>, world <- failover, fulfilled <- Configured, awake <- ~AtRest

\* It rests only when the failover is configured, and neither an edit of the
\* Cluster nor one of the secret it names finds it asleep for good.
ImplementsController == Controller!Spec

\* Once the failover is configured and the secret is owned and delivered, the
\* operator changes neither any more, through failures, restarts and reconciles.
Steady ==
  /\ unseen = {}
  /\ Configured /\ failover.provider = config.provider
  /\ config.mode = "stateful" /\ config.secret # NoSecret => secrets[config.secret].owned
  /\ pc # "idle" => copy = config
  /\ pc \in {"own", "params", "set"} /\ config.mode = "stateful" =>
       password = failover.password[config.provider]

SteadyKept ==
  [][Steady /\ (Work \/ Fault) => Steady' /\ UNCHANGED <<secrets, failover>>]_vars

\* The failover needs no secret, or one that exists in the Cluster's namespace and
\* that the operator may update.
Usable ==
  config.mode = "stateful" /\ config.secret # NoSecret =>
    /\ config.secret \notin Foreign
    /\ secrets[config.secret].password # NoKey
    /\ granted

\* How many steps the worker may still take in such a state.  The Cluster is
\* reconciled again if it is queued, or if the copy of it or of the secret is old.
Again ==
  \/ queued
  \/ pc # "idle" /\ ~fresh
  \/ pc = "own" /\ ~secretFresh

StepsAhead ==
  CASE pc = "secret" -> 5 [] pc = "own" -> 4 [] pc = "params" -> 3 [] pc = "set" -> 2
    [] pc = "done" -> 1 [] OTHER -> 0

Effort == (IF Again THEN 6 ELSE 0) + StepsAhead

\* Each of them leaves less to do, if the secret is usable, and there are never more
\* than two reconciles of them: the secret it writes back to own it, and parameters
\* that differ by defaults, do not keep the Cluster going.
SettlesDown ==
  [][Steady /\ Usable /\ Work => Effort' < Effort]_vars

EffortBounded ==
  /\ Effort \in 0 .. 11
  /\ Steady /\ Effort = 0 => AtRest

\* Users and faults leave the objects alone from some time on.
Calm == Work \/ \E s \in Secrets : DeliverSecret(s)

LiveSpec ==
  /\ Spec
  /\ WF_vars(Work)
  /\ \A s \in Secrets : WF_vars(DeliverSecret(s))
  /\ <>[][Calm]_vars

\* Then a failover whose secret exists in the Cluster's namespace, and that the
\* operator has been granted to update, is configured and the operator comes to rest.
EventuallyConfigured == <>[]Usable => <>[](Configured /\ AtRest)
=============================================================================
