SPECIFICATION LiveSpec
CONSTANTS
  Roles = {"storage"}
  Replicasets <- TwoReplicasets
  Replicas <- OneReplica
  RoleWorkers = {"role"}
  ClusterWorkers = {"cluster"}
  ConfigWorkers = {}
  InstStates <- PodStates
  NoPod = NoPod
INVARIANTS
  WorkersAgreeOnLeader
  ElectionInv
PROPERTIES
  LeaderFixedUntilBootstrapped
  ImplementsRegister
  LeaderElected
  NotReadyLeaderReplaced
