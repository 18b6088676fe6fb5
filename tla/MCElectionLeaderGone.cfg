SPECIFICATION LiveSpec
CONSTANTS
  Roles = {"storage"}
  Replicasets <- TwoReplicasets
  Replicas <- OneReplica
  RoleWorkers = {"role"}
  ClusterWorkers = {"cluster"}
  ConfigWorkers = {}
  InstStates = {"Absent", "Configured"}
  NoPod = NoPod
PROPERTIES
  UnavailableLeaderReplaced
