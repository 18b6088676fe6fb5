SPECIFICATION FormationLiveSpec
CONSTANTS
  Roles = {"storage"}
  Replicasets <- One
  Replicas <- Two
  RoleWorkers = {"role"}
  ClusterWorkers = {"cluster"}
  ConfigWorkers = {}
  InstStates <- PodStates
  NoPod = NoPod
  Brains = {b1}
  NoBrain = NoBrain
  Persistent <- Pods
  NoRole = NoRole
PROPERTIES
  EventuallyReady
