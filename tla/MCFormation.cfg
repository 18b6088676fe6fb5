SPECIFICATION FormationSpec
CONSTANTS
  Roles = {"router", "storage"}
  Replicasets <- One
  Replicas <- One
  RoleWorkers = {"role"}
  ClusterWorkers = {"cluster"}
  ConfigWorkers = {}
  InstStates <- RestartStates
  NoPod = NoPod
  Brains = {b1, b2}
  NoBrain = NoBrain
  Persistent <- Pods
  NoRole = NoRole
INVARIANTS
  FormationInv
  NoSplitBrain
  BootstrappedMeansBootstrapped
  ReportedRolesJoined
PROPERTIES
  BootstrapsCompleteCluster
SYMMETRY BrainSymmetry
