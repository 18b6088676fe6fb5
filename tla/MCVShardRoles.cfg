SPECIFICATION LiveSpec
CONSTANTS
  Replicasets = {0, 1}
  RoleNames <- AppRoles
  Hierarchy <- AppHierarchy
  RoleSets <- SomeRoles
  Weights = {0, 100}
  Storage = "storage"
  OtherStorages = FALSE
INVARIANTS
  VShardInv
  ReadyMeansConfigured
PROPERTIES
  WeightsLast
  EventuallyConfigured
