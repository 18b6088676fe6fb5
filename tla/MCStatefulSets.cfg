SPECIFICATION LiveSpec
CONSTANTS
  Ordinals = {0, 1}
  Counts = {1, 2}
  Templates = {"t1", "t2"}
  Hashes = {"t1", "t2"}
  Hash <- OneHashEach
  LabelSets = {"l1", "l2"}
  RoleSpecs <- Scaled
  UserEdits <- SomeEdits
INVARIANTS
  SyncInv
  RestMeansSynced
PROPERTIES
  NeverScaledDown
  EventuallySynced
