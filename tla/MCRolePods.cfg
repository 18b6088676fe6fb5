SPECIFICATION RolePodsLiveSpec
CONSTANTS
  Ordinals = {0, 1}
  Indexes = {0, 1}
  Counts = {1, 2}
  Templates = {"t"}
  Hashes = {"h"}
  Hash <- OneHash
  LabelSets = {"l"}
  RoleSpecs <- Reshaped
  UserEdits = {}
INVARIANTS
  RestMeansJoined
PROPERTIES
  EventuallyJoined
