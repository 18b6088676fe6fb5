SPECIFICATION LiveSpec
CONSTANTS
  Roles = {r1, r2}
  NoRole = NoRole
  Failovers = {"disabled", "stateful"}
  Misconfigured = TRUE
  MaxLag = 1
INVARIANTS
  WakeupInv
  NoMissedBootstrap
  ReadyMeansApplied
PROPERTIES
  RolesEventuallyReady
