SPECIFICATION Spec
CONSTANTS
  Roles = {r1, r2}
  NoRole = NoRole
  Failovers = {"disabled", "stateful"}
  Misconfigured = FALSE
  MaxLag = 2
INVARIANTS
  PhaseIsCurrent
