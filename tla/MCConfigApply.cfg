SPECIFICATION LiveSpec
CONSTANTS
  Operators = {o1, o2}
  Configs = {"c1"}
  Sections = {"a", "b", "topology"}
  Blacklist = {"topology"}
  Values = {"x", "n"}
  Numeric = {"n"}
  Null = Null
  Documents <- SomeDocuments
INVARIANTS
  ConfigInv
  RestMeansApplied
PROPERTIES
  ReadyWhenWritten
  EventuallySettles
