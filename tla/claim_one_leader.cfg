SPECIFICATION Spec
CONSTANTS
  Server = {a, b, c}
  Value = {v}
  MaxUint64 = 9
  Calls = {k}
  Stoppable = {}
  MaxTerm = 1
  MaxElections = 2
  MaxLog = 1
INVARIANT OneLeaderPerTerm
CHECK_DEADLOCK FALSE
