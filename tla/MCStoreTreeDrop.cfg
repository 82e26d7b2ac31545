SPECIFICATION FaultSpec
CONSTANTS
  a1 = a1
  a2 = a2
  Item = {"i"}
  Aside = {a1, a2}
  MaxKey = 3
  MaxTpm = 2
  RollbackStops = FALSE
SYMMETRY Interchangeable
INVARIANT NoHostCopy
