SPECIFICATION Spec
CONSTANTS
  c1 = c1
  c2 = c2
  Gone = Gone
  Conns <- MCConns
  Ids <- MCIds
  Pages <- MCPages
  Numeric <- MCNumeric
  Guard <- MCNested
  Versions <- MCVersions
  MaxAccounts = 1
  MaxEpoch = 2
  MaxSyncs = 1
  MaxRequests = 3
SYMMETRY Symmetric
INVARIANTS
  FillIsApproved
CHECK_DEADLOCK FALSE
