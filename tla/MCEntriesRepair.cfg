SPECIFICATION Spec
CONSTANTS
  None = None
  NoPassword = NoPassword
  p1 = p1
  p2 = p2
  r1 = r1
  r2 = r2
  Id = {"a"}
  Items <- AllForms
  Returns <- AsLogin
  MaxHistory = 2
  MaxVersion = 3
  MaxNumber = 3
INVARIANT SyncRepairsRecords
