SPECIFICATION Spec
CONSTANTS
  i1 = i1
  b1 = b1
  Importer <- MCImporter
  Backup <- MCBackup
  MaxVersion = 2
  MaxStores = 2
INVARIANTS
  StartedOverHeldNothing
CHECK_DEADLOCK FALSE
