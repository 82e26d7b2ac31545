SPECIFICATION Spec
CONSTANTS
  NoConn = NoConn
  NoStore = NoStore
  s1 = s1
  s2 = s2
  s3 = s3
  Window = {"w1", "w2"}
  Browser = {}
  Task = {"m", "u", "v", "s"}
  Store = {s1, s2, s3}
  Owner <- ReplaceOwner
  Ops <- ReplaceOps
SYMMETRY Interchangeable
INVARIANTS
  TypeOK
  KeysOnlyWhileOpen
  NoStrayKeys
  NewStoreIsAwaited
  ReadsAreCurrent
  SyncStaysInOneUnlock
  WindowHasItsKeys
