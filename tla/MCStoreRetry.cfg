SPECIFICATION Spec
CONSTANTS
  NoConn = NoConn
  NoStore = NoStore
  s1 = s1
  s2 = s2
  s3 = s3
  Window = {"w1"}
  Browser = {"b1"}
  Task = {"m", "q"}
  Store = {s1, s2, s3}
  Owner <- RetryOwner
  Ops <- RetryOps
SYMMETRY Interchangeable
INVARIANT LockedMeansNoKeys
