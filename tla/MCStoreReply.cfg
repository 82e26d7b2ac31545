SPECIFICATION Spec
CONSTANTS
  NoConn = NoConn
  NoStore = NoStore
  s1 = s1
  Window = {"w1", "w2"}
  Browser = {}
  Task = {"u", "v", "r", "s"}
  Store = {s1}
  Owner <- WindowOwner
  Ops <- WindowOps
INVARIANT UnlockReplyIsCurrent
