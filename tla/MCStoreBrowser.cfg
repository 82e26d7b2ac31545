SPECIFICATION Spec
CONSTANTS
  NoConn = NoConn
  NoStore = NoStore
  s1 = s1
  s2 = s2
  Window = {"w1"}
  Browser = {"b1", "b2"}
  Task = {"u", "q", "p"}
  Store = {s1, s2}
  Owner <- BrowserOwner
  Ops <- BrowserOps
SYMMETRY Interchangeable
INVARIANTS
  ReadsAreCurrent
