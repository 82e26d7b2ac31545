SPECIFICATION Spec
CONSTANTS
  NoConn = NoConn
  NoStore = NoStore
  s1 = s1
  Window = {"w1"}
  Browser = {"b1", "b2"}
  Task = {"u", "q", "p"}
  Store = {s1}
  Owner <- BrowserOwner
  Ops <- BrowserOps
INVARIANT WindowHasItsKeys
