SPECIFICATION PowerSpec
CONSTANTS
  NoConn = NoConn
  NoStore = NoStore
  s1 = s1
  s2 = s2
  Window = {"w1"}
  Browser = {}
  Task = {"u", "s"}
  Store = {s1, s2}
  Owner <- PowerOwner
  Ops <- PowerOps
  MaxNights = 1
INVARIANT NoKeysAsleep
PROPERTIES
  WipesHappen
  RequestsEnd
  SleepGoesOn
