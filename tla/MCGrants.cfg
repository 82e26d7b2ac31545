SPECIFICATION Spec
CONSTANTS
  NoConn = NoConn
  NoId = NoId
  NoCopy = NoCopy
  w1 = w1
  w2 = w2
  i1 = i1
  i2 = i2
  t1 = t1
  t2 = t2
  c1 = c1
  Window = {w1, w2}
  Id = {i1, i2}
  Task = {t1, t2}
  Copy = {c1}
  Program = {}
  Recorder = {}
  Holders <- Pipes
  ReadEnd <- ReadEnds
  Opaque = {"pear"}
  Parent <- Parents
  Known = {"wlpaste"}
  Bridge = "xwm"
  MaxBusy = 2
SYMMETRY Interchangeable
INVARIANTS
  SecretsOnlyWhileOpen
PROPERTIES
  LatestGrantWins
