SPECIFICATION Spec
CONSTANTS
  NoConn = NoConn
  NoId = NoId
  NoCopy = NoCopy
  w1 = w1
  i1 = i1
  c1 = c1
  c2 = c2
  Window = {w1}
  Id = {i1}
  Task = {}
  Copy = {c1, c2}
  Program = {"app", "history", "x1", "x2", "window"}
  Recorder = {"history"}
  Holders <- Pipes
  ReadEnd <- ReadEnds
  Opaque = {"pear"}
  Parent <- Parents
  Known = {"wlpaste"}
  Bridge = "xwm"
  MaxBusy = 1
PROPERTIES
  WithdrawnStaysOff
