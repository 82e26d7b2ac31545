SPECIFICATION Spec
CONSTANTS
  MaxChanges = 3
INVARIANTS
  EditsKeepEachOther
  AnsweredIsStored
  NoOrphan
  JoinedIsTrue
PROPERTIES
  NothingSpentUnasked
  SigninEnds
