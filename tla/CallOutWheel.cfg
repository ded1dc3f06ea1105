SPECIFICATION FairSpec
CONSTANTS
  CYCLE = 3
  Objects = {o1}
  Funs = {f, fp}
  Pointers = {fp}
  Delays = {1, 3, 5}
  LateInserts = FALSE
  Steps = {1, 2}
  StartTimes = {1}
  MaxCallOuts = 3
  MaxTime = 5
  NoCall = NoCall
INVARIANTS WheelInv
PROPERTIES TimersImplemented DueCallsLeave
