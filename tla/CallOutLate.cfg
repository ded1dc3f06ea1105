SPECIFICATION Spec
CONSTANTS
  CYCLE = 4
  CHUNK = 2
  Objects = {o1}
  Funs = {f, fp}
  Pointers = {fp}
  Delays = {1, 4, 6}
  LateInserts = TRUE
  Steps = {1}
  StartTimes = {3}
  MaxCallOuts = 2
  MaxTime = 9
  NoCall = NoCall

PROPERTIES TimersImplemented
