SPECIFICATION Spec
CONSTANTS
  CYCLE = 2
  CHUNK = 2
  Objects = {o1, o2}
  Funs = {f, fp}
  Pointers = {fp}
  Delays = {0, 3}
  LateInserts = TRUE
  Steps = {1}
  StartTimes = {1}
  MaxCallOuts = 3
  MaxTime = 4
  NoCall = NoCall
INVARIANTS ChainsSound CallsConserved
PROPERTIES WheelImplemented
SYMMETRY ObjectSymmetry
