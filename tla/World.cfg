SPECIFICATION MCSpec
CONSTANTS
  Objects = {o1, o2, o3}
  Beings = {o1}
  Shadows = {o2, o3}
  None = None
  MaxDepth = 2
  Careful = TRUE
SYMMETRY AnyOrder
INVARIANTS TreesSound SentencesNear UidsSound HeapSound
CHECK_DEADLOCK FALSE
