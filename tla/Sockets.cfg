SPECIFICATION Spec
CONSTANTS
  Objects = {a, b}
  Slots = 2
  Descriptors = 2
  Modes = {"STREAM", "DATAGRAM"}
  MaxDepth = 2
  Precautions = {"close", "alive", "acquire"}
  Null = Null
INVARIANTS TableSound WillBeWritten OwnersAlive
SYMMETRY ObjectSymmetry
