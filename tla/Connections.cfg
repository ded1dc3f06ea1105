SPECIFICATION Spec
CONSTANTS
  Users = {a, b}
  Masters = {m1, m2}
  Conns = {c1, c2, c3}
  Slots = 3
  Hiders = {a}
  Careful = TRUE
  Null = Null
  Failed = Failed
INVARIANTS LinksSound ClosedProperly
PROPERTIES NoneServedTwice
CHECK_DEADLOCK FALSE
SYMMETRY BlockSymmetry
