SPECIFICATION FairSpec
CONSTANTS
  Objects = {a, b, c}
  Beating = {a, b}
  Tos <- TosToTry
  SHORT = 3
  SlowBeats = TRUE
  Nobody = Nobody
INVARIANTS RoundSound
PROPERTIES NoneTwiceNoneMissed TurnsUnlessCut
