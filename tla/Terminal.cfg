SPECIFICATION MCSpec
CONSTANTS
  SIZE = 3
  x = x
  y = y
  Text = {x, y}
  NL = NL
  CR = CR
  Messages <- MCMessages
  MaxMessages = 3
  MAX_TEXT = 16
  Sessions <- MCSessions
  Chars = {x}
  LF = LF
  DEL = DEL
  IAC = IAC
  SP = SP
  BS = BS
  NUL = NUL
INVARIANTS OutputWhole InputSound CharsConserved
PROPERTIES QueueImplemented OutputDelivered LinesImplemented
CHECK_DEADLOCK FALSE
