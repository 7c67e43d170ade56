SPECIFICATION Spec
CONSTANTS
  StreamLen = 2
  Payloads = {x, y}
  Rooms = {1, 2}
  Tries = 3
  SendAgain = FALSE
  MaxSends = 1
  None = none
INVARIANT EofAfterAll
SYMMETRY Swaps
