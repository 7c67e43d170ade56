SPECIFICATION Spec
CONSTANTS
  p1 = p1
  p2 = p2
  Procs = {p1, p2}
  None = None
  MaxWins = 3
  MaxClients = 2
  EvMax = 2
  ScreenW = 5
  ScreenH = 3
  Frame = 0
  TitleH = 1
  MenuH = 1
  XBtn = 1
  Shapes <- Desktop
  Clicks <- Corners
  Hovers <- Over
  Steps <- Right
  MaxX = 1
  Shows = FALSE
  NoMemory = TRUE
  MaxCalls = 1
  MaxIds = 2
  MaxEvents = 2
INVARIANT TopIsSeen
CHECK_DEADLOCK FALSE
CONSTRAINT Apart
SYMMETRY Swaps
