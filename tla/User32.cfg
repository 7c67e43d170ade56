SPECIFICATION PartSpec
CHECK_DEADLOCK FALSE
CONSTANTS
  MaxWnd = 5
  ChildBase = 3
  QMax = 3
  Boot = {1, 2}
  Points = {"p"}
  Origin = "o"
  Areas = {{"o", "p"}, {"p"}}
  Rows = 2
  Releases = TRUE
  Wins = 3
  Calls = 4
  Chars = {"a", "b"}
  NL = "n"
  NUL = "0"
  TxtLen = 5
  Given <- Texts
  Templates <- Dialogs
  MaxCtl = 2
  TxtMax = 1
  Results = {1, 2}
  MaxDepth = 2
  ProcCalls = 4
INVARIANTS WindowsKept DialogsKept
PROPERTIES CloseEnds EditKept ControlsKept
