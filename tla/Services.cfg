SPECIFICATION ServiceSpec
CHECK_DEADLOCK FALSE
CONSTANTS
  Header = 2
  None = none
  Page = 5
  Limit = 20
  Frames = 4
  Sizes = {1, 2, 4}
  HEAP_SIZE = 16
  Tasks = {s, t}
  Preempt = FALSE
  EV_QUEUE_MAX = 3
  KBD_BUF = 2
  Width = 2
  Steps <- Moves
  MouseButtons = {"l", "r"}
  Keys = {"lshift", "rshift", "rctrl", "lctrl", "caps", "a", "left"}
  Interrupted = FALSE
  Chars = {"a", "b"}
  Capital <- Small
  Dirs <- Folders
  Rows = 2
  PageRows = 2
  MAX_FILES = 4
  NAME_MAX = 3
  Outs = {1, 3}
  Filters <- Patterns
  Indexes = {0, 1, 2}
INVARIANTS       DrawnAsMade
