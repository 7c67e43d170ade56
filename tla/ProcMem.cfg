SPECIFICATION BothSpec
CONSTANTS
  Frames = {1, 2, 3, 4, 5, 6, 7, 8, 9, 10, 11, 12, 13, 14, 15}
  Lfb = lfb
  None = none
  MaxTasks = 3
  Stacks = 1
  Size <- OnePage
  PdeOf <- OneTable
INVARIANTS IInv OneHolder
PROPERTIES CallsLoseNothing ThreadsLoseNothing
