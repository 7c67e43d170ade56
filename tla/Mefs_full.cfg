SPECIFICATION DiskSpec
CONSTANTS
  Names = {a, b}
  Contents = {x}
  Capacity = 3
  MaxFiles = 2
  PerSector = 1
  MaxLen = 2
  Tasks = {t1}
  Sti = FALSE
  Calls = {"create", "write", "delete"}
  MaxCrashes = 0
  MaxErrors = 0
  None = none
  Junk = junk
SYMMETRY Swaps
INVARIANTS BitmapOfFreeBlocks
