SPECIFICATION DiskSpec
CONSTANTS
  Names = {a, b}
  Contents = {x, y}
  Capacity = 3
  MaxFiles = 2
  PerSector = 1
  MaxLen = 2
  Tasks = {t1}
  Sti = FALSE
  Calls = {"create", "mkdir", "cd", "write", "delete"}
  MaxCrashes = 0
  MaxErrors = 0
  None = none
  Junk = junk
SYMMETRY Swaps
INVARIANTS IInv FilesOwnTheirBlocks NoBlockLost ReadsBack UniqueNames PowerSurvives
