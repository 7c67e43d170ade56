SPECIFICATION Spec
CONSTANTS
  MaxTasks = 4
  PDs = {pd1, pd2}
  KernelPD = kpd
  NoPD = nopd
  PidSpace = 1
SYMMETRY Directories
INVARIANTS RingIsLive
