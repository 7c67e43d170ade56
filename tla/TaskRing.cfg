SPECIFICATION FairSpec
CONSTANTS
  MaxTasks = 4
  PDs = {pd1, pd2}
  KernelPD = kpd
  NoPD = nopd
  PidSpace = 1
INVARIANT IInv
PROPERTIES SwitchLoadsLivePd FreedPdUnused Implements FairShare
CONSTRAINT Unraced
