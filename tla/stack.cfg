SPECIFICATION FairSpec
CONSTANTS
  NumCpus = 3
  LastCpu = 1
  Online <- MCOnline
  PerfSlots = 2
  RingSamples = 2
  MaxFrames = 1
  Huge = 9
  KernelErrors = FALSE
  MaxSamples = 3
CHECK_DEADLOCK FALSE
INVARIANTS
  TypeOK
  ShowsOwnFrames
  DumpsFollowBuffer
PROPERTIES
  StackChannel
  PushedGetsShown
