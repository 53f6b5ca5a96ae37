SPECIFICATION Spec
CONSTANTS
  NumCpus = 2
  LastCpu = 1
  Online <- MCOnline
  PerfSlots = 2
  RingSamples = 2
  MaxFrames = 1
  Huge = 9
  KernelErrors = FALSE
  MaxSamples = 2
CHECK_DEADLOCK FALSE
PROPERTIES
  PollingGetsSamples
