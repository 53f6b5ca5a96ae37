SPECIFICATION Spec
CONSTANTS
  t1 = t1
  t2 = t2
  t3 = t3
  target = target
  other = other
  NoProc = NoProc
  Threads = {t1, t2, t3}
  Procs = {target, other}
  ProcOf <- MCProcOf
  Traced = {target}
  Compiled <- X86Cases
  Calls <- CoreCalls
  Android = FALSE
  CloneBackwards = FALSE
  RingBytes = 1024
  MaxBufSize = 128
  MaxCalls = 4
CHECK_DEADLOCK FALSE
INVARIANTS
  TypeOK
  PrintsReleasedInOrder
  BusyRecordsHeld
  KilledIffReported
  ReporterNeverReturns
PROPERTIES
  SubmittedIsFinal
  ChannelSpec
