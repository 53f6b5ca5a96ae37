SPECIFICATION Spec
CONSTANTS
  t1 = t1
  t2 = t2
  t3 = t3
  target = target
  other = other
  NoProc = NoProc
  Threads = {t1}
  Procs = {target, other}
  ProcOf <- MCProcOf
  Traced = {target}
  Compiled <- Arm64Cases
  Calls <- IoctlOnly
  Android = FALSE
  CloneBackwards = TRUE
  RingBytes = 1024
  MaxBufSize = 128
  MaxCalls = 1
CHECK_DEADLOCK FALSE
INVARIANTS
  OnlyBinderIoctls
