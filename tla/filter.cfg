SPECIFICATION Spec
CONSTANTS
  IdLen = 4
  Base = 2
  WordSize = 8
  Letters = {2}
  MaxId = 4
  MaxComm = 2
  Ids <- MCIds
  Comms <- MCComms
  Pids = {0, 1, 2, 3, 5}
CHECK_DEADLOCK FALSE
INVARIANTS
  TypeOK
  FilterIsExact
