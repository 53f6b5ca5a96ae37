SPECIFICATION FairSpec
CONSTANTS
  x = x
  Letters = {x}
  Space = Space
  Programs <- CommandLines
  MaxStr = 4
  MaxArgs = 4
  MaxSigints = 3
CHECK_DEADLOCK FALSE
INVARIANTS
  TypeOK
  CalmStopIsClean
  TracesTheChild
  ArgvFits
PROPERTIES
  ReadReturns
  CleanupEnds
  LifeSpec
