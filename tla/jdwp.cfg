SPECIFICATION FairSpec
CONSTANTS
  Cpus = {c1, c2}
  Packets <- Arrivals
  Junk = {255}
  EthLen = 14
  IpLen = 20
  TcpLen = 20
  MaxTcpData = 256
  RingBytes = 552
  MaxPackets = 3
INVARIANTS
  TypeOK
  PrintedFromPacket
  StatusTellsFailure
  CanProceed
  DeliveryCanProceed
PROPERTIES
  ReportChannel
  SignalEnds
  CommittedGetsPrinted
CHECK_DEADLOCK FALSE
