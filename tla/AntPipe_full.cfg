SPECIFICATION FairSpec
CONSTANTS
  DataDepth = 16
  MdDepth = 4
  MdAlfAt = 3
  Table <- MCTable
  SysMaxCpu = 2
  Kinds <- FullKinds
  MaxPkts = 5
  Started = {TRUE}
  ProtoTypes = {"tcp"}
  MissIdx = 0
  ResetWhen = "quiet"
INVARIANTS
  NoOverflow
PROPERTIES
  DeliversAsConveyor
CHECK_DEADLOCK FALSE
