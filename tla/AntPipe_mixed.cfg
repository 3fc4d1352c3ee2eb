SPECIFICATION Spec
CONSTANTS
  DataDepth = 16
  MdDepth = 4
  MdAlfAt = 1
  Table <- MCTable
  SysMaxCpu = 2
  Kinds <- MixedKinds
  MaxPkts = 3
  Started = {TRUE, FALSE}
  ProtoTypes = {"udp"}
  MissIdx = 0
  ResetWhen = "never"
INVARIANTS
  TypeOK
  Paired
  IndexBalance
  CountsWhatPassed
PROPERTIES
  KeepsPortContract
  ImplementsConveyor
CHECK_DEADLOCK FALSE
