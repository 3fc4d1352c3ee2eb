SPECIFICATION FairSpec
CONSTANTS
  Kinds <- Packets
  StreamDepth = 16
  StallUpTo = 12
  CountMod = 3
  CtrlDepth = 2
  Ops = {"read", "write"}
INVARIANTS Room
PROPERTIES ImplementsEgress
