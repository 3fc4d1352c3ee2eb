SPECIFICATION FairSpec
CONSTANTS
  Macs = {a, b, c}
  Receivers = {a}
  Ports = {p1, p2}
  NoPort = NoPort
  NM08_NEIGH_MAX = 2
  MAC_LIFE_TIME = 1
  AgingSleep = 1
  MaxLag = 1
INVARIANTS TypeOK OneEntryPerAddress
PROPERTIES AgingSparesSettled ImplementsLearningSwitch SilentAddressesAge
