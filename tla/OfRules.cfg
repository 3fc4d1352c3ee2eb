SPECIFICATION Spec
CONSTANTS
  FAST_RULE_CNT = 2
  LogPorts = {1, 2}
  FirstObx = 1
  Prios = {1}
  Cookies = {1, 2}
  NoStats = NoStats
INVARIANTS TypeOK UpdatesSeenWhole ReportedIsInstalled OneSlotPerRule
