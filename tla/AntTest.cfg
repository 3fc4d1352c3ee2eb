SPECIFICATION FairSpec
CONSTANTS
  Args <- CommandLines
  Half = 2
  RateMod = 1000000
  KillAt <- Killable
  MaxKills = 2
INVARIANTS OwnResult RunsAsAsked
PROPERTIES Recovers
