SPECIFICATION FairSpec
CONSTANTS
  MaxMatches = 2
  MaxVersion = 2
  MaxCommands = 1
  MaxFaults = 1
PROPERTIES
  ScreenFollowsTheMatch
  EveryLockIsReleased
  EveryMatchEnds
CHECK_DEADLOCK FALSE
