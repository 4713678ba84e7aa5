SPECIFICATION FairSpec
CONSTANTS
  Session = {Guest}
  Nobody = Nobody
  Preferences = {"heard", "muted"}
  Default = "heard"
  Square = {"a", "b"}
  Reserve = {"stack"}
  Legal <- MCLegal
  MaxConnections = 2
  MaxActs = 3
INVARIANTS
  ConnectionKnowsItsPlayer
PROPERTIES
  ScreensCatchUp
CHECK_DEADLOCK FALSE
