SPECIFICATION FormSpec
CONSTANTS
  Users = {"ada"}
  Tabs = {"desk"}
  SignedOut = SignedOut
  Keys = {"me"}
  Fields = {"country", "muted"}
  Values = {"", "X"}
  Acceptable = {"X"}
  Blank = ""
  MaxActs = 2
PROPERTIES
  SavedIsSaid
CHECK_DEADLOCK FALSE
