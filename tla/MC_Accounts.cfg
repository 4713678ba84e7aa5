SPECIFICATION MCSpec
CONSTANTS
  KFactor = 4
  MinimumRating = 0
  StartingRating = 2
  Expected <- MCExpected
  Accounts = {1, 2, 3}
  Unrated = Unrated
  Opening <- RatedOpening
  Corrections <- OneCorrection
  Matches = {"m1", "m2", "m3"}
  Card <- TwoFirstMatches
  Categories = {"row", "column"}
  Milestone = 2
  Streak = 2
  Codes = {"contender", "getting-started", "time-keeper", "four-ways"}
  Switched = {"getting-started"}
  MaxFaults = 1
  MaxCorrections = 1
  Users = {"ada", "ben"}
  SignedOut = SignedOut
  Tabs = {"desk", "phone"}
  Keys = {"me", "adminUser"}
  Fields = {"country", "muted"}
  Values = {"", "X"}
  Acceptable = {"X"}
  Blank = ""
  MaxActs = 2
  Players = {1, 2, 3, 4}
  Ranked = {"m1", "m2"}
  Seat <- BoardSeat
  Unlisted = Unlisted
  OpeningBook <- FirstBook
  BookCorrections <- Promotion
  Suspects = {2}
  Periods = {"all-time", "daily"}
  PageSize = 2
  LastMoment = 1
  LastDay = 1
INVARIANTS
  CompletionsAreWhole
  PagesTellTheBoard
  PairingIsFair
  CacheIsTrue
PROPERTIES
  ImplementsBook
  OnlyTouchedFieldsChange
CHECK_DEADLOCK FALSE
