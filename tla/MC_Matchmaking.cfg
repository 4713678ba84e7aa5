SPECIFICATION FairSpec
CONSTANTS
  Ada = Ada
  Ben = Ben
  Casual = Casual
  Ranked = Ranked
  InitialWindow = 1
  WindowStep = 1
  StepInterval = 1
  MaximumWindow = 4
  UnboundedAfter = 1
  StartingRating = 12
  Actors <- TwoPlayers
  Guests <- NoGuests
  Rating <- TwoRatings
  Keys = {Casual, Ranked}
  Mode <- BothKeys
  Joins = {j1}
  Ticks = {t1}
  MaxTime = 1
  LastEntry = 0
  MaxTickets = 2
  Failures = 1
INVARIANTS
  EntriesAreKept
PROPERTIES
  NobodyWaitsBesideAnOpponent
CHECK_DEADLOCK FALSE
