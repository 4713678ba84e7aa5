SPECIFICATION MCSpec
CONSTANTS
  Ada = Ada
  Ben = Ben
  a1 = a1
  a2 = a2
  b1 = b1
  Socket = {a1, a2, b1}
  Actor = {Ada, Ben}
  User = {Ada}
  Owner <- MCOwner
  Channel = {"reactions"}
  Profile <- MCProfile
  MaxFrames = 2
  Actors = {Ada, Ben}
  Accounts = {Ada}
  FirstMatches <- AdaAndBen
  Elsewhere <- BenAndAda
  Calls = {a1, a2}
  OfferLife = 1
  MaxTime = 1
  LastOffer = 0
  MaxOffers = 2
  MaxMatches = 2
  Failures = 1
SYMMETRY Symmetry
INVARIANTS
  PoolOutlivesHandlers
  AttendanceIsTrue
  SuspensionStopsCommands
  OffersAreHonoured
PROPERTIES
  PresenceAgrees
  MutedIsSilent
CHECK_DEADLOCK FALSE
