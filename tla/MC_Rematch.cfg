SPECIFICATION OffersSpec
CONSTANTS
  Ada = Ada
  Ben = Ben
  Actors = {Ada, Ben}
  Accounts = {}
  FirstMatches <- AdaAndBen
  Elsewhere = {}
  Calls = {r1, r2}
  OfferLife = 1
  MaxTime = 0
  LastOffer = 0
  MaxOffers = 1
  MaxMatches = 3
  Failures = 0
INVARIANTS
  NextMatchOnce
CHECK_DEADLOCK FALSE
