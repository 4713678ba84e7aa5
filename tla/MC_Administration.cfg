CONSTANTS
  Admins = {"ann", "bob"}
  Codes = {"first-win", "tenth-win"}
  Names = {"old", "new"}
  Seeded = {"first-win"}
  MaxAudit = 2
  Ids = {1, 2, 3}
  MaxMoment = 2
  PageSize = 1
  u1 = u1
  u2 = u2
  g1 = g1
  g2 = g2
  t1 = t1
  t2 = t2
  m1 = m1
  m2 = m2
  r1 = r1
  r2 = r2
  Users = {u1, u2}
  Guests = {g1, g2}
  Issued = {t1, t2}
  Applications <- TwoApplications
  Matches = {m1, m2}
  Pairings <- EitherColour
  Requests = {r1, r2}
  Nobody = Nobody
  MaxEndings = 1
  MaxRequests = 3
SPECIFICATION MCSpec
SYMMETRY Symmetry
INVARIANTS
  AuditIsTrue
  RowsAgree
  ClaimsAreWhole
PROPERTIES
  SuspensionEndsSessions
CHECK_DEADLOCK FALSE
