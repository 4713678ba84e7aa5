SPECIFICATION MCSpec
CONSTANTS
  Rows = {1, 2}
  Uploads <- MCUploads
  Mac = Mac
  Clients = {Mac}
  Asks <- MCAsks
  First <- MCFirst
  w1 = w1
  Runs = {w1}
  Built <- MCBuilt
  Requests = {w1, r1}
  None = None
  MaxRequests = 3
  MaxTime = 1
  MaxFailures = 1
  Commits = {1, 2, 3}
  Migrations <- MCMigrations
  Version <- MCVersion
  FirstCommit = 1
  MaxRuns = 2
  Tables <- MCTables
  Spares = {"drill"}
  MaxWrites = 2
  MaxArchives = 2
INVARIANTS
  ReleasesAreTested
  ReleasesServe
  BackupsAreKept
PROPERTIES
  ProductionIsGuarded
  NeverOlder
  CatchesUp
CHECK_DEADLOCK FALSE
