SPECIFICATION ReleaseSpec
CONSTANTS
  Rows = {1}
  Uploads <- MCUploads
  Mac = Mac
  Clients = {Mac}
  Asks <- MCAsks
  First <- MCFirst
  w1 = w1
  Runs = {w1}
  Built <- MCBuilt
  Requests = {w1}
  None = None
  MaxRequests = 2
  MaxTime = 0
  MaxFailures = 0
PROPERTIES
  ReachesEverybody
