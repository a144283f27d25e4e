SPECIFICATION FairSpec
CONSTANTS
  Requests = {r1, r2}
  Hopeless = {r2}
  Providers = {"realdebrid", "torbox"}
  MaxRetries = 1
  MarkAvailable = TRUE
  MaxTorrents = 3
  NoRequest = NoRequest
INVARIANTS
  TypeOK
  ToldIsServed
PROPERTIES
  NoSecondAdd
  RequestsSettle
