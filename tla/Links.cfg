SPECIFICATION FairSpec
CONSTANTS
  Players = {p}
  Browsers = {b}
  Workers = {w}
  MaxAttempts = 4
  MinTTL = 1
  DefaultTTL = 2
  MaxTTL = 3
  Claims = {0, 5}
  MaxDelay = 1
  NoLink = NoLink
INVARIANTS
  TypeOK
PROPERTIES
  HandedInTime
  WorkersGetThrough
  RejectionsEnd
