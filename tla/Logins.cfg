SPECIFICATION FairSpec
CONSTANTS
  a = a
  Browsers = {b1, b2}
  Names = {n1, n2}
  Addresses = {a}
  Address <- OneAddress
  Keys = {a, n1, n2}
  Typed = {n1}
  Admin = n1
  MaxFailures = 2
  Window = 3
  NoName = NoName
  NoSession = NoSession
INVARIANTS
  TypeOK
  
  SessionsAreEarned
  
PROPERTIES
  LocksEnd
