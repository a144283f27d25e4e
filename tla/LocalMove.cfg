SPECIFICATION FairSpec
CONSTANTS
  Files = {f1}
  Places = {p1, p2}
  Naming = {p2}
  Clients = {c1, c2}
  Movers = {m1, m2}
  Passes = {s1}
  Faults = TRUE
  NoFile = NoFile
  NoMover = NoMover
INVARIANTS
  TypeOK
PROPERTIES
  PathsStayValid
  MovesKeepContract
  MovesEnd
