SPECIFICATION FairSpec
CONSTANTS
  Files = {f1}
  Workers = {w1, w2}
  Clients = {c1}
  MaxAttempts = 2
  EagerReenqueue = FALSE
  Faults = TRUE
  NoFile = NoFile
  NoWorker = NoWorker
INVARIANTS
  TypeOK
  
  
  
  
  
  
PROPERTIES
  
  
  
  DuplicatesHeal
