SPECIFICATION Spec
CONSTANTS
  Files = {f1}
  Workers = {w1, w2}
  Clients = {c1, c2}
  MaxAttempts = 1
  EagerReenqueue = FALSE
  Faults = FALSE
  NoFile = NoFile
  NoWorker = NoWorker
SYMMETRY Symmetry
INVARIANT NoOrphanCopy
