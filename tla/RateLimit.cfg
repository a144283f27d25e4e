SPECIFICATION FairSpec
CONSTANTS
  Callers = {c1, c2}
  Burst = 2
  Gap = 2
  MaxRetries = 1
  Horizon = 5
INVARIANTS
  TypeOK
  RateBounded
PROPERTIES
  GivesUpUnderLoad
  IsTokenBucket
  CallsEnd
