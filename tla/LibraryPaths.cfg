SPECIFICATION FairSpec
CONSTANTS
  Files = {f1, f2}
  Titles = {A, B}
  Plain = A
  Stable = {f1}
  Numbered = 1
  Passes = {loop, web}
  Loop = loop
  Copies = {f1}
  NoFile = NoFile
  NoPath = NoPath
CONSTRAINT
  Scenes
INVARIANTS
  TypeOK
  DistinctPaths
  StrmsAreOwned
PROPERTIES
  LibrarySettles
