SPECIFICATION Spec
CONSTANTS
  Files = {f1, f2}
  Titles = {A}
  Plain = A
  Stable = {}
  Numbered = 1
  Passes = {loop}
  Loop = loop
  Copies = {f1, f2}
  NoFile = NoFile
  NoPath = NoPath
INVARIANTS
  CopiesSurvive
