SPECIFICATION Spec
CONSTANTS
  c1 = c1
  c2 = c2
  r1 = r1
  r2 = r2
  r3 = r3
  Clients = {c1, c2}
  NE = 2
  ND = 1
  Runs = {r1, r2, r3}
  NoRun = NoRun
  NoResult = NoResult
CHECK_DEADLOCK FALSE
SYMMETRY MCSymmetry
INVARIANTS
  OneImporter
  CountedExportsCoverAll
PROPERTIES
  SucceededIsFinal
  KeepsRunContract
