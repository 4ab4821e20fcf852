SPECIFICATION Spec
CONSTANTS
  c1 = c1
  c2 = c2
  Clients = {c1, c2}
  MaxUid = 3
  PageSize = 2
  File <- MCFile
  MaxRequests = 4
  Rewinds = TRUE
CHECK_DEADLOCK FALSE
SYMMETRY MCSymmetry
INVARIANTS
  PassedHasTrace
  OneMailPerNumber
  PassedIsStored
PROPERTY
  RetrievalMovesForward
  KeepsMailboxContract
