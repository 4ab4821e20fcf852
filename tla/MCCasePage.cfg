SPECIFICATION PageSpec
CONSTANTS
  MaxVersion = 3
  MaxCalls = 2
CHECK_DEADLOCK FALSE
INVARIANTS
  AcceptedWasShown
  ClosedIsRecorded
