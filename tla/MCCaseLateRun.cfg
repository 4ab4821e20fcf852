SPECIFICATION Spec
CONSTANTS
  si = si
  bl1 = bl1
  bl2 = bl2
  weight = weight
  vessel = vessel
  Clients = {"c1", "c2"}
  Fields = {weight, vessel}
  NoField = NoField
  Docs = {si, bl1, bl2}
  Imported = {si, bl1}
  SIs = {si}
  BLs = {bl1, bl2}
  Differs <- MCDiffers
  NoPair = NoPair
  Categories = {"BL_COMPARISON", "GENERAL"}
  Comparison = "BL_COMPARISON"
  NoCategory = NoCategory
  Readings <- MCReadings
  MaxRequests = 4
CHECK_DEADLOCK FALSE
PROPERTY
  NewerResultStays
