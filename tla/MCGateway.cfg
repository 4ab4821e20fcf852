CONSTANTS
  Categories = {BL_COMPARISON, GENERAL}
  Comparison = BL_COMPARISON
  NoCategory = NoCategory
  NoAnswer = NoAnswer
  Confidences <- MCConfidences
  MaxAlternatives = 3
  HasProvider = TRUE
  ReviewBelow = 80
  LocalAccept = 80
  ModelAccept = 60
  ConflictFloor = 25
  HedgeCeiling = 45
  AlternativePenalty = 15
  UnverifiedCeiling = 35
SPECIFICATION FairSpec
CHECK_DEADLOCK FALSE
INVARIANTS AcceptedIsEarned PersonCanChoose ResendsAreJustified
PROPERTY EveryMessageIsDecided
