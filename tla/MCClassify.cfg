CONSTANTS
  Signals <- MCSignals
  CategoryOf <- MCCategoryOf
  Weight <- MCWeight
  Rank <- MCRank
  General = "GENERAL"
CHECK_DEADLOCK FALSE
SPECIFICATION ClassifySpec
INVARIANT SubjectAloneOverrulesNoBody
PROPERTY EvidenceSpeaksForItsCategory
