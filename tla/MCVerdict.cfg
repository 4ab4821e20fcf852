CONSTANTS
  Categories = {BL_COMPARISON, GENERAL}
  Comparison = BL_COMPARISON
  NoCategory = NoCategory
  Fields = {"consignee", "notify_party"}
  Parties = {"consignee", "notify_party"}
  Consignee = "consignee"
  Notify = "notify_party"
  Texts <- MCTexts
  NoText = "none"
  Canon <- MCCanon
  Readings <- MCReadings
  SameAs = "SAME AS CONSIGNEE"
  Equivalent = "verified_equivalent"
  Alike <- MCAlike
  Provider = TRUE
  MaxRequests = 3
  MaxRuns = 2
SPECIFICATION Spec
CHECK_DEADLOCK FALSE
INVARIANTS NoFalseClear SubmissionIsValid LabelAgreesWithExport
PROPERTY ReviewsStayLocal
