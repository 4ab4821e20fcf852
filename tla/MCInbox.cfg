SPECIFICATION Spec
CONSTANTS
  archived = archived
  hidden = hidden
  shown = shown
  Emails = {archived, hidden, shown}
  Live = {hidden, shown}
  Hidden = {hidden}
  Categories = {"BL_COMPARISON", "GENERAL"}
  Comparison = "BL_COMPARISON"
  NoCategory = "none"
  Findings <- MCFindings
  Fields = {"party", "weight"}
  FreeText = {"party"}
  Texts <- MCTexts
  NoText = "none"
  Canon <- MCCanon
  Inside <- MCInside
  Long = {"acme", "acme asia", "acme bv", "1200", "11200", "1.2 t"}
  Teachings <- MCTeachings
  MaxRows = 3
  MaxRequests = 5
  MaxTaught = 2
CHECK_DEADLOCK FALSE
INVARIANTS
  FunnelIsAPartition
  OpenWorkIsCounted
  TaughtIsSuggested
