CONSTANTS
  Fields <- MCFields
  Addresses <- MCAddresses
  Numeral <- MCNumeral
  Fold <- MCFold
  Bases <- MCBases
  Lines <- MCLines
  Extra <- MCExtra
  MaxEdits = 2
CHECK_DEADLOCK FALSE
SPECIFICATION ChallengesSpec
INVARIANTS ClearsMeanTheSame NoVersionIsPicked ChallengesPass
