SPECIFICATION Spec
CONSTANTS
  None = None
  MaxText = 3
  MaxWord = 4
  Letters <- MCLetters
  Digits <- MCDigits
  Blanks <- MCBlanks
  Others <- MCOthers
  Lower <- MCLower
  Visible <- MCVisible
  Inputs <- MCInputs
INVARIANTS TypeOK CutByPattern ByPriority SpecialsWhole RoundTrip
CHECK_DEADLOCK FALSE
