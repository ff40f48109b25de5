SPECIFICATION Spec
CONSTANTS
  None = None
  MaxText = 1
  MaxWord = 1
  Letters <- MCLetters
  Digits <- MCDigits
  Blanks <- MCBlanks
  Others <- MCOthers
  Lower <- MCLower
  Visible <- MCVisible
  Inputs <- Indents
INVARIANT RoundTrip
CHECK_DEADLOCK FALSE
