SPECIFICATION Spec
CONSTANTS
  s = s
  t = t
  Texts <- TwoTexts
  Failures = TRUE
  MaxWrites = 3
  MaxEdits = 1
  None = None
SYMMETRY TextSymmetry
CHECK_DEADLOCK FALSE
INVARIANT TypeOK
INVARIANT BindingIsOfTheStore
INVARIANT ServedIsOfTheStore
INVARIANT ServedIsVisible
PROPERTY LocksDoNotBlank
