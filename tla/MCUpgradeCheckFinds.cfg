CONSTANTS
  Number <- SeveralDigits
  Release = {1, 2}
  MaxParts = 2
  None = None
SPECIFICATION Spec
INVARIANTS
  FindsNewer
