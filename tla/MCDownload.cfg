CONSTANTS
  Thread = {main, worker}
  Length = 2
  Versions = 2
  NoFile = NoFile
  MayFail = TRUE
  MaxDeaths = 2
SPECIFICATION Spec
SYMMETRY Symmetry
INVARIANTS
  DownloadInv
PROPERTIES
  LeavesNoSt
