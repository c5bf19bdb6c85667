CONSTANTS
  app = app
  lib = lib
  alt = alt
  local = local
  x = x
  y = y
  Pkg <- Names
  Cap <- AllCaps
  Requires <- RequiresDef
  Provides <- ProvidesDef
  Listed <- InRepository
  Place <- PlaceDef
  MainUpdates = FALSE
  MayFail = TRUE
  MayDie = TRUE
SPECIFICATION Spec
INVARIANTS
  TypeOK
  TableInv
  InstallClosed
  RemoveClosed
  OnlyWhatIsNeeded
  FilesVerified
PROPERTIES
  JobEnds
