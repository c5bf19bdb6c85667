CONSTANTS
  app = app
  lib = lib
  alt = alt
  local = local
  x = x
  y = y
  Pkg <- Names
  Cap <- AllCaps
  Requires <- RequiresDef
  Provides <- ProvidesDef
  Listed <- InRepository
  Place <- PlaceDef
  MainUpdates = FALSE
  MayFail = FALSE
  MayDie = FALSE
SPECIFICATION Spec
INVARIANTS
  SearchTellsStatus
