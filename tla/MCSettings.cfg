CONSTANTS
  default = default
  home = home
  Blank = Blank
  Torn = Torn
  Unset = Unset
  Short = Short
  f = f
  g = g
  Dirs <- TwoDirs
  Default = default
  Chosen <- FourSettings
  Files <- TwoFiles
  MaxSets = 2
  MaxWeeks = 1
  MaxStops = 1
  Number = {0, 1, 2, 9}
  Release = {1, 2}
  MaxParts = 2
  Names = {1, 2}
  Texts <- SomeTexts
  Requires <- RequiresOf
  OsProvides = {10}
  Provides <- ProvidesOf
  DesktopEntries = {21, 22}
  HasUpdate = {2}
  None = None
  Name = {1, 2}
  Shown = {1}
  Inside <- OneIsInTwo
  Mangled = 8
  NoName = 9
  MaxCalls = 2
  MaxWire = 2
  MaxInputs = 3
SPECIFICATION MCSpec
INVARIANTS
  AnswerIsUsed
  HandedOverInv
  AgreesWithRpm
  AnswersInv
  ChecksInv
  OfferedAreOutdated
  OutdatedStayOffered
  RowsInv
PROPERTIES
  OnlyDueGo
CHECK_DEADLOCK FALSE
