CONSTANTS
  Proc = {p1, p2, p3}
  MaxStarts = 2
  File = {1, 2}
  NoFile = 8
  Package = {7}
  NoName = 9
  MaxJobs = 2
  MaxRefused = 1
  MaxWire = 2
  Installed = {1, 2}
  MaxEnds = 1
  Categories <- TwoCategories
  PackagesOf <- TheirPackages
  Packages = {1, 2, 3}
  Known = {1, 2}
  Dated = {1}
  TitleIsName = {2, 3}
  NoCategory = 9
  MaxFailed = 1
  MaxReply = 2
SPECIFICATION MCSpec
INVARIANTS
  GuardInv
  ReportsInv
  ConsoleQuitsInTime
  IconsInv
  CatalogueInv
PROPERTIES
  SomeoneRuns
CHECK_DEADLOCK FALSE
