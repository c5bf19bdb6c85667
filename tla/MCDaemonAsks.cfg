CONSTANTS
  Thread = {t1, t2}
  NoThread = NoThread
  Pkg = {p, q}
  NoPkg = NoPkg
  ExitAfter = 1
SPECIFICATION Spec
PROPERTIES
  InstallsOnlyWhatInstallAsks
