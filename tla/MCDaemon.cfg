CONSTANTS
  Thread = {t1, t2}
  NoThread = NoThread
  Pkg = {p}
  NoPkg = NoPkg
  ExitAfter = 1
SPECIFICATION Spec
INVARIANTS
  TypeOK
  OneWorker
  ArgsInv
PROPERTIES
  RefusalIsAnonymous
  EveryCallEnds
