CONSTANTS
  Pkg = {p, q}
  NoPkg = NoPkg
  Instances = 1
  MaxCalls = 1
  Thread = {t1, t2}
  NoThread = NoThread
  ExitAfter = 1
  MaxInputs = 2
  Requests = {"install"}
  OtherOps = {"list"}
SPECIFICATION FreshSpec
PROPERTIES
  TaskServedUnlessRetried
  RunningTaskEnds
CHECK_DEADLOCK FALSE
