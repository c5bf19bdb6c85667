CONSTANTS
  Pkg = {p}
  NoPkg = NoPkg
  Instances = 1
  MaxCalls = 1
  Thread = {t1, t2}
  NoThread = NoThread
  ExitAfter = 3
  MaxInputs = 2
  Requests = {"install", "uninstall"}
  OtherOps = {}
SPECIFICATION FreshSpec
PROPERTIES
  TaskServed
CHECK_DEADLOCK FALSE
