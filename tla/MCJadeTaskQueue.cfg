CONSTANTS
  Pkg = {p1, p2, p3}
  NoPkg = NoPkg
  Instances = 2
  MaxCalls = 1
SPECIFICATION Spec
INVARIANTS
  TypeOK
  QueueInv
  OneTaskPerSignal
PROPERTIES
  LeavesProperly
  CallsServeHead
  ImplementsSerialQueue
SYMMETRY PkgSymmetry
