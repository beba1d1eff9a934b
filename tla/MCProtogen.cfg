SPECIFICATION Spec
CONSTANTS
  Depth = 4
  Paths <- MCPaths
  Wanted = {"pb", "grpc"}
  MaxFiles = 2
  MaxEdits = 1
INVARIANTS
  ExitZeroIsWhole
  FailureTouchesNothing
  DependencyOrder
  ProtogenInv
PROPERTY RunEnds
