SPECIFICATION Spec
CONSTANTS
  BodyLen <- MCBodyLen
  Procs <- MCProcs
  Sessions <- MCSessions
  Disks <- MCDisks
  MaxFaults = 2
INVARIANTS TypeOK SolversTables CheckdataExact LastGenerationWins SolveKeepsFiles
CHECK_DEADLOCK FALSE
