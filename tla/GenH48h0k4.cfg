SPECIFICATION Spec
CONSTANTS
  THREADS = 2
  CoordMax = 21
  Near <- MCNear
  Sims <- MCSims
  Dist <- MCDist
  Solved = 0
  MaxDepths = {3, 20}
  Breakpoint = 3
  CHUNKS = 2
INVARIANTS
  TypeOK
  SimilarAgree
  DistributionMatches
PROPERTIES
  NoLostUpdate
  ImplementsDistanceTable
  Termination
