SPECIFICATION Spec
CONSTANTS
  THREADS = 2
  CHUNKS = 2
  capacity = 9
  randomizer = 2
  SOLVED_CUBE <- MCSolved
  Turns <- MCTurns
  Face <- MCFace
  Axis <- MCAxis
  Key <- MCKey
  Rep <- MCRep
  Similar <- MCSimilar
  KeyDist <- MCKeyDist
  HMAX = 2
  KeyMax = 20
  shortdepth = 2
  Requests <- MCRequests
INVARIANTS
  TypeOK
  ShortMapExact
  DerivedAsGenerated
PROPERTIES
  ImplementsLowerBoundTable
  Termination
