CONSTANTS
  Strings <- MCStrings
  Requests <- MCRequests
  Memory <- MCMemory
  MaxCalls = 2
SPECIFICATION MCSpec
INVARIANTS TypeOK OneWayToEachCube H48UpToSymmetry
PROPERTIES ImplementsStickers SolvabilityKept GetCubeExact TransformsFit CoordinatesSuffice
CHECK_DEADLOCK FALSE
