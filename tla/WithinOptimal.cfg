SPECIFICATION Spec
CONSTANTS
  SOLVED_CUBE <- MCSolved
  Cubes <- MCCubes
  moves_mask <- MCMoves
  move <- MCMove
  trans_mask = {0, 1}
  transform <- MCTransform
  inverse_trans <- MCInverseTrans
  SymMax = 15
  symcoord <- MCSymCoord
  symcube <- MCSymCube
  Max2 = 6
  coord2 <- MCCoord2
  cube2 <- MCCube2
  merge <- MCMerge
  Distance <- MCDistance
  premove <- MCPremove
  inverse <- MCInverse
  transform_move <- MCTransformMove
  parallel <- MCParallel
  allowednextmove <- MCAllowedNext
  isbase <- MCIsBase
  movelen <- MCMoveLen
  orientation_trans <- MCOrientations
  is_solvable <- MCIsSolvable
  Requests <- MCRequests
INVARIANTS WithinOptimal
CHECK_DEADLOCK FALSE
