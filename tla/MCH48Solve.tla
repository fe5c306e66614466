------------------------------ MODULE MCH48Solve ------------------------------
(***************************************************************************)
(* A cube with one 3-move solution, which the task making meets, and five  *)
(* longer ones spread over four tasks.  The 4-move solution a4 gives two   *)
(* lines, as it does for a cube with a symmetry.  Task 0 holds solutions   *)
(* of both lengths; with three workers, worker 0 also has task 3.          *)
(***************************************************************************)
EXTENDS H48Solve, TLC

CONSTANTS s3, a4, b4, c5, d5, e4

MCSols == {s3, a4, b4, c5, d5, e4}
MCLength ==
  s3 :> 3 @@ a4 :> 4 @@ b4 :> 4 @@ c5 :> 5 @@ d5 :> 5 @@ e4 :> 4
MCCopies ==
  s3 :> 1 @@ a4 :> 2 @@ b4 :> 1 @@ c5 :> 1 @@ d5 :> 1 @@ e4 :> 1
MCLineLen ==
  s3 :> 2 @@ a4 :> 3 @@ b4 :> 2 @@ c5 :> 2 @@ d5 :> 3 @@ e4 :> 2
MCLeaves ==
  0 :> <<c5, a4>> @@ 1 :> <<b4>> @@ 2 :> <<d5>> @@ 3 :> <<e4>>
MCShortSols == <<s3>>
MCTasksBefore == [s \in MCSols |-> 1]

Request(min, max, count, slack, size) ==
  [minmoves |-> min, maxmoves |-> max, maxsols |-> count, optimal |-> slack,
   sols_size |-> size]

(* The room all the lines take together, with the terminator.              *)
Room == 18

MCRequests == {
  Request(0, 6, 9, 20, Room),    \* everything
  Request(0, 20, 9, 1, Room),    \* the window closes after depth 4
  Request(4, 20, 2, 0, Room),    \* the limit is met among workers
  Request(9, 5, 1, 0, Room),     \* minmoves above maxmoves
  Request(0, 2, 9, 0, Room),     \* no solution that short
  Request(0, 20, 9, 20, 6),      \* room for two lines only
  Request(3, 20, 9, 20, 1),      \* no room at all
  Request(0, 20, 0, 20, Room),   \* no solution wanted
  Request(0, 20, 9, 20, 0)}      \* no buffer

MCRequestOverflow == {Request(0, 20, 9, 20, 6)}
MCRequestFull == {Request(0, 5, 9, 20, Room - 1)}
MCRequestWide == {Request(0, 20, 256, 20, Room)}
===============================================================================
