----------------------------- MODULE MCGenH48h0k4 -----------------------------
(***************************************************************************)
(* A puzzle whose positions are the points of a 3 by 7 torus, with a step  *)
(* in each of the four directions as moves and the half turn as symmetry.  *)
(* The distances are 0 to 4.  A move leads to one of two similar points,   *)
(* never to one with x = 2, as coord_h48 picks one of the symmetries that  *)
(* lead to a representative.  The numbering of the coordinates spreads the *)
(* points of each distance over the ranges of the threads and puts some of *)
(* them in one byte; the last byte is half used.                           *)
(***************************************************************************)
EXTENDS GenH48h0k4, TLC

(* Multiplication by 8 modulo 21 is the numbering, and its own inverse.    *)
CoordOf(x, y) == (8 * (7 * (x % 3) + (y % 7))) % 21
XOf(c) == ((8 * c) % 21) \div 7
YOf(c) == ((8 * c) % 21) % 7
Picked(x, y) == IF x % 3 = 2 THEN CoordOf(1, 7 - (y % 7)) ELSE CoordOf(x, y)
Away(v, n) == IF 2 * v <= n THEN v ELSE n - v

MCNear ==
  [c \in 0 .. 20 |-> <<Picked(XOf(c) + 1, YOf(c)), Picked(XOf(c) + 2, YOf(c)),
                       Picked(XOf(c), YOf(c) + 1), Picked(XOf(c), YOf(c) + 6)>>]
MCSims == [c \in 0 .. 20 |-> <<c, CoordOf(3 - XOf(c), 7 - YOf(c))>>]
MCDist == [c \in 0 .. 20 |-> Away(XOf(c), 3) + Away(YOf(c), 7)]
===============================================================================
