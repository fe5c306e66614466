------------------------------ MODULE MCGenH48k2 ------------------------------
(***************************************************************************)
(* Arrangements of four pieces in a row, moved by swaps of neighbours: the *)
(* outer two swaps commute, like turns of opposite faces.  The distances   *)
(* are 0 to 6, and the mirror image is a symmetry.  Pieces 1 and 2 play    *)
(* the corners, of which coord_h48 keeps the class under the symmetry; the *)
(* orders of 1, 2 and of 3, 4 are the two lower bits of the coordinate, of *)
(* which h keeps none, one or both; the one kept first depends on the      *)
(* corners, so that the coordinate of h = 1 says nothing about the moves.  *)
(***************************************************************************)
EXTENDS GenH48k2, TLC

MCCubes == {c \in [1 .. 4 -> 1 .. 4] : \A x, y \in 1 .. 4 : c[x] = c[y] => x = y}
Where(c, v) == CHOOSE x \in 1 .. 4 : c[x] = v
Swap(c, m) == [c EXCEPT ![m] = c[m+1], ![m+1] = c[m]]
Mirror(c) == [x \in 1 .. 4 |-> 5 - c[5-x]]
Corners(c) == {Where(c, 1), Where(c, 2)}
Classes == << {1,2}, {3,4}, {1,3}, {2,4}, {1,4} >>
SelfSimilar(c) == Corners(Mirror(c)) = Corners(c)
Chosen(c) == IF \E x \in 1 .. 5 : Classes[x] = Corners(c) THEN c ELSE Mirror(c)
Order(c, v) == IF Where(c, v) > Where(c, v + 1) THEN 1 ELSE 0
KeyOf(c) ==
  LET r == Chosen(c)
      x == CHOOSE y \in 1 .. 5 : Classes[y] = Corners(r)
  IN  4 * (x - 1) + IF x % 2 = 1 THEN 2 * Order(r, 1) + Order(r, 3)
                    ELSE 2 * Order(r, 3) + Order(r, 1)

MCSolved == <<1, 2, 3, 4>>
MCTurns == [c \in MCCubes |-> [m \in 1 .. 3 |-> Swap(c, m)]]
MCFace == <<1, 2, 3>>
MCAxis == <<1, 2, 1>>
MCKey == [c \in MCCubes |-> KeyOf(c)]
MCRep == [k \in 0 .. 19 |-> CHOOSE c \in MCCubes : KeyOf(c) = k /\ Chosen(c) = c]
MCSimilar == [c \in MCCubes |-> IF SelfSimilar(c) THEN <<c, Mirror(c)>> ELSE <<c>>]
MCRequests == ({0, 2} \X {2, 3}) \cup {<<0, 4>>, <<1, 2>>}

(* As many swaps as there are pairs of pieces in the wrong order.          *)
Inversions(c) == Cardinality({p \in (1 .. 4) \X (1 .. 4) : p[1] < p[2] /\ c[p[1]] > c[p[2]]})
MCKeyDist == [k \in 0 .. 19 |-> Inversions(MCRep[k])]

================================================================================
