------------------------------ MODULE MCCoordSolve ------------------------------
(***************************************************************************)
(* CoordSolve on a small puzzle: a cube permutes six pieces, the moves are *)
(* the 3-cycles A = (1 2 3) and D = (6 5 4), which are parallel, their     *)
(* inverses, and F = (3 4)(2 5), and the mirror image x -> 7 - x is a      *)
(* transformation.  The coordinate says where the pieces {3, 4} are, which *)
(* is taken up to the mirror image, and among the other positions where    *)
(* {1, 6} are.  F keeps a solved coordinate solved; three of the nine      *)
(* classes are their own mirror images.                                    *)
(***************************************************************************)
EXTENDS CoordSolve

(* Cubes are numbers, and what is done to them is tabulated: the number of *)
(* a permutation is its rank in lexicographic order.                       *)
Positions == 1 .. 6
Factorials == <<120, 24, 6, 2, 1, 1>>
Perm(n) ==
  FoldLeft(LAMBDA s, f : [out |-> Append(s.out, s.left[((n \div f) % (Len(s.left))) + 1]),
                          left |-> RemoveAt(s.left, ((n \div f) % (Len(s.left))) + 1)],
           [out |-> <<>>, left |-> <<1, 2, 3, 4, 5, 6>>], Factorials).out
Perms == [n \in 0 .. 719 |-> Perm(n)]
Rank(c) ==
  FoldLeft(LAMBDA n, x : n + Factorials[x] * Cardinality({y \in x .. 6 : c[y] < c[x]}),
           0, <<1, 2, 3, 4, 5, 6>>)
At(c, x) == CHOOSE y \in Positions : c[y] = x
Inverted(c) == <<At(c, 1), At(c, 2), At(c, 3), At(c, 4), At(c, 5), At(c, 6)>>
Compose(a, b) == <<a[b[1]], a[b[2]], a[b[3]], a[b[4]], a[b[5]], a[b[6]]>>
Mirrored(c) == <<7 - c[6], 7 - c[5], 7 - c[4], 7 - c[3], 7 - c[2], 7 - c[1]>>

Turn == << <<2, 3, 1, 4, 5, 6>>, <<3, 1, 2, 4, 5, 6>>,
           <<1, 2, 3, 6, 4, 5>>, <<1, 2, 3, 5, 6, 4>>, <<1, 5, 4, 3, 2, 6>> >>
Moved == [c \in 0 .. 719 |-> [m \in 1 .. 5 |-> Rank(Compose(Perms[c], Turn[m]))]]
Premoved == [c \in 0 .. 719 |-> [m \in 1 .. 5 |-> Rank(Compose(Inverted(Turn[m]), Perms[c]))]]
InverseOf == [c \in 0 .. 719 |-> Rank(Inverted(Perms[c]))]
MirrorOf == [c \in 0 .. 719 |-> Rank(Mirrored(Perms[c]))]

MCCubes == 0 .. 719
MCSolved == 0
MCMoves == <<1, 2, 3, 4, 5>>
MCMove(c, m) == Moved[c][m]
MCPremove(c, m) == Premoved[c][m]
MCInverse(c) == InverseOf[c]
MCTransform(c, u) == IF u = 0 THEN c ELSE MirrorOf[c]
MCInverseTrans(u) == u
MCTransformMove(m, u) == IF u = 0 THEN m ELSE <<3, 4, 1, 2, 5>>[m]
MCParallel(m, n) == (m = 5) = (n = 5)
MCAllowedNext(m, n) == CASE m \in {1, 2} -> n \notin {1, 2}
                         [] m \in {3, 4} -> n = 5
                         [] OTHER        -> n # 5
MCIsBase(m) == m \in {1, 3, 5}
MCMoveLen(m) == IF MCIsBase(m) THEN 1 ELSE 2
MCOrientations == [o \in 0 .. 1 |-> o]
Even == [c \in 0 .. 719 |->
  Cardinality({p \in Positions \X Positions :
                 p[1] < p[2] /\ Perms[c][p[1]] > Perms[c][p[2]]}) % 2 = 0]
MCIsSolvable(c) == Even[c]

(* The places of {3, 4} and, by rank among the other places, of {1, 6}.    *)
Pairs == {p \in SUBSET Positions : Cardinality(p) = 2}
HomeFirst(S, home) ==
  FoldSet(LAMBDA x, s : Append(s, x), <<home>>, S \ {home})
Sets == HomeFirst(Pairs, {3, 4})
Ranks == HomeFirst({p \in Pairs : p \subseteq 1 .. 4}, {1, 4})
IndexOf(s, v) == CHOOSE k \in DOMAIN s : s[k] = v
Where(c, v) == {x \in Positions : Perms[c][x] \in v}
Among(x, out) == Cardinality({y \in Positions \ out : y <= x})
SymOf == [c \in 0 .. 719 |-> IndexOf(Sets, Where(c, {3, 4})) - 1]
TwoOf == [c \in 0 .. 719 |->
            IndexOf(Ranks, {Among(x, Where(c, {3, 4})) : x \in Where(c, {1, 6})}) - 1]
Merged == [x \in 0 .. 14 |-> [y \in 0 .. 5 |->
             CHOOSE c \in 0 .. 719 : SymOf[c] = x /\ TwoOf[c] = y]]
MCSymCoord(c) == SymOf[c]
MCCoord2(c) == TwoOf[c]
MCSymCube(x) == Merged[x][0]
MCCube2(y) == Merged[0][y]
MCMerge(c, c2) == Merged[SymOf[c]][TwoOf[c2]]

(* Distances by counting moves out from what looks solved.                 *)
DistanceOf ==
  LET within ==
        FoldLeft(LAMBDA w, n :
                   Append(w, {IF m = 0 THEN c ELSE MCMove(c, m) : c \in w[n], m \in 0 .. 5}),
                 <<Goal>>, [n \in 1 .. Unset - 1 |-> n])
  IN  [c \in 0 .. 719 |-> Min({n \in 0 .. Unset - 1 : c \in within[n+1]})]
MCDistance == DistanceOf

(* Calls of every kind, on cubes that have solutions on either side or on  *)
(* both: flags, axes, orientations, limits, buffers of a few bytes.        *)
AllFlags == NORMAL \cup INVERSE \cup MIXED
Call ==
  [cube |-> 657, t |-> 0, orientation |-> 0, nissflag |-> MIXED, minmoves |-> 0,
   maxmoves |-> 4, maxsolutions |-> 100, optimal |-> 1, size |-> 1000, dataok |-> TRUE]
Short == [Call EXCEPT !.cube = 96, !.maxmoves = 3]
MCRequests ==
  {[Call EXCEPT !.t = x, !.orientation = 1 - x] : x \in 0 .. 1}
  \cup {[Call EXCEPT !.cube = 569, !.nissflag = f] :
          f \in {NORMAL, INVERSE, NORMAL \cup INVERSE, AllFlags}}
  \cup {[Call EXCEPT !.cube = 566, !.nissflag = AllFlags, !.orientation = 1],
        [Call EXCEPT !.cube = 566, !.nissflag = AllFlags, !.maxsolutions = 2],
        [Call EXCEPT !.cube = 399, !.optimal = 0],
        [Call EXCEPT !.cube = 4, !.nissflag = NORMAL, !.minmoves = 5, !.maxmoves = 5],
        [Call EXCEPT !.maxsolutions = 3, !.minmoves = 4]}
  \cup {[Short EXCEPT !.size = z] : z \in 1 .. 9}
  \cup {[Call EXCEPT !.cube = 0, !.minmoves = n, !.size = z] : n \in 0 .. 1, z \in 0 .. 1}
  \cup {[Call EXCEPT !.cube = 1], [Call EXCEPT !.dataok = FALSE]}
================================================================================
