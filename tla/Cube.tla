-------------------------------- MODULE Cube --------------------------------
(* The cube and its moves: src/src/arch/portable.h, src/src/core.  A place   *)
(* of the cube holds one number, as in the source: the piece in the low four *)
(* bits, and above it the flip of an edge (EOSHIFT = 4) or the twist of a    *)
(* corner (COSHIFT = 5).                                                     *)
EXTENDS Integers, Sequences, FiniteSets, FiniteSetsExt, SequencesExt

CubeFromArray(c, e) == [corner |-> [i \in 0..7 |-> c[i + 1]],
                        edge   |-> [i \in 0..11 |-> e[i + 1]]]

Zero   == [corner |-> [i \in 0..7 |-> 0], edge |-> [i \in 0..11 |-> 0]]
Solved == [corner |-> [i \in 0..7 |-> i], edge |-> [i \in 0..11 |-> i]]

Piece(v) == v % 16
Flip(v)  == v \div 16
Twist(v) == v \div 32

(* Adding a flip or a twist to what a place holds: the exclusive or and the  *)
(* carry trick of compose_edges_inplace and compose_corners_inplace.         *)
Flipped(v, f) == Piece(v) + 16 * ((Flip(v) + f) % 2)
Twisted(v, t) == Piece(v) + 32 * ((Twist(v) + t) % 3)

InvertCo(c) ==
    [c EXCEPT !.corner = [i \in 0..7 |-> LET v == c.corner[i] IN Twisted(v, Twist(v))]]

Compose(c1, c2) ==
    [corner |-> [i \in 0..7 |->
                    LET v == c2.corner[i] IN Twisted(c1.corner[Piece(v)], Twist(v))],
     edge   |-> [i \in 0..11 |->
                    LET v == c2.edge[i] IN Flipped(c1.edge[Piece(v)], Flip(v))]]

(* inverse() assigns the entry of each piece it meets, in the order of the   *)
(* places; an entry it never assigns keeps what the variable 'ret' held.     *)
InverseInto(ret, c) ==
    LET at(f, p) == {i \in DOMAIN f : Piece(f[i]) = p} IN
    [corner |-> [p \in 0..7 |->
                    LET from == at(c.corner, p) IN
                    IF from = {} THEN ret.corner[p]
                    ELSE LET i == Max(from) IN i + 32 * ((2 * Twist(c.corner[i])) % 3)],
     edge   |-> [p \in 0..11 |->
                    LET from == at(c.edge, p) IN
                    IF from = {} THEN ret.edge[p]
                    ELSE LET i == Max(from) IN i + 16 * Flip(c.edge[i])]]

InverseCube(c) == InverseInto(Zero, c)

-----------------------------------------------------------------------------
(* What a cube must satisfy to be one, and to be solvable.                   *)

Pieces(f) == {Piece(f[i]) : i \in DOMAIN f}

IsConsistent(oc) ==
    /\ Pieces(oc.edge) = 0..11
    /\ \A i \in 0..11 : Flip(oc.edge[i]) \in 0..1
    /\ Pieces(oc.corner) = 0..7
    /\ \A i \in 0..7 : Twist(oc.corner[i]) \in 0..2
    /\ oc.orientation \in 0..23

PermSign(a) ==
    Cardinality({ij \in (DOMAIN a) \X (DOMAIN a) :
                    ij[1] < ij[2] /\ Piece(a[ij[1]]) > Piece(a[ij[2]])}) % 2

FlipSum(c)  == MapThenSumSet(LAMBDA i : Flip(c.edge[i]), 0..11)
TwistSum(c) == MapThenSumSet(LAMBDA i : Twist(c.corner[i]), 0..7)

IsSolvable(oc) ==
    /\ PermSign(oc.edge) = PermSign(oc.corner)
    /\ FlipSum(oc) % 2 = 0
    /\ TwistSum(oc) % 3 = 0

-----------------------------------------------------------------------------
(* Moves.  0..17 are the turns of the faces, three of each (once, twice,     *)
(* three times), in the order U D R L F B; 18..35 their wide turns; 36..44   *)
(* the slices M S E; 45..53 the rotations x y z.                             *)

Base == [U |-> 0, D |-> 3, R |-> 6, L |-> 9, F |-> 12, B |-> 15]

BasicMoves == 0..17

QuarterTurn == <<
  CubeFromArray(<<5,4,2,3,0,1,6,7>>, <<4,5,2,3,1,0,6,7,8,9,10,11>>),
  CubeFromArray(<<0,1,7,6,4,5,2,3>>, <<0,1,7,6,4,5,2,3,8,9,10,11>>),
  CubeFromArray(<<70,1,2,69,4,32,35,7>>, <<0,1,2,3,8,5,6,11,7,9,10,4>>),
  CubeFromArray(<<0,71,68,3,33,5,6,34>>, <<0,1,2,3,4,10,9,7,8,5,6,11>>),
  CubeFromArray(<<36,1,38,3,66,5,64,7>>, <<25,1,2,24,4,5,6,7,16,19,10,11>>),
  CubeFromArray(<<0,37,2,39,4,67,6,65>>, <<0,27,26,3,4,5,6,7,8,9,17,18>>) >>

Power(c, k) ==
    CASE k = 0 -> Solved [] k = 1 -> c [] k = 2 -> Compose(c, c)
      [] k = 3 -> Compose(Compose(c, c), c)

MoveBase(m)    == m \div 3
MoveAxis(m)    == m \div 6
MoveCube       == [m \in BasicMoves |-> Power(QuarterTurn[MoveBase(m) + 1], (m % 3) + 1)]
MoveOpposite(m) == IF MoveBase(m) = 2 * MoveAxis(m) THEN m + 3 ELSE m - 3
InverseMove(m) == m - 2 * (m % 3) + 2

Move(c, m)    == Compose(c, MoveCube[m])
Premove(c, m) == Compose(MoveCube[InverseMove(m)], c)

AllowedMaskBothWays == << BasicMoves \ 0..2,   BasicMoves \ 3..5,
                          BasicMoves \ 6..8,   BasicMoves \ 9..11,
                          BasicMoves \ 12..14, BasicMoves \ 15..17 >>

(* allowedmask: the moves that may follow a turn of a face.  Two parallel    *)
(* faces are turned in one order only.                                       *)
AllowedMask == << BasicMoves \ 0..2,  BasicMoves \ 0..5,
                  BasicMoves \ 6..8,  BasicMoves \ 6..11,
                  BasicMoves \ 12..14, BasicMoves \ 12..17 >>

AllowedNextMove(m1, m2) == m2 \in AllowedMask[MoveBase(m1) + 1]

-----------------------------------------------------------------------------
(* Orientations: how the cube is held, by the faces on top and in front.     *)

Orientations == <<
  <<"U","F">>, <<"U","R">>, <<"U","B">>, <<"U","L">>,
  <<"D","F">>, <<"D","R">>, <<"D","B">>, <<"D","L">>,
  <<"R","F">>, <<"R","D">>, <<"R","B">>, <<"R","U">>,
  <<"L","F">>, <<"L","D">>, <<"L","B">>, <<"L","U">>,
  <<"F","D">>, <<"F","R">>, <<"F","U">>, <<"F","L">>,
  <<"B","D">>, <<"B","R">>, <<"B","U">>, <<"B","L">> >>

Rotations == 45..53
X(k) == 44 + k
Y(k) == 47 + k
Z(k) == 50 + k

OrientationMoves == <<
  <<>>,     <<Y(1)>>,       <<Y(2)>>,       <<Y(3)>>,
  <<Z(2)>>, <<Y(1), Z(2)>>, <<Y(2), Z(2)>>, <<Y(3), Z(2)>>,
  <<Z(3)>>, <<Z(3), Y(1)>>, <<Z(3), Y(2)>>, <<Z(3), Y(3)>>,
  <<Z(1)>>, <<Z(1), Y(3)>>, <<Z(1), Y(2)>>, <<Z(1), Y(1)>>,
  <<X(1)>>, <<X(1), Y(1)>>, <<X(1), Y(2)>>, <<X(1), Y(3)>>,
  <<X(3), Y(2)>>, <<X(3), Y(1)>>, <<X(3)>>, <<X(3), Y(3)>> >>

(* The orientation after x, y and z.                                         *)
OrientationTransition == <<
  <<16,1,12>>, <<9,2,17>>,   <<20,3,10>>, <<13,0,23>>,
  <<18,7,8>>,  <<11,4,21>>,  <<22,5,14>>, <<15,6,19>>,
  <<19,9,0>>,  <<7,10,16>>,  <<23,11,6>>, <<3,8,22>>,
  <<17,15,4>>, <<5,12,20>>,  <<21,13,2>>, <<1,14,18>>,
  <<6,17,13>>, <<10,18,5>>,  <<2,19,11>>, <<14,16,3>>,
  <<4,23,9>>,  <<8,20,1>>,   <<0,21,15>>, <<12,22,7>> >>

(* Transformations 0..23 are the rotations, 24..47 the same after a mirror.  *)
OrientationTrans == <<0,3,2,1, 4,7,6,5, 9,10,11,8, 13,14,15,12,
                      18,17,16,19, 22,21,20,23>>

OrientationOfTrans(t) == CHOOSE o \in 0..23 : OrientationTrans[o + 1] = t

Mirror == CubeFromArray(<<4,5,6,7,0,1,2,3>>, <<0,1,2,3,5,4,7,6,9,8,11,10>>)

RotationCube == <<
  CubeFromArray(<<70,68,71,69,34,32,35,33>>, <<19,16,17,18,8,9,10,11,7,6,5,4>>),
  CubeFromArray(<<5,4,6,7,0,1,3,2>>, <<4,5,6,7,1,0,3,2,27,24,25,26>>),
  CubeFromArray(<<36,39,38,37,66,65,64,67>>, <<25,26,27,24,21,22,23,20,16,19,18,17>>) >>

(* The 48 constants TRANS_CUBE_*: each rotation is the composition of x, y   *)
(* and z (FDr, URr, LFr) along the word that brings the cube into the        *)
(* orientation of the same name, each mirrored one the mirror UFm before it. *)
TransRotation(t) ==
    FoldLeft(LAMBDA c, r : Compose(c, Power(RotationCube[(r - 45) \div 3 + 1], (r % 3) + 1)),
             Solved, OrientationMoves[OrientationOfTrans(t) + 1])

TransCube == [t \in 0..47 |-> IF t < 24 THEN TransRotation(t)
                                        ELSE Compose(Mirror, TransRotation(t - 24))]

TransCubeInverse == [t \in 0..47 |-> InverseCube(TransCube[t])]

Transform(c, t) ==
    LET r == Compose(Compose(TransCube[t], c), TransCubeInverse[t]) IN
    IF t < 24 THEN r ELSE InvertCo(r)

(* inverse_trans_table: the transformation that undoes the t-th one.         *)
InverseTrans ==
    <<0, 3, 2, 1, 4, 5, 6, 7, 17, 13, 23, 11, 19, 9, 21, 15, 16, 8, 20, 12, 18, 14, 22, 10,
      24, 25, 26, 27, 28, 31, 30, 29, 43, 33, 45, 39, 41, 37, 47, 35, 40, 36, 44, 32, 42, 34,
      46, 38>>

(* The faces that U, R and F are transformed into.  A mirrored transformation *)
(* exchanges R and L afterwards.                                              *)
TransMoveTable == <<
  <<"U","R","F">>, <<"U","F","L">>, <<"U","L","B">>, <<"U","B","R">>,
  <<"D","L","F">>, <<"D","B","L">>, <<"D","R","B">>, <<"D","F","R">>,
  <<"R","F","U">>, <<"R","D","F">>, <<"R","B","D">>, <<"R","U","B">>,
  <<"L","B","U">>, <<"L","U","F">>, <<"L","F","D">>, <<"L","D","B">>,
  <<"F","L","U">>, <<"F","U","R">>, <<"F","R","D">>, <<"F","D","L">>,
  <<"B","R","U">>, <<"B","D","R">>, <<"B","L","D">>, <<"B","U","L">> >>

TransformMoveUnmirrored(m, t) ==
    LET first == Base[TransMoveTable[(t % 24) + 1][MoveAxis(m) + 1]]
        mirrored == IF t >= 24 /\ MoveAxis(first) = 1 THEN MoveOpposite(first) ELSE first
    IN  (IF MoveBase(m) = 2 * MoveAxis(m) THEN mirrored ELSE MoveOpposite(mirrored)) + (m % 3)

TransformMove(m, t) ==
    LET first    == Base[TransMoveTable[(t % 24) + 1][MoveAxis(m) + 1]]
        mirrored == IF t >= 24 /\ MoveAxis(first) = 1 THEN MoveOpposite(first) ELSE first
        base     == IF MoveBase(m) = 2 * MoveAxis(m) THEN mirrored ELSE MoveOpposite(mirrored)
    IN  base + (IF t >= 24 THEN 2 - (m % 3) ELSE m % 3)

ReorientMove(m, o) == TransformMove(m, OrientationTrans[o + 1])

-----------------------------------------------------------------------------
(* Moves of a cube that is held in some orientation.  A wide turn is a turn  *)
(* of the opposite face and a rotation, a slice two turns and a rotation.    *)

SliceFaces == << <<"R","L">>, <<"B","F">>, <<"U","D">> >>

EquivalentMoves(m) ==
    LET k == m % 3 IN
    CASE m \in 0..17  -> [move |-> <<m>>, axis |-> 0, times |-> 0]
      [] m \in 18..35 ->
            LET w == m - 18 IN
            [move  |-> <<MoveOpposite(w)>>,
             axis  |-> <<1, 0, 2>>[MoveAxis(w) + 1],
             times |-> IF MoveBase(w) = 2 * MoveAxis(w) THEN k + 1 ELSE 3 - k]
      [] m \in 36..44 ->
            LET s == (m - 36) \div 3
                f == SliceFaces[s + 1]
            IN  [move  |-> <<Base[f[1]] + k, Base[f[2]] + 2 - k>>,
                 axis  |-> <<0, 2, 1>>[s + 1],
                 times |-> IF s = 1 THEN k + 1 ELSE 3 - k]
      [] m \in 45..53 -> [move |-> <<>>, axis |-> (m - 45) \div 3, times |-> k + 1]

MoveExtendedFixed(oc, m) ==
    LET eqm  == EquivalentMoves(m)
        cube == FoldLeft(Move, [corner |-> oc.corner, edge |-> oc.edge], eqm.move)
        turned == FoldLeft(LAMBDA o, i : OrientationTransition[o + 1][eqm.axis + 1],
                           oc.orientation, [i \in 1..eqm.times |-> i])
    IN  [corner |-> cube.corner, edge |-> cube.edge, orientation |-> turned]

MoveExtended(oc, m) ==
    LET eqm == EquivalentMoves(m)
        cube == FoldLeft(LAMBDA c, b : Move(c, ReorientMove(b, oc.orientation)),
                         [corner |-> oc.corner, edge |-> oc.edge], eqm.move)
        turned == FoldLeft(LAMBDA o, i : OrientationTransition[o + 1][eqm.axis + 1],
                           oc.orientation, [i \in 1..eqm.times |-> i])
    IN  [corner |-> cube.corner, edge |-> cube.edge, orientation |-> turned]

Oriented(c, o) == [corner |-> c.corner, edge |-> c.edge, orientation |-> o]

ComposeOriented(c, d) ==
    LET transformed == Transform(d, OrientationTrans[c.orientation + 1]) IN
    FoldLeft(MoveExtended, Oriented(Compose(c, transformed), c.orientation),
             OrientationMoves[d.orientation + 1])

(* FOREACH_READMOVE over the tokens of a move string: moves, parentheses and *)
(* anything else.  It gives up at the first error.                           *)
Open    == 54
Close   == 55
Unknown == 56

ReadMoves(tokens) ==
    LET read(r, t) ==
            CASE ~r.ok -> r
              [] t = Open  -> [r EXCEPT !.ok = ~r.paren, !.paren = TRUE]
              [] t = Close -> [r EXCEPT !.ok = r.paren, !.paren = FALSE]
              [] t = Unknown -> [r EXCEPT !.ok = FALSE]
              [] t \in 0..53 /\ r.paren  -> [r EXCEPT !.inverse = Append(@, t)]
              [] t \in 0..53 /\ ~r.paren -> [r EXCEPT !.normal = Append(@, t)]
        end == FoldLeft(read, [ok |-> TRUE, paren |-> FALSE,
                               normal |-> <<>>, inverse |-> <<>>], tokens)
    IN  [ok |-> end.ok /\ ~end.paren, normal |-> end.normal, inverse |-> end.inverse]

(* The moves in parentheses act on the inverse, and may not move the centres. *)
ApplyMoves(oc, tokens) ==
    LET read == ReadMoves(tokens)
        c    == FoldLeft(MoveExtended, oc, read.normal)
        cinv == FoldLeft(MoveExtended, Oriented(Solved, 0), read.inverse)
    IN  IF read.ok /\ cinv.orientation = 0
        THEN ComposeOriented(Oriented(InverseCube(cinv), 0), c)
        ELSE Oriented(Zero, 0)
=============================================================================
