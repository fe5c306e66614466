----------------------------- MODULE MCNissyCube -----------------------------
(* Model checking of NissyCube: the strings and calls of the instance, the   *)
(* mapping of strings to stickers, and the properties.                       *)
EXTENDS NissyCube, Coordinates, TLC

(* A mixed cube held with F on top, a cube with one flipped edge, and a      *)
(* string that has the corner 1 twice and the corner 0 nowhere.              *)
Mixed     == ApplyMoves(Oriented(Solved, 0), <<0, 8, 13, 9, 4, 15, 45>>)
OneFlip   == Oriented([Solved EXCEPT !.edge[3] = 19], 0)
TwiceCorner == Oriented([Solved EXCEPT !.corner[0] = 1], 0)

MCStrings == {WriteCube(oc) : oc \in {Oriented(Solved, 0), Mixed, OneFlip, TwiceCorner}}

MoveString(w) == [op |-> "applymoves", moves |-> w]
Trans(o, m)   == [op |-> "applytrans", up |-> o[1], front |-> o[2], mirrored |-> m]
Numbers(ep, eo, cp, co, orient, options) ==
    [op |-> "getcube", ep |-> ep, eo |-> eo, cp |-> cp, co |-> co, orient |-> orient,
     options |-> options]

(* At first, every move by itself, some strings with parentheses, right and  *)
(* wrong, every transformation and one that has no name, and numbers in and  *)
(* out of their ranges, of even and of odd parity; then some of each kind.   *)
FirstRequests ==
    {[op |-> "inverse"]}
    \cup {MoveString(<<m>>) : m \in 0..53}
    \cup {MoveString(w) : w \in {
            <<Open, 6, Close>>, <<Open, 13, 19, 9, 45, 47, 10, 50, Close, 0, 37>>,
            <<7, Open, 41, 12, 39, Close, 3, 51>>, <<48, Open, 0, 37, 38, Close>>,
            <<Open, 19, Close>>, <<Open, 6>>, <<6, Close>>, <<Open, Open, 6, Close, Close>>,
            <<6, Unknown>>}}
    \cup {Trans(Orientations[o], m) : o \in 1..24, m \in BOOLEAN}
    \cup {Trans(<<"U", "D">>, FALSE)}
    \cup {Numbers(ep, eo, cp, co, orient, "") :
            ep \in {0, FACT_12 - 2, FACT_12}, eo \in {1365, 2048}, cp \in {1, 40319},
            co \in {2186}, orient \in {7}}
    \cup {Numbers(ep, eo, cp, co, orient, "fix") :
            ep \in {-1, 5, FACT_12}, eo \in {-1, 3}, cp \in {2, 40321}, co \in {-7, 4},
            orient \in {-1, 24}}

LaterRequests ==
    {[op |-> "inverse"], Numbers(77, 0, 1, 0, 3, "fix"), Trans(Orientations[20], TRUE)}
    \cup {MoveString(<<m>>) : m \in {5, 7, 20, 37, 42, 45}}
    \cup {MoveString(<<Open, 6, Close>>), MoveString(<<9, Open, 0, 3, 42, 48, Close>>)}

MCRequests(n) == IF n = 0 THEN FirstRequests ELSE LaterRequests

MCMemory == {Zero, Solved}

-----------------------------------------------------------------------------
(* The stickers of a cube.  The faces of each place, from the U or D one     *)
(* clockwise for a corner; a twist counts the steps from there.              *)
CornerFaces == <<
  <<"U","R","F">>, <<"U","L","B">>, <<"D","L","F">>, <<"D","R","B">>,
  <<"U","F","L">>, <<"U","B","R">>, <<"D","F","R">>, <<"D","B","L">> >>
EdgeFaces == <<
  <<"U","F">>, <<"U","B">>, <<"D","B">>, <<"D","F">>, <<"U","R">>, <<"U","L">>,
  <<"D","L">>, <<"D","R">>, <<"F","R">>, <<"F","L">>, <<"B","L">>, <<"B","R">> >>

Space == INSTANCE StickerGeometry

Sticks(place, piece, n, shift) ==
    {<<ToSet(place), place[((k + shift) % n) + 1], ToSet(piece), piece[k + 1]>> : k \in 0 .. n-1}

Stickers(s) ==
    LET oc == ReadCube(s)
        here == {<<{f}, f, {f}, f>> : f \in {"U", "D", "R", "L", "F", "B"}}
            \cup UNION {Sticks(CornerFaces[i + 1], CornerFaces[Piece(oc.corner[i]) + 1], 3,
                               Twist(oc.corner[i])) : i \in 0..7}
            \cup UNION {Sticks(EdgeFaces[i + 1], EdgeFaces[Piece(oc.edge[i]) + 1], 2,
                               Flip(oc.edge[i])) : i \in 0..11}
        held == Orientations[oc.orientation + 1]
    IN  IF IsConsistent(oc)
        THEN Space!Held(here, Space!Back(Space!Symmetry(held[1], held[2], FALSE)))
        ELSE {}

VARIABLE stickers     \* auxiliary: the stickers of the client's cube

MCInit == Init /\ stickers = Stickers(cube)
MCNext == Next /\ stickers' = Stickers(cube')
MCSpec == MCInit /\ [][MCNext]_<<vars, stickers>>

Promise == INSTANCE StickerCube WITH Calls <- FirstRequests \cup LaterRequests

(* Every call does to the puzzle what its name says: the turns of the layers *)
(* of the cube as it is held, NISS moves those of the inverse, a             *)
(* transformation the symmetry of its name; and a call that is refused does  *)
(* nothing.                                                                  *)
ImplementsStickers == Promise!Spec

-----------------------------------------------------------------------------
Codes == {"NISSY_OK", "NISSY_WARNING_UNSOLVABLE", "NISSY_ERROR_INVALID_CUBE",
          "NISSY_ERROR_INVALID_MOVES", "NISSY_ERROR_INVALID_TRANS",
          "NISSY_ERROR_OPTIONS", "NISSY_ERROR_UNKNOWN"}

Succeeded(code) == code \in {"NISSY_OK", "NISSY_WARNING_UNSOLVABLE"}

(* The state has its type; a result that is announced as a cube is one, in   *)
(* letters that readcube reads back.                                         *)
TypeOK ==
    /\ call \in FirstRequests \cup LaterRequests \cup {[op |-> "none"]}
    /\ calls \in 0..MaxCalls
    /\ ret \in Codes
    /\ calls > 0 /\ Succeeded(ret) => /\ IsConsistent(ReadCube(result))
                                      /\ WriteCube(ReadCube(result)) = result

Client == ReadCube(cube)
After  == ReadCube(cube')
Solvable(oc) == IsConsistent(oc) /\ IsSolvable(oc)

(* No sequence of calls makes a solvable cube unsolvable, or the other way   *)
(* round: the signs, flips and twists of every move and transformation add   *)
(* up.  getcube with the option "fix" gives a solvable cube whatever the     *)
(* numbers (nissy.h:203-206).                                                *)
SolvabilityKept ==
    [][/\ call'.op \in {"applymoves", "applytrans"} =>
             (Solvable(Client) <=> Solvable(After))
       /\ call'.op = "inverse" /\ IsConsistent(Client) =>
             (Solvable(Client) <=> Solvable(After))
       /\ call'.op = "getcube" /\ call'.options = "fix" =>
             ret' = "NISSY_OK"]_vars

(* The cube that getcube makes has the numbers it was asked for, up to what  *)
(* "fix" adjusts: the permutation index of the edges, the flips and twists   *)
(* as digits, and the corners of their index or with the first two exchanged. *)
GetCubeExact ==
    [][call'.op = "getcube" /\ Succeeded(ret') =>
        LET fixing == call'.options = "fix"
            places(f, n) == [i \in 0 .. n-1 |-> Piece(f[i])]
            asked == IndexToPerm(call'.cp % FACT_8, 8)
        IN  /\ PermToIndex(12, places(After.edge, 12)) = call'.ep % FACT_12
            /\ CoordEo(After) = call'.eo % 2048
            /\ \/ places(After.corner, 8) = asked
               \/ fixing /\ places(After.corner, 8) = Exchanged(asked)
            /\ fixing \/ DigitsToSumZero(8, [i \in 0..7 |-> Twist(After.corner[i])], 3) = call'.co
            /\ After.orientation = call'.orient % 24]_vars

(* The solvers turn a cube and transform it in either order, turn the        *)
(* inverse instead of the cube, and bring back what they transformed: a move *)
(* and the transformed move, a move of the inverse and a premove, and a      *)
(* transformation and the one the table calls its inverse fit together.      *)
FaceMove == call'.op = "applymoves" /\ Len(call'.moves) = 1 /\ call'.moves[1] \in BasicMoves

CubeOf(oc) == [corner |-> oc.corner, edge |-> oc.edge]

TransformsFit ==
    [][FaceMove /\ IsConsistent(Client) /\ Client.orientation = 0 =>
        LET m == call'.moves[1]
            after == CubeOf(After)
        IN  /\ \A t \in 0..47 :
                 /\ Transform(after, t) = Move(Transform(Client, t), TransformMove(m, t))
                 /\ Transform(Transform(after, t), InverseTrans[t + 1]) = after
            /\ InverseCube(after) = Premove(InverseCube(Client), m)]_vars

(* What a table says of a number is true of every cube that has it: the      *)
(* number after a move, and after a transformation of the coordinate's       *)
(* symmetries, depends on the number alone; and the moves of the DREO solver *)
(* lead from a cube it accepts to one it accepts (of an odd number of flips  *)
(* is_dreo_solvable may miss the one at UF, which coord_eo leaves out).      *)
SameFate(c, d, m) ==
    LET a == Move(c, m) b == Move(d, m) IN
    <<CoordEo(a), CoordCo(a), CoordEsep(a)>> = <<CoordEo(b), CoordCo(b), CoordEsep(b)>>

Remade(c) ==
    CopyCorners(SetEo(InvCoordEsep(CoordEsep(c)), CoordEo(c)), InvCoordCo(CoordCo(c)))

CoordinatesSuffice ==
    [][FaceMove /\ IsConsistent(Client) =>
        LET c == CubeOf(Client)
            m == call'.moves[1]
            dreoesep == InvCoordDreoesep(CoordDreoesep(c))
            dresep   == InvCoordDresep(CoordDresep(c))
            eo       == CubeOfEo(CoordEo(c))
        IN  /\ IsEoEven(c) => CoordEo(Move(c, m)) = CoordEo(Move(eo, m))
            /\ IsEoEven(c) /\ IsDreoSolvable(c) /\ m \in MovesEo => IsDreoSolvable(Move(c, m))
            /\ IsEocoSolvable(c) =>
                 /\ SameFate(c, Remade(c), m)
                 /\ CoordDreoesep(Move(c, m)) = CoordDreoesep(Move(dreoesep, m))
                 /\ CoordDresep(Move(c, m)) = CoordDresep(Move(dresep, m))
                 /\ \A t \in TransUDFix :
                      /\ CoordDreoesep(Transform(c, t)) = CoordDreoesep(Transform(dreoesep, t))
                      /\ CoordCo(Transform(c, t)) = CoordCo(Transform(Remade(c), t))
                 /\ \A t \in TransUDRLFix :
                      CoordDresep(Transform(c, t)) = CoordDresep(Transform(dresep, t))]_vars

(* The cube made from an h48 number is, as coordinate.h:44-48 says, a        *)
(* transformed cube of one with that number: some transformation of the cube *)
(* has its corners, its slices and as many of its flips as h keeps.          *)
H48UpToSymmetry ==
    IsConsistent(Client) /\ call.op = "applymoves" =>
        LET c == CubeOf(Client)
            alike(d, r, h) == /\ CoordCocsep(d) = CoordCocsep(r)
                              /\ CoordEsep(d) = CoordEsep(r)
                              /\ CoordEo(d) \div 2^(11 - h) = CoordEo(r) \div 2^(11 - h)
            similar(r, h) == \E t \in 0..47 : alike(Transform(c, t), r, h)
            remade(rep) == \A h \in {0, 4, 11} :
                               similar(InvCoordH48(CoordH48(c, h), rep, h), h)
        IN  remade(Cocdata(c).rep)

(* Searching only the moves that allowedmask lets follow one another loses   *)
(* no cube and meets none twice: every cube two moves away is reached by     *)
(* exactly one pair of such moves, or by fewer moves.                        *)
OneWayToEachCube ==
    calls = 0 /\ IsConsistent(Client) =>
        LET by(p) == Move(Move([corner |-> Client.corner, edge |-> Client.edge], p[1]), p[2])
            pairs == {p \in BasicMoves \X BasicMoves : AllowedNextMove(p[1], p[2])}
            two   == {by(p) : p \in pairs}
            less  == {[corner |-> Client.corner, edge |-> Client.edge]}
                     \cup {Move([corner |-> Client.corner, edge |-> Client.edge], m) :
                               m \in BasicMoves}
        IN  /\ Cardinality(two) = Cardinality(pairs)
            /\ two \cap less = {}
            /\ \A p \in BasicMoves \X BasicMoves : by(p) \in two \cup less
=============================================================================
