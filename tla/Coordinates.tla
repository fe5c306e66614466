----------------------------- MODULE Coordinates -----------------------------
(* The numbers the solvers' tables are indexed by: what each coordinate      *)
(* keeps of a cube, and the cube made from a number again.                   *)
EXTENDS Cube, Combinatorics

(* binomial[n][k], zero where k > n as in the table of the source.           *)
Binomial == [n \in 0..11 |-> [k \in 0..11 |-> IF k > n THEN 0 ELSE choose(n, k)]]

CoordCo(c) == MapThenSumSet(LAMBDA i : 3^i * Twist(c.corner[i]), 0..6)

InvCoordCo(x) ==
    LET digit(i) == (x \div 3^i) % 3
        sum      == MapThenSumSet(digit, 0..6)
    IN  [Solved EXCEPT !.corner =
            [i \in 0..7 |-> i + 32 * IF i = 7 THEN (3 - (sum % 3)) % 3 ELSE digit(i)]]

(* The tetrad a corner belongs to (CSEPBIT), the last corner left out.       *)
CoordCsep(c) ==
    MapThenSumSet(LAMBDA i : 2^i * ((c.corner[i] \div 4) % 2), 0..6)

CoordCocsep(c) == CoordCo(c) * 128 + CoordCsep(c)

CoordEo(c) == MapThenSumSet(LAMBDA i : 2^(i - 1) * Flip(c.edge[i]), 1..11)

SetEo(c, eo) ==
    LET flip(i) == (eo \div 2^(i - 1)) % 2
        sum     == MapThenSumSet(flip, 1..11)
    IN  [c EXCEPT !.edge =
            [i \in 0..11 |-> Piece(c.edge[i]) + 16 * IF i = 0 THEN sum % 2 ELSE flip(i)]]

(* The slice an edge belongs to: 0, 1 (ESEPBIT_1) or 2 (ESEPBIT_2).  The     *)
(* places of slice 2, then among the rest those of slice 1, are numbered as  *)
(* subsets.                                                                  *)
Slice(v) == Piece(v) \div 4

CoordEsep(c) ==
    LET step(r, i) ==
            LET s == Slice(c.edge[i]) IN
            IF s = 2 THEN [r EXCEPT !.ret1 = @ + Binomial[11 - i][r.k], !.k = @ - 1]
            ELSE [r EXCEPT !.ret2 = @ + IF s = 1 /\ r.j < 8 THEN Binomial[7 - r.j][r.l] ELSE 0,
                           !.l = @ - s, !.j = @ + 1]
        end == FoldLeft(step, [j |-> 0, k |-> 4, l |-> 4, ret1 |-> 0, ret2 |-> 0],
                        [i \in 1..12 |-> i - 1])
    IN  end.ret1 * 70 + end.ret2

(* invcoord_esep_array: at each place the slice the two numbers call for,    *)
(* and in it the next edge not placed yet.                                   *)
InvCoordEsep(esep) ==
    LET step(r, i) ==
            LET v == Binomial[11 - i][r.k]
                w == IF r.j < 8 THEN Binomial[7 - r.j][r.l] ELSE 0
                s == IF r.set2 >= v THEN 2 ELSE IF r.set1 >= w THEN 1 ELSE 0
            IN  [set2 |-> IF s = 2 THEN r.set2 - v ELSE r.set2,
                 k    |-> IF s = 2 THEN r.k - 1 ELSE r.k,
                 set1 |-> IF s = 1 THEN r.set1 - w ELSE r.set1,
                 l    |-> IF s = 1 THEN r.l - 1 ELSE r.l,
                 j    |-> IF s = 2 THEN r.j ELSE r.j + 1,
                 slice |-> [r.slice EXCEPT ![s + 1] = @ + 1],
                 mem  |-> Append(r.mem, r.slice[s + 1] + 4 * s)]
        end == FoldLeft(step, [set1 |-> esep % 70, set2 |-> esep \div 70,
                               j |-> 0, k |-> 4, l |-> 4,
                               slice |-> <<0, 0, 0>>, mem |-> <<>>],
                        [i \in 1..12 |-> i - 1])
    IN  [Solved EXCEPT !.edge = [i \in 0..11 |-> end.mem[i + 1]]]

CopyCorners(dest, src) == [dest EXCEPT !.corner = src.corner]

-----------------------------------------------------------------------------
(* The coordinates of the EO, DR and DREO solvers.                           *)

CubeOfEo(x) == SetEo(Solved, x)

CoordDreoesep(c)    == (CoordEsep(c) \div 70) * 2048 + CoordEo(c)
InvCoordDreoesepLow(x) == SetEo(InvCoordEsep(x \div 2048), x % 2048)
InvCoordDreoesep(x) == SetEo(InvCoordEsep((x \div 2048) * 70), x % 2048)

CoordDresep(c)    == CoordEsep(c) \div 70
InvCoordDresep(x) == InvCoordEsep(x * 70)

IsEoEven(c)        == FlipSum(c) % 2 = 0
IsEocoSolvable(c)  == FlipSum(c) % 2 = 0 /\ TwistSum(c) % 3 = 0
IsDreoSolvable(c)  == CoordEo(c) = 0 /\ TwistSum(c) % 3 = 0

TransUDFix   == (0..7) \cup (24..31)
TransUDRLFix == {t \in TransUDFix : t % 2 = 0}
MovesEo      == 0..11 \cup {13, 16}

-----------------------------------------------------------------------------
(* The h48 coordinate: the class of the corners under all transformations,   *)
(* and the edges of the cube transformed to the representative of the class. *)
(* The table cocsepdata is taken at its word: it names one representative    *)
(* for each class (here the cube of the class with the least number) and a   *)
(* transformation (ttrep) into it.                                           *)

TransformEdges(c, t)   == [corner |-> Zero.corner, edge |-> Transform(c, t).edge]
TransformCorners(c, t) == [corner |-> Transform(c, t).corner, edge |-> Zero.edge]

Cocdata(c) ==
    LET least(images) == CHOOSE p \in images : \A q \in images : p[1] <= q[1]
        entry(p) == [class |-> p[1], ttrep |-> p[2], rep |-> TransformCorners(c, p[2])]
    IN  entry(least({<<CoordCocsep(TransformCorners(c, t)), t>> : t \in 0..47}))

(* The two parts of the number are kept apart.                               *)
CoordH48(c, h) ==
    LET edges(d) == CoordEsep(d) * 2048 + CoordEo(d)
        number(data) == [coclass |-> data.class,
                         edges |-> edges(TransformEdges(c, data.ttrep)) \div 2^(11 - h)]
    IN  number(Cocdata(c))

InvCoordH48Low(i, rep, h) ==
    SetEo(CopyCorners(InvCoordEsep(i.edges \div 2^h), rep), i.edges % 2^h)

InvCoordH48(i, rep, h) ==
    SetEo(CopyCorners(InvCoordEsep(i.edges \div 2^h), rep),
          (i.edges % 2^h) * 2^(11 - h))
=============================================================================
