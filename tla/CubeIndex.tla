------------------------------ MODULE CubeIndex ------------------------------
(* Cubes as numbers: permutations and orientations by their index            *)
(* (src/src/utils/math.h), the cube they make (getcube), and the letters of  *)
(* the string the library's callers hold (readcube, writecube).              *)
EXTENDS Cube

(* n! for n <= 12; a larger n is not asked for.                              *)
Factorial == [n \in 0..12 |-> FoldLeft(LAMBDA p, i : p * i, 1, [i \in 1..n |-> i])]

FACT_12 == Factorial[12]
FACT_8  == Factorial[8]
POW_2_11 == 2048
POW_3_7  == 2187

(* a is a permutation of 0..n-1.  Each entry counts the later ones below it. *)
PermToIndex(n, a) ==
    MapThenSumSet(LAMBDA i : Factorial[n - i - 1] *
                             Cardinality({j \in i + 1 .. n - 1 : a[i] > a[j]}),
                  0 .. n - 1)

(* The entry of place i is the c-th number not used before it.  An index out *)
(* of range gives the error value everywhere.                                *)
UINT8_ERROR == 255

IndexToPerm(p, n) ==
    LET step(r, i) ==
            LET left == 0 .. n - 1 \ ToSet(r.perm)
                c    == r.p \div Factorial[n - i - 1]
            IN  [perm |-> Append(r.perm, CHOOSE v \in left :
                                    Cardinality({u \in left : u < v}) = c),
                 p    |-> r.p % Factorial[n - i - 1]]
        end == FoldLeft(step, [perm |-> <<>>, p |-> p], [i \in 1..n |-> i - 1])
    IN  IF p \in 0 .. Factorial[n] - 1 THEN [i \in 0 .. n - 1 |-> end.perm[i + 1]]
                                       ELSE [i \in 0 .. n - 1 |-> UINT8_ERROR]

(* The n - 1 last digits, the lowest first; the first makes their sum zero.  *)
DigitsToSumZeroFromOne(n, a, b) == MapThenSumSet(LAMBDA i : a[i] * b^i, 1 .. n - 1)
DigitsToSumZero(n, a, b) == MapThenSumSet(LAMBDA i : a[i] * b^(i - 1), 1 .. n - 1)

SumZeroToDigits(d, n, b) ==
    LET digit(i) == (d \div b^(i - 1)) % b
        sum      == MapThenSumSet(digit, 1 .. n - 1)
    IN  [i \in 0 .. n - 1 |-> IF i = 0 THEN (b - (sum % b)) % b ELSE digit(i)]

Exchanged(a) == [a EXCEPT ![0] = a[1], ![1] = a[0]]

-----------------------------------------------------------------------------
GetCubeFixRanges(a) ==
    [ep |-> a.ep % FACT_12, eo |-> a.eo % POW_2_11, cp |-> a.cp % FACT_8,
     co |-> a.co % POW_3_7, orient |-> a.orient % 24]

(* getcube_fix brings every argument into its range and gives the corners    *)
(* the parity of the edges.  The corner orientation is computed from the     *)
(* corner permutation (cube.h:157), as the code has it.                      *)
GetCubeFix(a) ==
    LET ep == a.ep % FACT_12
        cp == a.cp % FACT_8
        co == cp % POW_3_7
        c  == IndexToPerm(cp, 8)
        parity == PermSign(IndexToPerm(ep, 12)) # PermSign(c)
    IN  [ep |-> ep,
         eo |-> a.eo % POW_2_11,
         cp |-> IF parity THEN PermToIndex(8, Exchanged(c)) ELSE cp,
         co |-> IF parity THEN DigitsToSumZero(8, Exchanged(SumZeroToDigits(co, 8, 3)), 3)
                          ELSE co,
         orient |-> a.orient % 24]

(* getcube looks at the eleven (seven) lowest digits of eo (co), whatever    *)
(* the number; only a permutation out of range is an error.                  *)
GetCube(ep, eo, cp, co) ==
    LET eoarr == SumZeroToDigits(eo, 12, 2)
        earr  == IndexToPerm(ep, 12)
        coarr == SumZeroToDigits(co, 8, 3)
        carr  == IndexToPerm(cp, 8)
    IN  [corner |-> [i \in 0..7 |-> IF carr[i] = UINT8_ERROR THEN UINT8_ERROR
                                    ELSE carr[i] + 32 * coarr[i]],
         edge   |-> [i \in 0..11 |-> IF earr[i] = UINT8_ERROR THEN UINT8_ERROR
                                     ELSE earr[i] + 16 * eoarr[i]]]

-----------------------------------------------------------------------------
(* The string: one letter per place, numbered 0..31, and a letter for the    *)
(* orientation.  Any larger number stands for a character that is no letter, *)
(* and a missing separator for a first corner that is none.                  *)

CornerToB32(v) == Piece(v) + 8 * Twist(v)
B32ToCornerOneBit(x) == (x % 8) + 32 * ((x \div 8) % 2)
B32ToCorner(x) == (x % 8) + 32 * ((x \div 8) % 4)

WriteCube(oc) ==
    [corner |-> [i \in 0..7 |-> CornerToB32(oc.corner[i])],
     edge   |-> oc.edge,
     orientation |-> oc.orientation]

ZeroOriented == Oriented(Zero, 0)

ReadCube(s) ==
    IF /\ \A i \in 0..7 : s.corner[i] \in 0..31
       /\ \A i \in 0..11 : s.edge[i] \in 0..31
       /\ s.orientation \in 0..23
    THEN [corner |-> [i \in 0..7 |-> B32ToCorner(s.corner[i])],
          edge   |-> s.edge,
          orientation |-> s.orientation]
    ELSE ZeroOriented
=============================================================================
