---------------------------- MODULE CoordSolveProof ----------------------------
(***************************************************************************)
(* Proofs about GenCoord and CoordSolve, for any coordinate that meets     *)
(* their assumptions: the table gencoord fills, and what it is for, the    *)
(* search of solve_coord and the lines it writes.                          *)
(***************************************************************************)
EXTENDS CoordSolve, FiniteSetTheorems, SequenceTheorems,
        WellFoundedInduction, TLAPS

Firsts == 0 .. SymMax-1
Seconds == 0 .. Max2-1
Moves == DOMAIN moves_mask

-----------------------------------------------------------------------------
(* Numbers and sets of numbers.                                            *)

LEMMA LeastOf ==
  ASSUME NEW S, S \subseteq Nat, S # {}
  PROVE  \E m \in S : \A x \in S : m <= x
<1>1. PICK m \in S : \A x \in S : <<x, m>> \notin OpToRel(<, Nat)
  BY WFMin, NatLessThanWellFounded, Zenon
<1>2. \A x \in S : ~(x < m)
  BY <1>1, Zenon DEF OpToRel
<1> QED BY <1>2

LEMMA MinIs ==
  ASSUME NEW S, S \subseteq Nat, S # {}
  PROVE  Min(S) \in S /\ \A x \in S : Min(S) <= x
BY LeastOf DEF Min

LEMMA MaxIs ==
  ASSUME NEW n \in Nat, NEW S, S \subseteq 0 .. n, S # {}
  PROVE  Max(S) \in S
<1> DEFINE T == {k \in 0 .. n : n - k \in S}
<1>1. T \subseteq Nat /\ T # {}
  <2>1. PICK x \in S : TRUE
    OBVIOUS
  <2>2. n - x \in 0 .. n /\ n - (n - x) = x
    BY <2>1
  <2>3. n - x \in T
    BY <2>2
  <2>4. T \subseteq Nat
    OBVIOUS
  <2> QED BY <2>3, <2>4, Zenon
<1>2. PICK m \in T : \A k \in T : m <= k
  BY <1>1, LeastOf
<1>3. \A x \in S : n - x \in T
  OBVIOUS
<1>4. n - m \in S /\ \A x \in S : n - m >= x
  BY <1>2, <1>3
<1> QED BY <1>4 DEF Max

LEMMA DivMod ==
  ASSUME NEW m \in Nat \ {0}, NEW q \in Nat, NEW r \in 0 .. m-1
  PROVE  (q * m + r) \div m = q /\ (q * m + r) % m = r
BY SMTT(30)

LEMMA DivModOf ==
  ASSUME NEW m \in Nat \ {0}, NEW n \in Nat, NEW x \in 0 .. n * m - 1
  PROVE  /\ x \div m \in 0 .. n-1 /\ x % m \in 0 .. m-1
         /\ x = (x \div m) * m + (x % m)
<1> DEFINE q == x \div m
<1>1. q \in Nat /\ x % m \in 0 .. m-1 /\ x = m * q + (x % m)
  BY SMTT(30)
<1>2. m * q = q * m
  BY <1>1
<1> HIDE DEF q
<1>3. q < n
  <2> SUFFICES ASSUME n <= q PROVE FALSE
    BY <1>1
  <2>1. n * m <= q * m
    BY <1>1, SMTT(30)
  <2>2. n * m \in Nat /\ q * m \in Nat
    BY <1>1
  <2> QED BY <1>1, <1>2, <2>1, <2>2
<1> QED BY <1>1, <1>2, <1>3 DEF q

LEMMA InProduct ==
  ASSUME NEW m \in Nat \ {0}, NEW n \in Nat, NEW q \in 0 .. n-1, NEW r \in 0 .. m-1
  PROVE  q * m + r \in 0 .. n * m - 1
<1>1. (q + 1) * m <= n * m
  BY SMTT(30)
<1>2. q * m \in Nat /\ n * m \in Nat /\ (q + 1) * m = q * m + m
  OBVIOUS
<1> QED BY <1>1, <1>2

-----------------------------------------------------------------------------
(* What the assumptions say, one fact each.                                *)

LEMMA Parts ==
  ASSUME NEW c \in Cubes
  PROVE  symcoord(c) \in Firsts /\ coord2(c) \in Seconds
BY CoordinateAssumption DEF Firsts, Seconds

LEMMA Sizes == SymMax \in Nat \ {0} /\ Max2 \in Nat \ {0}
BY CoordinateAssumption

LEMMA SolvedType == SOLVED_CUBE \in Cubes /\ symcoord(SOLVED_CUBE) = 0 /\ coord2(SOLVED_CUBE) = 0
BY CoordinateAssumption DEF Goal

LEMMA SymCubes ==
  ASSUME NEW x \in Firsts
  PROVE  symcube(x) \in Cubes /\ symcoord(symcube(x)) = x
BY CoordinateAssumption DEF Firsts

LEMMA Merged ==
  ASSUME NEW x \in Firsts, NEW y \in Seconds
  PROVE  /\ merge(symcube(x), cube2(y)) \in Cubes
         /\ symcoord(merge(symcube(x), cube2(y))) = x
         /\ coord2(merge(symcube(x), cube2(y))) = y
BY CoordinateAssumption DEF Firsts, Seconds

LEMMA TransType ==
  ASSUME NEW c \in Cubes, NEW u \in trans_mask
  PROVE  transform(c, u) \in Cubes /\ inverse_trans(u) \in trans_mask
BY TransAssumption

LEMMA ZeroTrans ==
  0 \in trans_mask /\ \A c \in Cubes : transform(c, 0) = c
BY TransAssumption

LEMMA TransBack ==
  ASSUME NEW c \in Cubes, NEW u \in trans_mask
  PROVE  /\ transform(transform(c, u), inverse_trans(u)) = c
         /\ transform(transform(c, inverse_trans(u)), u) = c
<1>1. \A v \in trans_mask : transform(transform(c, v), inverse_trans(v)) = c
  BY TransAssumption, Zenon
<1>2. inverse_trans(u) \in trans_mask /\ inverse_trans(inverse_trans(u)) = u
  BY TransAssumption, Zenon
<1> QED BY <1>1, <1>2

LEMMA TransTwice ==
  ASSUME NEW c \in Cubes, NEW u \in trans_mask, NEW v \in trans_mask
  PROVE  \E w \in trans_mask : transform(transform(c, u), v) = transform(c, w)
BY TransAssumption, ZenonT(40)

(* What is done to a cube is determined on the coordinate.                 *)
LEMMA SameStanding ==
  ASSUME NEW c, NEW e, SameCoord(c, e)
  PROVE  Standing(c) = Standing(e)
BY DEF SameCoord, Standing

LEMMA SameTrans ==
  ASSUME NEW c \in Cubes, NEW e \in Cubes, SameCoord(c, e), NEW u \in trans_mask
  PROVE  SameCoord(transform(c, u), transform(e, u))
<1>1. \A b \in Cubes : SameCoord(transform(b, u), transform(Standing(b), u))
  BY TransAssumption, Zenon
<1>2. Standing(c) = Standing(e)
  BY SameStanding
<1> QED BY <1>1, <1>2 DEF SameCoord

LEMMA FirstTrans ==
  ASSUME NEW c \in Cubes, NEW e \in Cubes, symcoord(c) = symcoord(e), NEW u \in trans_mask
  PROVE  symcoord(transform(c, u)) = symcoord(transform(e, u))
<1>1. \A b \in Cubes :
         symcoord(transform(b, u)) = symcoord(transform(symcube(symcoord(b)), u))
  BY TransAssumption, Zenon
<1> QED BY <1>1

LEMMA MoveType ==
  ASSUME NEW c \in Cubes, NEW k \in Moves
  PROVE  move(c, moves_mask[k]) \in Cubes
BY MoveAssumption, Zenon DEF Moves

LEMMA SameMove ==
  ASSUME NEW c \in Cubes, NEW e \in Cubes, SameCoord(c, e), NEW k \in Moves
  PROVE  SameCoord(move(c, moves_mask[k]), move(e, moves_mask[k]))
<1>1. \A b \in Cubes : SameCoord(move(b, moves_mask[k]), move(Standing(b), moves_mask[k]))
  BY MoveAssumption, Zenon DEF Moves
<1>2. Standing(c) = Standing(e)
  BY SameStanding
<1> QED BY <1>1, <1>2 DEF SameCoord

LEMMA MoveBack ==
  ASSUME NEW c \in Cubes, NEW k \in Moves
  PROVE  \E j \in Moves : move(move(c, moves_mask[k]), moves_mask[j]) = c
BY MoveAssumption, Zenon DEF Moves

LEMMA MoveSeen ==
  ASSUME NEW c \in Cubes, NEW k \in Moves, NEW u \in trans_mask
  PROVE  \E j \in Moves :
            transform(move(c, moves_mask[k]), u) = move(transform(c, u), moves_mask[j])
BY MoveAssumption, Zenon DEF Moves

LEMMA DistanceType ==
  ASSUME NEW c \in Cubes
  PROVE  Distance[c] \in 0 .. Unset-1 /\ (Distance[c] = 0 <=> c \in Goal)
BY DistanceAssumption

LEMMA OneMove ==
  ASSUME NEW c \in Cubes, NEW k \in Moves
  PROVE  Distance[c] <= Distance[move(c, moves_mask[k])] + 1
BY DistanceAssumption DEF Moves

LEMMA GoodMove ==
  ASSUME NEW c \in Cubes, Distance[c] > 0
  PROVE  \E k \in Moves : Distance[move(c, moves_mask[k])] < Distance[c]
BY DistanceAssumption DEF Moves

-----------------------------------------------------------------------------
(* Distances do not tell apart what the coordinate does not, nor a cube    *)
(* from what a transformation makes of it: were there a counterexample, a  *)
(* good move from one of least distance would lead to one still nearer.    *)

LEMMA GoalTrans ==
  ASSUME NEW c \in Goal, NEW u \in trans_mask
  PROVE  transform(c, u) \in Goal
<1>1. c \in Cubes /\ SameCoord(c, SOLVED_CUBE)
  BY SolvedType DEF Goal, SameCoord
<1>2. SameCoord(transform(c, u), transform(SOLVED_CUBE, u))
  BY <1>1, SolvedType, SameTrans
<1>3. transform(SOLVED_CUBE, u) = SOLVED_CUBE /\ transform(c, u) \in Cubes
  BY <1>1, TransType, TransAssumption
<1> QED BY <1>2, <1>3, SolvedType DEF SameCoord, Goal

LEMMA DistanceOfSame ==
  ASSUME NEW c \in Cubes, NEW e \in Cubes, SameCoord(c, e)
  PROVE  Distance[c] = Distance[e]
<1> DEFINE Bad == {n \in Nat : \E a, b \in Cubes :
                     SameCoord(a, b) /\ Distance[a] = n /\ n < Distance[b]}
<1>1. Bad = {}
  <2> SUFFICES ASSUME Bad # {} PROVE FALSE
    OBVIOUS
  <2>1. PICK n \in Bad : \A x \in Bad : n <= x
    BY LeastOf
  <2>2. PICK a \in Cubes, b \in Cubes : SameCoord(a, b) /\ Distance[a] = n /\ n < Distance[b]
    BY <2>1
  <2>3. Distance[a] \in Nat /\ Distance[b] \in Nat
    BY DistanceType
  <2>4. Distance[a] > 0
    <3>1. a \in Goal => b \in Goal
      BY <2>2 DEF Goal, SameCoord
    <3> QED BY <3>1, <2>2, <2>3, DistanceType
  <2>5. PICK k \in Moves : Distance[move(a, moves_mask[k])] < Distance[a]
    BY <2>4, GoodMove
  <2> DEFINE a1 == move(a, moves_mask[k])  b1 == move(b, moves_mask[k])
  <2>6. a1 \in Cubes /\ b1 \in Cubes /\ SameCoord(a1, b1)
    BY <2>2, MoveType, SameMove
  <2>7. Distance[b] <= Distance[b1] + 1
    BY OneMove
  <2> HIDE DEF a1, b1
  <2>8. Distance[a1] \in Nat /\ Distance[b1] \in Nat
    BY <2>6, DistanceType
  <2>9. Distance[a1] < Distance[b1] /\ Distance[a1] < n
    BY <2>2, <2>3, <2>5, <2>7, <2>8 DEF a1
  <2>10. Distance[a1] \in Bad
    BY <2>6, <2>8, <2>9
  <2> QED BY <2>1, <2>8, <2>9, <2>10
<1>2. \A a, b \in Cubes : SameCoord(a, b) => ~(Distance[a] < Distance[b])
  BY <1>1, DistanceType
<1>3. SameCoord(e, c)
  BY DEF SameCoord
<1> HIDE DEF Bad
<1> QED BY <1>2, <1>3, DistanceType

LEMMA DistanceOfTrans ==
  ASSUME NEW c \in Cubes, NEW u \in trans_mask
  PROVE  Distance[transform(c, u)] = Distance[c]
<1> DEFINE Bad == {n \in Nat : \E a \in Cubes, v \in trans_mask :
                     Distance[a] = n /\ n < Distance[transform(a, v)]}
<1>1. Bad = {}
  <2> SUFFICES ASSUME Bad # {} PROVE FALSE
    OBVIOUS
  <2>1. PICK n \in Bad : \A x \in Bad : n <= x
    BY LeastOf
  <2>2. PICK a \in Cubes, v \in trans_mask : Distance[a] = n /\ n < Distance[transform(a, v)]
    BY <2>1
  <2>3. transform(a, v) \in Cubes
    BY TransType
  <2>4. Distance[a] \in Nat /\ Distance[transform(a, v)] \in Nat
    BY <2>3, DistanceType
  <2>5. Distance[a] > 0
    <3>1. a \in Goal => transform(a, v) \in Goal
      BY GoalTrans
    <3> QED BY <3>1, <2>2, <2>3, <2>4, DistanceType
  <2>6. PICK k \in Moves : Distance[move(a, moves_mask[k])] < Distance[a]
    BY <2>5, GoodMove
  <2> DEFINE a1 == move(a, moves_mask[k])
  <2>7. a1 \in Cubes /\ transform(a1, v) \in Cubes
    BY MoveType, TransType
  <2>8. PICK j \in Moves : transform(a1, v) = move(transform(a, v), moves_mask[j])
    BY MoveSeen
  <2>9. Distance[transform(a, v)] <= Distance[transform(a1, v)] + 1
    BY <2>3, <2>8, OneMove
  <2>10. Distance[a1] < n
    BY <2>2, <2>6
  <2> HIDE DEF a1
  <2>11. Distance[a1] \in Nat /\ Distance[transform(a1, v)] \in Nat
    BY <2>7, DistanceType
  <2>12. Distance[a1] < Distance[transform(a1, v)]
    BY <2>2, <2>4, <2>9, <2>10, <2>11
  <2>13. Distance[a1] \in Bad
    BY <2>7, <2>11, <2>12
  <2> QED BY <2>1, <2>10, <2>11, <2>13
<1>2. \A a \in Cubes, v \in trans_mask : ~(Distance[a] < Distance[transform(a, v)])
  BY <1>1, DistanceType
<1> HIDE DEF Bad
<1>3. /\ transform(c, u) \in Cubes /\ inverse_trans(u) \in trans_mask
      /\ transform(transform(c, u), inverse_trans(u)) = c
  BY TransType, TransBack
<1> QED BY <1>2, <1>3, DistanceType

-----------------------------------------------------------------------------
(* Similarity of first parts is an equivalence, each class has a least     *)
(* member, and these are numbered in order.                                *)

LEMMA SimilarIs ==
  ASSUME NEW x \in Firsts
  PROVE  /\ Similar(x) \subseteq Firsts
         /\ \A y : y \in Similar(x) <=>
              \E u \in trans_mask : symcoord(transform(symcube(x), u)) = y
<1>1. \A u \in trans_mask : symcoord(transform(symcube(x), u)) \in Firsts
  BY SymCubes, TransType, Parts
<1> QED BY <1>1 DEF Similar

LEMMA SimilarSelf ==
  ASSUME NEW x \in Firsts
  PROVE  x \in Similar(x)
<1>1. symcoord(transform(symcube(x), 0)) = x
  BY SymCubes, ZeroTrans
<1> QED BY <1>1, SimilarIs, ZeroTrans

LEMMA SeenBack ==
  ASSUME NEW x \in Firsts, NEW y \in Firsts, NEW u \in trans_mask,
         symcoord(transform(symcube(x), u)) = y
  PROVE  symcoord(transform(symcube(y), inverse_trans(u))) = x
<1> DEFINE c == symcube(x)
<1>1. c \in Cubes /\ transform(c, u) \in Cubes /\ symcoord(c) = x /\ inverse_trans(u) \in trans_mask
  BY SymCubes, TransType
<1>2. symcoord(transform(transform(c, u), inverse_trans(u))) = x
  BY <1>1, TransBack
<1>3. symcube(y) \in Cubes /\ symcoord(symcube(y)) = symcoord(transform(c, u))
  BY SymCubes
<1> HIDE DEF c
<1> QED BY <1>1, <1>2, <1>3, FirstTrans

LEMMA SeenTwice ==
  ASSUME NEW x \in Firsts, NEW y \in Firsts, NEW u \in trans_mask, NEW v \in trans_mask,
         symcoord(transform(symcube(x), u)) = y
  PROVE  \E w \in trans_mask :
            symcoord(transform(symcube(x), w)) = symcoord(transform(symcube(y), v))
<1> DEFINE c == symcube(x)
<1>1. c \in Cubes /\ transform(c, u) \in Cubes
  BY SymCubes, TransType
<1>2. symcube(y) \in Cubes /\ symcoord(symcube(y)) = symcoord(transform(c, u))
  BY SymCubes
<1> HIDE DEF c
<1>3. symcoord(transform(transform(c, u), v)) = symcoord(transform(symcube(y), v))
  BY <1>1, <1>2, FirstTrans
<1>4. PICK w \in trans_mask : transform(transform(c, u), v) = transform(c, w)
  BY <1>1, TransTwice
<1> QED BY <1>3, <1>4 DEF c

LEMMA SimilarBack ==
  ASSUME NEW x \in Firsts, NEW y \in Similar(x)
  PROVE  y \in Firsts /\ x \in Similar(y)
<1>1. y \in Firsts
  BY SimilarIs
<1>2. PICK u \in trans_mask : symcoord(transform(symcube(x), u)) = y
  BY SimilarIs
<1>3. inverse_trans(u) \in trans_mask
  BY SolvedType, TransType
<1> QED BY <1>1, <1>2, <1>3, SeenBack, SimilarIs

LEMMA SimilarTwice ==
  ASSUME NEW x \in Firsts, NEW y \in Similar(x), NEW z \in Similar(y)
  PROVE  z \in Similar(x)
<1>1. y \in Firsts
  BY SimilarIs
<1>2. PICK u \in trans_mask : symcoord(transform(symcube(x), u)) = y
  BY SimilarIs
<1>3. PICK v \in trans_mask : symcoord(transform(symcube(y), v)) = z
  BY <1>1, SimilarIs
<1> QED BY <1>1, <1>2, <1>3, SeenTwice, SimilarIs

LEMMA LeastOfClass ==
  ASSUME NEW x \in Firsts
  PROVE  \E z \in Leasts : z \in Similar(x) /\ z <= x
<1>1. Similar(x) \subseteq Nat /\ x \in Similar(x)
  BY SimilarIs, SimilarSelf, Sizes DEF Firsts
<1>2. PICK z \in Similar(x) : \A y \in Similar(x) : z <= y
  BY <1>1, LeastOf
<1>3. z \in Firsts
  BY SimilarIs
<1>4. \A y \in Similar(z) : z <= y
  BY <1>2, SimilarTwice
<1> QED BY <1>1, <1>2, <1>3, <1>4 DEF Leasts, Firsts

LEMMA LeastsApart ==
  ASSUME NEW x \in Leasts, NEW y \in Leasts, y \in Similar(x)
  PROVE  x = y
<1>1. x \in Firsts /\ y \in Firsts /\ x \in Similar(y)
  BY SimilarBack DEF Leasts, Firsts
<1>2. x <= y /\ y <= x
  BY <1>1 DEF Leasts
<1> QED BY <1>1, <1>2, Sizes DEF Firsts

(* The least members below i, and a sequence that lists them in order.     *)
LeastsBelow(n) == {y \in Leasts : y < n}
Numbers(s, n) ==
  /\ s \in Seq(Firsts)
  /\ Len(s) = Cardinality(LeastsBelow(n))
  /\ \A x : x \in LeastsBelow(n) <=> \E k \in 1 .. Len(s) : s[k] = x
  /\ \A k \in 1 .. Len(s) : Cardinality(LeastsBelow(s[k])) = k - 1

LEMMA LeastsFinite ==
  /\ Leasts \subseteq Firsts
  /\ IsFiniteSet(Leasts) /\ Cardinality(Leasts) \in Nat
  /\ \A n : IsFiniteSet(LeastsBelow(n)) /\ Cardinality(LeastsBelow(n)) \in Nat
<1>1. Leasts \subseteq Firsts /\ IsFiniteSet(Firsts)
  BY Sizes, FS_Interval DEF Leasts, Firsts
<1>2. IsFiniteSet(Leasts)
  BY <1>1, FS_Subset, Zenon
<1>3. ASSUME NEW n PROVE IsFiniteSet(LeastsBelow(n))
  <2>1. LeastsBelow(n) \subseteq Leasts
    BY DEF LeastsBelow
  <2> QED BY <1>2, <2>1, FS_Subset, Zenon
<1> QED BY <1>1, <1>2, <1>3, FS_CardinalityType, Zenon

LEMMA LeastsNat == \A y \in Leasts : y \in Nat /\ y \in Firsts
BY LeastsFinite, Sizes DEF Firsts

LEMMA MoreBelow ==
  ASSUME NEW x \in Leasts, NEW n \in Nat, x < n
  PROVE  Cardinality(LeastsBelow(x)) < Cardinality(LeastsBelow(n))
<1>1. x \in Nat /\ x \notin LeastsBelow(x)
  BY LeastsNat DEF LeastsBelow
<1>2. LeastsBelow(x) \cup {x} \subseteq LeastsBelow(n)
  <2>1. \A y \in Leasts : y < x => y < n
    BY <1>1, LeastsNat
  <2> QED BY <2>1 DEF LeastsBelow
<1>3. Cardinality(LeastsBelow(x) \cup {x}) = Cardinality(LeastsBelow(x)) + 1
  BY <1>1, LeastsFinite, FS_AddElement
<1>4. Cardinality(LeastsBelow(x) \cup {x}) <= Cardinality(LeastsBelow(n))
  BY <1>2, LeastsFinite, FS_Subset
<1> QED BY <1>3, <1>4, LeastsFinite

LEMMA SameBelow ==
  ASSUME NEW x \in Leasts, NEW y \in Leasts,
         Cardinality(LeastsBelow(x)) = Cardinality(LeastsBelow(y))
  PROVE  x = y
<1>1. x \in Nat /\ y \in Nat
  BY LeastsFinite, Sizes DEF Firsts
<1>2. ~(x < y) /\ ~(y < x)
  BY <1>1, MoreBelow, LeastsFinite
<1> QED BY <1>1, <1>2

LEMMA NumbersStart == Numbers(<<>>, 0)
<1>1. LeastsBelow(0) = {}
  BY LeastsNat DEF LeastsBelow
<1>2. Len(<<>>) = Cardinality(LeastsBelow(0))
  BY <1>1, FS_EmptySet
<1> QED BY <1>1, <1>2 DEF Numbers

LEMMA NumbersSkip ==
  ASSUME NEW n \in Firsts, n \notin Leasts, NEW s, Numbers(s, n)
  PROVE  Numbers(s, n + 1)
<1>1. n \in Nat
  BY Sizes DEF Firsts
<1>2. \A y \in Leasts : y < n + 1 <=> y < n
  BY <1>1, LeastsNat
<1>3. LeastsBelow(n + 1) = LeastsBelow(n)
  BY <1>2 DEF LeastsBelow
<1> QED BY <1>3 DEF Numbers

LEMMA NumbersAppend ==
  ASSUME NEW n \in Leasts, NEW s, Numbers(s, n)
  PROVE  Numbers(Append(s, n), n + 1)
<1>1. n \in Firsts /\ n \in Nat /\ n \notin LeastsBelow(n)
  BY LeastsFinite, Sizes DEF LeastsBelow, Firsts
<1>2. LeastsBelow(n + 1) = LeastsBelow(n) \cup {n}
  <2>1. \A y \in Leasts : y < n + 1 <=> y < n \/ y = n
    BY <1>1, LeastsNat
  <2> QED BY <2>1, <1>1 DEF LeastsBelow
<1>3. Cardinality(LeastsBelow(n + 1)) = Cardinality(LeastsBelow(n)) + 1
  BY <1>1, <1>2, LeastsFinite, FS_AddElement
<1>4. s \in Seq(Firsts) /\ Len(s) \in Nat /\ Len(s) = Cardinality(LeastsBelow(n))
  BY DEF Numbers
<1>5. /\ Append(s, n) \in Seq(Firsts) /\ Len(Append(s, n)) = Len(s) + 1
      /\ Append(s, n)[Len(s) + 1] = n
      /\ \A k \in 1 .. Len(s) : Append(s, n)[k] = s[k]
  BY <1>1, <1>4
<1> DEFINE a == Append(s, n)
<1> HIDE DEF a
<1>6. a \in Seq(Firsts) /\ Len(a) = Cardinality(LeastsBelow(n + 1))
  BY <1>3, <1>4, <1>5 DEF a
<1>7. \A k \in 1 .. Len(a) : k \in 1 .. Len(s) \/ k = Len(s) + 1
  BY <1>4, <1>5 DEF a
<1>8. /\ \A k \in 1 .. Len(s) : k \in 1 .. Len(a) /\ a[k] = s[k]
      /\ Len(s) + 1 \in 1 .. Len(a) /\ a[Len(s) + 1] = n
  BY <1>4, <1>5 DEF a
<1>9. \A x : x \in LeastsBelow(n + 1) <=> \E k \in 1 .. Len(a) : a[k] = x
  <2>1. \A x : x \in LeastsBelow(n) <=> \E k \in 1 .. Len(s) : s[k] = x
    BY DEF Numbers
  <2> QED BY <1>2, <1>7, <1>8, <2>1
<1>10. \A k \in 1 .. Len(a) : Cardinality(LeastsBelow(a[k])) = k - 1
  <2>1. \A k \in 1 .. Len(s) : Cardinality(LeastsBelow(s[k])) = k - 1
    BY DEF Numbers
  <2> QED BY <1>4, <1>7, <1>8, <2>1
<1> QED BY <1>6, <1>9, <1>10 DEF Numbers, a

LEMMA NumbersExist ==
  ASSUME NEW n \in 0 .. SymMax
  PROVE  \E s : Numbers(s, n)
<1> DEFINE Bad == {k \in 0 .. SymMax : ~\E s : Numbers(s, k)}
<1> SUFFICES ASSUME Bad # {} PROVE FALSE
  OBVIOUS
<1>1. Bad \subseteq Nat
  OBVIOUS
<1>2. PICK m \in Bad : \A k \in Bad : m <= k
  BY <1>1, LeastOf
<1>3. m # 0
  BY <1>2, NumbersStart
<1>4. m - 1 \in Firsts /\ m - 1 \notin Bad /\ m - 1 \in 0 .. SymMax /\ (m - 1) + 1 = m
  BY <1>2, <1>3, Sizes DEF Firsts
<1>5. PICK s : Numbers(s, m - 1)
  BY <1>4
<1>6. \E r : Numbers(r, m)
  BY <1>4, <1>5, NumbersSkip, NumbersAppend
<1> QED BY <1>2, <1>6

(* Below SymMax are all of them: the sequence is the one of the reference. *)
LEMMA NumbersAll ==
  ASSUME NEW s, Numbers(s, SymMax)
  PROVE  s = Least
<1>1. LeastsBelow(SymMax) = Leasts
  <2>1. \A y \in Leasts : y < SymMax
    BY LeastsNat, Sizes DEF Firsts
  <2> QED BY <2>1 DEF LeastsBelow
<1>2. s \in Seq(Firsts) /\ Len(s) = Cardinality(Leasts)
  BY <1>1 DEF Numbers
<1>3. ASSUME NEW k \in 1 .. Len(s) PROVE s[k] = Least[k]
  <2>1. s[k] \in Leasts /\ Cardinality(LeastsBelow(s[k])) = k - 1
    BY <1>1 DEF Numbers
  <2> DEFINE P(x) == Cardinality({y \in Leasts : y < x}) = k - 1
  <2>2. \A x : P(x) <=> Cardinality(LeastsBelow(x)) = k - 1
    BY DEF LeastsBelow
  <2>3. Least[k] = CHOOSE x \in Leasts : P(x)
    BY <1>2 DEF Least
  <2> HIDE DEF P
  <2>4. Least[k] \in Leasts /\ P(Least[k])
    BY <2>1, <2>2, <2>3
  <2> QED BY <2>1, <2>2, <2>4, SameBelow
<1>4. Least = [k \in 1 .. Cardinality(Leasts) |-> Least[k]]
  BY SMTT(30) DEF Least
<1>5. s = [k \in 1 .. Len(s) |-> s[k]]
  BY <1>2
<1> QED BY <1>2, <1>3, <1>4, <1>5

LEMMA LeastNumbers ==
  /\ Numbers(Least, SymMax)
  /\ Least \in Seq(Firsts) /\ Len(Least) = Cardinality(Leasts) /\ Len(Least) \in Nat
  /\ \A x : x \in Leasts <=> \E k \in 1 .. Len(Least) : Least[k] = x
  /\ \A j, k \in 1 .. Len(Least) : Least[j] = Least[k] => j = k
<1>1. Numbers(Least, SymMax)
  <2>1. SymMax \in 0 .. SymMax
    BY Sizes
  <2> QED BY <2>1, NumbersExist, NumbersAll
<1>2. LeastsBelow(SymMax) = Leasts
  <2>1. \A y \in Leasts : y < SymMax
    BY LeastsNat, Sizes DEF Firsts
  <2> QED BY <2>1 DEF LeastsBelow
<1>3. \A k \in 1 .. Len(Least) : Cardinality(LeastsBelow(Least[k])) = k - 1
  BY <1>1 DEF Numbers
<1>4. Least \in Seq(Firsts) /\ Len(Least) \in Nat
  BY <1>1 DEF Numbers
<1> QED BY <1>1, <1>2, <1>3, <1>4 DEF Numbers

LEMMA LeastOne == 0 \in Leasts /\ Len(Least) >= 1 /\ Least[1] = 0
<1>1. 0 \in Firsts
  BY Sizes DEF Firsts
<1>2. PICK z \in Leasts : z \in Similar(0) /\ z <= 0
  BY <1>1, LeastOfClass
<1>3. 0 \in Leasts
  BY <1>2, LeastsNat
<1>4. PICK k \in 1 .. Len(Least) : Least[k] = 0
  BY <1>3, LeastNumbers
<1>5. Cardinality(LeastsBelow(0)) = 0
  <2>1. LeastsBelow(0) = {}
    BY LeastsNat DEF LeastsBelow
  <2> QED BY <2>1, FS_EmptySet
<1>6. Cardinality(LeastsBelow(Least[k])) = k - 1
  BY LeastNumbers DEF Numbers
<1>7. k = 1
  BY <1>4, <1>5, <1>6
<1> QED BY <1>3, <1>4, <1>7, LeastNumbers

(* What the coordinate with number x stands for.                           *)
Stands(x) == merge(symcube(Least[(x \div Max2) + 1]), cube2(x % Max2))

LEMMA StandsIs ==
  ASSUME NEW x \in Coords
  PROVE  /\ x \div Max2 \in Nat /\ (x \div Max2) + 1 \in 1 .. Len(Least)
         /\ Least[(x \div Max2) + 1] \in Leasts /\ x % Max2 \in Seconds
         /\ x = (x \div Max2) * Max2 + (x % Max2)
         /\ Stands(x) \in Cubes
         /\ symcoord(Stands(x)) = Least[(x \div Max2) + 1] /\ coord2(Stands(x)) = x % Max2
         /\ CoordDistance(x) = Distance[Stands(x)]
<1> DEFINE n == Cardinality(Leasts)
<1>1. n \in Nat /\ n = Len(Least) /\ x \in 0 .. n * Max2 - 1
  BY LeastNumbers DEF Coords
<1> HIDE DEF n
<1>2. x \div Max2 \in 0 .. n-1 /\ x % Max2 \in 0 .. Max2-1 /\ x = (x \div Max2) * Max2 + (x % Max2)
  BY <1>1, DivModOf, Sizes
<1>3. x \div Max2 \in Nat /\ (x \div Max2) + 1 \in 1 .. Len(Least) /\ x % Max2 \in Seconds
  BY <1>1, <1>2 DEF Seconds
<1>4. Least[(x \div Max2) + 1] \in Leasts
  BY <1>3, LeastNumbers
<1>5. Least[(x \div Max2) + 1] \in Firsts
  BY <1>4, LeastsNat
<1>6. /\ Stands(x) \in Cubes
      /\ symcoord(Stands(x)) = Least[(x \div Max2) + 1] /\ coord2(Stands(x)) = x % Max2
  BY <1>3, <1>5, Merged DEF Stands
<1> QED BY <1>2, <1>3, <1>4, <1>6 DEF Stands, CoordDistance

LEMMA CoordIn ==
  ASSUME NEW k \in 1 .. Len(Least), NEW y \in Seconds
  PROVE  /\ (k-1) * Max2 + y \in Coords
         /\ symcoord(Stands((k-1) * Max2 + y)) = Least[k]
         /\ coord2(Stands((k-1) * Max2 + y)) = y
<1> DEFINE x == (k-1) * Max2 + y
<1>1. k - 1 \in 0 .. Len(Least) - 1 /\ k - 1 \in Nat /\ y \in 0 .. Max2-1 /\ (k - 1) + 1 = k
  BY LeastNumbers DEF Seconds
<1>2. x \in Coords
  BY <1>1, InProduct, LeastNumbers, Sizes DEF Coords
<1>3. x \div Max2 = k - 1 /\ x % Max2 = y
  BY <1>1, DivMod, Sizes
<1> HIDE DEF x
<1>4. symcoord(Stands(x)) = Least[k] /\ coord2(Stands(x)) = y
  BY <1>1, <1>2, <1>3, StandsIs
<1> QED BY <1>2, <1>4 DEF x

LEMMA CoordsNat ==
  /\ Coords \subseteq Nat /\ 0 \in Coords
  /\ IsFiniteSet(Coords) /\ Cardinality(Coords) = Len(Least) * Max2
  /\ Len(Least) * Max2 \in Nat /\ Coords = 0 .. Len(Least) * Max2 - 1
<1>1. Len(Least) \in Nat /\ Len(Least) >= 1
  BY LeastNumbers, LeastOne
<1>2. Len(Least) * Max2 \in Nat /\ Len(Least) * Max2 >= 1
  BY <1>1, Sizes, InProduct
<1>3. Coords = 0 .. Len(Least) * Max2 - 1
  BY LeastNumbers DEF Coords
<1> DEFINE n == Len(Least) * Max2
<1>4. n \in Nat /\ n - 1 \in Int /\ n >= 1 /\ 0 \in Int
  BY <1>2
<1> HIDE DEF n
<1>5. IsFiniteSet(0 .. n - 1) /\ Cardinality(0 .. n - 1) = n
  BY <1>4, FS_Interval
<1> QED BY <1>2, <1>3, <1>5 DEF n

LEMMA DistanceOfCoord ==
  ASSUME NEW x \in Coords
  PROVE  CoordDistance(x) \in 0 .. Unset-1 /\ (CoordDistance(x) = 0 <=> x = 0)
<1>1. CoordDistance(x) = Distance[Stands(x)] /\ Stands(x) \in Cubes
  BY StandsIs
<1>2. CoordDistance(x) \in 0 .. Unset-1
  BY <1>1, DistanceType
<1>3. CoordDistance(x) = 0 <=> Least[(x \div Max2) + 1] = 0 /\ x % Max2 = 0
  BY <1>1, DistanceType, StandsIs DEF Goal
<1> DEFINE k == (x \div Max2) + 1
<1>4. Least[k] = 0 <=> k = 1
  BY StandsIs, LeastOne, LeastNumbers
<1>5. x \div Max2 \in Nat /\ x = (x \div Max2) * Max2 + (x % Max2)
  BY StandsIs
<1>6. x = 0 => x \div Max2 = 0 /\ x % Max2 = 0
  <2>1. 0 * Max2 + 0 = 0 /\ 0 \in 0 .. Max2 - 1
    BY Sizes
  <2>2. (0 * Max2 + 0) \div Max2 = 0 /\ (0 * Max2 + 0) % Max2 = 0
    BY <2>1, DivMod, Sizes
  <2> QED BY <2>1, <2>2
<1>7. x \div Max2 = 0 /\ x % Max2 = 0 => x = 0
  BY <1>5, Sizes
<1> QED BY <1>2, <1>3, <1>4, <1>5, <1>6, <1>7

-----------------------------------------------------------------------------
(* The table of classes: for the first parts similar to a representative   *)
(* found so far, the number of its class, a transformation that leads to   *)
(* the representative, and whether others than the trivial one keep it.    *)
Classed(y) == \E k \in 1 .. Len(rep) : y \in Similar(rep[k])
EntryRight(y) ==
  /\ classttrep[y].class \in Nat /\ classttrep[y].class + 1 \in 1 .. Len(rep)
  /\ classttrep[y].ttrep \in trans_mask
  /\ symcoord(transform(symcube(y), classttrep[y].ttrep)) = rep[classttrep[y].class + 1]
  /\ ~classttrep[y].isnasty =>
       TransTo(rep[classttrep[y].class + 1], rep[classttrep[y].class + 1]) = {0}
ClassTable(n) ==
  /\ DOMAIN classttrep = Firsts
  /\ Numbers(rep, n)
  /\ \A y \in Firsts : Classed(y) => EntryRight(y)
  /\ \A y \in Firsts : ~Classed(y) => classttrep[y] = None

LEMMA RightIsSet ==
  ASSUME NEW y, EntryRight(y)
  PROVE  classttrep[y] # None
BY DEF EntryRight, None

LEMMA ClassedBefore ==
  ASSUME NEW n \in Firsts, ClassTable(n)
  PROVE  classttrep[n] # None <=> n \notin Leasts
<1>0. /\ Numbers(rep, n)
      /\ \A y \in Firsts : Classed(y) => EntryRight(y)
      /\ \A y \in Firsts : ~Classed(y) => classttrep[y] = None
  BY DEF ClassTable
<1>1. ASSUME classttrep[n] # None PROVE n \notin Leasts
  <2>1. PICK k \in 1 .. Len(rep) : n \in Similar(rep[k])
    BY <1>0, <1>1 DEF Classed
  <2>2. rep[k] \in LeastsBelow(n)
    BY <1>0 DEF Numbers
  <2>3. rep[k] \in Leasts /\ rep[k] < n
    BY <2>2 DEF LeastsBelow
  <2>4. rep[k] \in Firsts /\ rep[k] \in Nat /\ n \in Nat
    BY <2>3, LeastsNat, Sizes DEF Firsts
  <2>5. rep[k] # n
    BY <2>3, <2>4
  <2> QED BY <2>1, <2>3, <2>4, <2>5, LeastsApart
<1>2. ASSUME classttrep[n] = None PROVE n \in Leasts
  <2>1. ~Classed(n)
    BY <1>0, <1>2, RightIsSet
  <2>2. PICK z \in Leasts : z \in Similar(n) /\ z <= n
    BY LeastOfClass
  <2>3. z \in Nat /\ n \in Nat /\ n \in Similar(z)
    BY <2>2, LeastsNat, SimilarBack, Sizes DEF Firsts
  <2>4. ~(z < n)
    <3> SUFFICES ASSUME z < n PROVE FALSE
      OBVIOUS
    <3>1. z \in LeastsBelow(n)
      BY DEF LeastsBelow
    <3>2. PICK k \in 1 .. Len(rep) : rep[k] = z
      BY <1>0, <3>1 DEF Numbers
    <3> QED BY <2>1, <2>3, <3>2 DEF Classed
  <2>5. z = n
    BY <2>2, <2>3, <2>4
  <2> QED BY <2>2, <2>5
<1> QED BY <1>1, <1>2

LEMMA TransToIs ==
  ASSUME NEW x \in Firsts, NEW y \in Similar(x)
  PROVE  /\ Max(TransTo(x, y)) \in trans_mask
         /\ symcoord(transform(symcube(x), Max(TransTo(x, y)))) = y
<1>1. TransTo(x, y) # {}
  BY SimilarIs DEF TransTo
<1>2. TransTo(x, y) \subseteq 0 .. 47 /\ 47 \in Nat
  <2>1. trans_mask \subseteq 0 .. 47
    BY TransAssumption DEF NTRANS
  <2> QED BY <2>1 DEF TransTo
<1>3. Max(TransTo(x, y)) \in TransTo(x, y)
  BY <1>1, <1>2, MaxIs
<1> QED BY <1>3 DEF TransTo

LEMMA ClassStep ==
  ASSUME i \in Nat, ClassTable(i), GenClass
  PROVE  ClassTable(i)'
<1>0. /\ DOMAIN classttrep = Firsts /\ Numbers(rep, i) /\ i \in Firsts /\ i' = i + 1
      /\ \A y \in Firsts : Classed(y) => EntryRight(y)
      /\ \A y \in Firsts : ~Classed(y) => classttrep[y] = None
  BY Sizes DEF ClassTable, GenClass, Firsts
<1>1. PICK n \in Firsts : n = i
  BY <1>0
<1>2. CASE classttrep[i] # None
  <2>1. n \notin Leasts
    BY <1>1, <1>2, ClassedBefore
  <2>2. Numbers(rep, n + 1)
    BY <1>0, <1>1, <2>1, NumbersSkip
  <2>3. rep' = rep /\ classttrep' = classttrep
    BY <1>2 DEF GenClass, data
  <2>4. \A y : (Classed(y)' <=> Classed(y)) /\ (EntryRight(y)' <=> EntryRight(y))
    BY <2>3 DEF Classed, EntryRight
  <2>5. Numbers(rep', n + 1)
    BY <2>2, <2>3
  <2>6. i' = n + 1 /\ DOMAIN classttrep' = Firsts
    BY <1>0, <1>1, <2>3
  <2> QED BY <1>0, <2>3, <2>4, <2>5, <2>6 DEF ClassTable
<1>3. CASE classttrep[i] = None
  <2>1. n \in Leasts
    BY <1>1, <1>3, ClassedBefore
  <2>2. Numbers(Append(rep, n), n + 1)
    BY <1>0, <1>1, <2>1, NumbersAppend
  <2> DEFINE entry(y) == [class |-> Len(rep), isnasty |-> TransTo(n, n) # {0},
                          ttrep |-> inverse_trans(Max(TransTo(n, y)))]
  <2>3. /\ rep' = Append(rep, n)
        /\ classttrep' = [y \in Firsts |-> IF y \notin Similar(n) THEN classttrep[y] ELSE entry(y)]
    BY <1>1, <1>3 DEF GenClass, Firsts
  <2>4. rep \in Seq(Firsts) /\ Len(rep) \in Nat
    BY <1>0 DEF Numbers
  <2>5. /\ Len(rep') = Len(rep) + 1 /\ rep'[Len(rep) + 1] = n
        /\ \A k \in 1 .. Len(rep) : rep'[k] = rep[k]
    BY <2>3, <2>4
  <2>6. \A k \in 1 .. Len(rep') : k \in 1 .. Len(rep) \/ k = Len(rep) + 1
    BY <2>4, <2>5
  <2>7. \A k \in 1 .. Len(rep) : k \in 1 .. Len(rep')
    BY <2>4, <2>5
  <2>8. Len(rep) + 1 \in 1 .. Len(rep')
    BY <2>4, <2>5
  <2>9. \A y \in Firsts : Classed(y)' <=> Classed(y) \/ y \in Similar(n)
    BY <2>5, <2>6, <2>7, <2>8 DEF Classed
  <2>10. ASSUME NEW y \in Firsts, y \in Similar(n) PROVE EntryRight(y)'
    <3>1. classttrep'[y] = entry(y)
      BY <2>3, <2>10
    <3> DEFINE u == Max(TransTo(n, y))
    <3>2. u \in trans_mask /\ symcoord(transform(symcube(n), u)) = y
      BY <2>10, TransToIs
    <3>3. inverse_trans(u) \in trans_mask
      BY <3>2, SolvedType, TransType
    <3> HIDE DEF u
    <3>4. symcoord(transform(symcube(y), inverse_trans(u))) = n
      BY <3>2, SeenBack
    <3>5. /\ classttrep'[y].class = Len(rep) /\ classttrep'[y].ttrep = inverse_trans(u)
          /\ classttrep'[y].isnasty = (TransTo(n, n) # {0})
      BY <3>1 DEF u
    <3> QED BY <2>4, <2>5, <2>8, <3>3, <3>4, <3>5 DEF EntryRight
  <2>11. ASSUME NEW y \in Firsts, y \notin Similar(n), Classed(y) PROVE EntryRight(y)'
    <3>1. classttrep'[y] = classttrep[y] /\ EntryRight(y)
      BY <1>0, <2>3, <2>11
    <3>2. rep'[classttrep[y].class + 1] = rep[classttrep[y].class + 1]
      BY <2>5, <3>1 DEF EntryRight
    <3>3. classttrep[y].class + 1 \in 1 .. Len(rep')
      BY <2>7, <3>1 DEF EntryRight
    <3> QED BY <3>1, <3>2, <3>3 DEF EntryRight
  <2>12. \A y \in Firsts : ~Classed(y)' => classttrep'[y] = None
    BY <1>0, <2>3, <2>9
  <2>13. \A y \in Firsts : Classed(y)' => EntryRight(y)'
    BY <2>9, <2>10, <2>11
  <2>14. DOMAIN classttrep' = Firsts
    BY <2>3
  <2>15. Numbers(rep', n + 1)
    BY <2>2, <2>3
  <2>16. i' = n + 1
    BY <1>0, <1>1
  <2> QED BY <2>12, <2>13, <2>14, <2>15, <2>16 DEF ClassTable
<1> QED BY <1>2, <1>3

(* The finished table: the classes are numbered by their least members,    *)
(* and every first part has an entry.                                      *)
ClassesMade ==
  /\ rep = Least /\ DOMAIN classttrep = Firsts
  /\ \A y \in Firsts : EntryRight(y)

LEMMA ClassesDone ==
  ASSUME ClassTable(SymMax)
  PROVE  ClassesMade
<1>1. rep = Least /\ DOMAIN classttrep = Firsts
  BY NumbersAll DEF ClassTable
<1>2. ASSUME NEW y \in Firsts PROVE Classed(y)
  <2>1. PICK z \in Leasts : z \in Similar(y)
    BY LeastOfClass
  <2>2. y \in Similar(z)
    BY <2>1, SimilarBack
  <2>3. PICK k \in 1 .. Len(Least) : Least[k] = z
    BY LeastNumbers
  <2> QED BY <1>1, <2>2, <2>3 DEF Classed
<1> QED BY <1>1, <1>2 DEF ClassTable, ClassesMade

-----------------------------------------------------------------------------
(* Coordinates, once the classes are made: that of a cube has its distance,*)
(* the cubes that transformations make of one have all the coordinates     *)
(* that stand for it, and only one if the class is not symmetric.          *)

LEMMA CubeIs ==
  ASSUME ClassesMade, NEW x
  PROVE  cube(x) = Stands(x)
BY DEF ClassesMade, cube, Stands

LEMMA MaxIsAll ==
  ASSUME ClassesMade
  PROVE  CoordMax = Len(Least) * Max2 /\ CoordMax \in Nat /\ Coords = 0 .. CoordMax - 1
BY CoordsNat DEF ClassesMade, CoordMax

(* The transformation that coord reads the second part through.            *)
Through(c) == classttrep[symcoord(c)].ttrep

LEMMA CoordIs ==
  ASSUME ClassesMade, NEW c \in Cubes
  PROVE  /\ Through(c) \in trans_mask
         /\ coord(c) \in Coords
         /\ SameCoord(Stands(coord(c)), transform(c, Through(c)))
<1> DEFINE e == classttrep[symcoord(c)]  k == e.class + 1  tr == transform(c, e.ttrep)
<1>1. symcoord(c) \in Firsts /\ EntryRight(symcoord(c)) /\ rep = Least
  BY Parts DEF ClassesMade
<1>2. /\ e.class \in Nat /\ k \in 1 .. Len(Least) /\ e.ttrep \in trans_mask
      /\ symcoord(transform(symcube(symcoord(c)), e.ttrep)) = Least[k]
  BY <1>1 DEF EntryRight
<1>3. symcube(symcoord(c)) \in Cubes /\ symcoord(symcube(symcoord(c))) = symcoord(c)
  BY <1>1, SymCubes
<1>4. symcoord(tr) = Least[k]
  BY <1>2, <1>3, FirstTrans
<1>5. tr \in Cubes /\ coord2(tr) \in Seconds
  BY <1>2, TransType, Parts
<1>6. coord(c) = (k - 1) * Max2 + coord2(tr)
  <2>1. k - 1 = e.class
    BY <1>2
  <2> QED BY <2>1 DEF coord
<1> HIDE DEF k, tr
<1>7. coord(c) \in Coords /\ symcoord(Stands(coord(c))) = Least[k] /\ coord2(Stands(coord(c))) = coord2(tr)
  BY <1>2, <1>5, <1>6, CoordIn
<1> QED BY <1>2, <1>4, <1>7 DEF SameCoord, Through, tr

LEMMA DistanceInCoord ==
  ASSUME ClassesMade, NEW c \in Cubes
  PROVE  CoordDistance(coord(c)) = Distance[c]
<1>1. /\ coord(c) \in Coords /\ Through(c) \in trans_mask
      /\ SameCoord(Stands(coord(c)), transform(c, Through(c)))
  BY CoordIs
<1>2. Stands(coord(c)) \in Cubes /\ transform(c, Through(c)) \in Cubes
  BY <1>1, StandsIs, TransType
<1>3. Distance[Stands(coord(c))] = Distance[transform(c, Through(c))]
  BY <1>1, <1>2, DistanceOfSame
<1>4. Distance[transform(c, Through(c))] = Distance[c]
  BY <1>1, DistanceOfTrans
<1>5. CoordDistance(coord(c)) = Distance[Stands(coord(c))]
  BY <1>1, StandsIs
<1> QED BY <1>3, <1>4, <1>5

LEMMA CoordOfSame ==
  ASSUME ClassesMade, NEW c \in Cubes, NEW e \in Cubes, SameCoord(c, e)
  PROVE  coord(c) = coord(e)
<1>1. Through(c) = Through(e) /\ Through(c) \in trans_mask
  BY CoordIs DEF SameCoord, Through
<1>2. SameCoord(transform(c, Through(c)), transform(e, Through(c)))
  BY <1>1, SameTrans
<1>3. symcoord(c) = symcoord(e)
  BY DEF SameCoord
<1> QED BY <1>1, <1>2, <1>3 DEF SameCoord, coord, Through

(* A coordinate is one of those of the cube that stands for it.            *)
LEMMA OfStanding ==
  ASSUME ClassesMade, NEW x \in Coords
  PROVE  \E u \in trans_mask : coord(transform(Stands(x), u)) = x
<1> DEFINE k == (x \div Max2) + 1  r == Least[k]  v == classttrep[r].ttrep  c == Stands(x)
<1>1. /\ k \in 1 .. Len(Least) /\ r \in Leasts /\ x % Max2 \in Seconds
      /\ x = (x \div Max2) * Max2 + (x % Max2) /\ x \div Max2 \in Nat
      /\ c \in Cubes /\ symcoord(c) = r /\ coord2(c) = x % Max2
  BY StandsIs
<1>2. k - 1 = x \div Max2
  BY <1>1
<1>3. r \in Firsts /\ EntryRight(r) /\ rep = Least
  BY <1>1, LeastsNat DEF ClassesMade
<1> HIDE DEF k, c
<1>4. /\ v \in trans_mask /\ classttrep[r].class \in Nat
      /\ classttrep[r].class + 1 \in 1 .. Len(Least)
      /\ symcoord(transform(symcube(r), v)) = Least[classttrep[r].class + 1]
  BY <1>3 DEF EntryRight
<1>5. classttrep[r].class + 1 = k
  <2> DEFINE j == classttrep[r].class + 1
  <2>1. Least[j] \in Similar(r)
    BY <1>3, <1>4, SimilarIs
  <2>2. Least[j] \in Leasts
    BY <1>4, LeastNumbers
  <2>3. Least[j] = r
    BY <1>1, <2>1, <2>2, LeastsApart
  <2> QED BY <1>1, <1>4, <2>3, LeastNumbers
<1>6. symcoord(transform(symcube(r), v)) = r
  BY <1>4, <1>5
<1> DEFINE u == inverse_trans(v)  c1 == transform(c, u)
<1>7. u \in trans_mask /\ c1 \in Cubes /\ transform(c1, v) = c
  BY <1>1, <1>4, TransType, TransBack
<1>8. symcoord(transform(symcube(r), u)) = r
  BY <1>3, <1>4, <1>6, SeenBack
<1>9. symcoord(c1) = r
  BY <1>1, <1>3, <1>7, <1>8, FirstTrans, SymCubes
<1> HIDE DEF c1, u
<1>10. classttrep[r].class = k - 1
  BY <1>4, <1>5
<1>11. coord(c1) = (k - 1) * Max2 + coord2(c)
  BY <1>7, <1>9, <1>10 DEF coord
<1>12. coord(c1) = x
  BY <1>1, <1>2, <1>11
<1> QED BY <1>7, <1>12 DEF c1, c

(* So it is one of those of every cube that a transformation leads there.  *)
LEMMA OfTransformed ==
  ASSUME ClassesMade, NEW x \in Coords, NEW c \in Cubes, NEW u \in trans_mask,
         SameCoord(transform(c, u), Stands(x))
  PROVE  \E v \in trans_mask : coord(transform(c, v)) = x
<1>1. PICK w \in trans_mask : coord(transform(Stands(x), w)) = x
  BY OfStanding
<1>2. transform(c, u) \in Cubes /\ Stands(x) \in Cubes
  BY TransType, StandsIs
<1>3. PICK v \in trans_mask : transform(transform(c, u), w) = transform(c, v)
  BY TransTwice
<1>4. SameCoord(transform(transform(c, u), w), transform(Stands(x), w))
  BY <1>2, SameTrans
<1>5. transform(transform(c, u), w) \in Cubes /\ transform(Stands(x), w) \in Cubes
  BY <1>2, TransType
<1>6. coord(transform(transform(c, u), w)) = coord(transform(Stands(x), w))
  BY <1>4, <1>5, CoordOfSame
<1> QED BY <1>1, <1>3, <1>6

LEMMA NotNasty ==
  ASSUME ClassesMade, NEW c \in Cubes, ~isnasty(coord(c)), NEW u \in trans_mask
  PROVE  coord(transform(c, u)) = coord(c)
<1> DEFINE x == coord(c)  r == Least[(x \div Max2) + 1]
           v == Through(c)  c1 == transform(c, u)  w == Through(c1)
<1>1. /\ x \in Coords /\ v \in trans_mask /\ c1 \in Cubes /\ w \in trans_mask
      /\ SameCoord(Stands(x), transform(c, v))
  BY CoordIs, TransType
<1>2. r \in Leasts /\ symcoord(Stands(x)) = r
  BY <1>1, StandsIs
<1>3. r \in Firsts /\ EntryRight(r) /\ rep = Least
  BY <1>2, LeastsNat DEF ClassesMade
<1>4. ~classttrep[r].isnasty
  BY <1>3 DEF isnasty
<1>5. Least[classttrep[r].class + 1] = r
  <2> DEFINE j == classttrep[r].class + 1
  <2>1. /\ classttrep[r].ttrep \in trans_mask /\ j \in 1 .. Len(Least)
        /\ symcoord(transform(symcube(r), classttrep[r].ttrep)) = Least[j]
    BY <1>3 DEF EntryRight
  <2>2. Least[j] \in Similar(r) /\ Least[j] \in Leasts
    BY <1>3, <2>1, SimilarIs, LeastNumbers
  <2> QED BY <1>2, <2>2, LeastsApart
<1>6. TransTo(r, r) = {0}
  BY <1>3, <1>4, <1>5 DEF EntryRight
<1> DEFINE a == transform(c, v)  b == transform(c1, w)
<1>7. a \in Cubes /\ b \in Cubes /\ symcoord(a) = r
  BY <1>1, <1>2, TransType DEF SameCoord
(* Back from a to c, on to c1 and to b is one transformation.              *)
<1>8. PICK p \in trans_mask : b = transform(a, p)
  <2>1. transform(a, inverse_trans(v)) = c /\ inverse_trans(v) \in trans_mask
    BY <1>1, TransBack, TransType
  <2>2. PICK q \in trans_mask : transform(transform(a, inverse_trans(v)), u) = transform(a, q)
    BY <1>7, <2>1, TransTwice
  <2>3. PICK p \in trans_mask : transform(transform(a, q), w) = transform(a, p)
    BY <1>1, <1>7, TransTwice
  <2> QED BY <2>1, <2>2, <2>3
<1>9. x \div Max2 \in Nat /\ symcoord(b) \in Leasts
  <2>1. coord(c1) \in Coords /\ SameCoord(Stands(coord(c1)), b)
    BY <1>1, CoordIs
  <2> QED BY <1>1, <2>1, StandsIs DEF SameCoord
<1> HIDE DEF a, b, r
<1>10. symcoord(transform(symcube(r), p)) = symcoord(b)
  BY <1>3, <1>7, <1>8, FirstTrans, SymCubes
<1>11. symcoord(b) = r
  BY <1>2, <1>3, <1>9, <1>10, SimilarIs, LeastsApart
<1>12. p \in TransTo(r, r)
  BY <1>10, <1>11 DEF TransTo
<1>13. p = 0
  BY <1>6, <1>12
<1>14. b = a
  BY <1>7, <1>8, <1>13, ZeroTrans
<1>15. /\ coord(c) \in Coords /\ SameCoord(Stands(coord(c)), a)
       /\ coord(c1) \in Coords /\ SameCoord(Stands(coord(c1)), b)
  BY <1>1, CoordIs DEF a, b
<1>16. SameCoord(Stands(coord(c)), Stands(coord(c1)))
  BY <1>14, <1>15 DEF SameCoord
<1> HIDE DEF x, c1
<1>17. \A y, z \in Coords : SameCoord(Stands(y), Stands(z)) => y = z
  <2> SUFFICES ASSUME NEW y \in Coords, NEW z \in Coords, SameCoord(Stands(y), Stands(z))
               PROVE  y = z
    OBVIOUS
  <2>1. /\ Least[(y \div Max2) + 1] = Least[(z \div Max2) + 1] /\ y % Max2 = z % Max2
    BY StandsIs DEF SameCoord
  <2>2. /\ y \div Max2 \in Nat /\ z \div Max2 \in Nat
        /\ (y \div Max2) + 1 \in 1 .. Len(Least) /\ (z \div Max2) + 1 \in 1 .. Len(Least)
        /\ y = (y \div Max2) * Max2 + (y % Max2) /\ z = (z \div Max2) * Max2 + (z % Max2)
    BY StandsIs
  <2>3. (y \div Max2) + 1 = (z \div Max2) + 1
    BY <2>1, <2>2, LeastNumbers
  <2>4. y \div Max2 = z \div Max2
    BY <2>2, <2>3
  <2> QED BY <2>1, <2>2, <2>4
<1>18. coord(c) = coord(c1)
  BY <1>15, <1>16, <1>17
<1> QED BY <1>18 DEF c1

-----------------------------------------------------------------------------
(* The two ways of looking for the entries of a depth.                     *)

LEMMA MovesAre == Moves = 1 .. Len(moves_mask)
BY MoveAssumption DEF Moves

LEMMA NeighbourIs ==
  ASSUME ClassesMade, NEW x, NEW y
  PROVE  y \in Neighbours(x) <=>
           \E k \in Moves :
              \E u \in IF isnasty(coord(move(Stands(x), moves_mask[k]))) THEN trans_mask ELSE {0} :
                 y = coord(transform(move(Stands(x), moves_mask[k]), u))
<1> DEFINE moved(k) == move(Stands(x), moves_mask[k])
           us(k) == IF isnasty(coord(moved(k))) THEN trans_mask ELSE {0}
           from(k) == {coord(transform(moved(k), u)) : u \in us(k)}
<1>1. cube(x) = Stands(x)
  BY CubeIs
<1>2. Neighbours(x) = UNION {from(k) : k \in Moves}
  BY <1>1, MovesAre DEF Neighbours
<1>3. \A k \in Moves : y \in from(k) <=> \E u \in us(k) : y = coord(transform(moved(k), u))
  OBVIOUS
<1> HIDE DEF from
<1>4. y \in UNION {from(k) : k \in Moves} <=> \E k \in Moves : y \in from(k)
  OBVIOUS
<1> QED BY <1>2, <1>3, <1>4

LEMMA NeighbourNear ==
  ASSUME ClassesMade, NEW x \in Coords, NEW y \in Neighbours(x)
  PROVE  y \in Coords /\ CoordDistance(y) <= CoordDistance(x) + 1
<1>1. PICK k \in Moves, u \in trans_mask :
         y = coord(transform(move(Stands(x), moves_mask[k]), u))
  BY NeighbourIs, ZeroTrans
<1> DEFINE c == Stands(x)  m == move(c, moves_mask[k])
<1>2. c \in Cubes /\ CoordDistance(x) = Distance[c]
  BY StandsIs
<1>3. m \in Cubes /\ transform(m, u) \in Cubes
  BY <1>2, MoveType, TransType
<1>4. PICK j \in Moves : move(m, moves_mask[j]) = c
  BY <1>2, MoveBack
<1>5. Distance[m] <= Distance[c] + 1
  BY <1>3, <1>4, OneMove
<1> HIDE DEF c, m
<1>6. CoordDistance(y) = Distance[m] /\ y \in Coords
  BY <1>1, <1>3, DistanceInCoord, DistanceOfTrans, CoordIs DEF m, c
<1> QED BY <1>2, <1>5, <1>6

LEMMA NeighbourFound ==
  ASSUME ClassesMade, NEW y \in Coords, CoordDistance(y) > 0
  PROVE  \E x \in Coords : CoordDistance(x) = CoordDistance(y) - 1 /\ y \in Neighbours(x)
<1> DEFINE c == Stands(y)
<1>1. c \in Cubes /\ CoordDistance(y) = Distance[c]
  BY StandsIs
<1>2. PICK k \in Moves : Distance[move(c, moves_mask[k])] < Distance[c]
  BY <1>1, GoodMove
<1> DEFINE b == move(c, moves_mask[k])  x == coord(b)  u == Through(b)
<1>3. b \in Cubes /\ Distance[c] <= Distance[b] + 1
  BY <1>1, MoveType, OneMove
<1>4. PICK j \in Moves : move(b, moves_mask[j]) = c
  BY <1>1, MoveBack
<1> HIDE DEF c, b
<1>5. Distance[b] = Distance[c] - 1
  BY <1>1, <1>2, <1>3, DistanceType DEF b
<1>6. /\ x \in Coords /\ u \in trans_mask /\ SameCoord(Stands(x), transform(b, u))
      /\ CoordDistance(x) = Distance[b]
  BY <1>3, CoordIs, DistanceInCoord
<1>7. PICK l \in Moves :
         transform(move(b, moves_mask[j]), u) = move(transform(b, u), moves_mask[l])
  BY <1>3, <1>6, MoveSeen
<1> HIDE DEF x, u
<1> DEFINE moved == move(Stands(x), moves_mask[l])
<1>8. Stands(x) \in Cubes /\ transform(b, u) \in Cubes /\ moved \in Cubes /\ transform(c, u) \in Cubes
  BY <1>1, <1>3, <1>6, StandsIs, TransType, MoveType
<1>9. SameCoord(moved, move(transform(b, u), moves_mask[l]))
  BY <1>6, <1>8, SameMove
<1>10. SameCoord(moved, transform(c, u))
  BY <1>4, <1>7, <1>9
<1> HIDE DEF moved
<1>11. /\ inverse_trans(u) \in trans_mask
       /\ transform(transform(c, u), inverse_trans(u)) = c
  BY <1>1, <1>6, TransType, TransBack
<1>12. SameCoord(transform(moved, inverse_trans(u)), c)
  <2>1. SameCoord(transform(moved, inverse_trans(u)), transform(transform(c, u), inverse_trans(u)))
    BY <1>8, <1>10, <1>11, SameTrans
  <2> QED BY <1>11, <2>1
<1>13. PICK v \in trans_mask : coord(transform(moved, v)) = y
  BY <1>8, <1>11, <1>12, OfTransformed DEF c
<1>14. y \in Neighbours(x)
  <2>1. CASE isnasty(coord(moved))
    <3>1. v \in IF isnasty(coord(moved)) THEN trans_mask ELSE {0}
      BY <2>1
    <3> QED BY <1>13, <3>1, NeighbourIs DEF moved
  <2>2. CASE ~isnasty(coord(moved))
    <3>1. coord(transform(moved, v)) = coord(moved) /\ coord(transform(moved, 0)) = coord(moved)
      BY <1>8, <2>2, NotNasty, ZeroTrans
    <3>2. 0 \in IF isnasty(coord(moved)) THEN trans_mask ELSE {0}
      BY <2>2
    <3>3. coord(transform(moved, 0)) = y
      BY <1>13, <3>1
    <3> QED BY <3>2, <3>3, NeighbourIs DEF moved
  <2> QED BY <2>1, <2>2
<1> QED BY <1>1, <1>5, <1>6, <1>14

LEMMA SimsIs ==
  ASSUME ClassesMade, NEW x \in Coords
  PROVE  /\ Sims(x) \subseteq Coords /\ x \in Sims(x)
         /\ \A y \in Sims(x) : CoordDistance(y) = CoordDistance(x)
<1>1. Stands(x) \in Cubes /\ CoordDistance(x) = Distance[Stands(x)] /\ cube(x) = Stands(x)
  BY StandsIs, CubeIs
<1>2. \A y : y \in Sims(x) <=> \E u \in trans_mask : y = coord(transform(Stands(x), u))
  BY <1>1 DEF Sims
<1>3. ASSUME NEW u \in trans_mask
      PROVE  /\ coord(transform(Stands(x), u)) \in Coords
             /\ CoordDistance(coord(transform(Stands(x), u))) = CoordDistance(x)
  BY <1>1, TransType, CoordIs, DistanceInCoord, DistanceOfTrans
<1>4. PICK u \in trans_mask : coord(transform(Stands(x), u)) = x
  BY OfStanding
<1> QED BY <1>2, <1>3, <1>4

LEMMA HasOldIs ==
  ASSUME ClassesMade, NEW x
  PROVE  HasOld(x) <=> \E s \in Sims(x), k \in Moves :
                          table[coord(move(Stands(s), moves_mask[k]))] < d
BY MovesAre, CubeIs, Zenon DEF HasOld

(* Entries of the table below d are exact, so one is old if it is nearer.  *)
LEMMA HasOldNear ==
  ASSUME ClassesMade, NEW x \in Coords, d \in Nat,
         \A y \in Coords : table[y] < d => CoordDistance(y) < d,
         HasOld(x)
  PROVE  CoordDistance(x) <= d
<1>1. PICK s \in Sims(x), k \in Moves : table[coord(move(Stands(s), moves_mask[k]))] < d
  BY HasOldIs
<1> DEFINE m == move(Stands(s), moves_mask[k])
<1>2. s \in Coords /\ CoordDistance(s) = CoordDistance(x)
  BY SimsIs
<1>3. Stands(s) \in Cubes /\ CoordDistance(s) = Distance[Stands(s)]
  BY <1>2, StandsIs
<1>4. m \in Cubes /\ Distance[Stands(s)] <= Distance[m] + 1
  BY <1>3, MoveType, OneMove
<1> HIDE DEF m
<1>5. coord(m) \in Coords /\ CoordDistance(coord(m)) = Distance[m]
  BY <1>4, CoordIs, DistanceInCoord
<1>6. CoordDistance(coord(m)) < d
  BY <1>1, <1>5 DEF m
<1> QED BY <1>2, <1>3, <1>4, <1>5, <1>6, DistanceType

LEMMA NearHasOld ==
  ASSUME ClassesMade, NEW x \in Coords, d \in Nat,
         \A y \in Coords : CoordDistance(y) < d => table[y] < d,
         CoordDistance(x) = d, d > 0
  PROVE  HasOld(x)
<1>1. Stands(x) \in Cubes /\ CoordDistance(x) = Distance[Stands(x)] /\ x \in Sims(x)
  BY StandsIs, SimsIs
<1>2. PICK k \in Moves : Distance[move(Stands(x), moves_mask[k])] < Distance[Stands(x)]
  BY <1>1, GoodMove
<1> DEFINE m == move(Stands(x), moves_mask[k])
<1>3. m \in Cubes
  BY <1>1, MoveType
<1> HIDE DEF m
<1>4. coord(m) \in Coords /\ CoordDistance(coord(m)) = Distance[m]
  BY <1>3, CoordIs, DistanceInCoord
<1>5. table[coord(m)] < d
  BY <1>1, <1>2, <1>4 DEF m
<1> QED BY <1>1, <1>5, HasOldIs DEF m

-----------------------------------------------------------------------------
(* The invariant of the generator.  Below the depth the table is exact, at *)
(* the depth it is while entries are being set; the counts are of the      *)
(* distances below the depth and of the entries set; and what the loop has *)
(* gone past needs no further look.                                        *)
AtDistance(n) == {x \in Coords : CoordDistance(x) = n}
NearerThan(n) == {x \in Coords : CoordDistance(x) < n}
Found == {x \in Coords : CoordDistance(x) = d /\ table[x] = d}

Exact ==
  /\ table \in [Coords -> 0 .. Unset]
  /\ \A x \in Coords :
        /\ CoordDistance(x) < d => table[x] = CoordDistance(x)
        /\ CoordDistance(x) >= d =>
             table[x] = Unset \/ (gen = "fill" /\ CoordDistance(x) = d /\ table[x] = d)
Counts ==
  /\ distribution \in Seq(Nat) /\ Len(distribution) = d
  /\ \A n \in 1 .. d : distribution[n] = Cardinality(AtDistance(n - 1))
  /\ tot = Cardinality(NearerThan(d))
GonePast(x) ==
  IF fromnew THEN CoordDistance(x) = d => table[x] = d
  ELSE CoordDistance(x) = d - 1 =>
         \A y \in Neighbours(x) : CoordDistance(y) = d => table[y] = d
Filling ==
  /\ i \in 0 .. CoordMax /\ d < 20
  /\ t = Cardinality(Found)
  /\ \A x \in Coords : x < i => GonePast(x)

GenInv ==
  /\ gen \in {"classes", "depth", "fill", "done"}
  /\ gen = "classes" =>
       /\ i \in 0 .. SymMax /\ ClassTable(i)
       /\ table = <<>> /\ distribution = <<>> /\ d = 1 /\ tot = 1
  /\ gen # "classes" => ClassesMade /\ d \in 1 .. 20 /\ Exact /\ Counts
  /\ gen = "fill" => Filling
  /\ gen = "done" => \A x \in Coords : table[x] = CoordDistance(x)

LEMMA CoordSetsFinite ==
  ASSUME NEW S, S \subseteq Coords
  PROVE  IsFiniteSet(S) /\ Cardinality(S) \in Nat
BY CoordsNat, FS_Subset, FS_CardinalityType, Zenon

LEMMA DataKept ==
  ASSUME UNCHANGED data
  PROVE  /\ ClassesMade => ClassesMade'
         /\ CoordMax' = CoordMax
         /\ \A x : Neighbours(x)' = Neighbours(x)
<1>1. classttrep' = classttrep /\ rep' = rep
  BY DEF data
<1>2. ClassesMade => ClassesMade'
  BY <1>1 DEF ClassesMade, EntryRight
<1>3. CoordMax' = CoordMax
  BY <1>1 DEF CoordMax
<1>4. \A c : coord(c)' = coord(c)
  BY <1>1 DEF coord
<1>5. \A x : cube(x)' = cube(x)
  BY <1>1 DEF cube
<1>6. \A x : isnasty(x)' = isnasty(x)
  BY <1>1 DEF isnasty
<1>7. ASSUME NEW x PROVE Neighbours(x)' = Neighbours(x)
  BY <1>1 DEF Neighbours, coord, cube, isnasty
<1> QED BY <1>2, <1>3, <1>7

(* Setting entries that are not nearer than the depth, nor farther.        *)
LEMMA FillExact ==
  ASSUME d \in 1 .. 19, gen = "fill", gen' = "fill", d' = d, Exact, t = Cardinality(Found),
         NEW xs, xs \subseteq Coords,
         \A x \in xs : table[x] > d => CoordDistance(x) = d,
         Fill(xs)
  PROVE  /\ Exact' /\ t' = Cardinality(Found')
         /\ \A x \in Coords : table[x] = d => table'[x] = d
         /\ \A x \in xs : CoordDistance(x) = d => table'[x] = d
<1> DEFINE new == {x \in xs : table[x] > d}
<1>1. /\ table \in [Coords -> 0 .. Unset]
      /\ \A x \in Coords :
            /\ CoordDistance(x) < d => table[x] = CoordDistance(x)
            /\ CoordDistance(x) >= d =>
                 table[x] = Unset \/ (CoordDistance(x) = d /\ table[x] = d)
  BY DEF Exact
<1>2. /\ table' = [x \in Coords |-> IF x \in new THEN d ELSE table[x]]
      /\ t' = t + Cardinality(new)
  BY <1>1 DEF Fill
<1>3. \A x \in new : x \in Coords /\ CoordDistance(x) = d /\ table[x] # d
  OBVIOUS
<1>4. \A x \in Coords : table'[x] = IF x \in new THEN d ELSE table[x]
  BY <1>2
<1>5. \A x \in xs : CoordDistance(x) = d => x \in new \/ table[x] = d
  <2> SUFFICES ASSUME NEW x \in xs, CoordDistance(x) = d PROVE table[x] > d \/ table[x] = d
    OBVIOUS
  <2>1. x \in Coords /\ CoordDistance(x) < Unset
    BY DistanceOfCoord DEF Unset
  <2> QED BY <1>1, <2>1
<1> HIDE DEF new
<1>6. table' \in [Coords -> 0 .. Unset]
  <2>1. \A x \in new : d \in 0 .. Unset
    BY <1>3, DistanceOfCoord DEF Unset
  <2>2. \A x \in Coords : (IF x \in new THEN d ELSE table[x]) \in 0 .. Unset
    BY <1>1, <2>1
  <2> QED BY <1>2, <2>2
<1>7. Exact'
  BY <1>1, <1>3, <1>4, <1>6 DEF Exact
<1>8. Found' = Found \cup new
  BY <1>1, <1>3, <1>4 DEF Found
<1>9. Found \cap new = {}
  BY <1>3 DEF Found
<1>10. /\ IsFiniteSet(Found) /\ Cardinality(Found) \in Nat
       /\ IsFiniteSet(new) /\ Cardinality(new) \in Nat
  <2>1. Found \subseteq Coords /\ new \subseteq Coords
    BY <1>3 DEF Found
  <2> QED BY <2>1, CoordSetsFinite
<1>11. Cardinality(Found \cup new) = Cardinality(Found) + Cardinality(new) - Cardinality({})
  BY <1>9, <1>10, FS_Union
<1>12. Cardinality(Found') = Cardinality(Found) + Cardinality(new)
  BY <1>8, <1>10, <1>11, FS_EmptySet
<1> QED BY <1>2, <1>4, <1>5, <1>7, <1>12

LEMMA FillStep ==
  ASSUME GenInv, GenFill
  PROVE  GenInv'
<1>1. /\ gen = "fill" /\ gen' = "fill" /\ i \in 0 .. CoordMax /\ i < CoordMax /\ i' = i + 1
      /\ d \in 1 .. 19 /\ d' = d /\ distribution' = distribution /\ tot' = tot
      /\ fromnew' = fromnew /\ UNCHANGED data
      /\ ClassesMade /\ Exact /\ Counts /\ t = Cardinality(Found)
      /\ \A x \in Coords : x < i => GonePast(x)
  BY DEF GenInv, GenFill, Filling
<1>2. CoordMax \in Nat /\ Coords = 0 .. CoordMax - 1 /\ i \in Coords
  BY <1>1, MaxIsAll
<1>3. /\ table \in [Coords -> 0 .. Unset]
      /\ \A x \in Coords :
            /\ CoordDistance(x) < d => table[x] = CoordDistance(x)
            /\ CoordDistance(x) >= d =>
                 table[x] = Unset \/ (CoordDistance(x) = d /\ table[x] = d)
  BY <1>1 DEF Exact
<1>4. \A x \in Coords : CoordDistance(x) \in 0 .. 14 /\ table[x] \in 0 .. 15
  BY <1>3, DistanceOfCoord DEF Unset
<1>5. ClassesMade' /\ CoordMax' = CoordMax /\ \A x : Neighbours(x)' = Neighbours(x)
  BY <1>1, DataKept
<1>6. Counts'
  BY <1>1 DEF Counts
<1> PICK n \in Coords : n = i
  BY <1>2
(* It is enough that the table is right and that i has been dealt with.    *)
<1>7. ASSUME Exact', t' = Cardinality(Found'),
             \A x \in Coords : table[x] = d => table'[x] = d,
             GonePast(n) \/ GonePast(n)'
      PROVE  GenInv'
  <2>1. ASSUME NEW x \in Coords, GonePast(x) PROVE GonePast(x)'
    <3>1. CASE fromnew
      BY <1>1, <1>7, <2>1, <3>1 DEF GonePast
    <3>2. CASE ~fromnew
      <4>1. ASSUME CoordDistance(x) = d - 1, NEW y \in Neighbours(x), CoordDistance(y) = d
            PROVE  table'[y] = d
        BY <1>1, <1>7, <2>1, <3>2, <4>1, NeighbourNear DEF GonePast
      <4> QED BY <1>1, <1>5, <3>2, <4>1 DEF GonePast
    <3> QED BY <3>1, <3>2
  <2>2. i \in Int /\ \A x \in Coords : x < i + 1 => x < i \/ x = n
    BY <1>2
  <2>3. GonePast(n)'
    BY <1>7, <2>1
  <2>4. \A x \in Coords : x < i + 1 => GonePast(x)'
    BY <1>1, <2>1, <2>2, <2>3
  <2>5. i + 1 \in 0 .. CoordMax
    BY <1>1, <1>2
  <2>6. Filling'
    BY <1>1, <1>5, <1>7, <2>4, <2>5 DEF Filling
  <2> QED BY <1>1, <1>5, <1>6, <1>7, <2>6 DEF GenInv
<1> DEFINE New == fromnew /\ table[i] > d /\ HasOld(i)
           Old == ~fromnew /\ table[i] = d - 1
<1>8. CASE New
  <2>1. Fill(Sims(n)) /\ fromnew /\ table[n] > d /\ HasOld(n)
    BY <1>8 DEF GenFill
  <2>2. d < 15 /\ \A y \in Coords : table[y] < d => CoordDistance(y) < d
    BY <1>1, <1>3, <1>4, <2>1 DEF Unset
  <2>3. CoordDistance(n) <= d
    BY <1>1, <2>1, <2>2, HasOldNear
  <2>4. CoordDistance(n) = d
    BY <1>1, <1>3, <1>4, <2>1, <2>3
  <2>5. Sims(n) \subseteq Coords /\ n \in Sims(n) /\ \A y \in Sims(n) : CoordDistance(y) = d
    BY <1>1, <2>4, SimsIs
  <2>6. /\ Exact' /\ t' = Cardinality(Found')
        /\ \A x \in Coords : table[x] = d => table'[x] = d
        /\ \A x \in Sims(n) : CoordDistance(x) = d => table'[x] = d
    BY <1>1, <2>1, <2>5, FillExact
  <2>7. GonePast(n)'
    BY <1>1, <2>1, <2>5, <2>6 DEF GonePast
  <2> QED BY <1>7, <2>6, <2>7
<1>9. CASE Old
  <2>1. Fill(Neighbours(n)) /\ ~fromnew /\ table[n] = d - 1
    BY <1>9 DEF GenFill
  <2>2. Neighbours(n) \subseteq Coords
    BY <1>1, NeighbourNear
  <2>3. ASSUME NEW y \in Neighbours(n), table[y] > d PROVE CoordDistance(y) = d
    <3>1. y \in Coords /\ CoordDistance(y) <= CoordDistance(n) + 1
      BY <1>1, NeighbourNear
    <3>2. d < 15
      BY <1>1, <1>4, <2>3, <3>1
    <3>3. CoordDistance(n) = d - 1
      BY <1>1, <1>3, <1>4, <2>1, <3>2 DEF Unset
    <3>4. ~(CoordDistance(y) < d)
      BY <1>1, <1>3, <1>4, <2>3, <3>1
    <3> QED BY <1>1, <1>4, <3>1, <3>3, <3>4
  <2>4. /\ Exact' /\ t' = Cardinality(Found')
        /\ \A x \in Coords : table[x] = d => table'[x] = d
        /\ \A x \in Neighbours(n) : CoordDistance(x) = d => table'[x] = d
    BY <1>1, <2>1, <2>2, <2>3, FillExact
  <2>5. GonePast(n)'
    BY <1>1, <1>5, <2>1, <2>4 DEF GonePast
  <2> QED BY <1>7, <2>4, <2>5
<1>10. CASE ~New /\ ~Old
  <2>1. table' = table /\ t' = t
    BY <1>10 DEF GenFill
  <2>2. Exact' /\ t' = Cardinality(Found')
    BY <1>1, <2>1 DEF Exact, Found
  <2>3. GonePast(n)
    <3>1. CASE fromnew
      <4> SUFFICES ASSUME CoordDistance(n) = d, table[n] # d PROVE FALSE
        BY <3>1 DEF GonePast
      <4>1. table[n] > d
        BY <1>1, <1>3, <1>4 DEF Unset
      <4>2. \A y \in Coords : CoordDistance(y) < d => table[y] < d
        BY <1>3
      <4>3. HasOld(n)
        BY <1>1, <4>2, NearHasOld
      <4> QED BY <1>10, <3>1, <4>1, <4>3
    <3>2. CASE ~fromnew
      <4>1. CoordDistance(n) # d - 1
        BY <1>1, <1>3, <1>4, <1>10, <3>2
      <4> QED BY <3>2, <4>1 DEF GonePast
    <3> QED BY <3>1, <3>2
  <2> QED BY <1>7, <2>1, <2>2, <2>3
<1> QED BY <1>8, <1>9, <1>10

LEMMA GenInitInv == ASSUME GenInit PROVE GenInv
<1>1. /\ classttrep = [x \in Firsts |-> None] /\ rep = <<>> /\ table = <<>> /\ distribution = <<>>
      /\ gen = "classes" /\ i = 0 /\ d = 1 /\ tot = 1
  BY DEF GenInit, Firsts
<1>2. \A y \in Firsts : ~Classed(y) /\ classttrep[y] = None
  BY <1>1 DEF Classed
<1>3. ClassTable(i)
  BY <1>1, <1>2, NumbersStart DEF ClassTable
<1>4. i \in 0 .. SymMax
  BY <1>1, Sizes
<1> QED BY <1>1, <1>3, <1>4 DEF GenInv

LEMMA GenClassStep == ASSUME GenInv, GenClass PROVE GenInv'
<1>1. /\ gen = "classes" /\ gen' = "classes" /\ i \in 0 .. SymMax /\ i < SymMax /\ i' = i + 1
      /\ table' = <<>> /\ distribution' = <<>> /\ d' = 1 /\ tot' = 1 /\ ClassTable(i)
  BY DEF GenInv, GenClass
<1>2. i \in Nat /\ i + 1 \in 0 .. SymMax
  BY <1>1, Sizes
<1>3. ClassTable(i)'
  BY <1>1, <1>2, ClassStep
<1> QED BY <1>1, <1>2, <1>3 DEF GenInv

LEMMA SolvedCoord ==
  ASSUME ClassesMade
  PROVE  coord(SOLVED_CUBE) = 0
<1>1. SOLVED_CUBE \in Cubes /\ Distance[SOLVED_CUBE] = 0
  BY CoordinateAssumption, DistanceType DEF Goal
<1>2. coord(SOLVED_CUBE) \in Coords /\ CoordDistance(coord(SOLVED_CUBE)) = 0
  BY <1>1, CoordIs, DistanceInCoord
<1> QED BY <1>2, DistanceOfCoord

LEMMA AtZero == AtDistance(0) = {0} /\ NearerThan(1) = {0} /\ Cardinality({0}) = 1
<1>1. AtDistance(0) = {0}
  BY DistanceOfCoord, CoordsNat DEF AtDistance
<1>2. \A x \in Coords : CoordDistance(x) < 1 <=> CoordDistance(x) = 0
  BY DistanceOfCoord DEF Unset
<1>3. NearerThan(1) = AtDistance(0)
  BY <1>2 DEF NearerThan, AtDistance
<1> QED BY <1>1, <1>3, FS_Singleton

LEMMA GenTableStep == ASSUME GenInv, GenTable PROVE GenInv'
<1>1. /\ gen = "classes" /\ gen' = "depth" /\ i = SymMax /\ ClassTable(SymMax)
      /\ table' = [x \in 0 .. CoordMax-1 |-> IF x = coord(SOLVED_CUBE) THEN 0 ELSE Unset]
      /\ distribution' = <<1>> /\ d' = 1 /\ tot' = 1 /\ UNCHANGED data
  BY DEF GenInv, GenTable
<1>2. ClassesMade
  BY <1>1, ClassesDone
<1>3. table' = [x \in Coords |-> IF x = 0 THEN 0 ELSE Unset]
  BY <1>1, <1>2, SolvedCoord, MaxIsAll
<1>4. \A x \in Coords : CoordDistance(x) \in Nat /\ (CoordDistance(x) = 0 <=> x = 0)
  BY DistanceOfCoord
<1>5. Exact'
  <2>1. table' \in [Coords -> 0 .. Unset]
    BY <1>3 DEF Unset
  <2>2. \A x \in Coords : IF x = 0 THEN CoordDistance(x) = 0 /\ ~(CoordDistance(x) >= 1)
                           ELSE CoordDistance(x) >= 1 /\ ~(CoordDistance(x) < 1)
    BY <1>4
  <2> QED BY <1>1, <1>3, <1>4, <2>1, <2>2 DEF Exact
<1>6. Counts'
  <2>1. distribution' \in Seq(Nat) /\ Len(distribution') = 1 /\ distribution'[1] = 1
    BY <1>1
  <2>2. \A n \in 1 .. 1 : n = 1 /\ n - 1 = 0
    OBVIOUS
  <2>3. \A n \in 1 .. 1 : distribution'[n] = Cardinality(AtDistance(n - 1))
    BY <2>1, <2>2, AtZero
  <2> QED BY <1>1, <2>1, <2>3, AtZero DEF Counts
<1>7. ClassesMade'
  BY <1>1, <1>2, DataKept
<1> QED BY <1>1, <1>5, <1>6, <1>7 DEF GenInv

LEMMA GenDepthStep == ASSUME GenInv, GenDepth PROVE GenInv'
<1>1. /\ gen = "depth" /\ gen' = "fill" /\ d < 20 /\ d' = d /\ i' = 0 /\ t' = 0 /\ table' = table
      /\ distribution' = distribution /\ tot' = tot /\ UNCHANGED data
      /\ ClassesMade /\ d \in 1 .. 20 /\ Exact /\ Counts
  BY DEF GenInv, GenDepth
<1>2. ClassesMade' /\ CoordMax' = CoordMax
  BY <1>1, DataKept
<1>3. CoordMax \in Nat /\ 0 \in 0 .. CoordMax
  BY <1>1, MaxIsAll
<1>4. Exact' /\ Counts'
  BY <1>1 DEF Exact, Counts
<1>5. Found' = {}
  <2>1. \A x \in Coords : CoordDistance(x) = d => table[x] = Unset /\ d # Unset
    <3>1. \A x \in Coords : CoordDistance(x) \in 0 .. 14
      BY DistanceOfCoord DEF Unset
    <3> QED BY <1>1, <3>1 DEF Exact, Unset
  <2> QED BY <1>1, <2>1 DEF Found
<1>6. \A x \in Coords : ~(x < 0)
  BY CoordsNat
<1>7. Filling'
  BY <1>1, <1>2, <1>3, <1>5, <1>6, FS_EmptySet DEF Filling
<1> QED BY <1>1, <1>2, <1>4, <1>7 DEF GenInv

LEMMA DepthFilled ==
  ASSUME GenInv, gen = "fill", i = CoordMax, NEW x \in Coords, CoordDistance(x) = d
  PROVE  table[x] = d
<1>1. ClassesMade /\ d \in 1 .. 20 /\ \A y \in Coords : y < i => GonePast(y)
  BY DEF GenInv, Filling
<1>2. CoordMax \in Nat /\ Coords = 0 .. CoordMax - 1
  BY <1>1, MaxIsAll
<1>3. \A y \in Coords : GonePast(y)
  BY <1>1, <1>2
<1>4. CASE fromnew
  BY <1>3, <1>4 DEF GonePast
<1>5. CASE ~fromnew
  <2>1. PICK y \in Coords : CoordDistance(y) = CoordDistance(x) - 1 /\ x \in Neighbours(y)
    BY <1>1, NeighbourFound
  <2> QED BY <1>3, <1>5, <2>1 DEF GonePast
<1> QED BY <1>4, <1>5

LEMMA GenDepthEndStep == ASSUME GenInv, GenDepthEnd PROVE GenInv'
<1>1. /\ gen = "fill" /\ gen' = "depth" /\ i = CoordMax /\ tot' = tot + t /\ table' = table
      /\ distribution' = Append(distribution, t) /\ d' = d + 1 /\ UNCHANGED data
      /\ ClassesMade /\ d \in 1 .. 19 /\ Exact /\ Counts /\ t = Cardinality(Found)
  BY DEF GenInv, GenDepthEnd, Filling
<1>2. ClassesMade'
  BY <1>1, DataKept
<1>3. \A x \in Coords : CoordDistance(x) = d => table[x] = d
  BY <1>1, DepthFilled
<1>4. \A x \in Coords : CoordDistance(x) \in Nat
  BY DistanceOfCoord
<1>5. Exact'
  <2>1. \A x \in Coords : CoordDistance(x) < d + 1 => CoordDistance(x) < d \/ CoordDistance(x) = d
    BY <1>1, <1>4
  <2>2. \A x \in Coords : CoordDistance(x) >= d + 1 => CoordDistance(x) >= d /\ CoordDistance(x) # d
    BY <1>1, <1>4
  <2> QED BY <1>1, <1>3, <2>1, <2>2 DEF Exact
<1>6. Found = AtDistance(d)
  BY <1>3 DEF Found, AtDistance
<1>7. /\ NearerThan(d + 1) = NearerThan(d) \cup AtDistance(d)
      /\ NearerThan(d) \cap AtDistance(d) = {}
  <2>1. \A x \in Coords : CoordDistance(x) < d + 1 <=> CoordDistance(x) < d \/ CoordDistance(x) = d
    BY <1>1, <1>4
  <2>2. \A x \in Coords : ~(CoordDistance(x) < d /\ CoordDistance(x) = d)
    BY <1>1
  <2>3. NearerThan(d) \cap AtDistance(d) = {}
    BY <2>2 DEF NearerThan, AtDistance
  <2> QED BY <2>1, <2>3 DEF NearerThan, AtDistance
<1>8. /\ IsFiniteSet(NearerThan(d)) /\ Cardinality(NearerThan(d)) \in Nat
      /\ IsFiniteSet(AtDistance(d)) /\ Cardinality(AtDistance(d)) \in Nat
  BY CoordSetsFinite DEF NearerThan, AtDistance
<1>9. Cardinality(NearerThan(d) \cup AtDistance(d)) =
         Cardinality(NearerThan(d)) + Cardinality(AtDistance(d)) - Cardinality({})
  BY <1>7, <1>8, FS_Union
<1>10. Cardinality(NearerThan(d + 1)) = tot + t
  <2>1. tot = Cardinality(NearerThan(d)) /\ t = Cardinality(AtDistance(d))
    BY <1>1, <1>6 DEF Counts
  <2>2. Cardinality({}) = 0
    BY FS_EmptySet
  <2> QED BY <1>7, <1>8, <1>9, <2>1, <2>2
<1>11. t \in Nat /\ t = Cardinality(AtDistance(d))
  BY <1>1, <1>6, <1>8
<1>12. Counts'
  <2>1. distribution \in Seq(Nat) /\ Len(distribution) = d
    BY <1>1 DEF Counts
  <2>2. /\ distribution' \in Seq(Nat) /\ Len(distribution') = d + 1
        /\ distribution'[d + 1] = t /\ \A n \in 1 .. d : distribution'[n] = distribution[n]
    BY <1>1, <1>11, <2>1
  <2>3. \A n \in 1 .. d + 1 : n \in 1 .. d \/ n = d + 1
    BY <1>1
  <2>4. \A n \in 1 .. d : distribution'[n] = Cardinality(AtDistance(n - 1))
    BY <1>1, <2>2 DEF Counts
  <2>5. (d + 1) - 1 = d
    BY <1>1
  <2>6. \A n \in 1 .. d + 1 : distribution'[n] = Cardinality(AtDistance(n - 1))
    BY <1>11, <2>2, <2>3, <2>4, <2>5
  <2> QED BY <1>1, <1>10, <2>2, <2>6 DEF Counts
<1>13. d + 1 \in 1 .. 20
  BY <1>1
<1> QED BY <1>1, <1>2, <1>5, <1>12, <1>13 DEF GenInv

LEMMA AllNearer ==
  ASSUME ClassesMade, d \in 1 .. 20, Counts, tot >= CoordMax \/ d = 20, NEW x \in Coords
  PROVE  CoordDistance(x) < d
<1>1. CASE d = 20
  BY <1>1, DistanceOfCoord DEF Unset
<1>2. CASE tot >= CoordMax
  <2>1. /\ NearerThan(d) \subseteq Coords /\ Cardinality(NearerThan(d)) >= CoordMax
        /\ CoordMax = Cardinality(Coords) /\ CoordMax \in Nat
    BY <1>2, MaxIsAll, CoordsNat DEF Counts, NearerThan
  <2>2. /\ Cardinality(NearerThan(d)) <= Cardinality(Coords) /\ Cardinality(NearerThan(d)) \in Nat
        /\ Cardinality(Coords) = Cardinality(NearerThan(d)) => Coords = NearerThan(d)
    BY <2>1, CoordsNat, CoordSetsFinite, FS_Subset
  <2>3. Coords = NearerThan(d)
    BY <2>1, <2>2
  <2> QED BY <2>3 DEF NearerThan
<1> QED BY <1>1, <1>2

LEMMA GenReturnStep == ASSUME GenInv, GenReturn PROVE GenInv'
<1>1. /\ gen = "depth" /\ gen' = "done"
      /\ tot >= CoordMax \/ d = 20
      /\ d' = d /\ table' = table /\ distribution' = distribution /\ tot' = tot /\ UNCHANGED data
      /\ ClassesMade /\ d \in 1 .. 20 /\ Exact /\ Counts
  BY DEF GenInv, GenReturn
<1>2. ClassesMade'
  BY <1>1, DataKept
<1>3. Exact' /\ Counts'
  BY <1>1 DEF Exact, Counts
<1>4. \A x \in Coords : table[x] = CoordDistance(x)
  BY <1>1, AllNearer DEF Exact
<1> QED BY <1>1, <1>2, <1>3, <1>4 DEF GenInv

LEMMA GenUnchanged == ASSUME GenInv, UNCHANGED genvars PROVE GenInv'
<1>1. /\ UNCHANGED data /\ classttrep' = classttrep /\ rep' = rep /\ table' = table
      /\ distribution' = distribution /\ gen' = gen /\ i' = i /\ d' = d /\ t' = t /\ tot' = tot
      /\ fromnew' = fromnew
  BY DEF genvars, data
<1>2. (ClassesMade => ClassesMade') /\ CoordMax' = CoordMax /\ \A x : Neighbours(x)' = Neighbours(x)
  BY <1>1, DataKept
<1>3. ClassTable(i) => ClassTable(i)'
  BY <1>1 DEF ClassTable, Classed, EntryRight
<1>4. (Exact => Exact') /\ (Counts => Counts')
  BY <1>1 DEF Exact, Counts
<1>5. Filling => Filling'
  <2>1. \A x : GonePast(x) => GonePast(x)'
    BY <1>1, <1>2 DEF GonePast
  <2>2. Found' = Found
    BY <1>1 DEF Found
  <2> QED BY <1>1, <1>2, <2>1, <2>2 DEF Filling
<1> QED BY <1>1, <1>2, <1>3, <1>4, <1>5 DEF GenInv

LEMMA GenNextInv == ASSUME GenInv, GenNext PROVE GenInv'
BY GenClassStep, GenTableStep, GenDepthStep, FillStep, GenDepthEndStep, GenReturnStep
   DEF GenNext

(* The solver leaves what the generator made alone.                        *)
LEMMA SolverKeepsTables ==
  ASSUME Next
  PROVE  GenNext \/ UNCHANGED genvars
BY DEF Next, solve_coord, AlreadySolved, NeedsMoves, SearchDepth, solve_coord_dfs, Visit,
       VisitSolved, TryMove, OtherSide, NoMoreMoves

LEMMA GenInvStep == ASSUME GenInv, [Next]_vars PROVE GenInv'
<1>1. GenNext \/ UNCHANGED genvars
  BY SolverKeepsTables DEF vars
<1> QED BY <1>1, GenNextInv, GenUnchanged

(* The invariant of the generator holds in every state of the two.         *)
THEOREM GeneratorInvariant == Spec => []GenInv
<1>1. Init => GenInv
  BY GenInitInv DEF Init
<1>2. GenInv /\ [Next]_vars => GenInv'
  BY GenInvStep
<1> QED BY <1>1, <1>2, PTL DEF Spec

(* Every position, in whatever symmetric form, finds its distance in the   *)
(* table that gendata_coord makes, whichever way genptable_coord goes at   *)
(* each depth, and the distribution counts the entries.                    *)
THEOREM TableIsExact == Spec => []TableExact
<1>1. GenInv => TableExact
  <2> SUFFICES ASSUME GenInv, gen = "depth" PROVE TableExact
    BY DEF TableExact
  <2>1. ClassesMade /\ Exact /\ Counts
    BY DEF GenInv
  <2>2. ASSUME NEW c \in Cubes, Distance[c] < d PROVE table[coord(c)] = Distance[c]
    BY <2>1, <2>2, CoordIs, DistanceInCoord DEF Exact
  <2>3. \A n \in 1 .. Len(distribution) :
           distribution[n] = Cardinality({x \in Coords : CoordDistance(x) = n - 1})
    BY <2>1 DEF Counts, AtDistance
  <2> QED BY <2>2, <2>3 DEF TableExact
<1> QED BY <1>1, GeneratorInvariant, PTL

(* What the solver reads: when the tables are made, every cube finds its   *)
(* distance.                                                               *)
THEOREM MadeTableIsExact ==
  Spec => [](gen = "done" => \A c \in Cubes : coord(c) \in Coords /\ table[coord(c)] = Distance[c])
<1>1. ASSUME GenInv, gen = "done", NEW c \in Cubes
      PROVE  coord(c) \in Coords /\ table[coord(c)] = Distance[c]
  <2>1. ClassesMade /\ \A x \in Coords : table[x] = CoordDistance(x)
    BY <1>1 DEF GenInv
  <2> QED BY <2>1, CoordIs, DistanceInCoord
<1>2. GenInv => (gen = "done" => \A c \in Cubes : coord(c) \in Coords /\ table[coord(c)] = Distance[c])
  BY <1>1
<1> QED BY <1>2, GeneratorInvariant, PTL

-----------------------------------------------------------------------------
(* The generator implements DistanceTable: entries are learnt when they    *)
(* are set, the rest are stuttering steps.                                 *)
Seen == IF table = <<>> THEN [x \in Coords |-> IF x = 0 THEN 0 ELSE Unset] ELSE table
DistanceOf == [x \in Coords |-> CoordDistance(x)]

LEMMA SeenInit == ASSUME Init PROVE Distances!Init
<1>1. table = <<>> /\ gen = "classes"
  BY DEF Init, GenInit
<1>2. [x \in Coords |-> IF x = 0 THEN 0 ELSE Unset] =
      [x \in Coords |-> IF DistanceOf[x] = 0 THEN 0 ELSE Unset]
  BY DistanceOfCoord DEF DistanceOf
<1> QED BY <1>1, <1>2 DEF Distances!Init, DistanceOf

LEMMA TableSeen ==
  ASSUME NEW s, NEW f, f = [x \in Coords |-> s[x]]
  PROVE  f # <<>>
<1>1. 0 \in DOMAIN f
  BY CoordsNat
<1>2. 0 \notin DOMAIN <<>>
  OBVIOUS
<1> QED BY <1>1, <1>2

LEMMA ExactSeen ==
  ASSUME Exact
  PROVE  Seen = table
<1>1. table = [x \in Coords |-> table[x]]
  BY DEF Exact
<1>2. table # <<>>
  BY <1>1, TableSeen
<1> QED BY <1>2 DEF Seen

LEMMA FillLearns ==
  ASSUME GenInv, GenFill
  PROVE  Distances!Next \/ UNCHANGED Distances!vars
<1>1. GenInv'
  BY FillStep
<1>2. /\ gen = "fill" /\ gen' = "fill" /\ d \in 1 .. 19 /\ d' = d /\ Exact /\ Exact'
  BY <1>1 DEF GenInv, GenFill, Filling
<1>3. Seen = table /\ Seen' = table'
  <2>1. Seen = table
    BY <1>2, ExactSeen
  <2>2. table' = [x \in Coords |-> table'[x]]
    BY <1>2 DEF Exact
  <2>3. table' # <<>>
    BY <2>2, TableSeen
  <2> QED BY <2>1, <2>3 DEF Seen
<1>4. \A x \in Coords : CoordDistance(x) \in 0 .. 14 /\ DistanceOf[x] = CoordDistance(x)
  BY DistanceOfCoord DEF Unset, DistanceOf
<1>5. ASSUME NEW x \in Coords, table'[x] # table[x]
      PROVE  /\ table[x] = Unset /\ CoordDistance(x) = d /\ table'[x] = d
             /\ \A y \in Coords : CoordDistance(y) < d => table[y] # Unset
  <2>1. \A y \in Coords :
           /\ CoordDistance(y) < d => table[y] = CoordDistance(y)
           /\ CoordDistance(y) >= d => table[y] = Unset \/ (CoordDistance(y) = d /\ table[y] = d)
    BY <1>2 DEF Exact
  <2>2. CoordDistance(x)' = CoordDistance(x)
    BY DEF CoordDistance
  <2>3. /\ CoordDistance(x) < d => table'[x] = CoordDistance(x)
        /\ CoordDistance(x) >= d => table'[x] = Unset \/ (CoordDistance(x) = d /\ table'[x] = d)
    BY <1>2 DEF Exact
  <2>4. CoordDistance(x) >= d
    BY <2>1, <2>3, <1>2, <1>4, <1>5
  <2>5. table'[x] = d
    BY <1>2, <1>5 DEF Exact, GenFill, Fill
  <2>6. \A y \in Coords : CoordDistance(y) < d => table[y] # Unset
    BY <2>1, <1>4 DEF Unset
  <2>7. d # Unset
    BY <2>3, <2>4, <2>5, <1>2, <1>4, <1>5, <2>1
  <2>8. table[x] = Unset /\ CoordDistance(x) = d
    BY <2>1, <2>3, <2>4, <2>5, <1>5, <2>7
  <2> QED BY <2>5, <2>6, <2>8
<1>6. ASSUME NEW x \in Coords, table'[x] # table[x] PROVE Distances!Learnt(x)
  <2>1. DistanceOf[x] = d /\ d <= 19 /\ table'[x] = DistanceOf[x] /\ table[x] = Unset
    BY <1>2, <1>4, <1>5, <1>6
  <2>2. \A y \in Coords : DistanceOf[y] < DistanceOf[x] => table[y] # Unset
    BY <1>4, <1>5, <1>6
  <2> QED BY <1>3, <2>1, <2>2 DEF Distances!Learnt, DistanceOf, Seen
<1>7. Distances!Learn
  <2>1. DOMAIN Seen' = Coords
    BY <1>2, <1>3 DEF Exact
  <2> QED BY <1>2, <1>3, <1>6, <2>1 DEF Distances!Learn, Seen
<1> QED BY <1>7 DEF Distances!Next

LEMMA ReturnFinishes ==
  ASSUME GenInv, GenReturn
  PROVE  Distances!Finish
<1>1. /\ gen = "depth" /\ gen' = "done" /\ table' = table
      /\ tot >= CoordMax \/ d = 20
      /\ ClassesMade /\ d \in 1 .. 20 /\ Exact /\ Counts
  BY DEF GenInv, GenReturn
<1>2. \A x \in Coords : table[x] # Unset
  <2>1. \A x \in Coords : table[x] = CoordDistance(x) /\ CoordDistance(x) \in 0 .. 14
    BY <1>1, AllNearer, DistanceOfCoord DEF Exact, Unset
  <2> QED BY <2>1 DEF Unset
<1>3. Seen = table
  BY <1>1, ExactSeen
<1> QED BY <1>1, <1>2, <1>3 DEF Distances!Finish, Seen

LEMMA GeneratorStep ==
  ASSUME GenInv, GenNext
  PROVE  Distances!Next \/ UNCHANGED Distances!vars
<1>1. CASE GenClass
  BY <1>1 DEF GenClass, Distances!vars
<1>2. CASE GenTable
  <2>1. GenInv'
    BY <1>2, GenTableStep
  <2>2. /\ gen = "classes" /\ gen' = "depth" /\ table = <<>> /\ ClassesMade /\ UNCHANGED data
        /\ table' = [x \in 0 .. CoordMax-1 |-> IF x = coord(SOLVED_CUBE) THEN 0 ELSE Unset]
    BY <1>2, ClassesDone DEF GenInv, GenTable
  <2>3. table' = [x \in Coords |-> IF x = 0 THEN 0 ELSE Unset]
    BY <2>2, SolvedCoord, MaxIsAll
  <2>4. table' # <<>>
    <3>1. table' = [x \in Coords |-> table'[x]]
      BY <2>3
    <3> QED BY <3>1, TableSeen
  <2> QED BY <2>2, <2>3, <2>4 DEF Distances!vars
<1>3. CASE GenDepth
  BY <1>3 DEF GenDepth, Distances!vars
<1>4. CASE GenFill
  BY <1>4, FillLearns
<1>5. CASE GenDepthEnd
  BY <1>5 DEF GenDepthEnd, Distances!vars
<1>6. CASE GenReturn
  BY <1>6, ReturnFinishes DEF Distances!Next
<1> QED BY <1>1, <1>2, <1>3, <1>4, <1>5, <1>6 DEF GenNext

(* The generator is a breadth-first search, whichever way it goes at each  *)
(* depth: each entry becomes the distance of what it stands for, in order  *)
(* of distance, once, and none within the depth is left unset.             *)
THEOREM CoordGeneratorImplementsDistanceTable == Spec => ImplementsDistanceTable
<1>1. Init => Distances!Init
  BY SeenInit
<1>2. GenInv /\ [Next]_vars => [Distances!Next]_Distances!vars
  <2> SUFFICES ASSUME GenInv, [Next]_vars PROVE Distances!Next \/ UNCHANGED Distances!vars
    OBVIOUS
  <2>1. GenNext \/ UNCHANGED genvars
    BY SolverKeepsTables DEF vars
  <2>2. CASE UNCHANGED genvars
    BY <2>2 DEF genvars, Distances!vars
  <2> QED BY <2>1, <2>2, GeneratorStep
<1> QED BY <1>1, <1>2, GeneratorInvariant, PTL DEF Spec, ImplementsDistanceTable, Distances!Spec

-----------------------------------------------------------------------------
(* The cube after a sequence of moves, one move at a time.                 *)
IsAfter(side, c, ms, n, g) ==
  g = [k \in 0 .. n |-> IF k = 0 THEN c ELSE Turned(side, g[k-1], ms[k])]

LEMMA AfterExists ==
  ASSUME NEW side, NEW c, NEW ms, NEW n \in Nat
  PROVE  \E g : IsAfter(side, c, ms, n, g)
<1> DEFINE Bad == {m \in Nat : ~\E g : IsAfter(side, c, ms, m, g)}
<1>1. ASSUME Bad # {} PROVE FALSE
  <2>1. PICK m \in Bad : \A x \in Bad : m <= x
    BY <1>1, LeastOf
  <2>2. CASE m = 0
    <3>1. IsAfter(side, c, ms, 0, [k \in 0 .. 0 |-> c])
      BY DEF IsAfter
    <3> QED BY <2>2, <3>1
  <2>3. CASE m > 0
    <3>1. m - 1 \in Nat /\ m - 1 \notin Bad
      BY <2>1, <2>3
    <3>2. PICK g : IsAfter(side, c, ms, m - 1, g)
      BY <3>1
    <3> DEFINE h == [k \in 0 .. m |-> IF k = m THEN Turned(side, g[m-1], ms[m]) ELSE g[k]]
    <3>3. \A k \in 0 .. m-1 : g[k] = IF k = 0 THEN c ELSE Turned(side, g[k-1], ms[k])
      BY <3>1, <3>2 DEF IsAfter
    <3>4. \A k \in 0 .. m : h[k] = IF k = 0 THEN c ELSE Turned(side, h[k-1], ms[k])
      <4> TAKE k \in 0 .. m
      <4>1. CASE k = m
        BY <4>1, <2>3
      <4>2. CASE k # m
        <5>1. k \in 0 .. m-1 /\ h[k] = g[k]
          BY <4>2
        <5>2. k # 0 => h[k-1] = g[k-1]
          BY <5>1
        <5> QED BY <5>1, <5>2, <3>3
      <4> QED BY <4>1, <4>2
    <3>5. h = [k \in 0 .. m |-> h[k]]
      OBVIOUS
    <3> HIDE DEF h
    <3>6. IsAfter(side, c, ms, m, h)
      BY <3>4, <3>5 DEF IsAfter
    <3> QED BY <3>6, <2>1
  <2> QED BY <2>1, <2>2, <2>3
<1> QED BY <1>1

LEMMA AfterIs ==
  ASSUME NEW side, NEW c, NEW ms, Len(ms) \in Nat
  PROVE  \E g : IsAfter(side, c, ms, Len(ms), g) /\ After(side, c, ms) = g[Len(ms)]
<1> DEFINE g == CHOOSE g : IsAfter(side, c, ms, Len(ms), g)
<1>1. IsAfter(side, c, ms, Len(ms), g)
  BY AfterExists
<1>2. After(side, c, ms) = g[Len(ms)]
  BY DEF After, IsAfter
<1> QED BY <1>1, <1>2

LEMMA AfterUnique ==
  ASSUME NEW side, NEW c, NEW ms, NEW ns, NEW m \in Nat, NEW n \in 0 .. m, NEW g, NEW h,
         IsAfter(side, c, ms, m, g), IsAfter(side, c, ns, n, h),
         \A k \in 1 .. n : ms[k] = ns[k]
  PROVE  g[n] = h[n]
<1> DEFINE Bad == {k \in Nat : k <= n /\ g[k] # h[k]}
<1>1. ASSUME Bad # {} PROVE FALSE
  <2>1. PICK k \in Bad : \A x \in Bad : k <= x
    BY <1>1, LeastOf
  <2>2. /\ g[k] = IF k = 0 THEN c ELSE Turned(side, g[k-1], ms[k])
        /\ h[k] = IF k = 0 THEN c ELSE Turned(side, h[k-1], ns[k])
    BY <2>1 DEF IsAfter
  <2>3. k # 0 => g[k-1] = h[k-1] /\ ms[k] = ns[k]
    <3>1. k # 0 => k - 1 \in Nat /\ k - 1 <= n /\ k - 1 < k /\ k \in 1 .. n
      BY <2>1
    <3>2. k # 0 => k - 1 \notin Bad
      BY <2>1, <3>1
    <3> QED BY <3>1, <3>2
  <2> QED BY <2>1, <2>2, <2>3
<1> QED BY <1>1

LEMMA AfterNone ==
  ASSUME NEW side, NEW c
  PROVE  After(side, c, <<>>) = c
<1>1. Len(<<>>) = 0
  OBVIOUS
<1>2. PICK g : IsAfter(side, c, <<>>, 0, g) /\ After(side, c, <<>>) = g[0]
  BY <1>1, AfterIs
<1> QED BY <1>2 DEF IsAfter

LEMMA AfterOneMore ==
  ASSUME NEW side, NEW c, NEW S, NEW ms \in Seq(S), NEW m \in S
  PROVE  After(side, c, Append(ms, m)) = Turned(side, After(side, c, ms), m)
<1> DEFINE more == Append(ms, m)  n == Len(ms)
<1>1. /\ n \in Nat /\ Len(more) = n + 1 /\ more[n + 1] = m
      /\ \A k \in 1 .. n : more[k] = ms[k]
  OBVIOUS
<1> HIDE DEF more, n
<1>2. PICK g : IsAfter(side, c, more, n + 1, g) /\ After(side, c, more) = g[n + 1]
  BY <1>1, AfterIs
<1>3. PICK h : IsAfter(side, c, ms, n, h) /\ After(side, c, ms) = h[n]
  BY <1>1, AfterIs DEF n
<1>4. g[n] = h[n]
  <2>1. n + 1 \in Nat /\ n \in 0 .. n + 1
    BY <1>1
  <2> QED BY <1>1, <1>2, <1>3, <2>1, AfterUnique
<1>5. g[n + 1] = Turned(side, g[n], more[n + 1])
  BY <1>1, <1>2 DEF IsAfter
<1> QED BY <1>1, <1>2, <1>3, <1>4, <1>5 DEF more

LEMMA TurnedType ==
  ASSUME NEW c \in Cubes, NEW m \in ToSet(moves_mask), NEW side
  PROVE  Turned(side, c, m) \in Cubes
<1>1. PICK k \in DOMAIN moves_mask : m = moves_mask[k]
  BY DEF ToSet
<1> QED BY <1>1, MoveType, InverseAssumption DEF Turned, Moves

LEMMA AfterType ==
  ASSUME NEW side, NEW c \in Cubes, NEW ms \in Seq(ToSet(moves_mask))
  PROVE  After(side, c, ms) \in Cubes
<1> DEFINE n == Len(ms)
<1>1. PICK g : IsAfter(side, c, ms, n, g) /\ After(side, c, ms) = g[n]
  BY AfterIs
<1> DEFINE Bad == {k \in Nat : k <= n /\ g[k] \notin Cubes}
<1>2. ASSUME Bad # {} PROVE FALSE
  <2>1. PICK k \in Bad : \A x \in Bad : k <= x
    BY <1>2, LeastOf
  <2>2. g[k] = IF k = 0 THEN c ELSE Turned(side, g[k-1], ms[k])
    BY <2>1, <1>1 DEF IsAfter
  <2>3. k # 0 => g[k-1] \in Cubes /\ ms[k] \in ToSet(moves_mask)
    <3>1. k # 0 => k - 1 \in Nat /\ k - 1 <= n /\ k - 1 < k /\ k \in 1 .. n
      BY <2>1
    <3>2. k # 0 => k - 1 \notin Bad
      BY <2>1, <3>1
    <3> QED BY <3>1, <3>2
  <2> QED BY <2>1, <2>2, <2>3, TurnedType
<1> QED BY <1>1, <1>2

(* Moves on the two sides commute.                                         *)
LEMMA TurnsCommute ==
  ASSUME NEW c \in Cubes, NEW m \in ToSet(moves_mask), NEW ms \in Seq(ToSet(moves_mask))
  PROVE  After("inverse", move(c, m), ms) = move(After("inverse", c, ms), m)
<1> DEFINE n == Len(ms)
<1>1. PICK g : IsAfter("inverse", c, ms, n, g) /\ After("inverse", c, ms) = g[n]
  BY AfterIs
<1>2. PICK h : IsAfter("inverse", move(c, m), ms, n, h) /\ After("inverse", move(c, m), ms) = h[n]
  BY AfterIs
<1> DEFINE Bad == {k \in Nat : k <= n /\ ~(g[k] \in Cubes /\ h[k] = move(g[k], m))}
<1>3. ASSUME Bad # {} PROVE FALSE
  <2>1. PICK k \in Bad : \A x \in Bad : k <= x
    BY <1>3, LeastOf
  <2>2. /\ g[k] = IF k = 0 THEN c ELSE premove(g[k-1], ms[k])
        /\ h[k] = IF k = 0 THEN move(c, m) ELSE premove(h[k-1], ms[k])
    BY <2>1, <1>1, <1>2 DEF IsAfter, Turned
  <2>3. k # 0 => g[k-1] \in Cubes /\ h[k-1] = move(g[k-1], m) /\ ms[k] \in ToSet(moves_mask)
    <3>1. k # 0 => k - 1 \in Nat /\ k - 1 <= n /\ k - 1 < k /\ k \in 1 .. n
      BY <2>1
    <3>2. k # 0 => k - 1 \notin Bad
      BY <2>1, <3>1
    <3> QED BY <3>1, <3>2
  <2>4. k # 0 => /\ premove(g[k-1], ms[k]) \in Cubes
                 /\ premove(move(g[k-1], m), ms[k]) = move(premove(g[k-1], ms[k]), m)
    BY <2>3, InverseAssumption
  <2> QED BY <2>1, <2>2, <2>3, <2>4
<1> QED BY <1>1, <1>2, <1>3
-----------------------------------------------------------------------------
(* The pass over the moves that puts parallel ones in order: where no      *)
(* three in a row are parallel it exchanges the pairs that are not in      *)
(* order, each by itself.                                                  *)
SortRound(s, k) ==
  IF parallel(s[k-1], s[k]) /\ s[k-1] > s[k]
  THEN [s EXCEPT ![k-1] = s[k], ![k] = s[k-1]] ELSE s
IsSort(ms, n, g) == g = [k \in 0 .. n |-> IF k < 2 THEN ms ELSE SortRound(g[k-1], k)]

ParallelIn(S) ==
  \A a, b, c \in S : parallel(a, b) => parallel(b, a) /\ (parallel(b, c) <=> parallel(a, c))
Spaced(ms) ==
  \A k \in 2 .. Len(ms) - 1 : ~(parallel(ms[k-1], ms[k]) /\ parallel(ms[k], ms[k+1]))
Swapped(ms, k) == k \in 2 .. Len(ms) /\ parallel(ms[k-1], ms[k]) /\ ms[k-1] > ms[k]
SortedTo(ms, n) ==
  [k \in 1 .. Len(ms) |->
     IF Swapped(ms, k) /\ k <= n THEN ms[k-1]
     ELSE IF Swapped(ms, k+1) /\ k+1 <= n THEN ms[k+1] ELSE ms[k]]

LEMMA SortExists ==
  ASSUME NEW ms, NEW n \in Nat
  PROVE  \E g : IsSort(ms, n, g)
<1> DEFINE Bad == {m \in Nat : ~\E g : IsSort(ms, m, g)}
<1>1. ASSUME Bad # {} PROVE FALSE
  <2>1. PICK m \in Bad : \A x \in Bad : m <= x
    BY <1>1, LeastOf
  <2>2. CASE m = 0
    <3>1. IsSort(ms, 0, [k \in 0 .. 0 |-> ms])
      BY DEF IsSort
    <3> QED BY <2>2, <3>1
  <2>3. CASE m > 0
    <3>1. m - 1 \in Nat /\ m - 1 \notin Bad
      BY <2>1, <2>3
    <3>2. PICK g : IsSort(ms, m - 1, g)
      BY <3>1
    <3> DEFINE h == [k \in 0 .. m |->
                       IF k = m THEN IF k < 2 THEN ms ELSE SortRound(g[m-1], m) ELSE g[k]]
    <3>3. \A k \in 0 .. m-1 : g[k] = IF k < 2 THEN ms ELSE SortRound(g[k-1], k)
      BY <3>1, <3>2 DEF IsSort
    <3>4. \A k \in 0 .. m : h[k] = IF k < 2 THEN ms ELSE SortRound(h[k-1], k)
      <4> TAKE k \in 0 .. m
      <4>1. CASE k = m
        BY <4>1, <2>3
      <4>2. CASE k # m
        <5>1. k \in 0 .. m-1 /\ h[k] = g[k]
          BY <4>2
        <5>2. k # 0 => h[k-1] = g[k-1]
          BY <5>1
        <5> QED BY <5>1, <5>2, <3>3
      <4> QED BY <4>1, <4>2
    <3>5. h = [k \in 0 .. m |-> h[k]]
      OBVIOUS
    <3> HIDE DEF h
    <3>6. IsSort(ms, m, h)
      BY <3>4, <3>5 DEF IsSort
    <3> QED BY <3>6, <2>1
  <2> QED BY <2>1, <2>2, <2>3
<1> QED BY <1>1

LEMMA SortIs ==
  ASSUME NEW ms, Len(ms) \in Nat
  PROVE  \E g : IsSort(ms, Len(ms), g) /\ sortparallel_moves(ms) = g[Len(ms)]
<1> DEFINE g == CHOOSE g : IsSort(ms, Len(ms), g)
<1>1. IsSort(ms, Len(ms), g)
  BY SortExists
<1>2. sortparallel_moves(ms) = g[Len(ms)]
  BY DEF sortparallel_moves, IsSort, SortRound
<1> QED BY <1>1, <1>2

LEMMA SortRoundIs ==
  ASSUME NEW S, S \subseteq Nat, ParallelIn(S), NEW ms \in Seq(S), Spaced(ms),
         NEW n \in 2 .. Len(ms)
  PROVE  SortRound(SortedTo(ms, n-1), n) = SortedTo(ms, n)
<1> DEFINE s == SortedTo(ms, n-1)  t1 == SortedTo(ms, n)
<1>1. /\ s[n] = ms[n]
      /\ s[n-1] = IF Swapped(ms, n-1) THEN ms[n-2] ELSE ms[n-1]
  BY DEF SortedTo
<1>2. \A k \in 1 .. Len(ms) : k # n /\ k # n-1 => t1[k] = s[k]
  BY DEF SortedTo
<1>3. /\ t1[n] = IF Swapped(ms, n) THEN ms[n-1] ELSE ms[n]
      /\ t1[n-1] = IF Swapped(ms, n-1) THEN ms[n-2] ELSE IF Swapped(ms, n) THEN ms[n] ELSE ms[n-1]
  BY DEF SortedTo
<1>4. DOMAIN s = 1 .. Len(ms) /\ DOMAIN t1 = 1 .. Len(ms)
  BY DEF SortedTo
<1>5. s = [k \in 1 .. Len(ms) |-> s[k]] /\ t1 = [k \in 1 .. Len(ms) |-> t1[k]]
  BY DEF SortedTo
<1> HIDE DEF s, t1
<1>6. CASE Swapped(ms, n-1)
  <2>1. /\ n-1 \in 2 .. Len(ms) - 1 /\ n-2 \in 1 .. Len(ms)
        /\ parallel(ms[n-2], ms[n-1])
    BY <1>6 DEF Swapped
  <2>2. ~parallel(ms[n-1], ms[n])
    <3>1. ~(parallel(ms[(n-1)-1], ms[n-1]) /\ parallel(ms[n-1], ms[(n-1)+1]))
      BY <2>1 DEF Spaced
    <3> QED BY <2>1, <3>1
  <2>3. ms[n-2] \in S /\ ms[n-1] \in S /\ ms[n] \in S
    BY <2>1
  <2>4. ~parallel(ms[n-2], ms[n])
    <3>1. \A a, b, c \in S : parallel(a, b) => (parallel(b, c) <=> parallel(a, c))
      BY Zenon DEF ParallelIn
    <3>2. parallel(ms[n-1], ms[n]) <=> parallel(ms[n-2], ms[n])
      BY <3>1, <2>1, <2>3, ZenonT(40)
    <3> QED BY <3>2, <2>2, Zenon
  <2>5. SortRound(s, n) = s
    BY <1>1, <1>6, <2>4 DEF SortRound
  <2>6. ~Swapped(ms, n)
    BY <2>2 DEF Swapped
  <2>7. \A k \in 1 .. Len(ms) : t1[k] = s[k]
    BY <1>1, <1>2, <1>3, <1>6, <2>6
  <2> QED BY <1>5, <2>5, <2>7 DEF s, t1
<1>7. CASE ~Swapped(ms, n-1) /\ Swapped(ms, n)
  <2>1. SortRound(s, n) = [s EXCEPT ![n-1] = s[n], ![n] = s[n-1]]
    BY <1>1, <1>7 DEF SortRound, Swapped
  <2>2. \A k \in 1 .. Len(ms) : [s EXCEPT ![n-1] = s[n], ![n] = s[n-1]][k] = t1[k]
    BY <1>1, <1>2, <1>3, <1>4, <1>7
  <2>3. [s EXCEPT ![n-1] = s[n], ![n] = s[n-1]] =
        [k \in 1 .. Len(ms) |-> [s EXCEPT ![n-1] = s[n], ![n] = s[n-1]][k]]
    BY <1>4
  <2> QED BY <1>5, <2>1, <2>2, <2>3 DEF s, t1
<1>8. CASE ~Swapped(ms, n-1) /\ ~Swapped(ms, n)
  <2>1. SortRound(s, n) = s
    BY <1>1, <1>8 DEF SortRound, Swapped
  <2>2. \A k \in 1 .. Len(ms) : t1[k] = s[k]
    BY <1>1, <1>2, <1>3, <1>8
  <2> QED BY <1>5, <2>1, <2>2 DEF s, t1
<1> QED BY <1>6, <1>7, <1>8

LEMMA SortedIs ==
  ASSUME NEW S, S \subseteq Nat, ParallelIn(S), NEW ms \in Seq(S), Spaced(ms)
  PROVE  sortparallel_moves(ms) = SortedTo(ms, Len(ms))
<1> DEFINE n == Len(ms)
<1>1. PICK g : IsSort(ms, n, g) /\ sortparallel_moves(ms) = g[n]
  BY SortIs
<1>2. \A k \in 0 .. 1 : SortedTo(ms, k) = ms
  <2> TAKE k \in 0 .. 1
  <2>1. \A j \in 1 .. Len(ms) : SortedTo(ms, k)[j] = ms[j]
    BY DEF SortedTo, Swapped
  <2>2. SortedTo(ms, k) = [j \in 1 .. Len(ms) |-> SortedTo(ms, k)[j]]
    BY DEF SortedTo
  <2> QED BY <2>1, <2>2
<1> DEFINE Bad == {k \in Nat : k <= n /\ g[k] # SortedTo(ms, k)}
<1>3. ASSUME Bad # {} PROVE FALSE
  <2>1. PICK k \in Bad : \A x \in Bad : k <= x
    BY <1>3, LeastOf
  <2>2. g[k] = IF k < 2 THEN ms ELSE SortRound(g[k-1], k)
    BY <2>1, <1>1 DEF IsSort
  <2>3. CASE k < 2
    BY <2>1, <2>2, <2>3, <1>2
  <2>4. CASE k >= 2
    <3>1. k - 1 \in Nat /\ k - 1 <= n /\ k - 1 < k /\ k \in 2 .. Len(ms)
      BY <2>1, <2>4
    <3>2. k - 1 \notin Bad
      BY <2>1, <3>1
    <3>3. g[k-1] = SortedTo(ms, k-1)
      BY <3>1, <3>2
    <3>4. SortRound(SortedTo(ms, k-1), k) = SortedTo(ms, k)
      BY <3>1, SortRoundIs
    <3> QED BY <2>1, <2>2, <2>4, <3>3, <3>4
  <2> QED BY <2>1, <2>3, <2>4
<1> QED BY <1>1, <1>3
-----------------------------------------------------------------------------
(* A canonical sequence, written and read back, is the same again; what is *)
(* written is canonical too.                                               *)
MaskMoves == ToSet(moves_mask)
Papers(r) == {OnPaper(r, m) : m \in MaskMoves}

LEMMA MaskMovesNat == MaskMoves \subseteq Nat
BY MoveAssumption DEF MaskMoves, ToSet

LEMMA ParallelMoves == ParallelIn(MaskMoves)
BY ParallelAssumption DEF ParallelIn, MaskMoves

LEMMA ParallelPapers ==
  ASSUME NEW r \in Requests
  PROVE  Papers(r) \subseteq Nat /\ ParallelIn(Papers(r))
<1>1. \A m, n \in MaskMoves :
        OnPaper(r, m) \in Nat /\ (parallel(OnPaper(r, m), OnPaper(r, n)) <=> parallel(m, n))
  BY WritingAssumption DEF MaskMoves
<1>2. \A m, n, p \in MaskMoves :
        parallel(m, n) => parallel(n, m) /\ (parallel(n, p) <=> parallel(m, p))
  BY ParallelMoves DEF ParallelIn
<1> HIDE DEF MaskMoves
<1>3. ASSUME NEW a \in Papers(r), NEW b \in Papers(r), NEW c \in Papers(r), parallel(a, b)
      PROVE  parallel(b, a) /\ (parallel(b, c) <=> parallel(a, c))
  <2>1. PICK m \in MaskMoves : a = OnPaper(r, m)
    BY DEF Papers
  <2>2. PICK n \in MaskMoves : b = OnPaper(r, n)
    BY DEF Papers
  <2>3. PICK p \in MaskMoves : c = OnPaper(r, p)
    BY DEF Papers
  <2> QED BY <1>1, <1>2, <1>3, <2>1, <2>2, <2>3
<1> QED BY <1>1, <1>3 DEF Papers, ParallelIn

LEMMA CanonicalSpaced ==
  ASSUME NEW ms \in Seq(MaskMoves), Canonical(ms)
  PROVE  /\ Spaced(ms)
         /\ \A k \in 2 .. Len(ms) : parallel(ms[k-1], ms[k]) => ms[k-1] < ms[k]
<1>1. \A k \in 2 .. Len(ms) : /\ ms[k-1] \in MaskMoves /\ ms[k] \in MaskMoves
                             /\ allowednextmove(ms[k-1], ms[k])
  <2> TAKE k \in 2 .. Len(ms)
  <2>1. k - 1 \in 1 .. Len(ms) - 1
    OBVIOUS
  <2>2. allowednextmove(ms[k-1], ms[(k-1)+1])
    BY <2>1 DEF Canonical
  <2> QED BY <2>1, <2>2
<1>2. \A k \in 2 .. Len(ms) : parallel(ms[k-1], ms[k]) => ms[k-1] < ms[k]
  BY <1>1, ParallelAssumption DEF MaskMoves
<1>3. ASSUME NEW k \in 2 .. Len(ms) - 1, parallel(ms[k-1], ms[k]), parallel(ms[k], ms[k+1])
      PROVE  FALSE
  <2>1. k + 1 \in 2 .. Len(ms) /\ (k + 1) - 1 = k /\ k \in 2 .. Len(ms)
    OBVIOUS
  <2>2. /\ ms[k-1] \in MaskMoves /\ ms[k] \in MaskMoves /\ ms[k+1] \in MaskMoves
        /\ allowednextmove(ms[k-1], ms[k]) /\ allowednextmove(ms[k], ms[k+1])
    BY <1>1, <2>1
  <2> QED BY <1>3, <2>2, ParallelAssumption DEF MaskMoves
<1> QED BY <1>2, <1>3 DEF Spaced

OnPaperAll(ms) == [k \in 1 .. Len(ms) |-> OnPaper(req, ms[k])]
Mixed(ms, k) == Swapped(OnPaperAll(ms), k)   \* the pair that ends at k changes order

LEMMA WrittenIs ==
  ASSUME req \in Requests, NEW ms \in Seq(MaskMoves), Canonical(ms)
  PROVE  /\ OnPaperAll(ms) \in Seq(Papers(req)) /\ Len(OnPaperAll(ms)) = Len(ms)
         /\ Written(ms) = SortedTo(OnPaperAll(ms), Len(ms))
<1> DEFINE x == OnPaperAll(ms)
<1>1. /\ x \in Seq(Papers(req)) /\ Len(x) = Len(ms)
      /\ \A k \in 1 .. Len(ms) : x[k] = OnPaper(req, ms[k]) /\ ms[k] \in MaskMoves
  <2>1. \A k \in 1 .. Len(ms) : ms[k] \in MaskMoves /\ OnPaper(req, ms[k]) \in Papers(req)
    BY DEF Papers
  <2> QED BY <2>1 DEF OnPaperAll
<1>2. solution_moves_reorient(solution_moves_transform(ms)) = x
  BY DEF solution_moves_reorient, solution_moves_transform, OnPaperAll, OnPaper
<1> HIDE DEF x
<1>3. \A m, n \in MaskMoves : parallel(OnPaper(req, m), OnPaper(req, n)) <=> parallel(m, n)
  BY WritingAssumption DEF MaskMoves
<1>4. Spaced(x)
  <2>1. ASSUME NEW k \in 2 .. Len(x) - 1 PROVE ~(parallel(x[k-1], x[k]) /\ parallel(x[k], x[k+1]))
    <3>1. k-1 \in 1 .. Len(ms) /\ k \in 1 .. Len(ms) /\ k+1 \in 1 .. Len(ms) /\ k \in 2 .. Len(ms) - 1
      BY <1>1
    <3>2. ~(parallel(ms[k-1], ms[k]) /\ parallel(ms[k], ms[k+1]))
      BY <3>1, CanonicalSpaced DEF Spaced
    <3> QED BY <1>1, <1>3, <3>1, <3>2
  <2> QED BY <2>1 DEF Spaced
<1>5. sortparallel_moves(x) = SortedTo(x, Len(x))
  BY <1>1, <1>4, ParallelPapers, SortedIs
<1> QED BY <1>1, <1>2, <1>5 DEF Written, x

(* One pair at a time: what is at each place of what is written.           *)
LEMMA PairIs ==
  ASSUME req \in Requests, NEW ms \in Seq(MaskMoves), Canonical(ms), NEW k \in 2 .. Len(ms)
  PROVE  /\ Mixed(ms, k) <=> /\ parallel(ms[k-1], ms[k])
                             /\ OnPaper(req, ms[k-1]) > OnPaper(req, ms[k])
         /\ parallel(ms[k-1], ms[k]) => ~Mixed(ms, k-1) /\ ~Mixed(ms, k+1)
<1> DEFINE x == OnPaperAll(ms)
<1>1. /\ Len(x) = Len(ms)
      /\ \A j \in 1 .. Len(ms) : x[j] = OnPaper(req, ms[j]) /\ ms[j] \in MaskMoves
  BY DEF OnPaperAll
<1>2. \A m, n \in MaskMoves : parallel(OnPaper(req, m), OnPaper(req, n)) <=> parallel(m, n)
  BY WritingAssumption DEF MaskMoves
<1> HIDE DEF x
<1>3. \A j \in 2 .. Len(ms) :
        Mixed(ms, j) <=> parallel(ms[j-1], ms[j]) /\ OnPaper(req, ms[j-1]) > OnPaper(req, ms[j])
  <2> TAKE j \in 2 .. Len(ms)
  <2>1. j \in 1 .. Len(ms) /\ j-1 \in 1 .. Len(ms) /\ j \in 2 .. Len(x)
    BY <1>1
  <2> QED BY <1>1, <1>2, <2>1 DEF Mixed, Swapped, x
<1>4. ASSUME parallel(ms[k-1], ms[k]) PROVE ~Mixed(ms, k-1) /\ ~Mixed(ms, k+1)
  <2>1. \A j \in 2 .. Len(ms) - 1 : ~(parallel(ms[j-1], ms[j]) /\ parallel(ms[j], ms[j+1]))
    BY CanonicalSpaced DEF Spaced
  <2>2. ~Mixed(ms, k-1)
    <3>1. CASE k - 1 \in 2 .. Len(ms)
      <4>1. k - 1 \in 2 .. Len(ms) - 1 /\ (k-1) + 1 = k
        BY <3>1
      <4>2. ~parallel(ms[(k-1)-1], ms[k-1])
        BY <1>4, <2>1, <4>1
      <4> QED BY <1>3, <3>1, <4>2
    <3>2. CASE k - 1 \notin 2 .. Len(ms)
      BY <1>1, <3>2 DEF Mixed, Swapped, x
    <3> QED BY <3>1, <3>2
  <2>3. ~Mixed(ms, k+1)
    <3>1. CASE k + 1 \in 2 .. Len(ms)
      <4>1. k \in 2 .. Len(ms) - 1 /\ (k+1) - 1 = k
        BY <3>1
      <4>2. ~parallel(ms[(k+1)-1], ms[k+1])
        BY <1>4, <2>1, <4>1
      <4> QED BY <1>3, <3>1, <4>2
    <3>2. CASE k + 1 \notin 2 .. Len(ms)
      BY <1>1, <3>2 DEF Mixed, Swapped, x
    <3> QED BY <3>1, <3>2
  <2> QED BY <2>2, <2>3
<1> QED BY <1>3, <1>4

LEMMA NotMixed ==
  ASSUME NEW ms, NEW k, k \notin 2 .. Len(ms), Len(ms) \in Nat
  PROVE  ~Mixed(ms, k)
<1>1. Len(OnPaperAll(ms)) = Len(ms)
  BY DEF OnPaperAll
<1> QED BY <1>1 DEF Mixed, Swapped

(* The move that is written at a place.                                    *)
At(ms, k) == IF Mixed(ms, k) THEN ms[k-1] ELSE IF Mixed(ms, k+1) THEN ms[k+1] ELSE ms[k]

LEMMA AtIs ==
  ASSUME req \in Requests, NEW ms \in Seq(MaskMoves), Canonical(ms), NEW k \in 1 .. Len(ms)
  PROVE  /\ At(ms, k) \in MaskMoves
         /\ At(ms, k) = ms[k] \/ parallel(At(ms, k), ms[k])
         /\ Written(ms)[k] = OnPaper(req, At(ms, k))
<1> DEFINE x == OnPaperAll(ms)
<1>1. /\ Len(x) = Len(ms)
      /\ \A j \in 1 .. Len(ms) : x[j] = OnPaper(req, ms[j]) /\ ms[j] \in MaskMoves
  BY DEF OnPaperAll
<1>2. Written(ms)[k] = IF Mixed(ms, k) THEN x[k-1] ELSE IF Mixed(ms, k+1) THEN x[k+1] ELSE x[k]
  <2>1. Written(ms) = SortedTo(x, Len(ms))
    BY WrittenIs
  <2>2. Mixed(ms, k+1) => k + 1 <= Len(ms)
    BY NotMixed
  <2> HIDE DEF x
  <2>3. SortedTo(x, Len(ms))[k] =
          IF Swapped(x, k) THEN x[k-1]
          ELSE IF Swapped(x, k+1) /\ k+1 <= Len(ms) THEN x[k+1] ELSE x[k]
    BY <1>1 DEF SortedTo
  <2> QED BY <2>1, <2>2, <2>3 DEF Mixed, x
<1> HIDE DEF x
<1>3. CASE Mixed(ms, k)
  <2>1. k \in 2 .. Len(ms)
    BY <1>3, NotMixed
  <2>2. parallel(ms[k-1], ms[k]) /\ k-1 \in 1 .. Len(ms)
    BY <1>3, <2>1, PairIs
  <2> QED BY <1>1, <1>2, <1>3, <2>2 DEF At
<1>4. CASE ~Mixed(ms, k) /\ Mixed(ms, k+1)
  <2>1. k+1 \in 2 .. Len(ms) /\ (k+1)-1 = k
    BY <1>4, NotMixed
  <2>2. parallel(ms[(k+1)-1], ms[k+1])
    BY <1>4, <2>1, PairIs
  <2>3. parallel(ms[k+1], ms[k])
    BY <1>1, <2>1, <2>2, ParallelMoves DEF ParallelIn
  <2> QED BY <1>1, <1>2, <1>4, <2>1, <2>3 DEF At
<1>5. CASE ~Mixed(ms, k) /\ ~Mixed(ms, k+1)
  BY <1>1, <1>2, <1>5 DEF At
<1> QED BY <1>3, <1>4, <1>5

LEMMA AtParallel ==
  ASSUME req \in Requests, NEW ms \in Seq(MaskMoves), Canonical(ms), NEW k \in 2 .. Len(ms)
  PROVE  parallel(At(ms, k-1), At(ms, k)) <=> parallel(ms[k-1], ms[k])
<1> DEFINE a == At(ms, k-1)  b == At(ms, k)
<1>1. /\ a \in MaskMoves /\ (a = ms[k-1] \/ parallel(a, ms[k-1]))
      /\ b \in MaskMoves /\ (b = ms[k] \/ parallel(b, ms[k]))
  <2>1. k-1 \in 1 .. Len(ms) /\ k \in 1 .. Len(ms)
    OBVIOUS
  <2> QED BY <2>1, AtIs
<1>2. ms[k-1] \in MaskMoves /\ ms[k] \in MaskMoves
  OBVIOUS
<1> HIDE DEF a, b
<1>3. parallel(a, b) <=> parallel(ms[k-1], b)
  BY <1>1, <1>2, ParallelMoves DEF ParallelIn
<1>4. parallel(ms[k-1], b) <=> parallel(ms[k-1], ms[k])
  BY <1>1, <1>2, ParallelMoves DEF ParallelIn
<1> QED BY <1>3, <1>4 DEF a, b

LEMMA WrittenBack ==
  ASSUME req \in Requests, NEW ms \in Seq(MaskMoves), Canonical(ms)
  PROVE  sortparallel_moves(Unwritten(Written(ms))) = ms
<1> DEFINE n == Len(ms)  y == [k \in 1 .. n |-> At(ms, k)]
<1>1. y \in Seq(MaskMoves) /\ Len(y) = n /\ \A k \in 1 .. n : y[k] = At(ms, k)
  BY AtIs
<1>2. Unwritten(Written(ms)) = y
  <2>1. DOMAIN Written(ms) = 1 .. n
    BY WrittenIs DEF SortedTo
  <2>2. \A k \in 1 .. n : OffPaper(req, Written(ms)[k]) = At(ms, k)
    BY AtIs, WritingAssumption DEF MaskMoves
  <2>3. Unwritten(Written(ms)) = [k \in 1 .. n |-> OffPaper(req, Written(ms)[k])]
    BY <2>1 DEF Unwritten, OffPaper
  <2> QED BY <2>2, <2>3
<1> HIDE DEF y
<1>3. \A k \in 2 .. n : /\ parallel(y[k-1], y[k]) <=> parallel(ms[k-1], ms[k])
                        /\ k-1 \in 1 .. n /\ k \in 1 .. n
  BY <1>1, AtParallel
<1>4. Spaced(y)
  <2>1. ASSUME NEW k \in 2 .. Len(y) - 1 PROVE ~(parallel(y[k-1], y[k]) /\ parallel(y[k], y[k+1]))
    <3>1. k \in 2 .. n /\ k + 1 \in 2 .. n /\ (k+1)-1 = k /\ k \in 2 .. n - 1
      BY <1>1
    <3>2. ~(parallel(ms[k-1], ms[k]) /\ parallel(ms[k], ms[k+1]))
      BY <3>1, CanonicalSpaced DEF Spaced
    <3>3. parallel(y[(k+1)-1], y[k+1]) <=> parallel(ms[(k+1)-1], ms[k+1])
      BY <1>3, <3>1
    <3> QED BY <1>3, <3>1, <3>2, <3>3
  <2> QED BY <2>1 DEF Spaced
<1>5. sortparallel_moves(y) = SortedTo(y, n)
  BY <1>1, <1>4, MaskMovesNat, ParallelMoves, SortedIs
<1>6. \A k \in 2 .. n : Swapped(y, k) <=> Mixed(ms, k)
  <2> TAKE k \in 2 .. n
  <2>1. CASE parallel(ms[k-1], ms[k])
    <3>1. ~Mixed(ms, k-1) /\ ~Mixed(ms, k+1) /\ (k-1)+1 = k
      BY <2>1, PairIs
    <3>2. /\ y[k-1] = IF Mixed(ms, k) THEN ms[k] ELSE ms[k-1]
          /\ y[k] = IF Mixed(ms, k) THEN ms[k-1] ELSE ms[k]
      BY <1>1, <1>3, <3>1 DEF At
    <3>3. ms[k-1] < ms[k] /\ ms[k-1] \in Nat /\ ms[k] \in Nat
      <4>1. ms[k-1] < ms[k]
        BY <2>1, CanonicalSpaced
      <4>2. ms[k-1] \in MaskMoves /\ ms[k] \in MaskMoves
        OBVIOUS
      <4> QED BY <4>1, <4>2, MaskMovesNat
    <3>4. Swapped(y, k) <=> y[k-1] > y[k]
      BY <2>1, <1>1, <1>3 DEF Swapped
    <3> QED BY <3>2, <3>3, <3>4
  <2>2. CASE ~parallel(ms[k-1], ms[k])
    BY <2>2, <1>3, PairIs DEF Swapped
  <2> QED BY <2>1, <2>2
<1>7. \A k : k \notin 2 .. n => ~Swapped(y, k) /\ ~Mixed(ms, k)
  BY <1>1, NotMixed DEF Swapped
<1>8. ASSUME NEW k \in 1 .. n PROVE SortedTo(y, n)[k] = ms[k]
  <2>1. SortedTo(y, n)[k] = IF Swapped(y, k) THEN y[k-1]
                            ELSE IF Swapped(y, k+1) /\ k+1 <= n THEN y[k+1] ELSE y[k]
    BY <1>1 DEF SortedTo
  <2>2. CASE Mixed(ms, k)
    <3>1. k \in 2 .. n /\ Swapped(y, k)
      BY <2>2, <1>6, <1>7
    <3>2. ~Mixed(ms, k-1) /\ (k-1)+1 = k /\ k-1 \in 1 .. n
      BY <2>2, <3>1, PairIs
    <3>3. y[k-1] = ms[k]
      BY <2>2, <1>1, <3>2 DEF At
    <3> QED BY <2>1, <3>1, <3>3
  <2>3. CASE ~Mixed(ms, k) /\ Mixed(ms, k+1)
    <3>1. k+1 \in 2 .. n /\ Swapped(y, k+1) /\ ~Swapped(y, k) /\ (k+1)-1 = k
      BY <2>3, <1>6, <1>7
    <3>2. y[k+1] = ms[k]
      BY <2>3, <1>1, <3>1 DEF At
    <3> QED BY <2>1, <3>1, <3>2
  <2>4. CASE ~Mixed(ms, k) /\ ~Mixed(ms, k+1)
    <3>1. ~Swapped(y, k) /\ ~Swapped(y, k+1)
      BY <2>4, <1>6, <1>7
    <3>2. y[k] = ms[k]
      BY <2>4, <1>1 DEF At
    <3> QED BY <2>1, <3>1, <3>2
  <2> QED BY <2>2, <2>3, <2>4
<1>9. SortedTo(y, n) = [k \in 1 .. n |-> SortedTo(y, n)[k]] /\ ms = [k \in 1 .. n |-> ms[k]]
  BY <1>1 DEF SortedTo
<1> QED BY <1>2, <1>5, <1>8, <1>9

LEMMA WrittenCanonical ==
  ASSUME req \in Requests, NEW ms \in Seq(MaskMoves), Canonical(ms)
  PROVE  Len(Written(ms)) = Len(ms) /\ Canonical(Written(ms))
<1> DEFINE w == Written(ms)
<1>1. Len(w) = Len(ms)
  <2>1. w = SortedTo(OnPaperAll(ms), Len(ms)) /\ Len(OnPaperAll(ms)) = Len(ms)
    BY WrittenIs
  <2>2. DOMAIN SortedTo(OnPaperAll(ms), Len(ms)) = 1 .. Len(ms)
    BY <2>1 DEF SortedTo
  <2>3. SortedTo(OnPaperAll(ms), Len(ms)) =
        [k \in 1 .. Len(ms) |-> SortedTo(OnPaperAll(ms), Len(ms))[k]]
    BY <2>1 DEF SortedTo
  <2> HIDE DEF w
  <2> QED BY <2>1, <2>3
<1> HIDE DEF w
<1>2. ASSUME NEW k \in 2 .. Len(ms) PROVE allowednextmove(w[k-1], w[k])
  <2>1. /\ k-1 \in 1 .. Len(ms) /\ k \in 1 .. Len(ms) /\ (k-1)+1 = k
        /\ ms[k-1] \in MaskMoves /\ ms[k] \in MaskMoves
    OBVIOUS
  <2>2. /\ w[k-1] = OnPaper(req, At(ms, k-1)) /\ At(ms, k-1) \in MaskMoves
        /\ w[k] = OnPaper(req, At(ms, k)) /\ At(ms, k) \in MaskMoves
    BY <2>1, AtIs DEF w
  <2>3. CASE ~parallel(ms[k-1], ms[k])
    <3>1. ~parallel(At(ms, k-1), At(ms, k))
      BY <2>3, AtParallel
    <3> QED BY <2>2, <3>1, WritingAssumption DEF MaskMoves
  <2>4. CASE parallel(ms[k-1], ms[k])
    <3> DEFINE mm == OnPaper(req, ms[k-1])  nn == OnPaper(req, ms[k])
    <3>1. ~Mixed(ms, k-1) /\ ~Mixed(ms, k+1) /\ (Mixed(ms, k) <=> mm > nn)
      BY <2>4, PairIs
    <3>2. /\ w[k-1] = IF Mixed(ms, k) THEN nn ELSE mm
          /\ w[k] = IF Mixed(ms, k) THEN mm ELSE nn
      BY <2>1, <2>2, <3>1 DEF At
    <3>3. allowednextmove(ms[k-1], ms[k])
      <4>1. k - 1 \in 1 .. Len(ms) - 1
        OBVIOUS
      <4> QED BY <2>1, <4>1 DEF Canonical
    <3>4. ms[k-1] < ms[k] /\ ms[k-1] \in Nat /\ ms[k] \in Nat
      <4>1. ms[k-1] < ms[k]
        BY <2>4, CanonicalSpaced
      <4>2. ms[k-1] \in MaskMoves /\ ms[k] \in MaskMoves
        OBVIOUS
      <4> QED BY <4>1, <4>2, MaskMovesNat
    <3>5. /\ mm \in Nat /\ nn \in Nat
          /\ OffPaper(req, mm) = ms[k-1] /\ OffPaper(req, nn) = ms[k]
          /\ IF mm < nn THEN allowednextmove(mm, nn) ELSE allowednextmove(nn, mm)
      BY <2>1, <2>4, <3>3, WritingAssumption DEF MaskMoves
    <3> HIDE DEF mm, nn
    <3>6. mm # nn
      BY <3>4, <3>5
    <3> QED BY <3>1, <3>2, <3>5, <3>6
  <2> QED BY <2>3, <2>4
<1>3. ASSUME NEW k \in 1 .. Len(w) - 1 PROVE allowednextmove(w[k], w[k+1])
  <2>1. k + 1 \in 2 .. Len(ms) /\ (k+1) - 1 = k
    BY <1>1
  <2> QED BY <1>2, <2>1
<1> QED BY <1>1, <1>3 DEF Canonical, w
-----------------------------------------------------------------------------
(* The solver.  What solve_coord_dfs is called with: canonical sequences   *)
(* of moves on the two sides, and the cube they lead to with its inverse.  *)
Start == transform(req.cube, req.t)
Turns(a) == Len(a.moves) + Len(a.premoves)
Args == [cube : Cubes, inverse : Cubes, moves : Seq(MaskMoves), premoves : Seq(MaskMoves),
         lastisnormal : BOOLEAN]
Frames == [arg : Args, side : {"normal", "inverse"}, ret : Int, todo : SUBSET MaskMoves]

ArgRight(a) ==
  /\ a \in Args
  /\ Canonical(a.moves) /\ Canonical(a.premoves)
  /\ a.inverse = inverse(a.cube)
  /\ a.cube = Apply(Start, a.moves, a.premoves)
FrameRight(f, k) ==
  /\ ArgRight(f.arg) /\ Turns(f.arg) = k - 1 /\ k <= depth
  /\ f.todo \subseteq MovesAfter(IF f.side = "normal" THEN f.arg.moves ELSE f.arg.premoves)
StackRight(s) == s \in Seq(Frames) /\ \A k \in 1 .. Len(s) : FrameRight(s[k], k)

CallInv ==
  /\ pc \in {"idle", "start", "depth", "visit", "loop", "returned"}
  /\ pc = "idle" => stack = <<>>
  /\ pc # "idle" =>
       /\ gen = "done" /\ req \in Requests /\ ArgRight(arg)
       /\ depth \in Nat /\ depth >= 1 /\ depth >= req.minmoves
  /\ pc \in {"start", "depth"} => stack = <<>> /\ Turns(arg) = 0
  /\ pc \in {"visit", "loop"} => StackRight(stack) /\ depth <= req.maxmoves
  /\ pc = "visit" => Len(stack) = Turns(arg) /\ Turns(arg) <= depth
  /\ pc = "loop" => stack # <<>> /\ arg = Frame.arg

LEMMA ArgKept ==
  ASSUME req' = req, NEW a
  PROVE  ArgRight(a)' <=> ArgRight(a)
BY DEF ArgRight, Start

LEMMA StackKept ==
  ASSUME req' = req, depth' = depth, NEW s
  PROVE  StackRight(s)' <=> StackRight(s)
<1>1. \A a : ArgRight(a)' <=> ArgRight(a)
  BY ArgKept
<1> QED BY <1>1 DEF StackRight, FrameRight

LEMMA ArgIs ==
  ASSUME NEW a, ArgRight(a)
  PROVE  /\ a.cube \in Cubes /\ a.inverse = inverse(a.cube)
         /\ a.moves \in Seq(MaskMoves) /\ a.premoves \in Seq(MaskMoves)
         /\ Len(a.moves) \in Nat /\ Len(a.premoves) \in Nat /\ Turns(a) \in Nat
BY DEF ArgRight, Args, Turns

LEMMA TurnsIs == nmoves + npremoves = Turns(arg)
BY DEF nmoves, npremoves, Turns

LEMMA MaxOfTwo ==
  ASSUME NEW n \in Nat
  PROVE  Max({n, 1}) \in Nat /\ Max({n, 1}) >= n /\ Max({n, 1}) >= 1
<1>1. \E x \in {n, 1} : \A y \in {n, 1} : x >= y
  <2>1. CASE n >= 1
    BY <2>1
  <2>2. CASE n < 1
    BY <2>2
  <2> QED BY <2>1, <2>2
<1> QED BY <1>1 DEF Max

(* A move more on either side.                                             *)
LEMMA CanonicalMore ==
  ASSUME NEW ms \in Seq(MaskMoves), Canonical(ms), NEW m \in MovesAfter(ms)
  PROVE  /\ m \in MaskMoves /\ Append(ms, m) \in Seq(MaskMoves) /\ Canonical(Append(ms, m))
         /\ Len(Append(ms, m)) = Len(ms) + 1
<1>1. m \in MaskMoves /\ (ms # <<>> => allowednextmove(ms[Len(ms)], m))
  BY DEF MovesAfter, MaskMoves
<1>2. ASSUME NEW k \in 1 .. Len(Append(ms, m)) - 1
      PROVE  allowednextmove(Append(ms, m)[k], Append(ms, m)[k+1])
  <2>1. CASE k < Len(ms)
    BY <2>1, <1>2, SMTT(40) DEF Canonical
  <2>2. CASE k = Len(ms)
    BY <2>2, <1>1, <1>2
  <2> QED BY <2>1, <2>2
<1> QED BY <1>1, <1>2 DEF Canonical

AfterMove(a, m) ==
  [cube |-> move(a.cube, m), inverse |-> premove(a.inverse, m),
   moves |-> Append(a.moves, m), premoves |-> a.premoves, lastisnormal |-> TRUE]
AfterPremove(a, m) ==
  [cube |-> premove(a.cube, m), inverse |-> move(a.inverse, m),
   moves |-> a.moves, premoves |-> Append(a.premoves, m), lastisnormal |-> FALSE]

LEMMA MoveMore ==
  ASSUME NEW a, ArgRight(a), Start \in Cubes, NEW m \in MovesAfter(a.moves)
  PROVE  ArgRight(AfterMove(a, m)) /\ Turns(AfterMove(a, m)) = Turns(a) + 1
<1> DEFINE x == After("normal", Start, a.moves)
<1>1. /\ a.moves \in Seq(MaskMoves) /\ a.premoves \in Seq(MaskMoves) /\ Canonical(a.moves)
      /\ Canonical(a.premoves) /\ a.cube \in Cubes /\ a.inverse = inverse(a.cube)
      /\ a.cube = After("inverse", x, a.premoves)
  BY DEF ArgRight, Args, Apply
<1>2. /\ m \in MaskMoves /\ Append(a.moves, m) \in Seq(MaskMoves) /\ Canonical(Append(a.moves, m))
      /\ Len(Append(a.moves, m)) = Len(a.moves) + 1
  BY <1>1, CanonicalMore
<1>3. x \in Cubes
  BY <1>1, AfterType DEF MaskMoves
<1>4. After("normal", Start, Append(a.moves, m)) = move(x, m)
  BY <1>1, <1>2, AfterOneMore DEF Turned
<1> HIDE DEF x
<1>5. After("inverse", move(x, m), a.premoves) = move(a.cube, m)
  BY <1>1, <1>2, <1>3, TurnsCommute DEF MaskMoves
<1>6. Apply(Start, Append(a.moves, m), a.premoves) = move(a.cube, m)
  BY <1>4, <1>5 DEF Apply
<1>7. move(a.cube, m) \in Cubes
  <2>1. Turned("normal", a.cube, m) \in Cubes
    BY <1>1, <1>2, TurnedType DEF MaskMoves
  <2> QED BY <2>1 DEF Turned
<1>8. premove(a.inverse, m) = inverse(move(a.cube, m)) /\ inverse(move(a.cube, m)) \in Cubes
  BY <1>1, <1>2, <1>7, InverseAssumption DEF MaskMoves
<1>9. ArgRight(AfterMove(a, m))
  BY <1>1, <1>2, <1>6, <1>7, <1>8 DEF ArgRight, Args, AfterMove
<1>10. Turns(AfterMove(a, m)) = Len(Append(a.moves, m)) + Len(a.premoves)
  BY DEF Turns, AfterMove
<1>11. Turns(AfterMove(a, m)) = Turns(a) + 1
  <2>1. PICK j \in Nat : j = Len(a.moves)
    BY <1>1
  <2>2. PICK k \in Nat : k = Len(a.premoves)
    BY <1>1
  <2>3. Turns(a) = j + k
    BY <2>1, <2>2 DEF Turns
  <2>4. Turns(AfterMove(a, m)) = (j + 1) + k
    BY <1>2, <1>10, <2>1, <2>2
  <2>5. (j + 1) + k = (j + k) + 1
    OBVIOUS
  <2> QED BY <2>3, <2>4, <2>5
<1> QED BY <1>9, <1>11

LEMMA PremoveMore ==
  ASSUME NEW a, ArgRight(a), Start \in Cubes, NEW m \in MovesAfter(a.premoves)
  PROVE  ArgRight(AfterPremove(a, m)) /\ Turns(AfterPremove(a, m)) = Turns(a) + 1
<1> DEFINE x == After("normal", Start, a.moves)
<1>1. /\ a.moves \in Seq(MaskMoves) /\ a.premoves \in Seq(MaskMoves) /\ Canonical(a.moves)
      /\ Canonical(a.premoves) /\ a.cube \in Cubes /\ a.inverse = inverse(a.cube)
      /\ a.cube = After("inverse", x, a.premoves)
  BY DEF ArgRight, Args, Apply
<1>2. /\ m \in MaskMoves /\ Append(a.premoves, m) \in Seq(MaskMoves)
      /\ Canonical(Append(a.premoves, m)) /\ Len(Append(a.premoves, m)) = Len(a.premoves) + 1
  BY <1>1, CanonicalMore
<1> HIDE DEF x
<1>3. After("inverse", x, Append(a.premoves, m)) = premove(a.cube, m)
  BY <1>1, <1>2, AfterOneMore DEF Turned
<1>4. Apply(Start, a.moves, Append(a.premoves, m)) = premove(a.cube, m)
  BY <1>3 DEF Apply, x
<1>5. premove(a.cube, m) \in Cubes
  BY <1>1, <1>2, InverseAssumption DEF MaskMoves
<1>6. move(a.inverse, m) = inverse(premove(a.cube, m)) /\ inverse(premove(a.cube, m)) \in Cubes
  BY <1>1, <1>2, <1>5, InverseAssumption DEF MaskMoves
<1>7. ArgRight(AfterPremove(a, m))
  BY <1>1, <1>2, <1>4, <1>5, <1>6 DEF ArgRight, Args, AfterPremove
<1>8. Turns(AfterPremove(a, m)) = Len(a.moves) + Len(Append(a.premoves, m))
  BY DEF Turns, AfterPremove
<1>9. Turns(AfterPremove(a, m)) = Turns(a) + 1
  <2>1. PICK j \in Nat : j = Len(a.moves)
    BY <1>1
  <2>2. PICK k \in Nat : k = Len(a.premoves)
    BY <1>1
  <2>3. Turns(a) = j + k
    BY <2>1, <2>2 DEF Turns
  <2>4. Turns(AfterPremove(a, m)) = j + (k + 1)
    BY <1>2, <1>8, <2>1, <2>2
  <2>5. j + (k + 1) = (j + k) + 1
    OBVIOUS
  <2> QED BY <2>3, <2>4, <2>5
<1> QED BY <1>7, <1>9

(* What appendsolution may do.                                             *)
LEMMA AppendCases ==
  ASSUME NEW l
  PROVE  \/ appendsolution(l).list = list /\ appendsolution(l).ret = 0
         \/ /\ appendsolution(l).ret = 1
            /\ \E n, u : appendsolution(l).list =
                 [lines |-> Append(list.lines, l), nsols |-> n,
                  shortest_sol |-> Min({list.shortest_sol, Len(l.moves) + Len(l.premoves)}),
                  used |-> u]
         \/ /\ appendsolution(l).ret \in {0, ERROR_BUFFER_SIZE}
            /\ \E u : appendsolution(l).list = [list EXCEPT !.used = u]
<1> DEFINE ps == Pieces(l)  cut == {k \in DOMAIN ps : NoRoom(ps, k)}
           n1 == list.nsols + 1  u1 == UsedAfter(ps, Len(ps))
           u2 == UsedAfter(ps, Min(cut) - 1)
           r2 == IF ps[Min(cut)].what = "space" THEN 0 ELSE ERROR_BUFFER_SIZE
           full == list.nsols >= req.maxsolutions
           more == [lines |-> Append(list.lines, l), nsols |-> n1,
                    shortest_sol |-> Min({list.shortest_sol, Len(l.moves) + Len(l.premoves)}),
                    used |-> u1]
<1>1. appendsolution(l) =
        IF full THEN [list |-> list, ret |-> 0]
        ELSE IF cut = {} THEN [list |-> more, ret |-> 1]
        ELSE [list |-> [list EXCEPT !.used = u2], ret |-> r2]
  BY DEF appendsolution
<1>2. r2 \in {0, ERROR_BUFFER_SIZE}
  OBVIOUS
<1>3. more = [lines |-> Append(list.lines, l), nsols |-> n1,
              shortest_sol |-> Min({list.shortest_sol, Len(l.moves) + Len(l.premoves)}),
              used |-> u1]
  OBVIOUS
<1> HIDE DEF ps, cut, n1, u1, u2, r2, full, more
<1>4. CASE full
  BY <1>1, <1>4
<1>5. CASE ~full /\ cut = {}
  <2>1. appendsolution(l).ret = 1 /\ appendsolution(l).list = more
    BY <1>1, <1>5
  <2>2. \E n, u : more =
                 [lines |-> Append(list.lines, l), nsols |-> n,
                  shortest_sol |-> Min({list.shortest_sol, Len(l.moves) + Len(l.premoves)}),
                  used |-> u]
    BY <1>3
  <2> QED BY <2>1, <2>2
<1>6. CASE ~full /\ cut # {}
  <2>1. appendsolution(l).ret = r2 /\ appendsolution(l).list = [list EXCEPT !.used = u2]
    BY <1>1, <1>6
  <2> QED BY <1>2, <2>1
<1> QED BY <1>4, <1>5, <1>6

LEMMA AppendRet ==
  ASSUME NEW l
  PROVE  appendsolution(l).ret \in Int
<1> DEFINE v == appendsolution(l).ret
<1>1. v = 0 \/ v = 1 \/ v = ERROR_BUFFER_SIZE
  BY AppendCases, Zenon
<1> HIDE DEF v
<1>2. v \in Int
  BY <1>1 DEF ERROR_BUFFER_SIZE
<1> QED BY <1>2 DEF v

(* The frames of the callers, with a count added to the last.              *)
LEMMA FrameIs ==
  ASSUME NEW s, StackRight(s), NEW k \in 1 .. Len(s)
  PROVE  /\ s[k] \in Frames /\ ArgRight(s[k].arg) /\ Turns(s[k].arg) = k - 1 /\ k <= depth
         /\ s[k].todo \subseteq
              MovesAfter(IF s[k].side = "normal" THEN s[k].arg.moves ELSE s[k].arg.premoves)
BY DEF StackRight, FrameRight

LEMMA StackUpdate ==
  ASSUME NEW s, StackRight(s), s # <<>>, NEW f \in Frames, FrameRight(f, Len(s))
  PROVE  /\ StackRight([s EXCEPT ![Len(s)] = f])
         /\ Len([s EXCEPT ![Len(s)] = f]) = Len(s) /\ Len(s) \in Nat \ {0}
         /\ [s EXCEPT ![Len(s)] = f][Len(s)] = f
<1>1. s \in Seq(Frames) /\ Len(s) \in 1 .. Len(s)
  BY DEF StackRight
<1>2. /\ [s EXCEPT ![Len(s)] = f] \in Seq(Frames)
      /\ Len([s EXCEPT ![Len(s)] = f]) = Len(s)
      /\ \A j \in 1 .. Len(s) : [s EXCEPT ![Len(s)] = f][j] = IF j = Len(s) THEN f ELSE s[j]
  BY <1>1
<1> DEFINE t1 == [s EXCEPT ![Len(s)] = f]
<1> HIDE DEF t1
<1>3. \A k \in 1 .. Len(t1) : FrameRight(t1[k], k)
  <2> TAKE k \in 1 .. Len(t1)
  <2>1. k \in 1 .. Len(s) /\ t1[k] = IF k = Len(s) THEN f ELSE s[k]
    BY <1>2 DEF t1
  <2>2. FrameRight(s[k], k)
    BY <2>1 DEF StackRight
  <2> QED BY <2>1, <2>2
<1>4. StackRight(t1)
  BY <1>2, <1>3 DEF StackRight, t1
<1> QED BY <1>1, <1>2, <1>4 DEF t1

LEMMA StackCounted ==
  ASSUME NEW s, StackRight(s), s # <<>>, NEW v \in Int
  PROVE  /\ StackRight([s EXCEPT ![Len(s)].ret = @ + v])
         /\ Len([s EXCEPT ![Len(s)].ret = @ + v]) = Len(s)
         /\ [s EXCEPT ![Len(s)].ret = @ + v][Len(s)].arg = s[Len(s)].arg
<1> DEFINE f == [s[Len(s)] EXCEPT !.ret = @ + v]
<1>1. s \in Seq(Frames) /\ Len(s) \in 1 .. Len(s)
  BY DEF StackRight
<1>2. s[Len(s)] \in Frames /\ FrameRight(s[Len(s)], Len(s))
  BY <1>1 DEF StackRight
<1>3. /\ f \in Frames /\ f.arg = s[Len(s)].arg /\ f.todo = s[Len(s)].todo
      /\ f.side = s[Len(s)].side
  BY <1>2 DEF Frames
<1>4. FrameRight(f, Len(s))
  BY <1>2, <1>3 DEF FrameRight
<1>5. [s EXCEPT ![Len(s)].ret = @ + v] = [s EXCEPT ![Len(s)] = f]
  OBVIOUS
<1> HIDE DEF f
<1> QED BY <1>3, <1>4, <1>5, StackUpdate

(* The end of a call keeps the invariant.                                  *)
LEMMA ReturnKeeps ==
  ASSUME CallInv, pc \in {"visit", "loop"}, req' = req, gen' = gen,
         NEW s, StackRight(s), s = <<>> => Turns(arg) = 0,
         NEW v \in Int, NEW l, DfsReturn(v, l, s)
  PROVE  CallInv'
<1>1. /\ gen = "done" /\ req \in Requests /\ ArgRight(arg)
      /\ depth \in Nat /\ depth >= 1 /\ depth >= req.minmoves /\ depth <= req.maxmoves
  BY DEF CallInv
<1>2. req.minmoves \in Nat
  BY <1>1, RequestAssumption
<1>3. CASE v < 0
  <2>1. pc' = "returned" /\ arg' = arg /\ depth' = depth
    BY <1>3 DEF DfsReturn, Return
  <2>2. ArgRight(arg)'
    BY <1>1, <2>1, ArgKept
  <2> QED BY <1>1, <2>1, <2>2 DEF CallInv
<1>4. CASE ~(v < 0) /\ s = <<>>
  <2>1. pc' = "depth" /\ arg' = arg /\ depth' = depth + 1 /\ stack' = <<>>
    BY <1>4 DEF DfsReturn
  <2>2. ArgRight(arg)' /\ Turns(arg)' = 0
    BY <1>1, <1>4, <2>1, ArgKept DEF Turns
  <2> QED BY <1>1, <1>2, <2>1, <2>2 DEF CallInv
<1>5. CASE ~(v < 0) /\ s # <<>>
  <2>1. /\ pc' = "loop" /\ arg' = s[Len(s)].arg /\ depth' = depth
        /\ stack' = [s EXCEPT ![Len(s)].ret = @ + v]
    BY <1>5 DEF DfsReturn
  <2>2. /\ StackRight(stack') /\ Len(stack') = Len(s) /\ stack'[Len(s)].arg = s[Len(s)].arg
        /\ Len(s) \in 1 .. Len(s)
    <3>1. Len(s) \in 1 .. Len(s)
      BY <1>5 DEF StackRight
    <3> QED BY <1>5, <2>1, <3>1, StackCounted
  <2>3. ArgRight(s[Len(s)].arg)
    BY <2>2, FrameIs
  <2>4. ArgRight(arg)' /\ StackRight(stack)'
    <3>1. PICK a : a = s[Len(s)].arg
      OBVIOUS
    <3>2. PICK st : st = stack'
      OBVIOUS
    <3>3. ArgRight(a)' /\ StackRight(st)'
      BY <2>1, <2>2, <2>3, <3>1, <3>2, ArgKept, StackKept
    <3> QED BY <2>1, <3>1, <3>2, <3>3 DEF ArgRight, StackRight
  <2>5. stack' # <<>> /\ arg' = Frame'.arg
    BY <2>1, <2>2 DEF Frame
  <2> QED BY <1>1, <2>1, <2>4, <2>5 DEF CallInv
<1> QED BY <1>3, <1>4, <1>5

LEMMA CallInit == Init => CallInv
BY DEF Init, SolveInit, CallInv

LEMMA GenCall ==
  ASSUME CallInv, UNCHANGED solvevars, gen = "done" => gen' = "done"
  PROVE  CallInv'
<1>1. pc # "idle" => (ArgRight(arg)' <=> ArgRight(arg))
  BY ArgKept DEF solvevars, ArgRight, Start
<1>2. StackRight(stack)' <=> StackRight(stack)
  <2>1. PICK st : st = stack
    OBVIOUS
  <2>2. StackRight(st)' <=> StackRight(st)
    BY StackKept DEF solvevars
  <2> QED BY <2>1, <2>2 DEF solvevars, StackRight, FrameRight, ArgRight, Start
<1>3. Frame' = Frame /\ Turns(arg)' = Turns(arg)
  BY DEF solvevars, Frame, Turns
<1> QED BY <1>1, <1>2, <1>3 DEF CallInv, solvevars

LEMMA CallStep ==
  ASSUME CallInv, NEW r \in Requests, solve_coord(r)
  PROVE  CallInv'
<1>1. /\ pc = "idle" /\ gen = "done" /\ gen' = gen /\ req' = r /\ stack' = stack /\ stack = <<>>
      /\ arg' = Root(transform(r.cube, r.t)) /\ depth' = Max({r.minmoves, 1})
      /\ pc' \in {"start", "returned"}
  BY DEF solve_coord, genvars, CallInv, Return
<1>2. /\ transform(r.cube, r.t) \in Cubes
      /\ depth' \in Nat /\ depth' >= 1 /\ depth' >= r.minmoves
  BY <1>1, RequestAssumption, MaxOfTwo
<1> DEFINE c == transform(r.cube, r.t)
<1>3. Apply(c, <<>>, <<>>) = c
  BY AfterNone DEF Apply
<1>4. inverse(c) \in Cubes
  BY <1>2, InverseAssumption
<1>5. Canonical(<<>>)
  BY DEF Canonical
<1>6. Root(c) \in Args /\ Turns(Root(c)) = 0
  BY <1>2, <1>4 DEF Root, Args, Turns
<1>7. ArgRight(arg)' /\ Turns(arg)' = 0
  BY <1>1, <1>2, <1>3, <1>5, <1>6 DEF ArgRight, Root, Start, Turns
<1> QED BY <1>1, <1>2, <1>7 DEF CallInv

LEMMA StartStep ==
  ASSUME CallInv, AlreadySolved \/ NeedsMoves \/ SearchDepth
  PROVE  CallInv'
<1>1. /\ pc \in {"start", "depth"} /\ pc' \in {"depth", "visit", "returned"} /\ gen' = gen
      /\ UNCHANGED <<req, arg, stack, depth>>
      /\ pc' = "visit" => ~solutions_done
  BY DEF AlreadySolved, NeedsMoves, SearchDepth, genvars, Return
<1>2. /\ stack = <<>> /\ Turns(arg) = 0 /\ gen = "done" /\ req \in Requests /\ ArgRight(arg)
      /\ depth \in Nat /\ depth >= 1 /\ depth >= req.minmoves
  BY <1>1 DEF CallInv
<1>3. ArgRight(arg)' /\ Turns(arg)' = 0
  <2>1. ArgRight(arg)' <=> ArgRight(arg)
    BY <1>1 DEF ArgRight, Start
  <2> QED BY <1>1, <1>2, <2>1 DEF Turns
<1>4. pc' = "visit" => depth <= req.maxmoves
  <2>1. req.maxmoves \in Nat
    BY <1>2, RequestAssumption
  <2> QED BY <1>1, <1>2, <2>1 DEF solutions_done
<1>5. StackRight(stack)'
  BY <1>1, <1>2 DEF StackRight
<1> QED BY <1>1, <1>2, <1>3, <1>4, <1>5 DEF CallInv

LEMMA VisitStep ==
  ASSUME CallInv, Visit
  PROVE  CallInv'
<1>1. /\ pc = "visit" /\ gen' = gen /\ req' = req /\ gen = "done" /\ req \in Requests
      /\ ArgRight(arg) /\ StackRight(stack) /\ Len(stack) = Turns(arg) /\ Turns(arg) <= depth
      /\ depth \in Nat /\ depth >= 1 /\ depth >= req.minmoves /\ depth <= req.maxmoves
  BY DEF Visit, CallInv, genvars
<1>2. CASE solve_coord_dfs_stop
  <2>1. DfsReturn(0, list, stack)
    BY <1>2 DEF Visit
  <2> QED BY <1>1, <2>1, ReturnKeeps
<1>3. CASE ~solve_coord_dfs_stop
  <2> DEFINE ts == IF coord_continue_onnormal THEN MovesAfter(arg.moves) ELSE {}
             f == [arg |-> arg, side |-> "normal", ret |-> 0, todo |-> ts]
  <2>1. /\ stack' = Append(stack, f) /\ pc' = "loop" /\ UNCHANGED <<arg, depth>>
    BY <1>3 DEF Visit
  <2>2. Turns(arg) < depth /\ Turns(arg) \in Nat
    <3>1. ~(nmoves + npremoves >= depth)
      BY <1>3 DEF solve_coord_dfs_stop
    <3> QED BY <1>1, <3>1, TurnsIs, ArgIs
  <2>3. ts \subseteq MovesAfter(arg.moves) /\ ts \subseteq MaskMoves
    BY DEF MovesAfter, MaskMoves
  <2> HIDE DEF ts
  <2>4. f \in Frames /\ f.arg = arg
    BY <1>1, <2>3 DEF Frames, ArgRight
  <2>5. FrameRight(f, Len(stack) + 1)
    BY <1>1, <2>2, <2>3 DEF FrameRight
  <2> HIDE DEF f
  <2>6. /\ Append(stack, f) \in Seq(Frames) /\ Len(Append(stack, f)) = Len(stack) + 1
        /\ \A k \in 1 .. Len(stack) : Append(stack, f)[k] = stack[k]
        /\ Append(stack, f)[Len(stack) + 1] = f /\ Len(stack) \in Nat
    BY <1>1, <2>4 DEF StackRight
  <2>7. StackRight(Append(stack, f))
    <3>1. ASSUME NEW k \in 1 .. Len(stack) + 1 PROVE FrameRight(Append(stack, f)[k], k)
      <4>1. CASE k = Len(stack) + 1
        BY <4>1, <2>5, <2>6
      <4>2. CASE k \in 1 .. Len(stack)
        BY <4>2, <1>1, <2>6 DEF StackRight
      <4> QED BY <4>1, <4>2, <2>6
    <3> QED BY <2>6, <3>1 DEF StackRight
  <2>8. StackRight(stack)' /\ ArgRight(arg)'
    <3>1. PICK st : st = stack'
      OBVIOUS
    <3>2. StackRight(st)'
      BY <1>1, <2>1, <2>7, <3>1, StackKept
    <3>3. StackRight(stack)'
      BY <3>1, <3>2 DEF StackRight
    <3>4. ArgRight(arg)' <=> ArgRight(arg)
      BY <1>1, <2>1 DEF ArgRight, Start
    <3> QED BY <1>1, <3>3, <3>4
  <2>9. stack' # <<>> /\ arg' = Frame'.arg
    BY <2>1, <2>4, <2>6 DEF Frame
  <2> QED BY <1>1, <2>1, <2>8, <2>9 DEF CallInv
<1> QED BY <1>2, <1>3

LEMMA VisitSolvedStep ==
  ASSUME CallInv, VisitSolved
  PROVE  CallInv'
<1>1. /\ pc = "visit" /\ gen' = gen /\ req' = req /\ ArgRight(arg)
      /\ StackRight(stack) /\ Len(stack) = Turns(arg)
  BY DEF VisitSolved, CallInv, genvars
<1>2. stack = <<>> => Turns(arg) = 0
  BY <1>1
<1>3. PICK v, l : v \in Int /\ DfsReturn(v, l, stack)
  BY AppendRet DEF VisitSolved
<1> QED BY <1>1, <1>2, <1>3, ReturnKeeps

LEMMA OtherSideStep ==
  ASSUME CallInv, OtherSide
  PROVE  CallInv'
<1> DEFINE ts == IF coord_continue_oninverse THEN MovesAfter(arg.premoves) ELSE {}
           f == [stack[Len(stack)] EXCEPT !.side = "inverse", !.todo = ts]
<1>1. /\ pc = "loop" /\ gen' = gen /\ UNCHANGED <<req, arg, depth, pc>>
      /\ gen = "done" /\ req \in Requests /\ ArgRight(arg) /\ StackRight(stack) /\ stack # <<>>
      /\ arg = Frame.arg
      /\ depth \in Nat /\ depth >= 1 /\ depth >= req.minmoves /\ depth <= req.maxmoves
  BY DEF OtherSide, CallInv, genvars
<1>2. stack' = [stack EXCEPT ![Len(stack)] = f]
  <2>1. stack' = [stack EXCEPT ![Len(stack)].side = "inverse", ![Len(stack)].todo = ts]
    BY DEF OtherSide
  <2> HIDE DEF ts
  <2>2. Len(stack) \in DOMAIN stack
    BY <1>1 DEF StackRight
  <2> QED BY <2>1, <2>2
<1>3. ts \subseteq MovesAfter(arg.premoves) /\ ts \subseteq MaskMoves
  BY DEF MovesAfter, MaskMoves
<1> HIDE DEF ts
<1>4. Len(stack) \in 1 .. Len(stack)
  BY <1>1 DEF StackRight
<1>5. stack[Len(stack)] \in Frames /\ FrameRight(stack[Len(stack)], Len(stack))
  BY <1>1, <1>4 DEF StackRight
<1>6. f \in Frames /\ f.arg = stack[Len(stack)].arg /\ f.side = "inverse" /\ f.todo = ts
  BY <1>3, <1>5 DEF Frames
<1>7. FrameRight(f, Len(stack))
  BY <1>1, <1>3, <1>5, <1>6 DEF FrameRight, Frame
<1> HIDE DEF f
<1>8. /\ StackRight(stack') /\ Len(stack') = Len(stack) /\ stack'[Len(stack)] = f
  BY <1>1, <1>2, <1>6, <1>7, StackUpdate
<1>9. StackRight(stack)' /\ ArgRight(arg)'
  <2>1. PICK st : st = stack'
    OBVIOUS
  <2>2. StackRight(st)'
    BY <1>1, <1>8, <2>1, StackKept
  <2>3. StackRight(stack)'
    BY <2>1, <2>2 DEF StackRight
  <2>4. ArgRight(arg)' <=> ArgRight(arg)
    BY <1>1 DEF ArgRight, Start
  <2> QED BY <1>1, <2>3, <2>4
<1>10. stack' # <<>> /\ arg' = Frame'.arg
  <2>1. arg' = arg /\ arg = f.arg
    BY <1>1, <1>6 DEF Frame
  <2> QED BY <1>4, <1>8, <2>1 DEF Frame
<1> QED BY <1>1, <1>9, <1>10 DEF CallInv

LEMMA TryMoveStep ==
  ASSUME CallInv, TryMove
  PROVE  CallInv'
<1> DEFINE m == Min(Frame.todo)
           f == [stack[Len(stack)] EXCEPT !.todo = @ \ {m}]
           n == IF Frame.side = "normal" THEN AfterMove(arg, m) ELSE AfterPremove(arg, m)
<1>1. /\ pc = "loop" /\ pc' = "visit" /\ gen' = gen /\ UNCHANGED <<req, depth>>
      /\ gen = "done" /\ req \in Requests /\ ArgRight(arg) /\ StackRight(stack) /\ stack # <<>>
      /\ arg = Frame.arg
      /\ depth \in Nat /\ depth >= 1 /\ depth >= req.minmoves /\ depth <= req.maxmoves
      /\ Frame.todo # {}
  BY DEF TryMove, CallInv, genvars
<1>2. arg' = n
  BY DEF TryMove, AfterMove, AfterPremove
<1>3. stack' = [stack EXCEPT ![Len(stack)] = f]
  BY DEF TryMove, Frame
<1>4. Len(stack) \in 1 .. Len(stack)
  BY <1>1 DEF StackRight
<1>5. stack[Len(stack)] \in Frames /\ FrameRight(stack[Len(stack)], Len(stack))
  BY <1>1, <1>4 DEF StackRight
<1>6. /\ Frame \in Frames /\ Turns(arg) = Len(stack) - 1 /\ Len(stack) <= depth
      /\ Frame.todo \subseteq
           MovesAfter(IF Frame.side = "normal" THEN arg.moves ELSE arg.premoves)
      /\ Frame.side \in {"normal", "inverse"}
  BY <1>1, <1>5 DEF FrameRight, Frame, Frames
<1>7. m \in Frame.todo
  <2>1. Frame.todo \subseteq Nat
    BY <1>6, MaskMovesNat DEF Frames
  <2> QED BY <1>1, <2>1, MinIs
<1> HIDE DEF m
<1>8. Start \in Cubes
  BY <1>1, RequestAssumption DEF Start
<1>9. ArgRight(n) /\ Turns(n) = Turns(arg) + 1
  <2>1. CASE Frame.side = "normal"
    <3>1. m \in MovesAfter(arg.moves)
      BY <1>6, <1>7, <2>1
    <3> QED BY <1>1, <1>8, <2>1, <3>1, MoveMore
  <2>2. CASE Frame.side # "normal"
    <3>1. m \in MovesAfter(arg.premoves)
      BY <1>6, <1>7, <2>2
    <3> QED BY <1>1, <1>8, <2>2, <3>1, PremoveMore
  <2> QED BY <2>1, <2>2
<1> HIDE DEF n
<1>10. /\ f \in Frames /\ f.arg = stack[Len(stack)].arg
       /\ f.side = stack[Len(stack)].side /\ f.todo \subseteq stack[Len(stack)].todo
  BY <1>5 DEF Frames
<1>11. FrameRight(f, Len(stack))
  BY <1>5, <1>10 DEF FrameRight
<1> HIDE DEF f
<1>12. StackRight(stack') /\ Len(stack') = Len(stack)
  BY <1>1, <1>3, <1>10, <1>11, StackUpdate
<1>13. StackRight(stack)'
  <2>1. PICK st : st = stack'
    OBVIOUS
  <2>2. StackRight(st)'
    BY <1>1, <1>12, <2>1, StackKept
  <2> QED BY <2>1, <2>2 DEF StackRight
<1>14. ArgRight(arg)' /\ Turns(arg)' = Turns(arg) + 1
  <2>1. PICK a : a = n
    OBVIOUS
  <2>2. ArgRight(a)'
    BY <1>1, <1>9, <2>1, ArgKept
  <2> QED BY <1>2, <1>9, <2>1, <2>2 DEF ArgRight, Turns
<1>15. Turns(arg) + 1 = Len(stack)
  BY <1>4, <1>6
<1> QED BY <1>1, <1>6, <1>12, <1>13, <1>14, <1>15 DEF CallInv

LEMMA StackPopped ==
  ASSUME NEW stk, StackRight(stk), stk # <<>>
  PROVE  /\ StackRight(SubSeq(stk, 1, Len(stk) - 1))
         /\ Len(SubSeq(stk, 1, Len(stk) - 1)) = Len(stk) - 1
         /\ \A k \in 1 .. Len(SubSeq(stk, 1, Len(stk) - 1)) :
               SubSeq(stk, 1, Len(stk) - 1)[k] = stk[k]
<1> DEFINE s == SubSeq(stk, 1, Len(stk) - 1)
<1>1. StackRight(stk)
  OBVIOUS
<1>2. Len(stk) \in 1 .. Len(stk) /\ stk \in Seq(Frames)
  BY <1>1 DEF StackRight
<1>3. /\ s \in Seq(Frames) /\ Len(s) = Len(stk) - 1
      /\ \A k \in 1 .. Len(s) : s[k] = stk[k]
  <2>1. \A k \in 1 .. Len(stk) - 1 : stk[k] \in Frames
    BY <1>2
  <2>2. 1 \in Int /\ Len(stk) - 1 \in Int
    BY <1>2
  <2>3. /\ s \in Seq(Frames)
        /\ Len(s) = IF 1 <= Len(stk) - 1 THEN (Len(stk) - 1) - 1 + 1 ELSE 0
        /\ \A k \in 1 .. (Len(stk) - 1) - 1 + 1 : s[k] = stk[1 + k - 1]
    BY <2>1, <2>2, SubSeqProperties
  <2> HIDE DEF s
  <2>6. Len(stk) \in Nat /\ Len(stk) >= 1
    BY <1>2
  <2>7. PICK n \in Nat : n = Len(stk)
    BY <2>6
  <2>8. Len(s) = IF 1 <= n - 1 THEN (n - 1) - 1 + 1 ELSE 0
    BY <2>3, <2>7
  <2>4. Len(s) = Len(stk) - 1
    BY ONLY <2>6, <2>7, <2>8
  <2>5. \A k \in 1 .. Len(s) : s[k] = stk[k]
    <3> TAKE k \in 1 .. Len(s)
    <3>1. k \in 1 .. (Len(stk) - 1) - 1 + 1 /\ 1 + k - 1 = k
      BY <1>2, <2>4
    <3>2. s[k] = stk[1 + k - 1]
      BY <2>3, <3>1
    <3> QED BY <3>1, <3>2
  <2> QED BY <2>3, <2>4, <2>5
<1> HIDE DEF s
<1>4. StackRight(s)
  <2>1. \A k \in 1 .. Len(s) : k \in 1 .. Len(stk) /\ FrameRight(stk[k], k)
    BY <1>1, <1>2, <1>3 DEF StackRight
  <2> QED BY <1>3, <2>1 DEF StackRight
<1> QED BY <1>3, <1>4 DEF s

LEMMA NoMoreMovesStep ==
  ASSUME CallInv, NoMoreMoves
  PROVE  CallInv'
<1> DEFINE s == SubSeq(stack, 1, Len(stack) - 1)
<1>1. /\ pc = "loop" /\ gen' = gen /\ req' = req /\ StackRight(stack) /\ stack # <<>>
      /\ arg = Frame.arg /\ DfsReturn(Frame.ret, list, s)
  BY DEF NoMoreMoves, CallInv, genvars
<1>2. Len(stack) \in 1 .. Len(stack) /\ stack \in Seq(Frames)
  BY <1>1 DEF StackRight
<1>3. Frame.ret \in Int /\ Turns(arg) = Len(stack) - 1
  BY <1>1, <1>2, FrameIs DEF Frame, Frames
<1>4. StackRight(s) /\ Len(s) = Len(stack) - 1
  BY <1>1, StackPopped
<1> HIDE DEF s
<1>5. s = <<>> => Turns(arg) = 0
  BY <1>3, <1>4
<1> QED BY <1>1, <1>3, <1>4, <1>5, ReturnKeeps

LEMMA GenStops ==
  ASSUME gen = "done", GenNext \/ UNCHANGED genvars
  PROVE  gen' = "done"
BY DEF GenNext, GenClass, GenTable, GenDepth, GenFill, GenDepthEnd, GenReturn, genvars

LEMMA CallInvStep ==
  ASSUME CallInv, [Next]_vars
  PROVE  CallInv'
<1>1. CASE GenNext /\ UNCHANGED solvevars
  BY <1>1, GenStops, GenCall
<1>2. CASE UNCHANGED vars
  <2>1. UNCHANGED solvevars /\ gen' = gen
    BY <1>2 DEF vars, genvars
  <2> QED BY <2>1, GenCall
<1>3. CASE \E r \in Requests : solve_coord(r)
  BY <1>3, CallStep
<1>4. CASE AlreadySolved \/ NeedsMoves \/ SearchDepth
  BY <1>4, StartStep
<1>5. CASE solve_coord_dfs
  BY <1>5, VisitStep, VisitSolvedStep, TryMoveStep, OtherSideStep, NoMoreMovesStep
     DEF solve_coord_dfs
<1> QED BY <1>1, <1>2, <1>3, <1>4, <1>5 DEF Next

LEMMA CallInvTypeOK == CallInv => TypeOK
<1> SUFFICES ASSUME CallInv PROVE TypeOK
  OBVIOUS
<1>1. pc # "idle" => req \in Requests /\ arg.inverse = inverse(arg.cube)
  BY DEF CallInv, ArgRight
<1>2. ASSUME pc = "visit" PROVE nmoves + npremoves <= depth
  BY <1>2, TurnsIs DEF CallInv
<1>3. ASSUME pc = "loop" PROVE nmoves + npremoves <= depth /\ Len(stack) = nmoves + npremoves + 1
  <2>1. StackRight(stack) /\ stack # <<>> /\ arg = stack[Len(stack)].arg /\ depth \in Nat
    BY <1>3 DEF CallInv, Frame
  <2>2. Len(stack) \in 1 .. Len(stack)
    BY <2>1 DEF StackRight
  <2>3. Turns(arg) = Len(stack) - 1 /\ Len(stack) <= depth
    BY <2>1, <2>2, FrameIs
  <2> QED BY <2>1, <2>2, <2>3, TurnsIs
<1> QED BY <1>1, <1>2, <1>3 DEF TypeOK, CallInv

(* While solve_coord_dfs runs, its calls are as deep as the moves that are *)
(* made, never deeper than the depth searched, and the inverse that they   *)
(* carry along is the inverse of their cube.                               *)
THEOREM CoordSolveTypeOK == Spec => []TypeOK
<1>1. Init => CallInv
  BY CallInit
<1>2. CallInv /\ [Next]_vars => CallInv'
  BY CallInvStep
<1> QED BY <1>1, <1>2, CallInvTypeOK, PTL DEF Spec
-----------------------------------------------------------------------------
(* The lines.                                                              *)
Lines == [moves : Seq(Nat), premoves : Seq(Nat)]
LineRight(l) ==
  LET ms == sortparallel_moves(Unwritten(l.moves))
      ps == sortparallel_moves(Unwritten(l.premoves))
  IN  /\ Solves(ms, ps)
      /\ Canonical(l.moves) /\ Canonical(l.premoves)
      /\ are_lastmoves_singlecw(ms) /\ are_lastmoves_singlecw(ps)
      /\ LineLen(l) \in req.minmoves .. req.maxmoves
Ordered(ls, k) ==
  /\ \A j \in 1 .. k-1 : LineLen(ls[j]) <= LineLen(ls[k])
  /\ LineLen(ls[k]) <= LineLen(ls[1]) + req.optimal
SoundLines(ls) == \A k \in 1 .. Len(ls) : LineRight(ls[k]) /\ Ordered(ls, k)

(* The list while depth n is searched.                                     *)
LinesTo(l, n) ==
  /\ l = [lines |-> l.lines, nsols |-> l.nsols, shortest_sol |-> l.shortest_sol, used |-> l.used]
  /\ l.lines \in Seq(Lines) /\ l.shortest_sol \in Nat
  /\ SoundLines(l.lines)
  /\ \A k \in 1 .. Len(l.lines) : LineLen(l.lines[k]) <= n
  /\ l.lines # <<>> => l.shortest_sol <= LineLen(l.lines[1])
Allowed(l, n) == l.lines # <<>> => n <= LineLen(l.lines[1]) + req.optimal

ListInv ==
  /\ pc \in {"idle", "start"} => list.lines = <<>>
  /\ pc # "idle" => LinesTo(list, depth)
  /\ pc \in {"visit", "loop"} => Allowed(list, depth)

LEMMA LinesNat ==
  ASSUME NEW l \in Lines
  PROVE  LineLen(l) \in Nat
<1>1. PICK x \in Nat : x = Len(l.moves)
  BY DEF Lines
<1>2. PICK y \in Nat : y = Len(l.premoves)
  BY DEF Lines
<1>3. LineLen(l) = x + y
  BY <1>1, <1>2 DEF LineLen
<1> QED BY <1>3

LEMMA SoundKept ==
  ASSUME req' = req, NEW ls
  PROVE  SoundLines(ls)' <=> SoundLines(ls)
<1>1. \A l : LineRight(l)' <=> LineRight(l)
  BY DEF LineRight, Solves, Unwritten
<1> QED BY <1>1 DEF SoundLines, Ordered

LEMMA SoundIs == list.lines \in Seq(Lines) => (LinesSound <=> SoundLines(list.lines))
<1> SUFFICES ASSUME list.lines \in Seq(Lines) PROVE LinesSound <=> SoundLines(list.lines)
  OBVIOUS
<1>1. DOMAIN list.lines = 1 .. Len(list.lines)
  OBVIOUS
<1> QED BY <1>1, Zenon DEF LinesSound, SoundLines, LineRight, Ordered

(* A cube with the coordinate 0 looks solved.                              *)
LEMMA ZeroIsGoal ==
  ASSUME GenInv, gen = "done", NEW c \in Cubes, coord(c) = 0
  PROVE  c \in Goal
<1>1. ClassesMade
  BY DEF GenInv
<1>2. CoordDistance(coord(c)) = Distance[c] /\ coord(c) \in Coords
  BY <1>1, DistanceInCoord, CoordIs
<1>3. CoordDistance(coord(c)) = 0
  BY <1>2, DistanceOfCoord
<1> QED BY <1>2, <1>3, DistanceType

LEMMA WrittenNat ==
  ASSUME req \in Requests, NEW ms \in Seq(MaskMoves), Canonical(ms)
  PROVE  Written(ms) \in Seq(Nat)
<1>1. \A k \in 1 .. Len(ms) : Written(ms)[k] \in Nat
  <2> TAKE k \in 1 .. Len(ms)
  <2>1. Written(ms)[k] = OnPaper(req, At(ms, k)) /\ At(ms, k) \in MaskMoves
    BY AtIs
  <2> QED BY <2>1, WritingAssumption DEF MaskMoves
<1>2. Written(ms) = [k \in 1 .. Len(ms) |-> Written(ms)[k]]
  <2>1. Written(ms) = SortedTo(OnPaperAll(ms), Len(ms)) /\ Len(OnPaperAll(ms)) = Len(ms)
    BY WrittenIs
  <2> QED BY <2>1 DEF SortedTo
<1> DEFINE w == Written(ms)
<1> HIDE DEF w
<1>3. w \in Seq(Nat)
  BY <1>1, <1>2 DEF w
<1> QED BY <1>3 DEF w

(* What the solver writes at a cube that looks solved is right.            *)
LEMMA ThisLineRight ==
  ASSUME GenInv, gen = "done", req \in Requests, ArgRight(arg), coord(arg.cube) = 0,
         solution_lastqt_cw, Turns(arg) \in req.minmoves .. req.maxmoves
  PROVE  ThisLine \in Lines /\ LineRight(ThisLine) /\ LineLen(ThisLine) = Turns(arg)
<1> DEFINE l == ThisLine
<1>1. /\ arg.moves \in Seq(MaskMoves) /\ arg.premoves \in Seq(MaskMoves)
      /\ Canonical(arg.moves) /\ Canonical(arg.premoves) /\ arg.cube \in Cubes
      /\ arg.cube = Apply(Start, arg.moves, arg.premoves)
  BY DEF ArgRight, Args
<1>2. l.moves = Written(arg.moves) /\ l.premoves = Written(arg.premoves)
  BY DEF ThisLine
<1>3. l \in Lines
  BY <1>1, WrittenNat DEF ThisLine, Lines
<1> HIDE DEF l
<1>4. /\ sortparallel_moves(Unwritten(l.moves)) = arg.moves
      /\ sortparallel_moves(Unwritten(l.premoves)) = arg.premoves
  BY <1>1, <1>2, WrittenBack
<1>5. /\ Canonical(l.moves) /\ Canonical(l.premoves)
      /\ Len(l.moves) = Len(arg.moves) /\ Len(l.premoves) = Len(arg.premoves)
  BY <1>1, <1>2, WrittenCanonical
<1>6. LineLen(l) = Turns(arg)
  BY <1>5 DEF LineLen, Turns
<1>7. Solves(arg.moves, arg.premoves)
  BY <1>1, ZeroIsGoal DEF Solves, Start
<1>8. LineRight(l)
  BY <1>4, <1>5, <1>6, <1>7 DEF LineRight, solution_lastqt_cw
<1> QED BY <1>3, <1>6, <1>8 DEF l

(* One line more.                                                          *)
LEMMA LinesMore ==
  ASSUME req \in Requests, NEW ls \in Seq(Lines), SoundLines(ls), NEW l \in Lines, LineRight(l),
         \A k \in 1 .. Len(ls) : LineLen(ls[k]) <= LineLen(l),
         ls # <<>> => LineLen(l) <= LineLen(ls[1]) + req.optimal
  PROVE  Append(ls, l) \in Seq(Lines) /\ SoundLines(Append(ls, l))
<1> DEFINE more == Append(ls, l)  n == Len(ls)
<1>1. /\ more \in Seq(Lines) /\ Len(more) = n + 1 /\ n \in Nat /\ more[n + 1] = l
      /\ \A k \in 1 .. n : more[k] = ls[k]
      /\ ls = <<>> <=> n = 0
  OBVIOUS
<1> HIDE DEF more
<1>2. LineLen(l) \in Nat /\ req.optimal \in Nat
  BY LinesNat, RequestAssumption
<1>3. ASSUME NEW k \in 1 .. Len(more) PROVE LineRight(more[k]) /\ Ordered(more, k)
  <2>1. CASE k = n + 1
    <3>1. \A j \in 1 .. k-1 : LineLen(more[j]) <= LineLen(l)
      BY <1>1, <2>1
    <3>2. LineLen(l) <= LineLen(more[1]) + req.optimal
      <4>1. CASE n = 0
        BY <4>1, <1>1, <1>2
      <4>2. CASE n > 0
        <5>1. more[1] = ls[1] /\ ls # <<>>
          BY <4>2, <1>1
        <5> QED BY <5>1
      <4> QED BY <1>1, <4>1, <4>2
    <3> QED BY <1>1, <2>1, <3>1, <3>2 DEF Ordered
  <2>2. CASE k \in 1 .. n
    <3>1. more[k] = ls[k] /\ more[1] = ls[1] /\ \A j \in 1 .. k-1 : more[j] = ls[j]
      BY <1>1, <2>2
    <3>2. LineRight(ls[k]) /\ Ordered(ls, k)
      BY <2>2 DEF SoundLines
    <3> QED BY <3>1, <3>2 DEF Ordered
  <2> QED BY <1>1, <2>1, <2>2
<1> QED BY <1>1, <1>3 DEF SoundLines, more

LEMMA LinesToKept ==
  ASSUME req' = req, NEW l, NEW n
  PROVE  LinesTo(l, n)' <=> LinesTo(l, n)
BY SoundKept DEF LinesTo

LEMMA MinOfTwo ==
  ASSUME NEW a \in Nat, NEW b \in Nat
  PROVE  Min({a, b}) \in Nat /\ Min({a, b}) <= a /\ Min({a, b}) <= b
<1>1. {a, b} \subseteq Nat /\ {a, b} # {}
  OBVIOUS
<1>2. Min({a, b}) \in {a, b} /\ \A x \in {a, b} : Min({a, b}) <= x
  BY <1>1, MinIs
<1> QED BY <1>2

(* appendsolution keeps the lines in order, at the depth that is searched. *)
LEMMA LinesToMore ==
  ASSUME req \in Requests, NEW n \in Nat, LinesTo(list, n), NEW l \in Lines, LineRight(l),
         LineLen(l) = n, Allowed(list, n)
  PROVE  LinesTo(appendsolution(l).list, n) /\ Allowed(appendsolution(l).list, n)
<1> DEFINE a == appendsolution(l).list
<1>1. CASE a = list
  BY <1>1
<1>2. CASE \E u : a = [list EXCEPT !.used = u]
  <2>1. PICK u : a = [list EXCEPT !.used = u]
    BY <1>2
  <2> HIDE DEF a
  <2>2. a = [lines |-> list.lines, nsols |-> list.nsols,
             shortest_sol |-> list.shortest_sol, used |-> u]
    <3>1. list = [lines |-> list.lines, nsols |-> list.nsols,
                  shortest_sol |-> list.shortest_sol, used |-> list.used]
      BY DEF LinesTo
    <3>2. PICK x1, x2, x3, x4 : list = [lines |-> x1, nsols |-> x2, shortest_sol |-> x3, used |-> x4]
      BY <3>1
    <3>3. a = [lines |-> x1, nsols |-> x2, shortest_sol |-> x3, used |-> u]
      BY <2>1, <3>2
    <3> QED BY <3>2, <3>3
  <2> QED BY <2>2 DEF LinesTo, Allowed, a
<1>3. CASE \E m, u : a = [lines |-> Append(list.lines, l), nsols |-> m,
                  shortest_sol |-> Min({list.shortest_sol, Len(l.moves) + Len(l.premoves)}),
                  used |-> u]
  <2> DEFINE low == Min({list.shortest_sol, Len(l.moves) + Len(l.premoves)})
             ls == list.lines
             more == Append(list.lines, l)
  <2>1. PICK m, u : a = [lines |-> more, nsols |-> m, shortest_sol |-> low, used |-> u]
    BY <1>3
  <2>2. low \in Nat /\ low <= list.shortest_sol /\ low <= n
    <3>1. Len(l.moves) + Len(l.premoves) = n /\ list.shortest_sol \in Nat
      BY DEF LineLen, LinesTo
    <3> QED BY <3>1, MinOfTwo
  <2> HIDE DEF low, a, ls, more
  <2>3. /\ ls \in Seq(Lines) /\ SoundLines(ls) /\ list.shortest_sol \in Nat
        /\ \A k \in 1 .. Len(ls) : LineLen(ls[k]) <= n
        /\ ls # <<>> => list.shortest_sol <= LineLen(ls[1])
    BY DEF LinesTo, ls
  <2>4. more \in Seq(Lines) /\ SoundLines(more)
    BY <2>3, LinesMore DEF Allowed, more, ls
  <2>5. /\ Len(more) = Len(ls) + 1 /\ Len(ls) \in Nat /\ more[Len(ls) + 1] = l
        /\ \A k \in 1 .. Len(ls) : more[k] = ls[k]
        /\ ls = <<>> <=> Len(ls) = 0
    BY <2>3 DEF more, ls
  <2>6. \A k \in 1 .. Len(more) : LineLen(more[k]) <= n
    BY <2>3, <2>5
  <2>7. low <= LineLen(more[1])
    <3>1. CASE Len(ls) = 0
      BY <3>1, <2>2, <2>5
    <3>2. CASE Len(ls) > 0
      <4>1. more[1] = ls[1] /\ ls # <<>> /\ 1 \in 1 .. Len(ls)
        BY <3>2, <2>5
      <4>2. LineLen(ls[1]) \in Nat
        BY <2>3, <4>1, LinesNat
      <4> QED BY <2>2, <2>3, <4>1, <4>2
    <3> QED BY <2>5, <3>1, <3>2
  <2>8. LinesTo(a, n)
    BY <2>1, <2>2, <2>4, <2>6, <2>7 DEF LinesTo
  <2>9. Allowed(a, n)
    <3>1. req.optimal \in Nat
      BY RequestAssumption
    <3>2. a.lines = more
      BY <2>1
    <3>3. n <= LineLen(more[1]) + req.optimal
      <4>1. CASE Len(ls) = 0
        BY <4>1, <2>5, <3>1
      <4>2. CASE Len(ls) > 0
        BY <4>2, <2>5 DEF Allowed, ls
      <4> QED BY <2>5, <4>1, <4>2
    <3> QED BY <3>2, <3>3 DEF Allowed
  <2> QED BY <2>8, <2>9 DEF a
<1> QED BY <1>1, <1>2, <1>3, AppendCases, Zenon

LEMMA LinesDeeper ==
  ASSUME NEW l, NEW n \in Nat, NEW m \in Nat, n <= m, LinesTo(l, n)
  PROVE  LinesTo(l, m)
<1>1. \A k \in 1 .. Len(l.lines) : LineLen(l.lines[k]) \in Nat /\ LineLen(l.lines[k]) <= n
  BY LinesNat DEF LinesTo
<1> QED BY <1>1 DEF LinesTo

LEMMA LinesCounted ==
  ASSUME NEW l, NEW n, LinesTo(l, n), NEW v
  PROVE  LinesTo([l EXCEPT !.nsols = v], n)
<1>1. l = [lines |-> l.lines, nsols |-> l.nsols, shortest_sol |-> l.shortest_sol, used |-> l.used]
  BY DEF LinesTo
<1>2. PICK x1, x2, x3, x4 : l = [lines |-> x1, nsols |-> x2, shortest_sol |-> x3, used |-> x4]
  BY <1>1
<1>3. [l EXCEPT !.nsols = v] = [lines |-> x1, nsols |-> v, shortest_sol |-> x3, used |-> x4]
  BY <1>2
<1> QED BY <1>2, <1>3 DEF LinesTo

LEMMA ReturnLists ==
  ASSUME depth \in Nat, req' = req, NEW l, LinesTo(l, depth), Allowed(l, depth),
         NEW s, NEW v, DfsReturn(v, l, s)
  PROVE  ListInv'
<1>1. CASE v < 0
  <2>1. pc' = "returned" /\ list' = l /\ depth' = depth
    BY <1>1 DEF DfsReturn, Return
  <2>2. LinesTo(l, depth)'
    <3>1. PICK n : n = depth
      OBVIOUS
    <3>2. LinesTo(l, n)'
      BY <3>1, LinesToKept
    <3> QED BY <2>1, <3>1, <3>2
  <2>3. LinesTo(list, depth)'
    BY <2>1, <2>2 DEF LinesTo
  <2> QED BY <2>1, <2>3 DEF ListInv
<1>2. CASE ~(v < 0) /\ s = <<>>
  <2>1. /\ pc' = "depth" /\ list' = [l EXCEPT !.nsols = @ + v] /\ depth' = depth + 1
    BY <1>2 DEF DfsReturn
  <2>2. PICK n, a : n = depth + 1 /\ a = [l EXCEPT !.nsols = @ + v]
    OBVIOUS
  <2>3. LinesTo(a, n)
    <3>1. n \in Nat /\ depth <= n
      BY <2>2
    <3>2. LinesTo(l, n)
      BY <3>1, LinesDeeper
    <3> QED BY <2>2, <3>2, LinesCounted
  <2>4. LinesTo(a, n)'
    BY <2>3, LinesToKept
  <2>5. LinesTo(list, depth)'
    BY <2>1, <2>2, <2>4 DEF LinesTo
  <2> QED BY <2>1, <2>5 DEF ListInv
<1>3. CASE ~(v < 0) /\ s # <<>>
  <2>1. pc' = "loop" /\ list' = l /\ depth' = depth
    BY <1>3 DEF DfsReturn
  <2>2. LinesTo(l, depth)'
    <3>1. PICK n : n = depth
      OBVIOUS
    <3>2. LinesTo(l, n)'
      BY <3>1, LinesToKept
    <3> QED BY <2>1, <3>1, <3>2
  <2>3. LinesTo(list, depth)'
    BY <2>1, <2>2 DEF LinesTo
  <2>4. Allowed(list, depth)'
    BY <2>1 DEF Allowed
  <2> QED BY <2>1, <2>3, <2>4 DEF ListInv
<1> QED BY <1>1, <1>2, <1>3

LEMMA ListInit == Init => ListInv
BY DEF Init, SolveInit, ListInv, solution_list_init

(* The steps that leave the list, the request and the depth as they are.   *)
LEMMA ListKept ==
  ASSUME CallInv, ListInv, UNCHANGED <<req, list, depth>>,
         pc' \in {"idle", "start"} => pc \in {"idle", "start"},
         pc # "idle" \/ pc' = "idle",
         pc' \in {"visit", "loop"} => pc \in {"visit", "loop"} \/ Allowed(list, depth)
  PROVE  ListInv'
<1>1. pc' \in {"idle", "start"} => list.lines = <<>>
  BY DEF ListInv
<1>2. pc' # "idle" => LinesTo(list, depth)'
  <2> SUFFICES ASSUME pc' # "idle" PROVE LinesTo(list, depth)'
    OBVIOUS
  <2>1. LinesTo(list, depth)
    BY DEF ListInv
  <2>2. PICK l, n : l = list /\ n = depth
    OBVIOUS
  <2>3. LinesTo(l, n)'
    BY <2>1, <2>2, LinesToKept
  <2> QED BY <2>2, <2>3 DEF LinesTo
<1>3. pc' \in {"visit", "loop"} => Allowed(list, depth)'
  BY DEF ListInv, Allowed
<1> QED BY <1>1, <1>2, <1>3 DEF ListInv

LEMMA ListStep ==
  ASSUME GenInv, CallInv, ListInv, [Next]_vars
  PROVE  ListInv'
<1>1. CASE UNCHANGED solvevars
  BY <1>1, ListKept DEF solvevars
<1>2. CASE \E r \in Requests : solve_coord(r)
  <2>1. PICK r \in Requests : solve_coord(r)
    BY <1>2
  <2>2. list' = solution_list_init /\ pc' \in {"start", "returned"}
    BY <2>1 DEF solve_coord, Return
  <2>3. LinesTo(list, depth)'
    BY <2>2 DEF LinesTo, solution_list_init, SoundLines, MAXLEN
  <2> QED BY <2>2, <2>3 DEF ListInv, solution_list_init
<1>3. CASE AlreadySolved
  <2>1. /\ pc = "start" /\ pc' = "returned" /\ UNCHANGED <<req, arg, depth>>
        /\ coord(arg.cube) = 0
        /\ list' = list \/ (~(req.minmoves > 0) /\ list' = appendsolution(ThisLine).list)
    BY <1>3 DEF AlreadySolved, Return
  <2>2. /\ gen = "done" /\ req \in Requests /\ ArgRight(arg) /\ Turns(arg) = 0
        /\ depth \in Nat /\ list.lines = <<>> /\ LinesTo(list, depth)
    BY <2>1 DEF CallInv, ListInv
  <2>3. CASE list' = list
    BY <2>1, <2>3, ListKept
  <2>4. CASE ~(req.minmoves > 0) /\ list' = appendsolution(ThisLine).list
    <3>1. req.minmoves \in Nat /\ req.maxmoves \in Nat
      BY <2>2, RequestAssumption
    <3>2. Turns(arg) \in req.minmoves .. req.maxmoves
      BY <2>2, <2>4, <3>1
    <3>3. solution_lastqt_cw
      <4>1. arg.moves \in Seq(MaskMoves) /\ arg.premoves \in Seq(MaskMoves)
        BY <2>2, ArgIs
      <4>2. Len(arg.moves) = 0 /\ Len(arg.premoves) = 0
        <5>1. PICK x \in Nat : x = Len(arg.moves)
          BY <4>1
        <5>2. PICK y \in Nat : y = Len(arg.premoves)
          BY <4>1
        <5>3. x + y = 0
          BY <2>2, <5>1, <5>2 DEF Turns
        <5>4. x = 0 /\ y = 0
          BY <5>3
        <5> QED BY <5>1, <5>2, <5>4
      <4> QED BY <4>2 DEF solution_lastqt_cw, are_lastmoves_singlecw
    <3>4. ThisLine \in Lines /\ LineRight(ThisLine) /\ LineLen(ThisLine) = 0
      BY <2>1, <2>2, <3>2, <3>3, ThisLineRight
    <3>5. LinesTo(list, 0) /\ Allowed(list, 0)
      BY <2>2 DEF LinesTo, Allowed
    <3>6. LinesTo(appendsolution(ThisLine).list, 0)
      BY <2>2, <3>4, <3>5, LinesToMore
    <3>7. LinesTo(appendsolution(ThisLine).list, depth)
      BY <2>2, <3>6, LinesDeeper
    <3>8. PICK l, n : l = appendsolution(ThisLine).list /\ n = depth
      OBVIOUS
    <3>9. LinesTo(l, n)'
      BY <2>1, <3>7, <3>8, LinesToKept
    <3>10. LinesTo(list, depth)'
      BY <2>1, <2>4, <3>8, <3>9 DEF LinesTo
    <3> QED BY <2>1, <3>10 DEF ListInv
  <2> QED BY <2>1, <2>3, <2>4
<1>4. CASE NeedsMoves
  BY <1>4, ListKept DEF NeedsMoves
<1>5. CASE SearchDepth
  <2>1. /\ pc = "depth" /\ UNCHANGED <<req, list, depth>> /\ pc' \in {"visit", "returned"}
        /\ pc' = "visit" => ~solutions_done
    BY <1>5 DEF SearchDepth, Return
  <2>2. req \in Requests /\ depth \in Nat /\ LinesTo(list, depth)
    BY <2>1 DEF CallInv, ListInv
  <2>3. pc' = "visit" => Allowed(list, depth)
    <3> SUFFICES ASSUME pc' = "visit", list.lines # <<>>
                 PROVE depth <= LineLen(list.lines[1]) + req.optimal
      BY DEF Allowed
    <3>1. ~(depth > list.shortest_sol + req.optimal)
      BY <2>1 DEF solutions_done
    <3>2. list.shortest_sol <= LineLen(list.lines[1]) /\ list.shortest_sol \in Nat
      BY <2>2 DEF LinesTo
    <3>3. LineLen(list.lines[1]) \in Nat /\ req.optimal \in Nat
      <4>1. list.lines[1] \in Lines
        BY <2>2 DEF LinesTo
      <4> QED BY <2>2, <4>1, LinesNat, RequestAssumption
    <3> QED BY <2>2, <3>1, <3>2, <3>3
  <2> QED BY <2>1, <2>3, ListKept
<1>6. CASE Visit
  <2>1. pc = "visit" /\ req' = req /\ depth \in Nat /\ LinesTo(list, depth) /\ Allowed(list, depth)
    BY <1>6 DEF Visit, CallInv, ListInv
  <2>2. CASE solve_coord_dfs_stop
    <3>1. DfsReturn(0, list, stack)
      BY <1>6, <2>2 DEF Visit
    <3> QED BY <2>1, <3>1, ReturnLists
  <2>3. CASE ~solve_coord_dfs_stop
    <3>1. pc' = "loop" /\ UNCHANGED <<list, depth>>
      BY <1>6, <2>3 DEF Visit
    <3> QED BY <2>1, <3>1, ListKept
  <2> QED BY <2>2, <2>3
<1>7. CASE VisitSolved
  <2>1. /\ pc = "visit" /\ req' = req /\ depth \in Nat /\ LinesTo(list, depth)
        /\ Allowed(list, depth) /\ coord(arg.cube) = 0 /\ gen = "done" /\ req \in Requests
        /\ ArgRight(arg) /\ depth >= req.minmoves /\ depth <= req.maxmoves
    BY <1>7 DEF VisitSolved, CallInv, ListInv
  <2>2. CASE ~coord_solution_admissible
    <3>1. DfsReturn(0, list, stack)
      BY <1>7, <2>2 DEF VisitSolved
    <3> QED BY <2>1, <3>1, ReturnLists
  <2>3. CASE coord_solution_admissible
    <3>1. Turns(arg) = depth /\ solution_lastqt_cw
      BY <2>3, TurnsIs DEF coord_solution_admissible
    <3>2. Turns(arg) \in req.minmoves .. req.maxmoves
      <4>1. req.minmoves \in Nat /\ req.maxmoves \in Nat
        BY <2>1, RequestAssumption
      <4> QED BY <2>1, <3>1, <4>1
    <3>3. ThisLine \in Lines /\ LineRight(ThisLine) /\ LineLen(ThisLine) = depth
      BY <2>1, <3>1, <3>2, ThisLineRight
    <3>4. PICK a : a = appendsolution(ThisLine)
      OBVIOUS
    <3>5. LinesTo(a.list, depth) /\ Allowed(a.list, depth)
      BY <2>1, <3>3, <3>4, LinesToMore
    <3>6. DfsReturn(a.ret, a.list, stack)
      BY <1>7, <2>3, <3>4 DEF VisitSolved
    <3> QED BY <2>1, <3>5, <3>6, ReturnLists
  <2> QED BY <2>2, <2>3
<1>8. CASE TryMove
  BY <1>8, ListKept DEF TryMove
<1>9. CASE OtherSide
  BY <1>9, ListKept DEF OtherSide
<1>10. CASE NoMoreMoves
  <2>1. pc = "loop" /\ req' = req /\ depth \in Nat /\ LinesTo(list, depth) /\ Allowed(list, depth)
    BY <1>10 DEF NoMoreMoves, CallInv, ListInv
  <2>2. PICK v, s : DfsReturn(v, list, s)
    BY <1>10 DEF NoMoreMoves
  <2> QED BY <2>1, <2>2, ReturnLists
<1> QED BY <1>1, <1>2, <1>3, <1>4, <1>5, <1>6, <1>7, <1>8, <1>9, <1>10
        DEF Next, solve_coord_dfs, vars

LEMMA ListSound == ListInv => LinesSound
<1> SUFFICES ASSUME ListInv PROVE LinesSound
  OBVIOUS
<1>1. CASE pc = "idle"
  BY <1>1 DEF ListInv, LinesSound
<1>2. CASE pc # "idle"
  BY <1>2, SoundIs DEF ListInv, LinesTo
<1> QED BY <1>1, <1>2

(* Whatever the call, every line that appendsolution writes solves the     *)
(* coordinate of the cube that was given, as it was given and held, in     *)
(* canonical order on either side, ending on no half turn or               *)
(* counterclockwise one; the lines come in order of length, within the     *)
(* limits of the call and of the shortest one.                             *)
THEOREM CoordLinesSound == Spec => []LinesSound
<1>1. Init => GenInv /\ CallInv /\ ListInv
  BY GenInitInv, CallInit, ListInit DEF Init
<1>2. GenInv /\ CallInv /\ ListInv /\ [Next]_vars => (GenInv /\ CallInv /\ ListInv)'
  BY GenInvStep, CallInvStep, ListStep
<1> QED BY <1>1, <1>2, ListSound, PTL DEF Spec
-----------------------------------------------------------------------------
(* The way to a node of the search.  A node is a pair of sequences and the *)
(* side of its last move; on the way to it the moves of the other side     *)
(* come first, since the side changes at most once.                        *)
NodeRight(n) ==
  /\ n.moves \in Seq(MaskMoves) /\ n.premoves \in Seq(MaskMoves) /\ n.lastisnormal \in BOOLEAN
  /\ Canonical(n.moves) /\ Canonical(n.premoves)
SideAt(n, k) ==
  IF n.lastisnormal THEN IF k <= Len(n.premoves) THEN "inverse" ELSE "normal"
  ELSE IF k <= Len(n.moves) THEN "normal" ELSE "inverse"
MoveAt(n, k) ==
  IF n.lastisnormal
  THEN IF k <= Len(n.premoves) THEN n.premoves[k] ELSE n.moves[k - Len(n.premoves)]
  ELSE IF k <= Len(n.moves) THEN n.moves[k] ELSE n.premoves[k - Len(n.moves)]
SameStep(n, a, k) == SideAt(n, k) = SideAt(a, k) /\ MoveAt(n, k) = MoveAt(a, k)
Follows(n, a, k) == \A j \in 1 .. k : SameStep(n, a, j)

(* The side may change early in a search of depth lim; GoesOn: a move on a   *)
(* side, from a node.                                                      *)
Half(lim) == (lim + 1) \div 2
Legal(n, lim) ==
  /\ n.lastisnormal =>
       n.premoves = <<>> \/ (n.moves # <<>> /\ Len(n.premoves) < Half(lim))
  /\ ~n.lastisnormal =>
       n.premoves # <<>> /\ (n.moves = <<>> \/ Len(n.moves) <= Half(lim))
GoesOn(n, side, lim) ==
  IF side = "normal" THEN n.lastisnormal \/ (n.moves = <<>> /\ Len(n.premoves) < Half(lim))
  ELSE ~n.lastisnormal \/ (n.premoves = <<>> /\ Len(n.moves) <= Half(lim))

LEMMA ArgNode ==
  ASSUME NEW a, ArgRight(a)
  PROVE  NodeRight(a)
BY DEF ArgRight, Args, NodeRight

LEMMA NodeTurns ==
  ASSUME NEW n, NodeRight(n)
  PROVE  \E x, y \in Nat : x = Len(n.moves) /\ y = Len(n.premoves) /\ Turns(n) = x + y
<1>1. PICK x \in Nat : x = Len(n.moves)
  BY DEF NodeRight
<1>2. PICK y \in Nat : y = Len(n.premoves)
  BY DEF NodeRight
<1>3. Turns(n) = x + y
  BY <1>1, <1>2 DEF Turns
<1> QED BY <1>1, <1>2, <1>3

LEMMA MoveGoesOn ==
  ASSUME NEW a, NodeRight(a), NEW lim \in Nat, Legal(a, lim), GoesOn(a, "normal", lim),
         NEW m \in MaskMoves
  PROVE  /\ Legal(AfterMove(a, m), lim)
         /\ Follows(AfterMove(a, m), a, Turns(a))
         /\ SideAt(AfterMove(a, m), Turns(a) + 1) = "normal"
         /\ MoveAt(AfterMove(a, m), Turns(a) + 1) = m
<1>1. PICK x \in Nat, y \in Nat : x = Len(a.moves) /\ y = Len(a.premoves) /\ Turns(a) = x + y
  BY NodeTurns
<1> DEFINE b == AfterMove(a, m)
<1>2. /\ b.moves = Append(a.moves, m) /\ b.premoves = a.premoves /\ b.lastisnormal = TRUE
      /\ Len(b.moves) = x + 1 /\ Len(b.premoves) = y /\ b.moves # <<>> /\ b.moves[x + 1] = m
      /\ \A k \in 1 .. x : b.moves[k] = a.moves[k]
  BY <1>1 DEF AfterMove, NodeRight
<1> HIDE DEF b
<1>3. a.moves = <<>> <=> x = 0
  BY <1>1 DEF NodeRight
<1>4. a.premoves = <<>> <=> y = 0
  BY <1>1 DEF NodeRight
<1>5. ~a.lastisnormal => x = 0
  BY <1>3 DEF GoesOn
<1>6. Legal(b, lim)
  BY <1>2 DEF Legal, GoesOn
<1>7. ASSUME NEW k \in 1 .. x + y PROVE SameStep(b, a, k)
  <2>1. CASE a.lastisnormal
    <3>1. CASE k <= y
      BY <2>1, <3>1, <1>1, <1>2 DEF SameStep, SideAt, MoveAt
    <3>2. CASE k > y
      <4>1. k - y \in 1 .. x /\ ~(k <= y)
        BY <3>2
      <4> QED BY <2>1, <4>1, <1>1, <1>2 DEF SameStep, SideAt, MoveAt
    <3> QED BY <3>1, <3>2
  <2>2. CASE ~a.lastisnormal
    <3>1. x = 0 /\ k <= y /\ ~(k <= x) /\ k - x = k
      BY <2>2, <1>5
    <3> QED BY <2>2, <3>1, <1>1, <1>2 DEF SameStep, SideAt, MoveAt
  <2> QED BY <2>1, <2>2
<1>8. ~(x + y + 1 <= y) /\ x + y + 1 - y = x + 1
  OBVIOUS
<1>9. SideAt(b, x + y + 1) = "normal" /\ MoveAt(b, x + y + 1) = m
  <2>1. PICK z : z = x + y + 1
    OBVIOUS
  <2>2. ~(z <= Len(b.premoves)) /\ b.moves[z - Len(b.premoves)] = m
    BY <1>2, <1>8, <2>1
  <2>3. b.lastisnormal = TRUE
    BY <1>2
  <2>4. SideAt(b, z) = "normal" /\ MoveAt(b, z) = m
    BY <2>2, <2>3, Zenon DEF SideAt, MoveAt
  <2> QED BY <2>1, <2>4
<1> QED BY <1>1, <1>6, <1>7, <1>9 DEF Follows, b

LEMMA PremoveGoesOn ==
  ASSUME NEW a, NodeRight(a), NEW lim \in Nat, Legal(a, lim), GoesOn(a, "inverse", lim),
         NEW m \in MaskMoves
  PROVE  /\ Legal(AfterPremove(a, m), lim)
         /\ Follows(AfterPremove(a, m), a, Turns(a))
         /\ SideAt(AfterPremove(a, m), Turns(a) + 1) = "inverse"
         /\ MoveAt(AfterPremove(a, m), Turns(a) + 1) = m
<1>1. PICK x \in Nat, y \in Nat : x = Len(a.moves) /\ y = Len(a.premoves) /\ Turns(a) = x + y
  BY NodeTurns
<1> DEFINE b == AfterPremove(a, m)
<1>2. /\ b.premoves = Append(a.premoves, m) /\ b.moves = a.moves /\ b.lastisnormal = FALSE
      /\ Len(b.premoves) = y + 1 /\ Len(b.moves) = x /\ b.premoves # <<>> /\ b.premoves[y + 1] = m
      /\ \A k \in 1 .. y : b.premoves[k] = a.premoves[k]
  BY <1>1 DEF AfterPremove, NodeRight
<1> HIDE DEF b
<1>3. a.moves = <<>> <=> x = 0
  BY <1>1 DEF NodeRight
<1>4. a.premoves = <<>> <=> y = 0
  BY <1>1 DEF NodeRight
<1>5. a.lastisnormal => y = 0
  BY <1>4 DEF GoesOn
<1>6. Legal(b, lim)
  BY <1>2 DEF Legal, GoesOn
<1>7. ASSUME NEW k \in 1 .. x + y PROVE SameStep(b, a, k)
  <2>1. CASE ~a.lastisnormal
    <3>1. CASE k <= x
      BY <2>1, <3>1, <1>1, <1>2 DEF SameStep, SideAt, MoveAt
    <3>2. CASE k > x
      <4>1. k - x \in 1 .. y /\ ~(k <= x)
        BY <3>2
      <4> QED BY <2>1, <4>1, <1>1, <1>2 DEF SameStep, SideAt, MoveAt
    <3> QED BY <3>1, <3>2
  <2>2. CASE a.lastisnormal
    <3>1. y = 0 /\ k <= x /\ ~(k <= y) /\ k - y = k
      BY <2>2, <1>5
    <3> QED BY <2>2, <3>1, <1>1, <1>2 DEF SameStep, SideAt, MoveAt
  <2> QED BY <2>1, <2>2
<1>8. ~(x + y + 1 <= x) /\ x + y + 1 - x = y + 1
  OBVIOUS
<1>9. SideAt(b, x + y + 1) = "inverse" /\ MoveAt(b, x + y + 1) = m
  <2>1. PICK z : z = x + y + 1
    OBVIOUS
  <2>2. ~(z <= Len(b.moves)) /\ b.premoves[z - Len(b.moves)] = m
    BY <1>2, <1>8, <2>1
  <2>3. b.lastisnormal = FALSE
    BY <1>2
  <2>4. SideAt(b, z) = "inverse" /\ MoveAt(b, z) = m
    BY <2>2, <2>3, Zenon DEF SideAt, MoveAt
  <2> QED BY <2>1, <2>4
<1> QED BY <1>1, <1>6, <1>7, <1>9 DEF Follows, b

(* Only one node has two ways, and only with one move more on the normal   *)
(* side.                                                                   *)
LEMMA TwoWays ==
  ASSUME NEW n, NEW o, NodeRight(n), NEW lim \in Nat, lim >= 1, Legal(n, lim), Legal(o, lim),
         Turns(n) = lim, o.moves = n.moves, o.premoves = n.premoves,
         o.lastisnormal # n.lastisnormal, o.lastisnormal \in BOOLEAN
  PROVE  n.premoves # <<>> /\ Len(n.moves) = Len(n.premoves) + 1
<1>1. PICK x \in Nat, y \in Nat : x = Len(n.moves) /\ y = Len(n.premoves) /\ Turns(n) = x + y
  BY NodeTurns
<1>2. n.moves = <<>> <=> x = 0
  BY <1>1 DEF NodeRight
<1>3. n.premoves = <<>> <=> y = 0
  BY <1>1 DEF NodeRight
<1>4. /\ y = 0 \/ (x # 0 /\ y < Half(lim))
      /\ y # 0 /\ (x = 0 \/ x <= Half(lim))
  <2>1. n.lastisnormal \in BOOLEAN
    BY DEF NodeRight
  <2> QED BY <1>1, <1>2, <1>3, <2>1 DEF Legal
<1>5. y # 0 /\ x = y + 1
  <2>1. PICK h \in Int : h = Half(lim) /\ (2 * h = lim \/ 2 * h = lim + 1)
    BY DEF Half
  <2>2. x + y = lim /\ y # 0 /\ x # 0 /\ y < h /\ x <= h
    BY <1>1, <1>4, <2>1
  <2> QED BY <2>1, <2>2
<1> QED BY <1>1, <1>3, <1>5

(* Where the search stands: a on the way below the frames s.               *)
TrailRight(s, a, lim) ==
  /\ Legal(a, lim)
  /\ \A k \in 1 .. Len(s) :
       /\ Legal(s[k].arg, lim)
       /\ s[k].todo # {} => GoesOn(s[k].arg, s[k].side, lim)
       /\ Follows(s[k].arg, a, k-1)
       /\ k <= Turns(a) => SideAt(a, k) = s[k].side /\ MoveAt(a, k) \notin s[k].todo

(* A node is still ahead below a frame when its way leaves the way of the  *)
(* search there by a move that is left to try.                             *)
LeavesAt(n, f, k) ==
  IF SideAt(n, k) = f.side THEN MoveAt(n, k) \in f.todo ELSE f.side = "normal"
AheadIn(n, s, a) == \E k \in 1 .. Len(s) : Follows(n, a, k-1) /\ LeavesAt(n, s[k], k)
Ahead(n, s, a, p) ==
  \/ p \in {"start", "depth"}
  \/ p = "visit" /\ Follows(n, a, Turns(a))
  \/ AheadIn(n, s, a)

SameFrames(s, u) ==
  /\ Len(s) = Len(u)
  /\ \A k \in 1 .. Len(s) :
        s[k].arg = u[k].arg /\ s[k].side = u[k].side /\ s[k].todo = u[k].todo

LEMMA FollowsLess ==
  ASSUME NEW n, NEW a, NEW h \in Int, NEW j \in Int, h <= j, Follows(n, a, j)
  PROVE  Follows(n, a, h)
<1>1. \A k \in 1 .. h : k \in 1 .. j
  OBVIOUS
<1> QED BY <1>1 DEF Follows

LEMMA FollowsSame ==
  ASSUME NEW n, NEW a, NEW b, NEW h \in Int, Follows(a, b, h)
  PROVE  Follows(n, a, h) <=> Follows(n, b, h)
BY DEF Follows, SameStep

LEMMA FramesSame ==
  ASSUME NEW s, NEW u, SameFrames(s, u), NEW a, NEW lim
  PROVE  /\ TrailRight(s, a, lim) <=> TrailRight(u, a, lim)
         /\ \A n : AheadIn(n, s, a) <=> AheadIn(n, u, a)
<1>1. TrailRight(s, a, lim) <=> TrailRight(u, a, lim)
  BY DEF SameFrames, TrailRight
<1>2. ASSUME NEW n PROVE AheadIn(n, s, a) <=> AheadIn(n, u, a)
  BY DEF SameFrames, AheadIn, LeavesAt
<1> QED BY <1>1, <1>2

(* Back in the call that made the move: its own node is the way.           *)
LEMMA TrailBack ==
  ASSUME NEW s, StackRight(s), s # <<>>, NEW a, NEW lim, TrailRight(s, a, lim),
         Turns(a) \in {Len(s), Len(s) - 1}
  PROVE  /\ TrailRight(s, s[Len(s)].arg, lim)
         /\ \A n : AheadIn(n, s, s[Len(s)].arg) <=> AheadIn(n, s, a)
<1> DEFINE b == s[Len(s)].arg
<1>1. PICK l \in Nat : l = Len(s) /\ l >= 1
  BY DEF StackRight
<1>2. Turns(b) = l - 1 /\ Legal(b, lim) /\ Follows(b, a, l - 1)
  <2>1. l \in 1 .. Len(s)
    BY <1>1
  <2>2. Turns(s[l].arg) = l - 1
    BY <2>1, FrameIs
  <2> QED BY <1>1, <2>1, <2>2 DEF TrailRight
<1> HIDE DEF b
<1>3. ASSUME NEW k \in 1 .. l
      PROVE  /\ Follows(b, a, k-1)
             /\ \A n : Follows(n, b, k-1) <=> Follows(n, a, k-1)
  <2>1. k - 1 \in Int /\ l - 1 \in Int /\ k - 1 <= l - 1
    OBVIOUS
  <2>2. Follows(b, a, k-1)
    BY <1>2, <2>1, FollowsLess
  <2> QED BY <2>1, <2>2, FollowsSame
<1>4. ASSUME NEW k \in 1 .. l
      PROVE  /\ Legal(s[k].arg, lim)
             /\ s[k].todo # {} => GoesOn(s[k].arg, s[k].side, lim)
             /\ Follows(s[k].arg, b, k-1)
             /\ k <= Turns(b) => SideAt(b, k) = s[k].side /\ MoveAt(b, k) \notin s[k].todo
  <2>1. /\ Legal(s[k].arg, lim)
        /\ s[k].todo # {} => GoesOn(s[k].arg, s[k].side, lim)
        /\ Follows(s[k].arg, a, k-1)
        /\ k <= Turns(a) => SideAt(a, k) = s[k].side /\ MoveAt(a, k) \notin s[k].todo
    BY <1>1 DEF TrailRight
  <2>2. Follows(s[k].arg, b, k-1)
    BY <1>3, <2>1
  <2>3. ASSUME k <= Turns(b) PROVE SideAt(b, k) = s[k].side /\ MoveAt(b, k) \notin s[k].todo
    <3>1. k \in 1 .. l - 1 /\ k <= Turns(a)
      BY <1>1, <1>2, <2>3
    <3>2. SameStep(b, a, k)
      BY <1>2, <3>1 DEF Follows
    <3> QED BY <2>1, <3>1, <3>2 DEF SameStep
  <2> QED BY <2>1, <2>2, <2>3
<1>5. TrailRight(s, b, lim)
  BY <1>1, <1>2, <1>4 DEF TrailRight
<1>6. ASSUME NEW n PROVE AheadIn(n, s, b) <=> AheadIn(n, s, a)
  BY <1>1, <1>3 DEF AheadIn
<1> QED BY <1>5, <1>6 DEF b

(* A call more, on the normal side first.                                  *)
LEMMA TrailPush ==
  ASSUME NEW s, StackRight(s), NEW a, NEW lim, TrailRight(s, a, lim), Turns(a) = Len(s),
         NEW f \in Frames, f.arg = a, f.side = "normal",
         f.todo # {} => GoesOn(a, "normal", lim)
  PROVE  /\ TrailRight(Append(s, f), a, lim)
         /\ \A n : AheadIn(n, Append(s, f), a)
                   <=> AheadIn(n, s, a) \/ (/\ Follows(n, a, Turns(a))
                                            /\ LeavesAt(n, f, Len(s) + 1))
<1> DEFINE u == Append(s, f)
<1>1. PICK l \in Nat : l = Len(s)
  BY DEF StackRight
<1>2. Len(u) = l + 1 /\ u[l + 1] = f /\ \A k \in 1 .. l : u[k] = s[k]
  BY <1>1 DEF StackRight
<1> HIDE DEF u
<1>3. Follows(a, a, l)
  BY DEF Follows, SameStep
<1>4. ASSUME NEW k \in 1 .. l + 1
      PROVE  /\ Legal(u[k].arg, lim)
             /\ u[k].todo # {} => GoesOn(u[k].arg, u[k].side, lim)
             /\ Follows(u[k].arg, a, k-1)
             /\ k <= Turns(a) => SideAt(a, k) = u[k].side /\ MoveAt(a, k) \notin u[k].todo
  <2>1. CASE k \in 1 .. l
    BY <2>1, <1>1, <1>2 DEF TrailRight
  <2>2. CASE k = l + 1
    <3>1. k - 1 = l /\ ~(k <= l)
      BY <2>2
    <3> QED BY <1>1, <1>2, <1>3, <2>2, <3>1 DEF TrailRight
  <2> QED BY <2>1, <2>2
<1>5. TrailRight(u, a, lim)
  BY <1>2, <1>4 DEF TrailRight
<1>6. ASSUME NEW n
      PROVE  AheadIn(n, u, a)
             <=> AheadIn(n, s, a) \/ (Follows(n, a, l) /\ LeavesAt(n, f, l + 1))
  <2>1. AheadIn(n, u, a)
        <=> \/ \E k \in 1 .. l : Follows(n, a, k-1) /\ LeavesAt(n, u[k], k)
            \/ Follows(n, a, (l+1)-1) /\ LeavesAt(n, u[l+1], l+1)
    <3>1. 1 .. l + 1 = (1 .. l) \cup {l + 1}
      OBVIOUS
    <3> QED BY <1>2, <3>1 DEF AheadIn
  <2>2. (l + 1) - 1 = l
    OBVIOUS
  <2> QED BY <1>1, <1>2, <2>1, <2>2 DEF AheadIn
<1> QED BY <1>1, <1>5, <1>6 DEF u

(* The frames u are s with a move taken from the last, or with the last on *)
(* the other side.                                                         *)
TakenFrom(s, u, m) ==
  /\ Len(u) = Len(s)
  /\ \A k \in 1 .. Len(s) :
        /\ u[k].arg = s[k].arg /\ u[k].side = s[k].side
        /\ u[k].todo = IF k = Len(s) THEN s[k].todo \ {m} ELSE s[k].todo
SwitchedFrom(s, u, ts) ==
  /\ Len(u) = Len(s)
  /\ \A k \in 1 .. Len(s) :
        /\ u[k].arg = s[k].arg
        /\ u[k].side = IF k = Len(s) THEN "inverse" ELSE s[k].side
        /\ u[k].todo = IF k = Len(s) THEN ts ELSE s[k].todo

(* The way of a node leaves here by a move that is not tried.              *)
Missed(n, k, ts) == SideAt(n, k) = "inverse" /\ MoveAt(n, k) \notin ts

(* A move of the last frame is made.                                       *)
LEMMA TrailTry ==
  ASSUME NEW s, StackRight(s), s # <<>>, NEW a, a = s[Len(s)].arg, NEW lim, TrailRight(s, a, lim),
         NEW m \in s[Len(s)].todo,
         NEW u, TakenFrom(s, u, m),
         NEW b, Legal(b, lim), Turns(b) = Turns(a) + 1, Follows(b, a, Turns(a)),
         SideAt(b, Turns(b)) = s[Len(s)].side, MoveAt(b, Turns(b)) = m
  PROVE  /\ TrailRight(u, b, lim)
         /\ \A n : (Follows(n, b, Turns(b)) \/ AheadIn(n, u, b)) <=> AheadIn(n, s, a)
<1>1. PICK l \in Nat : l = Len(s) /\ l >= 1
  BY DEF StackRight
<1>2. Turns(a) = l - 1 /\ Turns(b) = l /\ l \in 1 .. l
  <2>1. Turns(s[l].arg) = l - 1
    BY <1>1, FrameIs
  <2> QED BY <1>1, <2>1
<1>3. /\ Follows(b, a, l - 1) /\ SideAt(b, l) = s[l].side /\ MoveAt(b, l) = m
  <2>1. (l - 1) + 1 = l
    OBVIOUS
  <2> QED BY <1>1, <1>2, <2>1
<1>4. ASSUME NEW k \in 1 .. l
      PROVE  /\ Follows(b, a, k-1)
             /\ \A n : Follows(n, b, k-1) <=> Follows(n, a, k-1)
  <2>1. k - 1 \in Int /\ l - 1 \in Int /\ k - 1 <= l - 1
    OBVIOUS
  <2>2. Follows(b, a, k-1)
    BY <1>3, <2>1, FollowsLess
  <2> QED BY <2>1, <2>2, FollowsSame
<1>5. ASSUME NEW k \in 1 .. l
      PROVE  /\ Legal(s[k].arg, lim)
             /\ s[k].todo # {} => GoesOn(s[k].arg, s[k].side, lim)
             /\ Follows(s[k].arg, a, k-1)
             /\ k <= l - 1 => SideAt(a, k) = s[k].side /\ MoveAt(a, k) \notin s[k].todo
  BY <1>1, <1>2 DEF TrailRight
<1>6. ASSUME NEW k \in 1 .. l
      PROVE  /\ u[k].arg = s[k].arg /\ u[k].side = s[k].side
             /\ u[k].todo = IF k = l THEN s[k].todo \ {m} ELSE s[k].todo
  BY <1>1 DEF TakenFrom
<1>7. ASSUME NEW k \in 1 .. l
      PROVE  /\ Legal(u[k].arg, lim)
             /\ u[k].todo # {} => GoesOn(u[k].arg, u[k].side, lim)
             /\ Follows(u[k].arg, b, k-1)
             /\ k <= Turns(b) => SideAt(b, k) = u[k].side /\ MoveAt(b, k) \notin u[k].todo
  <2>1. Follows(u[k].arg, b, k-1)
    BY <1>4, <1>5, <1>6
  <2>2. SideAt(b, k) = u[k].side /\ MoveAt(b, k) \notin u[k].todo
    <3>1. CASE k = l
      BY <3>1, <1>3, <1>6
    <3>2. CASE k # l
      <4>1. k \in 1 .. l - 1
        BY <3>2
      <4>2. SameStep(b, a, k)
        BY <1>3, <4>1 DEF Follows
      <4>3. SideAt(a, k) = s[k].side /\ MoveAt(a, k) \notin s[k].todo
        BY <4>1, <1>5
      <4>4. u[k].side = s[k].side /\ u[k].todo = s[k].todo
        BY <3>2, <1>6
      <4> QED BY <4>2, <4>3, <4>4 DEF SameStep
    <3> QED BY <3>1, <3>2
  <2> QED BY <2>1, <2>2, <1>5, <1>6
<1>8. Len(u) = l /\ TrailRight(u, b, lim)
  BY <1>1, <1>7 DEF TrailRight, TakenFrom
<1>9. ASSUME NEW n PROVE (Follows(n, b, l) \/ AheadIn(n, u, b)) <=> AheadIn(n, s, a)
  <2>1. Follows(n, b, l) <=> Follows(n, a, l - 1) /\ SideAt(n, l) = s[l].side /\ MoveAt(n, l) = m
    <3>1. Follows(n, b, l) <=> Follows(n, b, l - 1) /\ SameStep(n, b, l)
      <4>1. 1 .. l = (1 .. l - 1) \cup {l}
        BY <1>1
      <4> QED BY <4>1 DEF Follows
    <3>2. Follows(n, b, l - 1) <=> Follows(n, a, l - 1)
      BY <1>2, <1>4
    <3> QED BY <3>1, <3>2, <1>3 DEF SameStep
  <2>2. ASSUME NEW k \in 1 .. l, k # l
        PROVE  (Follows(n, b, k-1) /\ LeavesAt(n, u[k], k))
               <=> (Follows(n, a, k-1) /\ LeavesAt(n, s[k], k))
    BY <2>2, <1>4, <1>6 DEF LeavesAt
  <2>3. (Follows(n, b, l) \/ (Follows(n, b, l-1) /\ LeavesAt(n, u[l], l)))
        <=> (Follows(n, a, l-1) /\ LeavesAt(n, s[l], l))
    <3>1. Follows(n, b, l-1) <=> Follows(n, a, l-1)
      BY <1>2, <1>4
    <3>2. u[l].side = s[l].side /\ u[l].todo = s[l].todo \ {m} /\ m \in s[l].todo
      BY <1>1, <1>2, <1>6
    <3> QED BY <2>1, <3>1, <3>2 DEF LeavesAt
  <2>4. AheadIn(n, u, b) <=> \E k \in 1 .. l : Follows(n, b, k-1) /\ LeavesAt(n, u[k], k)
    BY <1>8 DEF AheadIn
  <2>5. AheadIn(n, s, a) <=> \E k \in 1 .. l : Follows(n, a, k-1) /\ LeavesAt(n, s[k], k)
    BY <1>1 DEF AheadIn
  <2> QED BY <1>2, <2>2, <2>3, <2>4, <2>5
<1> QED BY <1>2, <1>8, <1>9

(* The last frame goes over to the inverse.                                *)
LEMMA TrailOther ==
  ASSUME NEW s, StackRight(s), s # <<>>, NEW a, a = s[Len(s)].arg, NEW lim, TrailRight(s, a, lim),
         s[Len(s)].side = "normal", s[Len(s)].todo = {},
         NEW ts, ts # {} => GoesOn(a, "inverse", lim),
         NEW u, SwitchedFrom(s, u, ts)
  PROVE  /\ TrailRight(u, a, lim)
         /\ \A n : /\ AheadIn(n, u, a) => AheadIn(n, s, a)
                   /\ AheadIn(n, s, a) =>
                        AheadIn(n, u, a) \/ (Follows(n, a, Turns(a)) /\ Missed(n, Len(s), ts))
<1>1. PICK l \in Nat : l = Len(s) /\ l >= 1
  BY DEF StackRight
<1>2. Turns(a) = l - 1 /\ l \in 1 .. l
  <2>1. Turns(s[l].arg) = l - 1
    BY <1>1, FrameIs
  <2> QED BY <1>1, <2>1
<1>3. ASSUME NEW k \in 1 .. l
      PROVE  /\ Legal(s[k].arg, lim)
             /\ s[k].todo # {} => GoesOn(s[k].arg, s[k].side, lim)
             /\ Follows(s[k].arg, a, k-1)
             /\ k <= Turns(a) => SideAt(a, k) = s[k].side /\ MoveAt(a, k) \notin s[k].todo
  BY <1>1 DEF TrailRight
<1>4. ASSUME NEW k \in 1 .. l
      PROVE  /\ u[k].arg = s[k].arg
             /\ u[k].side = IF k = l THEN "inverse" ELSE s[k].side
             /\ u[k].todo = IF k = l THEN ts ELSE s[k].todo
  BY <1>1 DEF SwitchedFrom
<1>5. s[l].arg = a /\ s[l].side = "normal" /\ s[l].todo = {}
  BY <1>1
<1>6. ASSUME NEW k \in 1 .. l
      PROVE  /\ Legal(u[k].arg, lim)
             /\ u[k].todo # {} => GoesOn(u[k].arg, u[k].side, lim)
             /\ Follows(u[k].arg, a, k-1)
             /\ k <= Turns(a) => SideAt(a, k) = u[k].side /\ MoveAt(a, k) \notin u[k].todo
  <2>1. CASE k = l
    <3>1. ~(k <= Turns(a))
      BY <2>1, <1>2
    <3> QED BY <2>1, <3>1, <1>3, <1>4, <1>5
  <2>2. CASE k # l
    BY <2>2, <1>3, <1>4
  <2> QED BY <2>1, <2>2
<1>7. Len(u) = l /\ TrailRight(u, a, lim)
  BY <1>1, <1>6 DEF TrailRight, SwitchedFrom
<1>8. ASSUME NEW n
      PROVE  /\ AheadIn(n, u, a) => AheadIn(n, s, a)
             /\ AheadIn(n, s, a) =>
                  AheadIn(n, u, a) \/ (Follows(n, a, l - 1) /\ Missed(n, l, ts))
  <2>1. ASSUME NEW k \in 1 .. l, k # l PROVE LeavesAt(n, u[k], k) <=> LeavesAt(n, s[k], k)
    BY <2>1, <1>4 DEF LeavesAt
  <2>2. SideAt(n, l) \in {"normal", "inverse"}
    BY DEF SideAt
  <2>3. u[l].side = "inverse" /\ u[l].todo = ts
    BY <1>2, <1>4
  <2>4. LeavesAt(n, u[l], l) <=> SideAt(n, l) = "inverse" /\ MoveAt(n, l) \in ts
    BY <2>2, <2>3 DEF LeavesAt
  <2>5. LeavesAt(n, s[l], l) <=> SideAt(n, l) = "inverse"
    BY <2>2, <1>5 DEF LeavesAt
  <2>6. AheadIn(n, u, a) <=> \E k \in 1 .. l : Follows(n, a, k-1) /\ LeavesAt(n, u[k], k)
    BY <1>7 DEF AheadIn
  <2>7. AheadIn(n, s, a) <=> \E k \in 1 .. l : Follows(n, a, k-1) /\ LeavesAt(n, s[k], k)
    BY <1>1 DEF AheadIn
  <2> QED BY <1>2, <2>1, <2>4, <2>5, <2>6, <2>7 DEF Missed
<1> QED BY <1>1, <1>2, <1>7, <1>8

(* The last frame has nothing left.                                        *)
LEMMA TrailPop ==
  ASSUME NEW s, StackRight(s), s # <<>>, NEW a, NEW lim, TrailRight(s, a, lim),
         s[Len(s)].side = "inverse", s[Len(s)].todo = {},
         NEW u, Len(u) = Len(s) - 1, \A k \in 1 .. Len(u) : u[k] = s[k]
  PROVE  /\ TrailRight(u, a, lim)
         /\ \A n : AheadIn(n, u, a) <=> AheadIn(n, s, a)
<1>1. PICK l \in Nat : l = Len(s) /\ l >= 1
  BY DEF StackRight
<1>2. Len(u) = l - 1 /\ \A k \in 1 .. l - 1 : u[k] = s[k] /\ k \in 1 .. Len(s)
  BY <1>1
<1>3. TrailRight(u, a, lim)
  BY <1>2 DEF TrailRight
<1>4. ASSUME NEW n PROVE AheadIn(n, u, a) <=> AheadIn(n, s, a)
  <2>1. SideAt(n, l) \in {"normal", "inverse"}
    BY DEF SideAt
  <2>2. ~LeavesAt(n, s[l], l)
    BY <1>1, <2>1 DEF LeavesAt
  <2>3. AheadIn(n, u, a) <=> \E k \in 1 .. l - 1 : Follows(n, a, k-1) /\ LeavesAt(n, s[k], k)
    BY <1>2 DEF AheadIn
  <2>4. AheadIn(n, s, a) <=> \E k \in 1 .. l : Follows(n, a, k-1) /\ LeavesAt(n, s[k], k)
    BY <1>1 DEF AheadIn
  <2>5. 1 .. l = (1 .. l - 1) \cup {l}
    BY <1>1
  <2> QED BY <2>2, <2>3, <2>4, <2>5
<1> QED BY <1>3, <1>4

LEMMA RootNormal ==
  ASSUME NEW a, NodeRight(a), Turns(a) \in {0, -1}, NEW lim
  PROVE  Legal(a, lim) <=> a.lastisnormal
<1>1. PICK x \in Nat, y \in Nat : x = Len(a.moves) /\ y = Len(a.premoves) /\ Turns(a) = x + y
  BY NodeTurns
<1>2. x + y \in {0, -1}
  BY <1>1
<1>3. y = 0
  BY <1>2
<1>4. a.premoves = <<>> <=> y = 0
  BY <1>1 DEF NodeRight
<1> QED BY <1>3, <1>4 DEF Legal, NodeRight

LEMMA TrailReturn ==
  ASSUME NEW s, StackRight(s), s # <<>>, TrailRight(s, arg, depth),
         Turns(arg) \in {Len(s), Len(s) - 1},
         NEW v \in Int, ~(v < 0), NEW l, DfsReturn(v, l, s)
  PROVE  /\ pc' = "loop" /\ list' = l /\ depth' = depth
         /\ TrailRight(stack', arg', depth)
         /\ \A n : AheadIn(n, stack', arg') <=> AheadIn(n, s, arg)
<1>1. /\ pc' = "loop" /\ arg' = s[Len(s)].arg /\ depth' = depth /\ list' = l
      /\ stack' = [s EXCEPT ![Len(s)].ret = @ + v]
  BY DEF DfsReturn
<1>2. /\ TrailRight(s, arg', depth)
      /\ \A n : AheadIn(n, s, arg') <=> AheadIn(n, s, arg)
  BY <1>1, TrailBack
<1>3. SameFrames(s, stack')
  <2>1. s \in Seq(Frames) /\ Len(s) \in 1 .. Len(s)
    BY DEF StackRight
  <2> DEFINE f == [s[Len(s)] EXCEPT !.ret = @ + v]
  <2>2. f.arg = s[Len(s)].arg /\ f.side = s[Len(s)].side /\ f.todo = s[Len(s)].todo /\ f \in Frames
    <3>1. s[Len(s)] \in Frames
      BY <2>1
    <3> QED BY <3>1 DEF Frames
  <2>3. stack' = [s EXCEPT ![Len(s)] = f]
    BY <1>1
  <2> HIDE DEF f
  <2>4. Len(stack') = Len(s) /\ \A k \in 1 .. Len(s) : stack'[k] = IF k = Len(s) THEN f ELSE s[k]
    BY <2>1, <2>2, <2>3
  <2> QED BY <2>2, <2>4 DEF SameFrames
<1>4. PICK u, b : u = stack' /\ b = arg'
  OBVIOUS
<1>5. /\ TrailRight(u, b, depth)
      /\ \A n : AheadIn(n, u, b) <=> AheadIn(n, s, b)
  <2>1. SameFrames(s, u) /\ TrailRight(s, b, depth)
    BY <1>2, <1>3, <1>4
  <2> QED BY <2>1, FramesSame
<1> QED BY <1>1, <1>2, <1>4, <1>5

(* The lines of the depth that is searched are those of nodes passed.      *)
LineOf(n) == [moves |-> Written(n.moves), premoves |-> Written(n.premoves)]
PassedIn(l, s, a, p, lim) ==
  \E n : /\ NodeRight(n) /\ Legal(n, lim) /\ Turns(n) = lim /\ l = LineOf(n)
         /\ ~Ahead(n, s, a, p)
LinesPassed(ls, s, a, p, lim) ==
  \A k \in 1 .. Len(ls) : LineLen(ls[k]) < lim \/ PassedIn(ls[k], s, a, p, lim)
Once(ls) ==
  \A j, k \in 1 .. Len(ls) :
     j < k /\ ls[j] = ls[k] => ls[j].premoves # <<>> /\ Len(ls[j].moves) = Len(ls[j].premoves) + 1

OnceInv ==
  /\ Once(list.lines)
  /\ pc \in {"start", "depth"} => arg.lastisnormal
  /\ pc = "depth" => \A k \in 1 .. Len(list.lines) : LineLen(list.lines[k]) < depth
  /\ pc \in {"visit", "loop"} =>
       /\ TrailRight(stack, arg, depth)
       /\ LinesPassed(list.lines, stack, arg, pc, depth)

LEMMA LineOfKept ==
  ASSUME req' = req, NEW n
  PROVE  LineOf(n)' = LineOf(n)
BY DEF LineOf, Written, solution_moves_transform, solution_moves_reorient

LEMMA PassedKept ==
  ASSUME req' = req, NEW ls, NEW s, NEW a, NEW p, NEW lim
  PROVE  LinesPassed(ls, s, a, p, lim)' <=> LinesPassed(ls, s, a, p, lim)
<1>1. \A n : LineOf(n)' = LineOf(n)
  BY LineOfKept
<1> QED BY <1>1 DEF LinesPassed, PassedIn

LEMMA PassedStill ==
  ASSUME NEW ls, NEW s, NEW a, NEW p, NEW lim, LinesPassed(ls, s, a, p, lim),
         NEW u, NEW b, NEW q, \A n : Ahead(n, u, b, q) => Ahead(n, s, a, p)
  PROVE  LinesPassed(ls, u, b, q, lim)
BY DEF LinesPassed, PassedIn

LEMMA LineOfIs ==
  ASSUME req \in Requests, NEW n, NodeRight(n)
  PROVE  /\ LineOf(n) \in Lines /\ LineLen(LineOf(n)) = Turns(n)
         /\ Len(LineOf(n).moves) = Len(n.moves) /\ Len(LineOf(n).premoves) = Len(n.premoves)
<1>1. LineOf(n) \in Lines
  BY WrittenNat DEF LineOf, Lines, NodeRight
<1>2. Len(LineOf(n).moves) = Len(n.moves) /\ Len(LineOf(n).premoves) = Len(n.premoves)
  BY WrittenCanonical DEF NodeRight, LineOf
<1> QED BY <1>1, <1>2 DEF LineLen, Turns

LEMMA LineOfOne ==
  ASSUME req \in Requests, NEW n, NodeRight(n), NEW o, NodeRight(o), LineOf(n) = LineOf(o)
  PROVE  n.moves = o.moves /\ n.premoves = o.premoves
<1>1. /\ sortparallel_moves(Unwritten(Written(n.moves))) = n.moves
      /\ sortparallel_moves(Unwritten(Written(n.premoves))) = n.premoves
      /\ sortparallel_moves(Unwritten(Written(o.moves))) = o.moves
      /\ sortparallel_moves(Unwritten(Written(o.premoves))) = o.premoves
  BY WrittenBack DEF NodeRight
<1>2. Written(n.moves) = Written(o.moves) /\ Written(n.premoves) = Written(o.premoves)
  BY DEF LineOf
<1> QED BY <1>1, <1>2

(* The line of the node the search is at, which no line before is, unless  *)
(* its other way has been passed.                                          *)
LEMMA OnceMore ==
  ASSUME req \in Requests, NEW ls \in Seq(Lines), Once(ls), NEW s, NEW lim \in Nat, lim >= 1,
         NEW a, NodeRight(a), Legal(a, lim), Turns(a) = lim,
         LinesPassed(ls, s, a, "visit", lim)
  PROVE  Once(Append(ls, LineOf(a)))
<1> DEFINE l == LineOf(a)  more == Append(ls, l)  n == Len(ls)
<1>1. /\ Len(more) = n + 1 /\ n \in Nat /\ more[n + 1] = l
      /\ \A k \in 1 .. n : more[k] = ls[k]
  OBVIOUS
<1>2. /\ LineLen(l) = lim /\ l \in Lines
      /\ Len(l.moves) = Len(a.moves) /\ Len(l.premoves) = Len(a.premoves)
  BY LineOfIs
<1> HIDE DEF more, l
<1>3. ASSUME NEW j \in 1 .. n, ls[j] = l
      PROVE  l.premoves # <<>> /\ Len(l.moves) = Len(l.premoves) + 1
  <2>1. PassedIn(l, s, a, "visit", lim)
    BY <1>2, <1>3 DEF LinesPassed
  <2>2. PICK o : /\ NodeRight(o) /\ Legal(o, lim) /\ Turns(o) = lim /\ l = LineOf(o)
                 /\ ~Ahead(o, s, a, "visit")
    BY <2>1 DEF PassedIn
  <2>3. o.moves = a.moves /\ o.premoves = a.premoves
    BY <2>2, LineOfOne DEF l
  <2>4. o.lastisnormal # a.lastisnormal
    <3>1. ASSUME o.lastisnormal = a.lastisnormal PROVE FALSE
      <4>1. Follows(o, a, Turns(a))
        BY <2>3, <3>1 DEF Follows, SameStep, SideAt, MoveAt
      <4> QED BY <2>2, <4>1 DEF Ahead
    <3> QED BY <3>1
  <2>5. a.premoves # <<>> /\ Len(a.moves) = Len(a.premoves) + 1
    <3>1. o.lastisnormal \in BOOLEAN
      BY <2>2 DEF NodeRight
    <3> QED BY <2>2, <2>3, <2>4, <3>1, TwoWays
  <2>6. l.premoves # <<>>
    <3>1. Len(a.premoves) \in Nat \ {0}
      BY <2>5 DEF NodeRight
    <3> QED BY <1>2, <3>1
  <2> QED BY <1>2, <2>5, <2>6
<1>4. ASSUME NEW j \in 1 .. n + 1, NEW k \in 1 .. n + 1, j < k, more[j] = more[k]
      PROVE  more[j].premoves # <<>> /\ Len(more[j].moves) = Len(more[j].premoves) + 1
  <2>1. j \in 1 .. n /\ more[j] = ls[j]
    BY <1>1, <1>4
  <2>2. CASE k = n + 1
    BY <1>1, <1>3, <1>4, <2>1, <2>2
  <2>3. CASE k # n + 1
    <3>1. k \in 1 .. n /\ more[k] = ls[k]
      BY <1>1, <2>3
    <3> QED BY <1>4, <2>1, <3>1 DEF Once
  <2> QED BY <2>2, <2>3
<1> QED BY <1>1, <1>4 DEF Once, more, l

LEMMA AppendLines ==
  ASSUME NEW n, LinesTo(list, n), NEW l
  PROVE  \/ appendsolution(l).list.lines = list.lines
         \/ appendsolution(l).list.lines = Append(list.lines, l)
<1> DEFINE a == appendsolution(l).list
<1>1. CASE a = list
  BY <1>1
<1>2. CASE \E u : a = [list EXCEPT !.used = u]
  <2>1. PICK x1, x2, x3, x4 :
          list = [lines |-> x1, nsols |-> x2, shortest_sol |-> x3, used |-> x4]
    BY DEF LinesTo
  <2> QED BY <1>2, <2>1
<1>3. CASE \E m, u : a = [lines |-> Append(list.lines, l), nsols |-> m,
                shortest_sol |-> Min({list.shortest_sol, Len(l.moves) + Len(l.premoves)}),
                used |-> u]
  BY <1>3
<1> QED BY <1>1, <1>2, <1>3, AppendCases, Zenon

LEMMA AppendOnce ==
  ASSUME req \in Requests, depth \in Nat, depth >= 1, LinesTo(list, depth), ArgRight(arg),
         TrailRight(stack, arg, depth), StackRight(stack), Len(stack) = Turns(arg),
         Turns(arg) = depth, Once(list.lines),
         LinesPassed(list.lines, stack, arg, "visit", depth)
  PROVE  LET ls == appendsolution(ThisLine).list.lines
         IN  Once(ls) /\ LinesPassed(ls, stack, arg, "loop", depth)
<1> DEFINE ls == list.lines  l == ThisLine  a == appendsolution(l).list
<1>1. ls \in Seq(Lines)
  BY DEF LinesTo
<1>2. a.lines = ls \/ a.lines = Append(ls, l)
  BY AppendLines
<1>3. l = LineOf(arg)
  BY DEF ThisLine, LineOf
<1>4. NodeRight(arg) /\ Legal(arg, depth)
  BY ArgNode DEF TrailRight
<1> HIDE DEF a, l, ls
<1>5. \A n : Ahead(n, stack, arg, "loop") => Ahead(n, stack, arg, "visit")
  BY DEF Ahead
<1>6. LinesPassed(ls, stack, arg, "loop", depth)
  BY <1>5, PassedStill DEF ls
<1>7. CASE a.lines = ls
  BY <1>6, <1>7 DEF a, l, ls
<1>8. CASE a.lines = Append(ls, l)
  <2>1. Once(a.lines)
    BY <1>1, <1>3, <1>4, <1>8, OnceMore DEF ls
  <2>2. PassedIn(l, stack, arg, "loop", depth)
    <3>1. ~AheadIn(arg, stack, arg)
      <4> SUFFICES ASSUME NEW k \in 1 .. Len(stack), LeavesAt(arg, stack[k], k) PROVE FALSE
        BY DEF AheadIn
      <4>1. SideAt(arg, k) = stack[k].side /\ MoveAt(arg, k) \notin stack[k].todo
        <5>1. k <= Turns(arg)
          OBVIOUS
        <5> QED BY <5>1 DEF TrailRight
      <4> QED BY <4>1 DEF LeavesAt
    <3> QED BY <1>3, <1>4, <3>1 DEF PassedIn, Ahead
  <2>3. LinesPassed(a.lines, stack, arg, "loop", depth)
    <3>1. /\ Len(a.lines) = Len(ls) + 1 /\ Len(ls) \in Nat /\ a.lines[Len(ls) + 1] = l
          /\ \A k \in 1 .. Len(ls) : a.lines[k] = ls[k]
      BY <1>1, <1>8
    <3>2. ASSUME NEW k \in 1 .. Len(ls) + 1
          PROVE  LineLen(a.lines[k]) < depth \/ PassedIn(a.lines[k], stack, arg, "loop", depth)
      <4>1. CASE k = Len(ls) + 1
        BY <4>1, <2>2, <3>1
      <4>2. CASE k # Len(ls) + 1
        <5>1. k \in 1 .. Len(ls)
          BY <3>1, <4>2
        <5> QED BY <1>6, <3>1, <5>1 DEF LinesPassed
      <4> QED BY <4>1, <4>2
    <3> QED BY <3>1, <3>2 DEF LinesPassed
  <2> QED BY <2>1, <2>3 DEF a, l
<1> QED BY <1>2, <1>7, <1>8

(* The end of a call.                                                      *)
LEMMA ReturnOnce ==
  ASSUME req \in Requests, req' = req, depth \in Nat, ArgRight(arg), NEW s, StackRight(s),
         NEW l, LinesTo(l, depth), Once(l.lines), LinesPassed(l.lines, s, arg, "loop", depth),
         TrailRight(s, arg, depth), Turns(arg) \in {Len(s), Len(s) - 1},
         NEW v \in Int, DfsReturn(v, l, s)
  PROVE  OnceInv'
<1>1. CASE v < 0
  BY <1>1 DEF DfsReturn, Return, OnceInv
<1>2. CASE ~(v < 0) /\ s = <<>>
  <2>1. /\ pc' = "depth" /\ list' = [l EXCEPT !.nsols = @ + v] /\ depth' = depth + 1
    BY <1>2 DEF DfsReturn
  <2>2. list'.lines = l.lines
    <3>1. PICK x1, x2, x3, x4 : l = [lines |-> x1, nsols |-> x2, shortest_sol |-> x3, used |-> x4]
      BY DEF LinesTo
    <3> QED BY <2>1, <3>1
  <2>3. \A k \in 1 .. Len(l.lines) : LineLen(l.lines[k]) < depth + 1
    <3> TAKE k \in 1 .. Len(l.lines)
    <3>1. LineLen(l.lines[k]) \in Nat /\ LineLen(l.lines[k]) <= depth
      BY LinesNat DEF LinesTo
    <3> QED BY <3>1
  <2>4. arg' = arg /\ arg.lastisnormal
    <3>1. NodeRight(arg) /\ Legal(arg, depth) /\ Turns(arg) \in {0, -1}
      BY <1>2, ArgNode DEF TrailRight
    <3>2. arg.lastisnormal
      BY <3>1, RootNormal
    <3> QED BY <1>2, <3>2 DEF DfsReturn
  <2> QED BY <2>1, <2>2, <2>3, <2>4 DEF OnceInv
<1>3. CASE ~(v < 0) /\ s # <<>>
  <2>1. /\ pc' = "loop" /\ list' = l /\ depth' = depth
        /\ TrailRight(stack', arg', depth)
        /\ \A n : AheadIn(n, stack', arg') <=> AheadIn(n, s, arg)
    BY <1>3, TrailReturn
  <2>2. PICK u, b, lim, ls : u = stack' /\ b = arg' /\ lim = depth /\ ls = l.lines
    OBVIOUS
  <2>3. \A n : Ahead(n, u, b, "loop") => Ahead(n, s, arg, "loop")
    BY <2>1, <2>2 DEF Ahead
  <2>4. LinesPassed(ls, u, b, "loop", lim)
    BY <2>2, <2>3, PassedStill
  <2>5. LinesPassed(ls, u, b, "loop", lim)'
    BY <2>4, PassedKept
  <2>6. LinesPassed(list.lines, stack, arg, pc, depth)'
    BY <2>1, <2>2, <2>5
  <2> QED BY <2>1, <2>6 DEF OnceInv
<1> QED BY <1>1, <1>2, <1>3

(* A step on the frames, of a call that goes on.                           *)
LEMMA FramesOnce ==
  ASSUME OnceInv, pc \in {"visit", "loop"}, pc' \in {"visit", "loop"},
         UNCHANGED <<req, list, depth>>,
         TrailRight(stack', arg', depth),
         \A n : Ahead(n, stack', arg', pc') => Ahead(n, stack, arg, pc)
  PROVE  OnceInv'
<1>1. PICK u, b, q, lim, ls : u = stack' /\ b = arg' /\ q = pc' /\ lim = depth /\ ls = list.lines
  OBVIOUS
<1>2. LinesPassed(ls, stack, arg, pc, lim)
  BY <1>1 DEF OnceInv
<1>3. LinesPassed(ls, u, b, q, lim)
  BY <1>1, <1>2, PassedStill
<1>4. LinesPassed(ls, u, b, q, lim)'
  BY <1>3, PassedKept
<1>5. LinesPassed(list.lines, stack, arg, pc, depth)'
  BY <1>1, <1>4
<1> QED BY <1>5 DEF OnceInv

(* The nodes ahead after the first step of a call that is not cut,          *)
LEMMA VisitTrail ==
  ASSUME CallInv, OnceInv, Visit, ~solve_coord_dfs_stop
  PROVE  /\ pc' = "loop" /\ UNCHANGED <<req, arg, depth, list>>
         /\ TrailRight(stack', arg', depth)
         /\ \A n : Ahead(n, stack', arg', pc') <=>
                     \/ AheadIn(n, stack, arg)
                     \/ /\ Follows(n, arg, Turns(arg))
                        /\ SideAt(n, Turns(arg) + 1) = "normal" =>
                             /\ coord_continue_onnormal
                             /\ MoveAt(n, Turns(arg) + 1) \in MovesAfter(arg.moves)
<1>1. /\ pc = "visit" /\ req' = req
      /\ ArgRight(arg) /\ StackRight(stack) /\ Len(stack) = Turns(arg) /\ depth \in Nat
      /\ TrailRight(stack, arg, depth)
  BY DEF Visit, CallInv, OnceInv
<1> DEFINE ts == IF coord_continue_onnormal THEN MovesAfter(arg.moves) ELSE {}
           f == [arg |-> arg, side |-> "normal", ret |-> 0, todo |-> ts]
<1>2. /\ stack' = Append(stack, f) /\ pc' = "loop" /\ UNCHANGED <<arg, depth, list>>
  BY DEF Visit
<1>3. ts # {} => GoesOn(arg, "normal", depth)
  <2> SUFFICES ASSUME coord_continue_onnormal PROVE GoesOn(arg, "normal", depth)
    OBVIOUS
  <2>1. PICK x \in Nat, y \in Nat : x = Len(arg.moves) /\ y = Len(arg.premoves) /\ Turns(arg) = x + y
    BY <1>1, ArgNode, NodeTurns
  <2>2. (arg.moves = <<>> <=> x = 0) /\ (arg.premoves = <<>> <=> y = 0)
    <3>1. arg.moves \in Seq(MaskMoves) /\ arg.premoves \in Seq(MaskMoves)
      BY <1>1, ArgIs
    <3> QED BY <2>1, <3>1
  <2>3. \/ x + y = 0 \/ arg.lastisnormal \/ (x = 0 /\ y < Half(depth))
    BY <2>1 DEF coord_continue_onnormal, nmoves, npremoves, th, Half
  <2>4. x + y = 0 => arg.lastisnormal
    <3>1. x + y = 0 => y = 0
      OBVIOUS
    <3> QED BY <1>1, <2>2, <3>1 DEF TrailRight, Legal
  <2> QED BY <2>2, <2>1, <2>3, <2>4 DEF GoesOn
<1>4. /\ ts \subseteq MaskMoves
      /\ \A m : m \in ts <=> coord_continue_onnormal /\ m \in MovesAfter(arg.moves)
  BY DEF MovesAfter, MaskMoves
<1> HIDE DEF ts
<1>5. f \in Frames /\ f.arg = arg /\ f.side = "normal" /\ f.todo = ts
  BY <1>1, <1>4 DEF Frames, ArgRight
<1> HIDE DEF f
<1>6. /\ TrailRight(Append(stack, f), arg, depth)
      /\ \A n : AheadIn(n, Append(stack, f), arg)
                <=> AheadIn(n, stack, arg) \/ (/\ Follows(n, arg, Turns(arg))
                                               /\ LeavesAt(n, f, Len(stack) + 1))
  BY <1>1, <1>3, <1>5, TrailPush
<1>7. ASSUME NEW n, NEW k
      PROVE  LeavesAt(n, f, k) <=>
               (SideAt(n, k) = "normal" =>
                  coord_continue_onnormal /\ MoveAt(n, k) \in MovesAfter(arg.moves))
  BY <1>4, <1>5, Zenon DEF LeavesAt
<1>8. \A n : Ahead(n, stack', arg', pc') <=> AheadIn(n, Append(stack, f), arg)
  BY <1>2 DEF Ahead
<1>9. Len(stack) = Turns(arg)
  BY <1>1
<1>10. ASSUME NEW n
       PROVE  Ahead(n, stack', arg', pc') <=>
                     \/ AheadIn(n, stack, arg)
                     \/ /\ Follows(n, arg, Turns(arg))
                        /\ SideAt(n, Turns(arg) + 1) = "normal" =>
                             /\ coord_continue_onnormal
                             /\ MoveAt(n, Turns(arg) + 1) \in MovesAfter(arg.moves)
  <2>1. LeavesAt(n, f, Turns(arg) + 1) <=>
               (SideAt(n, Turns(arg) + 1) = "normal" =>
                  coord_continue_onnormal /\ MoveAt(n, Turns(arg) + 1) \in MovesAfter(arg.moves))
    BY <1>7
  <2>2. AheadIn(n, Append(stack, f), arg)
                <=> AheadIn(n, stack, arg) \/ (/\ Follows(n, arg, Turns(arg))
                                               /\ LeavesAt(n, f, Turns(arg) + 1))
    BY <1>6, <1>9
  <2> QED BY <1>8, <2>1, <2>2
<1> QED BY <1>1, <1>2, <1>6, <1>10

LEMMA OnceVisit ==
  ASSUME CallInv, ListInv, OnceInv, Visit
  PROVE  OnceInv'
<1>1. /\ pc = "visit" /\ req' = req /\ req \in Requests
      /\ ArgRight(arg) /\ StackRight(stack) /\ Len(stack) = Turns(arg) /\ depth \in Nat
      /\ LinesTo(list, depth) /\ Once(list.lines) /\ TrailRight(stack, arg, depth)
      /\ LinesPassed(list.lines, stack, arg, "visit", depth) /\ depth >= 1
  BY DEF Visit, CallInv, ListInv, OnceInv
<1>2. CASE solve_coord_dfs_stop
  <2>1. DfsReturn(0, list, stack)
    BY <1>2 DEF Visit
  <2>2. \A n : Ahead(n, stack, arg, "loop") => Ahead(n, stack, arg, "visit")
    BY DEF Ahead
  <2>3. LinesPassed(list.lines, stack, arg, "loop", depth)
    BY <1>1, <2>2, PassedStill
  <2> QED BY <1>1, <2>1, <2>3, ReturnOnce
<1>3. CASE ~solve_coord_dfs_stop
  <2>1. \A n : Ahead(n, stack', arg', pc') => Ahead(n, stack, arg, pc)
    BY <1>1, <1>3, VisitTrail DEF Ahead
  <2> QED BY <1>1, <1>3, <2>1, VisitTrail, FramesOnce
<1> QED BY <1>2, <1>3

LEMMA SolvedLists ==
  ASSUME GenInv, CallInv, ListInv, VisitSolved, coord_solution_admissible
  PROVE  LinesTo(appendsolution(ThisLine).list, depth)
<1>1. /\ depth \in Nat /\ LinesTo(list, depth) /\ Allowed(list, depth)
      /\ coord(arg.cube) = 0 /\ gen = "done" /\ req \in Requests
      /\ ArgRight(arg) /\ depth >= req.minmoves /\ depth <= req.maxmoves
  BY DEF VisitSolved, CallInv, ListInv
<1>2. Turns(arg) = depth /\ solution_lastqt_cw
  BY TurnsIs DEF coord_solution_admissible
<1>3. req.minmoves \in Nat /\ req.maxmoves \in Nat
  BY <1>1, RequestAssumption
<1>4. Turns(arg) \in req.minmoves .. req.maxmoves
  BY <1>1, <1>2, <1>3
<1>5. ThisLine \in Lines /\ LineRight(ThisLine) /\ LineLen(ThisLine) = depth
  BY <1>1, <1>2, <1>4, ThisLineRight
<1> QED BY <1>1, <1>5, LinesToMore

LEMMA OnceVisitSolved ==
  ASSUME GenInv, CallInv, ListInv, OnceInv, VisitSolved
  PROVE  OnceInv'
<1>1. /\ pc = "visit" /\ req' = req /\ req \in Requests /\ ArgRight(arg)
      /\ StackRight(stack) /\ Len(stack) = Turns(arg) /\ depth \in Nat /\ depth >= 1
      /\ LinesTo(list, depth) /\ Once(list.lines) /\ TrailRight(stack, arg, depth)
      /\ LinesPassed(list.lines, stack, arg, "visit", depth)
  BY DEF VisitSolved, CallInv, ListInv, OnceInv
<1>2. CASE ~coord_solution_admissible
  <2>1. DfsReturn(0, list, stack)
    BY <1>2 DEF VisitSolved
  <2>2. \A n : Ahead(n, stack, arg, "loop") => Ahead(n, stack, arg, "visit")
    BY DEF Ahead
  <2>3. LinesPassed(list.lines, stack, arg, "loop", depth)
    BY <1>1, <2>2, PassedStill
  <2> QED BY <1>1, <2>1, <2>3, ReturnOnce
<1>3. CASE coord_solution_admissible
  <2>1. Turns(arg) = depth
    BY <1>3, TurnsIs DEF coord_solution_admissible
  <2>2. PICK a : a = appendsolution(ThisLine)
    OBVIOUS
  <2>3. Once(a.list.lines) /\ LinesPassed(a.list.lines, stack, arg, "loop", depth)
    BY <1>1, <2>1, <2>2, AppendOnce
  <2>4. DfsReturn(a.ret, a.list, stack) /\ a.ret \in Int
    BY <1>3, <2>2, AppendRet DEF VisitSolved
  <2>5. LinesTo(a.list, depth)
    BY <1>3, <2>2, SolvedLists
  <2> QED BY <1>1, <2>3, <2>4, <2>5, ReturnOnce
<1> QED BY <1>2, <1>3

(* after the step to the other side,                                       *)
LEMMA OtherSideTrail ==
  ASSUME CallInv, OnceInv, OtherSide
  PROVE  /\ pc = "loop" /\ pc' = "loop" /\ UNCHANGED <<req, arg, depth, list>>
         /\ TrailRight(stack', arg', depth)
         /\ \A n : /\ Ahead(n, stack', arg', pc') => Ahead(n, stack, arg, pc)
                   /\ Ahead(n, stack, arg, pc) =>
                        \/ Ahead(n, stack', arg', pc')
                        \/ /\ Follows(n, arg, Turns(arg)) /\ SideAt(n, Len(stack)) = "inverse"
                           /\ ~(/\ coord_continue_oninverse
                                /\ MoveAt(n, Len(stack)) \in MovesAfter(arg.premoves))
<1> DEFINE ts == IF coord_continue_oninverse THEN MovesAfter(arg.premoves) ELSE {}
           f == [stack[Len(stack)] EXCEPT !.side = "inverse", !.todo = ts]
<1>1. /\ pc = "loop" /\ UNCHANGED <<req, arg, depth, pc, list>> /\ depth \in Nat
      /\ ArgRight(arg) /\ StackRight(stack) /\ stack # <<>> /\ arg = stack[Len(stack)].arg
      /\ TrailRight(stack, arg, depth)
      /\ stack[Len(stack)].side = "normal" /\ stack[Len(stack)].todo = {}
  BY DEF OtherSide, CallInv, OnceInv, Frame
<1>2. stack' = [stack EXCEPT ![Len(stack)] = f]
  <2>1. stack' = [stack EXCEPT ![Len(stack)].side = "inverse", ![Len(stack)].todo = ts]
    BY DEF OtherSide
  <2> HIDE DEF ts
  <2>2. Len(stack) \in DOMAIN stack
    BY <1>1 DEF StackRight
  <2> QED BY <2>1, <2>2
<1>3. ts # {} => GoesOn(arg, "inverse", depth)
  <2> SUFFICES ASSUME coord_continue_oninverse PROVE GoesOn(arg, "inverse", depth)
    OBVIOUS
  <2>1. PICK x \in Nat, y \in Nat : x = Len(arg.moves) /\ y = Len(arg.premoves) /\ Turns(arg) = x + y
    BY <1>1, ArgNode, NodeTurns
  <2>2. (arg.moves = <<>> <=> x = 0) /\ (arg.premoves = <<>> <=> y = 0)
    <3>1. arg.moves \in Seq(MaskMoves) /\ arg.premoves \in Seq(MaskMoves)
      BY <1>1, ArgIs
    <3> QED BY <2>1, <3>1
  <2>3. \/ x + y = 0 \/ ~arg.lastisnormal \/ (y = 0 /\ x <= Half(depth))
    BY <2>1 DEF coord_continue_oninverse, nmoves, npremoves, th, Half
  <2>4. x + y = 0 => y = 0 /\ x <= Half(depth)
    <3>1. x + y = 0 => x = 0 /\ y = 0
      OBVIOUS
    <3>2. 0 <= Half(depth)
      BY <1>1 DEF Half
    <3> QED BY <3>1, <3>2
  <2> QED BY <2>1, <2>2, <2>3, <2>4 DEF GoesOn
<1>4. /\ ts \subseteq MaskMoves
      /\ \A m : m \in ts <=> coord_continue_oninverse /\ m \in MovesAfter(arg.premoves)
  BY DEF MovesAfter, MaskMoves
<1> HIDE DEF ts
<1>5. stack \in Seq(Frames) /\ Len(stack) \in 1 .. Len(stack) /\ stack[Len(stack)] \in Frames
  <2>1. stack \in Seq(Frames) /\ Len(stack) \in 1 .. Len(stack)
    BY <1>1 DEF StackRight
  <2> QED BY <2>1
<1>6. f \in Frames /\ f.arg = stack[Len(stack)].arg /\ f.side = "inverse" /\ f.todo = ts
  BY <1>4, <1>5 DEF Frames
<1> HIDE DEF f
<1>7. /\ Len(stack') = Len(stack)
      /\ \A k \in 1 .. Len(stack) : stack'[k] = IF k = Len(stack) THEN f ELSE stack[k]
  BY <1>2, <1>5, <1>6
<1>8. \A k \in 1 .. Len(stack) :
         /\ stack'[k].arg = stack[k].arg
         /\ stack'[k].side = IF k = Len(stack) THEN "inverse" ELSE stack[k].side
         /\ stack'[k].todo = IF k = Len(stack) THEN ts ELSE stack[k].todo
  BY <1>6, <1>7
<1>9. PICK u, s, a, lim, es : u = stack' /\ s = stack /\ a = arg /\ lim = depth /\ es = ts
  OBVIOUS
<1>10. /\ TrailRight(u, a, lim)
       /\ \A n : /\ AheadIn(n, u, a) => AheadIn(n, s, a)
                 /\ AheadIn(n, s, a) =>
                        AheadIn(n, u, a) \/ (Follows(n, a, Turns(a)) /\ Missed(n, Len(s), es))
  <2>1. SwitchedFrom(s, u, es)
    BY <1>7, <1>8, <1>9 DEF SwitchedFrom
  <2>2. /\ StackRight(s) /\ s # <<>> /\ a = s[Len(s)].arg /\ TrailRight(s, a, lim)
        /\ s[Len(s)].side = "normal" /\ s[Len(s)].todo = {}
        /\ es # {} => GoesOn(a, "inverse", lim)
    BY <1>1, <1>3, <1>9
  <2> QED BY <2>1, <2>2, TrailOther
<1>11. /\ \A n : Ahead(n, stack', arg', pc') <=> AheadIn(n, u, a)
       /\ \A n : Ahead(n, stack, arg, pc) <=> AheadIn(n, s, a)
  BY <1>1, <1>9 DEF Ahead
<1> QED BY <1>1, <1>4, <1>9, <1>10, <1>11 DEF Missed

LEMMA OnceOtherSide ==
  ASSUME CallInv, OnceInv, OtherSide
  PROVE  OnceInv'
BY OtherSideTrail, FramesOnce

(* and after a move.                                                       *)
LEMMA TryMoveTrail ==
  ASSUME CallInv, OnceInv, TryMove
  PROVE  /\ pc = "loop" /\ pc' = "visit" /\ UNCHANGED <<req, depth, list>>
         /\ TrailRight(stack', arg', depth)
         /\ \A n : Ahead(n, stack', arg', pc') <=> Ahead(n, stack, arg, pc)
<1> DEFINE m == Min(Frame.todo)
           f == [stack[Len(stack)] EXCEPT !.todo = @ \ {m}]
           b == IF Frame.side = "normal" THEN AfterMove(arg, m) ELSE AfterPremove(arg, m)
<1>1. /\ pc = "loop" /\ pc' = "visit" /\ UNCHANGED <<req, depth, list>> /\ req \in Requests
      /\ ArgRight(arg) /\ StackRight(stack) /\ stack # <<>> /\ arg = stack[Len(stack)].arg
      /\ TrailRight(stack, arg, depth) /\ depth \in Nat /\ Frame = stack[Len(stack)]
      /\ Frame.todo # {}
  BY DEF TryMove, CallInv, OnceInv, Frame
<1>2. arg' = b
  BY DEF TryMove, AfterMove, AfterPremove
<1>3. stack' = [stack EXCEPT ![Len(stack)] = f]
  BY DEF TryMove, Frame
<1>4. stack \in Seq(Frames) /\ Len(stack) \in 1 .. Len(stack)
  BY <1>1 DEF StackRight
<1>5. /\ Frame \in Frames
      /\ Frame.todo \subseteq MovesAfter(IF Frame.side = "normal" THEN arg.moves ELSE arg.premoves)
      /\ Frame.side \in {"normal", "inverse"} /\ Frame.todo \subseteq MaskMoves
      /\ Legal(arg, depth) /\ GoesOn(arg, Frame.side, depth)
  <2>1. Frame \in Frames
    BY <1>1, <1>4
  <2>2. Frame.todo \subseteq MovesAfter(IF Frame.side = "normal" THEN arg.moves ELSE arg.premoves)
    BY <1>1, <1>4, FrameIs
  <2>3. Legal(arg, depth) /\ GoesOn(arg, Frame.side, depth)
    BY <1>1, <1>4 DEF TrailRight
  <2> QED BY <2>1, <2>2, <2>3 DEF Frames
<1>6. m \in Frame.todo /\ m \in MaskMoves
  <2>1. Frame.todo \subseteq Nat
    BY <1>5, MaskMovesNat
  <2>2. m \in Frame.todo
    BY <1>1, <2>1, MinIs
  <2> QED BY <1>5, <2>2
<1> HIDE DEF m
<1>7. Start \in Cubes
  BY <1>1, RequestAssumption DEF Start
<1>8. /\ Legal(b, depth) /\ Turns(b) = Turns(arg) + 1 /\ Follows(b, arg, Turns(arg))
      /\ SideAt(b, Turns(arg) + 1) = Frame.side /\ MoveAt(b, Turns(arg) + 1) = m
  <2>1. NodeRight(arg)
    BY <1>1, ArgNode
  <2>2. CASE Frame.side = "normal"
    <3>1. m \in MovesAfter(arg.moves)
      BY <1>5, <1>6, <2>2
    <3>2. Turns(AfterMove(arg, m)) = Turns(arg) + 1
      BY <1>1, <1>7, <3>1, MoveMore
    <3>3. /\ Legal(AfterMove(arg, m), depth)
          /\ Follows(AfterMove(arg, m), arg, Turns(arg))
          /\ SideAt(AfterMove(arg, m), Turns(arg) + 1) = "normal"
          /\ MoveAt(AfterMove(arg, m), Turns(arg) + 1) = m
      BY <1>1, <1>5, <1>6, <2>1, <2>2, MoveGoesOn
    <3> QED BY <2>2, <3>2, <3>3
  <2>3. CASE Frame.side = "inverse"
    <3>1. m \in MovesAfter(arg.premoves)
      BY <1>5, <1>6, <2>3
    <3>2. Turns(AfterPremove(arg, m)) = Turns(arg) + 1
      BY <1>1, <1>7, <3>1, PremoveMore
    <3>3. /\ Legal(AfterPremove(arg, m), depth)
          /\ Follows(AfterPremove(arg, m), arg, Turns(arg))
          /\ SideAt(AfterPremove(arg, m), Turns(arg) + 1) = "inverse"
          /\ MoveAt(AfterPremove(arg, m), Turns(arg) + 1) = m
      BY <1>1, <1>5, <1>6, <2>1, <2>3, PremoveGoesOn
    <3> QED BY <2>3, <3>2, <3>3
  <2> QED BY <1>5, <2>2, <2>3
<1> HIDE DEF b
<1>9. /\ f \in Frames /\ f.arg = stack[Len(stack)].arg /\ f.side = stack[Len(stack)].side
      /\ f.todo = stack[Len(stack)].todo \ {m}
  <2>1. stack[Len(stack)] \in Frames
    BY <1>4
  <2> QED BY <2>1 DEF Frames
<1> HIDE DEF f
<1>10. /\ Len(stack') = Len(stack)
       /\ \A k \in 1 .. Len(stack) : stack'[k] = IF k = Len(stack) THEN f ELSE stack[k]
  BY <1>3, <1>4, <1>9
<1>11. PICK u, s, a, c, lim : u = stack' /\ s = stack /\ a = arg /\ c = b /\ lim = depth
  OBVIOUS
<1>12. TakenFrom(s, u, m)
  BY <1>9, <1>10, <1>11 DEF TakenFrom
<1>13. /\ TrailRight(u, c, lim)
       /\ \A n : (Follows(n, c, Turns(c)) \/ AheadIn(n, u, c)) <=> AheadIn(n, s, a)
  <2>1. /\ StackRight(s) /\ s # <<>> /\ a = s[Len(s)].arg
        /\ TrailRight(s, a, lim) /\ m \in s[Len(s)].todo
    BY <1>1, <1>6, <1>11
  <2>2. /\ Legal(c, lim) /\ Turns(c) = Turns(a) + 1 /\ Follows(c, a, Turns(a))
        /\ SideAt(c, Turns(c)) = s[Len(s)].side /\ MoveAt(c, Turns(c)) = m
    BY <1>1, <1>8, <1>11
  <2> QED BY <2>1, <2>2, <1>12, TrailTry
<1>14. \A n : Ahead(n, stack', arg', pc') <=> Ahead(n, stack, arg, pc)
  BY <1>1, <1>2, <1>11, <1>13 DEF Ahead
<1> QED BY <1>1, <1>2, <1>11, <1>13, <1>14

LEMMA OnceTryMove ==
  ASSUME CallInv, OnceInv, TryMove
  PROVE  OnceInv'
<1>1. /\ pc = "loop" /\ pc' = "visit" /\ UNCHANGED <<req, depth, list>>
      /\ TrailRight(stack', arg', depth)
      /\ \A n : Ahead(n, stack', arg', pc') => Ahead(n, stack, arg, pc)
  BY TryMoveTrail
<1> QED BY <1>1, FramesOnce

LEMMA OnceNoMoreMoves ==
  ASSUME CallInv, ListInv, OnceInv, NoMoreMoves
  PROVE  OnceInv'
<1> DEFINE s == SubSeq(stack, 1, Len(stack) - 1)
<1>1. /\ pc = "loop" /\ req' = req /\ req \in Requests /\ StackRight(stack) /\ stack # <<>>
      /\ ArgRight(arg) /\ arg = Frame.arg /\ DfsReturn(Frame.ret, list, s) /\ depth \in Nat
      /\ LinesTo(list, depth) /\ Once(list.lines) /\ TrailRight(stack, arg, depth)
      /\ LinesPassed(list.lines, stack, arg, "loop", depth)
      /\ stack[Len(stack)].side = "inverse" /\ stack[Len(stack)].todo = {}
  BY DEF NoMoreMoves, CallInv, ListInv, OnceInv, Frame
<1>2. Len(stack) \in 1 .. Len(stack) /\ stack \in Seq(Frames)
  BY <1>1 DEF StackRight
<1>3. Frame.ret \in Int /\ Turns(arg) = Len(stack) - 1
  BY <1>1, <1>2, FrameIs DEF Frame, Frames
<1>4. StackRight(s) /\ Len(s) = Len(stack) - 1 /\ \A k \in 1 .. Len(s) : s[k] = stack[k]
  BY <1>1, StackPopped
<1> HIDE DEF s
<1>5. /\ TrailRight(s, arg, depth)
      /\ \A n : AheadIn(n, s, arg) <=> AheadIn(n, stack, arg)
  BY <1>1, <1>4, TrailPop
<1>6. LinesPassed(list.lines, s, arg, "loop", depth)
  <2>1. \A n : Ahead(n, s, arg, "loop") => Ahead(n, stack, arg, "loop")
    BY <1>5 DEF Ahead
  <2> QED BY <1>1, <2>1, PassedStill
<1>7. Turns(arg) \in {Len(s), Len(s) - 1}
  BY <1>3, <1>4
<1> QED BY <1>1, <1>3, <1>4, <1>5, <1>6, <1>7, ReturnOnce

LEMMA OnceInit == Init => OnceInv
BY DEF Init, SolveInit, OnceInv, solution_list_init, Once

LEMMA OnceStep ==
  ASSUME GenInv, CallInv, ListInv, OnceInv, [Next]_vars
  PROVE  OnceInv'
<1>1. CASE UNCHANGED solvevars
  <2>1. PICK ls, s, a, p, lim : ls = list.lines /\ s = stack /\ a = arg /\ p = pc /\ lim = depth
    OBVIOUS
  <2>2. LinesPassed(ls, s, a, p, lim)' <=> LinesPassed(ls, s, a, p, lim)
    BY <1>1, PassedKept DEF solvevars
  <2>3. LinesPassed(list.lines, stack, arg, pc, depth)' <=> LinesPassed(ls, s, a, p, lim)
    BY <1>1, <2>1, <2>2 DEF solvevars
  <2> QED BY <1>1, <2>1, <2>3 DEF OnceInv, solvevars
<1>2. CASE \E r \in Requests : solve_coord(r)
  <2>1. PICK r \in Requests : solve_coord(r)
    BY <1>2
  <2>2. list' = solution_list_init /\ pc' \in {"start", "returned"} /\ arg'.lastisnormal
    BY <2>1 DEF solve_coord, Return, Root
  <2> QED BY <2>2 DEF OnceInv, Once, solution_list_init
<1>3. CASE AlreadySolved
  <2>1. /\ pc = "start" /\ pc' = "returned" /\ list.lines = <<>>
        /\ list' = list \/ list' = appendsolution(ThisLine).list
    BY <1>3 DEF AlreadySolved, Return, ListInv
  <2>2. list'.lines = <<>> \/ list'.lines = Append(<<>>, ThisLine)
    <3>1. LinesTo(list, depth)
      BY <2>1 DEF ListInv
    <3> QED BY <2>1, <3>1, AppendLines
  <2>3. Once(list'.lines)
    BY <2>2 DEF Once
  <2> QED BY <2>1, <2>3 DEF OnceInv
<1>4. CASE NeedsMoves
  BY <1>4 DEF NeedsMoves, OnceInv, ListInv, Once
<1>5. CASE SearchDepth
  <2>1. /\ pc = "depth" /\ UNCHANGED <<req, arg, stack, list, depth>> /\ stack = <<>>
        /\ pc' \in {"visit", "returned"} /\ Turns(arg) = 0 /\ depth \in Nat
    BY <1>5 DEF SearchDepth, Return, CallInv
  <2>2. TrailRight(stack, arg, depth)
    <3>1. Len(stack) = 0
      BY <2>1
    <3>2. Legal(arg, depth)
      <4>1. NodeRight(arg) /\ arg.lastisnormal
        BY <2>1, ArgNode DEF CallInv, OnceInv
      <4> QED BY <2>1, <4>1, RootNormal
    <3> QED BY <3>1, <3>2 DEF TrailRight
  <2>3. \A k \in 1 .. Len(list.lines) : LineLen(list.lines[k]) < depth
    BY <2>1 DEF OnceInv
  <2> QED BY <2>1, <2>2, <2>3 DEF OnceInv, LinesPassed
<1>6. CASE solve_coord_dfs
  BY <1>6, OnceVisit, OnceVisitSolved, OnceTryMove, OnceOtherSide, OnceNoMoreMoves
     DEF solve_coord_dfs
<1> QED BY <1>1, <1>2, <1>3, <1>4, <1>5, <1>6 DEF Next, vars

LEMMA OnceIs ==
  ASSUME list.lines \in Seq(Lines), Once(list.lines)
  PROVE  WrittenOnce
<1>1. DOMAIN list.lines = 1 .. Len(list.lines)
  OBVIOUS
<1> QED BY <1>1, Zenon DEF WrittenOnce, Once

LEMMA OnceWritten ==
  ASSUME ListInv, OnceInv
  PROVE  WrittenOnce
<1>1. CASE pc = "idle"
  BY <1>1 DEF ListInv, WrittenOnce
<1>2. CASE pc # "idle"
  BY <1>2, OnceIs DEF ListInv, LinesTo, OnceInv
<1> QED BY <1>1, <1>2

(* No depth and no order of the sides leads solve_coord_dfs to the same    *)
(* pair of sequences twice, and no two pairs are written the same: a line  *)
(* is written once, but for the pairs of a mixed search with one move more *)
(* on the normal side, that the two limits on the change of side both      *)
(* allow.                                                                  *)
THEOREM CoordWrittenOnce == Spec => []WrittenOnce
<1>1. Init => GenInv /\ CallInv /\ ListInv /\ OnceInv
  BY GenInitInv, CallInit, ListInit, OnceInit DEF Init
<1>2. GenInv /\ CallInv /\ ListInv /\ OnceInv /\ [Next]_vars
        => (GenInv /\ CallInv /\ ListInv /\ OnceInv)'
  BY GenInvStep, CallInvStep, ListStep, OnceStep
<1> QED BY <1>1, <1>2, OnceWritten, PTL DEF Spec

-----------------------------------------------------------------------------
(* What a line takes of the buffer.                                        *)
PieceSet == [len : Nat, what : {"moves", "space", "newline", "(", ")"}]

(* A sum of numbers exists, and is no less than what it begins with.        *)
IsSum(f, n, u, g) == g = [k \in 0 .. n |-> IF k = 0 THEN u ELSE g[k-1] + f[k]]

LEMMA SumExists ==
  ASSUME NEW f, NEW u, NEW n \in Nat
  PROVE  \E g : IsSum(f, n, u, g)
<1> DEFINE Bad == {m \in Nat : ~\E g : IsSum(f, m, u, g)}
<1>1. ASSUME Bad # {} PROVE FALSE
  <2>1. PICK m \in Bad : \A x \in Bad : m <= x
    BY <1>1, LeastOf
  <2>2. CASE m = 0
    <3>1. IsSum(f, 0, u, [k \in 0 .. 0 |-> u])
      BY DEF IsSum
    <3> QED BY <2>2, <3>1
  <2>3. CASE m > 0
    <3>1. m - 1 \in Nat /\ m - 1 \notin Bad
      BY <2>1, <2>3
    <3>2. PICK g : IsSum(f, m - 1, u, g)
      BY <3>1
    <3> DEFINE h == [k \in 0 .. m |-> IF k = m THEN g[m-1] + f[m] ELSE g[k]]
    <3>3. \A k \in 0 .. m : k = m \/ k \in 0 .. m-1
      BY <2>3
    <3>4. \A k \in 0 .. m : h[k] = IF k = 0 THEN u ELSE h[k-1] + f[k]
      BY <2>3, <3>2, <3>3 DEF IsSum
    <3>5. IsSum(f, m, u, h)
      BY <3>4 DEF IsSum
    <3> QED BY <3>5
  <2> QED BY <2>1, <2>2, <2>3
<1> QED BY <1>1

LEMMA SumGrows ==
  ASSUME NEW f, NEW u \in Int, NEW n \in Nat, \A k \in 1 .. n : f[k] \in Nat,
         NEW g, IsSum(f, n, u, g), NEW k \in 0 .. n
  PROVE  g[k] \in Int /\ g[k] >= u
<1> DEFINE Bad == {m \in 0 .. n : ~(g[m] \in Int /\ g[m] >= u)}
<1>1. ASSUME Bad # {} PROVE FALSE
  <2>0. Bad \subseteq Nat
    OBVIOUS
  <2>1. PICK m \in Bad : \A x \in Bad : m <= x
    <3> HIDE DEF Bad
    <3> QED BY <1>1, <2>0, LeastOf
  <2>2. m # 0
    BY <2>1 DEF IsSum
  <2>3. m - 1 \in 0 .. n /\ m - 1 \notin Bad /\ m \in 1 .. n
    BY <2>1, <2>2
  <2>4. g[m] = g[m-1] + f[m]
    BY <2>3 DEF IsSum
  <2> QED BY <2>1, <2>3, <2>4
<1> QED BY <1>1

LEMMA UsedGrows ==
  ASSUME list.used \in Nat, NEW ps \in Seq(PieceSet), NEW k \in 0 .. Len(ps)
  PROVE  UsedAfter(ps, k) \in Nat /\ UsedAfter(ps, k) >= list.used
<1> DEFINE f == [j \in 1 .. Len(ps) |-> ps[j].len]
           IsIt(g) == g = [n \in 0 .. Len(ps) |-> IF n = 0 THEN list.used ELSE g[n-1] + ps[n].len]
<1>1. \A j \in 1 .. Len(ps) : f[j] \in Nat
  <2> SUFFICES ASSUME NEW j \in 1 .. Len(ps) PROVE ps[j].len \in Nat
    OBVIOUS
  <2>1. ps[j] \in PieceSet
    OBVIOUS
  <2> QED BY <2>1 DEF PieceSet
<1>2. \A g : IsSum(f, Len(ps), list.used, g) <=> IsIt(g)
  <2> SUFFICES ASSUME NEW g
               PROVE  [n \in 0 .. Len(ps) |-> IF n = 0 THEN list.used ELSE g[n-1] + f[n]]
                        = [n \in 0 .. Len(ps) |-> IF n = 0 THEN list.used ELSE g[n-1] + ps[n].len]
    BY DEF IsSum
  <2> QED OBVIOUS
<1>3. PICK u \in Nat : u = list.used
  OBVIOUS
<1>4. Len(ps) \in Nat
  OBVIOUS
<1>5. \E g : IsSum(f, Len(ps), u, g)
  BY <1>4, SumExists
<1> DEFINE h == CHOOSE g : IsIt(g)
<1>6. IsIt(h)
  BY <1>2, <1>3, <1>5
<1>7. UsedAfter(ps, k) = h[k]
  BY DEF UsedAfter
<1> HIDE DEF f, IsIt, h
<1>8. IsSum(f, Len(ps), u, h)
  BY <1>2, <1>3, <1>6
<1>9. h[k] \in Int /\ h[k] >= u
  <2>1. PICK n \in Nat : n = Len(ps)
    BY <1>4
  <2>2. IsSum(f, n, u, h) /\ k \in 0 .. n /\ \A j \in 1 .. n : f[j] \in Nat
    BY <1>1, <1>8, <2>1
  <2> QED BY <2>2, SumGrows
<1>10. h[k] \in Nat /\ h[k] >= u
  BY <1>9
<1> QED BY <1>3, <1>7, <1>10

(* The pieces of a line have a length each.                                *)
LEMMA TextNat ==
  ASSUME NEW ms, Len(ms) \in Nat \ {0}, \A k \in 1 .. Len(ms) : movelen(ms[k]) \in Nat
  PROVE  textlen(ms) \in Nat
<1> DEFINE f == [j \in 1 .. Len(ms) |-> movelen(ms[j])]
           IsIt(g) == g = [n \in 0 .. Len(ms) |-> IF n = 0 THEN Len(ms) - 1 ELSE g[n-1] + movelen(ms[n])]
<1>1. PICK n \in Nat \ {0} : n = Len(ms)
  OBVIOUS
<1>2. \A j \in 1 .. n : f[j] \in Nat
  BY <1>1
<1>3. \A g : IsSum(f, Len(ms), Len(ms) - 1, g) <=> IsIt(g)
  <2> SUFFICES ASSUME NEW g
               PROVE  [k \in 0 .. Len(ms) |-> IF k = 0 THEN Len(ms) - 1 ELSE g[k-1] + f[k]]
                        = [k \in 0 .. Len(ms) |-> IF k = 0 THEN Len(ms) - 1 ELSE g[k-1] + movelen(ms[k])]
    BY DEF IsSum
  <2> QED OBVIOUS
<1>4. PICK u \in Nat : u = n - 1
  OBVIOUS
<1>5. \E g : IsSum(f, n, u, g)
  BY SumExists
<1> DEFINE h == CHOOSE g : IsIt(g)
<1>6. IsIt(h)
  BY <1>1, <1>3, <1>4, <1>5
<1>7. textlen(ms) = h[n]
  BY <1>1 DEF textlen
<1> HIDE DEF f, IsIt, h
<1>8. IsSum(f, n, u, h)
  BY <1>1, <1>3, <1>4, <1>6
<1>9. h[n] \in Int /\ h[n] >= u
  BY <1>2, <1>8, SumGrows
<1> QED BY <1>7, <1>9

LEMMA PiecesAre ==
  ASSUME NEW l, NEW S, \A m \in S : movelen(m) \in Nat,
         l.moves \in Seq(S), l.premoves \in Seq(S)
  PROVE  Pieces(l) \in Seq(PieceSet)
<1>1. ASSUME NEW ms \in Seq(S), ms # <<>>
      PROVE  <<[len |-> textlen(ms), what |-> "moves"]>> \in Seq(PieceSet)
  <2>1. Len(ms) \in Nat \ {0} /\ \A k \in 1 .. Len(ms) : movelen(ms[k]) \in Nat
    BY <1>1
  <2>2. textlen(ms) \in Nat
    BY <2>1, TextNat
  <2> QED BY <2>2 DEF PieceSet
<1>2. \A c \in {"space", "newline", "(", ")"} : Char(c) \in Seq(PieceSet)
  BY DEF Char, PieceSet
<1>3. \A s, u \in Seq(PieceSet) : s \o u \in Seq(PieceSet)
  OBVIOUS
<1>4. appendnormal(l) \in Seq(PieceSet)
  BY <1>1 DEF appendnormal
<1>5. appendinverse(l) \in Seq(PieceSet)
  <2>1. CASE l.premoves = <<>>
    BY <2>1 DEF appendinverse
  <2>2. CASE l.premoves # <<>>
    <3>1. <<[len |-> textlen(l.premoves), what |-> "moves"]>> \in Seq(PieceSet)
      BY <1>1, <2>2
    <3> QED BY <1>2, <1>3, <2>2, <3>1 DEF appendinverse
  <2> QED BY <2>1, <2>2
<1>6. \A s \in {<<>>, Char("space")} : s \in Seq(PieceSet)
  <2>1. <<>> \in Seq(PieceSet) /\ Char("space") \in Seq(PieceSet)
    BY <1>2
  <2> QED BY <2>1, Zenon
<1>7. ASSUME NEW s \in {<<>>, Char("space")}
      PROVE  /\ appendnormal(l) \o s \o appendinverse(l) \o Char("newline") \in Seq(PieceSet)
             /\ appendinverse(l) \o s \o appendnormal(l) \o Char("newline") \in Seq(PieceSet)
  <2>1. s \in Seq(PieceSet) /\ Char("newline") \in Seq(PieceSet)
    BY <1>2, <1>6
  <2>2. appendnormal(l) \o s \in Seq(PieceSet) /\ appendinverse(l) \o s \in Seq(PieceSet)
    BY <1>3, <1>4, <1>5, <2>1
  <2>3. /\ appendnormal(l) \o s \o appendinverse(l) \in Seq(PieceSet)
        /\ appendinverse(l) \o s \o appendnormal(l) \in Seq(PieceSet)
    BY <1>3, <1>4, <1>5, <2>2
  <2> QED BY <1>3, <2>1, <2>3
<1> QED BY <1>7, Zenon DEF Pieces

-----------------------------------------------------------------------------
(* Room is left in the list and in the buffer; what the list counts.       *)
Room(l) == l.nsols < req.maxsolutions /\ l.used < req.size
CountsRight(l) ==
  /\ l.nsols \in Nat /\ l.used \in Nat
  /\ l.shortest_sol = IF l.lines = <<>> THEN MAXLEN + 1 ELSE LineLen(l.lines[1])

LEMMA WrittenTexts ==
  ASSUME req \in Requests, NEW ms \in Seq(MaskMoves), Canonical(ms)
  PROVE  /\ \A m \in Papers(req) : movelen(m) \in Nat
         /\ Written(ms) \in Seq(Papers(req))
<1>1. \A m \in MaskMoves : movelen(OnPaper(req, m)) \in Nat
  BY WritingAssumption DEF MaskMoves
<1>2. Len(Written(ms)) = Len(ms) /\ Len(ms) \in Nat
  BY WrittenCanonical
<1>3. Written(ms) = [k \in 1 .. Len(ms) |-> Written(ms)[k]]
  BY WrittenIs DEF SortedTo, OnPaperAll
<1>4. \A k \in 1 .. Len(ms) : Written(ms)[k] \in Papers(req)
  BY AtIs DEF Papers
<1> QED BY <1>1, <1>2, <1>3, <1>4 DEF Papers

LEMMA AppendRoom ==
  ASSUME req \in Requests, depth \in Nat, depth <= req.maxmoves, ArgRight(arg),
         Turns(arg) = depth, LinesTo(list, depth), CountsRight(list),
         appendsolution(ThisLine).ret >= 0
  PROVE  /\ CountsRight(appendsolution(ThisLine).list)
         /\ Room(appendsolution(ThisLine).list) =>
              Room(list) /\ appendsolution(ThisLine).list.lines = Append(list.lines, ThisLine)
<1> DEFINE l == ThisLine
           ps == Pieces(l)
           cut == {k \in DOMAIN ps : NoRoom(ps, k)}
           a == appendsolution(l)
<1>1. NodeRight(arg)
  BY ArgNode
<1>2. l = LineOf(arg)
  BY DEF LineOf, ThisLine
<1>3. l \in Lines /\ LineLen(l) = depth
  BY <1>1, <1>2, LineOfIs
<1>4. ps \in Seq(PieceSet)
  <2>1. l.moves \in Seq(Papers(req)) /\ l.premoves \in Seq(Papers(req))
    BY <1>1, WrittenTexts DEF ThisLine, NodeRight
  <2>2. \A m \in Papers(req) : movelen(m) \in Nat
    BY <1>1, WrittenTexts DEF NodeRight
  <2> HIDE DEF l
  <2> QED BY <2>1, <2>2, PiecesAre
<1>5. /\ req.maxsolutions \in Nat /\ req.size \in Nat /\ req.maxmoves \in 0 .. MAXLEN
      /\ list.nsols \in Nat /\ list.used \in Nat /\ list.lines \in Seq(Lines)
  BY RequestAssumption DEF CountsRight, LinesTo
<1>6. CASE list.nsols >= req.maxsolutions
  <2>1. a.list = list
    BY <1>6 DEF appendsolution
  <2> QED BY <1>5, <1>6, <2>1 DEF Room
<1>7. CASE ~(list.nsols >= req.maxsolutions) /\ cut = {}
  <2>1. a.list = [lines |-> Append(list.lines, l), nsols |-> list.nsols + 1,
                  shortest_sol |-> Min({list.shortest_sol, LineLen(l)}),
                  used |-> UsedAfter(ps, Len(ps))]
    BY <1>7 DEF appendsolution, LineLen
  <2>2. UsedAfter(ps, Len(ps)) \in Nat /\ UsedAfter(ps, Len(ps)) >= list.used
    BY <1>4, <1>5, UsedGrows
  <2>3. Append(list.lines, l) # <<>>
        /\ Append(list.lines, l)[1] = IF list.lines = <<>> THEN l ELSE list.lines[1]
    BY <1>3, <1>5
  <2>4. Min({list.shortest_sol, LineLen(l)}) = LineLen(Append(list.lines, l)[1])
    <3>1. CASE list.lines = <<>>
      <4>1. list.shortest_sol = 21 /\ depth \in Nat /\ depth <= 20
        <5>1. PICK mx \in 0 .. 20 : mx = req.maxmoves
          BY <1>5 DEF MAXLEN
        <5>2. list.shortest_sol = 21
          BY <3>1 DEF CountsRight, MAXLEN
        <5> QED BY <5>1, <5>2
      <4>2. Min({21, depth}) = depth
        <5>1. PICK n \in Nat : n = depth /\ n <= 20
          BY <4>1
        <5>2. Min({21, n}) \in {21, n} /\ Min({21, n}) <= n
          BY MinIs
        <5> QED BY <5>1, <5>2
      <4> QED BY <1>3, <2>3, <3>1, <4>1, <4>2
    <3>2. CASE list.lines # <<>>
      <4>1. PICK n : n = LineLen(list.lines[1])
        OBVIOUS
      <4>2. list.lines[1] \in Lines
        BY <1>5, <3>2
      <4>3. n \in Nat /\ n <= depth /\ list.shortest_sol = n
        BY <1>5, <3>2, <4>1, <4>2, LinesNat DEF CountsRight, LinesTo
      <4>4. Min({n, depth}) = n
        <5>1. PICK h \in Nat : h = depth /\ n <= h
          BY <4>3
        <5>2. Min({n, h}) \in {n, h} /\ Min({n, h}) <= n
          BY <4>3, MinIs
        <5> QED BY <4>3, <5>1, <5>2
      <4> QED BY <1>3, <2>3, <3>2, <4>1, <4>3, <4>4
    <3> QED BY <3>1, <3>2
  <2>5. CountsRight(a.list)
    BY <1>5, <2>1, <2>2, <2>3, <2>4 DEF CountsRight
  <2>6. Room(a.list) => Room(list)
    BY <1>5, <2>1, <2>2 DEF Room
  <2> QED BY <2>1, <2>5, <2>6
<1>8. CASE ~(list.nsols >= req.maxsolutions) /\ cut # {}
  <2>1. cut \subseteq Nat
    BY <1>4
  <2>2. PICK k : k = Min(cut)
    OBVIOUS
  <2>3. k \in cut /\ k \in 1 .. Len(ps)
    <3>1. cut \subseteq 1 .. Len(ps)
      BY <1>4
    <3> HIDE DEF cut
    <3> QED BY <1>8, <2>1, <2>2, <3>1, MinIs
  <2>4. /\ a.list = [list EXCEPT !.used = UsedAfter(ps, k - 1)]
        /\ a.ret = IF ps[k].what = "space" THEN 0 ELSE ERROR_BUFFER_SIZE
    BY <1>8, <2>2 DEF appendsolution
  <2>5. ps[k].what = "space"
    BY <2>4 DEF ERROR_BUFFER_SIZE
  <2>6. UsedAfter(ps, k - 1) \in Nat
    BY <1>4, <1>5, <2>3, UsedGrows
  <2>7. UsedAfter(ps, k - 1) >= req.size
    BY <2>3, <2>5 DEF NoRoom
  <2>8. /\ a.list.lines = list.lines /\ a.list.nsols = list.nsols
        /\ a.list.shortest_sol = list.shortest_sol /\ a.list.used = UsedAfter(ps, k - 1)
    <3>1. list = [lines |-> list.lines, nsols |-> list.nsols, shortest_sol |-> list.shortest_sol,
                  used |-> list.used]
      BY DEF LinesTo
    <3> QED BY <2>4, <3>1
  <2> QED BY <1>5, <2>6, <2>7, <2>8 DEF CountsRight, Room
<1> QED BY <1>6, <1>7, <1>8

-----------------------------------------------------------------------------
(* The cubes on the way to a solution: as many moves are left at least as  *)
(* the cube is far from what looks solved.                                 *)
LEMMA PartIs ==
  ASSUME NEW S, NEW ms \in Seq(S), NEW n \in 0 .. Len(ms)
  PROVE  /\ SubSeq(ms, 1, n) \in Seq(S) /\ Len(SubSeq(ms, 1, n)) = n
         /\ \A k \in 1 .. n : SubSeq(ms, 1, n)[k] = ms[k]
OBVIOUS

LEMMA AfterPart ==
  ASSUME NEW side, NEW c, NEW ms \in Seq(MaskMoves), NEW g,
         IsAfter(side, c, ms, Len(ms), g), NEW n \in 0 .. Len(ms)
  PROVE  After(side, c, SubSeq(ms, 1, n)) = g[n]
<1>1. PICK ns \in Seq(MaskMoves) :
         ns = SubSeq(ms, 1, n) /\ Len(ns) = n /\ \A k \in 1 .. n : ms[k] = ns[k]
  BY PartIs, Zenon
<1>2. PICK h : IsAfter(side, c, ns, n, h) /\ After(side, c, ns) = h[n]
  <2>1. Len(ns) \in Nat
    BY <1>1
  <2> QED BY <1>1, <2>1, AfterIs
<1>3. PICK m \in Nat, x \in Nat : m = Len(ms) /\ x = n /\ x <= m
  OBVIOUS
<1>4. g[x] = h[x]
  <2>1. IsAfter(side, c, ms, m, g) /\ IsAfter(side, c, ns, x, h) /\ x \in 0 .. m
    BY <1>2, <1>3
  <2>2. \A k \in 1 .. x : ms[k] = ns[k]
    BY <1>1, <1>3
  <2> QED BY <2>1, <2>2, AfterUnique
<1> QED BY <1>1, <1>2, <1>3, <1>4

LEMMA WholeSeq ==
  ASSUME NEW S, NEW ms \in Seq(S)
  PROVE  SubSeq(ms, 1, Len(ms)) = ms
OBVIOUS

(* The normal side last.                                                   *)
LEMMA NormalWay ==
  ASSUME NEW c \in Cubes, NEW ms \in Seq(MaskMoves), NEW ps \in Seq(MaskMoves),
         NEW n \in 0 .. Len(ms)
  PROVE  /\ Apply(c, SubSeq(ms, 1, n), ps) \in Cubes
         /\ n > 0 => Apply(c, SubSeq(ms, 1, n), ps)
                       = move(Apply(c, SubSeq(ms, 1, n - 1), ps), ms[n])
<1>1. \A k \in 0 .. Len(ms) :
         SubSeq(ms, 1, k) \in Seq(MaskMoves) /\ After("normal", c, SubSeq(ms, 1, k)) \in Cubes
  <2> SUFFICES ASSUME NEW k \in 0 .. Len(ms)
               PROVE  SubSeq(ms, 1, k) \in Seq(MaskMoves) /\ After("normal", c, SubSeq(ms, 1, k)) \in Cubes
    OBVIOUS
  <2>1. PICK ns \in Seq(MaskMoves) : ns = SubSeq(ms, 1, k)
    BY PartIs, Zenon
  <2>2. After("normal", c, ns) \in Cubes
    BY AfterType DEF MaskMoves
  <2> QED BY <2>1, <2>2
<1>2. Apply(c, SubSeq(ms, 1, n), ps) \in Cubes
  BY <1>1, AfterType DEF Apply, MaskMoves
<1>3. ASSUME n > 0
      PROVE  Apply(c, SubSeq(ms, 1, n), ps) = move(Apply(c, SubSeq(ms, 1, n - 1), ps), ms[n])
  <2>1. PICK g : IsAfter("normal", c, ms, Len(ms), g)
    <3>1. Len(ms) \in Nat
      OBVIOUS
    <3> QED BY <3>1, AfterExists
  <2>2. n - 1 \in 0 .. Len(ms) /\ n # 0 /\ ms[n] \in MaskMoves
    BY <1>3
  <2>3. After("normal", c, SubSeq(ms, 1, n)) = g[n]
        /\ After("normal", c, SubSeq(ms, 1, n - 1)) = g[n-1]
    BY <2>1, <2>2, AfterPart
  <2>4. g[n] = move(g[n-1], ms[n]) /\ g[n-1] \in Cubes
    BY <1>1, <2>1, <2>2, <2>3 DEF IsAfter, Turned
  <2>5. PICK e \in Cubes : e = g[n-1]
    BY <2>4
  <2>6. After("inverse", move(e, ms[n]), ps) = move(After("inverse", e, ps), ms[n])
    BY <2>2, <2>5, TurnsCommute DEF MaskMoves
  <2> QED BY <2>3, <2>4, <2>5, <2>6 DEF Apply
<1> QED BY <1>2, <1>3

LEMMA InverseWay ==
  ASSUME NEW c \in Cubes, NEW ms \in Seq(MaskMoves), NEW ps \in Seq(MaskMoves),
         NEW n \in 0 .. Len(ps)
  PROVE  /\ Apply(c, ms, SubSeq(ps, 1, n)) \in Cubes
         /\ n > 0 => Apply(c, ms, SubSeq(ps, 1, n))
                       = premove(Apply(c, ms, SubSeq(ps, 1, n - 1)), ps[n])
<1>1. PICK e \in Cubes : e = After("normal", c, ms)
  BY AfterType DEF MaskMoves
<1>2. \A k \in 0 .. Len(ps) :
         SubSeq(ps, 1, k) \in Seq(MaskMoves) /\ After("inverse", e, SubSeq(ps, 1, k)) \in Cubes
  <2> SUFFICES ASSUME NEW k \in 0 .. Len(ps)
               PROVE  SubSeq(ps, 1, k) \in Seq(MaskMoves) /\ After("inverse", e, SubSeq(ps, 1, k)) \in Cubes
    OBVIOUS
  <2>1. PICK ns \in Seq(MaskMoves) : ns = SubSeq(ps, 1, k)
    BY PartIs, Zenon
  <2>2. After("inverse", e, ns) \in Cubes
    BY AfterType DEF MaskMoves
  <2> QED BY <2>1, <2>2
<1>3. ASSUME n > 0
      PROVE  Apply(c, ms, SubSeq(ps, 1, n)) = premove(Apply(c, ms, SubSeq(ps, 1, n - 1)), ps[n])
  <2>1. PICK g : IsAfter("inverse", e, ps, Len(ps), g)
    <3>1. Len(ps) \in Nat
      OBVIOUS
    <3> QED BY <3>1, AfterExists
  <2>2. n - 1 \in 0 .. Len(ps) /\ n # 0
    BY <1>3
  <2>3. After("inverse", e, SubSeq(ps, 1, n)) = g[n]
        /\ After("inverse", e, SubSeq(ps, 1, n - 1)) = g[n-1]
    BY <2>1, <2>2, AfterPart
  <2>4. g[n] = premove(g[n-1], ps[n])
    BY <2>1, <2>2 DEF IsAfter, Turned
  <2> QED BY <1>1, <2>3, <2>4 DEF Apply
<1> QED BY <1>1, <1>2, <1>3 DEF Apply

LEMMA DistanceStep ==
  ASSUME NEW c \in Cubes, NEW m \in MaskMoves
  PROVE  /\ move(c, m) \in Cubes
         /\ Distance[c] \in Nat /\ Distance[move(c, m)] \in Nat
         /\ Distance[c] <= Distance[move(c, m)] + 1
<1>1. PICK k \in DOMAIN moves_mask : m = moves_mask[k]
  BY MoveAssumption DEF MaskMoves, ToSet
<1>2. move(c, m) \in Cubes
  BY <1>1, MoveAssumption
<1> QED BY <1>1, <1>2, DistanceAssumption DEF Unset

LEMMA DistanceFalls ==
  ASSUME NEW n \in Nat, NEW h, \A k \in 0 .. n : h[k] \in Cubes,
         \A k \in 1 .. n : \E m \in MaskMoves : h[k] = move(h[k-1], m),
         h[n] \in Goal, NEW x \in 0 .. n
  PROVE  Distance[h[x]] <= n - x
<1> DEFINE Bad == {k \in 0 .. n : ~(Distance[h[n - k]] <= k)}
<1>1. ASSUME Bad # {} PROVE FALSE
  <2>0. Bad \subseteq Nat
    OBVIOUS
  <2>1. PICK k \in Bad : \A y \in Bad : k <= y
    <3> HIDE DEF Bad
    <3> QED BY <1>1, <2>0, LeastOf
  <2>2. k # 0
    <3>1. Distance[h[n]] = 0 /\ n - 0 = n
      BY DistanceAssumption
    <3>2. 0 \notin Bad
      BY <3>1
    <3> QED BY <2>1, <3>2
  <2>3. k - 1 \in 0 .. n /\ k - 1 \notin Bad /\ n - k \in 0 .. n /\ n - (k - 1) \in 1 .. n
        /\ n - (k - 1) - 1 = n - k
    BY <2>1, <2>2
  <2>4. PICK m \in MaskMoves : h[n - (k - 1)] = move(h[n - k], m)
    BY <2>3
  <2>5. Distance[h[n - k]] <= Distance[h[n - (k - 1)]] + 1
        /\ Distance[h[n - k]] \in Nat /\ Distance[h[n - (k - 1)]] \in Nat
    BY <2>3, <2>4, DistanceStep
  <2>6. Distance[h[n - (k - 1)]] <= k - 1
    BY <2>3
  <2> QED BY <2>1, <2>5, <2>6
<1>2. n - x \in 0 .. n /\ n - (n - x) = x
  OBVIOUS
<1> QED BY <1>1, <1>2

LEMMA NormalLeft ==
  ASSUME NEW c \in Cubes, NEW ms \in Seq(MaskMoves), NEW ps \in Seq(MaskMoves),
         Apply(c, ms, ps) \in Goal, NEW x \in 0 .. Len(ms)
  PROVE  Distance[Apply(c, SubSeq(ms, 1, x), ps)] <= Len(ms) - x
<1> DEFINE h == [k \in 0 .. Len(ms) |-> Apply(c, SubSeq(ms, 1, k), ps)]
<1>1. PICK n \in Nat : n = Len(ms)
  OBVIOUS
<1>2. \A k \in 0 .. n : h[k] \in Cubes
  BY <1>1, NormalWay
<1>3. ASSUME NEW k \in 1 .. n PROVE \E m \in MaskMoves : h[k] = move(h[k-1], m)
  <2>1. k \in 0 .. Len(ms) /\ k - 1 \in 0 .. Len(ms) /\ k > 0 /\ ms[k] \in MaskMoves
    BY <1>1
  <2>2. Apply(c, SubSeq(ms, 1, k), ps) = move(Apply(c, SubSeq(ms, 1, k - 1), ps), ms[k])
    BY <2>1, NormalWay
  <2> QED BY <2>1, <2>2
<1>4. h[n] \in Goal
  <2>1. SubSeq(ms, 1, n) = ms
    BY <1>1, WholeSeq
  <2>2. h[n] = Apply(c, SubSeq(ms, 1, n), ps)
    BY <1>1
  <2> HIDE DEF h
  <2> QED BY <2>1, <2>2
<1>5. h[x] = Apply(c, SubSeq(ms, 1, x), ps) /\ x \in 0 .. n
  BY <1>1
<1> HIDE DEF h
<1>6. Distance[h[x]] <= n - x
  BY <1>2, <1>3, <1>4, <1>5, DistanceFalls
<1> QED BY <1>1, <1>5, <1>6

LEMMA InverseLeft ==
  ASSUME NEW c \in Cubes, NEW ms \in Seq(MaskMoves), NEW ps \in Seq(MaskMoves),
         Apply(c, ms, ps) \in Goal, NEW y \in 0 .. Len(ps)
  PROVE  Distance[inverse(Apply(c, ms, SubSeq(ps, 1, y)))] <= Len(ps) - y
<1> DEFINE h == [k \in 0 .. Len(ps) |-> inverse(Apply(c, ms, SubSeq(ps, 1, k)))]
<1>1. PICK n \in Nat : n = Len(ps)
  OBVIOUS
<1>2. \A k \in 0 .. n : Apply(c, ms, SubSeq(ps, 1, k)) \in Cubes /\ h[k] \in Cubes
  BY <1>1, InverseWay, InverseAssumption
<1>3. ASSUME NEW k \in 1 .. n PROVE \E m \in MaskMoves : h[k] = move(h[k-1], m)
  <2>1. k \in 0 .. Len(ps) /\ k - 1 \in 0 .. Len(ps) /\ k > 0 /\ ps[k] \in MaskMoves
    BY <1>1
  <2>2. Apply(c, ms, SubSeq(ps, 1, k)) = premove(Apply(c, ms, SubSeq(ps, 1, k - 1)), ps[k])
    BY <2>1, InverseWay
  <2>3. PICK e \in Cubes : e = Apply(c, ms, SubSeq(ps, 1, k - 1))
    BY <1>1, <1>2, <2>1
  <2>4. inverse(premove(e, ps[k])) = move(inverse(e), ps[k])
    BY <2>1, InverseAssumption DEF MaskMoves
  <2>5. h[k] = inverse(premove(e, ps[k])) /\ h[k-1] = inverse(e)
    BY <2>1, <2>2, <2>3
  <2> QED BY <2>1, <2>4, <2>5
<1>4. h[n] \in Goal
  <2>1. SubSeq(ps, 1, n) = ps
    BY <1>1, WholeSeq
  <2>2. h[n] = inverse(Apply(c, ms, SubSeq(ps, 1, n))) /\ n \in 0 .. n
    BY <1>1
  <2>3. Apply(c, ms, SubSeq(ps, 1, n)) \in Cubes
    BY <1>2, <2>2
  <2>4. inverse(Apply(c, ms, ps)) \in Goal
    BY <2>1, <2>3, GoalAssumption
  <2>5. h[n] = inverse(Apply(c, ms, ps))
    BY <2>1, <2>2
  <2> HIDE DEF h
  <2> QED BY <2>4, <2>5
<1>5. h[y] = inverse(Apply(c, ms, SubSeq(ps, 1, y))) /\ y \in 0 .. n
  BY <1>1
<1> HIDE DEF h
<1>6. Distance[h[y]] <= n - y
  BY <1>2, <1>3, <1>4, <1>5, DistanceFalls
<1> QED BY <1>1, <1>5, <1>6

(* A last move that keeps solved what is solved was not needed.             *)
LEMMA LastNormal ==
  ASSUME NEW c \in Cubes, NEW ms \in Seq(MaskMoves), NEW ps \in Seq(MaskMoves),
         Apply(c, ms, ps) \in Goal, NEW n \in Nat \ {0}, n = Len(ms),
         move(SOLVED_CUBE, ms[n]) \in Goal
  PROVE  Apply(c, SubSeq(ms, 1, n - 1), ps) \in Goal
<1>1. n \in 0 .. Len(ms) /\ n - 1 \in 0 .. Len(ms) /\ n > 0 /\ ms[n] \in MaskMoves
  OBVIOUS
<1>2. PICK e \in Cubes : e = Apply(c, SubSeq(ms, 1, n - 1), ps)
  BY <1>1, NormalWay
<1>3. Apply(c, SubSeq(ms, 1, n), ps) = move(e, ms[n])
  BY <1>1, <1>2, NormalWay
<1>4. SubSeq(ms, 1, n) = ms
  BY WholeSeq
<1>5. move(e, ms[n]) \in Goal
  BY <1>3, <1>4
<1>6. e \in Goal
  BY <1>1, <1>5, GoalAssumption DEF MaskMoves
<1> QED BY <1>2, <1>6

LEMMA LastInverse ==
  ASSUME NEW c \in Cubes, NEW ms \in Seq(MaskMoves), NEW ps \in Seq(MaskMoves),
         Apply(c, ms, ps) \in Goal, NEW n \in Nat \ {0}, n = Len(ps),
         move(SOLVED_CUBE, ps[n]) \in Goal
  PROVE  Apply(c, ms, SubSeq(ps, 1, n - 1)) \in Goal
<1>1. n \in 0 .. Len(ps) /\ n - 1 \in 0 .. Len(ps) /\ n > 0 /\ ps[n] \in MaskMoves
  OBVIOUS
<1>2. PICK e \in Cubes : e = Apply(c, ms, SubSeq(ps, 1, n - 1))
  BY <1>1, InverseWay
<1>3. Apply(c, ms, SubSeq(ps, 1, n)) = premove(e, ps[n])
  BY <1>1, <1>2, InverseWay
<1>4. SubSeq(ps, 1, n) = ps
  BY WholeSeq
<1>5. premove(e, ps[n]) \in Goal /\ premove(e, ps[n]) \in Cubes
  BY <1>3, <1>4 DEF Goal
<1>6. inverse(premove(e, ps[n])) \in Goal
  BY <1>5, GoalAssumption
<1>7. move(inverse(e), ps[n]) \in Goal /\ inverse(e) \in Cubes
  BY <1>1, <1>6, InverseAssumption DEF MaskMoves
<1>8. inverse(e) \in Goal
  BY <1>1, <1>7, GoalAssumption DEF MaskMoves
<1> QED BY <1>2, <1>8, GoalAssumption

(* What the solver reads.                                                  *)
LEMMA EntryRead ==
  ASSUME GenInv, gen = "done", NEW c \in Cubes
  PROVE  table[coord(c)] = Distance[c] /\ (coord(c) = 0 <=> c \in Goal)
<1>1. ClassesMade /\ \A x \in Coords : table[x] = CoordDistance(x)
  BY DEF GenInv
<1>2. CoordDistance(coord(c)) = Distance[c] /\ coord(c) \in Coords
  BY <1>1, DistanceInCoord, CoordIs
<1>3. CoordDistance(coord(c)) = 0 <=> coord(c) = 0
  BY <1>2, DistanceOfCoord
<1>4. Distance[c] = 0 <=> c \in Goal
  BY DistanceAssumption
<1> QED BY <1>1, <1>2, <1>3, <1>4

-----------------------------------------------------------------------------
(* A node on the way to another has the first moves of either side, and all *)
(* of the side that comes first once the other has begun.                  *)
PrefixOf(o, a, x, y, p, q) ==
  /\ x <= p /\ y <= q
  /\ \A k \in 1 .. x : a.moves[k] = o.moves[k]
  /\ \A k \in 1 .. y : a.premoves[k] = o.premoves[k]
  /\ o.lastisnormal /\ x > 0 => y = q
  /\ ~o.lastisnormal /\ y > 0 => x = p

LEMMA WayInverseFirst ==
  ASSUME NEW o, NEW a, o.lastisnormal = TRUE, a.lastisnormal \in BOOLEAN,
         NEW x \in Nat, NEW y \in Nat, NEW p \in Nat, NEW q \in Nat,
         Len(a.moves) = x, Len(a.premoves) = y, Len(o.moves) = p, Len(o.premoves) = q,
         x + y <= p + q, Follows(o, a, x + y)
  PROVE  PrefixOf(o, a, x, y, p, q)
<1>1. \A j \in 1 .. x + y : SideAt(o, j) = SideAt(a, j) /\ MoveAt(o, j) = MoveAt(a, j)
  BY DEF Follows, SameStep
<1>2. \A j : /\ SideAt(o, j) = IF j <= q THEN "inverse" ELSE "normal"
             /\ MoveAt(o, j) = IF j <= q THEN o.premoves[j] ELSE o.moves[j - q]
  BY DEF SideAt, MoveAt
<1>3. CASE a.lastisnormal = TRUE
  <2>1. \A j : /\ SideAt(a, j) = IF j <= y THEN "inverse" ELSE "normal"
               /\ MoveAt(a, j) = IF j <= y THEN a.premoves[j] ELSE a.moves[j - y]
    BY <1>3 DEF SideAt, MoveAt
  <2>2. \A j \in 1 .. x + y : j <= q <=> j <= y
    BY <1>1, <1>2, <2>1
  <2>3. y <= q /\ (x > 0 => y = q)
    <3>1. y > 0 => y <= q
      BY <2>2
    <3>2. x > 0 => ~(y + 1 <= q)
      BY <2>2
    <3> QED BY <3>1, <3>2
  <2>4. x <= p
    BY <2>3
  <2>5. ASSUME NEW k \in 1 .. y PROVE a.premoves[k] = o.premoves[k]
    <3>1. k \in 1 .. x + y /\ k <= q /\ k <= y
      BY <2>3
    <3> QED BY <1>1, <1>2, <2>1, <3>1
  <2>6. ASSUME NEW k \in 1 .. x PROVE a.moves[k] = o.moves[k]
    <3>1. y + k \in 1 .. x + y /\ ~(y + k <= y) /\ y = q /\ (y + k) - y = k
      BY <2>3
    <3>2. MoveAt(a, y + k) = a.moves[k] /\ MoveAt(o, y + k) = o.moves[k]
      BY <1>2, <2>1, <3>1
    <3> QED BY <1>1, <3>1, <3>2
  <2> QED BY <2>3, <2>4, <2>5, <2>6 DEF PrefixOf
<1>4. CASE a.lastisnormal = FALSE
  <2>1. \A j : /\ SideAt(a, j) = IF j <= x THEN "normal" ELSE "inverse"
               /\ MoveAt(a, j) = IF j <= x THEN a.moves[j] ELSE a.premoves[j - x]
    BY <1>4 DEF SideAt, MoveAt
  <2>2. \A j \in 1 .. x + y : ~(j <= q) <=> j <= x
    BY <1>1, <1>2, <2>1
  <2>3. x > 0 => q = 0 /\ y = 0
    <3> SUFFICES ASSUME x > 0 PROVE q = 0 /\ y = 0
      OBVIOUS
    <3>1. ~(1 <= q)
      BY <2>2
    <3>2. y > 0 => (~(x + 1 <= q) <=> x + 1 <= x)
      BY <2>2
    <3> QED BY <3>1, <3>2
  <2>4. y <= q
    <3>1. CASE x = 0 /\ y > 0
      <4>1. y \in 1 .. x + y /\ ~(y <= x)
        BY <3>1
      <4> QED BY <2>2, <4>1
    <3> QED BY <2>3, <3>1
  <2>5. ASSUME NEW k \in 1 .. y PROVE a.premoves[k] = o.premoves[k]
    <3>1. k \in 1 .. x + y /\ k <= q /\ ~(k <= x) /\ x = 0 /\ k - x = k
      BY <2>3, <2>4
    <3> QED BY <1>1, <1>2, <2>1, <3>1
  <2>6. ASSUME NEW k \in 1 .. x PROVE a.moves[k] = o.moves[k]
    <3>1. k \in 1 .. x + y /\ ~(k <= q) /\ k <= x /\ k - q = k
      BY <2>3
    <3>2. MoveAt(a, k) = a.moves[k] /\ MoveAt(o, k) = o.moves[k]
      BY <1>2, <2>1, <3>1
    <3> QED BY <1>1, <3>1, <3>2
  <2> QED BY <2>3, <2>4, <2>5, <2>6 DEF PrefixOf
<1> QED BY <1>3, <1>4

(* The two sides exchanged.                                                *)
Mirror(n) ==
  [moves |-> n.premoves, premoves |-> n.moves, lastisnormal |-> ~n.lastisnormal]

LEMMA MirrorFollows ==
  ASSUME NEW o, o.lastisnormal \in BOOLEAN, NEW a, a.lastisnormal \in BOOLEAN, NEW k,
         Follows(o, a, k)
  PROVE  Follows(Mirror(o), Mirror(a), k)
<1>1. \A n, j : n.lastisnormal \in BOOLEAN =>
         /\ MoveAt(Mirror(n), j) = MoveAt(n, j)
         /\ SideAt(Mirror(n), j) = IF SideAt(n, j) = "normal" THEN "inverse" ELSE "normal"
  <2> TAKE n, j
  <2>1. CASE n.lastisnormal = TRUE
    BY <2>1 DEF Mirror, MoveAt, SideAt
  <2>2. CASE n.lastisnormal = FALSE
    BY <2>2 DEF Mirror, MoveAt, SideAt
  <2> QED BY <2>1, <2>2
<1>2. ASSUME NEW j \in 1 .. k PROVE SameStep(Mirror(o), Mirror(a), j)
  <2>1. SideAt(o, j) = SideAt(a, j) /\ MoveAt(o, j) = MoveAt(a, j)
    BY DEF Follows, SameStep
  <2>2. SideAt(Mirror(o), j) = SideAt(Mirror(a), j)
    BY <1>1, <2>1
  <2>3. MoveAt(Mirror(o), j) = MoveAt(Mirror(a), j)
    BY <1>1, <2>1
  <2> QED BY <2>2, <2>3 DEF SameStep
<1> QED BY <1>2 DEF Follows

LEMMA WayPrefix ==
  ASSUME NEW o, NodeRight(o), NEW a, NodeRight(a), Turns(a) <= Turns(o),
         Follows(o, a, Turns(a)),
         NEW x \in Nat, NEW y \in Nat, NEW p \in Nat, NEW q \in Nat,
         Len(a.moves) = x, Len(a.premoves) = y, Len(o.moves) = p, Len(o.premoves) = q
  PROVE  /\ PrefixOf(o, a, x, y, p, q)
         /\ a.moves = SubSeq(o.moves, 1, x) /\ a.premoves = SubSeq(o.premoves, 1, y)
<1>1. x + y <= p + q /\ Follows(o, a, x + y)
  BY DEF Turns
<1>2. PrefixOf(o, a, x, y, p, q)
  <2>1. CASE o.lastisnormal = TRUE
    BY <1>1, <2>1, WayInverseFirst DEF NodeRight
  <2>2. CASE o.lastisnormal = FALSE
    <3> DEFINE mo == Mirror(o)
               ma == Mirror(a)
    <3>1. /\ mo.lastisnormal = TRUE /\ ma.lastisnormal \in BOOLEAN
          /\ mo.moves = o.premoves /\ mo.premoves = o.moves
          /\ ma.moves = a.premoves /\ ma.premoves = a.moves
      BY <2>2 DEF Mirror, NodeRight
    <3>2. Follows(mo, ma, y + x) /\ y + x <= q + p
      <4>1. x + y = y + x
        OBVIOUS
      <4> QED BY <1>1, <4>1, MirrorFollows DEF NodeRight
    <3> HIDE DEF mo, ma
    <3>3. PrefixOf(mo, ma, y, x, q, p)
      BY <3>1, <3>2, WayInverseFirst
    <3> QED BY <2>2, <3>1, <3>3 DEF PrefixOf
  <2> QED BY <2>1, <2>2 DEF NodeRight
<1>3. a.moves = SubSeq(o.moves, 1, x)
  BY <1>2 DEF NodeRight, PrefixOf
<1>4. a.premoves = SubSeq(o.premoves, 1, y)
  BY <1>2 DEF NodeRight, PrefixOf
<1> QED BY <1>2, <1>3, <1>4

-----------------------------------------------------------------------------
(* The nodes of a depth that have to be written, by a way the search goes; *)
(* every pair of sequences has such a way.                                 *)
Wanted(o, n) ==
  NodeRight(o) /\ Legal(o, n) /\ Turns(o) = n /\ Proper(o.moves, o.premoves)
HasLine(ls, o) == \E k \in 1 .. Len(ls) : ls[k] = LineOf(o)
Held(ls, n) == \A o : Wanted(o, n) => HasLine(ls, o)

LEMMA HalfIs ==
  ASSUME NEW n \in Nat
  PROVE  Half(n) \in Nat /\ n <= 2 * Half(n) /\ 2 * Half(n) <= n + 1
BY DEF Half

LEMMA HasWay ==
  ASSUME NEW n \in Nat, n >= 1, NEW ms \in Seq(MaskMoves), NEW ps \in Seq(MaskMoves),
         Len(ms) + Len(ps) = n, Proper(ms, ps)
  PROVE  \E o : Wanted(o, n) /\ o.moves = ms /\ o.premoves = ps
<1> DEFINE node(b) == [moves |-> ms, premoves |-> ps, lastisnormal |-> b]
<1>1. PICK p \in Nat, q \in Nat : p = Len(ms) /\ q = Len(ps) /\ p + q = n
  OBVIOUS
<1>2. (ms = <<>> <=> p = 0) /\ (ps = <<>> <=> q = 0)
  BY <1>1
<1>3. Canonical(ms) /\ Canonical(ps)
  BY DEF Proper
<1>4. PICK b \in BOOLEAN : Legal(node(b), n)
  <2>1. CASE q = 0
    <3>1. Legal(node(TRUE), n)
      BY <1>2, <2>1 DEF Legal
    <3> QED BY <3>1
  <2>2. CASE q > 0 /\ p <= Half(n)
    <3>1. Legal(node(FALSE), n)
      BY <1>1, <1>2, <2>2 DEF Legal
    <3> QED BY <3>1
  <2>3. CASE q > 0 /\ ~(p <= Half(n))
    <3>1. p > 0 /\ q < Half(n)
      <4>1. PICK h \in Nat : h = Half(n) /\ n <= 2 * h /\ 2 * h <= n + 1
        BY HalfIs
      <4>2. p > h /\ q < h
        BY <1>1, <2>3, <4>1
      <4> QED BY <4>1, <4>2
    <3>2. Legal(node(TRUE), n)
      BY <1>1, <1>2, <3>1 DEF Legal
    <3> QED BY <3>2
  <2>4. q = 0 \/ q > 0
    BY <1>1
  <2> HIDE DEF node
  <2> QED BY <2>1, <2>2, <2>3, <2>4, Zenon
<1>5. NodeRight(node(b)) /\ Turns(node(b)) = n
  BY <1>3 DEF NodeRight, Turns
<1> QED BY <1>4, <1>5 DEF Wanted

(* What the node searched has of one that it leads to.                     *)
LEMMA OnTheWay ==
  ASSUME CallInv, pc \in {"visit", "loop"}, Turns(arg) <= depth,
         NEW o, Wanted(o, depth), Follows(o, arg, Turns(arg))
  PROVE  \E x, y, p, q \in Nat :
            /\ nmoves = x /\ npremoves = y /\ Turns(arg) = x + y
            /\ Len(o.moves) = p /\ Len(o.premoves) = q /\ depth = p + q
            /\ PrefixOf(o, arg, x, y, p, q)
            /\ arg.moves = SubSeq(o.moves, 1, x) /\ arg.premoves = SubSeq(o.premoves, 1, y)
<1>1. NodeRight(arg) /\ NodeRight(o) /\ Turns(o) = depth
  BY ArgNode DEF CallInv, Wanted
<1>2. PICK x \in Nat, y \in Nat :
         x = Len(arg.moves) /\ y = Len(arg.premoves) /\ Turns(arg) = x + y
  BY <1>1, NodeTurns
<1>3. PICK p \in Nat, q \in Nat :
         p = Len(o.moves) /\ q = Len(o.premoves) /\ Turns(o) = p + q
  BY <1>1, NodeTurns
<1>4. /\ PrefixOf(o, arg, x, y, p, q)
      /\ arg.moves = SubSeq(o.moves, 1, x) /\ arg.premoves = SubSeq(o.premoves, 1, y)
  <2>1. PICK a : a = arg
    OBVIOUS
  <2>2. NodeRight(a) /\ NodeRight(o) /\ Turns(a) <= Turns(o) /\ Follows(o, a, Turns(a))
    BY <1>1, <2>1
  <2>3. /\ x = Len(a.moves) /\ y = Len(a.premoves) /\ Turns(a) = x + y
        /\ p = Len(o.moves) /\ q = Len(o.premoves) /\ Turns(o) = p + q
    BY <1>2, <1>3, <2>1
  <2>4. /\ PrefixOf(o, a, x, y, p, q)
        /\ a.moves = SubSeq(o.moves, 1, x) /\ a.premoves = SubSeq(o.premoves, 1, y)
    BY <2>2, <2>3, WayPrefix, ZenonT(30)
  <2> QED BY <2>1, <2>4
<1>5. nmoves = x /\ npremoves = y /\ depth = p + q
  BY <1>1, <1>2, <1>3 DEF nmoves, npremoves
<1> QED BY <1>2, <1>3, <1>4, <1>5, Zenon

(* A proper pair ends in moves that change the solved coordinate.           *)
LEMMA ProperEnds ==
  ASSUME GenInv, gen = "done", Start \in Cubes,
         NEW ms \in Seq(MaskMoves), NEW ps \in Seq(MaskMoves), Proper(ms, ps)
  PROVE  coord_can_switch(ms) /\ coord_can_switch(ps)
<1>1. Apply(Start, ms, ps) \in Goal
  BY DEF Proper, Solves, Start
<1>2. \A j \in 0 .. Len(ms), k \in 0 .. Len(ps) :
         <<j, k>> # <<Len(ms), Len(ps)>> => Apply(Start, SubSeq(ms, 1, j), SubSeq(ps, 1, k)) \notin Goal
  BY DEF Proper, Solves, Start
<1>3. \A m \in MaskMoves : coord(move(SOLVED_CUBE, m)) = 0 => move(SOLVED_CUBE, m) \in Goal
  BY ZeroIsGoal, DistanceStep, CoordinateAssumption DEF Goal
<1>4. SubSeq(ms, 1, Len(ms)) = ms /\ SubSeq(ps, 1, Len(ps)) = ps
  BY WholeSeq
<1>5. coord_can_switch(ms)
  <2> SUFFICES ASSUME ms # <<>>, coord(move(SOLVED_CUBE, ms[Len(ms)])) = 0 PROVE FALSE
    BY DEF coord_can_switch
  <2>1. PICK n \in Nat \ {0} : n = Len(ms) /\ ms[n] \in MaskMoves
    OBVIOUS
  <2>2. Apply(Start, SubSeq(ms, 1, n - 1), ps) \in Goal
    BY <1>1, <1>3, <2>1, LastNormal
  <2>3. /\ n - 1 \in 0 .. Len(ms) /\ Len(ps) \in 0 .. Len(ps)
        /\ <<n - 1, Len(ps)>> # <<Len(ms), Len(ps)>>
    BY <2>1
  <2> QED BY <1>2, <1>4, <2>2, <2>3
<1>6. coord_can_switch(ps)
  <2> SUFFICES ASSUME ps # <<>>, coord(move(SOLVED_CUBE, ps[Len(ps)])) = 0 PROVE FALSE
    BY DEF coord_can_switch
  <2>1. PICK n \in Nat \ {0} : n = Len(ps) /\ ps[n] \in MaskMoves
    OBVIOUS
  <2>2. Apply(Start, ms, SubSeq(ps, 1, n - 1)) \in Goal
    BY <1>1, <1>3, <2>1, LastInverse
  <2>3. /\ n - 1 \in 0 .. Len(ps) /\ Len(ms) \in 0 .. Len(ms)
        /\ <<Len(ms), n - 1>> # <<Len(ms), Len(ps)>>
    BY <2>1
  <2> QED BY <1>2, <1>4, <2>2, <2>3
<1> QED BY <1>5, <1>6

LEMMA ProperIs ==
  ASSUME NEW ms, NEW ps, Proper(ms, ps)
  PROVE  /\ Canonical(ms) /\ Canonical(ps) /\ Sided(ms, ps)
         /\ are_lastmoves_singlecw(ms) /\ are_lastmoves_singlecw(ps)
         /\ Apply(Start, ms, ps) \in Goal
         /\ \A j \in 0 .. Len(ms), k \in 0 .. Len(ps) :
               <<j, k>> # <<Len(ms), Len(ps)>> =>
                 Apply(Start, SubSeq(ms, 1, j), SubSeq(ps, 1, k)) \notin Goal
BY DEF Proper, Solves, Start

(* A node on the way is solved at the end and not before.                  *)
LEMMA SolvedNode ==
  ASSUME GenInv, CallInv, pc = "visit", NEW o, Wanted(o, depth), Follows(o, arg, Turns(arg))
  PROVE  /\ coord(arg.cube) = 0 <=> Turns(arg) = depth
         /\ Turns(arg) = depth => ThisLine = LineOf(o) /\ solution_lastqt_cw
<1>1. ArgRight(arg) /\ gen = "done" /\ Turns(arg) <= depth /\ arg.cube \in Cubes
      /\ arg.cube = Apply(Start, arg.moves, arg.premoves)
  BY DEF CallInv, ArgRight, Args
<1>2. PICK x \in Nat, y \in Nat, p \in Nat, q \in Nat :
         /\ nmoves = x /\ npremoves = y /\ Turns(arg) = x + y
         /\ Len(o.moves) = p /\ Len(o.premoves) = q /\ depth = p + q
         /\ PrefixOf(o, arg, x, y, p, q)
         /\ arg.moves = SubSeq(o.moves, 1, x) /\ arg.premoves = SubSeq(o.premoves, 1, y)
  BY <1>1, OnTheWay
<1>3. x <= p /\ y <= q
  BY <1>2 DEF PrefixOf
<1>4. Proper(o.moves, o.premoves) /\ o.moves \in Seq(MaskMoves) /\ o.premoves \in Seq(MaskMoves)
  BY DEF Wanted, NodeRight
<1>5. CASE x + y = p + q
  <2>1. x = p /\ y = q
    BY <1>3, <1>5
  <2>2. arg.moves = o.moves /\ arg.premoves = o.premoves
    BY <1>2, <1>4, <2>1, WholeSeq
  <2>3. arg.cube \in Goal
    BY <1>1, <1>4, <2>2, ProperIs
  <2>4. coord(arg.cube) = 0
    BY <1>1, <2>3, EntryRead
  <2>5. solution_lastqt_cw
    BY <1>4, <2>2, ProperIs DEF solution_lastqt_cw
  <2> QED BY <1>2, <1>5, <2>2, <2>4, <2>5 DEF ThisLine, LineOf
<1>6. CASE x + y # p + q
  <2>1. x \in 0 .. Len(o.moves) /\ y \in 0 .. Len(o.premoves)
        /\ <<x, y>> # <<Len(o.moves), Len(o.premoves)>>
    BY <1>2, <1>3, <1>6
  <2>2. arg.cube \notin Goal
    BY <1>1, <1>2, <1>4, <2>1, ProperIs
  <2>3. coord(arg.cube) # 0
    BY <1>1, <2>2, EntryRead
  <2> QED BY <1>2, <1>6, <2>3
<1> QED BY <1>5, <1>6

(* The depths at which the first node is not cut.                          *)
Searches(n) ==
  req.nissflag = NORMAL \/ MIXED \subseteq req.nissflag \/ n >= Distance[Start]

LEMMA SidedIs ==
  ASSUME NEW ms, NEW ps, Sided(ms, ps)
  PROVE  /\ ms # <<>> /\ ps # <<>> => MIXED \subseteq req.nissflag
         /\ ms # <<>> /\ ps = <<>> => NORMAL \subseteq req.nissflag
         /\ ms = <<>> /\ ps # <<>> => INVERSE \subseteq req.nissflag
         /\ ms # <<>> \/ ps # <<>>
BY DEF Sided

(* Where the search is cut by the table, what is left is on the side whose *)
(* cube was looked up; but for the first node.                             *)
LEMMA OneSideLeft ==
  ASSUME CallInv, Legal(arg, depth), pc = "visit", Searches(depth),
         hasnissed \/ MIXED \cap req.nissflag = {},
         NEW o, Wanted(o, depth), Follows(o, arg, Turns(arg)),
         NEW x \in Nat, NEW y \in Nat, NEW p \in Nat, NEW q \in Nat,
         nmoves = x, npremoves = y, Turns(arg) = x + y, Len(o.moves) = p, Len(o.premoves) = q,
         PrefixOf(o, arg, x, y, p, q)
  PROVE  \/ arg.lastisnormal /\ y = q
         \/ ~arg.lastisnormal /\ x = p
         \/ arg.lastisnormal /\ x = 0 /\ y = 0 /\ depth >= Distance[Start]
<1>1. /\ arg.moves = <<>> <=> x = 0
      /\ arg.premoves = <<>> <=> y = 0
      /\ o.moves = <<>> <=> p = 0
      /\ o.premoves = <<>> <=> q = 0
  BY DEF CallInv, ArgRight, Args, nmoves, npremoves, Wanted, NodeRight
<1>2. arg.lastisnormal \in BOOLEAN /\ o.lastisnormal \in BOOLEAN
  BY DEF CallInv, ArgRight, Args, Wanted, NodeRight
<1>3. x <= p /\ y <= q /\ (o.lastisnormal /\ x > 0 => y = q) /\ (~o.lastisnormal /\ y > 0 => x = p)
  BY DEF PrefixOf
<1>4. Sided(o.moves, o.premoves)
  BY ProperIs DEF Wanted
<1>5. CASE x > 0 /\ y > 0
  <2>1. x + y \in 1 .. x + y /\ ~(x + y <= x) /\ ~(x + y <= y)
    BY <1>5
  <2>2. SideAt(o, x + y) = SideAt(arg, x + y)
    BY <2>1 DEF Follows, SameStep
  <2>3. SideAt(arg, x + y) = IF arg.lastisnormal THEN "normal" ELSE "inverse"
    BY <2>1 DEF SideAt, nmoves, npremoves
  <2>4. CASE o.lastisnormal
    <3>1. y = q /\ ~(x + y <= q)
      BY <1>3, <1>5, <2>4
    <3>2. SideAt(o, x + y) = "normal"
      BY <2>4, <3>1 DEF SideAt
    <3> QED BY <1>2, <2>2, <2>3, <3>1, <3>2
  <2>5. CASE ~o.lastisnormal
    <3>1. x = p /\ ~(x + y <= p)
      BY <1>3, <1>5, <2>5
    <3>2. SideAt(o, x + y) = "inverse"
      BY <2>5, <3>1 DEF SideAt
    <3> QED BY <1>2, <2>2, <2>3, <3>1, <3>2
  <2> QED BY <2>4, <2>5
<1>6. CASE ~(x > 0 /\ y > 0)
  <2>1. "mixed" \notin req.nissflag
    BY <1>6 DEF hasnissed, MIXED
  <2>2. p = 0 \/ q = 0
    BY <1>1, <1>4, <2>1, SidedIs DEF MIXED
  <2>3. CASE q = 0
    <3>1. y = 0 /\ arg.lastisnormal
      BY <1>1, <1>2, <1>3, <2>3 DEF Legal
    <3> QED BY <2>3, <3>1
  <2>4. CASE q # 0 /\ y > 0
    <3>1. p = 0 /\ x = 0
      BY <1>3, <2>2, <2>4
    <3>2. ~arg.lastisnormal
      BY <1>1, <2>4, <3>1 DEF Legal
    <3> QED BY <3>1, <3>2
  <2>5. CASE q # 0 /\ y = 0
    <3>1. p = 0 /\ x = 0
      BY <1>3, <2>2, <2>5
    <3>2. arg.lastisnormal
      BY <1>1, <1>2, <2>5 DEF Legal
    <3>3. "inverse" \in req.nissflag
      BY <1>1, <1>4, <2>5, <3>1, SidedIs DEF INVERSE
    <3>4. depth >= Distance[Start]
      BY <2>1, <3>3 DEF Searches, NORMAL, MIXED
    <3> QED BY <2>5, <3>1, <3>2, <3>4
  <2>6. q # 0 => y > 0 \/ y = 0
    OBVIOUS
  <2> QED BY <2>3, <2>4, <2>5, <2>6
<1> QED BY <1>5, <1>6

(* No node that leads to a wanted one is cut.                              *)
LEMMA NotStopped ==
  ASSUME GenInv, CallInv, Legal(arg, depth), pc = "visit", Searches(depth),
         coord(arg.cube) # 0,
         NEW o, Wanted(o, depth), Follows(o, arg, Turns(arg))
  PROVE  ~solve_coord_dfs_stop
<1>1. ArgRight(arg) /\ gen = "done" /\ Turns(arg) <= depth /\ arg.cube \in Cubes
      /\ arg.inverse = inverse(arg.cube) /\ req \in Requests
      /\ arg.cube = Apply(Start, arg.moves, arg.premoves)
  BY DEF CallInv, ArgRight, Args
<1>2. Start \in Cubes /\ arg.inverse \in Cubes
  BY <1>1, RequestAssumption, InverseAssumption DEF Start
<1>3. PICK x \in Nat, y \in Nat, p \in Nat, q \in Nat :
         /\ nmoves = x /\ npremoves = y /\ Turns(arg) = x + y
         /\ Len(o.moves) = p /\ Len(o.premoves) = q /\ depth = p + q
         /\ PrefixOf(o, arg, x, y, p, q)
         /\ arg.moves = SubSeq(o.moves, 1, x) /\ arg.premoves = SubSeq(o.premoves, 1, y)
  BY <1>1, OnTheWay
<1>4. x <= p /\ y <= q
  BY <1>3 DEF PrefixOf
<1>5. /\ o.moves \in Seq(MaskMoves) /\ o.premoves \in Seq(MaskMoves)
      /\ Apply(Start, o.moves, o.premoves) \in Goal
  BY ProperIs DEF Wanted, NodeRight
<1>6. ~(x + y >= depth)
  BY <1>1, <1>3, SolvedNode
<1> SUFFICES ASSUME hasnissed \/ MIXED \cap req.nissflag = {},
                    x + y + get_coord_pval(coord(IF arg.lastisnormal THEN arg.cube ELSE arg.inverse))
                      > depth
             PROVE  FALSE
  BY <1>3, <1>6 DEF solve_coord_dfs_stop
<1>7. \/ arg.lastisnormal /\ y = q
      \/ ~arg.lastisnormal /\ x = p
      \/ arg.lastisnormal /\ x = 0 /\ y = 0 /\ depth >= Distance[Start]
  BY <1>3, OneSideLeft
<1>8. \A c \in Cubes : get_coord_pval(coord(c)) = Distance[c] /\ Distance[c] \in Nat
  BY <1>1, EntryRead, DistanceAssumption DEF get_coord_pval, Unset
<1>9. CASE arg.lastisnormal /\ y = q
  <2>1. arg.premoves = o.premoves
    BY <1>3, <1>5, <1>9, WholeSeq
  <2>2. x \in 0 .. Len(o.moves)
    BY <1>3, <1>4
  <2>3. Distance[arg.cube] <= p - x
    BY <1>1, <1>2, <1>3, <1>5, <2>1, <2>2, NormalLeft
  <2>4. x + y + Distance[arg.cube] > depth
    BY <1>1, <1>8, <1>9
  <2> QED BY <1>1, <1>3, <1>8, <1>9, <2>3, <2>4
<1>10. CASE ~arg.lastisnormal /\ x = p
  <2>1. arg.moves = o.moves
    BY <1>3, <1>5, <1>10, WholeSeq
  <2>2. y \in 0 .. Len(o.premoves)
    BY <1>3, <1>4
  <2>3. Distance[arg.inverse] <= q - y
    BY <1>1, <1>2, <1>3, <1>5, <2>1, <2>2, InverseLeft
  <2>4. x + y + Distance[arg.inverse] > depth
    BY <1>2, <1>8, <1>10
  <2> QED BY <1>2, <1>3, <1>8, <1>10, <2>3, <2>4
<1>11. CASE arg.lastisnormal /\ x = 0 /\ y = 0 /\ depth >= Distance[Start]
  <2>1. arg.moves = <<>> /\ arg.premoves = <<>>
    BY <1>3, <1>11 DEF CallInv, ArgRight, Args, nmoves, npremoves
  <2>2. arg.cube = Start
    BY <1>1, <2>1, AfterNone DEF Apply
  <2>3. x + y + Distance[Start] > depth
    BY <1>1, <1>8, <1>11, <2>2
  <2> QED BY <1>2, <1>3, <1>8, <1>11, <2>3
<1> QED BY <1>7, <1>9, <1>10, <1>11

(* The next move on the way is among those that are tried: on the normal   *)
(* side,                                                                   *)
LEMMA NormalTried ==
  ASSUME GenInv, CallInv, Legal(arg, depth), pc \in {"visit", "loop"}, Turns(arg) < depth,
         NEW o, Wanted(o, depth), Follows(o, arg, Turns(arg)),
         SideAt(o, Turns(arg) + 1) = "normal"
  PROVE  /\ coord_continue_onnormal
         /\ MoveAt(o, Turns(arg) + 1) \in MovesAfter(arg.moves)
<1>1. NodeRight(arg) /\ gen = "done" /\ req \in Requests /\ Turns(arg) <= depth /\ depth \in Nat
  BY ArgNode, NodeTurns DEF CallInv
<1>2. Start \in Cubes
  BY <1>1, RequestAssumption DEF Start
<1>3. PICK x \in Nat, y \in Nat, p \in Nat, q \in Nat :
         /\ nmoves = x /\ npremoves = y /\ Turns(arg) = x + y
         /\ Len(o.moves) = p /\ Len(o.premoves) = q /\ depth = p + q
         /\ PrefixOf(o, arg, x, y, p, q)
         /\ arg.moves = SubSeq(o.moves, 1, x) /\ arg.premoves = SubSeq(o.premoves, 1, y)
  BY <1>1, OnTheWay
<1>4. /\ x <= p /\ y <= q /\ x + y < p + q
      /\ (o.lastisnormal /\ x > 0 => y = q) /\ (~o.lastisnormal /\ y > 0 => x = p)
      /\ \A k \in 1 .. x : arg.moves[k] = o.moves[k]
  BY <1>3 DEF PrefixOf
<1>5. /\ o.moves \in Seq(MaskMoves) /\ o.premoves \in Seq(MaskMoves) /\ Canonical(o.moves)
      /\ Sided(o.moves, o.premoves) /\ o.lastisnormal \in BOOLEAN /\ Legal(o, depth)
      /\ Proper(o.moves, o.premoves)
  BY ProperIs DEF Wanted, NodeRight
<1>6. /\ arg.moves = <<>> <=> x = 0
      /\ arg.premoves = <<>> <=> y = 0
      /\ o.moves = <<>> <=> p = 0
      /\ o.premoves = <<>> <=> q = 0
  <2>1. x = Len(arg.moves) /\ y = Len(arg.premoves) /\ p = Len(o.moves) /\ q = Len(o.premoves)
    BY <1>3 DEF nmoves, npremoves
  <2>2. arg.moves \in Seq(MaskMoves) /\ arg.premoves \in Seq(MaskMoves)
    BY <1>1 DEF NodeRight
  <2> QED BY <1>5, <2>1, <2>2
<1>7. SideAt(o, x + y + 1) = "normal"
  BY <1>3
<1>8. /\ x < p /\ MoveAt(o, x + y + 1) = o.moves[x + 1]
      /\ o.lastisnormal => y = q
      /\ ~o.lastisnormal => y = 0
  <2>1. CASE o.lastisnormal
    <3>1. ~(x + y + 1 <= q)
      BY <1>3, <1>7, <2>1 DEF SideAt
    <3>2. y = q /\ x + y + 1 - q = x + 1
      BY <1>4, <2>1, <3>1
    <3>3. MoveAt(o, x + y + 1) = o.moves[x + y + 1 - q]
      BY <1>3, <2>1, <3>1 DEF MoveAt
    <3> QED BY <1>4, <2>1, <3>2, <3>3
  <2>2. CASE ~o.lastisnormal
    <3>1. x + y + 1 <= p
      BY <1>3, <1>7, <2>2 DEF SideAt
    <3>2. y = 0 /\ x + y + 1 = x + 1
      BY <1>4, <2>2, <3>1
    <3>3. MoveAt(o, x + y + 1) = o.moves[x + y + 1]
      BY <1>3, <2>2, <3>1 DEF MoveAt
    <3> QED BY <2>2, <3>1, <3>2, <3>3
  <2> QED BY <2>1, <2>2
<1>9. o.moves[x + 1] \in MovesAfter(arg.moves)
  <2>1. o.moves[x + 1] \in MaskMoves
    BY <1>3, <1>5, <1>8
  <2>2. CASE x = 0
    BY <1>6, <2>1, <2>2 DEF MovesAfter, MaskMoves
  <2>3. CASE x > 0
    <3>1. allowednextmove(o.moves[x], o.moves[x + 1])
      BY <1>3, <1>5, <1>8, <2>3 DEF Canonical
    <3>2. arg.moves[Len(arg.moves)] = o.moves[x]
      BY <1>3, <1>4, <2>3 DEF nmoves
    <3> QED BY <2>1, <3>1, <3>2 DEF MovesAfter, MaskMoves
  <2> QED BY <2>2, <2>3
<1>10. Half(depth) = th
  BY DEF Half, th
<1>11. q = 0 => NORMAL \subseteq req.nissflag
  BY <1>5, <1>6, <1>8, SidedIs
<1>12. q > 0 => MIXED \subseteq req.nissflag
  BY <1>5, <1>6, <1>8, SidedIs
<1>13. coord_continue_onnormal
  <2>1. CASE x + y = 0
    <3>1. req.nissflag \cap (NORMAL \cup MIXED) # {}
      BY <1>3, <1>11, <1>12 DEF NORMAL, MIXED
    <3> QED BY <1>3, <2>1, <3>1 DEF coord_continue_onnormal
  <2>2. CASE x + y # 0 /\ arg.lastisnormal
    <3>1. q > 0 => y > 0 \/ x <= Half(depth)
      <4> SUFFICES ASSUME q > 0, y = 0 PROVE x <= Half(depth)
        BY <1>3
      <4>1. ~o.lastisnormal
        BY <1>8
      <4>2. PICK h \in Nat : h = Half(depth)
        BY <1>1, HalfIs
      <4>3. p <= h
        BY <1>3, <1>5, <1>6, <1>8, <4>1, <4>2 DEF Legal
      <4> QED BY <1>4, <4>2, <4>3
    <3>2. NORMAL \subseteq req.nissflag \/ (MIXED \subseteq req.nissflag /\ (y > 0 \/ x <= th))
      BY <1>3, <1>10, <1>11, <1>12, <3>1
    <3> QED BY <1>3, <2>2, <3>2 DEF coord_continue_onnormal
  <2>3. CASE x + y # 0 /\ ~arg.lastisnormal
    <3>1. y > 0
      BY <1>3, <1>6, <2>3 DEF Legal
    <3>2. o.lastisnormal /\ y = q
      BY <1>8, <3>1
    <3>3. x = 0
      <4> SUFFICES ASSUME x > 0 PROVE FALSE
        BY <1>3
      <4>1. x + y \in 1 .. x + y /\ ~(x + y <= x) /\ ~(x + y <= q)
        BY <3>1, <3>2
      <4>2. SideAt(arg, x + y) = "inverse"
        BY <1>3, <2>3, <4>1 DEF SideAt, nmoves
      <4>3. SideAt(o, x + y) = "normal"
        BY <1>3, <3>2, <4>1 DEF SideAt
      <4> QED BY <1>3, <4>1, <4>2, <4>3 DEF Follows, SameStep
    <3>4. y < Half(depth)
      BY <1>3, <1>5, <1>6, <3>1, <3>2 DEF Legal
    <3>5. arg.premoves = o.premoves
      BY <1>3, <1>5, <3>2, WholeSeq
    <3>6. coord_can_switch(arg.premoves)
      BY <1>1, <1>2, <1>5, <3>5, ProperEnds
    <3> QED BY <1>3, <1>10, <1>12, <2>3, <3>1, <3>2, <3>3, <3>4, <3>6 DEF coord_continue_onnormal
  <2> QED BY <2>1, <2>2, <2>3
<1> QED BY <1>3, <1>8, <1>9, <1>13

(* and on the inverse.                                                     *)
LEMMA InverseTried ==
  ASSUME GenInv, CallInv, Legal(arg, depth), pc \in {"visit", "loop"}, Turns(arg) < depth,
         NEW o, Wanted(o, depth), Follows(o, arg, Turns(arg)),
         SideAt(o, Turns(arg) + 1) = "inverse"
  PROVE  /\ coord_continue_oninverse
         /\ MoveAt(o, Turns(arg) + 1) \in MovesAfter(arg.premoves)
<1>1. NodeRight(arg) /\ gen = "done" /\ req \in Requests /\ Turns(arg) <= depth /\ depth \in Nat
  BY ArgNode, NodeTurns DEF CallInv
<1>2. Start \in Cubes
  BY <1>1, RequestAssumption DEF Start
<1>3. PICK x \in Nat, y \in Nat, p \in Nat, q \in Nat :
         /\ nmoves = x /\ npremoves = y /\ Turns(arg) = x + y
         /\ Len(o.moves) = p /\ Len(o.premoves) = q /\ depth = p + q
         /\ PrefixOf(o, arg, x, y, p, q)
         /\ arg.moves = SubSeq(o.moves, 1, x) /\ arg.premoves = SubSeq(o.premoves, 1, y)
  BY <1>1, OnTheWay
<1>4. /\ x <= p /\ y <= q /\ x + y < p + q
      /\ (o.lastisnormal /\ x > 0 => y = q) /\ (~o.lastisnormal /\ y > 0 => x = p)
      /\ \A k \in 1 .. y : arg.premoves[k] = o.premoves[k]
  BY <1>3 DEF PrefixOf
<1>5. /\ o.moves \in Seq(MaskMoves) /\ o.premoves \in Seq(MaskMoves) /\ Canonical(o.premoves)
      /\ Sided(o.moves, o.premoves) /\ o.lastisnormal \in BOOLEAN /\ Legal(o, depth)
      /\ Proper(o.moves, o.premoves)
  BY ProperIs DEF Wanted, NodeRight
<1>6. /\ arg.moves = <<>> <=> x = 0
      /\ arg.premoves = <<>> <=> y = 0
      /\ o.moves = <<>> <=> p = 0
      /\ o.premoves = <<>> <=> q = 0
  <2>1. x = Len(arg.moves) /\ y = Len(arg.premoves) /\ p = Len(o.moves) /\ q = Len(o.premoves)
    BY <1>3 DEF nmoves, npremoves
  <2>2. arg.moves \in Seq(MaskMoves) /\ arg.premoves \in Seq(MaskMoves)
    BY <1>1 DEF NodeRight
  <2> QED BY <1>5, <2>1, <2>2
<1>7. SideAt(o, x + y + 1) = "inverse"
  BY <1>3
<1>8. /\ y < q /\ MoveAt(o, x + y + 1) = o.premoves[y + 1]
      /\ o.lastisnormal => x = 0
      /\ ~o.lastisnormal => x = p
  <2>1. CASE o.lastisnormal
    <3>1. x + y + 1 <= q
      BY <1>3, <1>7, <2>1 DEF SideAt
    <3>2. x = 0 /\ x + y + 1 = y + 1
      BY <1>4, <2>1, <3>1
    <3>3. MoveAt(o, x + y + 1) = o.premoves[x + y + 1]
      BY <1>3, <2>1, <3>1 DEF MoveAt
    <3> QED BY <2>1, <3>1, <3>2, <3>3
  <2>2. CASE ~o.lastisnormal
    <3>1. ~(x + y + 1 <= p)
      BY <1>3, <1>7, <2>2 DEF SideAt
    <3>2. x = p /\ x + y + 1 - p = y + 1
      BY <1>4, <2>2, <3>1
    <3>3. MoveAt(o, x + y + 1) = o.premoves[x + y + 1 - p]
      BY <1>3, <2>2, <3>1 DEF MoveAt
    <3> QED BY <1>4, <2>2, <3>2, <3>3
  <2> QED BY <2>1, <2>2
<1>9. o.premoves[y + 1] \in MovesAfter(arg.premoves)
  <2>1. o.premoves[y + 1] \in MaskMoves
    BY <1>3, <1>5, <1>8
  <2>2. CASE y = 0
    BY <1>6, <2>1, <2>2 DEF MovesAfter, MaskMoves
  <2>3. CASE y > 0
    <3>1. allowednextmove(o.premoves[y], o.premoves[y + 1])
      BY <1>3, <1>5, <1>8, <2>3 DEF Canonical
    <3>2. arg.premoves[Len(arg.premoves)] = o.premoves[y]
      BY <1>3, <1>4, <2>3 DEF npremoves
    <3> QED BY <2>1, <3>1, <3>2 DEF MovesAfter, MaskMoves
  <2> QED BY <2>2, <2>3
<1>10. Half(depth) = th
  BY DEF Half, th
<1>11. p = 0 => INVERSE \subseteq req.nissflag
  BY <1>5, <1>6, <1>8, SidedIs
<1>12. p > 0 => MIXED \subseteq req.nissflag
  BY <1>5, <1>6, <1>8, SidedIs
<1>13. coord_continue_oninverse
  <2>1. CASE x + y = 0
    <3>1. req.nissflag \cap (INVERSE \cup MIXED) # {}
      BY <1>3, <1>11, <1>12 DEF INVERSE, MIXED
    <3> QED BY <1>3, <2>1, <3>1 DEF coord_continue_oninverse
  <2>2. CASE x + y # 0 /\ ~arg.lastisnormal
    <3>1. p > 0 => x > 0 \/ y < Half(depth)
      <4> SUFFICES ASSUME p > 0, x = 0 PROVE y < Half(depth)
        BY <1>3
      <4>1. o.lastisnormal
        BY <1>8
      <4>2. PICK h \in Nat : h = Half(depth)
        BY <1>1, HalfIs
      <4>3. q < h
        BY <1>3, <1>5, <1>6, <1>8, <4>1, <4>2 DEF Legal
      <4> QED BY <1>4, <4>2, <4>3
    <3>2. INVERSE \subseteq req.nissflag \/ (MIXED \subseteq req.nissflag /\ (x > 0 \/ y < th))
      BY <1>3, <1>10, <1>11, <1>12, <3>1
    <3> QED BY <1>3, <2>2, <3>2 DEF coord_continue_oninverse
  <2>3. CASE x + y # 0 /\ arg.lastisnormal
    <3>1. x > 0
      <4>1. CASE y = 0
        BY <1>3, <2>3, <4>1
      <4>2. CASE y > 0
        <5>1. arg.premoves # <<>>
          BY <1>3, <1>6, <4>2
        <5>2. arg.moves # <<>>
          BY <2>3, <5>1 DEF Legal
        <5> QED BY <1>3, <1>6, <5>2
      <4> QED BY <1>3, <4>1, <4>2
    <3>2. ~o.lastisnormal /\ x = p
      BY <1>8, <3>1
    <3>3. y = 0
      <4> SUFFICES ASSUME y > 0 PROVE FALSE
        BY <1>3
      <4>1. x + y \in 1 .. x + y /\ ~(x + y <= y) /\ ~(x + y <= p)
        BY <3>1, <3>2
      <4>2. SideAt(arg, x + y) = "normal"
        BY <1>3, <2>3, <4>1 DEF SideAt, npremoves
      <4>3. SideAt(o, x + y) = "inverse"
        BY <1>3, <3>2, <4>1 DEF SideAt
      <4> QED BY <1>3, <4>1, <4>2, <4>3 DEF Follows, SameStep
    <3>4. x <= Half(depth)
      BY <1>3, <1>5, <1>6, <3>1, <3>2 DEF Legal
    <3>5. arg.moves = o.moves
      BY <1>3, <1>5, <3>2, WholeSeq
    <3>6. coord_can_switch(arg.moves)
      BY <1>1, <1>2, <1>5, <3>5, ProperEnds
    <3> QED BY <1>3, <1>10, <1>12, <2>3, <3>1, <3>2, <3>3, <3>4, <3>6 DEF coord_continue_oninverse
  <2> QED BY <2>1, <2>2, <2>3
<1> QED BY <1>3, <1>8, <1>9, <1>13

-----------------------------------------------------------------------------
(* What a call has found: every wanted node of the depths before this one  *)
(* is written, and of this one every node that is no longer ahead.         *)
FoundPast(ls, s, a, p, n) == \A o : Wanted(o, n) /\ ~Ahead(o, s, a, p) => HasLine(ls, o)
HeldTo(ls, n) == \A m \in Max({req.minmoves, 1}) .. n-1 : Searches(m) => Held(ls, m)
Stopped(ls, n) == n > req.maxmoves \/ (ls # <<>> /\ n > LineLen(ls[1]) + req.optimal)

CompleteInv ==
  /\ pc \in {"start", "depth", "visit", "loop"} => CountsRight(list)
  /\ pc = "start" => depth = Max({req.minmoves, 1})
  /\ pc \in {"depth", "visit", "loop"} /\ Room(list) => HeldTo(list.lines, depth)
  /\ pc \in {"visit", "loop"} /\ Room(list) /\ Searches(depth) =>
       FoundPast(list.lines, stack, arg, pc, depth)
  /\ pc = "returned" /\ ret >= 0 /\ arg.cube \notin Goal /\ Room(list) =>
       HeldTo(list.lines, depth) /\ Stopped(list.lines, depth)

LEMMA WantedKept ==
  ASSUME req' = req, NEW o, NEW n
  PROVE  Wanted(o, n)' <=> Wanted(o, n)
<1>1. Sided(o.moves, o.premoves)' <=> Sided(o.moves, o.premoves)
  BY DEF Sided
<1>2. \A ms, ps : Solves(ms, ps)' <=> Solves(ms, ps)
  BY DEF Solves
<1>3. Proper(o.moves, o.premoves)' <=> Proper(o.moves, o.premoves)
  BY <1>1, <1>2 DEF Proper
<1> QED BY <1>3 DEF Wanted

LEMMA FoundKept ==
  ASSUME req' = req
  PROVE  /\ \A ls, s, a, p, n : FoundPast(ls, s, a, p, n)' <=> FoundPast(ls, s, a, p, n)
         /\ \A ls, n : HeldTo(ls, n)' <=> HeldTo(ls, n)
         /\ \A ls, n : Stopped(ls, n)' <=> Stopped(ls, n)
         /\ \A l : Room(l)' <=> Room(l)
         /\ \A l : CountsRight(l)' <=> CountsRight(l)
         /\ \A n : Searches(n)' <=> Searches(n)
<1>1. \A ls, o : HasLine(ls, o)' <=> HasLine(ls, o)
  <2>1. \A o : LineOf(o)' = LineOf(o)
    BY LineOfKept
  <2> QED BY <2>1 DEF HasLine
<1>2. \A o, n : Wanted(o, n)' <=> Wanted(o, n)
  BY WantedKept
<1>3. \A ls, n : Held(ls, n)' <=> Held(ls, n)
  BY <1>1, <1>2 DEF Held
<1>4. \A n : Searches(n)' <=> Searches(n)
  BY DEF Searches, Start
<1>5. \A ls, n : HeldTo(ls, n)' <=> HeldTo(ls, n)
  BY <1>3, <1>4 DEF HeldTo
<1>6. \A ls, s, a, p, n : FoundPast(ls, s, a, p, n)' <=> FoundPast(ls, s, a, p, n)
  BY <1>1, <1>2 DEF FoundPast
<1>7. /\ \A ls, n : Stopped(ls, n)' <=> Stopped(ls, n)
      /\ \A l : Room(l)' <=> Room(l)
      /\ \A l : CountsRight(l)' <=> CountsRight(l)
  BY DEF Stopped, Room, CountsRight
<1> QED BY <1>4, <1>5, <1>6, <1>7

(* What the next state has, said of this one.                              *)
LEMMA CompleteNext ==
  ASSUME req' = req, NEW l, NEW s, NEW a, NEW p, NEW n, NEW v,
         list' = l, stack' = s, arg' = a, pc' = p, depth' = n, ret' = v,
         p \in {"depth", "visit", "loop", "returned"},
         p # "returned" => CountsRight(l),
         p # "returned" /\ Room(l) => HeldTo(l.lines, n),
         p \in {"visit", "loop"} /\ Room(l) /\ Searches(n) => FoundPast(l.lines, s, a, p, n),
         p = "returned" /\ v >= 0 /\ a.cube \notin Goal /\ Room(l) =>
           HeldTo(l.lines, n) /\ Stopped(l.lines, n)
  PROVE  CompleteInv'
<1>1. PICK ls : ls = l.lines
  OBVIOUS
<1>2. /\ FoundPast(ls, s, a, p, n)' <=> FoundPast(ls, s, a, p, n)
      /\ HeldTo(ls, n)' <=> HeldTo(ls, n)
      /\ Stopped(ls, n)' <=> Stopped(ls, n)
      /\ Room(l)' <=> Room(l)
      /\ CountsRight(l)' <=> CountsRight(l)
      /\ Searches(n)' <=> Searches(n)
  BY FoundKept
<1>3. /\ FoundPast(list.lines, stack, arg, pc, depth)' <=> FoundPast(ls, s, a, p, n)
      /\ HeldTo(list.lines, depth)' <=> HeldTo(ls, n)
      /\ Stopped(list.lines, depth)' <=> Stopped(ls, n)
      /\ Room(list)' <=> Room(l)
      /\ CountsRight(list)' <=> CountsRight(l)
      /\ Searches(depth)' <=> Searches(n)
  BY <1>1, <1>2
<1> QED BY <1>1, <1>3 DEF CompleteInv

(* A depth is done when nothing is ahead.                                  *)
LEMMA DepthHeld ==
  ASSUME NEW n \in Nat, NEW ls, NEW s, NEW a, s = <<>>, HeldTo(ls, n),
         Searches(n) => FoundPast(ls, s, a, "loop", n)
  PROVE  HeldTo(ls, n + 1)
<1>1. \A o : ~Ahead(o, s, a, "loop")
  BY DEF Ahead, AheadIn
<1>2. Searches(n) => Held(ls, n)
  BY <1>1 DEF FoundPast, Held
<1>3. \A m \in Max({req.minmoves, 1}) .. n + 1 - 1 :
         m = n \/ m \in Max({req.minmoves, 1}) .. n - 1
  OBVIOUS
<1> QED BY <1>2, <1>3 DEF HeldTo

(* The end of a call.                                                      *)
LEMMA ReturnFound ==
  ASSUME req \in Requests, req' = req, depth \in Nat, NEW s, StackRight(s), TrailRight(s, arg, depth),
         Turns(arg) \in {Len(s), Len(s) - 1},
         NEW l, LinesTo(l, depth), NEW v \in Int, DfsReturn(v, l, s),
         v >= 0 => CountsRight(l),
         v >= 0 /\ Room(l) => HeldTo(l.lines, depth),
         v >= 0 /\ Room(l) /\ Searches(depth) => FoundPast(l.lines, s, arg, "loop", depth)
  PROVE  CompleteInv'
<1>1. CASE v < 0
  <2>1. pc' = "returned" /\ ~(ret' >= 0)
    BY <1>1 DEF DfsReturn, Return
  <2> QED BY <2>1 DEF CompleteInv
<1>2. CASE ~(v < 0) /\ s = <<>>
  <2>1. /\ pc' = "depth" /\ list' = [l EXCEPT !.nsols = @ + v] /\ depth' = depth + 1
        /\ stack' = s /\ arg' = arg /\ ret' = ret
    BY <1>2 DEF DfsReturn
  <2>2. PICK x1, x2, x3, x4 : l = [lines |-> x1, nsols |-> x2, shortest_sol |-> x3, used |-> x4]
    BY DEF LinesTo
  <2>3. PICK a : a = [lines |-> x1, nsols |-> x2 + v, shortest_sol |-> x3, used |-> x4]
    OBVIOUS
  <2>4. list' = a /\ a.lines = l.lines
    BY <2>1, <2>2, <2>3
  <2>5. CountsRight(a) /\ (Room(a) => Room(l))
    <3>1. x2 \in Nat /\ x4 \in Nat /\ v \in Nat /\ CountsRight(l)
      BY <1>2, <2>2 DEF CountsRight
    <3>2. x2 + v < req.maxsolutions => x2 < req.maxsolutions
      <4>1. req.maxsolutions \in Nat
        BY RequestAssumption
      <4> QED BY <3>1, <4>1
    <3> QED BY <2>2, <2>3, <3>1, <3>2 DEF CountsRight, Room
  <2>6. Room(a) => HeldTo(a.lines, depth + 1)
    BY <1>2, <2>4, <2>5, DepthHeld
  <2> QED BY <2>1, <2>4, <2>5, <2>6, CompleteNext
<1>3. CASE ~(v < 0) /\ s # <<>>
  <2>1. /\ pc' = "loop" /\ list' = l /\ depth' = depth
        /\ \A n : AheadIn(n, stack', arg') <=> AheadIn(n, s, arg)
    BY <1>3, TrailReturn
  <2>2. PICK u, b, w : u = stack' /\ b = arg' /\ w = ret'
    OBVIOUS
  <2>3. \A n : Ahead(n, u, b, "loop") <=> Ahead(n, s, arg, "loop")
    BY <2>1, <2>2 DEF Ahead
  <2>4. Room(l) /\ Searches(depth) => FoundPast(l.lines, u, b, "loop", depth)
    BY <1>3, <2>3 DEF FoundPast
  <2> QED BY <1>3, <2>1, <2>2, <2>4, CompleteNext
<1> QED BY <1>1, <1>2, <1>3

(* A step of a call that goes on.                                          *)
LEMMA FramesFound ==
  ASSUME CompleteInv, pc \in {"visit", "loop"}, pc' \in {"visit", "loop"},
         UNCHANGED <<req, list, depth>>,
         Searches(depth) =>
           \A o : Wanted(o, depth) /\ Ahead(o, stack, arg, pc) => Ahead(o, stack', arg', pc')
  PROVE  CompleteInv'
<1>1. PICK u, b, p, w : u = stack' /\ b = arg' /\ p = pc' /\ w = ret'
  OBVIOUS
<1>2. Room(list) /\ Searches(depth) => FoundPast(list.lines, u, b, p, depth)
  BY <1>1 DEF CompleteInv, FoundPast
<1>3. CountsRight(list) /\ (Room(list) => HeldTo(list.lines, depth))
  BY DEF CompleteInv
<1>4. PICK l, n : l = list /\ n = depth
  OBVIOUS
<1> QED BY <1>1, <1>2, <1>3, <1>4, CompleteNext

LEMMA FoundVisit ==
  ASSUME GenInv, CallInv, ListInv, OnceInv, CompleteInv, Visit
  PROVE  CompleteInv'
<1>1. /\ pc = "visit" /\ req' = req /\ req \in Requests /\ coord(arg.cube) # 0
      /\ ArgRight(arg) /\ StackRight(stack) /\ Len(stack) = Turns(arg) /\ depth \in Nat
      /\ LinesTo(list, depth) /\ TrailRight(stack, arg, depth)
  BY DEF Visit, CallInv, ListInv, OnceInv
<1>2. /\ CountsRight(list) /\ (Room(list) => HeldTo(list.lines, depth))
      /\ Room(list) /\ Searches(depth) => FoundPast(list.lines, stack, arg, "visit", depth)
  BY <1>1 DEF CompleteInv
<1>3. Legal(arg, depth)
  BY <1>1 DEF TrailRight
<1>4. CASE solve_coord_dfs_stop
  <2>1. DfsReturn(0, list, stack)
    BY <1>4 DEF Visit
  <2>2. Searches(depth) =>
          \A o : Wanted(o, depth) /\ Ahead(o, stack, arg, "visit") => Ahead(o, stack, arg, "loop")
    BY <1>1, <1>3, <1>4, NotStopped DEF Ahead
  <2>3. Room(list) /\ Searches(depth) => FoundPast(list.lines, stack, arg, "loop", depth)
    BY <1>2, <2>2 DEF FoundPast
  <2> QED BY <1>1, <1>2, <2>1, <2>3, ReturnFound
<1>5. CASE ~solve_coord_dfs_stop
  <2>1. Turns(arg) < depth
    <3>1. PICK x \in Nat, y \in Nat : x = Len(arg.moves) /\ y = Len(arg.premoves) /\ Turns(arg) = x + y
      BY <1>1, ArgNode, NodeTurns
    <3>2. ~(x + y >= depth)
      BY <1>5, <3>1 DEF solve_coord_dfs_stop, nmoves, npremoves
    <3>3. PICK n \in Nat : n = depth
      BY <1>1
    <3>4. x + y < n
      BY <3>2, <3>3
    <3> QED BY <3>1, <3>3, <3>4
  <2>2. \A o : Wanted(o, depth) /\ Ahead(o, stack, arg, "visit") => Ahead(o, stack', arg', pc')
    <3> SUFFICES ASSUME NEW o, Wanted(o, depth), Ahead(o, stack, arg, "visit")
                 PROVE  Ahead(o, stack', arg', pc')
      OBVIOUS
    <3>1. CASE AheadIn(o, stack, arg)
      BY <1>5, <3>1, VisitTrail
    <3>2. CASE Follows(o, arg, Turns(arg))
      <4>1. SideAt(o, Turns(arg) + 1) = "normal" =>
              coord_continue_onnormal /\ MoveAt(o, Turns(arg) + 1) \in MovesAfter(arg.moves)
        BY <1>1, <1>3, <2>1, <3>2, NormalTried
      <4> QED BY <1>5, <3>2, <4>1, VisitTrail
    <3> QED BY <3>1, <3>2 DEF Ahead
  <2>3. UNCHANGED <<req, list, depth>> /\ pc' = "loop"
    BY <1>5, VisitTrail
  <2> QED BY <1>1, <2>2, <2>3, FramesFound
<1> QED BY <1>4, <1>5

LEMMA FoundVisitSolved ==
  ASSUME GenInv, CallInv, ListInv, OnceInv, CompleteInv, VisitSolved
  PROVE  CompleteInv'
<1>1. /\ pc = "visit" /\ req' = req /\ req \in Requests /\ coord(arg.cube) = 0
      /\ ArgRight(arg) /\ StackRight(stack) /\ Len(stack) = Turns(arg) /\ depth \in Nat
      /\ LinesTo(list, depth) /\ TrailRight(stack, arg, depth) /\ depth <= req.maxmoves
  BY DEF VisitSolved, CallInv, ListInv, OnceInv
<1>2. /\ CountsRight(list) /\ (Room(list) => HeldTo(list.lines, depth))
      /\ Room(list) /\ Searches(depth) => FoundPast(list.lines, stack, arg, "visit", depth)
  BY <1>1 DEF CompleteInv
<1>3. \A o : Wanted(o, depth) /\ Ahead(o, stack, arg, "visit") /\ ~Ahead(o, stack, arg, "loop") =>
               coord_solution_admissible /\ ThisLine = LineOf(o)
  <2> SUFFICES ASSUME NEW o, Wanted(o, depth), Follows(o, arg, Turns(arg))
               PROVE  coord_solution_admissible /\ ThisLine = LineOf(o)
    BY DEF Ahead
  <2>1. Turns(arg) = depth /\ ThisLine = LineOf(o) /\ solution_lastqt_cw
    BY <1>1, SolvedNode
  <2> QED BY <2>1, TurnsIs DEF coord_solution_admissible
<1>4. CASE ~coord_solution_admissible
  <2>1. DfsReturn(0, list, stack)
    BY <1>4 DEF VisitSolved
  <2>2. Room(list) /\ Searches(depth) => FoundPast(list.lines, stack, arg, "loop", depth)
    BY <1>2, <1>3, <1>4 DEF FoundPast
  <2> QED BY <1>1, <1>2, <2>1, <2>2, ReturnFound
<1>5. CASE coord_solution_admissible
  <2>1. Turns(arg) = depth
    BY <1>5, TurnsIs DEF coord_solution_admissible
  <2>2. PICK a, l : a = appendsolution(ThisLine) /\ l = ThisLine
    OBVIOUS
  <2>3. DfsReturn(a.ret, a.list, stack) /\ a.ret \in Int
    BY <1>5, <2>2, AppendRet DEF VisitSolved
  <2>4. LinesTo(a.list, depth)
    BY <1>5, <2>2, SolvedLists
  <2>5. a.ret >= 0 => /\ CountsRight(a.list)
                      /\ Room(a.list) => Room(list) /\ a.list.lines = Append(list.lines, l)
    BY <1>1, <1>2, <2>1, <2>2, AppendRoom
  <2>6. \A o : HasLine(list.lines, o) \/ l = LineOf(o) => HasLine(Append(list.lines, l), o)
    <3>1. list.lines \in Seq(Lines) /\ l \in Lines
      BY <1>1, <2>2, ArgNode, LineOfIs DEF LinesTo, ThisLine, LineOf
    <3>2. PICK n \in Nat : n = Len(list.lines)
      BY <3>1
    <3>3. /\ Len(Append(list.lines, l)) = n + 1 /\ Append(list.lines, l)[n + 1] = l
          /\ \A k \in 1 .. n : Append(list.lines, l)[k] = list.lines[k]
      BY <3>1, <3>2
    <3>4. n + 1 \in 1 .. n + 1 /\ \A k \in 1 .. n : k \in 1 .. n + 1
      OBVIOUS
    <3> QED BY <3>2, <3>3, <3>4 DEF HasLine
  <2>7. a.ret >= 0 /\ Room(a.list) => HeldTo(a.list.lines, depth)
    BY <1>2, <2>5, <2>6 DEF HeldTo, Held
  <2>8. a.ret >= 0 /\ Room(a.list) /\ Searches(depth) =>
          FoundPast(a.list.lines, stack, arg, "loop", depth)
    <3> SUFFICES ASSUME a.ret >= 0, Room(a.list), Searches(depth),
                        NEW o, Wanted(o, depth), ~Ahead(o, stack, arg, "loop")
                 PROVE  HasLine(Append(list.lines, l), o)
      BY <2>5 DEF FoundPast
    <3>1. CASE Ahead(o, stack, arg, "visit")
      BY <1>3, <2>2, <2>6, <3>1
    <3>2. CASE ~Ahead(o, stack, arg, "visit")
      BY <1>2, <2>5, <2>6, <3>2 DEF FoundPast
    <3> QED BY <3>1, <3>2
  <2> QED BY <1>1, <2>1, <2>3, <2>4, <2>5, <2>7, <2>8, ReturnFound
<1> QED BY <1>4, <1>5

LEMMA FoundOtherSide ==
  ASSUME GenInv, CallInv, OnceInv, CompleteInv, OtherSide
  PROVE  CompleteInv'
<1>1. /\ pc = "loop" /\ pc' = "loop" /\ UNCHANGED <<req, list, depth>>
  BY OtherSideTrail
<1>2. /\ ArgRight(arg) /\ StackRight(stack) /\ stack # <<>> /\ arg = stack[Len(stack)].arg
      /\ TrailRight(stack, arg, depth) /\ depth \in Nat
  BY <1>1 DEF CallInv, OnceInv, Frame
<1>3. Turns(arg) + 1 = Len(stack) /\ Turns(arg) < depth
  <2>1. PICK n \in Nat : n = Len(stack) /\ n >= 1
    BY <1>2 DEF StackRight
  <2>2. Turns(stack[n].arg) = n - 1 /\ n <= depth
    BY <1>2, <2>1 DEF StackRight, FrameRight
  <2> QED BY <1>2, <2>1, <2>2
<1>4. \A o : Wanted(o, depth) /\ Ahead(o, stack, arg, pc) => Ahead(o, stack', arg', pc')
  <2> SUFFICES ASSUME NEW o, Wanted(o, depth), Ahead(o, stack, arg, pc)
               PROVE  Ahead(o, stack', arg', pc')
    OBVIOUS
  <2>1. Follows(o, arg, Turns(arg)) /\ SideAt(o, Turns(arg) + 1) = "inverse" =>
          coord_continue_oninverse /\ MoveAt(o, Turns(arg) + 1) \in MovesAfter(arg.premoves)
    BY <1>1, <1>2, <1>3, InverseTried DEF TrailRight
  <2>2. Follows(o, arg, Turns(arg)) /\ SideAt(o, Len(stack)) = "inverse" =>
          coord_continue_oninverse /\ MoveAt(o, Len(stack)) \in MovesAfter(arg.premoves)
    BY <1>3, <2>1
  <2> QED BY <2>2, OtherSideTrail
<1> QED BY <1>1, <1>4, FramesFound

LEMMA FoundTryMove ==
  ASSUME CallInv, OnceInv, CompleteInv, TryMove
  PROVE  CompleteInv'
<1>1. /\ pc = "loop" /\ pc' = "visit" /\ UNCHANGED <<req, depth, list>>
      /\ \A o : Ahead(o, stack, arg, pc) => Ahead(o, stack', arg', pc')
  BY TryMoveTrail
<1> QED BY <1>1, FramesFound

LEMMA FoundNoMoreMoves ==
  ASSUME CallInv, ListInv, OnceInv, CompleteInv, NoMoreMoves
  PROVE  CompleteInv'
<1> DEFINE s == SubSeq(stack, 1, Len(stack) - 1)
<1>1. /\ pc = "loop" /\ req' = req /\ req \in Requests /\ StackRight(stack) /\ stack # <<>>
      /\ arg = Frame.arg /\ DfsReturn(Frame.ret, list, s) /\ depth \in Nat
      /\ LinesTo(list, depth) /\ TrailRight(stack, arg, depth)
      /\ stack[Len(stack)].side = "inverse" /\ stack[Len(stack)].todo = {}
  BY DEF NoMoreMoves, CallInv, ListInv, OnceInv, Frame
<1>2. /\ CountsRight(list) /\ (Room(list) => HeldTo(list.lines, depth))
      /\ Room(list) /\ Searches(depth) => FoundPast(list.lines, stack, arg, "loop", depth)
  BY <1>1 DEF CompleteInv
<1>3. Len(stack) \in 1 .. Len(stack) /\ stack \in Seq(Frames)
  BY <1>1 DEF StackRight
<1>4. Frame.ret \in Int /\ Turns(arg) = Len(stack) - 1
  BY <1>1, <1>3, FrameIs DEF Frame, Frames
<1>5. StackRight(s) /\ Len(s) = Len(stack) - 1 /\ \A k \in 1 .. Len(s) : s[k] = stack[k]
  BY <1>1, StackPopped
<1> HIDE DEF s
<1>6. /\ TrailRight(s, arg, depth)
      /\ \A n : AheadIn(n, s, arg) <=> AheadIn(n, stack, arg)
  BY <1>1, <1>5, TrailPop
<1>7. Room(list) /\ Searches(depth) => FoundPast(list.lines, s, arg, "loop", depth)
  <2>1. \A n : Ahead(n, s, arg, "loop") <=> Ahead(n, stack, arg, "loop")
    BY <1>6 DEF Ahead
  <2> QED BY <1>2, <2>1 DEF FoundPast
<1>8. Turns(arg) \in {Len(s), Len(s) - 1}
  BY <1>4, <1>5
<1> QED BY <1>1, <1>2, <1>4, <1>5, <1>6, <1>7, <1>8, ReturnFound

-----------------------------------------------------------------------------
(* The steps of solve_coord.                                               *)
LEMMA FoundCall ==
  ASSUME NEW r \in Requests, solve_coord(r)
  PROVE  CompleteInv'
<1>1. /\ list' = solution_list_init /\ req' = r /\ depth' = Max({r.minmoves, 1})
      /\ \/ pc' = "start"
         \/ pc' = "returned" /\ ~(ret' >= 0)
  BY DEF solve_coord, Return, ERROR_UNSOLVABLE_CUBE, ERROR_BUFFER_SIZE, ERROR_DATA
<1>2. CountsRight(list)'
  BY <1>1 DEF CountsRight, solution_list_init
<1> QED BY <1>1, <1>2 DEF CompleteInv

LEMMA FoundSolved ==
  ASSUME GenInv, CallInv, AlreadySolved
  PROVE  CompleteInv'
<1>1. pc = "start" /\ pc' = "returned" /\ arg' = arg /\ coord(arg.cube) = 0
  BY DEF AlreadySolved, Return
<1>2. arg.cube \in Goal
  <2>1. arg.cube \in Cubes /\ gen = "done"
    BY <1>1, ArgIs DEF CallInv
  <2> QED BY <1>1, <2>1, EntryRead
<1>3. (arg.cube \in Goal)'
  BY <1>1, <1>2 DEF Goal
<1> QED BY <1>1, <1>3 DEF CompleteInv

LEMMA FoundNeedsMoves ==
  ASSUME CallInv, CompleteInv, NeedsMoves
  PROVE  CompleteInv'
<1>1. /\ pc = "start" /\ pc' = "depth" /\ UNCHANGED <<req, arg, stack, depth, list, ret>>
      /\ depth \in Nat /\ depth = Max({req.minmoves, 1}) /\ CountsRight(list)
  BY DEF NeedsMoves, CallInv, CompleteInv
<1>2. HeldTo(list.lines, depth)
  <2>1. depth .. depth - 1 = {}
    BY <1>1
  <2> QED BY <1>1, <2>1 DEF HeldTo
<1>3. PICK l, s, a, n, v : l = list /\ s = stack /\ a = arg /\ n = depth /\ v = ret
  OBVIOUS
<1> QED BY <1>1, <1>2, <1>3, CompleteNext

LEMMA FoundSearchDepth ==
  ASSUME CallInv, ListInv, CompleteInv, SearchDepth
  PROVE  CompleteInv'
<1>1. /\ pc = "depth" /\ UNCHANGED <<req, arg, stack, depth, list>> /\ req \in Requests
      /\ Turns(arg) = 0 /\ depth \in Nat /\ LinesTo(list, depth)
      /\ CountsRight(list) /\ (Room(list) => HeldTo(list.lines, depth))
  BY DEF SearchDepth, CallInv, ListInv, CompleteInv
<1>2. PICK l, s, a, n : l = list /\ s = stack /\ a = arg /\ n = depth
  OBVIOUS
<1>3. CASE solutions_done
  <2>1. pc' = "returned"
    BY <1>3 DEF SearchDepth, Return
  <2>2. Room(list) => Stopped(list.lines, depth)
    <3> SUFFICES ASSUME Room(list), ~(depth > req.maxmoves)
                 PROVE  list.lines # <<>> /\ depth > LineLen(list.lines[1]) + req.optimal
      BY DEF Stopped
    <3>1. /\ req.maxmoves \in 0 .. 20 /\ req.optimal \in Nat /\ req.maxsolutions \in Nat
      BY <1>1, RequestAssumption DEF MAXLEN
    <3>2. list.nsols \in Nat /\ ~(list.nsols >= req.maxsolutions)
      BY <1>1, <3>1 DEF Room, CountsRight
    <3>3. depth > list.shortest_sol + req.optimal
      BY <1>3, <3>2 DEF solutions_done
    <3>4. list.lines # <<>>
      <4> SUFFICES ASSUME list.lines = <<>> PROVE FALSE
        OBVIOUS
      <4>1. list.shortest_sol = 21
        BY <1>1 DEF CountsRight, MAXLEN
      <4>2. PICK h \in Nat, mx \in 0 .. 20, op \in Nat :
               h = depth /\ mx = req.maxmoves /\ op = req.optimal
        BY <1>1, <3>1
      <4>3. h > 21 + op
        BY <3>3, <4>1, <4>2
      <4>4. ~(h > mx)
        BY <4>2
      <4>5. mx \in 0 .. 20 /\ op \in Nat /\ h \in Nat
        BY <4>2
      <4> QED BY <4>3, <4>4, <4>5
    <3>5. list.shortest_sol = LineLen(list.lines[1])
      BY <1>1, <3>4 DEF CountsRight
    <3> QED BY <3>3, <3>4, <3>5
  <2>3. PICK v : v = ret'
    OBVIOUS
  <2> QED BY <1>1, <1>2, <2>1, <2>2, <2>3, CompleteNext
<1>4. CASE ~solutions_done
  <2>1. pc' = "visit"
    BY <1>4 DEF SearchDepth
  <2>2. \A o : Ahead(o, s, a, "visit")
    <3>1. Turns(a) = 0
      BY <1>1, <1>2
    <3>2. \A o : Follows(o, a, Turns(a))
      BY <3>1 DEF Follows
    <3> QED BY <3>2 DEF Ahead
  <2>3. FoundPast(l.lines, s, a, "visit", n)
    BY <2>2 DEF FoundPast
  <2>4. PICK v : v = ret'
    OBVIOUS
  <2> QED BY <1>1, <1>2, <2>1, <2>3, <2>4, CompleteNext
<1> QED BY <1>3, <1>4

LEMMA CompleteInit == Init => CompleteInv
BY DEF Init, SolveInit, CompleteInv

LEMMA CompleteStep ==
  ASSUME GenInv, CallInv, ListInv, OnceInv, CompleteInv, [Next]_vars
  PROVE  CompleteInv'
<1>1. CASE UNCHANGED solvevars
  <2>1. PICK ls, l, s, a, p, n :
          ls = list.lines /\ l = list /\ s = stack /\ a = arg /\ p = pc /\ n = depth
    OBVIOUS
  <2>2. /\ FoundPast(ls, s, a, p, n)' <=> FoundPast(ls, s, a, p, n)
        /\ HeldTo(ls, n)' <=> HeldTo(ls, n)
        /\ Stopped(ls, n)' <=> Stopped(ls, n)
        /\ Room(l)' <=> Room(l)
        /\ CountsRight(l)' <=> CountsRight(l)
        /\ Searches(n)' <=> Searches(n)
    BY <1>1, FoundKept DEF solvevars
  <2>3. /\ FoundPast(list.lines, stack, arg, pc, depth)' <=> FoundPast(ls, s, a, p, n)
        /\ HeldTo(list.lines, depth)' <=> HeldTo(ls, n)
        /\ Stopped(list.lines, depth)' <=> Stopped(ls, n)
        /\ Room(list)' <=> Room(l)
        /\ CountsRight(list)' <=> CountsRight(l)
        /\ Searches(depth)' <=> Searches(n)
    BY <1>1, <2>1, <2>2 DEF solvevars
  <2> QED BY <1>1, <2>1, <2>3 DEF CompleteInv, solvevars
<1>2. CASE \E r \in Requests : solve_coord(r)
  BY <1>2, FoundCall
<1>3. CASE AlreadySolved
  BY <1>3, FoundSolved
<1>4. CASE NeedsMoves
  BY <1>4, FoundNeedsMoves
<1>5. CASE SearchDepth
  BY <1>5, FoundSearchDepth
<1>6. CASE solve_coord_dfs
  BY <1>6, FoundVisit, FoundVisitSolved, FoundTryMove, FoundOtherSide, FoundNoMoreMoves
     DEF solve_coord_dfs
<1> QED BY <1>1, <1>2, <1>3, <1>4, <1>5, <1>6 DEF Next, vars

LEMMA SequencesAre ==
  ASSUME NEW k \in Nat, NEW ms \in SequencesOf(k)
  PROVE  ms \in Seq(MaskMoves) /\ Len(ms) = k
BY DEF SequencesOf, MaskMoves

LEMMA CompleteLines ==
  ASSUME CallInv, ListInv, CompleteInv
  PROVE  LinesComplete
<1> SUFFICES ASSUME pc = "returned", ret >= 0, arg.cube \notin Goal, Room(list)
             PROVE  /\ \A n \in Searched : \A k \in 0 .. n :
                         \A ms \in SequencesOf(k), ps \in SequencesOf(n-k) :
                            Proper(ms, ps) =>
                              \E l \in ToSet(list.lines) :
                                 l = [moves |-> Written(ms), premoves |-> Written(ps)]
                    /\ Stopped(list.lines, depth)
  BY DEF LinesComplete, Room, Stopped
<1>1. req \in Requests /\ depth \in Nat /\ LinesTo(list, depth)
  BY DEF CallInv, ListInv
<1>2. HeldTo(list.lines, depth) /\ Stopped(list.lines, depth)
  BY DEF CompleteInv
<1>3. Max({req.minmoves, 1}) \in Nat /\ Max({req.minmoves, 1}) >= 1
  <2>1. PICK x \in Nat : x = req.minmoves
    BY <1>1, RequestAssumption
  <2> QED BY <2>1, MaxOfTwo
<1>4. ASSUME NEW n \in Searched, NEW k \in 0 .. n,
             NEW ms \in SequencesOf(k), NEW ps \in SequencesOf(n-k), Proper(ms, ps)
      PROVE  \E l \in ToSet(list.lines) :
               l = [moves |-> Written(ms), premoves |-> Written(ps)]
  <2>1. n \in Max({req.minmoves, 1}) .. depth - 1 /\ Searches(n)
    BY DEF Searched, Searches, Start
  <2>2. n \in Nat /\ n >= 1 /\ k \in Nat /\ n - k \in Nat
    BY <1>1, <1>3, <2>1
  <2>3. /\ ms \in Seq(MaskMoves) /\ ps \in Seq(MaskMoves) /\ Len(ms) = k /\ Len(ps) = n - k
        /\ Len(ms) + Len(ps) = n
    BY <2>2, SequencesAre
  <2>4. PICK o : Wanted(o, n) /\ o.moves = ms /\ o.premoves = ps
    BY <1>4, <2>2, <2>3, HasWay
  <2>5. HasLine(list.lines, o)
    BY <1>2, <2>1, <2>4 DEF HeldTo, Held
  <2>6. PICK j \in 1 .. Len(list.lines) : list.lines[j] = LineOf(o)
    BY <2>5 DEF HasLine
  <2>7. list.lines[j] \in ToSet(list.lines)
    <3>1. j \in DOMAIN list.lines
      BY <1>1, <2>6 DEF LinesTo
    <3> QED BY <3>1 DEF ToSet
  <2> QED BY <2>4, <2>6, <2>7 DEF LineOf
<1> QED BY <1>2, <1>4

(* A call that returns with room left in the list and in the buffer has    *)
(* written every solution of every depth it searched, one for each pair of *)
(* canonical sequences on the sides asked for that is solved at its end    *)
(* and not before, and it stopped because of the limits on the moves: no   *)
(* cut of solve_coord_dfs_stop, no change of side that is refused and no   *)
(* move that is masked loses one.                                          *)
THEOREM CoordLinesComplete == Spec => []LinesComplete
<1>1. Init => GenInv /\ CallInv /\ ListInv /\ OnceInv /\ CompleteInv
  BY GenInitInv, CallInit, ListInit, OnceInit, CompleteInit DEF Init
<1>2. GenInv /\ CallInv /\ ListInv /\ OnceInv /\ CompleteInv /\ [Next]_vars
        => (GenInv /\ CallInv /\ ListInv /\ OnceInv /\ CompleteInv)'
  BY GenInvStep, CallInvStep, ListStep, OnceStep, CompleteStep
<1> QED BY <1>1, <1>2, CompleteLines, PTL DEF Spec
================================================================================
