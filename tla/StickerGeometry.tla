--------------------------- MODULE StickerGeometry ---------------------------
(* The puzzle in space: faces, cubies, stickers and what a turn does to them. *)
(* A cubie is the set of the faces it touches when it is at home.  Nothing   *)
(* here knows of pieces, twists or tables: MCNissyCube compares the code     *)
(* with it.                                                                  *)
EXTENDS Integers, Sequences, FiniteSets, SequencesExt

Faces == {"U", "D", "R", "L", "F", "B"}

(* A function of the faces, written out.                                     *)
OnFaces(g(_)) == [U |-> g("U"), D |-> g("D"), R |-> g("R"),
                  L |-> g("L"), F |-> g("F"), B |-> g("B")]

Opposite == [U |-> "D", D |-> "U", R |-> "L", L |-> "R", F |-> "B", B |-> "F"]

(* The faces around each face, clockwise.                                    *)
Around == [U |-> <<"F", "L", "B", "R">>, D |-> <<"F", "R", "B", "L">>,
           R |-> <<"F", "U", "B", "D">>, L |-> <<"F", "D", "B", "U">>,
           F |-> <<"U", "R", "D", "L">>, B |-> <<"U", "L", "D", "R">>]

(* Where a clockwise quarter turn about f takes each face.                   *)
Quarter ==
    LET next(f, g) == IF \E i \in 1..4 : Around[f][i] = g
                      THEN LET i == CHOOSE j \in 1..4 : Around[f][j] = g
                           IN  Around[f][(i % 4) + 1]
                      ELSE g
    IN  [f \in Faces |-> OnFaces(LAMBDA g : next(f, g))]

Cubies == {c \in SUBSET Faces : c # {} /\ \A f \in c : Opposite[f] \notin c}
Home   == UNION {{<<c, f, c, f>> : f \in c} : c \in Cubies}

Image(r, c) == {r[f] : f \in c}

-----------------------------------------------------------------------------
(* A move: which cubies turn, about which face and how many times.           *)

Face == <<"U", "D", "R", "L", "F", "B">>

Turns(about, In(_), times) == [about |-> about, cubies |-> {c \in Cubies : In(c)},
                               times |-> times]

MoveOf(m) ==
    LET k == (m % 3) + 1 IN
    CASE m \in 0..17  -> LET f == Face[(m \div 3) + 1] IN Turns(f, LAMBDA c : f \in c, k)
      [] m \in 18..35 -> LET f == Face[(m \div 3) - 5]
                         IN  Turns(f, LAMBDA c : Opposite[f] \notin c, k)
      [] m \in 36..44 -> LET f == <<"L", "F", "D">>[(m \div 3) - 11]
                         IN  Turns(f, LAMBDA c : c \cap {f, Opposite[f]} = {}, k)
      [] m \in 45..53 -> Turns(<<"R", "U", "F">>[(m \div 3) - 14], LAMBDA c : TRUE, k)

TurnOnce(s, about, cubies) ==
    {IF t[1] \in cubies
     THEN <<Image(Quarter[about], t[1]), Quarter[about][t[2]], t[3], t[4]>>
     ELSE t : t \in s}

MoveTable == [m \in 0..53 |-> MoveOf(m)]

Moved(s, m) ==
    LET mv == MoveTable[m] IN
    CASE mv.times = 1 -> TurnOnce(s, mv.about, mv.cubies)
      [] mv.times = 2 -> TurnOnce(TurnOnce(s, mv.about, mv.cubies), mv.about, mv.cubies)
      [] mv.times = 3 -> TurnOnce(TurnOnce(TurnOnce(s, mv.about, mv.cubies),
                                           mv.about, mv.cubies), mv.about, mv.cubies)

(* How the cube is held: where each centre has gone.                         *)
Frame(s) ==
    LET centres == {t \in s : Cardinality(t[1]) = 1} IN
    OnFaces(LAMBDA f : (CHOOSE t \in centres : t[4] = f)[2])

Upright == OnFaces(LAMBDA f : f)

Back(r) == OnFaces(LAMBDA f : CHOOSE g \in Faces : r[g] = f)

(* The cube seen from its own centres, and put back in a frame.              *)
Seen(s) ==
    LET b == Back(Frame(s)) IN {<<Image(b, t[1]), b[t[2]], t[3], t[4]>> : t \in s}
Held(s, r) == {<<Image(r, t[1]), r[t[2]], t[3], t[4]>> : t \in s}

Inverted(s) == Held({<<t[3], t[4], t[1], t[2]>> : t \in Seen(s)}, Frame(s))

(* The whole puzzle carried by a symmetry of space: U goes to up, F to front *)
(* and, when mirrored, the result is seen in a mirror that exchanges R and L. *)
Symmetry(up, front, mirrored) ==
    LET right == CHOOSE f \in Faces : Quarter[up][f] = front
        glass(f) == IF mirrored /\ f \in {"R", "L"} THEN Opposite[f] ELSE f
        to == [U |-> up, F |-> front, R |-> right, D |-> Opposite[up],
               B |-> Opposite[front], L |-> Opposite[right]]
    IN  OnFaces(LAMBDA f : glass(to[f]))

Carried(s, r) ==
    Held({<<Image(r, t[1]), r[t[2]], Image(r, t[3]), r[t[4]]>> : t \in Seen(s)}, Frame(s))
=============================================================================
