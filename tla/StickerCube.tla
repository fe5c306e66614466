---------------------------- MODULE StickerCube -----------------------------
(* What the cube calls of the library promise, told of the puzzle itself.    *)
(* A cubie is the set of the faces it touches when it is at home, so 54      *)
(* stickers, centres included, each sit at a place <<cubie, face>> of space. *)
(* Turning a layer carries its stickers along; nothing here knows of pieces, *)
(* twists, orientations or tables.                                           *)
EXTENDS StickerGeometry

CONSTANT Calls        \* the calls a client may make
VARIABLES stickers,   \* {<<cubie, face, home cubie, home face>>}; {} is no cube
          call        \* the last call

vars == <<stickers, call>>

-----------------------------------------------------------------------------
(* A move string is read by its parentheses, which do not nest: what is      *)
(* outside turns the cube, what is inside turns the inverse of the cube held *)
(* upright, and may not move its centres.                                    *)

Depth(w, i) == Cardinality({j \in 1..i : w[j] = 54}) - Cardinality({j \in 1..i : w[j] = 55})

WellFormed(w) ==
    /\ \A i \in 1..Len(w) : w[i] \in 0..55 /\ Depth(w, i) \in 0..1
    /\ Depth(w, Len(w)) = 0

MovesAt(w, d) == FoldLeft(LAMBDA s, i : IF w[i] \in 0..53 /\ Depth(w, i) = d
                                        THEN Append(s, w[i]) ELSE s,
                          <<>>, [i \in 1..Len(w) |-> i])

Apply(s, w) ==
    LET turned  == FoldLeft(Moved, s, MovesAt(w, 0))
        inverse == FoldLeft(Moved, Inverted(Seen(turned)), MovesAt(w, 1))
    IN  IF MovesAt(w, 1) = <<>> THEN turned
        ELSE IF Frame(inverse) # Upright THEN s
        ELSE Held(Inverted(inverse), Frame(turned))

IsCube(s) ==
    /\ {<<t[1], t[2]>> : t \in s} = {<<t[1], t[2]>> : t \in Home}
    /\ {<<t[3], t[4]>> : t \in s} = {<<t[1], t[2]>> : t \in Home}
    /\ Cardinality(s) = Cardinality(Home)
    /\ Cardinality({<<t[1], t[3]>> : t \in s}) = Cardinality(Cubies)

-----------------------------------------------------------------------------
Init == /\ stickers = {} \/ IsCube(stickers)
        /\ call = [op |-> "none"]

(* A string that is not a cube may be turned into anything by inverse().     *)
Next ==
    \E c \in Calls :
        /\ call' = c
        /\ \/ /\ c.op = "getcube"
              /\ stickers' = stickers \/ IsCube(stickers')
           \/ /\ stickers = {}
              /\ stickers' = {} \/ (c.op = "inverse" /\ IsCube(stickers'))
           \/ /\ stickers # {}
              /\ \/ /\ c.op = "applymoves"
                    /\ stickers' = IF WellFormed(c.moves) THEN Apply(stickers, c.moves)
                                                          ELSE stickers
                 \/ /\ c.op = "inverse"
                    /\ stickers' = Inverted(stickers)
                 \/ /\ c.op = "applytrans"
                    /\ stickers' = IF c.front \in {c.up, Opposite[c.up]} THEN stickers
                                   ELSE Carried(stickers, Symmetry(c.up, c.front, c.mirrored))

Spec == Init /\ [][Next]_vars
=============================================================================
