-------------------------------- MODULE GenCoord --------------------------------
(***************************************************************************)
(* The tables of a coordinate solver (solvers/coord/gendata.h, common.h).  *)
(* A coordinate has two parts: the first is taken up to symmetry, that is  *)
(* replaced by its class, and the second is read off the cube transformed  *)
(* like the representative of the class.  coord_gendata_generic makes the  *)
(* table of classes, genptable_coord the pruning table, by a breadth-first *)
(* search that at each depth runs either from the entries of the depth     *)
(* before or from those not reached yet.                                   *)
(***************************************************************************)
EXTENDS Integers, Sequences, SequencesExt, FiniteSetsExt

CONSTANTS
  SOLVED_CUBE,
  Cubes,        \* the positions
  moves_mask,   \* the moves of the coordinate, in order
  move(_, _),
  trans_mask,   \* the transformations of the coordinate, 0 among them
  transform(_, _), inverse_trans(_),
  SymMax, symcoord(_), symcube(_),  \* sym.max, sym.coord, sym.cube
  Max2, coord2(_), cube2(_), merge(_, _),
  Distance      \* Distance[c]: the moves from c to what looks solved

NTRANS == 48
Unset == 15                     \* 0xF, what memset fills the table with
None == [class |-> -1, isnasty |-> FALSE, ttrep |-> 0]

(* Cubes that the coordinate does not tell apart, the one that stands for  *)
(* them in the tables, and those that look solved.                         *)
SameCoord(c, e) == symcoord(c) = symcoord(e) /\ coord2(c) = coord2(e)
Standing(c) == merge(symcube(symcoord(c)), cube2(coord2(c)))
Goal == {c \in Cubes : symcoord(c) = 0 /\ coord2(c) = 0}

ASSUME CoordinateAssumption ==
  /\ SymMax \in Nat \ {0} /\ Max2 \in Nat \ {0}
  /\ SOLVED_CUBE \in Goal
  /\ \A c \in Cubes : symcoord(c) \in 0 .. SymMax-1 /\ coord2(c) \in 0 .. Max2-1
  /\ \A x \in 0 .. SymMax-1 : symcube(x) \in Cubes /\ symcoord(symcube(x)) = x
  /\ \A x \in 0 .. SymMax-1, y \in 0 .. Max2-1 :
        LET c == merge(symcube(x), cube2(y))
        IN  c \in Cubes /\ symcoord(c) = x /\ coord2(c) = y

(* The transformations are a group that keeps solved solved, and what one  *)
(* makes of the two parts of the coordinate depends on those parts only,   *)
(* for the first part on the first alone.                                  *)
ASSUME TransAssumption ==
  /\ trans_mask \subseteq 0 .. NTRANS-1 /\ 0 \in trans_mask
  /\ \A u \in trans_mask :
        /\ inverse_trans(u) \in trans_mask /\ inverse_trans(inverse_trans(u)) = u
        /\ transform(SOLVED_CUBE, u) = SOLVED_CUBE
  /\ \A c \in Cubes :
        /\ transform(c, 0) = c
        /\ \A u \in trans_mask :
              /\ transform(c, u) \in Cubes
              /\ transform(transform(c, u), inverse_trans(u)) = c
              /\ symcoord(transform(c, u)) = symcoord(transform(symcube(symcoord(c)), u))
              /\ SameCoord(transform(c, u), transform(Standing(c), u))
              /\ \A v \in trans_mask : \E w \in trans_mask :
                    transform(transform(c, u), v) = transform(c, w)

(* So are the moves determined on the coordinate; they can be undone, and  *)
(* seen from another side they are moves of the coordinate again.          *)
ASSUME MoveAssumption ==
  /\ moves_mask \in Seq(Nat)
  /\ \A c \in Cubes, k \in DOMAIN moves_mask :
        LET moved == move(c, moves_mask[k])
        IN  /\ moved \in Cubes
            /\ SameCoord(moved, move(Standing(c), moves_mask[k]))
            /\ \E j \in DOMAIN moves_mask : move(moved, moves_mask[j]) = c
            /\ \A u \in trans_mask : \E j \in DOMAIN moves_mask :
                  transform(moved, u) = move(transform(c, u), moves_mask[j])

(* The only function of the cubes that is 0 on what looks solved, and      *)
(* elsewhere one more than the least after a move.  A value fits in four   *)
(* bits beside the one of an unset entry.                                  *)
ASSUME DistanceAssumption ==
  /\ Distance \in [Cubes -> 0 .. Unset-1]
  /\ \A c \in Cubes :
        /\ Distance[c] = 0 <=> c \in Goal
        /\ \A k \in DOMAIN moves_mask : Distance[c] <= Distance[move(c, moves_mask[k])] + 1
        /\ Distance[c] > 0 =>
             \E k \in DOMAIN moves_mask : Distance[move(c, moves_mask[k])] < Distance[c]

VARIABLES
  classttrep, rep,   \* the two tables of coord_gendata_generic
  table,             \* the pruning table
  distribution,      \* info.distribution
  gen,               \* where the generator is
  i, d, t, tot,      \* locals of the two generators
  fromnew            \* how the entries of depth d are looked for

data == <<classttrep, rep>>
genvars == <<data, table, distribution, gen, i, d, t, tot, fromnew>>

CoordMax == Len(rep) * Max2

(* coord_coord_generic, coord_cube_generic and coord_isnasty_generic.      *)
coord(c) ==
  LET x == classttrep[symcoord(c)]
  IN  x.class * Max2 + coord2(transform(c, x.ttrep))
cube(x) == merge(symcube(rep[(x \div Max2) + 1]), cube2(x % Max2))
isnastyNever(x) == FALSE
isnasty(x) == classttrep[rep[(x \div Max2) + 1]].isnasty

GenInit ==
  /\ classttrep = [x \in 0 .. SymMax-1 |-> None]
  /\ rep = <<>>
  /\ table = <<>>
  /\ distribution = <<>>
  /\ gen = "classes"
  /\ i = 0
  /\ d = 1
  /\ t = 0
  /\ tot = 1
  /\ fromnew = FALSE

(* One round of the loop of coord_gendata_generic: a coordinate that no    *)
(* earlier one is similar to begins a class.                               *)
Similar(x) == {symcoord(transform(symcube(x), u)) : u \in trans_mask}
TransTo(x, y) == {u \in trans_mask : symcoord(transform(symcube(x), u)) = y}

GenClass ==
  /\ gen = "classes"
  /\ i < SymMax
  /\ IF classttrep[i] # None THEN UNCHANGED data
     ELSE /\ classttrep' =
               [y \in 0 .. SymMax-1 |->
                 IF y \notin Similar(i) THEN classttrep[y]
                 ELSE [class |-> Len(rep), isnasty |-> TransTo(i, i) # {0},
                       ttrep |-> inverse_trans(Max(TransTo(i, y)))]]
          /\ rep' = Append(rep, i)
  /\ i' = i + 1
  /\ UNCHANGED <<table, distribution, gen, d, t, tot, fromnew>>

(* genptable_coord begins: the table is cleared, solved is at depth 0.     *)
GenTable ==
  /\ gen = "classes"
  /\ i = SymMax
  /\ gen' = "depth"
  /\ table' = [x \in 0 .. CoordMax-1 |-> IF x = coord(SOLVED_CUBE) THEN 0 ELSE Unset]
  /\ distribution' = <<1>>
  /\ UNCHANGED <<data, i, d, t, tot, fromnew>>

(* switch_to_fromnew only compares costs: both answers are allowed here.   *)
GenDepth ==
  /\ gen = "depth"
  /\ tot < CoordMax
  /\ d < 20
  /\ fromnew' \in BOOLEAN
  /\ gen' = "fill"
  /\ i' = 0
  /\ t' = 0
  /\ UNCHANGED <<data, table, distribution, d, tot>>

(* genptable_coord_fillneighbors: the entries of the neighbours and, where *)
(* a class has symmetries, of what the symmetries make of them.            *)
Neighbours(x) ==
  UNION {LET moved == move(cube(x), moves_mask[k])
             us == IF isnasty(coord(moved)) THEN trans_mask ELSE {0}
         IN  {coord(transform(moved, u)) : u \in us} : k \in 1 .. Len(moves_mask)}

(* genptable_coord_fillfromnew: the entry and those similar to it, if the  *)
(* move from one of them leads to an entry of a smaller depth.             *)
Sims(x) == {coord(transform(cube(x), u)) : u \in trans_mask}
HasOldOrNew(x) ==
  \E k \in 1 .. Len(moves_mask) : table[coord(move(cube(x), moves_mask[k]))] <= d
HasOld(x) ==
  \E s \in Sims(x), k \in 1 .. Len(moves_mask) :
     table[coord(move(cube(s), moves_mask[k]))] < d

Fill(xs) ==
  LET new == {x \in xs : table[x] > d}
  IN  /\ table' = [x \in DOMAIN table |-> IF x \in new THEN d ELSE table[x]]
      /\ t' = t + Cardinality(new)

GenFill ==
  /\ gen = "fill"
  /\ i < CoordMax
  /\ CASE fromnew /\ table[i] > d /\ HasOld(i) -> Fill(Sims(i))
       [] ~fromnew /\ table[i] = d - 1         -> Fill(Neighbours(i))
       [] OTHER                                -> UNCHANGED <<table, t>>
  /\ i' = i + 1
  /\ UNCHANGED <<data, distribution, gen, d, tot, fromnew>>

GenDepthEnd ==
  /\ gen = "fill"
  /\ i = CoordMax
  /\ tot' = tot + t
  /\ distribution' = Append(distribution, t)
  /\ d' = d + 1
  /\ gen' = "depth"
  /\ UNCHANGED <<data, table, i, t, fromnew>>

GenReturn ==
  /\ gen = "depth"
  /\ tot >= CoordMax \/ d = 20
  /\ gen' = "done"
  /\ fromnew' = FALSE
  /\ i' = 0
  /\ t' = 0
  /\ UNCHANGED <<data, table, distribution, d, tot>>

GenNext ==
  GenClass \/ GenTable \/ GenDepth \/ GenFill \/ GenDepthEnd \/ GenReturn
-----------------------------------------------------------------------------
(* A reference for the numbering of the coordinates, by the least member   *)
(* of each class, and the distance of what each of them stands for.        *)
Leasts == {x \in 0 .. SymMax-1 : \A y \in Similar(x) : x <= y}
Least ==
  [k \in 1 .. Cardinality(Leasts) |->
    CHOOSE x \in Leasts : Cardinality({y \in Leasts : y < x}) = k - 1]
Coords == 0 .. Cardinality(Leasts) * Max2 - 1
CoordDistance(x) ==
  Distance[merge(symcube(Least[(x \div Max2) + 1]), cube2(x % Max2))]

(* The generator is a breadth-first search whichever way it goes at each   *)
(* depth: each entry becomes the distance of the positions it stands for.  *)
Distances == INSTANCE DistanceTable WITH
  Dist <- [x \in Coords |-> CoordDistance(x)], maxdepth <- 19,
  table <- IF table = <<>> THEN [x \in Coords |-> IF x = 0 THEN 0 ELSE Unset] ELSE table,
  finished <- gen = "done"
ImplementsDistanceTable == Distances!Spec

(* Every position, in whatever symmetric form, finds its distance in the   *)
(* table, and the distribution counts the entries.                         *)
TableExact ==
  gen = "depth" =>
    /\ \A c \in Cubes : Distance[c] < d => table[coord(c)] = Distance[c]
    /\ \A n \in 1 .. Len(distribution) :
          distribution[n] = Cardinality({x \in Coords : CoordDistance(x) = n - 1})
================================================================================
