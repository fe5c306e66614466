----------------------------- MODULE DistanceTable -----------------------------
(***************************************************************************)
(* What a generator of a pruning table by breadth-first search promises:   *)
(* entries go from unset to the distance of their coordinate from solved,  *)
(* all those of one distance before any of the next, they never change     *)
(* again, and the generator ends when no entry within its depth is unset.  *)
(***************************************************************************)
EXTENDS Naturals

CONSTANTS
  Coords,       \* the coordinates of the table
  Dist,         \* Dist[c]: moves from c to the solved coordinate
  Unset         \* the value of an entry not computed yet

VARIABLES
  maxdepth,     \* the depth of the search
  table,        \* the pruning value of each coordinate
  finished      \* the generator has returned

vars == <<maxdepth, table, finished>>

Init ==
  /\ maxdepth \in Nat
  /\ table = [c \in Coords |-> IF Dist[c] = 0 THEN 0 ELSE Unset]
  /\ finished = FALSE

(* Any number of entries may be learnt in a step.                          *)
Learnt(c) ==
  /\ table[c] = Unset
  /\ Dist[c] <= maxdepth
  /\ \A b \in Coords : Dist[b] < Dist[c] => table[b] # Unset
  /\ table'[c] = Dist[c]

Learn ==
  /\ ~finished
  /\ DOMAIN table' = Coords
  /\ \A c \in Coords : table'[c] # table[c] => Learnt(c)
  /\ UNCHANGED <<maxdepth, finished>>

Finish ==
  /\ ~finished
  /\ \A c \in Coords : Dist[c] <= maxdepth => table[c] # Unset
  /\ finished' = TRUE
  /\ UNCHANGED <<maxdepth, table>>

Next == Learn \/ Finish

Spec == Init /\ [][Next]_vars
=============================================================================
