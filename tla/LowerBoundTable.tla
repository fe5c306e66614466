---------------------------- MODULE LowerBoundTable ----------------------------
(***************************************************************************)
(* What a generator of a two-bit pruning table promises: an entry starts   *)
(* at the largest value, only decreases, is never below the value that the *)
(* distance of its coordinate gives it, and is that value at the end, when *)
(* the entries of each value have been counted.                            *)
(***************************************************************************)
EXTENDS Naturals, FiniteSets

CONSTANT
  MaxValue      \* the largest value of an entry

VARIABLES
  value,        \* value[c]: what the entry of c should become
  table,        \* the entries
  distribution, \* the number of entries of each value, when finished
  finished      \* the generator has returned

vars == <<value, table, distribution, finished>>

Coords == DOMAIN value

Init ==
  /\ \A c \in Coords : value[c] \in 0 .. MaxValue
  /\ table = [c \in Coords |-> MaxValue]
  /\ distribution = [v \in 0 .. MaxValue |-> 0]
  /\ finished = FALSE

Lower(c) ==
  /\ ~finished
  /\ \E v \in value[c] .. table[c] - 1 : table' = [table EXCEPT ![c] = v]
  /\ UNCHANGED <<value, distribution, finished>>

Finish ==
  /\ ~finished
  /\ table = value
  /\ distribution' =
       [v \in 0 .. MaxValue |-> Cardinality({c \in Coords : value[c] = v})]
  /\ finished' = TRUE
  /\ UNCHANGED <<value, table>>

Next == (\E c \in Coords : Lower(c)) \/ Finish

Spec == Init /\ [][Next]_vars
================================================================================
