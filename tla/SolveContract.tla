----------------------------- MODULE SolveContract -----------------------------
(***************************************************************************)
(* What a call of nissy_solve promises about the list of solutions it      *)
(* returns, whatever the solver and the number of threads: lines of        *)
(* solutions are found one at a time, shortest first, each within the      *)
(* bounds of the request, none twice; unless the search is excused (it was *)
(* stopped, or the buffer is too small), it ends only when it has as many  *)
(* lines as were asked for or has left out none that qualifies.            *)
(***************************************************************************)
EXTENDS Naturals, FiniteSets

CONSTANTS
  Sols,         \* the solutions of the cube
  Length,       \* Length[s]: number of moves of s
  Copies        \* Copies[s]: how many lines s is written as

VARIABLES
  limits,       \* the request: bounds on length, number of lines, slack
  found,        \* the lines found so far
  excused,      \* the search may end early
  finished      \* the call has returned

vars == <<limits, found, excused, finished>>

Lines == UNION {{s} \X (1 .. Copies[s]) : s \in Sols}
Len(l) == Length[l[1]]

Init ==
  /\ limits \in [min : Nat, max : Nat, count : Nat, slack : Nat]
  /\ found = {}
  /\ excused \in BOOLEAN
  /\ finished = FALSE

InRange(l) == limits.min <= Len(l) /\ Len(l) <= limits.max

Find(l) ==
  /\ ~finished
  /\ l \notin found
  /\ Cardinality(found) < limits.count
  /\ InRange(l)
  /\ \A f \in found : Len(f) <= Len(l) /\ Len(l) <= Len(f) + limits.slack
  /\ found' = found \cup {l}
  /\ UNCHANGED <<limits, excused, finished>>

Excuse ==
  /\ excused' = TRUE
  /\ UNCHANGED <<limits, found, finished>>

Complete ==
  \/ Cardinality(found) = limits.count
  \/ \A l \in Lines \ found :
        InRange(l) => \E f \in found : Len(l) > Len(f) + limits.slack

Finish ==
  /\ ~finished
  /\ excused \/ Complete
  /\ finished' = TRUE
  /\ UNCHANGED <<limits, found, excused>>

Next == (\E l \in Lines : Find(l)) \/ Excuse \/ Finish

Spec == Init /\ [][Next]_vars
=============================================================================
