------------------------------ MODULE GenH48h0k4 ------------------------------
(***************************************************************************)
(* gendata_h48h0k4 (solvers/h48/gendata_h48.h): the pruning table of the   *)
(* h = 0 coordinate, 4 bits per entry, computed by a breadth-first search  *)
(* in which, at each depth, THREADS threads scan disjoint ranges of the    *)
(* table and mark entries anywhere in it.  Two entries share a byte, so a  *)
(* mark is a load and a store of the other entry too; a mutex per chunk of *)
(* bytes covers the pair, while the tests that lead to a mark read the     *)
(* table without it.                                                       *)
(*                                                                         *)
(* The cube is abstracted away: Near is what move, invcoord_h48 and        *)
(* coord_h48 make of the moves, and Sims is the list of coordinates that   *)
(* FOREACH_H48SIM goes through, those of one cube up to symmetry.          *)
(***************************************************************************)
EXTENDS Integers, Sequences, FiniteSets

CONSTANTS
  THREADS,      \* number of threads
  CoordMax,     \* H48_COORDMAX(0)
  Near,         \* Near[c][m]: the coordinate reached from c by move m
  Sims,         \* Sims[c]: the coordinates similar to c, in loop order
  Dist,         \* Dist[c]: moves from c to the solved coordinate
  Solved,       \* the coordinate of SOLVED_CUBE
  MaxDepths,    \* the values arg->maxdepth may have
  Breakpoint,   \* breakpoint: the first depth searched from unset entries
  CHUNKS        \* number of mutexes

Coords == 0 .. CoordMax-1
Threads == 0 .. THREADS-1
Chunks == 0 .. CHUNKS-1
Free == -1                      \* a mutex that nobody holds
Unset == 15                     \* 0xF, what memset fills the table with
IsSimilar(b, c) == \E k \in 1 .. Len(Sims[c]) : Sims[c][k] = b
IsNear(b, c) == \E m \in 1 .. Len(Near[c]) : Near[c][m] = b

ASSUME ParametersAssumption ==
  /\ THREADS \in Nat \ {0} /\ CHUNKS \in Nat \ {0} /\ CoordMax \in Nat
  /\ MaxDepths \subseteq Nat /\ Breakpoint \in Nat \ {0}
  /\ Solved \in Coords

(* Similarity is an equivalence that distances respect, as the loop goes   *)
(* through a group of transformations; the solved cube is similar to       *)
(* itself only.                                                            *)
ASSUME SimilarityAssumption ==
  /\ Sims \in [Coords -> Seq(Coords)]
  /\ \A c \in Coords : IsSimilar(c, c)
  /\ \A b, c \in Coords : IsSimilar(b, c) => IsSimilar(c, b) /\ Dist[b] = Dist[c]
  /\ \A a, b, c \in Coords : IsSimilar(a, b) /\ IsSimilar(b, c) => IsSimilar(a, c)
  /\ \A b \in Coords : IsSimilar(b, Solved) => b = Solved

(* Every move can be undone, up to similarity; a move changes the distance *)
(* by at most one, and some move from an unsolved coordinate decreases it. *)
ASSUME DistanceAssumption ==
  /\ Near \in [Coords -> Seq(Coords)]
  /\ Dist \in [Coords -> 0 .. Unset-1]
  /\ \A c \in Coords : Dist[c] = 0 <=> c = Solved
  /\ \A b, c \in Coords : IsNear(b, c) => Dist[b] <= Dist[c] + 1
  /\ \A b, c \in Coords :
        IsNear(b, c) => \E d \in Coords : IsNear(d, b) /\ IsSimilar(c, d)
  /\ \A c \in Coords :
        c # Solved => \E b \in Coords : IsNear(b, c) /\ Dist[b] < Dist[c]

VARIABLES
  maxdepth,     \* arg->maxdepth
  table,        \* the entries of the table
  table_mutex,  \* table_mutex[k]: the holder of chunk k's mutex, or Free
  d, done,      \* locals of gendata_h48h0k4
  distribution, \* arg->info.distribution
  pc_main,      \* where gendata_h48h0k4 is
  pc,           \* pc[t]: where thread t is
  i, m,         \* i[t], m[t]: the loops of gendata_h48h0k4_runthread
  cube,         \* cube[t]: the coordinate of markarg.cube
  s,            \* s[t]: position in the loop over similar coordinates
  byte          \* byte[t]: the byte loaded by set_h48_pval_atomic

main == <<maxdepth, d, done, distribution, pc_main>>
scan == <<i, m>>
mark == <<cube, s>>
vars == <<table, table_mutex, main, pc, scan, mark, byte>>

(* The two entries of a byte, and the mutex that covers it.                *)
H48_INDEX(c) == c \div 2
ByteOf(c) == {b \in Coords : H48_INDEX(b) = H48_INDEX(c)}
MutexPerEntry(c) == c % CHUNKS
Mutex(c) == H48_INDEX(c) % CHUNKS

(* Each thread scans isize entries, whole bytes; the last one the rest.    *)
isize == ((CoordMax \div THREADS) \div 2) * 2
Start(t) == isize * t
End(t) == IF t = THREADS-1 THEN CoordMax ELSE isize * (t + 1)

Init ==
  /\ maxdepth \in MaxDepths
  /\ table = [c \in Coords |-> IF c = Solved THEN 0 ELSE Unset]
  /\ table_mutex = [k \in Chunks |-> Free]
  /\ d = 1
  /\ done = 1
  /\ distribution = [v \in 0 .. maxdepth |-> IF v = 0 THEN 1 ELSE 0]
  /\ pc_main = "loop"
  /\ pc = [t \in Threads |-> "none"]
  /\ i = [t \in Threads |-> Start(t)]
  /\ m = [t \in Threads |-> 1]
  /\ cube = [t \in Threads |-> Solved]
  /\ s = [t \in Threads |-> 1]
  /\ byte = [t \in Threads |-> <<>>]

-----------------------------------------------------------------------------
(* The main thread: all the threads of a depth are created, then joined    *)
(* and their new entries counted.                                          *)

MoreDepthsNoLimit == done < CoordMax
MoreDepths == done < CoordMax /\ d <= maxdepth

CreateThreads ==
  /\ pc_main = "loop"
  /\ MoreDepths
  /\ pc_main' = "join"
  /\ pc' = [t \in Threads |-> "scan"]
  /\ i' = [t \in Threads |-> Start(t)]
  /\ UNCHANGED <<maxdepth, table, table_mutex, d, done, distribution, m, mark, byte>>

Count(v) == Cardinality({c \in Coords : table[c] = v})

JoinedLast == pc[THREADS-1] = "exit"
Joined == \A t \in Threads : pc[t] = "exit"

JoinThreads ==
  /\ pc_main = "join"
  /\ Joined
  /\ done' = done + Count(d)
  /\ distribution' = [distribution EXCEPT ![d] = Count(d)]
  /\ d' = d + 1
  /\ pc_main' = "loop"
  /\ UNCHANGED <<maxdepth, table, table_mutex, pc, scan, mark, byte>>

Return ==
  /\ pc_main = "loop"
  /\ ~MoreDepths
  /\ pc_main' = "done"
  /\ UNCHANGED <<maxdepth, table, table_mutex, d, done, distribution, pc, scan, mark,
                 byte>>

-----------------------------------------------------------------------------
(* A thread.  Below the breakpoint it marks the neighbours of entries of   *)
(* the depth before; from there on it looks for a visited neighbour of an  *)
(* unset entry, and marks that entry.                                      *)
Forward == d < Breakpoint
Skip(c) == IF Forward THEN table[c] # d - 1 ELSE table[c] # Unset

Scan(t) ==
  /\ pc[t] = "scan"
  /\ i[t] < End(t)
  /\ IF Skip(i[t])
     THEN i' = [i EXCEPT ![t] = @ + 1] /\ UNCHANGED <<pc, m>>
     ELSE /\ pc' = [pc EXCEPT ![t] = "look"]
          /\ m' = [m EXCEPT ![t] = 1]
          /\ UNCHANGED i
  /\ UNCHANGED <<table, table_mutex, main, mark, byte>>

ScanEnd(t) ==
  /\ pc[t] = "scan"
  /\ i[t] >= End(t)
  /\ pc' = [pc EXCEPT ![t] = "exit"]
  /\ UNCHANGED <<table, table_mutex, main, scan, mark, byte>>

(* The neighbour's entry is read without the mutex.                        *)
WantedAnyVisited(c) == IF Forward THEN table[c] > d ELSE table[c] <= d
Wanted(c) == IF Forward THEN table[c] > d ELSE table[c] < d

Look(t) ==
  /\ pc[t] = "look"
  /\ m[t] <= Len(Near[i[t]])
  /\ LET j == Near[i[t]][m[t]]
     IN  IF Wanted(j)
         THEN /\ cube' = [cube EXCEPT ![t] = IF Forward THEN j ELSE i[t]]
              /\ s' = [s EXCEPT ![t] = 1]
              /\ pc' = [pc EXCEPT ![t] = "mark"]
              /\ UNCHANGED m
         ELSE m' = [m EXCEPT ![t] = @ + 1] /\ UNCHANGED <<pc, mark>>
  /\ UNCHANGED <<table, table_mutex, main, i, byte>>

LookEnd(t) ==
  /\ pc[t] = "look"
  /\ m[t] > Len(Near[i[t]])
  /\ i' = [i EXCEPT ![t] = @ + 1]
  /\ pc' = [pc EXCEPT ![t] = "scan"]
  /\ UNCHANGED <<table, table_mutex, main, m, mark, byte>>

-----------------------------------------------------------------------------
(* gendata_h48_mark_atomic at one similar coordinate: the old value is     *)
(* read first, the mutex taken after, only to write.                       *)
CoordGiven(t) == cube[t]
Coord(t) == Sims[cube[t]][s[t]]

Mark(t) ==
  /\ pc[t] = "mark"
  /\ s[t] <= Len(Sims[cube[t]])
  /\ IF d < table[Coord(t)]
     THEN pc' = [pc EXCEPT ![t] = "lock"] /\ UNCHANGED s
     ELSE s' = [s EXCEPT ![t] = @ + 1] /\ UNCHANGED pc
  /\ UNCHANGED <<table, table_mutex, main, scan, cube, byte>>

(* One visited neighbour is enough.                                        *)
MarkEnd(t) ==
  /\ pc[t] = "mark"
  /\ s[t] > Len(Sims[cube[t]])
  /\ IF Forward
     THEN /\ m' = [m EXCEPT ![t] = @ + 1]
          /\ pc' = [pc EXCEPT ![t] = "look"]
          /\ UNCHANGED i
     ELSE /\ i' = [i EXCEPT ![t] = @ + 1]
          /\ pc' = [pc EXCEPT ![t] = "scan"]
          /\ UNCHANGED m
  /\ UNCHANGED <<table, table_mutex, main, mark, byte>>

Lock(t) ==
  /\ pc[t] = "lock"
  /\ table_mutex[Mutex(Coord(t))] = Free
  /\ table_mutex' = [table_mutex EXCEPT ![Mutex(Coord(t))] = t]
  /\ pc' = [pc EXCEPT ![t] = "load"]
  /\ UNCHANGED <<table, main, scan, mark, byte>>

Load(t) ==
  /\ pc[t] = "load"
  /\ byte' = [byte EXCEPT ![t] = [c \in ByteOf(Coord(t)) |-> table[c]]]
  /\ pc' = [pc EXCEPT ![t] = "store"]
  /\ UNCHANGED <<table, table_mutex, main, scan, mark>>

ReleaseNot(t) == UNCHANGED table_mutex
Release(t) == table_mutex' = [table_mutex EXCEPT ![Mutex(Coord(t))] = Free]

Store(t) ==
  /\ pc[t] = "store"
  /\ table' = [c \in Coords |-> IF c = Coord(t) THEN d
                                ELSE IF c \in ByteOf(Coord(t)) THEN byte[t][c]
                                ELSE table[c]]
  /\ Release(t)
  /\ byte' = [byte EXCEPT ![t] = <<>>]
  /\ s' = [s EXCEPT ![t] = @ + 1]
  /\ pc' = [pc EXCEPT ![t] = "mark"]
  /\ UNCHANGED <<main, scan, cube>>

-----------------------------------------------------------------------------
Returned == pc_main = "done" /\ UNCHANGED vars

MainStep == CreateThreads \/ JoinThreads \/ Return

ThreadStep(t) ==
  \/ Scan(t) \/ ScanEnd(t) \/ Look(t) \/ LookEnd(t)
  \/ Mark(t) \/ MarkEnd(t) \/ Lock(t) \/ Load(t) \/ Store(t)

Next == MainStep \/ (\E t \in Threads : ThreadStep(t)) \/ Returned

(* Threads are scheduled; a mutex promises nothing more.                   *)
Fairness == WF_vars(MainStep) /\ \A t \in Threads : WF_vars(ThreadStep(t))

Spec == Init /\ [][Next]_vars /\ Fairness
-----------------------------------------------------------------------------
(* The table, the mutexes and the loop variables of gendata_h48h0k4 and    *)
(* its threads keep their types.                                           *)
TypeOK ==
  /\ table \in [Coords -> 0 .. Unset]
  /\ table_mutex \in [Chunks -> Threads \cup {Free}]
  /\ maxdepth \in MaxDepths
  /\ d \in 1 .. maxdepth + 1
  /\ done \in Nat
  /\ distribution \in [0 .. maxdepth -> Nat]
  /\ pc_main \in {"loop", "join", "done"}
  /\ pc \in [Threads -> {"none", "scan", "look", "mark", "lock", "load",
                         "store", "exit"}]
  /\ i \in [Threads -> 0 .. CoordMax]
  /\ m \in [Threads -> Nat \ {0}]
  /\ cube \in [Threads -> Coords]
  /\ s \in [Threads -> Nat \ {0}]
  /\ \A t \in Threads :
        byte[t] = <<>> \/ byte[t] \in [ByteOf(Coord(t)) -> 0 .. Unset]

(* An entry once set is never changed: a thread that stores a byte does    *)
(* not undo what another wrote in the other half of it meanwhile.          *)
NoLostUpdate ==
  [][\A c \in Coords : table[c] # Unset => table'[c] = table[c]]_vars

(* Two coordinates of the same cube up to symmetry have the same entry     *)
(* whenever the threads of a depth have been joined, though they may be in *)
(* the ranges of different threads.                                        *)
SimilarAgree ==
  pc_main # "join" =>
    \A b, c \in Coords : IsSimilar(b, c) => table[b] = table[c]

(* The distribution stored with the table counts its entries, which is     *)
(* what nissy_checkdata verifies later, and 'done' is their number, so the *)
(* search goes on as long as an entry is missing.                          *)
DistributionMatches ==
  pc_main # "join" =>
    /\ \A v \in 0 .. d-1 : distribution[v] = Count(v)
    /\ done = Cardinality({c \in Coords : table[c] # Unset})

(* The generator ends.                                                     *)
Termination == <>(pc_main = "done")

(* The threads together do a breadth-first search: every entry is the      *)
(* distance of its coordinate, and no entry of a depth is missing when     *)
(* the first of the next is written.                                       *)
Distances == INSTANCE DistanceTable WITH finished <- pc_main = "done"
ImplementsDistanceTable == Distances!Spec
=============================================================================
