------------------------------- MODULE GenH48k2 -------------------------------
(***************************************************************************)
(* gendata_h48k2 (solvers/h48/gendata_h48.h): the pruning table with two   *)
(* bits per entry.  The positions at distance at most shortdepth go into a *)
(* map first; then THREADS threads take them from the map one by one, mark *)
(* those nearer than shortdepth with 0 and search from the others to the   *)
(* depth where entries reach 3.  Four entries share a byte, a mutex covers *)
(* a chunk of bytes.  gendata_h48_derive makes a table of a smaller h from *)
(* the one generated.                                                      *)
(*                                                                         *)
(* The cube is abstracted to a finite set of positions; the constants give *)
(* what move, coord_h48, invcoord_h48 and the loop FOREACH_H48SIM make of  *)
(* them.  HMAX stands for 11, the largest h.                               *)
(***************************************************************************)
EXTENDS Integers, Sequences, H48Map

CONSTANTS
  THREADS, CHUNKS,
  SOLVED_CUBE,
  Turns,        \* Turns[c][m]: position reached from c by move m
  Face, Axis,   \* Face[m], Axis[m]: face of move m, axis of a face
  Key,          \* Key[c]: coord_h48 of c at HMAX
  Rep,          \* Rep[k]: the position that invcoord_h48 makes of a key
  Similar,      \* Similar[c]: the positions of FOREACH_H48SIM, in order
  KeyDist,      \* KeyDist[k]: moves from solved to the positions with key k
  HMAX, KeyMax, \* largest h, number of keys
  shortdepth,   \* depth of the short cubes
  Requests      \* pairs <<h, base>> the generator is called with

Threads == 0 .. THREADS-1
Chunks == 0 .. CHUNKS-1
Keys == 0 .. KeyMax-1
Moves == 1 .. Len(Face)
Cubes == DOMAIN Key
Free == -1
Unset == 3                      \* two bits of what memset fills with

(* Coordinates of a given h, and the entries of the positions similar to c. *)
Shift(from, to) == 2^(from - to)
Coord(k, hh) == k \div Shift(HMAX, hh)
CoordsOf(hh) == 0 .. (KeyMax \div Shift(HMAX, hh)) - 1
Sims(c) == [x \in 1 .. Len(Similar[c]) |-> Key[Similar[c][x]]]
IsSimilar(k, c) == \E x \in 1 .. Len(Sims(c)) : Sims(c)[x] = k
Alike(b, c, hh) == \E k \in Keys : IsSimilar(k, c) /\ Coord(k, hh) = Coord(Key[b], hh)

ASSUME ParametersAssumption ==
  /\ THREADS \in Nat \ {0} /\ CHUNKS \in Nat \ {0}
  /\ shortdepth \in 0 .. MAP_UNSET_VAL - 1
  /\ HMAX \in 0 .. 11 /\ KeyMax \in Nat /\ KeyMax % 2^HMAX = 0
  /\ Key \in [Cubes -> Keys] /\ Rep \in [Keys -> Cubes] /\ SOLVED_CUBE \in Cubes
  /\ \A k \in Keys : Key[Rep[k]] = k
  /\ Face \in Seq(Nat) /\ Axis \in [{Face[m] : m \in Moves} -> Nat]
  /\ \A c \in Cubes : Turns[c] \in [Moves -> Cubes] /\ Similar[c] \in Seq(Cubes)

(* The bases that gendata_h48k2 chooses from (gendata_h48.h:361) are up to *)
(* two more than shortdepth.                                               *)
ASSUME RequestsAssumption ==
  Requests \subseteq (0 .. HMAX) \X (shortdepth .. shortdepth + 2)

(* Similarity is an equivalence that respects distances; the coordinate of *)
(* h = 0 and that of the largest h are such that what a move makes of a    *)
(* position up to similarity depends on its coordinate alone.              *)
ASSUME SimilarityAssumption ==
  /\ \A c \in Cubes : IsSimilar(Key[c], c)
  /\ \A b, c \in Cubes : IsSimilar(Key[b], c) =>
       /\ KeyDist[Key[b]] = KeyDist[Key[c]]
       /\ \A k \in Keys : IsSimilar(k, b) <=> IsSimilar(k, c)
  /\ \A hh \in {0, HMAX}, b, c \in Cubes : Alike(b, c, hh) =>
       /\ \A e \in Cubes : Alike(e, b, hh) <=> Alike(e, c, hh)
       /\ \A m \in Moves : \E n \in Moves : Alike(Turns[b][m], Turns[c][n], hh)

(* Moves can be undone, change the distance by at most one, and some move  *)
(* brings a position nearer to solved.                                     *)
ASSUME DistanceAssumption ==
  /\ KeyDist \in [Keys -> Nat]
  /\ \A k \in Keys : KeyDist[k] = 0 <=> k = Key[SOLVED_CUBE]
  /\ \A c \in Cubes, m \in Moves :
       /\ KeyDist[Key[Turns[c][m]]] <= KeyDist[Key[c]] + 1
       /\ \E n \in Moves : Turns[Turns[c][m]][n] = c
  /\ \A c \in Cubes : KeyDist[Key[c]] > 0 =>
       \E m \in Moves : KeyDist[Key[Turns[c][m]]] < KeyDist[Key[c]]

(* Two moves of one face are one or none, moves of opposite faces commute, *)
(* and an axis has at most two faces.                                      *)
Parallel(m, n) == Axis[Face[m]] = Axis[Face[n]]
ASSUME MovesAssumption ==
  /\ \A c \in Cubes, m, n \in Moves :
       /\ Face[m] = Face[n] =>
            \E k \in Moves : Turns[Turns[c][m]][n] \in {c, Turns[c][k]}
       /\ Parallel(m, n) => Turns[Turns[c][m]][n] = Turns[Turns[c][n]][m]
  /\ \A m, n, k \in Moves :
       Parallel(m, n) /\ Parallel(n, k) => Face[m] = Face[n] \/ Face[n] = Face[k] \/ Face[m] = Face[k]

VARIABLES
  h, base,      \* arg->h, arg->base
  map, i, j,    \* the short cubes, and the loop variables of gendata_h48short
  near,         \* for each move left, the keys that gendata_h48short inserts
  table,        \* the entries of the table
  table_mutex,  \* table_mutex[k]: the holder of chunk k's mutex, or Free
  next,         \* inext, the slot of the map to look at next
  distribution, \* arg->info.distribution
  derived,      \* the table made by gendata_h48_derive, with its h
  pc_main,      \* where the main thread is
  pc,           \* pc[t]: where thread t is
  todo,         \* todo[t]: the nodes that the search has still to visit, in order
  coords,       \* coords[t]: entries that remain to be marked
  newval,       \* newval[t]: the value to mark them with
  byte          \* byte[t]: the entries of the byte loaded

short == <<map, i, j, near>>
search == <<todo, coords, newval>>
out == <<distribution, derived>>
vars == <<h, base, short, table, table_mutex, next, out, pc_main, pc, search, byte>>

-----------------------------------------------------------------------------
(* The entries of the table, their bytes and the mutexes of these.         *)
Coords == CoordsOf(h)
H48_INDEXEntry(c) == c
H48_INDEX(c) == c \div 4
ByteOf(c) == {b \in Coords : b \div 4 = c \div 4}
Mutex(c) == H48_INDEX(c) % CHUNKS

Init ==
  /\ \E q \in Requests : h = q[1] /\ base = q[2]
  /\ map = h48map_insertmin(h48map_create, Key[SOLVED_CUBE], 0)
  /\ i = 0
  /\ j = 0
  /\ near = <<>>
  /\ table = [c \in Coords |-> Unset]
  /\ table_mutex = [k \in Chunks |-> Free]
  /\ next = 0
  /\ distribution = [v \in 0 .. Unset |-> 0]
  /\ derived = [h |-> h, table |-> <<>>]
  /\ pc_main = "short"
  /\ pc = [t \in Threads |-> "none"]
  /\ todo = [t \in Threads |-> <<>>]
  /\ coords = [t \in Threads |-> <<>>]
  /\ newval = [t \in Threads |-> 0]
  /\ byte = [t \in Threads |-> <<>>]

-----------------------------------------------------------------------------
(* gendata_h48short: a breadth-first search that goes over the slots once  *)
(* for every depth.  The index that h48map_nextkvpair leaves is compared   *)
(* with the capacity before the pair is used.                              *)
Neighbours(c) == [m \in Moves |-> Sims(Turns[c][m])]

ShortPair ==
  /\ pc_main = "short"
  /\ i < shortdepth
  /\ near = <<>>
  /\ LET r == h48map_nextkvpair(map, j)
     IN  IF r.p = capacity
         THEN i' = i + 1 /\ j' = 0 /\ UNCHANGED near
         ELSE /\ j' = r.p
              /\ near' = IF r.kv.val = i THEN Neighbours(Rep[r.kv.key]) ELSE <<>>
              /\ UNCHANGED i
  /\ UNCHANGED <<h, base, map, table, table_mutex, next, out, pc_main, pc, search, byte>>

(* A lookup for which there is neither the key nor a free slot never ends. *)
ShortInsert ==
  /\ pc_main = "short"
  /\ near # <<>>
  /\ \E keys \in {Head(near)} :
       /\ Ends(map, Head(keys))
       /\ map' = h48map_insertmin(map, Head(keys), i + 1)
       /\ near' = IF Len(keys) = 1 THEN Tail(near) ELSE <<Tail(keys)>> \o Tail(near)
  /\ UNCHANGED <<h, base, i, j, table, table_mutex, next, out, pc_main, pc, search, byte>>

CreateThreads ==
  /\ pc_main = "short"
  /\ i = shortdepth
  /\ pc_main' = "join"
  /\ pc' = [t \in Threads |-> "next"]
  /\ UNCHANGED <<h, base, short, table, table_mutex, next, out, search, byte>>

-----------------------------------------------------------------------------
Node(c, path) == [cube |-> c, path |-> path]

(* gendata_h48k2_runthread: the next short cube, taken under the mutex of  *)
(* the map.  A short cube below shortdepth is marked alone, the others are *)
(* the roots of a search.                                                  *)
NextShortCube(t) ==
  /\ pc[t] = "next"
  /\ todo[t] = <<>>
  /\ LET r == h48map_nextkvpair(map, next)
     IN  /\ next' = r.p
         /\ IF r.p = capacity
            THEN pc' = [pc EXCEPT ![t] = "exit"] /\ UNCHANGED search
            ELSE IF r.kv.val < shortdepth
            THEN /\ coords' = [coords EXCEPT ![t] = <<Coord(r.kv.key, h)>>]
                 /\ newval' = [newval EXCEPT ![t] = 0]
                 /\ pc' = [pc EXCEPT ![t] = "mark"]
                 /\ UNCHANGED todo
            ELSE /\ todo' = [todo EXCEPT ![t] = <<Node(Rep[r.kv.key], <<>>)>>]
                 /\ UNCHANGED <<pc, coords, newval>>
  /\ UNCHANGED <<h, base, short, table, table_mutex, out, pc_main, byte>>

(* gendata_h48k2_dfs: the nested loops, as a list of the nodes to visit.   *)
(* Depth d + l is visited by paths of l moves; the first is not pruned,    *)
(* nor is the last level of the deepest search.                            *)
d == shortdepth - base
LastLevel == IF d >= 0 THEN 2 ELSE IF d >= -1 THEN 3 ELSE 4

allowednextmove(m1, m2) ==
  /\ Face[m1] # Face[m2]
  /\ Axis[Face[m1]] = Axis[Face[m2]] => m1 < m2
Allowed(path) ==
  LET n == Len(path)
  IN  CASE n < 2 -> TRUE
        [] n = 2 -> Face[path[1]] # Face[path[2]]
        [] n > 2 -> allowednextmove(path[n-1], path[n])
Children(node) ==
  IF Len(node.path) = LastLevel THEN <<>>
  ELSE [m \in Moves |-> Node(Turns[node.cube][m], Append(node.path, m))]

(* gendata_h48k2_dfs_stop, which for h = 0 and h = HMAX reads an entry     *)
(* under its mutex, and otherwise looks into the map.                      *)
MayRead(c) ==
  IF h \in {0, HMAX} THEN table_mutex[Mutex(Coord(Key[c], h))] = Free
  ELSE Ends(map, Key[c])
DfsStop(c, depth) ==
  IF h \in {0, HMAX} THEN table[Coord(Key[c], h)] <= depth
  ELSE \E k \in {Key[c]} : h48map_value(map, k) <= shortdepth

NewValueSigned(depth) == depth
NewValue(depth) == IF depth > 0 THEN depth ELSE 0

Visit(t) ==
  /\ pc[t] = "next"
  /\ todo[t] # <<>>
  /\ \E node \in {Head(todo[t])} :
       LET depth == d + Len(node.path)
           tests == Allowed(node.path) /\ Len(node.path) \in 1 .. 3
           sims == Sims(node.cube)
       IN
         /\ tests => MayRead(node.cube)
         /\ IF ~Allowed(node.path) \/ (tests /\ DfsStop(node.cube, depth))
            THEN /\ todo' = [todo EXCEPT ![t] = Tail(@)]
                 /\ UNCHANGED <<pc, coords, newval>>
            ELSE /\ todo' = [todo EXCEPT ![t] = Children(node) \o Tail(@)]
                 /\ coords' = [coords EXCEPT
                      ![t] = [x \in 1 .. Len(sims) |-> Coord(sims[x], h)]]
                 /\ newval' = [newval EXCEPT ![t] = NewValue(depth)]
                 /\ pc' = [pc EXCEPT ![t] = "mark"]
  /\ UNCHANGED <<h, base, short, table, table_mutex, next, out, pc_main, byte>>

(* gendata_h48_mark at one entry, and the marking of a short cube: the     *)
(* mutex is taken and the byte loaded, then stored and the mutex released. *)
Load(t) ==
  /\ pc[t] = "mark"
  /\ LET c == Head(coords[t])
     IN  /\ table_mutex[Mutex(c)] = Free
         /\ table_mutex' = [table_mutex EXCEPT ![Mutex(c)] = t]
         /\ byte' = [byte EXCEPT ![t] = [b \in ByteOf(c) |-> table[b]]]
  /\ pc' = [pc EXCEPT ![t] = "store"]
  /\ UNCHANGED <<h, base, short, table, next, out, pc_main, search>>

ReleaseNot(c) == UNCHANGED table_mutex
Release(c) == table_mutex' = [table_mutex EXCEPT ![Mutex(c)] = Free]

Store(t) ==
  /\ pc[t] = "store"
  /\ LET c == Head(coords[t])
     IN  /\ table' = [b \in Coords |->
                        IF b = c THEN Min({newval[t], byte[t][c]})
                        ELSE IF b \in ByteOf(c) THEN byte[t][b]
                        ELSE table[b]]
         /\ Release(c)
  /\ byte' = [byte EXCEPT ![t] = <<>>]
  /\ coords' = [coords EXCEPT ![t] = Tail(@)]
  /\ pc' = [pc EXCEPT ![t] = IF Len(coords[t]) = 1 THEN "next" ELSE "mark"]
  /\ UNCHANGED <<h, base, short, next, out, pc_main, todo, newval>>

-----------------------------------------------------------------------------
(* The threads are joined and the entries of each value counted.           *)
Joined == \A t \in Threads : pc[t] = "exit"

JoinThreads ==
  /\ pc_main = "join"
  /\ Joined
  /\ distribution' =
       [v \in 0 .. Unset |-> Cardinality({c \in Coords : table[c] = v})]
  /\ pc_main' = "done"
  /\ UNCHANGED <<h, base, short, table, table_mutex, next, derived, pc, search, byte>>

(* gendata_h48_derive: every entry of the full table lowers the entry that *)
(* its coordinate has in the table of a smaller h.                         *)
DeriveIndexFull(c, hh) == c \div Shift(HMAX, hh)
DeriveIndex(c, hh) == c \div Shift(h, hh)

Derive(hh) ==
  /\ pc_main = "done"
  /\ derived' =
       [h |-> hh,
        table |-> [b \in CoordsOf(hh) |->
          Min({Unset} \cup {table[c] : c \in {x \in Coords : DeriveIndex(x, hh) = b}})]]
  /\ pc_main' = "derived"
  /\ UNCHANGED <<h, base, short, table, table_mutex, next, distribution, pc, search, byte>>

-----------------------------------------------------------------------------
Returned == pc_main = "derived" /\ UNCHANGED vars

MainStep ==
  ShortPair \/ ShortInsert \/ CreateThreads \/ JoinThreads \/ \E hh \in 0 .. h : Derive(hh)

ThreadStep(t) == NextShortCube(t) \/ Visit(t) \/ Load(t) \/ Store(t)

Next == MainStep \/ (\E t \in Threads : ThreadStep(t)) \/ Returned

(* Threads are scheduled; a mutex promises nothing more.                   *)
Fairness == WF_vars(MainStep) /\ \A t \in Threads : WF_vars(ThreadStep(t))

Spec == Init /\ [][Next]_vars /\ Fairness
-----------------------------------------------------------------------------
(* The variables keep their types; in particular no negative depth gets    *)
(* into an entry of two bits.                                              *)
TypeOK ==
  /\ <<h, base>> \in Requests
  /\ map.n = Cardinality({s \in Slots : map.table[s] # MAP_UNSET})
  /\ table \in [Coords -> 0 .. Unset]
  /\ table_mutex \in [Chunks -> Threads \cup {Free}]
  /\ next \in 0 .. capacity
  /\ \A t \in Threads :
       /\ pc[t] \in {"none", "next", "mark", "store", "exit"}
       /\ newval[t] \in 0 .. Unset
       /\ \A x \in 1 .. Len(coords[t]) : coords[t][x] \in Coords
       /\ \A x \in 1 .. Len(todo[t]) : Len(todo[t][x].path) <= 4

(* The value of an entry: what its least distance is above base.           *)
Bound ==
  [hh \in 0 .. HMAX |-> [b \in {q[2] : q \in Requests} |->
     [c \in CoordsOf(hh) |->
        LET dist == Min({KeyDist[k] : k \in {x \in Keys : Coord(x, hh) = c}})
        IN  Min({Unset, IF dist > b THEN dist - b ELSE 0})]]]

(* When the map is complete it has the positions within shortdepth of      *)
(* solved, each with its distance, and every lookup finds what it should.  *)
ShortMapExact ==
  pc_main # "short" =>
    \A k \in Keys :
      h48map_value(map, k) = IF KeyDist[k] <= shortdepth THEN KeyDist[k] ELSE MAP_UNSET_VAL

(* The entries are never too low, a mark never undoes one by another       *)
(* thread, branches cut because of another thread's marks lose nothing,    *)
(* and at the end every entry is what its distance says.                   *)
Bounds == INSTANCE LowerBoundTable WITH
  value <- Bound[h][base], MaxValue <- Unset, finished <- pc_main \in {"done", "derived"}
ImplementsLowerBoundTable == Bounds!Spec

(* What is stored is a lower bound (doc/h48.md:47), the value 0 standing   *)
(* for no information.                                                     *)
LowerBound ==
  pc_main = "done" => \A c \in Coords : table[c] <= Bound[h][base][c]

(* A derived table is the one that would have been generated for its h.    *)
DerivedAsGenerated == pc_main = "derived" => derived.table = Bound[derived.h][base]

(* The generator ends: the map never fills, no mutex is left locked.       *)
Termination == <>(pc_main = "derived")
================================================================================
