--------------------------- MODULE GenH48h0k4Proof ---------------------------
(***************************************************************************)
(* Proofs about GenH48h0k4, for any number of threads and of mutexes, any  *)
(* table and any depth: no mark is lost, the table holds the distance of   *)
(* every coordinate within the depth searched, the distribution counts it, *)
(* and the generator implements the breadth-first search of DistanceTable. *)
(***************************************************************************)
EXTENDS GenH48h0k4, FiniteSetTheorems, TLAPS

Marking == {"mark", "lock", "load", "store"}
Locking == {"lock", "load", "store"}
Holding == {"load", "store"}

(* Threads run only between their creation and the join, at a depth that   *)
(* some coordinate has.                                                    *)
Running ==
  /\ pc_main # "join" => \A t \in Threads : pc[t] \in {"none", "exit"}
  /\ d <= Unset
  /\ pc_main = "join" => d < Unset /\ d <= maxdepth

(* The table has every distance below d, and at the earliest while the     *)
(* threads run some of those that are d.                                   *)
Exact ==
  \A c \in Coords :
    /\ Dist[c] < d => table[c] = Dist[c]
    /\ table[c] # Unset => table[c] = Dist[c] /\ Dist[c] <= d
    /\ table[c] # Unset /\ pc_main # "join" => Dist[c] < d

(* Between Load and Store a thread holds the mutex of its byte, and the    *)
(* byte in hand is the one of the table.                                   *)
ByteInHand(t) ==
  /\ pc[t] \in Holding => table_mutex[Mutex(Coord(t))] = t
  /\ byte[t] = IF pc[t] = "store" THEN [c \in ByteOf(Coord(t)) |-> table[c]] ELSE <<>>

OneByteEach == byte = [t \in Threads |-> byte[t]]

(* The coordinate a thread looks at, and the neighbours already looked at. *)
Passed(b) == IF Forward THEN Dist[b] = d => table[b] # Unset ELSE Dist[b] >= d
LookingAt(t) ==
  pc[t] \in {"look"} \cup Marking =>
    /\ i[t] < End(t)
    /\ IF Forward THEN Dist[i[t]] = d - 1 ELSE Dist[i[t]] >= d
    /\ \A k \in 1 .. Len(Near[i[t]]) : k < m[t] => Passed(Near[i[t]][k])

(* The coordinate whose similar ones a thread marks has distance d, and    *)
(* the similar ones it has gone past are set.                              *)
MarkingAt(t) ==
  pc[t] \in Marking =>
    /\ m[t] <= Len(Near[i[t]])
    /\ cube[t] = IF Forward THEN Near[i[t]][m[t]] ELSE i[t]
    /\ Dist[cube[t]] = d
    /\ pc[t] \in Locking => s[t] <= Len(Sims[cube[t]])
    /\ \A k \in 1 .. Len(Sims[cube[t]]) : k < s[t] => table[Sims[cube[t]][k]] # Unset

(* What a thread has scanned needs no further look at this depth.          *)
Finished(c) ==
  IF Forward THEN Dist[c] = d - 1 => \A b \in Coords : IsNear(b, c) => Passed(b)
  ELSE Dist[c] = d => table[c] # Unset
ScannedBy(t) ==
  pc_main = "join" =>
    /\ \A c \in Coords : Start(t) <= c /\ c < i[t] => Finished(c)
    /\ pc[t] = "exit" => i[t] >= End(t)

(* If of two similar coordinates one is set and one is not, a thread is on *)
(* its way to the other: a thread that finds the first one set may skip it.*)
OnItsWay(b) ==
  \E t \in Threads :
    /\ pc[t] \in Marking
    /\ \E k \in 1 .. Len(Sims[cube[t]]) : k >= s[t] /\ Sims[cube[t]][k] = b
Attended ==
  \A b, c \in Coords :
    IsSimilar(b, c) /\ table[c] # Unset /\ table[b] = Unset => OnItsWay(b)

(* The counts made so far are those of the distances below d.              *)
AtDist(v) == {c \in Coords : Dist[c] = v}
Below(v) == {c \in Coords : Dist[c] < v}
Counts ==
  /\ \A v \in 0 .. d-1 : distribution[v] = Cardinality(AtDist(v))
  /\ done = Cardinality(Below(d))

IInv ==
  /\ TypeOK /\ Running /\ Exact /\ Attended /\ Counts /\ OneByteEach
  /\ \A t \in Threads : ByteInHand(t) /\ LookingAt(t) /\ MarkingAt(t) /\ ScannedBy(t)

-----------------------------------------------------------------------------
(* The ranges of the threads cover the table: isize is rounded down, and   *)
(* the last thread takes what that leaves.                                 *)
LEMMA RoundedDown ==
  ASSUME NEW n \in Nat \ {0}, NEW x \in Nat
  PROVE  /\ x \div n \in Nat
         /\ n * (x \div n) <= x
         /\ x < n * (x \div n) + n
  OBVIOUS

(* A product grows with its second factor.                                 *)
LEMMA ProductMonotone ==
  ASSUME NEW a \in Nat, NEW b \in Nat, NEW c \in Nat, a <= b
  PROVE  c * a \in Nat /\ c * b \in Nat /\ c * a <= c * b
  OBVIOUS

(* THREADS ranges of isize coordinates fit below CoordMax; the last thread *)
(* takes what is left.                                                     *)
LEMMA RangeSize == isize \in Nat /\ isize * THREADS <= CoordMax
<1> DEFINE q == CoordMax \div THREADS
<1>1. q \in Nat /\ THREADS * q <= CoordMax
  BY RoundedDown, ParametersAssumption
<1>2. isize \in Nat /\ isize <= q
  BY <1>1 DEF isize
<1>3. THREADS * isize <= THREADS * q
  BY <1>1, <1>2, ProductMonotone, ParametersAssumption
<1> QED BY <1>1, <1>2, <1>3, ParametersAssumption

(* Both ends of a range are in the table.                                  *)
LEMMA Ranges ==
  ASSUME NEW t \in Threads
  PROVE  Start(t) \in 0 .. CoordMax /\ End(t) \in 0 .. CoordMax
<1>1. t \in Nat /\ t + 1 \in Nat /\ t <= THREADS /\ t + 1 <= THREADS /\ THREADS \in Nat
  BY ParametersAssumption DEF Threads
<1>2. isize \in Nat /\ isize * THREADS <= CoordMax /\ CoordMax \in Nat
  BY RangeSize, ParametersAssumption
<1>3. isize * t \in Nat /\ isize * t <= isize * THREADS
  BY <1>1, <1>2, ProductMonotone
<1>4. isize * (t + 1) \in Nat /\ isize * (t + 1) <= isize * THREADS
  BY <1>1, <1>2, ProductMonotone
<1>5. isize * THREADS \in Nat
  BY <1>1, <1>2, ProductMonotone
<1>6. isize * t \in 0 .. CoordMax
  BY <1>2, <1>3, <1>5
<1>7. isize * (t + 1) \in 0 .. CoordMax
  BY <1>2, <1>4, <1>5
<1> QED BY <1>2, <1>6, <1>7 DEF Start, End

(* Every coordinate is in the range of some thread.                        *)
LEMMA RangesCover ==
  ASSUME NEW c \in Coords
  PROVE  \E t \in Threads : Start(t) <= c /\ c < End(t)
<1> DEFINE q == c \div isize
<1>1. c \in Nat /\ c < CoordMax /\ THREADS \in Nat \ {0} /\ isize \in Nat /\ CoordMax \in Nat
  BY RangeSize, ParametersAssumption DEF Coords
<1>2. CASE isize * (THREADS - 1) <= c
  <2>1. THREADS - 1 \in Threads
    BY <1>1 DEF Threads
  <2> QED BY <1>1, <1>2, <2>1 DEF Start, End
<1>3. CASE c < isize * (THREADS - 1)
  <2>1. isize \in Nat \ {0}
    BY <1>1, <1>3
  <2>2. q \in Nat /\ isize * q <= c /\ c < isize * q + isize
    BY <1>1, <2>1, RoundedDown
  <2>3. q < THREADS - 1
    <3>1. SUFFICES ASSUME THREADS - 1 <= q PROVE FALSE
      BY <1>1, <2>2
    <3>2. isize * (THREADS - 1) <= isize * q
      BY <1>1, <2>2, <3>1, ProductMonotone
    <3> QED BY <1>1, <1>3, <2>2, <3>2
  <2>4. q \in Threads /\ q # THREADS - 1
    BY <1>1, <2>2, <2>3 DEF Threads
  <2>5. isize * (q + 1) = isize * q + isize
    BY <1>1, <2>2
  <2> QED BY <2>2, <2>4, <2>5 DEF Start, End
<1>4. isize * (THREADS - 1) \in Nat
  BY <1>1, ProductMonotone
<1> QED BY <1>1, <1>2, <1>3, <1>4

-----------------------------------------------------------------------------
(* What the loops of a thread have in hand.                                *)
LEMMA Lists ==
  ASSUME NEW c \in Coords
  PROVE  /\ Near[c] \in Seq(Coords) /\ Len(Near[c]) \in Nat
         /\ \A k \in 1 .. Len(Near[c]) : Near[c][k] \in Coords /\ IsNear(Near[c][k], c)
         /\ Sims[c] \in Seq(Coords) /\ Len(Sims[c]) \in Nat
         /\ \A k \in 1 .. Len(Sims[c]) :
              /\ Sims[c][k] \in Coords
              /\ IsSimilar(Sims[c][k], c)
              /\ Dist[Sims[c][k]] = Dist[c]
<1>1. Near[c] \in Seq(Coords) /\ Sims[c] \in Seq(Coords)
  BY SimilarityAssumption, DistanceAssumption
<1>2. /\ Len(Near[c]) \in Nat /\ Len(Sims[c]) \in Nat
      /\ \A k \in 1 .. Len(Near[c]) : Near[c][k] \in Coords
      /\ \A k \in 1 .. Len(Sims[c]) : Sims[c][k] \in Coords
  BY <1>1
<1>3. ASSUME NEW k \in 1 .. Len(Near[c]) PROVE IsNear(Near[c][k], c)
  BY DEF IsNear
<1>4. ASSUME NEW k \in 1 .. Len(Sims[c]) PROVE IsSimilar(Sims[c][k], c)
  BY DEF IsSimilar
<1>5. ASSUME NEW k \in 1 .. Len(Sims[c]) PROVE Dist[Sims[c][k]] = Dist[c]
  BY <1>2, <1>4, SimilarityAssumption
<1> QED BY <1>1, <1>2, <1>3, <1>4, <1>5

(* No distance is the mark of an unset entry.                              *)
LEMMA DistType == \A c \in Coords : Dist[c] \in Nat /\ Dist[c] < Unset
<1>1. Dist \in [Coords -> 0 .. Unset-1] /\ Unset \in Nat
  BY DistanceAssumption DEF Unset
<1> QED BY <1>1

(* What a thread has in hand while it looks at neighbours or marks:        *)
(* coordinates in the table, and at the entry to write one at the distance *)
(* of this depth.                                                          *)
LEMMA InHand ==
  ASSUME IInv, NEW t \in Threads, pc[t] \in {"look"} \cup Marking
  PROVE  /\ i[t] \in Coords /\ m[t] \in Nat \ {0} /\ s[t] \in Nat \ {0}
         /\ cube[t] \in Coords
         /\ pc[t] \in Locking => /\ Coord(t) \in Coords
                                 /\ s[t] \in 1 .. Len(Sims[cube[t]])
                                 /\ IsSimilar(Coord(t), cube[t])
                                 /\ Dist[Coord(t)] = d
<1>1. i[t] \in 0 .. CoordMax /\ i[t] < End(t) /\ End(t) \in 0 .. CoordMax /\ CoordMax \in Nat
  BY Ranges, ParametersAssumption DEF IInv, TypeOK, LookingAt
<1>2. i[t] \in Coords
  BY <1>1 DEF Coords
<1>3. m[t] \in Nat \ {0} /\ s[t] \in Nat \ {0} /\ cube[t] \in Coords
  BY DEF IInv, TypeOK
<1>4. ASSUME pc[t] \in Locking
      PROVE  /\ Coord(t) \in Coords
             /\ s[t] \in 1 .. Len(Sims[cube[t]])
             /\ IsSimilar(Coord(t), cube[t])
             /\ Dist[Coord(t)] = d
  <2>1. s[t] <= Len(Sims[cube[t]]) /\ Dist[cube[t]] = d
    BY <1>4 DEF IInv, MarkingAt, Locking, Marking
  <2>2. s[t] \in 1 .. Len(Sims[cube[t]])
    BY <1>3, <2>1, Lists
  <2> QED BY <1>3, <2>1, <2>2, Lists DEF Coord
<1> QED BY <1>2, <1>3, <1>4

-----------------------------------------------------------------------------
(* The parts of the invariant that speak of one thread, when the step is   *)
(* that of another or leaves them alone: entries are only ever added.      *)
EntriesStay == \A c \in Coords : table[c] # Unset => table'[c] # Unset

(* A thread that looked at neighbours goes on being right if it does not   *)
(* move and entries stay.                                                  *)
LEMMA KeepsLooking ==
  ASSUME IInv, NEW t \in Threads, d' = d, EntriesStay,
         i'[t] = i[t], m'[t] = m[t],
         pc'[t] \in {"look"} \cup Marking => pc[t] \in {"look"} \cup Marking
  PROVE  LookingAt(t)'
<1> SUFFICES ASSUME pc'[t] \in {"look"} \cup Marking
             PROVE  /\ i[t] < End(t)
                    /\ IF Forward THEN Dist[i[t]] = d - 1 ELSE Dist[i[t]] >= d
                    /\ \A k \in 1 .. Len(Near[i[t]]) : k < m[t] => Passed(Near[i[t]][k])'
  BY DEF LookingAt, Forward, End, isize
<1>1. i[t] \in Coords /\ LookingAt(t)
  BY InHand DEF IInv
<1>2. ASSUME NEW b \in Coords, Passed(b) PROVE Passed(b)'
  BY <1>2 DEF Passed, EntriesStay, Forward
<1> QED BY <1>1, <1>2, Lists DEF LookingAt

(* The same of a thread that marks the coordinates similar to one.         *)
LEMMA KeepsMarking ==
  ASSUME IInv, NEW t \in Threads, d' = d, EntriesStay,
         i'[t] = i[t], m'[t] = m[t], cube'[t] = cube[t], s'[t] = s[t],
         pc'[t] \in Marking => pc[t] \in Marking,
         pc'[t] \in Locking => s[t] <= Len(Sims[cube[t]])
  PROVE  MarkingAt(t)'
<1> SUFFICES ASSUME pc'[t] \in Marking PROVE MarkingAt(t)'
  BY DEF MarkingAt
<1>1. MarkingAt(t) /\ cube[t] \in Coords
  BY InHand DEF IInv
<1>2. \A k \in 1 .. Len(Sims[cube[t]]) : k < s[t] => table'[Sims[cube[t]][k]] # Unset
  BY <1>1, Lists DEF MarkingAt, EntriesStay
<1> QED BY <1>1, <1>2 DEF MarkingAt, Forward

(* The same of the part of its range a thread has done with.               *)
LEMMA KeepsScanned ==
  ASSUME IInv, NEW t \in Threads, d' = d, pc_main' = pc_main, EntriesStay,
         i'[t] = i[t], pc'[t] = "exit" => pc[t] = "exit"
  PROVE  ScannedBy(t)'
<1> SUFFICES ASSUME pc_main = "join" PROVE ScannedBy(t)'
  BY DEF ScannedBy
<1>1. ASSUME NEW b \in Coords, Passed(b) PROVE Passed(b)'
  BY <1>1 DEF Passed, EntriesStay, Forward
<1>2. ASSUME NEW c \in Coords, Finished(c) PROVE Finished(c)'
  BY <1>1, <1>2 DEF Finished, EntriesStay, Forward
<1>3. \A c \in Coords : Start(t) <= c /\ c < i[t] => Finished(c)'
  BY <1>2 DEF IInv, ScannedBy
<1>4. pc'[t] = "exit" => i[t] >= End(t)
  BY DEF IInv, ScannedBy
<1> QED BY <1>3, <1>4 DEF ScannedBy, Start, End, isize

(* A thread's copy of a byte stays the byte if the thread does not move,   *)
(* keeps the mutex and nobody writes there.                                *)
LEMMA KeepsByte ==
  ASSUME IInv, NEW t \in Threads,
         pc'[t] \in Holding \/ pc[t] \in Holding => pc'[t] = pc[t],
         byte'[t] = byte[t], cube'[t] = cube[t], s'[t] = s[t],
         pc[t] \in Holding => table_mutex'[Mutex(Coord(t))] = table_mutex[Mutex(Coord(t))],
         pc[t] = "store" => \A c \in ByteOf(Coord(t)) : table'[c] = table[c]
  PROVE  ByteInHand(t)'
<1>1. Coord(t)' = Coord(t)
  BY DEF Coord
<1>2. ByteInHand(t)
  BY DEF IInv
<1>3. pc'[t] \in Holding => table_mutex'[Mutex(Coord(t))] = t
  BY <1>2 DEF ByteInHand
<1>4. CASE pc'[t] = "store"
  BY <1>1, <1>2, <1>3, <1>4 DEF ByteInHand, Holding, Mutex, H48_INDEX, ByteOf
<1>5. CASE pc'[t] # "store"
  BY <1>1, <1>2, <1>3, <1>5 DEF ByteInHand, Holding, Mutex, H48_INDEX
<1> QED BY <1>4, <1>5

-----------------------------------------------------------------------------
(* A store writes one entry: the other one of the byte has not changed     *)
(* since it was loaded, as its mutex is held.                              *)
LEMMA StoreIsUpdate ==
  ASSUME IInv, NEW t \in Threads, Store(t)
  PROVE  /\ Coord(t) \in Coords
         /\ table' = [table EXCEPT ![Coord(t)] = d]
         /\ table[Coord(t)] \in {d, Unset}
<1>1. pc[t] = "store"
  BY DEF Store
<1>2. Coord(t) \in Coords /\ Dist[Coord(t)] = d
  BY <1>1, InHand DEF Marking, Locking
<1>3. byte[t] = [c \in ByteOf(Coord(t)) |-> table[c]]
  BY <1>1 DEF IInv, ByteInHand
<1>4. table \in [Coords -> 0 .. Unset]
  BY DEF IInv, TypeOK
<1>5. table' = [c \in Coords |-> IF c = Coord(t) THEN d ELSE table[c]]
  BY <1>3 DEF Store
<1>6. table[Coord(t)] \in {d, Unset}
  BY <1>2 DEF IInv, Exact
<1> QED BY <1>2, <1>4, <1>5, <1>6

(* A step of a thread sets entries and unsets none; only Store writes.     *)
LEMMA EntriesOnlyAdded ==
  ASSUME IInv, NEW t \in Threads, ThreadStep(t)
  PROVE  /\ EntriesStay
         /\ ~Store(t) => table' = table
<1>1. CASE Store(t)
  <2>1. table \in [Coords -> 0 .. Unset]
    BY DEF IInv, TypeOK
  <2>2. Dist[Coord(t)] = d /\ Coord(t) \in Coords
    BY <1>1, InHand DEF Store, Marking, Locking
  <2>3. d # Unset
    BY <2>2, DistType
  <2> QED BY <1>1, <2>1, <2>2, <2>3, StoreIsUpdate DEF EntriesStay
<1>2. CASE ~Store(t)
  <2>1. table' = table
    BY <1>2 DEF ThreadStep, Scan, ScanEnd, Look, LookEnd, Mark, MarkEnd, Lock, Load
  <2> QED BY <2>1 DEF EntriesStay
<1> QED BY <1>1, <1>2

(* A step of one thread leaves the variables of the others alone, and with *)
(* them the mutex one holds and the byte it has loaded.                    *)
LEMMA Frame ==
  ASSUME IInv, NEW t \in Threads, ThreadStep(t)
  PROVE  /\ pc_main = "join" /\ UNCHANGED main
         /\ pc[t] \notin {"none", "exit"}
         /\ OneByteEach'
         /\ \A u \in Threads : u # t =>
              /\ pc'[u] = pc[u] /\ i'[u] = i[u] /\ m'[u] = m[u]
              /\ cube'[u] = cube[u] /\ s'[u] = s[u] /\ byte'[u] = byte[u]
<1>1. TypeOK /\ OneByteEach
  BY DEF IInv
<1>2. pc[t] \notin {"none", "exit"} /\ UNCHANGED main
  BY DEF ThreadStep, Scan, ScanEnd, Look, LookEnd, Mark, MarkEnd, Lock, Load, Store
<1>3. pc_main = "join"
  BY <1>2 DEF IInv, Running
<1>4. ASSUME NEW u \in Threads, u # t
      PROVE  pc'[u] = pc[u] /\ i'[u] = i[u] /\ m'[u] = m[u]
  BY <1>1, <1>4 DEF TypeOK, ThreadStep, Scan, ScanEnd, Look, LookEnd, Mark, MarkEnd,
                    Lock, Load, Store, scan, mark
<1>5. ASSUME NEW u \in Threads, u # t
      PROVE  cube'[u] = cube[u] /\ s'[u] = s[u]
  BY <1>1, <1>5 DEF TypeOK, ThreadStep, Scan, ScanEnd, Look, LookEnd, Mark, MarkEnd,
                    Lock, Load, Store, scan, mark
<1>6. ASSUME NEW u \in Threads, u # t
      PROVE  byte'[u] = byte[u]
  BY <1>1, <1>6 DEF OneByteEach, ThreadStep, Scan, ScanEnd, Look, LookEnd, Mark, MarkEnd,
                    Lock, Load, Store
<1>7. OneByteEach'
  BY <1>1 DEF OneByteEach, ThreadStep, Scan, ScanEnd, Look, LookEnd, Mark, MarkEnd, Lock,
              Load, Store
<1> QED BY <1>2, <1>3, <1>4, <1>5, <1>6, <1>7

(* Every coordinate has a mutex.                                           *)
LEMMA MutexType == \A c \in Coords : Mutex(c) \in Chunks
<1> SUFFICES ASSUME NEW c \in Coords PROVE Mutex(c) \in Chunks
  OBVIOUS
<1>1. c \div 2 \in Nat
  BY DEF Coords
<1> QED BY <1>1, ParametersAssumption DEF Mutex, H48_INDEX, Chunks

(* A step of one thread disturbs nothing that is said of another.          *)
LEMMA Others ==
  ASSUME IInv, NEW t \in Threads, ThreadStep(t), NEW u \in Threads, u # t
  PROVE  ByteInHand(u)' /\ LookingAt(u)' /\ MarkingAt(u)' /\ ScannedBy(u)'
<1>1. /\ EntriesStay
      /\ d' = d /\ pc_main' = pc_main
      /\ pc'[u] = pc[u] /\ i'[u] = i[u] /\ m'[u] = m[u]
      /\ cube'[u] = cube[u] /\ s'[u] = s[u] /\ byte'[u] = byte[u]
  BY EntriesOnlyAdded, Frame DEF main
<1>2. LookingAt(u)' /\ ScannedBy(u)'
  BY <1>1, KeepsLooking, KeepsScanned
<1>3. MarkingAt(u)'
  <2>1. pc'[u] \in Locking => s[u] <= Len(Sims[cube[u]])
    BY <1>1 DEF IInv, MarkingAt, Locking, Marking
  <2> QED BY <1>1, <2>1, KeepsMarking
<1>4. ASSUME pc[u] \in Holding
      PROVE  /\ table_mutex'[Mutex(Coord(u))] = table_mutex[Mutex(Coord(u))]
             /\ \A c \in ByteOf(Coord(u)) : table'[c] = table[c]
  <2>1. Coord(u) \in Coords /\ Mutex(Coord(u)) \in Chunks
    BY <1>4, InHand, MutexType DEF Marking, Locking, Holding
  <2>2. table_mutex[Mutex(Coord(u))] = u /\ u # Free
    <3>1. table_mutex[Mutex(Coord(u))] = u
      BY <1>4 DEF IInv, ByteInHand
    <3>2. u # Free
      BY ParametersAssumption DEF Threads, Free
    <3> QED BY <3>1, <3>2
  <2>3. table_mutex \in [Chunks -> Threads \cup {Free}]
    BY DEF IInv, TypeOK
  <2>4. CASE Lock(t)
    BY <2>1, <2>2, <2>3, <2>4 DEF Lock
  <2>5. CASE Store(t)
    <3>1. Coord(t) \in Coords /\ Mutex(Coord(t)) \in Chunks /\ table_mutex[Mutex(Coord(t))] = t
      BY <2>5, InHand, MutexType DEF Marking, Locking, Holding, Store, IInv, ByteInHand
    <3>2. Mutex(Coord(t)) # Mutex(Coord(u))
      BY <2>2, <3>1
    <3>3. Coord(t) \notin ByteOf(Coord(u))
      BY <3>2 DEF ByteOf, Mutex
    <3>4. table' = [table EXCEPT ![Coord(t)] = d] /\ table \in [Coords -> 0 .. Unset]
      BY <2>5, StoreIsUpdate DEF IInv, TypeOK
    <3>5. \A c \in ByteOf(Coord(u)) : table'[c] = table[c]
      BY <3>3, <3>4 DEF ByteOf
    <3> QED BY <2>1, <2>3, <2>5, <3>1, <3>2, <3>5 DEF Store, Release
  <2>6. CASE ~Lock(t) /\ ~Store(t)
    <3>1. UNCHANGED <<table, table_mutex>>
      BY <2>6 DEF ThreadStep, Scan, ScanEnd, Look, LookEnd, Mark, MarkEnd, Load
    <3> QED BY <3>1
  <2> QED BY <2>4, <2>5, <2>6
<1>5. ByteInHand(u)'
  BY <1>1, <1>4, KeepsByte DEF Holding
<1> QED BY <1>2, <1>3, <1>5

-----------------------------------------------------------------------------
(* A thread on its way to a coordinate stays so until it is set.           *)
Continues(t) ==
  pc[t] \in Marking =>
    \A k \in 1 .. Len(Sims[cube[t]]) :
      k >= s[t] /\ table'[Sims[cube[t]][k]] = Unset =>
        pc'[t] \in Marking /\ cube'[t] = cube[t] /\ k >= s'[t]

(* Coordinates similar to a set one stay on their way, if threads go on with*)
(* what they hold and the new entries are on the way of some thread.       *)
LEMMA KeepsAttended ==
  ASSUME IInv, EntriesStay, \A t \in Threads : Continues(t),
         \A b, c \in Coords :
           IsSimilar(b, c) /\ table[c] = Unset /\ table'[c] # Unset /\ table'[b] = Unset =>
             OnItsWay(b)'
  PROVE  Attended'
<1> SUFFICES ASSUME NEW b \in Coords, NEW c \in Coords, IsSimilar(b, c),
                    table'[c] # Unset, table'[b] = Unset
             PROVE  OnItsWay(b)'
  BY DEF Attended, IsSimilar
<1>1. CASE table[c] # Unset
  <2>1. table[b] = Unset
    BY DEF EntriesStay
  <2>2. OnItsWay(b)
    BY <1>1, <2>1 DEF IInv, Attended
  <2>3. PICK t \in Threads :
          /\ pc[t] \in Marking
          /\ \E k \in 1 .. Len(Sims[cube[t]]) : k >= s[t] /\ Sims[cube[t]][k] = b
    BY <2>2 DEF OnItsWay
  <2> QED BY <2>3 DEF Continues, OnItsWay
<1>2. CASE table[c] = Unset
  BY <1>2
<1> QED BY <1>1, <1>2

(* What remains to be shown of a step that writes no entry.                *)
Programs == {"none", "scan", "look", "mark", "lock", "load", "store", "exit"}
CursorTypes ==
  /\ pc \in [Threads -> Programs]
  /\ i \in [Threads -> 0 .. CoordMax] /\ m \in [Threads -> Nat \ {0}]
  /\ cube \in [Threads -> Coords] /\ s \in [Threads -> Nat \ {0}]
ByteType(t) == byte[t] = <<>> \/ byte[t] \in [ByteOf(Coord(t)) -> 0 .. Unset]

(* A copy of the byte has the types of entries.                            *)
LEMMA BytesTyped ==
  ASSUME NEW t \in Threads, ByteInHand(t)', table' \in [Coords -> 0 .. Unset]
  PROVE  ByteType(t)'
<1>1. \A c \in ByteOf(Coord(t))' : c \in Coords
  BY DEF ByteOf, Coords
<1> QED BY <1>1 DEF ByteInHand, ByteType

(* What is left to show of a step that writes no entry.                    *)
LEMMA RestOfStep ==
  ASSUME IInv, NEW t \in Threads, ThreadStep(t), ~Store(t),
         table_mutex' \in [Chunks -> Threads \cup {Free}], CursorTypes',
         ByteInHand(t)', LookingAt(t)', MarkingAt(t)', ScannedBy(t)', Continues(t)
  PROVE  IInv'
<1>1. table' = table /\ pc_main = "join" /\ UNCHANGED main /\ EntriesStay
  BY EntriesOnlyAdded, Frame
<1>2. Running' /\ Exact'
  BY <1>1 DEF IInv, Running, Exact, main
<1>3. \A u \in Threads : Continues(u)
  BY Frame, <1>1 DEF Continues
<1>4. Attended'
  BY <1>1, <1>3, KeepsAttended
<1>5. Counts'
  BY <1>1 DEF IInv, Counts, main, AtDist, Below, Coords
<1>6. \A u \in Threads : ByteInHand(u)' /\ LookingAt(u)' /\ MarkingAt(u)' /\ ScannedBy(u)'
  BY Others
<1>7. OneByteEach'
  BY Frame
<1>8. TypeOK'
  <2>1. table' \in [Coords -> 0 .. Unset]
    BY <1>1 DEF IInv, TypeOK
  <2>2. \A u \in Threads : ByteType(u)'
    BY <1>6, <2>1, BytesTyped
  <2>3. TypeOK
    BY DEF IInv
  <2> QED BY <1>1, <2>1, <2>2, <2>3 DEF TypeOK, main, CursorTypes, Programs, ByteType,
                                       Coords, Chunks, Threads, Unset, Free
<1> QED BY <1>2, <1>4, <1>5, <1>6, <1>7, <1>8 DEF IInv

-----------------------------------------------------------------------------
(* The steps of a thread.                                                  *)
LEMMA Types ==
  ASSUME IInv
  PROVE  /\ CursorTypes /\ OneByteEach
         /\ table_mutex \in [Chunks -> Threads \cup {Free}]
         /\ table \in [Coords -> 0 .. Unset]
         /\ d \in Nat \ {0} /\ CoordMax \in Nat
  BY ParametersAssumption DEF IInv, TypeOK, CursorTypes, Programs

(* An entry that Skip passes over needs no look; one that it does not has  *)
(* the distance that LookingAt says.                                       *)
LEMMA SkipSound ==
  ASSUME IInv, pc_main = "join", NEW c \in Coords
  PROVE  IF Skip(c) THEN Finished(c)
         ELSE IF Forward THEN Dist[c] = d - 1 ELSE Dist[c] >= d
<1>1. /\ Dist[c] < d => table[c] = Dist[c]
      /\ table[c] # Unset => table[c] = Dist[c] /\ Dist[c] <= d
      /\ Dist[c] \in Nat /\ Dist[c] < Unset
      /\ d \in Nat \ {0} /\ d < Unset
  BY DistType, Types DEF IInv, Exact, Running
<1>2. CASE Forward
  BY <1>1, <1>2 DEF Skip, Finished, Unset
<1>3. CASE ~Forward
  BY <1>1, <1>3 DEF Skip, Finished
<1> QED BY <1>2, <1>3

(* Each action in turn: a coordinate to look at.                           *)
LEMMA ScanStep ==
  ASSUME IInv, NEW t \in Threads, Scan(t)
  PROVE  IInv'
<1>1. /\ pc[t] = "scan" /\ ThreadStep(t) /\ ~Store(t) /\ pc_main = "join"
      /\ i[t] < End(t) /\ End(t) \in 0 .. CoordMax
      /\ UNCHANGED <<table, table_mutex, main, cube, s, byte>> /\ EntriesStay
  BY Frame, EntriesOnlyAdded, Ranges DEF Scan, ThreadStep, Store, mark
<1>2. i[t] \in Coords
  BY <1>1, Types DEF CursorTypes, Coords
<1>3. CursorTypes' /\ pc'[t] \in {"scan", "look"}
  <2>1. i[t] \in Nat /\ i[t] + 1 \in 0 .. CoordMax
    BY <1>1, <1>2, Types DEF Coords
  <2>2. CASE Skip(i[t])
    <3>1. pc' = pc /\ m' = m /\ i' = [i EXCEPT ![t] = i[t] + 1]
      BY <2>2, Types DEF Scan, CursorTypes
    <3>2. i' \in [Threads -> 0 .. CoordMax]
      BY <2>1, <3>1, Types DEF CursorTypes
    <3> QED BY <1>1, <3>1, <3>2, Types DEF CursorTypes, Coords
  <2>3. CASE ~Skip(i[t])
    <3>1. pc' = [pc EXCEPT ![t] = "look"] /\ m' = [m EXCEPT ![t] = 1] /\ i' = i
      BY <2>3 DEF Scan
    <3> QED BY <1>1, <3>1, Types DEF CursorTypes, Programs, Coords
  <2> QED BY <2>2, <2>3
<1>4. ByteInHand(t)'
  BY <1>1, <1>3, KeepsByte DEF Holding
<1>5. LookingAt(t)' /\ ScannedBy(t)'
  <2>1. CASE Skip(i[t])
    <3>1. pc'[t] = "scan" /\ i'[t] = i[t] + 1
      BY <1>1, <2>1, Types DEF Scan, CursorTypes
    <3>2. Finished(i[t])
      BY <1>1, <1>2, <2>1, SkipSound
    <3>3. \A c \in Coords : Start(t) <= c /\ c < i[t] + 1 => Finished(c)
      BY <1>1, <1>2, <3>2 DEF IInv, ScannedBy, Coords
    <3>4. \A c \in Coords : Finished(c) => Finished(c)'
      BY <1>1 DEF Finished, Passed, Forward, main
    <3> QED BY <1>1, <3>1, <3>3, <3>4 DEF LookingAt, ScannedBy, Marking, Start, isize
  <2>2. CASE ~Skip(i[t])
    <3>1. pc'[t] = "look" /\ i'[t] = i[t] /\ m'[t] = 1
      BY <1>1, <2>2, Types DEF Scan, CursorTypes
    <3>2. IF Forward THEN Dist[i[t]] = d - 1 ELSE Dist[i[t]] >= d
      BY <1>1, <1>2, <2>2, SkipSound
    <3>3. LookingAt(t)'
      BY <1>1, <3>1, <3>2 DEF LookingAt, Forward, main, End, isize
    <3>4. ScannedBy(t)'
      BY <1>1, <3>1, KeepsScanned DEF main
    <3> QED BY <3>3, <3>4
  <2> QED BY <2>1, <2>2
<1>6. MarkingAt(t)' /\ Continues(t)
  BY <1>1, <1>3 DEF MarkingAt, Marking, Continues
<1> QED BY <1>1, <1>3, <1>4, <1>5, <1>6, Types, RestOfStep

(* A thread at the end of its range.                                       *)
LEMMA ScanEndStep ==
  ASSUME IInv, NEW t \in Threads, ScanEnd(t)
  PROVE  IInv'
<1>1. /\ pc[t] = "scan" /\ ThreadStep(t) /\ ~Store(t) /\ pc_main = "join"
      /\ i[t] >= End(t)
      /\ UNCHANGED <<table, table_mutex, main, i, m, cube, s, byte>> /\ EntriesStay
  BY Frame, EntriesOnlyAdded DEF ScanEnd, ThreadStep, Store, mark, scan
<1>2. CursorTypes' /\ pc'[t] = "exit"
  BY <1>1, Types DEF ScanEnd, CursorTypes, Programs, Coords
<1>3. ByteInHand(t)'
  BY <1>1, <1>2, KeepsByte DEF Holding
<1>4. LookingAt(t)' /\ MarkingAt(t)' /\ Continues(t)
  BY <1>1, <1>2 DEF LookingAt, MarkingAt, Marking, Continues
<1>5. ScannedBy(t)'
  <2>1. \A c \in Coords : Start(t) <= c /\ c < i[t] => Finished(c)
    BY <1>1 DEF IInv, ScannedBy
  <2>2. \A c \in Coords : Finished(c) => Finished(c)'
    BY <1>1 DEF Finished, Passed, Forward, main
  <2> QED BY <1>1, <2>1, <2>2 DEF ScannedBy, Start, End, isize
<1> QED BY <1>1, <1>2, <1>3, <1>4, <1>5, Types, RestOfStep

(* As every move can be undone, it changes the distance by at most one.    *)
LEMMA NearBothWays ==
  ASSUME NEW c \in Coords, NEW b \in Coords, IsNear(b, c)
  PROVE  Dist[b] <= Dist[c] + 1 /\ Dist[c] <= Dist[b] + 1
<1>1. PICK e \in Coords : IsNear(e, b) /\ IsSimilar(c, e)
  BY DistanceAssumption
<1>2. Dist[e] <= Dist[b] + 1 /\ Dist[c] = Dist[e]
  BY <1>1, DistanceAssumption, SimilarityAssumption
<1> QED BY <1>2, DistanceAssumption

(* A visited neighbour of an entry is one that Wanted says, and where      *)
(* there is none the neighbour needs no other look.                        *)
LEMMA WantedSound ==
  ASSUME IInv, pc_main = "join", NEW c \in Coords, NEW b \in Coords, IsNear(b, c),
         IF Forward THEN Dist[c] = d - 1 ELSE Dist[c] >= d
  PROVE  IF Wanted(b) THEN Dist[IF Forward THEN b ELSE c] = d ELSE Passed(b)
<1>1. /\ Dist[b] < d => table[b] = Dist[b]
      /\ table[b] # Unset => table[b] = Dist[b] /\ Dist[b] <= d
      /\ Dist[b] \in Nat /\ Dist[b] < Unset /\ Dist[c] \in Nat
      /\ d \in Nat \ {0} /\ d < Unset
  BY DistType, Types DEF IInv, Exact, Running
<1>2. Dist[b] <= Dist[c] + 1
  BY DistanceAssumption
<1>3. Dist[c] <= Dist[b] + 1
  BY NearBothWays
<1>4. CASE Forward
  BY <1>1, <1>2, <1>4 DEF Wanted, Passed
<1>5. CASE ~Forward
  BY <1>1, <1>3, <1>5 DEF Wanted, Passed, Unset
<1> QED BY <1>4, <1>5

(* One neighbour is looked at.                                             *)
LEMMA LookStep ==
  ASSUME IInv, NEW t \in Threads, Look(t)
  PROVE  IInv'
<1> DEFINE j == Near[i[t]][m[t]]
<1>1. /\ pc[t] = "look" /\ ThreadStep(t) /\ ~Store(t) /\ pc_main = "join"
      /\ m[t] <= Len(Near[i[t]])
      /\ UNCHANGED <<table, table_mutex, main, i, byte>> /\ EntriesStay
  BY Frame, EntriesOnlyAdded DEF Look, ThreadStep, Store
<1>2. i[t] \in Coords /\ m[t] \in Nat \ {0} /\ m[t] \in 1 .. Len(Near[i[t]])
  BY <1>1, InHand, Lists
<1>3. j \in Coords /\ IsNear(j, i[t])
  BY <1>2, Lists
<1>4. CASE Wanted(j)
  <2>1. /\ pc' = [pc EXCEPT ![t] = "mark"] /\ UNCHANGED m
        /\ cube' = [cube EXCEPT ![t] = IF Forward THEN j ELSE i[t]]
        /\ s' = [s EXCEPT ![t] = 1]
    BY <1>4 DEF Look
  <2>2. CursorTypes' /\ pc'[t] = "mark" /\ s'[t] = 1 /\ cube'[t] = IF Forward THEN j ELSE i[t]
    <3>1. CursorTypes
      BY Types
    <3> QED BY <1>1, <1>2, <1>3, <2>1, <3>1 DEF CursorTypes, Programs, Coords
  <2>3. ByteInHand(t)'
    BY <1>1, <2>2 DEF IInv, ByteInHand, Holding
  <2>4. LookingAt(t)' /\ ScannedBy(t)'
    BY <1>1, <2>1, <2>2, KeepsLooking, KeepsScanned DEF main, Marking
  <2>5. Dist[cube'[t]] = d
    BY <1>1, <1>2, <1>3, <1>4, <2>2, WantedSound DEF IInv, LookingAt
  <2>6. MarkingAt(t)'
    <3>1. d' = d /\ i'[t] = i[t] /\ m'[t] = m[t]
      BY <1>1, <2>1 DEF main
    <3>2. \A k \in 1 .. Len(Sims[cube'[t]]) : ~(k < 1)
      OBVIOUS
    <3> QED BY <1>1, <2>2, <2>5, <3>1, <3>2 DEF MarkingAt, Locking, Forward
  <2>7. Continues(t)
    BY <1>1 DEF Continues, Marking
  <2> QED BY <1>1, <2>2, <2>3, <2>4, <2>6, <2>7, Types, RestOfStep
<1>5. CASE ~Wanted(j)
  <2>1. m' = [m EXCEPT ![t] = @ + 1] /\ UNCHANGED <<pc, cube, s>>
    BY <1>5 DEF Look, mark
  <2>2. CursorTypes' /\ m'[t] = m[t] + 1
    BY <1>1, <1>2, <2>1, Types DEF CursorTypes, Coords
  <2>3. ByteInHand(t)'
    BY <1>1, <2>1, KeepsByte
  <2>4. LookingAt(t)'
    <3>1. Passed(j)
      BY <1>1, <1>2, <1>3, <1>5, WantedSound DEF IInv, LookingAt
    <3>2. \A k \in 1 .. Len(Near[i[t]]) : k < m[t] + 1 => Passed(Near[i[t]][k])
      <4>1. \A k \in 1 .. Len(Near[i[t]]) : k < m[t] => Passed(Near[i[t]][k])
        BY <1>1 DEF IInv, LookingAt
      <4>2. \A k \in 1 .. Len(Near[i[t]]) : k < m[t] + 1 => k < m[t] \/ k = m[t]
        BY <1>2
      <4> QED BY <3>1, <4>1, <4>2
    <3>3. \A k \in 1 .. Len(Near[i[t]]) : k < m[t] + 1 => Passed(Near[i[t]][k])'
      <4> SUFFICES ASSUME NEW k \in 1 .. Len(Near[i[t]]), k < m[t] + 1
                   PROVE  Passed(Near[i[t]][k])'
        OBVIOUS
      <4>1. Near[i[t]][k] \in Coords /\ Passed(Near[i[t]][k])
        BY <1>2, <3>2, Lists
      <4> QED BY <1>1, <4>1 DEF Passed, Forward, main
    <3> QED BY <1>1, <2>1, <2>2, <3>3 DEF IInv, LookingAt, Forward, main, End, isize
  <2>5. MarkingAt(t)' /\ Continues(t)
    BY <1>1, <2>1 DEF MarkingAt, Marking, Continues
  <2>6. ScannedBy(t)'
    BY <1>1, <2>1, KeepsScanned DEF main
  <2> QED BY <1>1, <2>2, <2>3, <2>4, <2>5, <2>6, Types, RestOfStep
<1> QED BY <1>4, <1>5

(* Going on with the next coordinate, when the one in hand is finished.    *)
LEMMA ScanOn ==
  ASSUME IInv, NEW t \in Threads, pc[t] \in {"look"} \cup Marking,
         d' = d, table' = table, pc_main' = pc_main,
         i' = [i EXCEPT ![t] = @ + 1], pc' = [pc EXCEPT ![t] = "scan"], Finished(i[t])
  PROVE  /\ i' \in [Threads -> 0 .. CoordMax] /\ pc' \in [Threads -> Programs]
         /\ pc'[t] = "scan" /\ ScannedBy(t)'
<1>1. i[t] \in Coords /\ CursorTypes
  BY InHand, Types
<1>2. i[t] \in Nat /\ i[t] + 1 \in 0 .. CoordMax
  BY <1>1, Types DEF Coords
<1>3. i' \in [Threads -> 0 .. CoordMax] /\ i'[t] = i[t] + 1
  BY <1>1, <1>2 DEF CursorTypes
<1>4. pc' \in [Threads -> Programs] /\ pc'[t] = "scan"
  BY <1>1 DEF CursorTypes, Programs
<1>5. ASSUME pc_main = "join"
      PROVE  \A c \in Coords : Start(t) <= c /\ c < i[t] + 1 => Finished(c)
  <2>1. \A c \in Coords : c < i[t] + 1 => c < i[t] \/ c = i[t]
    BY <1>2 DEF Coords
  <2> QED BY <1>5, <2>1 DEF IInv, ScannedBy
<1>6. \A c \in Coords : Finished(c) => Finished(c)'
  BY DEF Finished, Passed, Forward
<1>7. ScannedBy(t)'
  BY <1>3, <1>4, <1>5, <1>6 DEF ScannedBy, Start, isize
<1> QED BY <1>3, <1>4, <1>7

(* No neighbour is left to look at.                                        *)
LEMMA LookEndStep ==
  ASSUME IInv, NEW t \in Threads, LookEnd(t)
  PROVE  IInv'
<1>1. /\ pc[t] = "look" /\ ThreadStep(t) /\ ~Store(t) /\ pc_main = "join"
      /\ m[t] > Len(Near[i[t]])
      /\ i' = [i EXCEPT ![t] = @ + 1] /\ pc' = [pc EXCEPT ![t] = "scan"]
      /\ UNCHANGED <<table, table_mutex, main, m, cube, s, byte>> /\ EntriesStay
  BY Frame, EntriesOnlyAdded DEF LookEnd, ThreadStep, Store, mark
<1>2. i[t] \in Coords /\ m[t] \in Nat \ {0} /\ LookingAt(t)
  BY <1>1, InHand DEF IInv
<1>3. \A b \in Coords : IsNear(b, i[t]) => Passed(b)
  <2>1. \A k \in 1 .. Len(Near[i[t]]) : Passed(Near[i[t]][k])
    BY <1>1, <1>2, Lists DEF LookingAt
  <2> QED BY <2>1 DEF IsNear
<1>4. Finished(i[t])
  <2>1. CASE Forward
    BY <1>3, <2>1 DEF Finished
  <2>2. CASE ~Forward
    <3>1. SUFFICES ASSUME Dist[i[t]] = d PROVE FALSE
      BY <2>2 DEF Finished
    <3>2. i[t] # Solved
      BY <1>2, <3>1, Types, DistanceAssumption
    <3>3. PICK b \in Coords : IsNear(b, i[t]) /\ Dist[b] < Dist[i[t]]
      BY <1>2, <3>2, DistanceAssumption
    <3>4. Dist[b] >= d
      BY <1>3, <2>2, <3>3 DEF Passed
    <3> QED BY <3>1, <3>3, <3>4, DistType, Types
  <2> QED BY <2>1, <2>2
<1>5. /\ i' \in [Threads -> 0 .. CoordMax] /\ pc' \in [Threads -> Programs]
      /\ pc'[t] = "scan" /\ ScannedBy(t)'
  BY <1>1, <1>4, ScanOn DEF main
<1>6. CursorTypes'
  BY <1>1, <1>5, Types DEF CursorTypes, Coords, Programs
<1>7. ByteInHand(t)'
  BY <1>1, <1>5, KeepsByte DEF Holding
<1>8. LookingAt(t)' /\ MarkingAt(t)' /\ Continues(t)
  BY <1>1, <1>5 DEF LookingAt, MarkingAt, Marking, Continues
<1> QED BY <1>1, <1>5, <1>6, <1>7, <1>8, Types, RestOfStep

(* The next similar coordinate.                                            *)
LEMMA MarkStep ==
  ASSUME IInv, NEW t \in Threads, Mark(t)
  PROVE  IInv'
<1>1. /\ pc[t] = "mark" /\ ThreadStep(t) /\ ~Store(t) /\ pc_main = "join"
      /\ s[t] <= Len(Sims[cube[t]])
      /\ UNCHANGED <<table, table_mutex, main, i, m, cube, byte>> /\ EntriesStay
  BY Frame, EntriesOnlyAdded DEF Mark, ThreadStep, Store, scan
<1>2. cube[t] \in Coords /\ s[t] \in 1 .. Len(Sims[cube[t]]) /\ s[t] \in Nat \ {0}
  BY <1>1, InHand, Lists DEF Marking
<1>3. CASE d < table[Coord(t)]
  <2>1. pc' = [pc EXCEPT ![t] = "lock"] /\ s' = s
    BY <1>3 DEF Mark
  <2>2. CursorTypes' /\ pc'[t] = "lock"
    BY <1>1, <2>1, Types DEF CursorTypes, Programs, Coords
  <2>3. ByteInHand(t)'
    BY <1>1, <2>1, <2>2, KeepsByte DEF Holding
  <2>4. LookingAt(t)' /\ MarkingAt(t)' /\ ScannedBy(t)'
    BY <1>1, <2>1, <2>2, KeepsLooking, KeepsMarking, KeepsScanned DEF main, Marking
  <2>5. Continues(t)
    BY <1>1, <2>1, <2>2 DEF Continues, Marking
  <2> QED BY <1>1, <2>2, <2>3, <2>4, <2>5, Types, RestOfStep
<1>4. CASE ~(d < table[Coord(t)])
  <2>1. s' = [s EXCEPT ![t] = @ + 1] /\ pc' = pc
    BY <1>4 DEF Mark
  <2>2. CursorTypes' /\ s'[t] = s[t] + 1
    BY <1>1, <1>2, <2>1, Types DEF CursorTypes, Coords
  <2>3. table[Coord(t)] # Unset
    BY <1>1, <1>4, Types DEF IInv, Running, Unset
  <2>4. ByteInHand(t)'
    BY <1>1, <2>1 DEF IInv, ByteInHand, Holding
  <2>5. LookingAt(t)' /\ ScannedBy(t)'
    BY <1>1, <2>1, KeepsLooking, KeepsScanned DEF main, Marking
  <2>6. \A k \in 1 .. Len(Sims[cube[t]]) :
          k < s[t] + 1 => table[Sims[cube[t]][k]] # Unset
    <3>1. \A k \in 1 .. Len(Sims[cube[t]]) : k < s[t] + 1 => k < s[t] \/ k = s[t]
      BY <1>2
    <3> QED BY <1>1, <2>3, <3>1 DEF IInv, MarkingAt, Marking, Coord
  <2>7. MarkingAt(t)'
    BY <1>1, <2>1, <2>2, <2>6 DEF IInv, MarkingAt, Marking, Locking, Forward, main
  <2>8. Continues(t)
    <3>1. \A k \in 1 .. Len(Sims[cube[t]]) :
            k >= s[t] /\ table[Sims[cube[t]][k]] = Unset => k >= s[t] + 1
      BY <1>2, <2>3 DEF Coord
    <3> QED BY <1>1, <2>1, <2>2, <3>1 DEF Continues
  <2> QED BY <1>1, <2>2, <2>4, <2>5, <2>7, <2>8, Types, RestOfStep
<1> QED BY <1>3, <1>4

(* All similar coordinates are marked.                                     *)
LEMMA MarkEndStep ==
  ASSUME IInv, NEW t \in Threads, MarkEnd(t)
  PROVE  IInv'
<1>1. /\ pc[t] = "mark" /\ ThreadStep(t) /\ ~Store(t) /\ pc_main = "join"
      /\ s[t] > Len(Sims[cube[t]])
      /\ UNCHANGED <<table, table_mutex, main, cube, s, byte>> /\ EntriesStay
  BY Frame, EntriesOnlyAdded DEF MarkEnd, ThreadStep, Store, mark
<1>2. /\ i[t] \in Coords /\ m[t] \in Nat \ {0} /\ cube[t] \in Coords
      /\ s[t] \in Nat \ {0} /\ LookingAt(t) /\ MarkingAt(t)
  BY <1>1, InHand DEF IInv, Marking
<1>3. table[cube[t]] # Unset
  <2>1. PICK k \in 1 .. Len(Sims[cube[t]]) : Sims[cube[t]][k] = cube[t]
    BY <1>2, SimilarityAssumption DEF IsSimilar
  <2>2. k < s[t]
    BY <1>1, <1>2, Lists
  <2> QED BY <1>1, <1>2, <2>1, <2>2 DEF MarkingAt, Marking
<1>4. Continues(t)
  BY <1>1, <1>2, Lists DEF Continues
<1>5. CASE Forward
  <2>1. m' = [m EXCEPT ![t] = @ + 1] /\ pc' = [pc EXCEPT ![t] = "look"] /\ i' = i
    BY <1>5 DEF MarkEnd
  <2>2. CursorTypes' /\ pc'[t] = "look" /\ m'[t] = m[t] + 1
    BY <1>1, <1>2, <2>1, Types DEF CursorTypes, Programs, Coords
  <2>3. ByteInHand(t)'
    BY <1>1, <2>2, KeepsByte DEF Holding
  <2>4. MarkingAt(t)' /\ ScannedBy(t)'
    BY <1>1, <2>1, <2>2, KeepsScanned DEF main, MarkingAt, Marking
  <2>5. \A k \in 1 .. Len(Near[i[t]]) : k < m[t] + 1 => Passed(Near[i[t]][k])
    <3>1. \A k \in 1 .. Len(Near[i[t]]) : k < m[t] + 1 => k < m[t] \/ k = m[t]
      BY <1>2
    <3>2. Passed(cube[t]) /\ cube[t] = Near[i[t]][m[t]]
      BY <1>1, <1>2, <1>3, <1>5 DEF MarkingAt, Marking, Passed
    <3> QED BY <1>1, <1>2, <3>1, <3>2 DEF LookingAt, Marking
  <2>6. LookingAt(t)'
    <3>1. ASSUME NEW k \in 1 .. Len(Near[i[t]]), k < m[t] + 1
          PROVE  Passed(Near[i[t]][k])'
      BY <1>1, <2>1, <2>5, <3>1 DEF Passed, Forward, main
    <3> QED BY <1>1, <1>2, <2>1, <2>2, <3>1 DEF LookingAt, Marking, Forward, main, End, isize
  <2> QED BY <1>1, <1>4, <2>2, <2>3, <2>4, <2>6, Types, RestOfStep
<1>6. CASE ~Forward
  <2>1. i' = [i EXCEPT ![t] = @ + 1] /\ pc' = [pc EXCEPT ![t] = "scan"] /\ m' = m
    BY <1>6 DEF MarkEnd
  <2>2. Finished(i[t])
    BY <1>1, <1>2, <1>3, <1>6 DEF MarkingAt, Marking, Finished
  <2>3. /\ i' \in [Threads -> 0 .. CoordMax] /\ pc' \in [Threads -> Programs]
        /\ pc'[t] = "scan" /\ ScannedBy(t)'
    BY <1>1, <2>1, <2>2, ScanOn DEF main, Marking
  <2>4. CursorTypes'
    BY <1>1, <2>1, <2>3, Types DEF CursorTypes, Coords, Programs
  <2>5. ByteInHand(t)'
    BY <1>1, <2>3, KeepsByte DEF Holding
  <2>6. LookingAt(t)' /\ MarkingAt(t)'
    BY <1>1, <2>3 DEF LookingAt, MarkingAt, Marking
  <2> QED BY <1>1, <1>4, <2>3, <2>4, <2>5, <2>6, Types, RestOfStep
<1> QED BY <1>5, <1>6

(* The mutex of the chunk is taken.                                        *)
LEMMA LockStep ==
  ASSUME IInv, NEW t \in Threads, Lock(t)
  PROVE  IInv'
<1>1. /\ pc[t] = "lock" /\ ThreadStep(t) /\ ~Store(t) /\ pc_main = "join"
      /\ pc' = [pc EXCEPT ![t] = "load"]
      /\ UNCHANGED <<table, main, i, m, cube, s, byte>> /\ EntriesStay
  BY Frame, EntriesOnlyAdded DEF Lock, ThreadStep, Store, scan, mark
<1>2. Mutex(Coord(t)) \in Chunks /\ s[t] <= Len(Sims[cube[t]])
  BY <1>1, InHand, MutexType DEF Marking, Locking, IInv, MarkingAt
<1>3. CursorTypes' /\ pc'[t] = "load"
  BY <1>1, Types DEF CursorTypes, Programs, Coords
<1>4. /\ table_mutex' \in [Chunks -> Threads \cup {Free}]
      /\ table_mutex'[Mutex(Coord(t))] = t
  BY <1>2, Types DEF Lock
<1>5. ByteInHand(t)'
  BY <1>1, <1>3, <1>4 DEF IInv, ByteInHand, Mutex, H48_INDEX, Coord
<1>6. LookingAt(t)' /\ MarkingAt(t)' /\ ScannedBy(t)'
  BY <1>1, <1>2, <1>3, KeepsLooking, KeepsMarking, KeepsScanned DEF main, Marking
<1>7. Continues(t)
  BY <1>1, <1>3 DEF Continues, Marking
<1> QED BY <1>1, <1>3, <1>4, <1>5, <1>6, <1>7, RestOfStep

(* The byte is read.                                                       *)
LEMMA LoadStep ==
  ASSUME IInv, NEW t \in Threads, Load(t)
  PROVE  IInv'
<1>1. /\ pc[t] = "load" /\ ThreadStep(t) /\ ~Store(t) /\ pc_main = "join"
      /\ pc' = [pc EXCEPT ![t] = "store"]
      /\ byte' = [byte EXCEPT ![t] = [c \in ByteOf(Coord(t)) |-> table[c]]]
      /\ UNCHANGED <<table, table_mutex, main, i, m, cube, s>> /\ EntriesStay
  BY Frame, EntriesOnlyAdded DEF Load, ThreadStep, Store, scan, mark
<1>2. s[t] <= Len(Sims[cube[t]])
  BY <1>1 DEF Marking, Locking, IInv, MarkingAt
<1>3. CursorTypes' /\ pc'[t] = "store"
  BY <1>1, Types DEF CursorTypes, Programs, Coords
<1>4. byte'[t] = [c \in ByteOf(Coord(t)) |-> table[c]]
  BY <1>1, Types DEF OneByteEach
<1>5. ByteInHand(t)'
  <2>1. table_mutex[Mutex(Coord(t))] = t
    BY <1>1 DEF IInv, ByteInHand, Holding
  <2> QED BY <1>1, <1>3, <1>4, <2>1 DEF ByteInHand, Mutex, H48_INDEX, Coord, ByteOf, Coords
<1>6. LookingAt(t)' /\ MarkingAt(t)' /\ ScannedBy(t)'
  BY <1>1, <1>2, <1>3, KeepsLooking, KeepsMarking, KeepsScanned DEF main, Marking
<1>7. Continues(t)
  BY <1>1, <1>3 DEF Continues, Marking
<1> QED BY <1>1, <1>3, <1>5, <1>6, <1>7, Types, RestOfStep

(* The byte is written and the mutex released: the other entry in it is what*)
(* it was, because nobody else held the mutex since it was read.           *)
LEMMA StoreStep ==
  ASSUME IInv, NEW t \in Threads, Store(t)
  PROVE  IInv'
<1>1. /\ pc[t] = "store" /\ ThreadStep(t) /\ pc_main = "join" /\ EntriesStay
      /\ pc' = [pc EXCEPT ![t] = "mark"] /\ s' = [s EXCEPT ![t] = @ + 1]
      /\ byte' = [byte EXCEPT ![t] = <<>>] /\ Release(t)
      /\ UNCHANGED <<main, i, m, cube>>
  BY Frame, EntriesOnlyAdded DEF Store, ThreadStep, scan
<1>2. /\ Coord(t) \in Coords /\ Dist[Coord(t)] = d /\ cube[t] \in Coords
      /\ s[t] \in 1 .. Len(Sims[cube[t]]) /\ s[t] \in Nat \ {0}
      /\ IsSimilar(Coord(t), cube[t]) /\ d \in 0 .. Unset /\ d # Unset
  <2>1. /\ Coord(t) \in Coords /\ Dist[Coord(t)] = d /\ cube[t] \in Coords
        /\ s[t] \in 1 .. Len(Sims[cube[t]]) /\ s[t] \in Nat \ {0}
        /\ IsSimilar(Coord(t), cube[t])
    BY <1>1, InHand DEF Marking, Locking
  <2>2. d \in Nat /\ d < Unset
    BY <2>1, DistType
  <2>3. d \in 0 .. Unset /\ d # Unset
    BY <2>2 DEF Unset
  <2> QED BY <2>1, <2>3
<1>3. /\ \A c \in Coords : table'[c] = IF c = Coord(t) THEN d ELSE table[c]
      /\ table' \in [Coords -> 0 .. Unset]
  BY <1>2, StoreIsUpdate, Types
<1>4. CursorTypes' /\ pc'[t] = "mark" /\ s'[t] = s[t] + 1
  <2>1. CursorTypes
    BY Types
  <2> QED BY <1>1, <1>2, <2>1 DEF CursorTypes, Programs, Coords
<1>5. ByteInHand(t)' /\ OneByteEach'
  <2>1. byte = [u \in Threads |-> byte[u]]
    BY DEF IInv, OneByteEach
  <2>2. byte'[t] = <<>> /\ byte' = [u \in Threads |-> byte'[u]]
    BY <1>1, <2>1
  <2> QED BY <1>4, <2>2 DEF ByteInHand, Holding, OneByteEach
<1>6. LookingAt(t)' /\ ScannedBy(t)'
  BY <1>1, <1>4, KeepsLooking, KeepsScanned DEF main, Marking
<1>7. \A k \in 1 .. Len(Sims[cube[t]]) :
        k < s[t] + 1 => table'[Sims[cube[t]][k]] # Unset
  <2>1. \A k \in 1 .. Len(Sims[cube[t]]) : k < s[t] + 1 => k < s[t] \/ k = s[t]
    BY <1>2
  <2>2. \A k \in 1 .. Len(Sims[cube[t]]) : k < s[t] => table[Sims[cube[t]][k]] # Unset
    BY <1>1 DEF IInv, MarkingAt, Marking
  <2>3. table'[Sims[cube[t]][s[t]]] # Unset
    BY <1>2, <1>3 DEF Coord
  <2> QED BY <1>2, <2>1, <2>2, <2>3, Lists, <1>1 DEF EntriesStay
<1>8. MarkingAt(t)'
  BY <1>1, <1>4, <1>7 DEF IInv, MarkingAt, Marking, Locking, Forward, main
<1>9. Attended'
  <2>1. Continues(t)
    <3>1. \A k \in 1 .. Len(Sims[cube[t]]) :
            k >= s[t] /\ table'[Sims[cube[t]][k]] = Unset => k >= s[t] + 1
      BY <1>2, <1>7
    <3> QED BY <1>1, <1>4, <3>1 DEF Continues, Marking
  <2>2. \A u \in Threads : Continues(u)
    BY <2>1, Frame, <1>1 DEF Continues
  <2>3. ASSUME NEW b \in Coords, NEW c \in Coords, IsSimilar(b, c),
               table[c] = Unset, table'[c] # Unset, table'[b] = Unset
        PROVE  OnItsWay(b)'
    <3>1. c = Coord(t)
      BY <1>3, <2>3
    <3>2. IsSimilar(b, cube[t])
      BY <1>2, <2>3, <3>1, SimilarityAssumption
    <3>3. PICK k \in 1 .. Len(Sims[cube[t]]) : Sims[cube[t]][k] = b
      BY <3>2 DEF IsSimilar
    <3>4. k >= s[t] + 1
      BY <1>2, <1>7, <2>3, <3>3
    <3> QED BY <1>1, <1>4, <3>3, <3>4 DEF OnItsWay, Marking
  <2> QED BY <1>1, <2>2, <2>3, KeepsAttended
<1>10. Exact'
  BY <1>1, <1>2, <1>3 DEF IInv, Exact, main
<1>11. Running' /\ Counts'
  BY <1>1 DEF IInv, Running, Counts, main, AtDist, Below, Coords
<1>12. \A u \in Threads : ByteInHand(u)' /\ LookingAt(u)' /\ MarkingAt(u)' /\ ScannedBy(u)'
  BY <1>1, <1>5, <1>6, <1>8, Others
<1>13. TypeOK'
  <2>1. table_mutex' \in [Chunks -> Threads \cup {Free}]
    BY <1>1, Types DEF Release
  <2>2. \A u \in Threads : ByteType(u)'
    BY <1>3, <1>12, BytesTyped
  <2>3. TypeOK
    BY DEF IInv
  <2> QED BY <1>1, <1>3, <1>4, <2>1, <2>2, <2>3
          DEF TypeOK, main, CursorTypes, Programs, ByteType, Coords, Chunks, Threads, Unset, Free
<1> QED BY <1>5, <1>9, <1>10, <1>11, <1>12, <1>13 DEF IInv

-----------------------------------------------------------------------------
(* The steps of the main thread.                                           *)
LEMMA CoordsFinite == IsFiniteSet(Coords) /\ Cardinality(Coords) = CoordMax
<1>1. 0 \in Int /\ CoordMax - 1 \in Int /\ CoordMax \in Nat
  BY ParametersAssumption
<1>2. IsFiniteSet(Coords) /\ Cardinality(Coords) = IF 0 > CoordMax - 1 THEN 0 ELSE CoordMax - 1 - 0 + 1
  BY <1>1, FS_Interval DEF Coords
<1> QED BY <1>1, <1>2

(* Sets of coordinates are finite, and only the whole table has as many as *)
(* there are.                                                              *)
LEMMA SubsetsFinite ==
  ASSUME NEW S \in SUBSET Coords
  PROVE  IsFiniteSet(S) /\ Cardinality(S) \in Nat /\ Cardinality(S) <= CoordMax
         /\ (Cardinality(S) = CoordMax => S = Coords)
  BY CoordsFinite, FS_Subset, FS_CardinalityType

(* When the threads of a depth have all ended, every coordinate at that    *)
(* distance is set.                                                        *)
LEMMA DepthComplete ==
  ASSUME IInv, pc_main = "join", Joined, NEW c \in Coords, Dist[c] = d
  PROVE  table[c] # Unset
<1>1. ASSUME NEW b \in Coords PROVE Finished(b)
  <2>1. PICK t \in Threads : Start(t) <= b /\ b < End(t)
    BY RangesCover
  <2>2. i[t] >= End(t) /\ i[t] \in Nat /\ End(t) \in Nat /\ b \in Nat
    BY Types, Ranges DEF IInv, ScannedBy, Joined, CursorTypes, Coords
  <2>3. b < i[t]
    BY <2>1, <2>2
  <2> QED BY <2>1, <2>3 DEF IInv, ScannedBy
<1>2. CASE ~Forward
  BY <1>1, <1>2 DEF Finished
<1>3. CASE Forward
  <2>1. c # Solved
    BY DistanceAssumption, Types
  <2>2. PICK b \in Coords : IsNear(b, c) /\ Dist[b] < Dist[c]
    BY <2>1, DistanceAssumption
  <2>3. Dist[b] = d - 1
    BY <2>2, NearBothWays, DistType, Types
  <2>4. PICK e \in Coords : IsNear(e, b) /\ IsSimilar(c, e)
    BY <2>2, DistanceAssumption
  <2>5. Dist[e] = d
    BY <2>4, SimilarityAssumption
  <2>6. table[e] # Unset
    BY <1>1, <1>3, <2>3, <2>4, <2>5 DEF Finished, Passed
  <2>7. ~OnItsWay(c)
    BY DEF OnItsWay, Joined, Marking
  <2> QED BY <2>4, <2>6, <2>7 DEF IInv, Attended
<1> QED BY <1>2, <1>3

(* Between two depths similar coordinates are all set or all unset.        *)
LEMMA NothingAhead ==
  ASSUME Exact, pc_main # "join", NEW b \in Coords, NEW c \in Coords, IsSimilar(b, c),
         table[c] # Unset
  PROVE  table[b] # Unset
<1>1. Dist[b] = Dist[c] /\ Dist[c] < d
  BY SimilarityAssumption DEF Exact
<1> QED BY <1>1, DistType DEF Exact

(* A new depth.                                                            *)
LEMMA CreateStep ==
  ASSUME IInv, CreateThreads
  PROVE  IInv'
<1>1. /\ pc_main = "loop" /\ pc_main' = "join" /\ d <= maxdepth /\ done < CoordMax
      /\ pc' = [t \in Threads |-> "scan"] /\ i' = [t \in Threads |-> Start(t)]
      /\ UNCHANGED <<maxdepth, table, table_mutex, d, done, distribution, m, cube, s, byte>>
  BY DEF CreateThreads, MoreDepths, mark
<1>2. d < Unset
  <2>1. Below(d) # Coords
    BY <1>1, CoordsFinite, ParametersAssumption DEF IInv, Counts
  <2>2. PICK c \in Coords : ~(Dist[c] < d)
    BY <2>1 DEF Below
  <2> QED BY <2>2, DistType, Types DEF Unset
<1>3. Running' /\ Exact' /\ Counts' /\ OneByteEach'
  BY <1>1, <1>2 DEF IInv, Running, Exact, Counts, OneByteEach, AtDist, Below, Coords
<1>4. Attended'
  BY <1>1, NothingAhead DEF IInv, Attended, IsSimilar
<1>5. ASSUME NEW t \in Threads
      PROVE  ByteInHand(t)' /\ LookingAt(t)' /\ MarkingAt(t)' /\ ScannedBy(t)'
  <2>1. pc'[t] = "scan" /\ i'[t] = Start(t) /\ pc[t] \in {"none", "exit"}
    BY <1>1 DEF IInv, Running
  <2>2. ByteInHand(t)'
    BY <1>1, <2>1 DEF IInv, ByteInHand, Holding
  <2>3. LookingAt(t)' /\ MarkingAt(t)'
    BY <2>1 DEF LookingAt, MarkingAt, Marking
  <2>4. \A c \in Coords : ~(Start(t) <= c /\ c < Start(t))
    BY Ranges DEF Coords
  <2> QED BY <1>1, <2>1, <2>2, <2>3, <2>4 DEF ScannedBy, Start, isize
<1>6. TypeOK'
  <2>1. i' \in [Threads -> 0 .. CoordMax] /\ pc' \in [Threads -> Programs]
    BY <1>1, Ranges DEF Programs
  <2>2. TypeOK
    BY DEF IInv
  <2>3. \A t \in Threads : ByteType(t)'
    BY <1>1, <1>5, Types, BytesTyped
  <2>4. CursorTypes'
    BY <1>1, <2>1, Types DEF CursorTypes, Coords
  <2> QED BY <1>1, <2>2, <2>3, <2>4 DEF TypeOK, CursorTypes, Programs, ByteType,
                                       Coords, Chunks, Threads, Unset, Free
<1> QED BY <1>3, <1>4, <1>5, <1>6 DEF IInv

(* The end of a depth: every coordinate at the distance of this depth has  *)
(* been set.                                                               *)
LEMMA JoinStep ==
  ASSUME IInv, JoinThreads
  PROVE  IInv'
<1>1. /\ pc_main = "join" /\ Joined /\ pc_main' = "loop" /\ d' = d + 1
      /\ done' = done + Count(d) /\ distribution' = [distribution EXCEPT ![d] = Count(d)]
      /\ UNCHANGED <<maxdepth, table, table_mutex, pc, i, m, cube, s, byte>>
  BY DEF JoinThreads, scan, mark
<1>2. d \in Nat \ {0} /\ d < Unset /\ d <= maxdepth /\ maxdepth \in Nat /\ Unset \in Nat
  BY <1>1, Types, ParametersAssumption DEF IInv, Running, TypeOK, Unset
<1>3. \A c \in Coords : table[c] = d <=> Dist[c] = d
  BY <1>1, <1>2, DepthComplete, DistType DEF IInv, Exact
<1>4. Count(d) = Cardinality(AtDist(d)) /\ Count(d) \in Nat
  BY <1>3, SubsetsFinite DEF Count, AtDist
<1>5. Running'
  BY <1>1, <1>2 DEF IInv, Running, Joined
<1>6. Exact'
  BY <1>1, <1>2, <1>3, DistType DEF IInv, Exact
<1>7. Attended'
  <2>1. \A b, c \in Coords : IsSimilar(b, c) /\ table[c] # Unset => table[b] # Unset
    <3>1. \A c \in Coords : table[c] # Unset <=> Dist[c] < d + 1
      BY <1>2, <1>3, DistType DEF IInv, Exact
    <3> QED BY <3>1, SimilarityAssumption
  <2> QED BY <1>1, <2>1 DEF Attended, IsSimilar
<1>8. Counts'
  <2>1. Below(d + 1) = Below(d) \cup AtDist(d) /\ Below(d) \cap AtDist(d) = {}
    BY <1>2, DistType DEF Below, AtDist
  <2>2. Cardinality(Below(d + 1)) = Cardinality(Below(d)) + Cardinality(AtDist(d))
    <3>1. /\ IsFiniteSet(Below(d)) /\ IsFiniteSet(AtDist(d))
          /\ Cardinality(Below(d)) \in Nat /\ Cardinality(AtDist(d)) \in Nat
      BY SubsetsFinite DEF Below, AtDist
    <3>2. Cardinality(Below(d) \cap AtDist(d)) = 0
      BY <2>1, FS_EmptySet
    <3>3. Cardinality(Below(d) \cup AtDist(d)) =
            Cardinality(Below(d)) + Cardinality(AtDist(d)) - Cardinality(Below(d) \cap AtDist(d))
      BY <3>1, FS_Union
    <3>4. Cardinality(Below(d + 1)) = Cardinality(Below(d) \cup AtDist(d))
      BY <2>1
    <3> QED BY <3>1, <3>2, <3>3, <3>4
  <2>3. done' = Cardinality(Below(d + 1))
    BY <1>1, <1>4, <2>2 DEF IInv, Counts
  <2>4. \A v \in 0 .. d : distribution'[v] = Cardinality(AtDist(v))
    <3>1. distribution \in [0 .. maxdepth -> Nat]
      BY DEF IInv, TypeOK
    <3>2. \A v \in 0 .. d : v \in 0 .. maxdepth /\ (v = d \/ v \in 0 .. d-1)
      BY <1>2
    <3> QED BY <1>1, <1>4, <3>1, <3>2 DEF IInv, Counts
  <2>5. (d + 1) - 1 = d
    BY <1>2
  <2> QED BY <1>1, <2>3, <2>4, <2>5 DEF Counts, AtDist, Below, Coords
<1>9. ASSUME NEW t \in Threads
      PROVE  ByteInHand(t)' /\ LookingAt(t)' /\ MarkingAt(t)' /\ ScannedBy(t)'
  <2>1. pc[t] = "exit" /\ pc'[t] = "exit"
    BY <1>1 DEF Joined
  <2>2. ByteInHand(t)'
    BY <1>1, <2>1 DEF IInv, ByteInHand, Holding
  <2> QED BY <1>1, <2>1, <2>2 DEF LookingAt, MarkingAt, ScannedBy, Marking
<1>10. TypeOK'
  <2>1. TypeOK
    BY DEF IInv
  <2>2. d' \in 1 .. maxdepth + 1
    BY <1>1, <1>2
  <2>3. done' \in Nat
    BY <1>1, <1>4, <2>1 DEF TypeOK
  <2>4. distribution' \in [0 .. maxdepth -> Nat]
    BY <1>1, <1>4, <2>1 DEF TypeOK
  <2> QED BY <1>1, <2>1, <2>2, <2>3, <2>4
          DEF TypeOK, Coords, Chunks, Threads, Unset, Free, ByteOf, Coord, H48_INDEX
<1>11. OneByteEach'
  BY <1>1 DEF IInv, OneByteEach
<1> QED BY <1>5, <1>6, <1>7, <1>8, <1>9, <1>10, <1>11 DEF IInv

(* The generator returns.                                                  *)
LEMMA ReturnStep ==
  ASSUME IInv, Return
  PROVE  IInv'
<1>1. /\ pc_main = "loop" /\ pc_main' = "done"
      /\ UNCHANGED <<maxdepth, table, table_mutex, d, done, distribution, pc, i, m, cube, s,
                     byte>>
  BY DEF Return, scan, mark
<1>2. Running' /\ Exact' /\ Counts' /\ OneByteEach'
  BY <1>1 DEF IInv, Running, Exact, Counts, OneByteEach, AtDist, Below, Coords
<1>3. Attended'
  BY <1>1, NothingAhead DEF IInv, Attended, IsSimilar
<1>4. ASSUME NEW t \in Threads
      PROVE  ByteInHand(t)' /\ LookingAt(t)' /\ MarkingAt(t)' /\ ScannedBy(t)'
  <2>1. pc[t] \in {"none", "exit"} /\ pc'[t] = pc[t]
    BY <1>1 DEF IInv, Running
  <2>2. ByteInHand(t)'
    BY <1>1, <2>1 DEF IInv, ByteInHand, Holding
  <2> QED BY <1>1, <2>1, <2>2 DEF LookingAt, MarkingAt, ScannedBy, Marking
<1>5. TypeOK'
  <2>1. TypeOK
    BY DEF IInv
  <2>2. \A t \in Threads : ByteType(t)'
    BY <1>1, <1>4, Types, BytesTyped
  <2>3. CursorTypes'
    BY <1>1, Types DEF CursorTypes, Coords
  <2> QED BY <1>1, <2>1, <2>2, <2>3 DEF TypeOK, CursorTypes, Programs, ByteType,
                                       Coords, Chunks, Threads, Unset, Free
<1> QED BY <1>2, <1>3, <1>4, <1>5 DEF IInv

(* The empty table with the solved coordinate set.                         *)
LEMMA InitIInv == ASSUME Init PROVE IInv
<1>1. /\ maxdepth \in Nat /\ maxdepth \in MaxDepths /\ Solved \in Coords /\ CoordMax \in Nat
      /\ Dist[Solved] = 0
  BY ParametersAssumption, DistanceAssumption DEF Init
<1>2. /\ table = [c \in Coords |-> IF c = Solved THEN 0 ELSE Unset]
      /\ d = 1 /\ done = 1 /\ pc_main = "loop"
      /\ distribution = [v \in 0 .. maxdepth |-> IF v = 0 THEN 1 ELSE 0]
      /\ pc = [t \in Threads |-> "none"] /\ byte = [t \in Threads |-> <<>>]
  BY DEF Init
<1>3. \A c \in Coords : Dist[c] < 1 <=> c = Solved
  BY DistType, DistanceAssumption
<1>4. TypeOK
  <2>1. table \in [Coords -> 0 .. Unset] /\ distribution \in [0 .. maxdepth -> Nat]
    BY <1>1, <1>2 DEF Unset
  <2>2. table_mutex \in [Chunks -> Threads \cup {Free}]
    BY DEF Init
  <2>3. i \in [Threads -> 0 .. CoordMax]
    BY Ranges DEF Init
  <2>4. cube \in [Threads -> Coords] /\ m \in [Threads -> Nat \ {0}]
        /\ s \in [Threads -> Nat \ {0}]
    BY <1>1 DEF Init
  <2> QED BY <1>1, <1>2, <2>1, <2>2, <2>3, <2>4 DEF TypeOK
<1>5. Running
  BY <1>2 DEF Running, Unset
<1>6. Exact
  BY <1>1, <1>2, <1>3 DEF Exact, Unset
<1>7. Attended
  BY <1>2, <1>6, NothingAhead DEF Attended, IsSimilar
<1>8. Counts
  <2>1. Below(1) = {Solved} /\ AtDist(0) = {Solved}
    BY <1>1, <1>3, DistType DEF Below, AtDist
  <2>2. Cardinality(Below(1)) = 1 /\ Cardinality(AtDist(0)) = 1
    BY <2>1, FS_Singleton
  <2>3. distribution[0] = 1 /\ 0 .. d - 1 = {0}
    BY <1>1, <1>2
  <2> QED BY <1>2, <2>2, <2>3 DEF Counts
<1>9. OneByteEach
  BY <1>2 DEF OneByteEach
<1>10. ASSUME NEW t \in Threads
       PROVE  ByteInHand(t) /\ LookingAt(t) /\ MarkingAt(t) /\ ScannedBy(t)
  BY <1>2 DEF ByteInHand, LookingAt, MarkingAt, ScannedBy, Marking, Holding
<1> QED BY <1>4, <1>5, <1>6, <1>7, <1>8, <1>9, <1>10 DEF IInv

(* A step of nobody.                                                       *)
LEMMA StutterIInv == ASSUME IInv, UNCHANGED vars PROVE IInv'
<1>1. /\ pc_main' = pc_main
      /\ UNCHANGED <<maxdepth, table, table_mutex, d, done, distribution, pc, i, m, cube, s,
                     byte>>
  BY DEF vars, main, scan, mark
<1>2. Running' /\ Exact' /\ Counts' /\ OneByteEach'
  BY <1>1 DEF IInv, Running, Exact, Counts, OneByteEach, AtDist, Below, Coords
<1>3. Attended'
  BY <1>1 DEF IInv, Attended, IsSimilar, OnItsWay
<1>4. ASSUME NEW t \in Threads
      PROVE  ByteInHand(t)' /\ LookingAt(t)' /\ MarkingAt(t)' /\ ScannedBy(t)'
  <2>1. EntriesStay
    BY <1>1 DEF EntriesStay
  <2>2. pc'[t] \in Locking => s[t] <= Len(Sims[cube[t]])
    BY <1>1 DEF IInv, MarkingAt, Locking, Marking
  <2> QED BY <1>1, <2>1, <2>2, KeepsByte, KeepsLooking, KeepsMarking, KeepsScanned
<1>5. TypeOK'
  <2>1. TypeOK
    BY DEF IInv
  <2>2. \A t \in Threads : ByteType(t)'
    BY <1>1, <1>4, Types, BytesTyped
  <2>3. CursorTypes'
    BY <1>1, Types DEF CursorTypes, Coords
  <2> QED BY <1>1, <2>1, <2>2, <2>3 DEF TypeOK, CursorTypes, Programs, ByteType,
                                       Coords, Chunks, Threads, Unset, Free
<1> QED BY <1>2, <1>3, <1>4, <1>5 DEF IInv

(* Every step preserves the invariant.                                     *)
LEMMA StepIInv == ASSUME IInv, [Next]_vars PROVE IInv'
<1>1. CASE MainStep
  BY <1>1, CreateStep, JoinStep, ReturnStep DEF MainStep
<1>2. ASSUME NEW t \in Threads, ThreadStep(t) PROVE IInv'
  BY <1>2, ScanStep, ScanEndStep, LookStep, LookEndStep, MarkStep, MarkEndStep, LockStep,
     LoadStep, StoreStep DEF ThreadStep
<1>3. CASE Returned
  BY <1>3, StutterIInv DEF Returned
<1>4. CASE UNCHANGED vars
  BY <1>4, StutterIInv
<1> QED BY <1>1, <1>2, <1>3, <1>4 DEF Next

-----------------------------------------------------------------------------
(* The inductive invariant holds in every state of gendata_h48h0k4.        *)
THEOREM Invariance == Spec => []IInv
<1>1. Init => IInv
  BY InitIInv
<1>2. IInv /\ [Next]_vars => IInv'
  BY StepIInv
<1> QED BY <1>1, <1>2, PTL DEF Spec

(* The table, the mutexes and the loop variables keep their types.         *)
THEOREM TypeCorrect == Spec => []TypeOK
<1>1. IInv => TypeOK
  BY DEF IInv
<1> QED BY <1>1, Invariance, PTL

(* Whenever the threads of a depth have been joined, similar coordinates   *)
(* have the same entry: a thread that skips a coordinate because another   *)
(* has set it relies on that one to set the similar ones.                  *)
THEOREM SimilarCoordinatesAgree == Spec => []SimilarAgree
<1>1. IInv => SimilarAgree
  <2> SUFFICES ASSUME IInv, pc_main # "join", NEW b \in Coords, NEW c \in Coords,
                      IsSimilar(b, c)
               PROVE  table[b] = table[c]
    BY DEF SimilarAgree
  <2>1. Dist[b] = Dist[c] /\ IsSimilar(c, b)
    BY SimilarityAssumption
  <2>2. table[b] # Unset <=> table[c] # Unset
    BY <2>1, NothingAhead DEF IInv
  <2> QED BY <2>1, <2>2 DEF IInv, Exact
<1> QED BY <1>1, Invariance, PTL

(* The distribution stored with the table counts its entries, and 'done'   *)
(* is the number of those set.                                             *)
THEOREM DistributionIsRight == Spec => []DistributionMatches
<1>1. IInv => DistributionMatches
  <2> SUFFICES ASSUME IInv, pc_main # "join" PROVE
                 /\ \A v \in 0 .. d-1 : distribution[v] = Count(v)
                 /\ done = Cardinality({c \in Coords : table[c] # Unset})
    BY DEF DistributionMatches
  <2>1. d \in Nat /\ d <= Unset
    BY Types DEF IInv, Running
  <2>2. \A c \in Coords : table[c] # Unset <=> Dist[c] < d
    BY <2>1, DistType DEF IInv, Exact
  <2>3. ASSUME NEW v \in 0 .. d-1 PROVE distribution[v] = Count(v)
    <3>1. v \in Nat /\ v < d /\ v # Unset
      BY <2>1 DEF Unset
    <3>2. \A c \in Coords : table[c] = v <=> Dist[c] = v
      BY <2>2, <3>1, DistType DEF IInv, Exact
    <3>3. {c \in Coords : table[c] = v} = AtDist(v)
      BY <3>2 DEF AtDist
    <3> QED BY <3>3 DEF IInv, Counts, Count
  <2>4. {c \in Coords : table[c] # Unset} = Below(d)
    BY <2>2 DEF Below
  <2> QED BY <2>3, <2>4 DEF IInv, Counts
<1> QED BY <1>1, Invariance, PTL

(* No step of the generator changes an entry that is set: what a thread    *)
(* stores of the other half of a byte is what it holds.                    *)
THEOREM NoMarkIsLost == Spec => NoLostUpdate
<1>1. IInv /\ [Next]_vars =>
        [\A c \in Coords : table[c] # Unset => table'[c] = table[c]]_vars
  <2> SUFFICES ASSUME IInv, Next, NEW c \in Coords, table[c] # Unset
               PROVE  table'[c] = table[c]
    OBVIOUS
  <2>1. CASE \E t \in Threads : Store(t)
    <3>1. PICK t \in Threads : Store(t)
      BY <2>1
    <3> QED BY <3>1, StoreIsUpdate, Types
  <2>2. CASE ~\E t \in Threads : Store(t)
    BY <2>2, EntriesOnlyAdded
       DEF Next, MainStep, CreateThreads, JoinThreads, Return, Returned, vars
  <2> QED BY <2>1, <2>2
<1> QED BY <1>1, Invariance, PTL DEF Spec, NoLostUpdate

-----------------------------------------------------------------------------
(* The generator implements the breadth-first search of DistanceTable.     *)
LEMMA RefineInit == ASSUME Init PROVE Distances!Init
<1>1. \A c \in Coords : Dist[c] = 0 <=> c = Solved
  BY DistanceAssumption
<1> QED BY <1>1, ParametersAssumption DEF Init, Distances!Init

(* Storing a byte sets the entry to the distance, a step of the promise.   *)
LEMMA StoreLearns ==
  ASSUME IInv, NEW t \in Threads, Store(t)
  PROVE  Distances!Learn
<1>1. /\ pc[t] = "store" /\ pc_main = "join" /\ UNCHANGED main
  BY Frame DEF Store, ThreadStep
<1>2. Coord(t) \in Coords /\ Dist[Coord(t)] = d
  BY <1>1, InHand DEF Marking, Locking
<1>3. table' = [table EXCEPT ![Coord(t)] = d] /\ table[Coord(t)] \in {d, Unset}
  BY StoreIsUpdate
<1>4. table \in [Coords -> 0 .. Unset] /\ d <= maxdepth
  BY <1>1, Types DEF IInv, Running
<1>5. ASSUME NEW c \in Coords, table'[c] # table[c]
      PROVE  Distances!Learnt(c)
  <2>1. c = Coord(t) /\ table[c] = Unset /\ table'[c] = d
    BY <1>2, <1>3, <1>4, <1>5
  <2>2. \A b \in Coords : Dist[b] < d => table[b] # Unset
    BY DistType DEF IInv, Exact
  <2> QED BY <1>2, <1>4, <2>1, <2>2 DEF Distances!Learnt
<1>6. DOMAIN table' = Coords
  BY <1>3, <1>4
<1> QED BY <1>1, <1>5, <1>6 DEF Distances!Learn, main

(* The generator returns only with the table done.                         *)
LEMMA ReturnFinishes ==
  ASSUME IInv, Return
  PROVE  Distances!Finish
<1>1. pc_main = "loop" /\ pc_main' = "done" /\ ~MoreDepths /\ UNCHANGED <<maxdepth, table>>
  BY DEF Return
<1>2. ASSUME NEW c \in Coords, Dist[c] <= maxdepth
      PROVE  table[c] # Unset
  <2>1. Dist[c] < d
    <3>1. d \in Nat /\ maxdepth \in Nat /\ Dist[c] \in Nat
      BY Types, DistType, ParametersAssumption DEF IInv, TypeOK
    <3>2. CASE d > maxdepth
      BY <1>2, <3>1, <3>2
    <3>3. CASE done >= CoordMax
      <4>1. Below(d) \in SUBSET Coords /\ done = Cardinality(Below(d)) /\ CoordMax \in Nat
        BY ParametersAssumption DEF Below, IInv, Counts
      <4>2. Below(d) = Coords
        BY <3>3, <4>1, SubsetsFinite
      <4> QED BY <4>2 DEF Below
    <3>4. done \in Nat /\ CoordMax \in Nat
      BY ParametersAssumption DEF IInv, TypeOK
    <3> QED BY <1>1, <3>1, <3>2, <3>3, <3>4 DEF MoreDepths
  <2> QED BY <2>1, DistType DEF IInv, Exact
<1> QED BY <1>1, <1>2 DEF Distances!Finish

(* Every step is one of the promise or none.                               *)
LEMMA RefineStep ==
  ASSUME IInv, [Next]_vars
  PROVE  [Distances!Next]_(Distances!vars)
<1>1. CASE \E t \in Threads : Store(t)
  BY <1>1, StoreLearns DEF Distances!Next
<1>2. CASE Return
  BY <1>2, ReturnFinishes DEF Distances!Next
<1>3. CASE ~Return /\ ~\E t \in Threads : Store(t)
  <2>1. CASE \E t \in Threads : ThreadStep(t)
    BY <1>3, <2>1, EntriesOnlyAdded, Frame DEF Distances!vars, main
  <2>2. CASE CreateThreads \/ JoinThreads
    BY <2>2 DEF CreateThreads, JoinThreads, Distances!vars
  <2>3. CASE Returned \/ UNCHANGED vars
    BY <2>3 DEF Returned, vars, main, Distances!vars
  <2> QED BY <1>3, <2>1, <2>2, <2>3 DEF Next, MainStep
<1> QED BY <1>1, <1>2, <1>3

(* The threads together compute distances, one depth after the other, and  *)
(* the generator returns with every one within the depth asked for.        *)
THEOREM GeneratorImplementsDistanceTable == Spec => ImplementsDistanceTable
<1>1. Init => Distances!Init
  BY RefineInit
<1>2. IInv /\ [Next]_vars => [Distances!Next]_(Distances!vars)
  BY RefineStep
<1> QED BY <1>1, <1>2, Invariance, PTL DEF Spec, ImplementsDistanceTable, Distances!Spec
=============================================================================
