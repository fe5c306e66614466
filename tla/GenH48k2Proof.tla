---------------------------- MODULE GenH48k2Proof ----------------------------
(***************************************************************************)
(* Proofs about GenH48k2, for any number of threads and of mutexes, any h  *)
(* and base, any map and any graph of positions: entries only decrease,    *)
(* none falls below the value that its distance gives it, and if no short  *)
(* cube is in the last slot of the map each one gets to that value.        *)
(***************************************************************************)
EXTENDS GenH48k2, H48MapProof

Nodes == [cube : Cubes, path : Seq(Moves)]
DistOf(c) == KeyDist[Key[c]]

(* A value that an entry may have: some position with that coordinate is   *)
(* not farther than the value says.                                        *)
Justified(c, v) == \E k \in Keys : Coord(k, h) = c /\ KeyDist[k] <= base + v

Types ==
  /\ <<h, base>> \in Requests
  /\ i \in 0 .. shortdepth /\ j \in 0 .. capacity /\ near \in Seq(Seq(Keys))
  /\ table \in [Coords -> 0 .. Unset]
  /\ table_mutex \in [Chunks -> Threads \cup {Free}]
  /\ next \in 0 .. capacity
  /\ pc_main \in {"short", "join", "done", "derived"}
  /\ pc \in [Threads -> {"none", "next", "mark", "store", "exit"}]
  /\ todo \in [Threads -> Seq(Nodes)]
  /\ coords \in [Threads -> Seq(Coords)]
  /\ newval \in [Threads -> 0 .. Unset]
  /\ byte = [t \in Threads |-> byte[t]]

(* The map of short cubes while it is made: no value is below the distance *)
(* of its key.                                                             *)
Farthest == IF i < shortdepth THEN i + 1 ELSE i
Entries(map_, far) ==
  \A s \in Slots : map_.table[s].key \in Nat =>
    /\ map_.table[s].key \in Keys
    /\ KeyDist[map_.table[s].key] <= map_.table[s].val
    /\ map_.table[s].val <= far
ShortOK ==
  /\ MapOK(map) /\ Entries(map, Farthest)
  /\ \A x \in 1 .. Len(near) :
       near[x] # <<>> /\ \A y \in 1 .. Len(near[x]) : KeyDist[near[x][y]] <= i + 1
  /\ near # <<>> => i < shortdepth
  /\ pc_main # "short" => i = shortdepth

(* What a thread has to do: nodes no farther than their path is long, and  *)
(* marks that are justified.                                               *)
Roster(t) ==
  /\ pc_main = "short" <=> pc[t] = "none"
  /\ pc_main \in {"done", "derived"} => pc[t] = "exit"
  /\ pc[t] \in {"none", "exit"} => todo[t] = <<>>
  /\ pc[t] \in {"mark", "store"} <=> coords[t] # <<>>
NodesOK(t) ==
  \A x \in 1 .. Len(todo[t]) :
    /\ Len(todo[t][x].path) <= LastLevel
    /\ DistOf(todo[t][x].cube) <= shortdepth + Len(todo[t][x].path)
MarksOK(t) == \A x \in 1 .. Len(coords[t]) : Justified(coords[t][x], newval[t])

(* Between Load and Store a thread holds the mutex of its byte, and the    *)
(* byte in hand is the one of the table.                                   *)
ByteInHand(t) ==
  pc[t] = "store" =>
    /\ table_mutex[Mutex(Head(coords[t]))] = t
    /\ byte[t] = [b \in ByteOf(Head(coords[t])) |-> table[b]]

TableOK == \A c \in Coords : table[c] = Unset \/ Justified(c, table[c])

IInv ==
  /\ Types /\ ShortOK /\ TableOK
  /\ \A t \in Threads : Roster(t) /\ NodesOK(t) /\ MarksOK(t) /\ ByteInHand(t)

-----------------------------------------------------------------------------
(* The powers of two that a coordinate is shifted by.                      *)
LEMMA Powers ==
  /\ \A n \in 0 .. 11 : 2^n \in Nat \ {0}
  /\ \A m, n \in 0 .. 11 : m + n \in 0 .. 11 => 2^(m + n) = 2^m * 2^n
<1> DEFINE P == [n \in 0 .. 11 |-> 2^n]
<1>1. /\ 2^0 = 1 /\ 2^1 = 2 /\ 2^2 = 4 /\ 2^3 = 8 /\ 2^4 = 16 /\ 2^5 = 32 /\ 2^6 = 64
      /\ 2^7 = 128 /\ 2^8 = 256 /\ 2^9 = 512 /\ 2^10 = 1024 /\ 2^11 = 2048
  OBVIOUS
<1>2. \A n \in 0 .. 11 : P[n] = 2^n
  BY Zenon
<1> HIDE DEF P
<1>3. {0, 1, 2, 3, 4, 5, 6, 7, 8, 9, 10, 11} = 0 .. 11
  OBVIOUS
<1>4. /\ P[0] = 1 /\ P[1] = 2 /\ P[2] = 4 /\ P[3] = 8 /\ P[4] = 16 /\ P[5] = 32
      /\ P[6] = 64 /\ P[7] = 128 /\ P[8] = 256 /\ P[9] = 512 /\ P[10] = 1024 /\ P[11] = 2048
  <2>1. /\ 0 \in 0 .. 11 /\ 1 \in 0 .. 11 /\ 2 \in 0 .. 11 /\ 3 \in 0 .. 11 /\ 4 \in 0 .. 11
        /\ 5 \in 0 .. 11 /\ 6 \in 0 .. 11 /\ 7 \in 0 .. 11 /\ 8 \in 0 .. 11
        /\ 9 \in 0 .. 11 /\ 10 \in 0 .. 11 /\ 11 \in 0 .. 11
    OBVIOUS
  <2>2. /\ P[0] = 2^0 /\ P[1] = 2^1 /\ P[2] = 2^2 /\ P[3] = 2^3 /\ P[4] = 2^4 /\ P[5] = 2^5
        /\ P[6] = 2^6 /\ P[7] = 2^7 /\ P[8] = 2^8 /\ P[9] = 2^9 /\ P[10] = 2^10
        /\ P[11] = 2^11
    BY <1>2, <2>1, Zenon
  <2> QED BY <1>1, <2>2
<1>5. \A n \in 0 .. 11 : P[n] \in Nat \ {0}
  BY <1>3, <1>4
<1>6. ASSUME NEW m \in 0 .. 11, NEW n \in 0 .. 11, m + n \in 0 .. 11
      PROVE  P[m + n] = P[m] * P[n]
  <2>0. m \in {0, 1, 2, 3, 4, 5, 6, 7, 8, 9, 10, 11} /\ n \in {0, 1, 2, 3, 4, 5, 6, 7, 8, 9, 10, 11}
    BY <1>3
  <2>1. CASE m \in {0, 1, 2}
    BY <1>4, <1>6, <2>0, <2>1
  <2>2. CASE m \in {3, 4, 5}
    BY <1>4, <1>6, <2>0, <2>2
  <2>3. CASE m \in {6, 7, 8, 9, 10, 11}
    <3>1. n \in {0, 1, 2, 3, 4, 5}
      BY <1>6, <2>0, <2>3
    <3> QED BY <1>4, <1>6, <2>3, <3>1
  <2> QED BY <2>0, <2>1, <2>2, <2>3
<1>7. \A n \in 0 .. 11 : 2^n \in Nat \ {0}
  BY <1>2, <1>5, Zenon
<1>8. \A m, n \in 0 .. 11 : m + n \in 0 .. 11 => 2^(m + n) = 2^m * 2^n
  BY <1>2, <1>6, Zenon
<1> QED BY <1>7, <1>8, Zenon

(* Quotients.                                                              *)
LEMMA Quotient ==
  ASSUME NEW w \in Nat \ {0}, NEW x \in Nat
  PROVE  /\ x \div w \in Nat
         /\ w * (x \div w) <= x /\ x < w * (x \div w) + w
  OBVIOUS

LEMMA QuotientIs ==
  ASSUME NEW w \in Nat \ {0}, NEW q \in Nat, NEW r \in 0 .. w-1
  PROVE  (w * q + r) \div w = q
  OBVIOUS

LEMMA QuotientBelow ==
  ASSUME NEW w \in Nat \ {0}, NEW q \in Nat, NEW x \in Nat, x < w * q
  PROVE  x \div w < q
<1> DEFINE p == x \div w
<1>1. p \in Nat /\ w * p <= x
  BY Quotient
<1>2. ASSUME q <= p PROVE FALSE
  <2>1. w * q <= w * p
    BY <1>1, <1>2
  <2>2. w * q \in Nat /\ w * p \in Nat
    BY <1>1
  <2> QED BY <1>1, <2>1, <2>2
<1> QED BY <1>1, <1>2

(* The width of a coordinate: 2^(HMAX - hh) keys have the same.            *)
LEMMA Width ==
  ASSUME NEW hh \in 0 .. HMAX
  PROVE  /\ Shift(HMAX, hh) \in Nat \ {0}
         /\ KeyMax \div Shift(HMAX, hh) \in Nat
         /\ KeyMax = Shift(HMAX, hh) * (KeyMax \div Shift(HMAX, hh))
<1> DEFINE e == HMAX - hh
<1>1. e \in 0 .. 11 /\ hh \in 0 .. 11 /\ e + hh = HMAX /\ HMAX \in 0 .. 11
  BY ParametersAssumption
<1> HIDE DEF e
<1>2. 2^e \in Nat \ {0} /\ 2^hh \in Nat \ {0} /\ 2^(e + hh) = 2^e * 2^hh
  BY <1>1, Powers, Zenon
<1>3. 2^HMAX = 2^e * 2^hh
  BY <1>1, <1>2, Zenon
<1> DEFINE W == 2^e  V == 2^hh  X == 2^HMAX
<1>4. W \in Nat \ {0} /\ V \in Nat \ {0} /\ X = W * V
  BY <1>2, <1>3, Zenon
<1>5. KeyMax \in Nat /\ KeyMax % X = 0
  BY ParametersAssumption, Zenon
<1>6. Shift(HMAX, hh) = W
  BY Zenon DEF Shift, e
<1> HIDE DEF W, V, X
<1>7. X \in Nat \ {0}
  BY <1>4
<1>8. KeyMax = X * (KeyMax \div X) /\ KeyMax \div X \in Nat
  BY <1>5, <1>7
<1> DEFINE q == KeyMax \div X
<1>9. V * q \in Nat /\ KeyMax = W * (V * q)
  BY <1>4, <1>8
<1>10. KeyMax \div W = V * q
  <2> DEFINE r == V * q
  <2>1. r \in Nat /\ KeyMax = W * r + 0
    BY <1>9, <1>4
  <2> HIDE DEF r
  <2>2. (W * r + 0) \div W = r
    BY <1>4, <2>1, QuotientIs
  <2> QED BY <2>1, <2>2 DEF r
<1> QED BY <1>4, <1>6, <1>9, <1>10

(* Every key has a coordinate, and every coordinate has a key.             *)
LEMMA CoordType ==
  ASSUME NEW hh \in 0 .. HMAX, NEW k \in Keys
  PROVE  Coord(k, hh) \in CoordsOf(hh)
<1> DEFINE W == Shift(HMAX, hh)  q == KeyMax \div Shift(HMAX, hh)
<1>1. W \in Nat \ {0} /\ q \in Nat /\ KeyMax = W * q
  BY Width
<1>2. k \in Nat /\ k < W * q
  BY <1>1, ParametersAssumption DEF Keys
<1> HIDE DEF W, q
<1>3. k \div W < q /\ k \div W \in Nat
  BY <1>1, <1>2, QuotientBelow, Quotient
<1> QED BY <1>1, <1>3 DEF Coord, CoordsOf, W, q

LEMMA CoordHasKey ==
  ASSUME NEW hh \in 0 .. HMAX, NEW c \in CoordsOf(hh)
  PROVE  \E k \in Keys : Coord(k, hh) = c
<1> DEFINE W == Shift(HMAX, hh)  q == KeyMax \div Shift(HMAX, hh)
<1>1. W \in Nat \ {0} /\ q \in Nat /\ KeyMax = W * q
  BY Width
<1>2. c \in Nat /\ c + 1 <= q
  BY <1>1 DEF CoordsOf
<1>3. (W * c + 0) \div W = c
  BY <1>1, <1>2, QuotientIs
<1> HIDE DEF W, q
<1>4. W * c + 0 = W * c /\ W * c \in Nat
  BY <1>1, <1>2
<1>5. W * (c + 1) <= W * q
  BY <1>1, <1>2
<1>6. W * (c + 1) = W * c + W
  BY <1>1, <1>2
<1>7. W * c \in Keys
  BY <1>1, <1>4, <1>5, <1>6 DEF Keys
<1> QED BY <1>3, <1>4, <1>7 DEF Coord, W

(* The keys of the similar positions.                                      *)
LEMMA SimsType ==
  ASSUME NEW c \in Cubes
  PROVE  /\ Sims(c) \in Seq(Keys) /\ Sims(c) # <<>>
         /\ \A x \in 1 .. Len(Sims(c)) : KeyDist[Sims(c)[x]] = DistOf(c)
<1>1. Similar[c] \in Seq(Cubes) /\ Key \in [Cubes -> Keys]
  BY ParametersAssumption
<1>2. Sims(c) \in Seq(Keys) /\ Len(Sims(c)) = Len(Similar[c])
  BY <1>1 DEF Sims
<1>3. \A x \in 1 .. Len(Sims(c)) : Similar[c][x] \in Cubes /\ Sims(c)[x] = Key[Similar[c][x]]
  BY <1>1, <1>2 DEF Sims
<1>4. IsSimilar(Key[c], c)
  BY SimilarityAssumption
<1>5. Sims(c) # <<>>
  BY <1>2, <1>4 DEF IsSimilar
<1>6. ASSUME NEW x \in 1 .. Len(Sims(c)) PROVE KeyDist[Sims(c)[x]] = DistOf(c)
  <2>1. IsSimilar(Key[Similar[c][x]], c) /\ Similar[c][x] \in Cubes
    BY <1>3 DEF IsSimilar
  <2>2. KeyDist[Key[Similar[c][x]]] = KeyDist[Key[c]]
    BY <2>1, SimilarityAssumption
  <2> QED BY <1>3, <2>2 DEF DistOf
<1> QED BY <1>2, <1>5, <1>6

LEMMA DistType == \A c \in Cubes : DistOf(c) \in Nat
BY ParametersAssumption, DistanceAssumption DEF DistOf

(* The depth of the search.                                                *)
LEMMA Levels ==
  ASSUME <<h, base>> \in Requests
  PROVE  /\ h \in 0 .. HMAX /\ base \in Nat /\ shortdepth \in Nat
         /\ d \in {-2, -1, 0} /\ shortdepth = base + d /\ shortdepth <= base
         /\ LastLevel \in 2 .. 4 /\ d + LastLevel = 2
<1>1. h \in 0 .. HMAX /\ base \in shortdepth .. shortdepth + 2
  BY RequestsAssumption
<1>2. shortdepth \in Nat
  BY ParametersAssumption
<1> QED BY <1>1, <1>2 DEF d, LastLevel

-----------------------------------------------------------------------------
(* An insertion with a value that is not below the distance.               *)
LEMMA InsertKeepsEntries ==
  ASSUME NEW m, MapOK(m), NEW far \in 0 .. MAP_UNSET_VAL, Entries(m, far),
         NEW x \in Keys, NEW v \in 0 .. far, KeyDist[x] <= v, Ends(m, x)
  PROVE  MapOK(h48map_insertmin(m, x, v)) /\ Entries(h48map_insertmin(m, x, v), far)
<1> DEFINE new == h48map_insertmin(m, x, v)
           l   == h48map_lookup(m, x)
<1>1. x \in Nat /\ v \in 0 .. MAP_UNSET_VAL
  BY DEF Keys, MAP_UNSET_VAL
<1>2. l \in Slots /\ Inserted(m, new, l, x, v)
  BY <1>1, InsertedWhere
<1>3. MapOK(new)
  BY <1>1, InsertKeepsOK
<1> HIDE DEF new, l
<1>4. KeyDist \in [Keys -> Nat]
  BY DistanceAssumption
<1>5. /\ new.table[l].key = x
      /\ new.table[l].val = IF m.table[l].key = x /\ m.table[l].val < v THEN m.table[l].val ELSE v
      /\ \A s \in Slots : s # l => new.table[s] = m.table[s]
  BY <1>2 DEF Inserted
<1>6. m.table[l].key = x => KeyDist[x] <= m.table[l].val /\ m.table[l].val <= far
  BY <1>1, <1>2 DEF Entries
<1>7. m.table[l].val \in Nat
  BY <1>2 DEF MapOK
<1>8. KeyDist[x] <= new.table[l].val /\ new.table[l].val <= far
  BY <1>4, <1>5, <1>6, <1>7, <1>1
<1>9. ASSUME NEW s \in Slots, new.table[s].key \in Nat
      PROVE  /\ new.table[s].key \in Keys
             /\ KeyDist[new.table[s].key] <= new.table[s].val
             /\ new.table[s].val <= far
  <2>1. CASE s = l
    BY <1>5, <1>8, <2>1
  <2>2. CASE s # l
    BY <1>5, <1>9, <2>2 DEF Entries
  <2> QED BY <2>1, <2>2
<1> QED BY <1>3, <1>9 DEF Entries, new

LEMMA InitIInv == Init => IInv
<1> SUFFICES ASSUME Init PROVE IInv
  OBVIOUS
<1>1. <<h, base>> \in Requests
  <2>1. PICK q \in Requests : h = q[1] /\ base = q[2]
    BY DEF Init
  <2>2. q \in (0 .. HMAX) \X (shortdepth .. shortdepth + 2)
    BY RequestsAssumption
  <2>3. q = <<h, base>>
    BY <2>1, <2>2
  <2> QED BY <2>3
<1>2. shortdepth \in 0 .. MAP_UNSET_VAL - 1 /\ capacity \in Nat \ {0} /\ MAP_UNSET_VAL \in Nat
  BY ParametersAssumption, CapacityAssumption DEF MAP_UNSET_VAL
<1>3. Key[SOLVED_CUBE] \in Keys /\ KeyDist[Key[SOLVED_CUBE]] = 0
  BY ParametersAssumption, DistanceAssumption
<1>4. Types
  BY <1>1, <1>2 DEF Init, Types, Unset
<1>5. Ends(h48map_create, Key[SOLVED_CUBE])
  <2>1. 0 \in Slots /\ Key[SOLVED_CUBE] \in Nat
    BY <1>2, <1>3 DEF Slots, Keys
  <2>2. Probe(Key[SOLVED_CUBE], 0) \in Slots
    BY <2>1, ProbeIsSlot
  <2>3. StopsAt(h48map_create, Key[SOLVED_CUBE], 0)
    BY <2>2, CreatedOK DEF StopsAt, MAP_UNSET
  <2> QED BY <2>1, <2>3 DEF Ends
<1>6. Entries(h48map_create, Farthest) /\ MapOK(h48map_create)
  BY CreatedOK DEF Entries, MAP_UNSET, MAP_KEYMASK
<1>7. Farthest \in 0 .. MAP_UNSET_VAL /\ 0 \in 0 .. Farthest
  BY <1>2 DEF Init, Farthest
<1>8. MapOK(map) /\ Entries(map, Farthest)
  BY <1>3, <1>5, <1>6, <1>7, InsertKeepsEntries DEF Init
<1>9. ShortOK
  BY <1>8 DEF Init, ShortOK
<1>10. TableOK
  BY DEF Init, TableOK
<1>11. ASSUME NEW t \in Threads PROVE Roster(t) /\ NodesOK(t) /\ MarksOK(t) /\ ByteInHand(t)
  BY DEF Init, Roster, NodesOK, MarksOK, ByteInHand
<1> QED BY <1>4, <1>9, <1>10, <1>11 DEF IInv

(* What stays true of a thread when a step leaves it and the table alone.  *)
ThreadOK(t) == Roster(t) /\ NodesOK(t) /\ MarksOK(t) /\ ByteInHand(t)

LEMMA ShortStays ==
  ASSUME ShortOK, UNCHANGED <<map, i, near>>, pc_main' = pc_main
  PROVE  ShortOK'
BY DEF ShortOK, Entries, Farthest, MapOK, Occupied, Reached, StopsAt

LEMMA TableStays ==
  ASSUME UNCHANGED <<h, base, table>>
  PROVE  /\ Coords' = Coords /\ d' = d /\ LastLevel' = LastLevel
         /\ TableOK => TableOK'
         /\ \A c, v : Justified(c, v)' <=> Justified(c, v)
BY DEF Coords, TableOK, Justified, d, LastLevel

LEMMA ThreadStays ==
  ASSUME UNCHANGED <<h, base, table, pc_main>>, NEW t \in Threads, ThreadOK(t),
         pc'[t] = pc[t], todo'[t] = todo[t], coords'[t] = coords[t],
         newval'[t] = newval[t], byte'[t] = byte[t],
         \A c : table_mutex[c] = t => table_mutex'[c] = t
  PROVE  ThreadOK(t)'
<1>1. Roster(t)'
  BY DEF ThreadOK, Roster
<1>2. NodesOK(t)'
  BY TableStays DEF ThreadOK, NodesOK
<1>3. MarksOK(t)'
  BY TableStays DEF ThreadOK, MarksOK
<1>4. ByteInHand(t)'
  BY DEF ThreadOK, ByteInHand, ByteOf, Coords
<1> QED BY <1>1, <1>2, <1>3, <1>4 DEF ThreadOK

(* The loops of gendata_h48short.                                          *)
LEMMA ShortPairStep ==
  ASSUME IInv, ShortPair
  PROVE  IInv'
<1>0. Types /\ ShortOK /\ \A t \in Threads : ThreadOK(t)
  BY DEF IInv, ThreadOK
<1>1. /\ shortdepth \in 0 .. MAP_UNSET_VAL - 1 /\ capacity \in Nat \ {0}
      /\ KeyDist \in [Keys -> Nat] /\ Key \in [Cubes -> Keys] /\ Rep \in [Keys -> Cubes]
  BY ParametersAssumption, CapacityAssumption, DistanceAssumption
<1> DEFINE r == h48map_nextkvpair(map, j)
<1>2. \/ r.p = capacity
      \/ \E s \in j .. capacity-1 :
           r.p = s + 1 /\ r.kv = map.table[s] /\ map.table[s] # MAP_UNSET
  BY <1>0, NextPair DEF Types
<1>3. /\ i < shortdepth /\ near = <<>> /\ pc_main = "short"
      /\ \/ r.p = capacity /\ i' = i + 1 /\ j' = 0 /\ near' = near
         \/ /\ r.p # capacity /\ j' = r.p /\ i' = i
            /\ near' = IF r.kv.val = i THEN Neighbours(Rep[r.kv.key]) ELSE <<>>
      /\ UNCHANGED <<h, base, map, table, table_mutex, next, pc_main, pc, todo, coords,
                     newval, byte>>
  BY DEF ShortPair, search
<1> HIDE DEF r
<1>4. Types' /\ ShortOK'
  <2>1. CASE r.p = capacity
    <3>1. i' = i + 1 /\ j' = 0 /\ near' = <<>> /\ i < shortdepth
      BY <1>3, <2>1
    <3>2. Types'
      BY <1>0, <1>1, <1>3, <3>1 DEF Types, Coords
    <3>3. Farthest \in Nat /\ Farthest' \in Nat /\ Farthest <= Farthest'
      BY <1>0, <1>1, <3>1 DEF Types, Farthest
    <3>4. Entries(map, Farthest')
      <4>1. Entries(map, Farthest) /\ MapOK(map)
        BY <1>0 DEF ShortOK
      <4>2. \A s \in Slots : map.table[s].val \in Nat
        BY <4>1 DEF MapOK
      <4> QED BY <3>3, <4>1, <4>2 DEF Entries
    <3>5. map' = map /\ MapOK(map)
      BY <1>0, <1>3 DEF ShortOK
    <3>6. ShortOK'
      BY <1>3, <3>1, <3>4, <3>5 DEF ShortOK
    <3> QED BY <3>2, <3>6
  <2>2. CASE r.p # capacity
    <3>1. /\ j' = r.p /\ i' = i
          /\ near' = IF r.kv.val = i THEN Neighbours(Rep[r.kv.key]) ELSE <<>>
      BY <1>3, <2>2
    <3>2. PICK s \in j .. capacity-1 :
            r.p = s + 1 /\ r.kv = map.table[s] /\ map.table[s] # MAP_UNSET
      BY <1>2, <2>2
    <3>3. s \in Slots /\ r.p \in 0 .. capacity
      BY <1>0, <1>1, <3>2 DEF Types, Slots
    <3>4. map.table[s].key \in Nat
      BY <1>0, <3>2, <3>3 DEF ShortOK, MapOK
    <3>5. map.table[s].key \in Keys /\ KeyDist[map.table[s].key] <= map.table[s].val
      BY <1>0, <3>3, <3>4 DEF ShortOK, Entries
    <3>6. /\ near' \in Seq(Seq(Keys))
          /\ \A x \in 1 .. Len(near') :
               near'[x] # <<>> /\ \A y \in 1 .. Len(near'[x]) : KeyDist[near'[x][y]] <= i + 1
      <4>1. CASE r.kv.val # i
        BY <3>1, <4>1
      <4>2. CASE r.kv.val = i
        <5> DEFINE c == Rep[r.kv.key]
        <5>1. c \in Cubes /\ DistOf(c) <= i
          BY <1>1, <3>2, <3>5, <4>2, ParametersAssumption DEF DistOf
        <5> HIDE DEF c
        <5>2. near' = [m \in Moves |-> Sims(Turns[c][m])]
          BY <3>1, <4>2 DEF Neighbours, c
        <5>3. Moves = 1 .. Len(Face) /\ Len(Face) \in Nat
          BY ParametersAssumption DEF Moves
        <5>4. \A m \in Moves : Turns[c][m] \in Cubes /\ DistOf(Turns[c][m]) <= DistOf(c) + 1
          BY <5>1, ParametersAssumption, DistanceAssumption DEF DistOf
        <5>5. \A m \in Moves :
                /\ Sims(Turns[c][m]) \in Seq(Keys) /\ Sims(Turns[c][m]) # <<>>
                /\ \A y \in 1 .. Len(Sims(Turns[c][m])) :
                     KeyDist[Sims(Turns[c][m])[y]] = DistOf(Turns[c][m])
          BY <5>4, SimsType
        <5>6. near' \in Seq(Seq(Keys)) /\ Len(near') = Len(Face)
          BY <5>2, <5>3, <5>5
        <5>7. ASSUME NEW x \in 1 .. Len(near')
              PROVE  near'[x] # <<>> /\ \A y \in 1 .. Len(near'[x]) : KeyDist[near'[x][y]] <= i + 1
          <6>1. x \in Moves /\ near'[x] = Sims(Turns[c][x])
            BY <5>2, <5>3, <5>6
          <6>2. DistOf(Turns[c][x]) \in Nat /\ DistOf(c) \in Nat /\ i \in Nat
            BY <1>0, <1>1, <5>1, <5>4, <6>1 DEF DistOf, Types
          <6> QED BY <5>1, <5>4, <5>5, <6>1, <6>2
        <5> QED BY <5>6, <5>7
      <4> QED BY <4>1, <4>2
    <3>7. Types'
      BY <1>0, <1>3, <3>1, <3>3, <3>6 DEF Types, Coords
    <3>8. Farthest' = Farthest /\ map' = map
      BY <1>3, <3>1 DEF Farthest
    <3>9. ShortOK'
      BY <1>0, <1>3, <3>1, <3>6, <3>8 DEF ShortOK
    <3> QED BY <3>7, <3>9
  <2> QED BY <2>1, <2>2
<1>5. TableOK'
  BY <1>3, TableStays DEF IInv
<1>6. \A t \in Threads : ThreadOK(t)'
  BY <1>0, <1>3, ThreadStays
<1> QED BY <1>4, <1>5, <1>6 DEF IInv, ThreadOK

LEMMA ShortInsertStep ==
  ASSUME IInv, ShortInsert
  PROVE  IInv'
<1>0. Types /\ ShortOK /\ \A t \in Threads : ThreadOK(t)
  BY DEF IInv, ThreadOK
<1> DEFINE keys == Head(near)
<1>1. /\ near # <<>> /\ pc_main = "short" /\ Ends(map, Head(keys))
      /\ map' = h48map_insertmin(map, Head(keys), i + 1)
      /\ near' = IF Len(keys) = 1 THEN Tail(near) ELSE <<Tail(keys)>> \o Tail(near)
      /\ UNCHANGED <<h, base, i, j, table, table_mutex, next, pc_main, pc, todo, coords,
                     newval, byte>>
  BY DEF ShortInsert, search
<1>2. i \in Nat /\ shortdepth \in 0 .. MAP_UNSET_VAL - 1 /\ MAP_UNSET_VAL \in Nat /\ i < shortdepth
  BY <1>0, <1>1, ParametersAssumption DEF Types, ShortOK, MAP_UNSET_VAL
<1>3. Farthest = i + 1 /\ Farthest \in 0 .. MAP_UNSET_VAL /\ i + 1 \in 0 .. Farthest
  BY <1>2 DEF Farthest
<1>4. /\ near \in Seq(Seq(Keys)) /\ near # <<>>
      /\ \A x \in 1 .. Len(near) :
           near[x] # <<>> /\ \A y \in 1 .. Len(near[x]) : KeyDist[near[x][y]] <= i + 1
  BY <1>0, <1>1 DEF Types, ShortOK
<1>5. keys \in Seq(Keys) /\ keys # <<>> /\ \A y \in 1 .. Len(keys) : KeyDist[keys[y]] <= i + 1
  BY <1>4
<1> HIDE DEF keys
<1>6. Head(keys) \in Keys /\ KeyDist[Head(keys)] <= i + 1
  BY <1>5
<1>7. MapOK(map') /\ Entries(map', Farthest)
  <2>1. MapOK(map) /\ Entries(map, Farthest)
    BY <1>0 DEF ShortOK
  <2> QED BY <1>1, <1>3, <1>6, <2>1, InsertKeepsEntries
<1>8. /\ near' \in Seq(Seq(Keys))
      /\ \A x \in 1 .. Len(near') :
           near'[x] # <<>> /\ \A y \in 1 .. Len(near'[x]) : KeyDist[near'[x][y]] <= i + 1
  <2>1. /\ Tail(near) \in Seq(Seq(Keys))
        /\ \A x \in 1 .. Len(Tail(near)) :
             /\ Tail(near)[x] # <<>>
             /\ \A y \in 1 .. Len(Tail(near)[x]) : KeyDist[Tail(near)[x][y]] <= i + 1
    BY <1>4
  <2>2. CASE Len(keys) = 1
    BY <1>1, <2>1, <2>2
  <2>3. CASE Len(keys) # 1
    <3> DEFINE a == Tail(keys)  q == Tail(near)
    <3>0. a \in Seq(Keys) /\ Len(a) = Len(keys) - 1 /\ Len(keys) \in Nat \ {0}
      BY <1>5
    <3>1. a \in Seq(Keys) /\ a # <<>> /\ \A y \in 1 .. Len(a) : KeyDist[a[y]] <= i + 1
      <4>1. a # <<>>
        <5>1. Len(a) # 0
          BY <2>3, <3>0
        <5> HIDE DEF a
        <5> QED BY <5>1
      <4>2. \A y \in 1 .. Len(a) : a[y] = keys[y+1] /\ y + 1 \in 1 .. Len(keys)
        BY <1>5, <3>0
      <4> QED BY <1>5, <3>0, <4>1, <4>2
    <3>2. near' = <<a>> \o q
      BY <1>1, <2>3
    <3> HIDE DEF a, q
    <3>3. q \in Seq(Seq(Keys)) /\ <<a>> \in Seq(Seq(Keys))
      BY <2>1, <3>1 DEF q
    <3>4. near' \in Seq(Seq(Keys)) /\ Len(near') = Len(q) + 1
      BY <3>2, <3>3
    <3>5. near'[1] = a /\ \A x \in 2 .. Len(q) + 1 : near'[x] = q[x-1]
      BY <3>2, <3>3
    <3>6. \A x \in 2 .. Len(q) + 1 : x - 1 \in 1 .. Len(q)
      BY <3>3
    <3>7. \A x \in 1 .. Len(q) + 1 : x = 1 \/ x \in 2 .. Len(q) + 1
      BY <3>3
    <3>8. ASSUME NEW x \in 1 .. Len(near')
          PROVE  near'[x] # <<>> /\ \A y \in 1 .. Len(near'[x]) : KeyDist[near'[x][y]] <= i + 1
      <4>1. CASE x = 1
        BY <3>1, <3>5, <4>1
      <4>2. CASE x \in 2 .. Len(q) + 1
        BY <2>1, <3>5, <3>6, <4>2 DEF q
      <4> QED BY <3>4, <3>7, <4>1, <4>2
    <3> QED BY <3>4, <3>8
  <2> QED BY <2>2, <2>3
<1>9. Types'
  BY <1>0, <1>1, <1>8 DEF Types, Coords
<1>10. Farthest' = Farthest
  BY <1>1 DEF Farthest
<1>11. ShortOK'
  BY <1>0, <1>1, <1>2, <1>7, <1>8, <1>10 DEF ShortOK
<1>12. TableOK'
  BY <1>1, TableStays DEF IInv
<1>13. \A t \in Threads : ThreadOK(t)'
  BY <1>0, <1>1, ThreadStays
<1> QED BY <1>9, <1>11, <1>12, <1>13 DEF IInv, ThreadOK

-----------------------------------------------------------------------------
(* Sequences, element by element.                                          *)
LEMMA Tails ==
  ASSUME NEW S, NEW q \in Seq(S), q # <<>>
  PROVE  /\ Head(q) \in S /\ Head(q) = q[1] /\ 1 \in 1 .. Len(q)
         /\ Tail(q) \in Seq(S) /\ Len(Tail(q)) = Len(q) - 1
         /\ \A x \in 1 .. Len(Tail(q)) : x + 1 \in 1 .. Len(q) /\ Tail(q)[x] = q[x+1]
         /\ Tail(q) = <<>> <=> Len(q) = 1
<1>1. /\ Head(q) \in S /\ Head(q) = q[1] /\ 1 \in 1 .. Len(q)
      /\ Tail(q) \in Seq(S) /\ Len(Tail(q)) = Len(q) - 1 /\ Len(q) \in Nat
      /\ \A x \in 1 .. Len(Tail(q)) : x + 1 \in 1 .. Len(q) /\ Tail(q)[x] = q[x+1]
  OBVIOUS
<1> DEFINE a == Tail(q)
<1>2. a \in Seq(S) /\ Len(a) = Len(q) - 1 /\ Len(q) \in Nat
  BY <1>1
<1> HIDE DEF a
<1>3. Len(a) = 0 => a = <<>>
  <2>1. ASSUME Len(a) = 0 PROVE \A x \in 1 .. Len(a) : FALSE
    BY <2>1
  <2> QED BY <1>2, <2>1
<1>4. Len(<<>>) = 0
  OBVIOUS
<1>5. a = <<>> <=> Len(q) = 1
  BY <1>2, <1>3, <1>4
<1> QED BY <1>1, <1>5 DEF a

LEMMA Joined2 ==
  ASSUME NEW S, NEW p \in Seq(S), NEW q \in Seq(S)
  PROVE  /\ p \o q \in Seq(S) /\ Len(p \o q) = Len(p) + Len(q)
         /\ \A x \in 1 .. Len(p) : (p \o q)[x] = p[x]
         /\ \A x \in 1 .. Len(q) : (p \o q)[Len(p) + x] = q[x]
         /\ \A x \in 1 .. Len(p \o q) :
              x \in 1 .. Len(p) \/ \E y \in 1 .. Len(q) : x = Len(p) + y
<1>1. Len(p) \in Nat /\ Len(q) \in Nat
  OBVIOUS
<1>2. /\ p \o q \in Seq(S) /\ Len(p \o q) = Len(p) + Len(q)
      /\ \A x \in 1 .. Len(p) : (p \o q)[x] = p[x]
  OBVIOUS
<1>3. ASSUME NEW x \in 1 .. Len(q) PROVE (p \o q)[Len(p) + x] = q[x]
  <2>1. Len(p) + x \in 1 .. Len(p) + Len(q) /\ ~(Len(p) + x <= Len(p)) /\ Len(p) + x - Len(p) = x
    BY <1>1
  <2> QED BY <2>1
<1>4. ASSUME NEW x \in 1 .. Len(p) + Len(q), x \notin 1 .. Len(p)
      PROVE  \E y \in 1 .. Len(q) : x = Len(p) + y
  <2>1. x - Len(p) \in 1 .. Len(q) /\ x = Len(p) + (x - Len(p))
    BY <1>1, <1>4
  <2> QED BY <2>1
<1> QED BY <1>2, <1>3, <1>4

LEMMA CreateThreadsStep ==
  ASSUME IInv, CreateThreads
  PROVE  IInv'
<1>0. Types /\ ShortOK /\ \A t \in Threads : ThreadOK(t)
  BY DEF IInv, ThreadOK
<1>1. /\ pc_main = "short" /\ i = shortdepth /\ pc_main' = "join" /\ pc' = [t \in Threads |-> "next"]
      /\ UNCHANGED <<h, base, map, i, j, near, table, table_mutex, next, todo, coords, newval, byte>>
  BY DEF CreateThreads, short, search
<1>2. Types'
  BY <1>0, <1>1 DEF Types, Coords
<1>3. ShortOK'
  <2>1. Farthest' = Farthest
    BY <1>1 DEF Farthest
  <2> QED BY <1>0, <1>1, <2>1 DEF ShortOK
<1>4. TableOK'
  BY <1>1, TableStays DEF IInv
<1>5. ASSUME NEW t \in Threads PROVE ThreadOK(t)'
  <2>1. todo[t] = <<>> /\ coords[t] = <<>>
    BY <1>0, <1>1 DEF ThreadOK, Roster
  <2> QED BY <1>1, <2>1 DEF ThreadOK, Roster, NodesOK, MarksOK, ByteInHand
<1> QED BY <1>2, <1>3, <1>4, <1>5 DEF IInv, ThreadOK

LEMMA NextShortCubeStep ==
  ASSUME IInv, NEW t \in Threads, NextShortCube(t)
  PROVE  IInv'
<1>0. Types /\ ShortOK /\ \A u \in Threads : ThreadOK(u)
  BY DEF IInv, ThreadOK
<1>1. /\ capacity \in Nat \ {0} /\ KeyDist \in [Keys -> Nat] /\ Rep \in [Keys -> Cubes]
      /\ \A k \in Keys : Key[Rep[k]] = k
  BY ParametersAssumption, CapacityAssumption, DistanceAssumption
<1> DEFINE r == h48map_nextkvpair(map, next)
<1>2. \/ r.p = capacity
      \/ \E s \in next .. capacity-1 :
           r.p = s + 1 /\ r.kv = map.table[s] /\ map.table[s] # MAP_UNSET
  BY <1>0, NextPair DEF Types
<1>3. /\ pc[t] = "next" /\ todo[t] = <<>> /\ next' = r.p
      /\ IF r.p = capacity
         THEN pc' = [pc EXCEPT ![t] = "exit"] /\ todo' = todo /\ coords' = coords /\ newval' = newval
         ELSE IF r.kv.val < shortdepth
         THEN /\ coords' = [coords EXCEPT ![t] = <<Coord(r.kv.key, h)>>]
              /\ newval' = [newval EXCEPT ![t] = 0]
              /\ pc' = [pc EXCEPT ![t] = "mark"] /\ todo' = todo
         ELSE /\ todo' = [todo EXCEPT ![t] = <<Node(Rep[r.kv.key], <<>>)>>]
              /\ pc' = pc /\ coords' = coords /\ newval' = newval
      /\ UNCHANGED <<h, base, map, i, j, near, table, table_mutex, pc_main, byte>>
  BY DEF NextShortCube, short, search
<1> HIDE DEF r
<1>4. pc_main # "short" /\ pc_main \notin {"done", "derived"} /\ coords[t] = <<>> /\ i = shortdepth
  BY <1>0, <1>3 DEF ThreadOK, Roster, ShortOK
<1>5. r.p \in 0 .. capacity
  BY <1>0, <1>1, <1>2 DEF Types
<1>6. ASSUME r.p # capacity
      PROVE  /\ r.kv.key \in Keys /\ r.kv.val \in Nat
             /\ KeyDist[r.kv.key] <= r.kv.val /\ r.kv.val <= shortdepth
  <2>1. PICK s \in next .. capacity-1 : r.kv = map.table[s] /\ map.table[s] # MAP_UNSET
    BY <1>2, <1>6
  <2>2. s \in Slots
    BY <1>0, <1>1 DEF Types, Slots
  <2>3. map.table[s].key \in Nat /\ map.table[s].val \in Nat
    BY <1>0, <2>1, <2>2 DEF ShortOK, MapOK
  <2>4. Farthest = shortdepth
    BY <1>0, <1>4, Levels DEF Farthest, Types
  <2> QED BY <1>0, <2>1, <2>2, <2>3, <2>4 DEF ShortOK, Entries
<1>7. /\ Types' /\ ThreadOK(t)'
  <2>1. CASE r.p = capacity
    <3>1. pc' = [pc EXCEPT ![t] = "exit"] /\ todo' = todo /\ coords' = coords /\ newval' = newval
      BY <1>3, <2>1
    <3>2. Types'
      BY <1>0, <1>3, <1>5, <3>1 DEF Types, Coords
    <3>3. pc'[t] = "exit"
      BY <1>0, <3>1 DEF Types
    <3> QED BY <1>3, <1>4, <3>1, <3>2, <3>3 DEF ThreadOK, Roster, NodesOK, MarksOK, ByteInHand
  <2>2. CASE r.p # capacity /\ r.kv.val < shortdepth
    <3> DEFINE c == Coord(r.kv.key, h)
    <3>1. /\ coords' = [coords EXCEPT ![t] = <<c>>]
          /\ newval' = [newval EXCEPT ![t] = 0]
          /\ pc' = [pc EXCEPT ![t] = "mark"] /\ todo' = todo
      BY <1>3, <2>2
    <3>2. c \in Coords
      BY <1>0, <1>6, <2>2, CoordType, Levels DEF Types, Coords
    <3>3. Justified(c, 0)
      <4>1. KeyDist[r.kv.key] \in Nat /\ base \in Nat /\ shortdepth \in Nat /\ shortdepth <= base
        BY <1>0, <1>1, <1>6, <2>2, Levels DEF Types
      <4>2. KeyDist[r.kv.key] <= base + 0
        BY <1>6, <2>2, <4>1
      <4> QED BY <1>6, <2>2, <4>2 DEF Justified
    <3> HIDE DEF c
    <3>4. Types'
      <4>1. <<c>> \in Seq(Coords)
        BY <3>2
      <4> QED BY <1>0, <1>3, <1>5, <3>1, <4>1 DEF Types, Coords, Unset
    <3>5. coords'[t] = <<c>> /\ newval'[t] = 0 /\ pc'[t] = "mark" /\ todo'[t] = <<>>
      BY <1>0, <1>3, <3>1 DEF Types
    <3>6. MarksOK(t)'
      BY <1>3, <3>3, <3>5, TableStays DEF MarksOK
    <3> QED BY <1>3, <1>4, <3>4, <3>5, <3>6 DEF ThreadOK, Roster, NodesOK, ByteInHand
  <2>3. CASE r.p # capacity /\ ~(r.kv.val < shortdepth)
    <3> DEFINE n == Node(Rep[r.kv.key], <<>>)
    <3>1. todo' = [todo EXCEPT ![t] = <<n>>] /\ pc' = pc /\ coords' = coords /\ newval' = newval
      BY <1>3, <2>3
    <3>2. n \in Nodes /\ n.path = <<>> /\ DistOf(n.cube) <= shortdepth
      <4>1. Rep[r.kv.key] \in Cubes /\ DistOf(Rep[r.kv.key]) <= shortdepth
        <5>1. KeyDist[r.kv.key] \in Nat /\ shortdepth \in Nat
          BY <1>0, <1>1, <1>6, <2>3, Levels DEF Types
        <5> QED BY <1>1, <1>6, <2>3, <5>1 DEF DistOf
      <4> QED BY <4>1 DEF Node, Nodes
    <3> HIDE DEF n
    <3>3. Types'
      <4>1. <<n>> \in Seq(Nodes)
        BY <3>2
      <4> QED BY <1>0, <1>3, <1>5, <3>1, <4>1 DEF Types, Coords
    <3>4. todo'[t] = <<n>> /\ pc'[t] = "next" /\ coords'[t] = <<>>
      BY <1>0, <1>3, <1>4, <3>1 DEF Types
    <3>5. NodesOK(t)'
      <4>1. LastLevel' = LastLevel /\ LastLevel \in Nat /\ shortdepth \in Nat
        BY <1>0, <1>3, Levels, TableStays DEF Types
      <4> QED BY <3>2, <3>4, <4>1 DEF NodesOK
    <3> QED BY <1>3, <1>4, <3>3, <3>4, <3>5 DEF ThreadOK, Roster, MarksOK, ByteInHand
  <2> QED BY <2>1, <2>2, <2>3
<1>8. ASSUME NEW u \in Threads, u # t PROVE ThreadOK(u)'
  <2>1. /\ pc'[u] = pc[u] /\ todo'[u] = todo[u] /\ coords'[u] = coords[u]
        /\ newval'[u] = newval[u] /\ byte'[u] = byte[u]
    BY <1>0, <1>3, <1>8 DEF Types
  <2> QED BY <1>0, <1>3, <2>1, ThreadStays
<1>9. TableOK' /\ ShortOK'
  BY <1>0, <1>3, TableStays, ShortStays DEF IInv
<1> QED BY <1>7, <1>8, <1>9 DEF IInv, ThreadOK

(* The children of a node are nodes, one move further.                     *)
LEMMA ChildrenOK ==
  ASSUME <<h, base>> \in Requests, NEW n \in Nodes, Len(n.path) <= LastLevel,
         DistOf(n.cube) <= shortdepth + Len(n.path)
  PROVE  /\ Children(n) \in Seq(Nodes)
         /\ \A x \in 1 .. Len(Children(n)) :
              /\ Len(Children(n)[x].path) <= LastLevel
              /\ DistOf(Children(n)[x].cube) <= shortdepth + Len(Children(n)[x].path)
<1>1. n.cube \in Cubes /\ n.path \in Seq(Moves) /\ LastLevel \in Nat /\ shortdepth \in Nat
  BY Levels DEF Nodes
<1>2. Moves = 1 .. Len(Face) /\ Len(Face) \in Nat
  BY ParametersAssumption DEF Moves
<1>3. ASSUME NEW m \in Moves
      PROVE  LET e == Node(Turns[n.cube][m], Append(n.path, m))
             IN  e \in Nodes /\ Len(e.path) = Len(n.path) + 1
                 /\ DistOf(e.cube) <= shortdepth + Len(e.path)
  <2>1. Turns[n.cube][m] \in Cubes /\ DistOf(Turns[n.cube][m]) <= DistOf(n.cube) + 1
    BY <1>1, ParametersAssumption, DistanceAssumption DEF DistOf
  <2>2. Append(n.path, m) \in Seq(Moves) /\ Len(Append(n.path, m)) = Len(n.path) + 1
    BY <1>1
  <2>3. DistOf(n.cube) \in Nat /\ DistOf(Turns[n.cube][m]) \in Nat /\ Len(n.path) \in Nat
    BY <1>1, <2>1, DistType
  <2>4. DistOf(Turns[n.cube][m]) <= shortdepth + Len(Append(n.path, m))
    BY <1>1, <2>1, <2>2, <2>3
  <2> QED BY <2>1, <2>2, <2>4 DEF Node, Nodes
<1>4. CASE Len(n.path) = LastLevel
  <2>1. Children(n) = <<>>
    BY <1>4 DEF Children
  <2> QED BY <2>1
<1>5. CASE Len(n.path) # LastLevel
  <2>1. Children(n) = [m \in Moves |-> Node(Turns[n.cube][m], Append(n.path, m))]
    BY <1>5 DEF Children
  <2>2. Children(n) \in Seq(Nodes) /\ Len(Children(n)) = Len(Face)
    BY <1>2, <1>3, <2>1
  <2>3. Len(n.path) + 1 <= LastLevel
    BY <1>1, <1>5
  <2>4. ASSUME NEW x \in 1 .. Len(Children(n))
        PROVE  /\ Len(Children(n)[x].path) <= LastLevel
               /\ DistOf(Children(n)[x].cube) <= shortdepth + Len(Children(n)[x].path)
    <3>1. x \in Moves /\ Children(n)[x] = Node(Turns[n.cube][x], Append(n.path, x))
      BY <1>2, <2>1, <2>2
    <3> QED BY <1>3, <2>3, <3>1
  <2> QED BY <2>2, <2>4
<1> QED BY <1>4, <1>5

(* The depths and values of the marks.                                     *)
LEMMA Depths ==
  ASSUME <<h, base>> \in Requests, NEW l \in Nat, l <= LastLevel
  PROVE  /\ d + l \in Int /\ d + l <= 2 /\ NewValue(d + l) \in 0 .. Unset
         /\ shortdepth + l <= base + NewValue(d + l)
BY Levels DEF NewValue, Unset

LEMMA VisitStep ==
  ASSUME IInv, NEW t \in Threads, Visit(t)
  PROVE  IInv'
<1>0. Types /\ ShortOK /\ \A u \in Threads : ThreadOK(u)
  BY DEF IInv, ThreadOK
<1> DEFINE n == Head(todo[t])
           depth == d + Len(n.path)
           sims == Sims(n.cube)
<1>1. /\ pc[t] = "next" /\ todo[t] # <<>>
      /\ \/ /\ todo' = [todo EXCEPT ![t] = Tail(@)]
            /\ UNCHANGED <<pc, coords, newval>>
         \/ /\ todo' = [todo EXCEPT ![t] = Children(n) \o Tail(@)]
            /\ coords' = [coords EXCEPT ![t] = [x \in 1 .. Len(sims) |-> Coord(sims[x], h)]]
            /\ newval' = [newval EXCEPT ![t] = NewValue(depth)]
            /\ pc' = [pc EXCEPT ![t] = "mark"]
      /\ UNCHANGED <<h, base, map, i, j, near, table, table_mutex, next, pc_main, byte>>
  BY DEF Visit, short
<1>2. /\ pc_main # "short" /\ pc_main \notin {"done", "derived"} /\ coords[t] = <<>>
      /\ <<h, base>> \in Requests
  BY <1>0, <1>1 DEF ThreadOK, Roster, Types
<1>3. todo[t] \in Seq(Nodes)
  BY <1>0 DEF Types
<1>4. /\ n \in Nodes /\ n = todo[t][1] /\ 1 \in 1 .. Len(todo[t])
      /\ Tail(todo[t]) \in Seq(Nodes)
      /\ \A x \in 1 .. Len(Tail(todo[t])) : x + 1 \in 1 .. Len(todo[t]) /\ Tail(todo[t])[x] = todo[t][x+1]
  BY <1>1, <1>3, Tails
<1>5. Len(n.path) <= LastLevel /\ DistOf(n.cube) <= shortdepth + Len(n.path)
  BY <1>0, <1>4 DEF ThreadOK, NodesOK
<1>6. n.cube \in Cubes /\ n.path \in Seq(Moves) /\ Len(n.path) \in Nat
  BY <1>4 DEF Nodes
<1> HIDE DEF n
<1>7. LastLevel' = LastLevel
  BY <1>1, TableStays
<1>8. \A x \in 1 .. Len(Tail(todo[t])) :
        /\ Len(Tail(todo[t])[x].path) <= LastLevel
        /\ DistOf(Tail(todo[t])[x].cube) <= shortdepth + Len(Tail(todo[t])[x].path)
  BY <1>0, <1>4 DEF ThreadOK, NodesOK
<1>9. Types' /\ ThreadOK(t)'
  <2>1. CASE todo' = [todo EXCEPT ![t] = Tail(@)] /\ UNCHANGED <<pc, coords, newval>>
    <3>1. Types'
      BY <1>0, <1>1, <1>4, <2>1 DEF Types, Coords
    <3>2. todo'[t] = Tail(todo[t])
      BY <1>0, <2>1 DEF Types
    <3>3. NodesOK(t)'
      BY <1>7, <1>8, <3>2 DEF NodesOK
    <3> QED BY <1>1, <1>2, <2>1, <3>1, <3>2, <3>3 DEF ThreadOK, Roster, MarksOK, ByteInHand
  <2>2. CASE /\ todo' = [todo EXCEPT ![t] = Children(n) \o Tail(@)]
             /\ coords' = [coords EXCEPT ![t] = [x \in 1 .. Len(sims) |-> Coord(sims[x], h)]]
             /\ newval' = [newval EXCEPT ![t] = NewValue(depth)]
             /\ pc' = [pc EXCEPT ![t] = "mark"]
    <3> DEFINE q == Children(n) \o Tail(todo[t])
               w == [x \in 1 .. Len(sims) |-> Coord(sims[x], h)]
               v == NewValue(depth)
    <3>1. /\ Children(n) \in Seq(Nodes)
          /\ \A x \in 1 .. Len(Children(n)) :
               /\ Len(Children(n)[x].path) <= LastLevel
               /\ DistOf(Children(n)[x].cube) <= shortdepth + Len(Children(n)[x].path)
      BY <1>2, <1>4, <1>5, ChildrenOK
    <3>2. q \in Seq(Nodes)
      BY <1>4, <3>1, Joined2
    <3>3. ASSUME NEW x \in 1 .. Len(q)
          PROVE  /\ Len(q[x].path) <= LastLevel
                 /\ DistOf(q[x].cube) <= shortdepth + Len(q[x].path)
      <4>1. \/ x \in 1 .. Len(Children(n)) /\ q[x] = Children(n)[x]
            \/ \E y \in 1 .. Len(Tail(todo[t])) : q[x] = Tail(todo[t])[y]
        <5> DEFINE a == Children(n)  b == Tail(todo[t])
        <5>1. a \in Seq(Nodes) /\ b \in Seq(Nodes) /\ q = a \o b
          BY <1>4, <3>1
        <5> HIDE DEF a, b, q
        <5>2. a \in Seq(Nodes) /\ b \in Seq(Nodes)
          BY <5>1
        <5>3. /\ \A y \in 1 .. Len(a) : (a \o b)[y] = a[y]
              /\ \A y \in 1 .. Len(b) : (a \o b)[Len(a) + y] = b[y]
              /\ \A z \in 1 .. Len(a \o b) :
                   z \in 1 .. Len(a) \/ \E y \in 1 .. Len(b) : z = Len(a) + y
          BY ONLY <5>2, Joined2
        <5>4. \/ x \in 1 .. Len(a) /\ q[x] = a[x]
              \/ \E y \in 1 .. Len(b) : q[x] = b[y]
          BY <3>3, <5>1, <5>3
        <5> QED BY <5>4 DEF a, b
      <4> HIDE DEF q
      <4> QED BY <1>8, <3>1, <4>1
    <3>4. /\ sims \in Seq(Keys) /\ sims # <<>>
          /\ \A x \in 1 .. Len(sims) : KeyDist[sims[x]] = DistOf(n.cube)
      BY <1>6, SimsType
    <3>5. v \in 0 .. Unset /\ shortdepth + Len(n.path) <= base + v
      BY <1>2, <1>5, <1>6, Depths
    <3>6. /\ w \in Seq(Coords) /\ w # <<>>
          /\ \A x \in 1 .. Len(w) : Justified(w[x], v)
      <4>1. Len(sims) \in Nat /\ Len(sims) # 0 /\ \A x \in 1 .. Len(sims) : sims[x] \in Keys
        BY <3>4
      <4>2. \A x \in 1 .. Len(sims) : Coord(sims[x], h) \in Coords
        BY <1>2, <4>1, CoordType, Levels DEF Coords
      <4> HIDE DEF sims, v
      <4>3. w \in Seq(Coords) /\ Len(w) = Len(sims)
        BY <4>1, <4>2
      <4>4. ASSUME NEW x \in 1 .. Len(w) PROVE Justified(w[x], v)
        <5>1. sims[x] \in Keys /\ w[x] = Coord(sims[x], h) /\ KeyDist[sims[x]] = DistOf(n.cube)
          BY <3>4, <4>1, <4>3
        <5>2. /\ KeyDist[sims[x]] \in Nat /\ shortdepth \in Nat /\ base \in Nat /\ v \in Nat
              /\ DistOf(n.cube) \in Nat
          BY <1>2, <3>5, <5>1, DistanceAssumption, Levels DEF Unset
        <5>3. KeyDist[sims[x]] <= base + v
          BY <1>5, <1>6, <3>5, <5>1, <5>2
        <5> QED BY <5>1, <5>3 DEF Justified
      <4>5. w # <<>>
        <5> HIDE DEF w
        <5> QED BY <4>1, <4>3
      <4> QED BY <4>3, <4>4, <4>5
    <3>7. /\ todo' = [todo EXCEPT ![t] = q] /\ coords' = [coords EXCEPT ![t] = w]
          /\ newval' = [newval EXCEPT ![t] = v] /\ pc' = [pc EXCEPT ![t] = "mark"]
      BY <2>2
    <3> HIDE DEF q, w, v
    <3>8. Types'
      BY <1>0, <1>1, <3>2, <3>5, <3>6, <3>7 DEF Types, Coords
    <3>9. todo'[t] = q /\ coords'[t] = w /\ newval'[t] = v /\ pc'[t] = "mark"
      BY <1>0, <3>7 DEF Types
    <3>10. NodesOK(t)'
      BY <1>7, <3>3, <3>9 DEF NodesOK
    <3>11. MarksOK(t)'
      BY <1>1, <3>6, <3>9, TableStays DEF MarksOK
    <3>12. Roster(t)' /\ ByteInHand(t)'
      BY <1>1, <1>2, <3>6, <3>9 DEF Roster, ByteInHand
    <3> QED BY <3>8, <3>10, <3>11, <3>12 DEF ThreadOK
  <2> QED BY <1>1, <2>1, <2>2
<1>10. ASSUME NEW u \in Threads, u # t PROVE ThreadOK(u)'
  <2>1. /\ pc'[u] = pc[u] /\ todo'[u] = todo[u] /\ coords'[u] = coords[u]
        /\ newval'[u] = newval[u] /\ byte'[u] = byte[u]
    BY <1>0, <1>1, <1>10 DEF Types
  <2> QED BY <1>0, <1>1, <2>1, ThreadStays
<1>11. TableOK' /\ ShortOK'
  BY <1>0, <1>1, TableStays, ShortStays DEF IInv
<1> QED BY <1>9, <1>10, <1>11 DEF IInv, ThreadOK

(* The bytes of the table.  Two entries that share one share its mutex.    *)
LEMMA Bytes ==
  ASSUME Types, NEW c \in Coords
  PROVE  /\ Mutex(c) \in Chunks /\ c \in ByteOf(c) /\ ByteOf(c) \subseteq Coords
         /\ \A b \in Coords : c \in ByteOf(b) => Mutex(b) = Mutex(c)
<1>1. c \in Nat /\ CHUNKS \in Nat \ {0}
  BY Width, Levels, ParametersAssumption DEF Types, Coords, CoordsOf
<1>2. c \div 4 \in Nat
  BY <1>1
<1>3. (c \div 4) % CHUNKS \in 0 .. CHUNKS-1
  BY <1>1, <1>2
<1> QED BY <1>3 DEF Mutex, H48_INDEX, Chunks, ByteOf

LEMMA LoadStep ==
  ASSUME IInv, NEW t \in Threads, Load(t)
  PROVE  IInv'
<1>0. Types /\ ShortOK /\ \A u \in Threads : ThreadOK(u)
  BY DEF IInv, ThreadOK
<1> DEFINE c == Head(coords[t])
<1>1. /\ pc[t] = "mark" /\ table_mutex[Mutex(c)] = Free
      /\ table_mutex' = [table_mutex EXCEPT ![Mutex(c)] = t]
      /\ byte' = [byte EXCEPT ![t] = [b \in ByteOf(c) |-> table[b]]]
      /\ pc' = [pc EXCEPT ![t] = "store"]
      /\ UNCHANGED <<h, base, map, i, j, near, table, next, pc_main, todo, coords, newval>>
  BY DEF Load, short, search
<1>2. coords[t] \in Seq(Coords) /\ coords[t] # <<>>
  BY <1>0, <1>1 DEF Types, ThreadOK, Roster
<1>3. c \in Coords
  BY <1>2, Tails
<1> HIDE DEF c
<1>4. Mutex(c) \in Chunks
  BY <1>0, <1>3, Bytes
<1>5. Types'
  BY <1>0, <1>1, <1>4 DEF Types, Coords
<1>6. ThreadOK(t)'
  <2>1. /\ pc'[t] = "store" /\ byte'[t] = [b \in ByteOf(c) |-> table[b]] /\ table_mutex'[Mutex(c)] = t
    BY <1>0, <1>1, <1>4 DEF Types
  <2>2. Roster(t)'
    BY <1>0, <1>1, <2>1 DEF ThreadOK, Roster
  <2>3. NodesOK(t)' /\ MarksOK(t)'
    BY <1>0, <1>1, TableStays DEF ThreadOK, NodesOK, MarksOK
  <2>4. ByteInHand(t)'
    <3>1. coords' = coords /\ table' = table /\ Coords' = Coords
      BY <1>1, TableStays
    <3>2. /\ table_mutex'[Mutex(Head(coords'[t]))] = t
          /\ byte'[t] = [b \in {x \in Coords' : x \div 4 = Head(coords'[t]) \div 4} |-> table'[b]]
      BY <2>1, <3>1 DEF ByteOf, c
    <3> QED BY <3>2 DEF ByteInHand, ByteOf
  <2> QED BY <2>2, <2>3, <2>4 DEF ThreadOK
<1>7. ASSUME NEW u \in Threads, u # t PROVE ThreadOK(u)'
  <2>1. /\ pc'[u] = pc[u] /\ todo'[u] = todo[u] /\ coords'[u] = coords[u]
        /\ newval'[u] = newval[u] /\ byte'[u] = byte[u]
    BY <1>0, <1>1, <1>7 DEF Types
  <2>2. u # Free
    BY DEF Threads, Free
  <2>3. ASSUME NEW k, table_mutex[k] = u PROVE table_mutex'[k] = u
    BY <1>0, <1>1, <2>2, <2>3 DEF Types
  <2> QED BY <1>0, <1>1, <2>1, <2>3, ThreadStays
<1>8. TableOK' /\ ShortOK'
  BY <1>0, <1>1, TableStays, ShortStays DEF IInv
<1> QED BY <1>5, <1>6, <1>7, <1>8 DEF IInv, ThreadOK

(* A store is a lowering of one entry: nothing else in its byte changed    *)
(* since the load.                                                         *)
Lowered(v, w) == IF v <= w THEN v ELSE w

LEMMA StoreEffect ==
  ASSUME IInv, NEW t \in Threads, Store(t)
  PROVE  /\ Head(coords[t]) \in Coords /\ newval[t] \in 0 .. Unset
         /\ table' = [table EXCEPT ![Head(coords[t])] =
                        Lowered(newval[t], table[Head(coords[t])])]
         /\ Justified(Head(coords[t]), newval[t])
<1> DEFINE c == Head(coords[t])
<1>1. Types /\ ThreadOK(t) /\ pc[t] = "store"
  BY DEF IInv, ThreadOK, Store
<1>2. coords[t] \in Seq(Coords) /\ coords[t] # <<>> /\ newval[t] \in 0 .. Unset
  BY <1>1 DEF Types, ThreadOK, Roster
<1>3. c \in Coords /\ c = coords[t][1] /\ 1 \in 1 .. Len(coords[t])
  BY <1>2, Tails
<1>4. Justified(c, newval[t])
  BY <1>1, <1>3 DEF ThreadOK, MarksOK
<1>5. /\ byte[t] = [b \in ByteOf(c) |-> table[b]]
      /\ table' = [b \in Coords |->
                     IF b = c THEN Min({newval[t], byte[t][c]})
                     ELSE IF b \in ByteOf(c) THEN byte[t][b]
                     ELSE table[b]]
  BY <1>1 DEF ThreadOK, ByteInHand, Store
<1> HIDE DEF c
<1>6. c \in ByteOf(c) /\ table \in [Coords -> 0 .. Unset]
  BY <1>1, <1>3, Bytes DEF Types
<1>7. byte[t][c] = table[c] /\ \A b \in ByteOf(c) : byte[t][b] = table[b]
  BY <1>5, <1>6
<1>8. Min({newval[t], table[c]}) = Lowered(newval[t], table[c])
  <2>1. newval[t] \in Nat /\ table[c] \in Nat
    BY <1>2, <1>3, <1>6 DEF Unset
  <2> QED BY <2>1, MinOfTwo DEF Lowered
<1>9. table' = [table EXCEPT ![c] = Lowered(newval[t], table[c])]
  <2>1. table' = [b \in Coords |-> IF b = c THEN Lowered(newval[t], table[c]) ELSE table[b]]
    BY <1>5, <1>7, <1>8
  <2> QED BY <1>6, <2>1
<1> QED BY <1>2, <1>3, <1>4, <1>9 DEF c

LEMMA StoreStep ==
  ASSUME IInv, NEW t \in Threads, Store(t)
  PROVE  IInv'
<1>0. Types /\ ShortOK /\ \A u \in Threads : ThreadOK(u)
  BY DEF IInv, ThreadOK
<1> DEFINE c == Head(coords[t])
<1>1. /\ pc[t] = "store" /\ table_mutex' = [table_mutex EXCEPT ![Mutex(c)] = Free]
      /\ byte' = [byte EXCEPT ![t] = <<>>]
      /\ coords' = [coords EXCEPT ![t] = Tail(@)]
      /\ pc' = [pc EXCEPT ![t] = IF Len(coords[t]) = 1 THEN "next" ELSE "mark"]
      /\ UNCHANGED <<h, base, map, i, j, near, next, pc_main, todo, newval>>
  BY DEF Store, Release, short
<1>2. /\ c \in Coords /\ newval[t] \in 0 .. Unset /\ Justified(c, newval[t])
      /\ table' = [table EXCEPT ![c] = Lowered(newval[t], table[c])]
  BY StoreEffect
<1>3. /\ coords[t] \in Seq(Coords) /\ coords[t] # <<>> /\ table \in [Coords -> 0 .. Unset]
      /\ pc_main # "short" /\ pc_main \notin {"done", "derived"}
  BY <1>0, <1>1 DEF Types, ThreadOK, Roster
<1>4. table_mutex[Mutex(c)] = t /\ Mutex(c) \in Chunks
  BY <1>0, <1>1, <1>2, Bytes DEF ThreadOK, ByteInHand
<1> HIDE DEF c
<1>5. Coords' = Coords
  BY <1>1 DEF Coords
<1>6. Lowered(newval[t], table[c]) \in 0 .. Unset
  BY <1>2, <1>3 DEF Lowered
<1>7. Types'
  <2>1. table' \in [Coords -> 0 .. Unset]
    BY <1>2, <1>3, <1>6
  <2>2. Tail(coords[t]) \in Seq(Coords)
    BY <1>3, Tails
  <2>3. coords' \in [Threads -> Seq(Coords)]
    BY <1>0, <1>1, <2>2 DEF Types
  <2> QED BY <1>0, <1>1, <1>4, <1>5, <2>1, <2>3 DEF Types, Free
<1>8. \A b, v : Justified(b, v)' <=> Justified(b, v)
  BY <1>1 DEF Justified
<1>9. TableOK'
  <2>1. ASSUME NEW b \in Coords PROVE table'[b] = Unset \/ Justified(b, table'[b])
    <3>1. CASE b = c
      <4>1. table'[c] = newval[t] \/ table'[c] = table[c]
        BY <1>2, <1>3 DEF Lowered
      <4> QED BY <1>2, <3>1, <4>1 DEF IInv, TableOK
    <3>2. CASE b # c
      BY <1>2, <1>3, <3>2 DEF IInv, TableOK
    <3> QED BY <3>1, <3>2
  <2> QED BY <1>5, <1>8, <2>1 DEF TableOK
<1>10. ThreadOK(t)'
  <2>1. /\ coords'[t] = Tail(coords[t])
        /\ pc'[t] = IF Len(coords[t]) = 1 THEN "next" ELSE "mark"
    BY <1>0, <1>1 DEF Types
  <2>2. /\ Tail(coords[t]) = <<>> <=> Len(coords[t]) = 1
        /\ \A x \in 1 .. Len(Tail(coords[t])) :
             x + 1 \in 1 .. Len(coords[t]) /\ Tail(coords[t])[x] = coords[t][x+1]
    BY <1>3, Tails
  <2>3. Roster(t)'
    <3>1. pc'[t] \in {"next", "mark"} /\ (pc'[t] = "mark" <=> coords'[t] # <<>>)
      BY <2>1, <2>2
    <3> QED BY <1>1, <1>3, <3>1 DEF Roster
  <2>4. NodesOK(t)'
    BY <1>0, <1>1 DEF ThreadOK, NodesOK, LastLevel, d
  <2>5. MarksOK(t)'
    <3>1. \A x \in 1 .. Len(Tail(coords[t])) : Justified(Tail(coords[t])[x], newval[t])
      BY <1>0, <2>2 DEF ThreadOK, MarksOK
    <3> QED BY <1>1, <1>8, <2>1, <3>1 DEF MarksOK
  <2>6. ByteInHand(t)'
    BY <2>1 DEF ByteInHand
  <2> QED BY <2>3, <2>4, <2>5, <2>6 DEF ThreadOK
<1>11. ASSUME NEW u \in Threads, u # t PROVE ThreadOK(u)'
  <2>1. /\ pc'[u] = pc[u] /\ todo'[u] = todo[u] /\ coords'[u] = coords[u]
        /\ newval'[u] = newval[u] /\ byte'[u] = byte[u]
    BY <1>0, <1>1, <1>11 DEF Types
  <2>2. Roster(u)' /\ NodesOK(u)' /\ MarksOK(u)'
    BY <1>0, <1>1, <1>8, <2>1 DEF ThreadOK, Roster, NodesOK, MarksOK, LastLevel, d
  <2>3. ByteInHand(u)'
    <3> SUFFICES ASSUME pc[u] = "store"
                 PROVE  /\ table_mutex'[Mutex(Head(coords[u]))] = u
                        /\ byte[u] = [b \in ByteOf(Head(coords[u])) |-> table'[b]]
      BY <1>5, <2>1 DEF ByteInHand, ByteOf
    <3> DEFINE e == Head(coords[u])
    <3>1. /\ table_mutex[Mutex(e)] = u /\ byte[u] = [b \in ByteOf(e) |-> table[b]]
      BY <1>0 DEF ThreadOK, ByteInHand
    <3>2. coords[u] \in Seq(Coords) /\ coords[u] # <<>>
      BY <1>0 DEF Types, ThreadOK, Roster
    <3>3. e \in Coords
      BY <3>2, Tails
    <3> HIDE DEF e
    <3>4. Mutex(e) # Mutex(c)
      BY <1>4, <1>11, <3>1
    <3>5. c \notin ByteOf(e) /\ ByteOf(e) \subseteq Coords
      BY <1>0, <1>2, <3>3, <3>4, Bytes
    <3>6. \A b \in ByteOf(e) : table'[b] = table[b]
      BY <1>2, <1>3, <3>5
    <3>7. table_mutex'[Mutex(e)] = u
      BY <1>0, <1>1, <3>1, <3>4 DEF Types
    <3>8. byte[u] = [b \in ByteOf(e) |-> table'[b]]
      BY <3>1, <3>6
    <3> QED BY <3>7, <3>8 DEF e
  <2> QED BY <2>2, <2>3 DEF ThreadOK
<1>12. ShortOK'
  BY <1>0, <1>1, ShortStays
<1> QED BY <1>7, <1>9, <1>10, <1>11, <1>12 DEF IInv, ThreadOK

LEMMA JoinThreadsStep ==
  ASSUME IInv, JoinThreads
  PROVE  IInv'
<1>0. Types /\ ShortOK /\ \A t \in Threads : ThreadOK(t)
  BY DEF IInv, ThreadOK
<1>1. /\ pc_main = "join" /\ Joined /\ pc_main' = "done"
      /\ UNCHANGED <<h, base, map, i, j, near, table, table_mutex, next, pc, todo, coords,
                     newval, byte>>
  BY DEF JoinThreads, short, search
<1>2. Types'
  BY <1>0, <1>1 DEF Types, Coords
<1>3. ShortOK'
  <2>1. Farthest' = Farthest
    BY <1>1 DEF Farthest
  <2> QED BY <1>0, <1>1, <2>1 DEF ShortOK
<1>4. TableOK'
  BY <1>1, TableStays DEF IInv
<1>5. ASSUME NEW t \in Threads PROVE ThreadOK(t)'
  <2>1. pc[t] = "exit"
    BY <1>1 DEF Joined
  <2>2. todo[t] = <<>> /\ coords[t] = <<>>
    BY <1>0, <2>1 DEF ThreadOK, Roster
  <2> QED BY <1>1, <2>1, <2>2 DEF ThreadOK, Roster, NodesOK, MarksOK, ByteInHand
<1> QED BY <1>2, <1>3, <1>4, <1>5 DEF IInv, ThreadOK

LEMMA DeriveStep ==
  ASSUME IInv, NEW hh \in 0 .. h, Derive(hh)
  PROVE  IInv'
<1>0. Types /\ ShortOK /\ \A t \in Threads : ThreadOK(t)
  BY DEF IInv, ThreadOK
<1>1. /\ pc_main = "done" /\ pc_main' = "derived"
      /\ UNCHANGED <<h, base, map, i, j, near, table, table_mutex, next, pc, todo, coords,
                     newval, byte>>
  BY DEF Derive, short, search
<1>2. Types'
  BY <1>0, <1>1 DEF Types, Coords
<1>3. ShortOK'
  <2>1. Farthest' = Farthest
    BY <1>1 DEF Farthest
  <2> QED BY <1>0, <1>1, <2>1 DEF ShortOK
<1>4. TableOK'
  BY <1>1, TableStays DEF IInv
<1>5. ASSUME NEW t \in Threads PROVE ThreadOK(t)'
  <2>1. pc[t] = "exit" /\ todo[t] = <<>> /\ coords[t] = <<>>
    BY <1>0, <1>1 DEF ThreadOK, Roster
  <2> QED BY <1>1, <2>1 DEF ThreadOK, Roster, NodesOK, MarksOK, ByteInHand
<1> QED BY <1>2, <1>3, <1>4, <1>5 DEF IInv, ThreadOK

LEMMA NothingStep ==
  ASSUME IInv, UNCHANGED vars
  PROVE  IInv'
<1>1. UNCHANGED <<h, base, map, i, j, near, table, table_mutex, next, pc_main, pc, todo, coords,
                  newval, byte>>
  BY DEF vars, short, search
<1>2. Types' /\ ShortOK' /\ TableOK'
  BY <1>1, ShortStays, TableStays DEF IInv, Types, Coords
<1>3. \A t \in Threads : ThreadOK(t)'
  BY <1>1, ThreadStays DEF IInv, ThreadOK
<1> QED BY <1>2, <1>3 DEF IInv, ThreadOK

LEMMA NextIInv == IInv /\ [Next]_vars => IInv'
<1> SUFFICES ASSUME IInv, [Next]_vars PROVE IInv'
  OBVIOUS
<1>1. CASE MainStep
  BY <1>1, ShortPairStep, ShortInsertStep, CreateThreadsStep, JoinThreadsStep, DeriveStep
  DEF MainStep
<1>2. ASSUME NEW t \in Threads, ThreadStep(t) PROVE IInv'
  BY <1>2, NextShortCubeStep, VisitStep, LoadStep, StoreStep DEF ThreadStep
<1>3. CASE UNCHANGED vars
  BY <1>3, NothingStep
<1> QED BY <1>1, <1>2, <1>3 DEF Next, Returned

LEMMA AlwaysIInv == Spec => []IInv
BY InitIInv, NextIInv, PTL DEF Spec

-----------------------------------------------------------------------------
(* The variables keep their types; in particular no negative depth gets    *)
(* into an entry, and the number of pairs in the map is right.             *)
THEOREM TypeCorrect == Spec => []TypeOK
<1>1. IInv => TypeOK
  <2> SUFFICES ASSUME IInv PROVE TypeOK
    OBVIOUS
  <2>1. Types /\ map.n = Cardinality({s \in Slots : map.table[s] # MAP_UNSET})
    BY DEF IInv, ShortOK, MapOK, Occupied
  <2>2. ASSUME NEW t \in Threads
        PROVE  /\ pc[t] \in {"none", "next", "mark", "store", "exit"}
               /\ newval[t] \in 0 .. Unset
               /\ \A x \in 1 .. Len(coords[t]) : coords[t][x] \in Coords
               /\ \A x \in 1 .. Len(todo[t]) : Len(todo[t][x].path) <= 4
    <3>1. /\ pc[t] \in {"none", "next", "mark", "store", "exit"}
          /\ newval[t] \in 0 .. Unset /\ coords[t] \in Seq(Coords) /\ todo[t] \in Seq(Nodes)
      BY <2>1 DEF Types
    <3>2. LastLevel \in 2 .. 4
      BY <2>1, Levels DEF Types
    <3>3. ASSUME NEW x \in 1 .. Len(todo[t]) PROVE Len(todo[t][x].path) <= 4
      <4>0. todo[t][x] \in Nodes /\ NodesOK(t)
        BY <3>1 DEF IInv
      <4>1. Len(todo[t][x].path) <= LastLevel /\ todo[t][x].path \in Seq(Moves)
        BY <4>0 DEF NodesOK, Nodes
      <4>2. Len(todo[t][x].path) \in Nat
        BY <4>1
      <4> QED BY <3>2, <4>1, <4>2
    <3> QED BY <3>1, <3>3
  <2> QED BY <2>1, <2>2 DEF Types, TypeOK
<1> QED BY <1>1, AlwaysIInv, PTL

(* The least distance of a coordinate is that of a key, and what an entry  *)
(* should be is what it is above the base.                                 *)
Nearest(k, hh) == \A x \in Keys : Coord(x, hh) = Coord(k, hh) => KeyDist[k] <= KeyDist[x]
Above(dist, b) == IF dist <= b THEN 0 ELSE IF dist >= b + 3 THEN 3 ELSE dist - b

LEMMA BoundIs ==
  ASSUME NEW hh \in 0 .. HMAX, NEW b \in {q[2] : q \in Requests}, NEW c \in CoordsOf(hh)
  PROVE  \E k \in Keys : /\ Coord(k, hh) = c /\ Nearest(k, hh)
                         /\ Bound[hh][b][c] = Above(KeyDist[k], b)
<1> DEFINE S == {KeyDist[k] : k \in {x \in Keys : Coord(x, hh) = c}}
           dist == Min(S)
<1>1. KeyDist \in [Keys -> Nat] /\ b \in Nat
  <2>1. \A q \in Requests : q[2] \in Nat
    BY RequestsAssumption, ParametersAssumption
  <2> QED BY <2>1, DistanceAssumption
<1>2. S \in SUBSET Nat /\ S # {}
  BY <1>1, CoordHasKey
<1>3. dist \in S /\ \A x \in S : dist <= x
  BY <1>2, MinOfNat
<1>4. PICK k \in Keys : Coord(k, hh) = c /\ KeyDist[k] = dist
  BY <1>3
<1>5. Nearest(k, hh)
  BY <1>3, <1>4 DEF Nearest
<1>6. Bound[hh][b][c] = Min({Unset, IF dist > b THEN dist - b ELSE 0})
  BY DEF Bound
<1> HIDE DEF dist
<1>7. dist \in Nat
  BY <1>1, <1>4
<1> DEFINE e == IF dist > b THEN dist - b ELSE 0
<1>8. e \in Nat /\ Unset \in Nat /\ Unset = 3
  BY <1>1, <1>7 DEF Unset
<1>9. Min({Unset, e}) = IF Unset <= e THEN Unset ELSE e
  BY <1>8, MinOfTwo
<1>10. Min({Unset, e}) = Above(dist, b)
  BY <1>1, <1>7, <1>8, <1>9 DEF Above
<1>11. Bound[hh][b][c] = Above(KeyDist[k], b)
  BY <1>4, <1>6, <1>10
<1> QED BY <1>4, <1>5, <1>11

LEMMA TableAboveBound ==
  ASSUME IInv, NEW c \in Coords, NEW v \in 0 .. Unset, v = Unset \/ Justified(c, v)
  PROVE  Bound[h][base][c] \in 0 .. v
<1>1. /\ h \in 0 .. HMAX /\ base \in {q[2] : q \in Requests} /\ base \in Nat
      /\ KeyDist \in [Keys -> Nat]
  BY Levels, DistanceAssumption DEF IInv, Types
<1>2. PICK k \in Keys : /\ Coord(k, h) = c /\ Nearest(k, h)
                        /\ Bound[h][base][c] = Above(KeyDist[k], base)
  BY <1>1, BoundIs DEF Coords
<1>3. KeyDist[k] \in Nat
  BY <1>1
<1>4. CASE v = Unset
  BY <1>1, <1>2, <1>3, <1>4 DEF Above, Unset
<1>5. CASE Justified(c, v)
  <2>1. PICK x \in Keys : Coord(x, h) = c /\ KeyDist[x] <= base + v
    BY <1>5 DEF Justified
  <2>2. KeyDist[k] <= KeyDist[x] /\ KeyDist[x] \in Nat
    BY <1>1, <1>2, <2>1 DEF Nearest
  <2>3. KeyDist[k] <= base + v
    BY <1>1, <1>3, <2>1, <2>2
  <2>4. Above(KeyDist[k], base) \in 0 .. v
    BY <1>1, <1>3, <2>3 DEF Above, Unset
  <2> QED BY <1>2, <2>4
<1> QED BY <1>4, <1>5

(* No entry is ever below what the distance of its coordinate makes it:    *)
(* whatever the threads do at the same time, and whatever the map has      *)
(* lost, the solver can cut as much as it can with a table that is exact.  *)
NeverTooLow == \A c \in Coords : Bound[h][base][c] <= table[c]
THEOREM EntriesNeverTooLow == Spec => []NeverTooLow
<1>1. IInv => NeverTooLow
  <2> SUFFICES ASSUME IInv, NEW c \in Coords PROVE Bound[h][base][c] <= table[c]
    BY DEF NeverTooLow
  <2>1. table[c] \in 0 .. Unset /\ (table[c] = Unset \/ Justified(c, table[c]))
    BY DEF IInv, Types, TableOK
  <2> QED BY <2>1, TableAboveBound
<1> QED BY <1>1, AlwaysIInv, PTL

(* A step stores in one entry at most, and lowers it: a mark never undoes  *)
(* one that another thread has made in the same byte.                      *)
OneEntryLowered ==
  table' # table =>
    \E c \in Coords, v \in 0 .. Unset :
      v < table[c] /\ Bound[h][base][c] <= v /\ table' = [table EXCEPT ![c] = v]

LEMMA StepLowers == IInv /\ [Next]_vars => OneEntryLowered
<1> SUFFICES ASSUME IInv, [Next]_vars, table' # table
             PROVE  \E c \in Coords, v \in 0 .. Unset :
                      v < table[c] /\ Bound[h][base][c] <= v /\ table' = [table EXCEPT ![c] = v]
  BY DEF OneEntryLowered
<1>1. PICK t \in Threads : Store(t)
  BY DEF Next, MainStep, ThreadStep, ShortPair, ShortInsert, CreateThreads, JoinThreads,
         Derive, NextShortCube, Visit, Load, Returned, vars
<1> DEFINE c == Head(coords[t])  v == newval[t]
<1>2. /\ c \in Coords /\ v \in 0 .. Unset /\ Justified(c, v)
      /\ table' = [table EXCEPT ![c] = Lowered(v, table[c])]
  BY <1>1, StoreEffect
<1> HIDE DEF c, v
<1>3. table \in [Coords -> 0 .. Unset]
  BY DEF IInv, Types
<1>4. v < table[c]
  <2> SUFFICES ASSUME ~(v < table[c]) PROVE FALSE
    OBVIOUS
  <2>1. Lowered(v, table[c]) = table[c]
    BY <1>2, <1>3 DEF Lowered
  <2> QED BY <1>2, <1>3, <2>1
<1>5. Lowered(v, table[c]) = v
  BY <1>2, <1>3, <1>4 DEF Lowered
<1>6. Bound[h][base][c] \in 0 .. v
  BY <1>2, TableAboveBound
<1>7. Bound[h][base][c] <= v /\ table' = [table EXCEPT ![c] = v]
  BY <1>2, <1>5, <1>6
<1> QED BY <1>2, <1>4, <1>7

(* Every step of every thread does so, with four entries in a byte and any *)
(* number of threads between Load and Store.                               *)
THEOREM EntriesOnlyDecrease == Spec => [][OneEntryLowered]_vars
<1>1. IInv /\ [Next]_vars => [OneEntryLowered]_vars
  BY StepLowers
<1> QED BY <1>1, AlwaysIInv, PTL DEF Spec

-----------------------------------------------------------------------------
(* gendata_h48short finds every position within its depth, provided that   *)
(* no pair gets into the last slot of the map: h48map_nextkvpair is taken  *)
(* to have found nothing when it returns the pair of that slot.            *)
LastSlotFree == map.table[capacity-1] = MAP_UNSET

Leads(p, k) == \E m \in Moves : IsSimilar(k, Turns[Rep[p]][m])
InNear(k) == \E x \in 1 .. Len(near) : \E y \in 1 .. Len(near[x]) : near[x][y] = k

(* In the pass for the positions at distance i + 1, these are in the map,  *)
(* are being inserted, or come from slots that are still ahead.            *)
Ahead(k) ==
  \A s \in Slots :
    map.table[s].key \in Nat /\ KeyDist[map.table[s].key] = i /\ Leads(map.table[s].key, k)
      => s >= j
Found ==
  /\ \A s \in Slots : map.table[s].key \in Nat => map.table[s].val = KeyDist[map.table[s].key]
  /\ \A k \in Keys : KeyDist[k] <= i => Has(map, k)
  /\ \A k \in Keys : KeyDist[k] = i + 1 => Has(map, k) \/ InNear(k) \/ Ahead(k)

(* A key other than the solved one comes from one that is nearer.          *)
LEMMA KeyParent ==
  ASSUME NEW k \in Keys, KeyDist[k] > 0
  PROVE  \E p \in Keys : KeyDist[p] = KeyDist[k] - 1 /\ Leads(p, k)
<1> DEFINE c == Rep[k]
<1>1. /\ c \in Cubes /\ Key[c] = k /\ KeyDist \in [Keys -> Nat] /\ Key \in [Cubes -> Keys]
      /\ Rep \in [Keys -> Cubes] /\ \A x \in Keys : Key[Rep[x]] = x
      /\ \A b \in Cubes, m \in Moves : Turns[b][m] \in Cubes
  BY ParametersAssumption, DistanceAssumption, ZenonT(40)
<1> HIDE DEF c
<1>2. PICK m \in Moves : KeyDist[Key[Turns[c][m]]] < KeyDist[k]
  BY <1>1, DistanceAssumption
<1> DEFINE q == Turns[c][m]  p == Key[q]
<1>3. q \in Cubes /\ p \in Keys
  BY <1>1
<1>4. PICK n \in Moves : Turns[q][n] = c
  BY <1>1, DistanceAssumption
<1> HIDE DEF q
<1>5. KeyDist[Key[Turns[q][n]]] <= KeyDist[Key[q]] + 1
  BY <1>3, DistanceAssumption
<1>6. KeyDist[p] = KeyDist[k] - 1
  BY <1>1, <1>2, <1>3, <1>4, <1>5 DEF q
<1>7. Alike(q, Rep[p], HMAX)
  <2>1. Rep[p] \in Cubes /\ Key[Rep[p]] = p
    BY <1>1, <1>3
  <2>2. IsSimilar(p, Rep[p])
    BY <2>1, SimilarityAssumption
  <2> QED BY <1>3, <2>2 DEF Alike
<1>8. HMAX \in {0, HMAX} /\ Rep[p] \in Cubes
  BY <1>1, <1>3
<1>9. PICK w \in Moves : Alike(Turns[q][n], Turns[Rep[p]][w], HMAX)
  BY <1>3, <1>7, <1>8, SimilarityAssumption, ZenonT(40)
<1>10. \A x \in Keys : Coord(x, HMAX) = x
  <2>1. Shift(HMAX, HMAX) = 1
    <3>1. HMAX - HMAX = 0 /\ 2^0 = 1
      BY ParametersAssumption
    <3> QED BY <3>1, Zenon DEF Shift
  <2> QED BY <2>1 DEF Coord, Keys
<1>11. IsSimilar(k, Turns[Rep[p]][w])
  BY <1>1, <1>4, <1>9, <1>10 DEF Alike
<1> QED BY <1>3, <1>6, <1>11 DEF Leads

LEMMA InitFound == Init => Found
<1> SUFFICES ASSUME Init PROVE Found
  OBVIOUS
<1> DEFINE x == Key[SOLVED_CUBE]  l == h48map_lookup(h48map_create, x)
<1>1. IInv /\ x \in Keys /\ x \in Nat /\ i = 0 /\ j = 0
  BY InitIInv, ParametersAssumption DEF Init, Keys
<1>2. KeyDist[x] = 0 /\ KeyDist \in [Keys -> Nat] /\ \A k \in Keys : KeyDist[k] = 0 => k = x
  BY <1>1, DistanceAssumption
<1>3. Ends(h48map_create, x)
  <2>1. 0 \in Slots
    BY CapacityAssumption DEF Slots
  <2>2. Probe(x, 0) \in Slots
    BY <1>1, ProbeIsSlot
  <2>3. StopsAt(h48map_create, x, 0)
    BY <2>2, CreatedOK DEF StopsAt, MAP_UNSET
  <2> QED BY <2>1, <2>3 DEF Ends
<1>4. l \in Slots /\ Inserted(h48map_create, map, l, x, 0)
  <2>1. 0 \in 0 .. MAP_UNSET_VAL
    BY DEF MAP_UNSET_VAL
  <2>2. map = h48map_insertmin(h48map_create, x, 0)
    BY DEF Init
  <2> QED BY <1>1, <1>3, <2>1, <2>2, CreatedOK, InsertedWhere
<1> HIDE DEF l, x
<1>5. \A s \in Slots : h48map_create.table[s] = MAP_UNSET
  BY CreatedOK
<1>6. map.table[l].key = x /\ map.table[l].val = 0
  BY <1>4, <1>5 DEF Inserted, MAP_UNSET, MAP_UNSET_VAL
<1>7. \A s \in Slots : s # l => map.table[s].key = MAP_KEYMASK
  BY <1>4, <1>5 DEF Inserted, MAP_UNSET
<1>8. Has(map, x)
  BY <1>4, <1>6 DEF Has
<1>9. \A s \in Slots : map.table[s].key \in Nat => map.table[s].val = KeyDist[map.table[s].key]
  BY <1>2, <1>6, <1>7 DEF MAP_KEYMASK
<1>10. \A k \in Keys : KeyDist[k] <= i => Has(map, k)
  BY <1>1, <1>2, <1>8
<1>11. \A k \in Keys : Ahead(k)
  BY <1>1 DEF Ahead, Slots
<1> QED BY <1>9, <1>10, <1>11 DEF Found

LEMMA FoundStays ==
  ASSUME Found, UNCHANGED <<map, i, j, near>>
  PROVE  Found'
BY DEF Found, Has, InNear, Ahead

LEMMA ShortPairFinds ==
  ASSUME IInv, Found, LastSlotFree, ShortPair
  PROVE  Found'
<1>1. Types /\ ShortOK /\ MapOK(map)
  BY DEF IInv, ShortOK
<1>2. capacity \in Nat \ {0} /\ KeyDist \in [Keys -> Nat] /\ i \in Nat /\ j \in 0 .. capacity
  BY <1>1, CapacityAssumption, DistanceAssumption DEF Types
<1> DEFINE r == h48map_nextkvpair(map, j)
<1>3. /\ near = <<>> /\ map' = map
      /\ \/ r.p = capacity /\ i' = i + 1 /\ j' = 0 /\ near' = near
         \/ /\ r.p # capacity /\ j' = r.p /\ i' = i
            /\ near' = IF r.kv.val = i THEN Neighbours(Rep[r.kv.key]) ELSE <<>>
  BY DEF ShortPair
<1>4. \/ r.p = capacity /\ \A s \in j .. capacity-1 : map.table[s] = MAP_UNSET
      \/ \E s \in j .. capacity-1 :
           /\ r.p = s + 1 /\ r.kv = map.table[s] /\ map.table[s] # MAP_UNSET
           /\ \A u \in j .. s-1 : map.table[u] = MAP_UNSET
  BY <1>1, NextPair DEF Types
<1> HIDE DEF r
<1>5. \A k : ~InNear(k)
  BY <1>3 DEF InNear
<1>6. CASE r.p = capacity
  <2>1. i' = i + 1 /\ j' = 0 /\ near' = <<>>
    BY <1>3, <1>6
  <2>2. \A s \in j .. capacity-1 : map.table[s] = MAP_UNSET
    BY <1>2, <1>4, <1>6 DEF LastSlotFree
  <2>3. ASSUME NEW k \in Keys, KeyDist[k] <= i + 1 PROVE Has(map, k)
    <3>1. CASE KeyDist[k] <= i
      BY <3>1 DEF Found
    <3>2. CASE KeyDist[k] = i + 1
      <4>1. PICK p \in Keys : KeyDist[p] = i /\ Leads(p, k)
        <5>1. KeyDist[k] > 0 /\ KeyDist[k] - 1 = i
          BY <1>2, <3>2
        <5> QED BY <5>1, KeyParent
      <4>2. PICK s \in Slots : map.table[s].key = p
        <5>1. KeyDist[p] <= i
          BY <1>2, <4>1
        <5> QED BY <5>1 DEF Found, Has
      <4>3. map.table[s].key \in Nat
        BY <4>2 DEF Keys
      <4>4. ~(s >= j)
        BY <1>2, <2>2, <4>3 DEF Slots, MAP_UNSET, MAP_KEYMASK
      <4>5. ~Ahead(k)
        BY <4>1, <4>2, <4>3, <4>4 DEF Ahead
      <4> QED BY <1>5, <3>2, <4>5 DEF Found
    <3> QED BY <1>2, <2>3, <3>1, <3>2
  <2>4. \A k \in Keys : Ahead(k)'
    BY <1>2, <2>1 DEF Ahead, Slots
  <2>5. \A s \in Slots : map'.table[s].key \in Nat => map'.table[s].val = KeyDist[map'.table[s].key]
    BY <1>3 DEF Found
  <2>6. \A k \in Keys : KeyDist[k] <= i' => Has(map', k)
    BY <1>3, <2>1, <2>3
  <2> QED BY <2>4, <2>5, <2>6 DEF Found
<1>7. CASE r.p # capacity
  <2>1. j' = r.p /\ i' = i /\ near' = IF r.kv.val = i THEN Neighbours(Rep[r.kv.key]) ELSE <<>>
    BY <1>3, <1>7
  <2>2. PICK s \in j .. capacity-1 :
           /\ r.p = s + 1 /\ r.kv = map.table[s] /\ map.table[s] # MAP_UNSET
           /\ \A u \in j .. s-1 : map.table[u] = MAP_UNSET
    BY <1>4, <1>7
  <2>3. s \in Slots
    BY <1>2, <2>2 DEF Slots
  <2>4. map.table[s].key \in Nat /\ map.table[s].key \in Keys
    BY <1>1, <2>2, <2>3 DEF MapOK, ShortOK, Entries
  <2>5. map.table[s].val = KeyDist[map.table[s].key]
    BY <2>3, <2>4 DEF Found
  <2>6. ASSUME NEW k \in Keys, KeyDist[k] = i + 1, ~Has(map, k) PROVE InNear(k)' \/ Ahead(k)'
    <3>1. Ahead(k)
      BY <1>5, <2>6 DEF Found
    <3>2. ASSUME KeyDist[map.table[s].key] = i, Leads(map.table[s].key, k)
          PROVE  InNear(k)'
      <4> DEFINE c == Rep[map.table[s].key]
      <4>1. near' = [m \in Moves |-> Sims(Turns[c][m])]
        BY <2>1, <2>2, <2>5, <3>2 DEF Neighbours
      <4>2. PICK m \in Moves : IsSimilar(k, Turns[c][m])
        BY <3>2 DEF Leads
      <4>3. PICK y \in 1 .. Len(Sims(Turns[c][m])) : Sims(Turns[c][m])[y] = k
        BY <4>2 DEF IsSimilar
      <4>4. m \in 1 .. Len(near')
        BY <4>1, ParametersAssumption DEF Moves
      <4> HIDE DEF c
      <4>5. near'[m] = Sims(Turns[c][m])
        BY <4>1
      <4> QED BY <4>3, <4>4, <4>5 DEF InNear
    <3>3. ASSUME ~(KeyDist[map.table[s].key] = i /\ Leads(map.table[s].key, k))
          PROVE  Ahead(k)'
      <4> SUFFICES ASSUME NEW u \in Slots, map.table[u].key \in Nat,
                          KeyDist[map.table[u].key] = i, Leads(map.table[u].key, k)
                   PROVE  u >= s + 1
        BY <1>3, <2>1, <2>2 DEF Ahead
      <4>1. u >= j
        BY <3>1 DEF Ahead
      <4>2. u # s
        BY <3>3
      <4>3. ~(u \in j .. s-1)
        BY <2>2 DEF MAP_UNSET, MAP_KEYMASK
      <4>4. u \in Int /\ s \in Int /\ j \in Int
        BY <1>2, <2>3, CapacityAssumption DEF Slots
      <4> QED BY <4>1, <4>2, <4>3, <4>4
    <3> QED BY <3>2, <3>3
  <2> QED BY <1>3, <2>1, <2>6 DEF Found
<1> QED BY <1>6, <1>7

LEMMA ShortInsertFinds ==
  ASSUME IInv, Found, ShortInsert
  PROVE  Found'
<1>1. Types /\ ShortOK /\ MapOK(map)
  BY DEF IInv, ShortOK
<1> DEFINE keys == Head(near)  x == Head(keys)  l == h48map_lookup(map, x)
<1>2. /\ near # <<>> /\ Ends(map, x) /\ map' = h48map_insertmin(map, x, i + 1)
      /\ near' = IF Len(keys) = 1 THEN Tail(near) ELSE <<Tail(keys)>> \o Tail(near)
      /\ i' = i /\ j' = j
  BY DEF ShortInsert
<1>3. near \in Seq(Seq(Keys)) /\ i \in Nat /\ i < shortdepth /\ shortdepth \in 0 .. MAP_UNSET_VAL - 1
  BY <1>1, <1>2, ParametersAssumption DEF Types, ShortOK
<1>4. /\ keys \in Seq(Keys) /\ keys = near[1] /\ 1 \in 1 .. Len(near)
      /\ Tail(near) \in Seq(Seq(Keys))
      /\ \A z \in 1 .. Len(Tail(near)) : Tail(near)[z] = near[z+1]
      /\ Len(Tail(near)) = Len(near) - 1
  BY <1>2, <1>3, Tails
<1>5. keys # <<>> /\ \A y \in 1 .. Len(keys) : KeyDist[keys[y]] <= i + 1
  BY <1>1, <1>4 DEF ShortOK
<1> HIDE DEF keys
<1>6. /\ x \in Keys /\ x = keys[1] /\ 1 \in 1 .. Len(keys)
      /\ Tail(keys) \in Seq(Keys) /\ Len(Tail(keys)) = Len(keys) - 1
      /\ \A z \in 1 .. Len(Tail(keys)) : Tail(keys)[z] = keys[z+1]
  BY <1>4, <1>5, Tails
<1>7. KeyDist[x] <= i + 1 /\ x \in Nat /\ KeyDist \in [Keys -> Nat]
  BY <1>5, <1>6, DistanceAssumption DEF Keys
<1> HIDE DEF x
<1>8. l \in Slots /\ Inserted(map, map', l, x, i + 1)
  <2>1. i + 1 \in 0 .. MAP_UNSET_VAL
    BY <1>3 DEF MAP_UNSET_VAL
  <2> QED BY <1>1, <1>2, <1>7, <2>1, InsertedWhere
<1> HIDE DEF l
<1>9. /\ map'.table[l].key = x
      /\ map'.table[l].val = IF map.table[l].key = x /\ map.table[l].val < i + 1
                             THEN map.table[l].val ELSE i + 1
      /\ \A s \in Slots : s # l => map'.table[s] = map.table[s]
      /\ \A s \in Slots : map.table[s].key = x => s = l
      /\ map.table[l].key \in {MAP_KEYMASK, x}
  BY <1>8 DEF Inserted
<1>10. map'.table[l].val = KeyDist[x]
  <2>1. map.table[l].key = x => map.table[l].val = KeyDist[x]
    BY <1>7, <1>8 DEF Found
  <2>2. map.table[l].key # x => KeyDist[x] = i + 1
    <3>1. map.table[l].key # x => ~Has(map, x)
      BY <1>9 DEF Has
    <3>2. ~(KeyDist[x] <= i) => KeyDist[x] = i + 1
      BY <1>3, <1>6, <1>7
    <3> QED BY <1>6, <3>1, <3>2 DEF Found
  <2> QED BY <1>3, <1>6, <1>7, <1>9, <2>1, <2>2
<1>11. \A s \in Slots : map'.table[s].key \in Nat => map'.table[s].val = KeyDist[map'.table[s].key]
  BY <1>9, <1>10 DEF Found
<1>12. \A k \in Keys : Has(map, k) => Has(map', k)
  BY <1>8, <1>9 DEF Has, Keys, MAP_KEYMASK
<1>13. Has(map', x)
  BY <1>8, <1>9 DEF Has
<1>14. ASSUME NEW k \in Keys, InNear(k) PROVE k = x \/ InNear(k)'
  <2>0. PICK z \in 1 .. Len(near) : \E y \in 1 .. Len(near[z]) : near[z][y] = k
    BY <1>14 DEF InNear
  <2>1. PICK y \in 1 .. Len(near[z]) : near[z][y] = k
    BY <2>0
  <2> DEFINE q == Tail(near)  w == Tail(keys)
  <2>2. q \in Seq(Seq(Keys)) /\ w \in Seq(Keys) /\ Len(q) = Len(near) - 1 /\ Len(w) = Len(keys) - 1
    BY <1>4, <1>6
  <2>3. near' = IF Len(keys) = 1 THEN q ELSE <<w>> \o q
    BY <1>2
  <2>4. CASE z = 1
    <3>1. keys[y] = k /\ y \in 1 .. Len(keys)
      BY <1>4, <2>1, <2>4
    <3>2. CASE y = 1
      BY <1>6, <3>1, <3>2
    <3>3. CASE y # 1
      <4>1. y - 1 \in 1 .. Len(w) /\ w[y-1] = k /\ Len(keys) # 1
        <5>1. y - 1 \in 1 .. Len(w) /\ Len(keys) # 1 /\ (y - 1) + 1 = y
          BY <1>4, <1>6, <3>1, <3>3
        <5> QED BY <1>6, <3>1, <5>1
      <4> HIDE DEF q, w
      <4>2. near' = <<w>> \o q
        BY <2>3, <4>1
      <4>3. near'[1] = w /\ 1 \in 1 .. Len(near')
        BY <2>2, <4>2
      <4> QED BY <4>1, <4>3 DEF InNear
    <3> QED BY <3>2, <3>3
  <2>5. CASE z # 1
    <3>1. z - 1 \in 1 .. Len(q) /\ (z - 1) + 1 = z
      BY <1>3, <1>4, <2>5
    <3>2. q[z-1] = near[z]
      BY <1>4, <3>1
    <3> HIDE DEF q, w
    <3>3. CASE Len(keys) = 1
      BY <2>1, <2>3, <3>1, <3>2, <3>3 DEF InNear
    <3>4. CASE Len(keys) # 1
      <4>1. near' = <<w>> \o q /\ <<w>> \in Seq(Seq(Keys)) /\ Len(<<w>>) = 1
        BY <2>2, <2>3, <3>4
      <4>2. /\ Len(near') = 1 + Len(q)
            /\ \A u \in 1 .. Len(q) : near'[1 + u] = q[u]
        BY <2>2, <4>1, Joined2
      <4>3. near'[z] = near[z] /\ z \in 1 .. Len(near')
        <5>1. 1 + (z - 1) = z /\ z \in 1 .. 1 + Len(q)
          BY <2>2, <3>1
        <5> QED BY <3>1, <3>2, <4>2, <5>1
      <4> QED BY <2>1, <4>3 DEF InNear
    <3> QED BY <3>3, <3>4
  <2> QED BY <2>4, <2>5
<1>15. ASSUME NEW k \in Keys, Ahead(k) PROVE Ahead(k)'
  <2> SUFFICES ASSUME NEW s \in Slots, map'.table[s].key \in Nat,
                      KeyDist[map'.table[s].key] = i, Leads(map'.table[s].key, k)
               PROVE  s >= j
    BY <1>2 DEF Ahead
  <2>1. map.table[s].key = map'.table[s].key
    <3>1. CASE s # l
      BY <1>9, <3>1
    <3>2. CASE s = l
      <4>1. KeyDist[x] <= i
        BY <1>3, <1>9, <3>2
      <4>2. Has(map, x)
        BY <1>6, <4>1 DEF Found
      <4> QED BY <1>9, <3>2, <4>2 DEF Has
    <3> QED BY <3>1, <3>2
  <2> QED BY <1>15, <2>1 DEF Ahead
<1>16. \A k \in Keys : KeyDist[k] <= i' => Has(map', k)
  BY <1>2, <1>12 DEF Found
<1>17. ASSUME NEW k \in Keys, KeyDist[k] = i' + 1 PROVE Has(map, k)' \/ InNear(k)' \/ Ahead(k)'
  <2>1. Has(map, k) \/ InNear(k) \/ Ahead(k)
    BY <1>2, <1>17 DEF Found
  <2> QED BY <1>12, <1>13, <1>14, <1>15, <2>1 DEF Has
<1> QED BY <1>11, <1>16, <1>17 DEF Found

LEMMA NextFound == IInv /\ Found /\ LastSlotFree /\ [Next]_vars => Found'
<1> SUFFICES ASSUME IInv, Found, LastSlotFree, [Next]_vars PROVE Found'
  OBVIOUS
<1>1. ShortPair \/ ShortInsert \/ UNCHANGED <<map, i, j, near>>
  BY DEF Next, MainStep, ThreadStep, CreateThreads, JoinThreads, Derive, NextShortCube, Visit,
         Load, Store, Returned, vars, short
<1> QED BY <1>1, ShortPairFinds, ShortInsertFinds, FoundStays

LEMMA AlwaysFound == Spec /\ []LastSlotFree => []Found
BY InitFound, NextFound, AlwaysIInv, PTL DEF Spec

LEMMA MapExact == IInv /\ Found /\ LastSlotFree => ShortMapExact
<1> SUFFICES ASSUME IInv, Found, LastSlotFree, pc_main # "short", NEW k \in Keys
             PROVE  h48map_value(map, k) =
                      IF KeyDist[k] <= shortdepth THEN KeyDist[k] ELSE MAP_UNSET_VAL
  BY DEF ShortMapExact
<1>1. i = shortdepth /\ MapOK(map) /\ k \in Nat
  BY DEF IInv, ShortOK, Keys
<1>2. CASE KeyDist[k] <= shortdepth
  <2>1. PICK s \in Slots : map.table[s].key = k
    BY <1>1, <1>2 DEF Found, Has
  <2>2. map.table[s].val = KeyDist[k]
    BY <1>1, <2>1 DEF Found
  <2> QED BY <1>1, <1>2, <2>1, <2>2, ValueFound
<1>3. CASE ~(KeyDist[k] <= shortdepth)
  <2>1. ~Has(map, k)
    <3> SUFFICES ASSUME NEW s \in Slots, map.table[s].key = k PROVE FALSE
      BY DEF Has
    <3>1. Farthest = shortdepth
      BY <1>1, Levels DEF Farthest, IInv, Types
    <3>2. KeyDist[k] <= map.table[s].val /\ map.table[s].val <= shortdepth
      BY <1>1, <3>1 DEF IInv, ShortOK, Entries
    <3>3. map.table[s].val = KeyDist[k]
      BY <1>1 DEF Found
    <3> QED BY <1>3, <3>2, <3>3
  <2>2. Ends(map, k)
    BY <1>1, FreeSlotEnds DEF LastSlotFree
  <2> QED BY <1>1, <1>3, <2>1, <2>2, ValueMissing
<1> QED BY <1>2, <1>3

(* The complete map has the positions within shortdepth, each with its     *)
(* distance, and no lookup in it goes on forever.                          *)
THEOREM ShortCubesFound == Spec /\ []LastSlotFree => []ShortMapExact
BY MapExact, AlwaysFound, AlwaysIInv, PTL

-----------------------------------------------------------------------------
(* Positions that are the same for the search: for h = 0 and the largest   *)
(* h, where a branch is cut at a marked entry, those whose similar         *)
(* positions share entries; for the others, those with the same key up to  *)
(* similarity.                                                             *)
Real == h \in {0, HMAX}
Grade == IF Real THEN h ELSE HMAX
Same(b, c) == Alike(b, c, Grade)
ClassDist(c) == Min({DistOf(b) : b \in {e \in Cubes : Same(e, c)}})

LEMMA SameEquivalence ==
  /\ \A c \in Cubes : Same(c, c)
  /\ \A b, c \in Cubes : Same(b, c) => Same(c, b)
  /\ \A b, c, e \in Cubes : Same(e, b) /\ Same(b, c) => Same(e, c)
<1>1. Grade \in {0, HMAX}
  BY DEF Grade, Real
<1>2. \A b, c \in Cubes : Same(b, c) => \A e \in Cubes : Same(e, b) <=> Same(e, c)
  BY <1>1, SimilarityAssumption DEF Same
<1>3. ASSUME NEW c \in Cubes PROVE Same(c, c)
  <2>1. Key[c] \in Keys /\ IsSimilar(Key[c], c)
    BY SimilarityAssumption, ParametersAssumption
  <2> QED BY <2>1 DEF Same, Alike
<1> QED BY <1>2, <1>3

LEMMA SameMoves ==
  \A b, c \in Cubes : Same(b, c) =>
    \A m \in Moves : \E n \in Moves : Same(Turns[b][m], Turns[c][n])
<1>1. Grade \in {0, HMAX}
  BY DEF Grade, Real
<1> QED BY <1>1, SimilarityAssumption DEF Same

LEMMA KeyItself == \A k \in Keys : Coord(k, HMAX) = k
<1>1. Shift(HMAX, HMAX) = 1
  <2>1. HMAX - HMAX = 0 /\ 2^0 = 1
    BY ParametersAssumption
  <2> QED BY <2>1, Zenon DEF Shift
<1> QED BY <1>1 DEF Coord, Keys

(* Positions with one key are the same.                                    *)
LEMMA SameKey == \A b, c \in Cubes : Key[b] = Key[c] => Same(b, c)
<1> SUFFICES ASSUME NEW b \in Cubes, NEW c \in Cubes, Key[b] = Key[c] PROVE Same(b, c)
  OBVIOUS
<1>1. Key[c] \in Keys /\ IsSimilar(Key[c], c)
  BY SimilarityAssumption, ParametersAssumption
<1> QED BY <1>1 DEF Same, Alike

LEMMA SameWhenCut == ASSUME ~Real, NEW b \in Cubes, NEW c \in Cubes, Same(b, c)
                     PROVE  IsSimilar(Key[b], c) /\ DistOf(b) = DistOf(c)
<1>1. \A k \in Keys : Coord(k, HMAX) = k
  BY KeyItself
<1>2. Key[b] \in Keys /\ Grade = HMAX
  BY ParametersAssumption DEF Grade
<1>3. IsSimilar(Key[b], c)
  BY <1>1, <1>2 DEF Same, Alike
<1> QED BY <1>3, SimilarityAssumption DEF DistOf

(* The distance of a class of positions.                                   *)
LEMMA ClassNearest ==
  ASSUME NEW c \in Cubes
  PROVE  /\ ClassDist(c) \in Nat
         /\ \E b \in Cubes : Same(b, c) /\ DistOf(b) = ClassDist(c)
         /\ \A b \in Cubes : Same(b, c) => ClassDist(c) <= DistOf(b)
         /\ ClassDist(c) <= DistOf(c)
<1> DEFINE S == {DistOf(b) : b \in {e \in Cubes : Same(e, c)}}
<1>1. Same(c, c)
  BY SameEquivalence
<1>2. S \in SUBSET Nat /\ S # {}
  BY <1>1, DistType
<1>3. Min(S) \in S /\ \A x \in S : Min(S) <= x
  BY <1>2, MinOfNat
<1> QED BY <1>1, <1>2, <1>3 DEF ClassDist

LEMMA ClassOfSame ==
  ASSUME NEW b \in Cubes, NEW c \in Cubes, Same(b, c)
  PROVE  ClassDist(b) = ClassDist(c)
<1>1. \A e \in Cubes : Same(e, b) <=> Same(e, c)
  BY SameEquivalence
<1>2. {e \in Cubes : Same(e, b)} = {e \in Cubes : Same(e, c)}
  BY <1>1
<1> QED BY <1>2 DEF ClassDist

(* A move changes it by one at most.                                       *)
LEMMA ClassMove ==
  ASSUME NEW c \in Cubes, NEW m \in Moves
  PROVE  /\ Turns[c][m] \in Cubes
         /\ ClassDist(Turns[c][m]) <= ClassDist(c) + 1
<1>1. \A b \in Cubes, n \in Moves : Turns[b][n] \in Cubes
  BY ParametersAssumption
<1>2. PICK b \in Cubes : Same(b, c) /\ DistOf(b) = ClassDist(c)
  BY ClassNearest
<1>3. PICK n \in Moves : Same(Turns[c][m], Turns[b][n])
  BY <1>2, SameEquivalence, SameMoves
<1>4. ClassDist(Turns[c][m]) <= DistOf(Turns[b][n])
  BY <1>1, <1>3, ClassNearest, SameEquivalence
<1>5. DistOf(Turns[b][n]) <= DistOf(b) + 1
  BY DistanceAssumption DEF DistOf
<1>6. /\ DistOf(b) \in Nat /\ DistOf(Turns[b][n]) \in Nat /\ ClassDist(c) \in Nat
      /\ ClassDist(Turns[c][m]) \in Nat
  BY <1>1, DistType, ClassNearest
<1> QED BY <1>1, <1>2, <1>4, <1>5, <1>6

(* Some move leads to it from a class that is nearer.                      *)
LEMMA ClassParent ==
  ASSUME NEW c \in Cubes, ClassDist(c) > 0
  PROVE  \E p \in Cubes, m \in Moves :
           ClassDist(p) = ClassDist(c) - 1 /\ Same(Turns[p][m], c)
<1>1. PICK b \in Cubes : Same(b, c) /\ DistOf(b) = ClassDist(c)
  BY ClassNearest
<1>2. PICK n \in Moves : DistOf(Turns[b][n]) < DistOf(b)
  BY <1>1, DistanceAssumption DEF DistOf
<1> DEFINE p == Turns[b][n]
<1>3. p \in Cubes
  BY ParametersAssumption
<1>4. PICK m \in Moves : Turns[p][m] = b
  BY DistanceAssumption
<1> HIDE DEF p
<1>5. ClassDist(p) <= DistOf(p) /\ DistOf(p) < ClassDist(c)
  BY <1>1, <1>2, <1>3, ClassNearest DEF p
<1>6. ClassDist(Turns[p][m]) <= ClassDist(p) + 1 /\ ClassDist(b) = ClassDist(c)
  BY <1>1, <1>3, ClassMove, ClassOfSame
<1>7. ClassDist(p) \in Nat /\ ClassDist(c) \in Nat /\ DistOf(p) \in Nat
  BY <1>3, ClassNearest, DistType
<1>8. ClassDist(p) = ClassDist(c) - 1
  BY <1>4, <1>5, <1>6, <1>7
<1> QED BY <1>1, <1>3, <1>4, <1>8

-----------------------------------------------------------------------------
(* A child of a node.  A node is exact when its path is as long as the     *)
(* distance of its class beyond the short cubes.                           *)
Child(n, m) == Node(Turns[n.cube][m], Append(n.path, m))
Exact(n) == ClassDist(n.cube) = shortdepth + Len(n.path)

LEMMA ChildType ==
  ASSUME NEW n \in Nodes, NEW m \in Moves
  PROVE  /\ Child(n, m) \in Nodes
         /\ Child(n, m).cube = Turns[n.cube][m] /\ Child(n, m).path = Append(n.path, m)
         /\ Len(Child(n, m).path) = Len(n.path) + 1 /\ Len(n.path) \in Nat
         /\ n.cube \in Cubes /\ n.path \in Seq(Moves) /\ Turns[n.cube][m] \in Cubes
         /\ ClassDist(Child(n, m).cube) <= ClassDist(n.cube) + 1
         /\ ClassDist(n.cube) \in Nat /\ ClassDist(Child(n, m).cube) \in Nat
<1>1. n.cube \in Cubes /\ n.path \in Seq(Moves)
  BY DEF Nodes
<1>2. /\ Turns[n.cube][m] \in Cubes /\ ClassDist(Turns[n.cube][m]) <= ClassDist(n.cube) + 1
      /\ ClassDist(n.cube) \in Nat /\ ClassDist(Turns[n.cube][m]) \in Nat
  BY <1>1, ClassMove, ClassNearest
<1>3. /\ Append(n.path, m) \in Seq(Moves) /\ Len(Append(n.path, m)) = Len(n.path) + 1
      /\ Len(n.path) \in Nat
  BY <1>1
<1> QED BY <1>1, <1>2, <1>3 DEF Child, Node, Nodes

(* The test of the last move of a path.                                    *)
LEMMA AllowedShort ==
  ASSUME NEW q \in Seq(Moves), Len(q) <= 1
  PROVE  Allowed(q)
<1>1. Len(q) < 2 /\ Len(q) # 2 /\ ~(Len(q) > 2)
  OBVIOUS
<1> DEFINE n == Len(q)
<1>2. n < 2 /\ n # 2 /\ ~(n > 2)
  BY <1>1
<1>3. Allowed(q) <=> CASE n < 2 -> TRUE
                       [] n = 2 -> Face[q[1]] # Face[q[2]]
                       [] n > 2 -> allowednextmove(q[n-1], q[n])
  BY DEF Allowed
<1> HIDE DEF n
<1> QED BY <1>2, <1>3

LEMMA AllowedLast ==
  ASSUME NEW q \in Seq(Moves), NEW m \in Moves, NEW n \in Moves
  PROVE  Allowed(Append(Append(q, m), n)) <=>
           IF Len(q) = 0 THEN Face[m] # Face[n] ELSE allowednextmove(m, n)
<1> DEFINE p == Append(Append(q, m), n)  l == Len(q) + 2
<1>1. Append(q, m) \in Seq(Moves) /\ Len(Append(q, m)) = Len(q) + 1 /\ Len(q) \in Nat
  OBVIOUS
<1>2. Len(p) = l /\ p[l] = n
  BY <1>1
<1>3. p[l-1] = m
  BY <1>1
<1>4. CASE Len(q) = 0
  BY <1>2, <1>3, <1>4 DEF Allowed
<1>5. CASE Len(q) # 0
  <2>1. l > 2
    BY <1>1, <1>5
  <2>2. Allowed(p) <=> allowednextmove(p[l-1], p[l])
    BY <1>2, <2>1 DEF Allowed
  <2> QED BY <1>2, <1>3, <1>5, <2>2
<1> QED BY <1>4, <1>5

(* Two moves of a face get no farther than one.                            *)
LEMMA OneFace ==
  ASSUME NEW c \in Cubes, NEW m \in Moves, NEW n \in Moves, Face[m] = Face[n]
  PROVE  /\ ClassDist(Turns[Turns[c][m]][n]) <= ClassDist(c) + 1
<1>1. PICK k \in Moves : Turns[Turns[c][m]][n] \in {c, Turns[c][k]}
  BY MovesAssumption
<1>2. ClassDist(c) \in Nat /\ ClassDist(Turns[c][k]) <= ClassDist(c) + 1
  BY ClassNearest, ClassMove
<1> QED BY <1>1, <1>2

(* A node reached from a parent and, unless that is a root, a grandparent  *)
(* that are as near as their paths are long.                               *)
Within(n) == ClassDist(n.cube) <= shortdepth + Len(n.path)
From(p) ==
  Within(p) /\ (Len(p.path) = 0 \/ \E g \in Nodes, m \in Moves : Within(g) /\ p = Child(g, m))

(* When the search does not go from an exact node to an exact child of it, *)
(* it gets there by the same two moves in the other order.                 *)
LEMMA Reorder ==
  ASSUME shortdepth \in Nat, NEW p \in Nodes, From(p), NEW m1 \in Moves, NEW m \in Moves,
         Exact(Child(p, m1)), Exact(Child(Child(p, m1), m)),
         ~Allowed(Child(Child(p, m1), m).path)
  PROVE  /\ m < m1 /\ Allowed(Child(p, m).path) /\ Exact(Child(p, m))
         /\ Child(Child(p, m), m1).cube = Child(Child(p, m1), m).cube
         /\ Allowed(Child(Child(p, m), m1).path)
<1> DEFINE x == Child(p, m1)  y == Child(x, m)  z == Child(p, m)  u == Child(z, m1)
           a == Len(p.path)  D == shortdepth  c == p.cube
<1>1. /\ c \in Cubes /\ p.path \in Seq(Moves) /\ a \in Nat /\ ClassDist(c) \in Nat
      /\ x \in Nodes /\ x.cube = Turns[c][m1] /\ x.path = Append(p.path, m1) /\ Len(x.path) = a + 1
      /\ z \in Nodes /\ z.cube = Turns[c][m] /\ z.path = Append(p.path, m) /\ Len(z.path) = a + 1
      /\ ClassDist(z.cube) \in Nat /\ ClassDist(z.cube) <= ClassDist(c) + 1
      /\ ClassDist(x.cube) \in Nat /\ ClassDist(x.cube) <= ClassDist(c) + 1
  BY ChildType
<1> HIDE DEF x, z
<1>2. /\ y.cube = Turns[x.cube][m] /\ y.path = Append(x.path, m) /\ Len(y.path) = a + 2
      /\ u.cube = Turns[z.cube][m1] /\ u.path = Append(z.path, m1)
      /\ ClassDist(y.cube) \in Nat /\ ClassDist(u.cube) <= ClassDist(z.cube) + 1
  <2>1. /\ y.cube = Turns[x.cube][m] /\ y.path = Append(x.path, m)
        /\ Len(y.path) = Len(x.path) + 1 /\ ClassDist(y.cube) \in Nat
    BY <1>1, ChildType
  <2>2. /\ u.cube = Turns[z.cube][m1] /\ u.path = Append(z.path, m1)
        /\ ClassDist(u.cube) <= ClassDist(z.cube) + 1
    BY <1>1, ChildType
  <2> QED BY <1>1, <2>1, <2>2
<1>3. ClassDist(x.cube) = D + a + 1 /\ ClassDist(y.cube) = D + a + 2 /\ ClassDist(c) <= D + a
  BY <1>1, <1>2 DEF Exact, From, Within, x
<1>4. Face[m1] # Face[m]
  <2> SUFFICES ASSUME Face[m1] = Face[m] PROVE FALSE
    OBVIOUS
  <2>1. ClassDist(y.cube) <= ClassDist(c) + 1
    BY <1>1, <1>2, OneFace
  <2> QED BY <1>1, <1>3, <2>1
<1>5. a # 0 /\ Parallel(m1, m) /\ m < m1
  <2>1. ~(IF a = 0 THEN Face[m1] # Face[m] ELSE allowednextmove(m1, m))
    BY <1>1, <1>2, AllowedLast DEF x
  <2>2. a # 0 /\ Axis[Face[m1]] = Axis[Face[m]] /\ ~(m1 < m)
    BY <1>4, <2>1 DEF allowednextmove
  <2>3. m1 \in Int /\ m \in Int /\ m # m1
    BY <1>4 DEF Moves
  <2> QED BY <2>2, <2>3 DEF Parallel
<1>6. u.cube = y.cube
  BY <1>1, <1>2, <1>5, MovesAssumption
<1>7. ClassDist(z.cube) = D + a + 1
  BY <1>1, <1>2, <1>3, <1>6
<1>8. PICK g \in Nodes, m0 \in Moves : Within(g) /\ p = Child(g, m0)
  BY <1>5 DEF From
<1>9. /\ g.cube \in Cubes /\ g.path \in Seq(Moves) /\ a = Len(g.path) + 1 /\ Len(g.path) \in Nat
      /\ p.path = Append(g.path, m0) /\ c = Turns[g.cube][m0]
      /\ ClassDist(g.cube) \in Nat /\ ClassDist(g.cube) <= D + Len(g.path)
  BY <1>8, ChildType DEF Within
<1>10. Face[m0] # Face[m] /\ Face[m0] # Face[m1]
  <2>1. Face[m0] # Face[m]
    <3> SUFFICES ASSUME Face[m0] = Face[m] PROVE FALSE
      OBVIOUS
    <3>1. ClassDist(z.cube) <= ClassDist(g.cube) + 1
      BY <1>1, <1>9, OneFace
    <3> QED BY <1>7, <1>9, <3>1
  <2>2. Face[m0] # Face[m1]
    <3> SUFFICES ASSUME Face[m0] = Face[m1] PROVE FALSE
      OBVIOUS
    <3>1. ClassDist(x.cube) <= ClassDist(g.cube) + 1
      BY <1>1, <1>9, OneFace
    <3> QED BY <1>3, <1>9, <3>1
  <2> QED BY <2>1, <2>2
<1>11. ~Parallel(m0, m)
  <2> SUFFICES ASSUME Parallel(m0, m) PROVE FALSE
    OBVIOUS
  <2>1. Parallel(m, m1)
    BY <1>5 DEF Parallel
  <2> QED BY <1>4, <1>10, <2>1, MovesAssumption
<1>12. Allowed(z.path)
  <2>1. allowednextmove(m0, m)
    BY <1>10, <1>11 DEF allowednextmove, Parallel
  <2> QED BY <1>1, <1>9, <1>10, <2>1, AllowedLast
<1>13. Allowed(u.path)
  <2>1. allowednextmove(m, m1)
    BY <1>4, <1>5 DEF allowednextmove
  <2> QED BY <1>1, <1>2, <1>5, <2>1, AllowedLast
<1> QED BY <1>1, <1>5, <1>6, <1>7, <1>12, <1>13 DEF Exact, x, z

-----------------------------------------------------------------------------
(* A route: the nodes that the search visits one below the other on the    *)
(* way from a short cube to an exact node, if no branch is cut.            *)
Route(w) ==
  /\ w \in Seq(Nodes) /\ w # <<>>
  /\ w[1].path = <<>> /\ \E k \in Keys : KeyDist[k] = shortdepth /\ w[1].cube = Rep[k]
  /\ \A x \in 1 .. Len(w) : Allowed(w[x].path) /\ Exact(w[x]) /\ Len(w[x].path) = x - 1
  /\ \A x \in 1 .. Len(w) - 1 : \E m \in Moves : w[x+1] = Child(w[x], m)

RoutesTo(n) ==
  \A c \in Cubes : ClassDist(c) = shortdepth + n =>
    \E w : Route(w) /\ Len(w) = n + 1 /\ Same(w[n+1].cube, c)

LEMMA RouteOfOne ==
  ASSUME shortdepth \in Nat
  PROVE  RoutesTo(0)
<1> SUFFICES ASSUME NEW c \in Cubes, ClassDist(c) = shortdepth
             PROVE  \E w : Route(w) /\ Len(w) = 1 /\ Same(w[1].cube, c)
  BY DEF RoutesTo
<1>1. PICK b \in Cubes : Same(b, c) /\ DistOf(b) = shortdepth
  BY ClassNearest
<1> DEFINE k == Key[b]  n == Node(Rep[k], <<>>)  w == <<n>>
<1>2. k \in Keys /\ Rep[k] \in Cubes /\ Key[Rep[k]] = k /\ KeyDist[k] = shortdepth
  BY <1>1, ParametersAssumption DEF DistOf
<1>3. Same(Rep[k], c)
  BY <1>1, <1>2, SameKey, SameEquivalence
<1>4. n \in Nodes /\ n.cube = Rep[k] /\ n.path = <<>> /\ Len(n.path) = 0
  BY <1>2 DEF Node, Nodes
<1>5. Exact(n)
  BY <1>2, <1>3, <1>4, ClassOfSame DEF Exact
<1>6. Allowed(n.path)
  <2>1. <<>> \in Seq(Moves) /\ Len(<<>>) <= 1
    OBVIOUS
  <2>2. Allowed(<<>>)
    BY <2>1, AllowedShort
  <2> HIDE DEF n
  <2> QED BY <1>4, <2>2
<1> HIDE DEF n, k
<1>7. w \in Seq(Nodes) /\ w # <<>> /\ Len(w) = 1 /\ w[1] = n
  BY <1>4
<1> HIDE DEF w
<1>8. Route(w)
  BY <1>2, <1>4, <1>5, <1>6, <1>7 DEF Route
<1> QED BY <1>3, <1>4, <1>7, <1>8

(* A route goes on to a child that is exact and allowed.                   *)
LEMMA RouteLonger ==
  ASSUME NEW w, Route(w), NEW m \in Moves, Exact(Child(w[Len(w)], m)),
         Allowed(Child(w[Len(w)], m).path)
  PROVE  LET v == Append(w, Child(w[Len(w)], m))
         IN  Route(v) /\ Len(v) = Len(w) + 1 /\ v[Len(w)+1] = Child(w[Len(w)], m)
<1> DEFINE l == Len(w)  y == Child(w[l], m)  v == Append(w, y)
<1>1. w \in Seq(Nodes) /\ w # <<>>
  BY DEF Route
<1>2. l \in Nat \ {0} /\ l \in 1 .. l /\ w[l] \in Nodes
  BY <1>1
<1>3. y \in Nodes /\ Len(y.path) = l /\ Exact(y) /\ Allowed(y.path)
  <2>1. Len(w[l].path) = l - 1
    BY <1>2 DEF Route
  <2> QED BY <1>2, <2>1, ChildType, SMTT(30)
<1> HIDE DEF y, l
<1>4. /\ v \in Seq(Nodes) /\ v # <<>> /\ Len(v) = l + 1 /\ v[l+1] = y
      /\ \A x \in 1 .. l : v[x] = w[x]
  BY <1>1, <1>2, <1>3 DEF l
<1> HIDE DEF v
<1>5. v[1] = w[1]
  BY <1>2, <1>4
<1>6. ASSUME NEW x \in 1 .. l + 1
      PROVE  Allowed(v[x].path) /\ Exact(v[x]) /\ Len(v[x].path) = x - 1
  <2>1. CASE x = l + 1
    BY <1>2, <1>3, <1>4, <2>1
  <2>2. CASE x \in 1 .. l
    BY <1>4, <2>2 DEF Route, l
  <2> QED BY <1>2, <2>1, <2>2
<1>7. ASSUME NEW x \in 1 .. l PROVE \E e \in Moves : v[x+1] = Child(v[x], e)
  <2>1. CASE x = l
    BY <1>2, <1>4, <2>1 DEF y
  <2>2. CASE x # l
    <3>1. x \in 1 .. l - 1 /\ x + 1 \in 1 .. l
      BY <1>2, <2>2
    <3> QED BY <1>4, <3>1 DEF Route, l
  <2> QED BY <2>1, <2>2
<1>8. Route(v)
  <2>1. Len(v) - 1 = l
    BY <1>2, <1>4
  <2> QED BY <1>4, <1>5, <1>6, <1>7, <2>1 DEF Route
<1> QED BY <1>4, <1>8 DEF v, y, l

(* So does one whose last node is replaced by another child of the last    *)
(* but one.                                                                *)
LEMMA RouteTurned ==
  ASSUME NEW w, Route(w), Len(w) >= 2, NEW m \in Moves, Exact(Child(w[Len(w)-1], m)),
         Allowed(Child(w[Len(w)-1], m).path)
  PROVE  LET v == [w EXCEPT ![Len(w)] = Child(w[Len(w)-1], m)]
         IN  Route(v) /\ Len(v) = Len(w) /\ v[Len(w)] = Child(w[Len(w)-1], m)
<1> DEFINE l == Len(w)  y == Child(w[l-1], m)  v == [w EXCEPT ![l] = y]
<1>1. w \in Seq(Nodes) /\ w # <<>>
  BY DEF Route
<1>2. l \in Nat /\ l >= 2 /\ l \in 1 .. l /\ l - 1 \in 1 .. l /\ w[l-1] \in Nodes
  BY <1>1
<1>3. y \in Nodes /\ Len(y.path) = l - 1 /\ Exact(y) /\ Allowed(y.path)
  <2>1. Len(w[l-1].path) = l - 2
    <3>1. Len(w[l-1].path) = (l - 1) - 1
      BY <1>2 DEF Route
    <3> QED BY <1>2, <3>1
  <2>2. y \in Nodes /\ Len(y.path) = Len(w[l-1].path) + 1
    BY <1>2, ChildType
  <2> QED BY <1>2, <2>1, <2>2
<1> HIDE DEF y, l
<1>4. /\ v \in Seq(Nodes) /\ v # <<>> /\ Len(v) = l /\ v[l] = y
      /\ \A x \in 1 .. l : x # l => v[x] = w[x]
  BY <1>1, <1>2, <1>3 DEF l
<1> HIDE DEF v
<1>5. v[1] = w[1]
  BY <1>2, <1>4
<1>6. ASSUME NEW x \in 1 .. l
      PROVE  Allowed(v[x].path) /\ Exact(v[x]) /\ Len(v[x].path) = x - 1
  <2>1. CASE x = l
    BY <1>2, <1>3, <1>4, <2>1
  <2>2. CASE x # l
    BY <1>4, <2>2 DEF Route, l
  <2> QED BY <2>1, <2>2
<1>7. ASSUME NEW x \in 1 .. l - 1 PROVE \E e \in Moves : v[x+1] = Child(v[x], e)
  <2>1. x \in 1 .. l /\ x + 1 \in 1 .. l /\ x # l
    BY <1>2
  <2>2. CASE x = l - 1
    BY <1>2, <1>4, <2>1, <2>2 DEF y
  <2>3. CASE x # l - 1
    <3>1. x + 1 # l
      BY <1>2, <2>3
    <3> QED BY <1>4, <2>1, <3>1 DEF Route, l
  <2> QED BY <2>2, <2>3
<1>8. Route(v)
  BY <1>4, <1>5, <1>6, <1>7 DEF Route
<1> QED BY <1>4, <1>8 DEF v, y, l

LEMMA RouteFurther ==
  ASSUME shortdepth \in Nat, NEW n \in Nat, RoutesTo(n)
  PROVE  RoutesTo(n + 1)
<1> SUFFICES ASSUME NEW c \in Cubes, ClassDist(c) = shortdepth + (n + 1)
             PROVE  \E v : Route(v) /\ Len(v) = (n + 1) + 1 /\ Same(v[(n+1)+1].cube, c)
  BY DEF RoutesTo
<1>1. PICK e \in Cubes, m0 \in Moves : ClassDist(e) = ClassDist(c) - 1 /\ Same(Turns[e][m0], c)
  BY ClassParent
<1>2. ClassDist(e) = shortdepth + n /\ Turns[e][m0] \in Cubes
  BY <1>1, ClassMove
<1>3. PICK w : Route(w) /\ Len(w) = n + 1 /\ Same(w[n+1].cube, e)
  BY <1>2 DEF RoutesTo
<1> DEFINE x == w[n+1]
<1>4. w \in Seq(Nodes) /\ n + 1 \in 1 .. Len(w) /\ x \in Nodes /\ Exact(x) /\ Len(x.path) = n
  <2>1. w \in Seq(Nodes) /\ n + 1 \in 1 .. Len(w)
    BY <1>3 DEF Route
  <2>2. Exact(x) /\ Len(x.path) = (n + 1) - 1
    BY <1>3, <2>1 DEF Route
  <2> QED BY <2>1, <2>2
<1>5. x.cube \in Cubes
  BY <1>4 DEF Nodes
<1>6. PICK m \in Moves : Same(Turns[e][m0], Turns[x.cube][m])
  BY <1>2, <1>3, <1>5, SameEquivalence, SameMoves
<1> HIDE DEF x
<1> DEFINE y == Child(x, m)
<1>7. /\ y \in Nodes /\ y.cube = Turns[x.cube][m] /\ Turns[x.cube][m] \in Cubes
      /\ Len(y.path) = n + 1
  BY <1>4, ChildType
<1>8. Same(y.cube, c)
  BY <1>1, <1>2, <1>6, <1>7, SameEquivalence
<1>9. Exact(y)
  BY <1>7, <1>8, ClassOfSame DEF Exact
<1>10. CASE Allowed(y.path)
  <2>1. Len(w) = n + 1 /\ x = w[Len(w)]
    BY <1>3 DEF x
  <2> QED BY <1>3, <1>8, <1>9, <1>10, <2>1, RouteLonger
<1>11. CASE ~Allowed(y.path)
  <2>1. n # 0
    <3> SUFFICES ASSUME n = 0 PROVE FALSE
      OBVIOUS
    <3>1. y.path \in Seq(Moves) /\ Len(y.path) <= 1
      BY <1>7 DEF Nodes
    <3> QED BY <1>11, <3>1, AllowedShort
  <2> DEFINE p == w[n]
  <2>2. p \in Nodes /\ n \in 1 .. Len(w) /\ n \in 1 .. Len(w) - 1 /\ Len(p.path) = n - 1 /\ Exact(p)
    BY <1>3, <1>4, <2>1 DEF Route
  <2>3. PICK m1 \in Moves : x = Child(p, m1)
    BY <1>3, <2>2 DEF Route, x
  <2>4. From(p)
    <3>1. \A q \in Nodes : Exact(q) => Within(q)
      <4> SUFFICES ASSUME NEW q \in Nodes, Exact(q) PROVE Within(q)
        OBVIOUS
      <4>1. q.path \in Seq(Moves) /\ shortdepth + Len(q.path) \in Nat
        BY DEF Nodes
      <4> QED BY <4>1 DEF Exact, Within
    <3>2. CASE n = 1
      BY <2>2, <3>1, <3>2 DEF From
    <3>3. CASE n # 1
      <4>1. n - 1 \in 1 .. Len(w) - 1 /\ n - 1 \in 1 .. Len(w) /\ (n - 1) + 1 = n
        BY <2>1, <2>2, <3>3
      <4>2. w[n-1] \in Nodes /\ Exact(w[n-1])
        BY <1>3, <1>4, <4>1 DEF Route
      <4>3. PICK k \in Moves : p = Child(w[n-1], k)
        BY <1>3, <4>1 DEF Route
      <4> QED BY <2>2, <3>1, <4>2, <4>3 DEF From
    <3> QED BY <3>2, <3>3
  <2> HIDE DEF p
  <2> DEFINE z == Child(p, m)  u == Child(z, m1)
  <2>5. /\ Allowed(z.path) /\ Exact(z) /\ u.cube = y.cube /\ Allowed(u.path)
    BY <1>4, <1>9, <1>11, <2>2, <2>3, <2>4, Reorder
  <2>6. z \in Nodes /\ u \in Nodes /\ Len(u.path) = n + 1
    <3>1. z \in Nodes /\ Len(z.path) = Len(p.path) + 1
      BY <2>2, ChildType
    <3> HIDE DEF z
    <3>2. u \in Nodes /\ Len(u.path) = Len(z.path) + 1
      BY <3>1, ChildType
    <3> QED BY <2>2, <3>1, <3>2
  <2>7. Exact(u)
    BY <1>7, <1>9, <2>5, <2>6 DEF Exact
  <2> DEFINE v == [w EXCEPT ![n+1] = z]
  <2>8. Route(v) /\ Len(v) = n + 1 /\ v[n+1] = z
    <3>1. Len(w) = n + 1 /\ Len(w) >= 2 /\ w[Len(w)-1] = p
      BY <1>3, <2>1 DEF p
    <3> HIDE DEF p
    <3> QED BY <1>3, <2>5, <3>1, RouteTurned
  <2> HIDE DEF v, z
  <2>9. v[Len(v)] = z
    BY <2>8
  <2>10. Exact(Child(v[Len(v)], m1)) /\ Allowed(Child(v[Len(v)], m1).path)
    BY <2>5, <2>7, <2>9
  <2>11. PICK r : Route(r) /\ Len(r) = Len(v) + 1 /\ r[Len(v)+1] = u
    BY <2>8, <2>9, <2>10, RouteLonger
  <2> QED BY <1>8, <2>5, <2>8, <2>11
<1> QED BY <1>10, <1>11

LEMMA RoutesEverywhere == ASSUME shortdepth \in Nat PROVE \A n \in 0 .. 4 : RoutesTo(n)
<1>1. RoutesTo(0)
  BY RouteOfOne
<1>2. \A n \in Nat : RoutesTo(n) => RoutesTo(n + 1)
  BY RouteFurther
<1>3. RoutesTo(0 + 1)
  BY <1>1, <1>2
<1>4. RoutesTo(1 + 1)
  BY <1>2, <1>3
<1>5. RoutesTo(2 + 1)
  BY <1>2, <1>4
<1>6. RoutesTo(3 + 1)
  BY <1>2, <1>5
<1>7. \A n \in 0 .. 4 : n = 0 \/ n = 0 + 1 \/ n = 1 + 1 \/ n = 2 + 1 \/ n = 3 + 1
  OBVIOUS
<1> QED BY <1>1, <1>3, <1>4, <1>5, <1>6, <1>7, Zenon

-----------------------------------------------------------------------------
(* An entry is hit when it has a value or a thread is about to give it     *)
(* one; a position is marked when its entry is.                            *)
Hit(a, v) ==
  \/ table[a] <= v
  \/ \E t \in Threads : newval[t] <= v /\ \E x \in 1 .. Len(coords[t]) : coords[t][x] = a
Marked(c, v) == Hit(Coord(Key[c], h), v)
AllMarked(c, v) == \A b \in Cubes : Same(b, c) => Marked(b, v)
Queued(n) == \E t \in Threads : \E x \in 1 .. Len(todo[t]) : todo[t][x] = n

(* The short cubes taken from the map: the near ones are marked, from the  *)
(* others every route that is never cut is being searched or marked to its *)
(* end.  A branch may be cut at an entry from the depth of value 0 on.     *)
Uncut == IF Real THEN -d ELSE LastLevel
TakenSlot(s) == s < next /\ map.table[s].key \in Nat
Taken ==
  \A s \in Slots : TakenSlot(s) /\ map.table[s].val < shortdepth =>
    Hit(Coord(map.table[s].key, h), 0)
RouteStarts(w) ==
  \E s \in Slots : /\ TakenSlot(s) /\ map.table[s].val = shortdepth
                   /\ w[1].cube = Rep[map.table[s].key]
RouteDone(w) ==
  \/ \E x \in 1 .. Len(w) : Queued(w[x])
  \/ AllMarked(w[Len(w)].cube, NewValue(d + Len(w) - 1))
Routed ==
  \A w : Route(w) /\ Len(w) <= Uncut + 1 /\ RouteStarts(w) => RouteDone(w)

(* Marks go to all the positions that are the same.                        *)
Closed ==
  Real => \A b, c \in Cubes, v \in 0 .. 2 :
    Same(b, c) /\ ClassDist(c) >= shortdepth /\ Marked(c, v) => Marked(b, v)

(* Where branches may be cut: what comes next after a marked position is   *)
(* marked or is going to be visited, whoever has made the mark.            *)
Covered(c, l) ==
  \/ Marked(c, d + l)
  \/ \E t \in Threads : \E x \in 1 .. Len(todo[t]) :
       Same(todo[t][x].cube, c) /\ Len(todo[t][x].path) = l /\ Allowed(todo[t][x].path)
Frontier ==
  Real => \A c \in Cubes, l \in -d .. LastLevel - 1 :
    ClassDist(c) = shortdepth + l /\ Marked(c, d + l) =>
      \A m \in Moves :
        ClassDist(Turns[c][m]) = shortdepth + l + 1 => Covered(Turns[c][m], l + 1)

(* The children of a node are visited in order: those before a node to     *)
(* visit come before it in the list or are marked.                         *)
SiblingDone(t, x, p, k) ==
  \/ \E y \in 1 .. x - 1 : todo[t][y] = Child(p, k)
  \/ Marked(Turns[p.cube][k], NewValue(d + Len(p.path) + 1))
Family(t, x) ==
  \/ Len(todo[t][x].path) = 0
  \/ \E p \in Nodes, m \in Moves :
       /\ todo[t][x] = Child(p, m) /\ From(p)
       /\ \A k \in Moves : k < m /\ Allowed(Child(p, k).path) => SiblingDone(t, x, p, k)
Families == Real => \A t \in Threads : \A x \in 1 .. Len(todo[t]) : Family(t, x)

Phases ==
  /\ pc_main = "short" => next = 0
  /\ \A t \in Threads : pc[t] = "exit" => next = capacity

Search == Taken /\ Routed /\ Closed /\ Frontier /\ Families /\ Phases

-----------------------------------------------------------------------------
(* What does not change with the search.                                   *)
LEMMA StaticStays ==
  ASSUME UNCHANGED <<h, base>>
  PROVE  /\ (Real' <=> Real) /\ Grade' = Grade /\ d' = d /\ LastLevel' = LastLevel /\ Uncut' = Uncut
         /\ \A b, c : Same(b, c)' <=> Same(b, c)
         /\ \A c : ClassDist(c)' = ClassDist(c)
         /\ \A n : Within(n)' <=> Within(n)
         /\ \A n : From(n)' <=> From(n)
         /\ \A n : Exact(n)' <=> Exact(n)
         /\ \A w : Route(w)' <=> Route(w)
<1>1. (Real' <=> Real) /\ d' = d
  BY DEF Real, d
<1>2. LastLevel' = LastLevel /\ Grade' = Grade
  BY <1>1 DEF LastLevel, Grade
<1>3. Uncut' = Uncut
  BY <1>1, <1>2 DEF Uncut
<1>4. \A b, c : Same(b, c)' <=> Same(b, c)
  BY <1>2 DEF Same
<1>5. \A c : ClassDist(c)' = ClassDist(c)
  <2> TAKE c
  <2>1. {e \in Cubes : Same(e, c)'} = {e \in Cubes : Same(e, c)}
    BY <1>4
  <2> QED BY <2>1 DEF ClassDist
<1>6. \A n : Within(n)' <=> Within(n)
  BY <1>5 DEF Within
<1>7. \A n : From(n)' <=> From(n)
  BY <1>6 DEF From
<1>8. \A n : Exact(n)' <=> Exact(n)
  BY <1>5 DEF Exact
<1>9. \A w : Route(w)' <=> Route(w)
  BY <1>8 DEF Route
<1> QED BY <1>1, <1>2, <1>3, <1>4, <1>5, <1>6, <1>7, <1>8, <1>9

LEMMA KeyCoord == ASSUME Types, NEW c \in Cubes PROVE Coord(Key[c], h) \in Coords
<1>1. Key[c] \in Keys /\ h \in 0 .. HMAX
  BY ParametersAssumption, Levels DEF Types
<1> QED BY <1>1, CoordType DEF Coords

(* A step that hits the same entries and leaves the lists as they are.     *)
LEMMA SearchStays ==
  ASSUME Types, Types', ShortOK, Search, UNCHANGED <<h, base, todo>>,
         \A a \in Coords, v \in Int : Hit(a, v)' <=> Hit(a, v),
         \A s \in Slots : TakenSlot(s)' => TakenSlot(s) /\ map'.table[s] = map.table[s],
         Phases'
  PROVE  Search'
<1>1. /\ (Real' <=> Real) /\ d' = d /\ LastLevel' = LastLevel /\ Uncut' = Uncut
      /\ \A b, c : Same(b, c)' <=> Same(b, c)
      /\ \A c : ClassDist(c)' = ClassDist(c)
      /\ \A n : From(n)' <=> From(n)
      /\ \A w : Route(w)' <=> Route(w)
  BY StaticStays
<1>2. d \in Int /\ LastLevel \in Int /\ d + LastLevel = 2 /\ h \in 0 .. HMAX
  BY Levels DEF Types
<1>3. \A c \in Cubes, v \in Int : Marked(c, v)' <=> Marked(c, v)
  BY KeyCoord DEF Marked
<1>4. \A n : NewValue(n)' = NewValue(n)
  BY DEF NewValue
<1>5. \A l \in Int : NewValue(l) \in Int
  BY DEF NewValue
<1>0. Taken /\ Routed /\ Closed /\ Frontier /\ Families
  BY DEF Search
<1>6. Taken'
  <2> SUFFICES ASSUME NEW s \in Slots, TakenSlot(s)', map'.table[s].val < shortdepth
               PROVE  Hit(Coord(map.table[s].key, h), 0)'
    BY DEF Taken
  <2>1. TakenSlot(s) /\ map'.table[s] = map.table[s]
    OBVIOUS
  <2>2. map.table[s].key \in Keys
    BY <2>1 DEF TakenSlot, ShortOK, Entries
  <2>3. Coord(map.table[s].key, h) \in Coords
    BY <1>2, <2>2, CoordType DEF Coords
  <2>4. Hit(Coord(map.table[s].key, h), 0)
    BY <1>0, <2>1 DEF Taken
  <2> QED BY <2>1, <2>3, <2>4
<1>7. Routed'
  <2> SUFFICES ASSUME NEW w, Route(w), Len(w) <= Uncut + 1, RouteStarts(w)'
               PROVE  RouteDone(w)'
    BY <1>1 DEF Routed
  <2>1. RouteStarts(w)
    BY DEF RouteStarts
  <2>2. RouteDone(w)
    BY <1>0, <1>1, <2>1 DEF Routed
  <2>3. CASE \E x \in 1 .. Len(w) : Queued(w[x])
    BY <2>3 DEF RouteDone, Queued
  <2>4. CASE AllMarked(w[Len(w)].cube, NewValue(d + Len(w) - 1))
    <3>1. Len(w) \in Nat
      BY DEF Route
    <3>2. NewValue(d + Len(w) - 1) \in Int
      BY <1>2, <1>5, <3>1
    <3>3. AllMarked(w[Len(w)].cube, NewValue(d + Len(w) - 1))'
      BY <1>1, <1>3, <1>4, <2>4, <3>2 DEF AllMarked
    <3> QED BY <1>1, <3>3 DEF RouteDone
  <2> QED BY <2>2, <2>3, <2>4 DEF RouteDone
<1>8. Closed'
  <2>1. \A v \in 0 .. 2 : v \in Int
    OBVIOUS
  <2> QED BY <1>0, <1>1, <1>3, <2>1 DEF Closed
<1>9. Frontier'
  <2> SUFFICES ASSUME Real, NEW c \in Cubes, NEW l \in -d .. LastLevel - 1,
                      ClassDist(c) = shortdepth + l, Marked(c, d + l)', NEW m \in Moves,
                      ClassDist(Turns[c][m]) = shortdepth + l + 1
               PROVE  Covered(Turns[c][m], l + 1)'
    BY <1>1 DEF Frontier
  <2>1. d + l \in Int /\ d + (l + 1) \in Int /\ Turns[c][m] \in Cubes
    BY <1>2, ParametersAssumption, SMTT(30)
  <2>2. Covered(Turns[c][m], l + 1)
    BY <1>0, <1>1, <1>3, <2>1 DEF Frontier
  <2> QED BY <1>1, <1>3, <2>1, <2>2 DEF Covered
<1>10. Families'
  <2> SUFFICES ASSUME Real, NEW t \in Threads, NEW x \in 1 .. Len(todo[t]), Family(t, x)
               PROVE  Family(t, x)'
    BY <1>0, <1>1 DEF Families
  <2>1. ASSUME NEW p \in Nodes, NEW k \in Moves, SiblingDone(t, x, p, k)
        PROVE  SiblingDone(t, x, p, k)'
    <3>1. Turns[p.cube][k] \in Cubes /\ Len(p.path) \in Nat
      BY ChildType
    <3>2. NewValue(d + Len(p.path) + 1) \in Int
      BY <1>2, <1>5, <3>1
    <3> QED BY <1>1, <1>3, <1>4, <2>1, <3>1, <3>2 DEF SiblingDone
  <2> QED BY <1>1, <2>1 DEF Family
<1> QED BY <1>6, <1>7, <1>8, <1>9, <1>10 DEF Search

(* A store makes no difference to what is hit, and the steps that mark and *)
(* visit nothing do not either.                                            *)
LEMMA StoreHits ==
  ASSUME IInv, NEW t \in Threads, Store(t), NEW a \in Coords, NEW v \in Int
  PROVE  Hit(a, v)' <=> Hit(a, v)
<1> DEFINE c == Head(coords[t])  q == Tail(coords[t])
<1>1. Types /\ ThreadOK(t) /\ pc[t] = "store"
  BY DEF IInv, ThreadOK, Store
<1>2. /\ c \in Coords /\ newval[t] \in 0 .. Unset
      /\ table' = [table EXCEPT ![c] = Lowered(newval[t], table[c])]
  BY StoreEffect
<1>3. /\ coords' = [coords EXCEPT ![t] = q] /\ newval' = newval
      /\ coords \in [Threads -> Seq(Coords)] /\ newval \in [Threads -> 0 .. Unset]
      /\ table \in [Coords -> 0 .. Unset]
  BY <1>1 DEF Store, Types
<1>4. coords[t] \in Seq(Coords) /\ coords[t] # <<>>
  BY <1>1 DEF Types, ThreadOK, Roster
<1>5. /\ c = coords[t][1] /\ 1 \in 1 .. Len(coords[t]) /\ Len(q) = Len(coords[t]) - 1
      /\ \A x \in 1 .. Len(q) : x + 1 \in 1 .. Len(coords[t]) /\ q[x] = coords[t][x+1]
  BY <1>4, Tails
<1>6. Len(coords[t]) \in Nat
  BY <1>4
<1> HIDE DEF c, q
<1>7. /\ table'[c] = Lowered(newval[t], table[c]) /\ \A b \in Coords : b # c => table'[b] = table[b]
      /\ newval[t] \in Int /\ table[c] \in Int
  BY <1>2, <1>3
<1>8. coords'[t] = q /\ \A u \in Threads : u # t => coords'[u] = coords[u]
  BY <1>3
<1>9. ASSUME Hit(a, v) PROVE Hit(a, v)'
  <2>1. CASE table[a] <= v
    <3>1. table'[a] <= v
      BY <1>3, <1>7, <2>1 DEF Lowered
    <3> QED BY <3>1 DEF Hit
  <2>2. ASSUME NEW u \in Threads, newval[u] <= v, NEW x \in 1 .. Len(coords[u]), coords[u][x] = a
        PROVE  Hit(a, v)'
    <3>1. CASE u # t
      BY <1>3, <1>8, <2>2, <3>1 DEF Hit
    <3>2. CASE u = t /\ x = 1
      <4>1. a = c /\ newval[t] <= v
        BY <1>5, <2>2, <3>2
      <4>2. table'[a] <= v
        BY <1>7, <4>1 DEF Lowered
      <4> QED BY <4>2 DEF Hit
    <3>3. CASE u = t /\ x # 1
      <4>1. x - 1 \in 1 .. Len(q) /\ (x - 1) + 1 = x
        BY <1>5, <1>6, <2>2, <3>3
      <4>2. q[x-1] = a
        BY <1>5, <2>2, <3>3, <4>1
      <4> QED BY <1>3, <1>8, <2>2, <3>3, <4>1, <4>2 DEF Hit
    <3> QED BY <3>1, <3>2, <3>3
  <2> QED BY <1>9, <2>1, <2>2 DEF Hit
<1>10. ASSUME Hit(a, v)' PROVE Hit(a, v)
  <2>1. CASE table'[a] <= v
    <3>1. CASE a # c
      BY <1>7, <2>1, <3>1 DEF Hit
    <3>2. CASE a = c
      <4>1. newval[t] <= v \/ table[c] <= v
        BY <1>7, <2>1, <3>2 DEF Lowered
      <4> QED BY <1>5, <3>2, <4>1 DEF Hit
    <3> QED BY <3>1, <3>2
  <2>2. ASSUME NEW u \in Threads, newval[u] <= v, NEW x \in 1 .. Len(coords'[u]), coords'[u][x] = a
        PROVE  Hit(a, v)
    <3>1. CASE u # t
      BY <1>8, <2>2, <3>1 DEF Hit
    <3>2. CASE u = t
      <4>1. x \in 1 .. Len(q) /\ q[x] = a
        BY <1>8, <2>2, <3>2
      <4>2. x + 1 \in 1 .. Len(coords[t]) /\ coords[t][x+1] = a
        BY <1>5, <4>1
      <4> QED BY <2>2, <3>2, <4>2 DEF Hit
    <3> QED BY <3>1, <3>2
  <2> QED BY <1>3, <1>10, <2>1, <2>2 DEF Hit
<1> QED BY <1>9, <1>10

LEMMA StoreSearch ==
  ASSUME IInv, IInv', Search, NEW t \in Threads, Store(t)
  PROVE  Search'
<1>1. Types /\ Types' /\ ShortOK
  BY DEF IInv
<1>2. UNCHANGED <<h, base, todo, map, next, pc_main>>
  BY DEF Store, short
<1>3. \A u \in Threads : pc'[u] = "exit" => pc[u] = "exit"
  BY <1>1 DEF Store, Types
<1>4. Phases'
  BY <1>2, <1>3 DEF Search, Phases
<1>5. \A a \in Coords, v \in Int : Hit(a, v)' <=> Hit(a, v)
  BY StoreHits
<1>6. \A s \in Slots : TakenSlot(s)' => TakenSlot(s) /\ map'.table[s] = map.table[s]
  BY <1>2 DEF TakenSlot
<1> QED BY <1>1, <1>2, <1>4, <1>5, <1>6, SearchStays

LEMMA QuietSearch ==
  ASSUME IInv, IInv', Search, UNCHANGED <<h, base, table, todo, coords, newval, next>>,
         UNCHANGED map \/ (pc_main = "short" /\ pc_main' = "short"),
         pc_main' = "short" => pc_main = "short",
         \A u \in Threads : pc'[u] = "exit" => pc[u] = "exit"
  PROVE  Search'
<1>1. Types /\ Types' /\ ShortOK
  BY DEF IInv
<1>2. Phases'
  BY DEF Search, Phases
<1>3. \A a \in Coords, v \in Int : Hit(a, v)' <=> Hit(a, v)
  BY DEF Hit
<1>4. \A s \in Slots : TakenSlot(s)' => TakenSlot(s) /\ map'.table[s] = map.table[s]
  BY CapacityAssumption DEF Search, Phases, TakenSlot, Slots
<1> QED BY <1>1, <1>2, <1>3, <1>4, SearchStays

LEMMA InitSearch == Init => Search
<1> SUFFICES ASSUME Init PROVE Search
  OBVIOUS
<1>1. IInv /\ next = 0 /\ pc_main = "short"
  BY InitIInv DEF Init
<1>2. \A s \in Slots : ~TakenSlot(s)
  BY <1>1, CapacityAssumption DEF TakenSlot, Slots
<1>3. Taken /\ Routed
  BY <1>2 DEF Taken, Routed, RouteStarts
<1>4. \A t \in Threads : todo[t] = <<>> /\ coords[t] = <<>> /\ pc[t] = "none"
  BY DEF Init
<1>5. \A a \in Coords, v \in Int : Hit(a, v) => v >= 3
  <2>1. \A a \in Coords : table[a] = 3
    BY DEF Init, Unset
  <2> QED BY <1>4, <2>1 DEF Hit
<1>6. \A c \in Cubes, v \in Int : Marked(c, v) => v >= 3
  <2>1. \A c \in Cubes : Coord(Key[c], h) \in Coords
    BY <1>1, KeyCoord DEF IInv
  <2> QED BY <1>5, <2>1 DEF Marked
<1>7. Closed
  <2>1. \A v \in 0 .. 2 : v \in Int /\ ~(v >= 3)
    OBVIOUS
  <2> QED BY <1>6, <2>1 DEF Closed
<1>8. Frontier
  <2>1. d \in Int /\ LastLevel \in Int /\ d + LastLevel = 2
    BY <1>1, Levels DEF IInv, Types
  <2>2. \A l \in -d .. LastLevel - 1 : d + l \in Int /\ ~(d + l >= 3)
    BY <2>1
  <2> QED BY <1>6, <2>2 DEF Frontier
<1>9. Families
  BY <1>4 DEF Families
<1>10. Phases
  BY <1>1, <1>4 DEF Phases
<1> QED BY <1>3, <1>7, <1>8, <1>9, <1>10 DEF Search

(* What is marked stays marked.                                            *)
LEMMA MarksStay ==
  ASSUME Types, UNCHANGED <<h, base>>,
         \A a \in Coords, v \in Int : Hit(a, v) => Hit(a, v)'
  PROVE  /\ \A c \in Cubes, v \in Int : Marked(c, v) => Marked(c, v)'
         /\ \A c \in Cubes, v \in Int : AllMarked(c, v) => AllMarked(c, v)'
         /\ \A n \in Int : NewValue(n) \in Int /\ NewValue(n)' = NewValue(n)
         /\ \A w : Route(w) => /\ d + Len(w) - 1 \in Int /\ w[Len(w)] \in Nodes
                               /\ w[Len(w)].cube \in Cubes
<1>1. \A c \in Cubes, v \in Int : Marked(c, v) => Marked(c, v)'
  BY KeyCoord DEF Marked
<1>2. \A c \in Cubes, v \in Int : AllMarked(c, v) => AllMarked(c, v)'
  BY <1>1, StaticStays DEF AllMarked
<1>3. \A n \in Int : NewValue(n) \in Int /\ NewValue(n)' = NewValue(n)
  BY DEF NewValue
<1>4. ASSUME NEW w, Route(w)
      PROVE  d + Len(w) - 1 \in Int /\ w[Len(w)] \in Nodes /\ w[Len(w)].cube \in Cubes
  <2>1. w \in Seq(Nodes) /\ w # <<>> /\ d \in Int
    BY <1>4, Levels DEF Route, Types
  <2>2. Len(w) \in 1 .. Len(w)
    BY <2>1
  <2>3. w[Len(w)] \in Nodes
    BY <2>1, <2>2
  <2> QED BY <2>1, <2>2, <2>3 DEF Nodes
<1> QED BY <1>1, <1>2, <1>3, <1>4

(* A short cube nearer than shortdepth shares no entry with a position     *)
(* whose class is not.                                                     *)
LEMMA NearEntry ==
  ASSUME Real, NEW k \in Keys, NEW c \in Cubes, Coord(Key[c], h) = Coord(k, h),
         ClassDist(c) >= shortdepth, shortdepth \in Nat
  PROVE  ~(KeyDist[k] < shortdepth)
<1>1. Rep[k] \in Cubes /\ Key[Rep[k]] = k /\ DistOf(Rep[k]) = KeyDist[k]
  BY ParametersAssumption DEF DistOf
<1>2. IsSimilar(k, Rep[k])
  BY <1>1, SimilarityAssumption
<1>3. Same(c, Rep[k])
  BY <1>2 DEF Same, Alike, Grade
<1>4. ClassDist(c) = ClassDist(Rep[k]) /\ ClassDist(Rep[k]) <= KeyDist[k] /\ ClassDist(Rep[k]) \in Nat
  BY <1>1, <1>3, ClassOfSame, ClassNearest
<1> QED BY <1>1, <1>4, DistType

LEMMA NextSearch ==
  ASSUME IInv, IInv', Search, LastSlotFree, NEW t \in Threads, NextShortCube(t)
  PROVE  Search'
<1>0. /\ Types /\ Types' /\ ShortOK /\ ThreadOK(t)
      /\ Taken /\ Routed /\ Closed /\ Frontier /\ Families /\ Phases
  BY DEF IInv, ThreadOK, Search
<1>a. d \in Int /\ LastLevel \in Int /\ -d >= 0 /\ h \in 0 .. HMAX
  <2>1. <<h, base>> \in Requests
    BY <1>0 DEF Types
  <2> QED BY <2>1, Levels
<1>1. /\ capacity \in Nat \ {0} /\ KeyDist \in [Keys -> Nat] /\ Rep \in [Keys -> Cubes]
      /\ \A k \in Keys : Key[Rep[k]] = k
      /\ next \in 0 .. capacity /\ shortdepth \in Nat
  BY <1>0, ParametersAssumption, CapacityAssumption, DistanceAssumption, Levels DEF Types
<1> DEFINE r == h48map_nextkvpair(map, next)
<1>2. \/ r.p = capacity /\ \A s \in next .. capacity-1 : map.table[s] = MAP_UNSET
      \/ \E s \in next .. capacity-1 :
           /\ r.p = s + 1 /\ r.kv = map.table[s] /\ map.table[s] # MAP_UNSET
           /\ \A u \in next .. s-1 : map.table[u] = MAP_UNSET
  BY <1>0, NextPair DEF Types
<1>3. /\ pc[t] = "next" /\ todo[t] = <<>> /\ next' = r.p
      /\ IF r.p = capacity
         THEN pc' = [pc EXCEPT ![t] = "exit"] /\ todo' = todo /\ coords' = coords /\ newval' = newval
         ELSE IF r.kv.val < shortdepth
         THEN /\ coords' = [coords EXCEPT ![t] = <<Coord(r.kv.key, h)>>]
              /\ newval' = [newval EXCEPT ![t] = 0]
              /\ pc' = [pc EXCEPT ![t] = "mark"] /\ todo' = todo
         ELSE /\ todo' = [todo EXCEPT ![t] = <<Node(Rep[r.kv.key], <<>>)>>]
              /\ pc' = pc /\ coords' = coords /\ newval' = newval
      /\ UNCHANGED <<h, base, map, table, pc_main>>
  BY DEF NextShortCube, short, search
<1> HIDE DEF r
<1>4. pc_main # "short" /\ coords[t] = <<>> /\ i = shortdepth /\ Farthest = shortdepth
  BY <1>0, <1>1, <1>3 DEF ThreadOK, Roster, ShortOK, Farthest
<1>5. CASE r.p = capacity
  <2>1. /\ next' = capacity /\ pc' = [pc EXCEPT ![t] = "exit"]
        /\ UNCHANGED <<h, base, todo, coords, newval, table, map, pc_main>>
    BY <1>3, <1>5
  <2>2. ASSUME NEW s \in Slots, TakenSlot(s)' PROVE TakenSlot(s) /\ map'.table[s] = map.table[s]
    <3>1. s < next \/ s \in next .. capacity-1
      BY <1>1 DEF Slots
    <3>2. \A u \in next .. capacity-1 : map.table[u] = MAP_UNSET
      BY <1>1, <1>2, <1>5 DEF LastSlotFree
    <3> QED BY <2>1, <2>2, <3>1, <3>2 DEF TakenSlot, MAP_UNSET, MAP_KEYMASK
  <2>3. Phases'
    BY <1>0, <1>4, <2>1 DEF Phases, Types
  <2>4. \A a \in Coords, v \in Int : Hit(a, v)' <=> Hit(a, v)
    BY <2>1 DEF Hit
  <2> QED BY <1>0, <2>1, <2>2, <2>3, <2>4, SearchStays
<1>6. CASE r.p # capacity
  <2>1. PICK s \in next .. capacity-1 :
           /\ r.p = s + 1 /\ r.kv = map.table[s] /\ map.table[s] # MAP_UNSET
           /\ \A u \in next .. s-1 : map.table[u] = MAP_UNSET
    BY <1>2, <1>6
  <2> DEFINE k == map.table[s].key  v == map.table[s].val
  <2>2. s \in Slots /\ s \in Int /\ next' = s + 1 /\ next # capacity
    BY <1>1, <1>3, <2>1 DEF Slots
  <2>3. k \in Nat /\ k \in Keys /\ KeyDist[k] <= v /\ v <= shortdepth /\ v \in Nat
    BY <1>0, <1>4, <2>1, <2>2 DEF ShortOK, MapOK, Entries
  <2>4. ASSUME NEW u \in Slots, TakenSlot(u)' PROVE (TakenSlot(u) \/ u = s) /\ map'.table[u] = map.table[u]
    <3>1. u \in next .. s-1 => map.table[u].key \notin Nat
      BY <2>1 DEF MAP_UNSET, MAP_KEYMASK
    <3>2. u < s + 1 /\ map.table[u].key \in Nat
      BY <1>3, <2>2, <2>4 DEF TakenSlot
    <3>3. u < next \/ u = s
      BY <1>1, <2>2, <3>1, <3>2 DEF Slots
    <3> QED BY <1>3, <3>2, <3>3 DEF TakenSlot
  <2>5. ASSUME NEW a \in Coords, NEW w \in Int, Hit(a, w) PROVE Hit(a, w)'
    <3>1. \A u \in Threads : coords[u] # <<>> => coords'[u] = coords[u] /\ newval'[u] = newval[u]
      BY <1>0, <1>3, <1>4 DEF Types
    <3>2. \A u \in Threads : \A x \in 1 .. Len(coords[u]) : coords[u] # <<>>
      OBVIOUS
    <3> QED BY <1>3, <2>5, <3>1, <3>2 DEF Hit
  <2>6. /\ \A c \in Cubes, w \in Int : Marked(c, w) => Marked(c, w)'
        /\ \A c \in Cubes, w \in Int : AllMarked(c, w) => AllMarked(c, w)'
        /\ \A n \in Int : NewValue(n) \in Int /\ NewValue(n)' = NewValue(n)
        /\ \A w : Route(w) => /\ d + Len(w) - 1 \in Int /\ w[Len(w)] \in Nodes
                              /\ w[Len(w)].cube \in Cubes
    BY <1>0, <1>3, <2>5, MarksStay
  <2>7. /\ (Real' <=> Real) /\ d' = d /\ LastLevel' = LastLevel /\ Uncut' = Uncut
        /\ \A b, c : Same(b, c)' <=> Same(b, c)
        /\ \A c : ClassDist(c)' = ClassDist(c)
        /\ \A n : From(n)' <=> From(n)
        /\ \A w : Route(w)' <=> Route(w)
    BY <1>3, StaticStays
  <2>8. /\ \A u \in Threads : todo[u] # <<>> => todo'[u] = todo[u]
        /\ \A u \in Threads : \A x \in 1 .. Len(todo[u]) : todo[u] # <<>>
    <3>1. todo' = todo \/ todo' = [todo EXCEPT ![t] = <<Node(Rep[r.kv.key], <<>>)>>]
      BY <1>3, <1>6
    <3>2. \A q : todo' = [todo EXCEPT ![t] = q] => \A u \in Threads : u # t => todo'[u] = todo[u]
      BY <1>0 DEF Types
    <3>3. Len(<<>>) = 0
      OBVIOUS
    <3> QED BY <1>3, <3>1, <3>2, <3>3
  <2>9. \A n : Queued(n) => Queued(n)'
    BY <2>8 DEF Queued
  <2>10. \A w : Route(w) /\ RouteDone(w) => RouteDone(w)'
    BY <2>6, <2>7, <2>9 DEF RouteDone
  <2>11. d \in Int /\ LastLevel \in Int
    BY <1>a
  <2>12. ASSUME NEW c \in Cubes, NEW l \in Int, Covered(c, l) PROVE Covered(c, l)'
    <3>1. CASE Marked(c, d + l)
      BY <2>6, <2>7, <2>11, <2>12, <3>1 DEF Covered
    <3>2. ASSUME NEW u \in Threads, NEW x \in 1 .. Len(todo[u]),
                 Same(todo[u][x].cube, c), Len(todo[u][x].path) = l, Allowed(todo[u][x].path)
          PROVE  Covered(c, l)'
      <4>1. todo'[u] = todo[u]
        BY <2>8
      <4> QED BY <2>7, <3>2, <4>1 DEF Covered
    <3> QED BY <2>12, <3>1, <3>2 DEF Covered
  <2>13. CASE v < shortdepth
    <3>1. /\ coords'[t] = <<Coord(k, h)>> /\ newval'[t] = 0 /\ todo' = todo
          /\ pc' = [pc EXCEPT ![t] = "mark"]
          /\ \A u \in Threads : u # t => coords'[u] = coords[u] /\ newval'[u] = newval[u]
      <4>1. /\ coords' = [coords EXCEPT ![t] = <<Coord(k, h)>>]
            /\ newval' = [newval EXCEPT ![t] = 0]
            /\ pc' = [pc EXCEPT ![t] = "mark"] /\ todo' = todo
        BY <1>3, <1>6, <2>1, <2>13
      <4>2. DOMAIN coords = Threads /\ DOMAIN newval = Threads
        BY <1>0 DEF Types
      <4> HIDE DEF k
      <4> QED BY <4>1, <4>2
    <3>a. PICK e \in Coords : e = Coord(k, h)
      BY <1>a, <2>3, CoordType DEF Coords
    <3>2. Hit(e, 0)'
      <4>1. 1 \in 1 .. Len(coords'[t]) /\ coords'[t][1] = e
        BY <3>1, <3>a
      <4> QED BY <3>1, <4>1 DEF Hit
    <3> HIDE DEF k, v
    <3>3. ASSUME NEW a \in Coords, NEW w \in Int, Hit(a, w)', a # e PROVE Hit(a, w)
      <4>1. coords'[t] = <<e>>
        BY <3>1, <3>a
      <4>2. \A x \in 1 .. Len(coords'[t]) : coords'[t][x] = e
        BY <4>1
      <4> QED BY <1>3, <3>1, <3>3, <4>2 DEF Hit
    <3>4. ASSUME NEW c \in Cubes, NEW w \in Int, Marked(c, w)', Real, ClassDist(c) >= shortdepth
          PROVE  Marked(c, w)
      <4>1. Coord(Key[c], h) # e
        BY <1>1, <2>3, <2>13, <3>4, <3>a, NearEntry DEF v
      <4>2. Coord(Key[c], h) \in Coords /\ h' = h
        BY <1>0, <1>3, KeyCoord
      <4> QED BY <3>3, <3>4, <4>1, <4>2 DEF Marked
    <3>5. Taken'
      <4> SUFFICES ASSUME NEW u \in Slots, TakenSlot(u)', map'.table[u].val < shortdepth
                   PROVE  Hit(Coord(map.table[u].key, h), 0)'
        BY <1>3 DEF Taken
      <4>1. CASE u = s
        BY <1>3, <3>2, <3>a, <4>1 DEF k
      <4>2. CASE u # s
        <5>1. TakenSlot(u) /\ map.table[u].val < shortdepth
          BY <2>4, <4>2
        <5>2. Hit(Coord(map.table[u].key, h), 0) /\ map.table[u].key \in Keys
          BY <1>0, <5>1 DEF Taken, TakenSlot, ShortOK, Entries
        <5>3. Coord(map.table[u].key, h) \in Coords
          BY <1>0, <5>2, CoordType, Levels DEF Types, Coords
        <5> QED BY <1>3, <2>5, <5>2, <5>3
      <4> QED BY <4>1, <4>2
    <3>6. Routed'
      <4> SUFFICES ASSUME NEW w, Route(w), Len(w) <= Uncut + 1, RouteStarts(w)' PROVE RouteDone(w)'
        BY <2>7 DEF Routed
      <4>1. PICK u \in Slots : /\ TakenSlot(u)' /\ map'.table[u].val = shortdepth
                               /\ w[1].cube = Rep[map'.table[u].key]
        BY DEF RouteStarts
      <4>2. TakenSlot(u) /\ map'.table[u] = map.table[u]
        BY <1>1, <2>3, <2>4, <2>13, <4>1 DEF v
      <4>3. RouteStarts(w)
        BY <4>1, <4>2 DEF RouteStarts
      <4> QED BY <1>0, <2>10, <4>3 DEF Routed
    <3>7. Closed'
      <4> SUFFICES ASSUME Real, NEW b \in Cubes, NEW c \in Cubes, NEW w \in 0 .. 2, Same(b, c),
                          ClassDist(c) >= shortdepth, Marked(c, w)'
                   PROVE  Marked(b, w)'
        BY <2>7 DEF Closed
      <4>1. w \in Int
        OBVIOUS
      <4>2. Marked(b, w)
        BY <1>0, <3>4, <4>1 DEF Closed
      <4> QED BY <2>6, <4>1, <4>2
    <3>8. Frontier'
      <4> SUFFICES ASSUME Real, NEW c \in Cubes, NEW l \in -d .. LastLevel - 1,
                          ClassDist(c) = shortdepth + l, Marked(c, d + l)', NEW m \in Moves,
                          ClassDist(Turns[c][m]) = shortdepth + l + 1
                   PROVE  Covered(Turns[c][m], l + 1)'
        BY <2>7 DEF Frontier
      <4>1. l \in Int /\ l >= 0 /\ d + l \in Int /\ l + 1 \in Int /\ Turns[c][m] \in Cubes
        BY <1>a, ParametersAssumption
      <4>2. Marked(c, d + l)
        BY <1>1, <2>7, <3>4, <4>1
      <4>3. Covered(Turns[c][m], l + 1)
        BY <1>0, <4>2 DEF Frontier
      <4> QED BY <2>12, <4>1, <4>3
    <3>9. Families'
      <4> SUFFICES ASSUME Real, NEW u \in Threads, NEW x \in 1 .. Len(todo[u]), Family(u, x)
                   PROVE  Family(u, x)'
        BY <1>0, <2>7, <3>1 DEF Families
      <4>1. ASSUME NEW p \in Nodes, NEW n \in Moves, SiblingDone(u, x, p, n)
            PROVE  SiblingDone(u, x, p, n)'
        <5>1. Turns[p.cube][n] \in Cubes /\ Len(p.path) \in Nat
          BY ChildType
        <5>2. d + Len(p.path) + 1 \in Int
          BY <2>11, <5>1
        <5> QED BY <2>6, <2>7, <3>1, <4>1, <5>1, <5>2 DEF SiblingDone
      <4> QED BY <2>7, <3>1, <4>1 DEF Family
    <3>10. Phases'
      BY <1>0, <1>3, <1>4, <2>2, <3>1 DEF Phases, Types
    <3> QED BY <3>5, <3>6, <3>7, <3>8, <3>9, <3>10 DEF Search
  <2>14. CASE ~(v < shortdepth)
    <3>a. PICK n \in Nodes : n = Node(Rep[k], <<>>) /\ n.cube = Rep[k] /\ n.path = <<>>
      <4> DEFINE m == Node(Rep[k], <<>>)
      <4>1. Rep[k] \in Cubes /\ <<>> \in Seq(Moves)
        BY <1>1, <2>3
      <4>2. m \in Nodes /\ m.cube = Rep[k] /\ m.path = <<>>
        BY <4>1 DEF Node, Nodes
      <4> HIDE DEF m
      <4>3. m = Node(Rep[k], <<>>)
        BY DEF m
      <4> QED BY <4>2, <4>3
    <3>1. /\ todo' = [todo EXCEPT ![t] = <<n>>] /\ UNCHANGED <<pc, coords, newval, table>>
      BY <1>3, <1>6, <2>1, <2>14, <3>a
    <3> HIDE DEF k, v
    <3>3. \A a \in Coords, w \in Int : Hit(a, w)' <=> Hit(a, w)
      BY <3>1 DEF Hit
    <3>4. \A c \in Cubes, w \in Int : Marked(c, w)' <=> Marked(c, w)
      BY <1>0, <1>3, <3>3, KeyCoord DEF Marked
    <3>5. todo'[t] = <<n>> /\ \A u \in Threads : u # t => todo'[u] = todo[u]
      BY <1>0, <3>1 DEF Types
    <3>6. Queued(n)'
      <4>1. 1 \in 1 .. Len(todo'[t]) /\ todo'[t][1] = n
        BY <3>5
      <4> QED BY <4>1 DEF Queued
    <3>7. Taken'
      <4> SUFFICES ASSUME NEW u \in Slots, TakenSlot(u)', map'.table[u].val < shortdepth
                   PROVE  Hit(Coord(map.table[u].key, h), 0)'
        BY <1>3 DEF Taken
      <4>1. u # s
        BY <1>3, <2>14 DEF v
      <4>2. TakenSlot(u) /\ map.table[u].val < shortdepth
        BY <2>4, <4>1
      <4>3. Hit(Coord(map.table[u].key, h), 0) /\ map.table[u].key \in Keys
        BY <1>0, <4>2 DEF Taken, TakenSlot, ShortOK, Entries
      <4>4. Coord(map.table[u].key, h) \in Coords
        BY <1>0, <4>3, CoordType, Levels DEF Types, Coords
      <4> QED BY <1>3, <2>5, <4>3, <4>4
    <3>8. Routed'
      <4> SUFFICES ASSUME NEW w, Route(w), Len(w) <= Uncut + 1, RouteStarts(w)' PROVE RouteDone(w)'
        BY <2>7 DEF Routed
      <4>1. PICK u \in Slots : /\ TakenSlot(u)' /\ map'.table[u].val = shortdepth
                               /\ w[1].cube = Rep[map'.table[u].key]
        BY DEF RouteStarts
      <4>2. CASE u # s
        <5>1. RouteStarts(w)
          BY <2>4, <4>1, <4>2 DEF RouteStarts
        <5> QED BY <1>0, <2>10, <5>1 DEF Routed
      <4>3. CASE u = s
        <5>1. w \in Seq(Nodes) /\ w # <<>> /\ w[1].path = <<>>
          BY DEF Route
        <5>2. 1 \in 1 .. Len(w) /\ w[1] \in Nodes
          BY <5>1
        <5>3. w[1].cube = Rep[k]
          BY <1>3, <4>1, <4>3 DEF k
        <5>4. w[1] = n
          BY <3>a, <5>1, <5>2, <5>3 DEF Nodes, Node
        <5> QED BY <3>6, <5>2, <5>4 DEF RouteDone
      <4> QED BY <4>2, <4>3
    <3>9. Closed'
      <4>1. \A w \in 0 .. 2 : w \in Int
        OBVIOUS
      <4> QED BY <1>0, <2>7, <3>4, <4>1 DEF Closed
    <3>10. Frontier'
      <4> SUFFICES ASSUME Real, NEW c \in Cubes, NEW l \in -d .. LastLevel - 1,
                          ClassDist(c) = shortdepth + l, Marked(c, d + l)', NEW m \in Moves,
                          ClassDist(Turns[c][m]) = shortdepth + l + 1
                   PROVE  Covered(Turns[c][m], l + 1)'
        BY <2>7 DEF Frontier
      <4>1. l \in Int /\ d + l \in Int /\ l + 1 \in Int /\ Turns[c][m] \in Cubes
        BY <2>11, ParametersAssumption, SMTT(30)
      <4>2. Marked(c, d + l)
        BY <2>7, <3>4, <4>1
      <4>3. Covered(Turns[c][m], l + 1)
        BY <1>0, <4>2 DEF Frontier
      <4> QED BY <2>12, <4>1, <4>3
    <3>11. Families'
      <4> SUFFICES ASSUME Real, NEW u \in Threads, NEW x \in 1 .. Len(todo'[u])
                   PROVE  Family(u, x)'
        BY <2>7 DEF Families
      <4>1. CASE u = t
        <5>1. todo'[t][x] = n /\ Len(n.path) = 0
          BY <3>a, <3>5, <4>1, SMTT(30)
        <5> QED BY <4>1, <5>1 DEF Family
      <4>2. CASE u # t
        <5>1. todo'[u] = todo[u] /\ Family(u, x)
          BY <1>0, <3>5, <4>2 DEF Families
        <5>2. ASSUME NEW p \in Nodes, NEW y \in Moves, SiblingDone(u, x, p, y)
              PROVE  SiblingDone(u, x, p, y)'
          <6>1. Turns[p.cube][y] \in Cubes /\ Len(p.path) \in Nat
            BY ChildType
          <6>2. d + Len(p.path) + 1 \in Int
            BY <2>11, <6>1
          <6> QED BY <2>6, <2>7, <5>1, <5>2, <6>1, <6>2 DEF SiblingDone
        <5> QED BY <2>7, <5>1, <5>2 DEF Family
      <4> QED BY <4>1, <4>2
    <3>12. Phases'
      BY <1>0, <1>3, <1>4, <2>2, <3>1 DEF Phases, Types
    <3> QED BY <3>7, <3>8, <3>9, <3>10, <3>11, <3>12 DEF Search
  <2> QED BY <2>13, <2>14
<1> QED BY <1>5, <1>6

(* The visit of a node: it is cut, or its children are queued before the   *)
(* other nodes and its entries are going to be marked.                     *)
Cut(n) ==
  \/ ~Allowed(n.path)
  \/ Len(n.path) \in 1 .. 3 /\ DfsStop(n.cube, d + Len(n.path))
Going(t, n) ==
  /\ ~Cut(n)
  /\ todo'[t] = Children(n) \o Tail(todo[t])
  /\ coords'[t] = [x \in 1 .. Len(Sims(n.cube)) |-> Coord(Sims(n.cube)[x], h)]
  /\ newval'[t] = NewValue(d + Len(n.path))
Skipping(t, n) == Cut(n) /\ todo'[t] = Tail(todo[t]) /\ UNCHANGED <<coords, newval>>
Visited(t, n) ==
  /\ n \in Nodes /\ todo[t] \in Seq(Nodes) /\ todo[t] # <<>> /\ n = todo[t][1]
  /\ coords[t] = <<>> /\ Len(n.path) <= LastLevel /\ DistOf(n.cube) <= shortdepth + Len(n.path)
  /\ UNCHANGED <<h, base, map, next, table, pc_main>> /\ pc_main # "short"
  /\ \A u \in Threads : u # t =>
       todo'[u] = todo[u] /\ coords'[u] = coords[u] /\ newval'[u] = newval[u]
  /\ \A u \in Threads : pc'[u] = "exit" => pc[u] = "exit"
  /\ Going(t, n) \/ Skipping(t, n)

LEMMA VisitIs ==
  ASSUME IInv, NEW t \in Threads, Visit(t)
  PROVE  \E n : Visited(t, n)
<1>0. Types /\ ThreadOK(t)
  BY DEF IInv, ThreadOK
<1>1. todo[t] \in Seq(Nodes) /\ todo[t] # <<>> /\ pc[t] = "next"
  BY <1>0 DEF Types, Visit
<1>2. PICK n : n = Head(todo[t])
  OBVIOUS
<1>3. n \in Nodes /\ n = todo[t][1] /\ 1 \in 1 .. Len(todo[t])
  BY <1>1, <1>2, Tails
<1>4. Len(n.path) <= LastLevel /\ DistOf(n.cube) <= shortdepth + Len(n.path)
  BY <1>0, <1>3 DEF ThreadOK, NodesOK
<1>5. coords[t] = <<>> /\ pc_main # "short"
  BY <1>0, <1>1 DEF ThreadOK, Roster
<1>6. \/ /\ Cut(n)
         /\ todo' = [todo EXCEPT ![t] = Tail(@)]
         /\ UNCHANGED <<pc, coords, newval>>
      \/ /\ ~Cut(n)
         /\ todo' = [todo EXCEPT ![t] = Children(n) \o Tail(@)]
         /\ coords' = [coords EXCEPT ![t] =
                         [x \in 1 .. Len(Sims(n.cube)) |-> Coord(Sims(n.cube)[x], h)]]
         /\ newval' = [newval EXCEPT ![t] = NewValue(d + Len(n.path))]
         /\ pc' = [pc EXCEPT ![t] = "mark"]
  BY <1>2 DEF Visit, Cut
<1>7. UNCHANGED <<h, base, map, next, table, pc_main>>
  BY DEF Visit, short
<1>8. CASE Cut(n) /\ todo' = [todo EXCEPT ![t] = Tail(@)] /\ UNCHANGED <<pc, coords, newval>>
  <2>1. Skipping(t, n) /\ \A u \in Threads : u # t => todo'[u] = todo[u]
    BY <1>0, <1>8 DEF Types, Skipping
  <2> QED BY <1>1, <1>3, <1>4, <1>5, <1>7, <1>8, <2>1 DEF Visited
<1>9. CASE /\ ~Cut(n)
           /\ todo' = [todo EXCEPT ![t] = Children(n) \o Tail(@)]
           /\ coords' = [coords EXCEPT ![t] =
                           [x \in 1 .. Len(Sims(n.cube)) |-> Coord(Sims(n.cube)[x], h)]]
           /\ newval' = [newval EXCEPT ![t] = NewValue(d + Len(n.path))]
           /\ pc' = [pc EXCEPT ![t] = "mark"]
  <2>1. /\ DOMAIN todo = Threads /\ DOMAIN coords = Threads /\ DOMAIN newval = Threads
        /\ DOMAIN pc = Threads
    BY <1>0 DEF Types
  <2>2. /\ todo'[t] = Children(n) \o Tail(todo[t])
        /\ \A u \in Threads : u # t => todo'[u] = todo[u]
    BY <1>9, <2>1
  <2>3. /\ coords'[t] = [x \in 1 .. Len(Sims(n.cube)) |-> Coord(Sims(n.cube)[x], h)]
        /\ \A u \in Threads : u # t => coords'[u] = coords[u]
    BY <1>9, <2>1
  <2>4. /\ newval'[t] = NewValue(d + Len(n.path))
        /\ \A u \in Threads : u # t => newval'[u] = newval[u]
    BY <1>9, <2>1
  <2>5. \A u \in Threads : pc'[u] = "exit" => pc[u] = "exit"
    BY <1>9, <2>1
  <2>6. Going(t, n)
    BY <1>9, <2>2, <2>3, <2>4 DEF Going
  <2> QED BY <1>1, <1>3, <1>4, <1>5, <1>7, <2>2, <2>3, <2>4, <2>5, <2>6 DEF Visited
<1> QED BY <1>6, <1>8, <1>9

(* What the lists become: the children, if any, and the rest.              *)
LEMMA VisitLists ==
  ASSUME Types, NEW t \in Threads, NEW n, Visited(t, n)
  PROVE  \E q \in Seq(Nodes) :
           /\ todo'[t] = q \o Tail(todo[t])
           /\ Going(t, n) /\ Len(n.path) # LastLevel =>
                Len(q) = Len(Face) /\ \A m \in Moves : q[m] = Child(n, m)
           /\ q # <<>> => Going(t, n) /\ Len(n.path) # LastLevel
<1>1. n \in Nodes /\ todo[t] \in Seq(Nodes) /\ todo[t] # <<>>
  BY DEF Visited
<1>2. Tail(todo[t]) \in Seq(Nodes)
  BY <1>1, Tails
<1>3. CASE Skipping(t, n)
  <2>1. todo'[t] = Tail(todo[t]) /\ ~Going(t, n)
    BY <1>3 DEF Skipping, Going
  <2>2. <<>> \in Seq(Nodes) /\ todo'[t] = <<>> \o Tail(todo[t])
    BY <1>2, <2>1
  <2> QED BY <2>1, <2>2
<1>4. CASE Going(t, n)
  <2>1. /\ n.cube \in Cubes /\ \A m \in Moves : Child(n, m) \in Nodes
        /\ Moves = 1 .. Len(Face) /\ Len(Face) \in Nat
    BY <1>1, ChildType, ParametersAssumption DEF Moves, Nodes
  <2>2. CASE Len(n.path) = LastLevel
    <3>1. Children(n) = <<>> /\ <<>> \in Seq(Nodes)
      BY <2>2 DEF Children
    <3> QED BY <1>4, <2>2, <3>1 DEF Going
  <2>3. CASE Len(n.path) # LastLevel
    <3>1. Children(n) = [m \in Moves |-> Child(n, m)]
      BY <2>3 DEF Children, Child
    <3>2. Children(n) \in Seq(Nodes) /\ Len(Children(n)) = Len(Face)
      BY <2>1, <3>1
    <3>3. \A m \in Moves : Children(n)[m] = Child(n, m)
      BY <3>1
    <3> QED BY <1>4, <2>3, <3>2, <3>3 DEF Going
  <2> QED BY <2>2, <2>3
<1> QED BY <1>3, <1>4 DEF Visited

LEMMA VisitQueues ==
  ASSUME Types, NEW t \in Threads, NEW n, Visited(t, n)
  PROVE  /\ \A u \in Threads : \A x \in 1 .. Len(todo[u]) : u # t \/ x # 1 =>
              \E y \in 1 .. Len(todo'[u]) : todo'[u][y] = todo[u][x]
         /\ Going(t, n) /\ Len(n.path) # LastLevel =>
              \A m \in Moves : \E y \in 1 .. Len(todo'[t]) : todo'[t][y] = Child(n, m)
<1> DEFINE r == Tail(todo[t])
<1>1. /\ n \in Nodes /\ todo[t] \in Seq(Nodes) /\ todo[t] # <<>>
      /\ \A u \in Threads : u # t => todo'[u] = todo[u]
  BY DEF Visited
<1>2. r \in Seq(Nodes) /\ Len(r) = Len(todo[t]) - 1 /\ \A x \in 1 .. Len(r) : r[x] = todo[t][x+1]
  BY <1>1, Tails
<1>3. PICK q \in Seq(Nodes) :
        /\ todo'[t] = q \o r
        /\ Going(t, n) /\ Len(n.path) # LastLevel =>
             Len(q) = Len(Face) /\ \A m \in Moves : q[m] = Child(n, m)
        /\ q # <<>> => Going(t, n) /\ Len(n.path) # LastLevel
  BY VisitLists
<1>a. Len(todo[t]) \in Nat
  BY <1>1
<1> HIDE DEF r
<1>4. /\ Len(q \o r) = Len(q) + Len(r)
      /\ \A x \in 1 .. Len(q) : (q \o r)[x] = q[x]
      /\ \A x \in 1 .. Len(r) : (q \o r)[Len(q) + x] = r[x]
  <2>1. q \in Seq(Nodes) /\ r \in Seq(Nodes)
    BY <1>2
  <2> QED BY ONLY <2>1, Joined2
<1>5. Len(q) \in Nat /\ Len(r) \in Nat
  BY <1>2
<1>6. ASSUME NEW x \in 1 .. Len(todo[t]), x # 1
      PROVE  \E y \in 1 .. Len(todo'[t]) : todo'[t][y] = todo[t][x]
  <2>1. x - 1 \in 1 .. Len(r) /\ (x - 1) + 1 = x
    BY <1>2, <1>6, <1>a
  <2>2. Len(q) + (x - 1) \in 1 .. Len(q) + Len(r)
    BY <1>5, <2>1
  <2>3. (q \o r)[Len(q) + (x - 1)] = r[x-1] /\ r[x-1] = todo[t][x]
    BY <1>2, <1>4, <2>1
  <2> QED BY <1>3, <1>4, <2>2, <2>3
<1>7. ASSUME NEW u \in Threads, u # t, NEW x \in 1 .. Len(todo[u])
      PROVE  \E y \in 1 .. Len(todo'[u]) : todo'[u][y] = todo[u][x]
  BY <1>1, <1>7
<1>8. ASSUME Going(t, n), Len(n.path) # LastLevel, NEW m \in Moves
      PROVE  \E y \in 1 .. Len(todo'[t]) : todo'[t][y] = Child(n, m)
  <2>1. m \in 1 .. Len(q) /\ q[m] = Child(n, m)
    BY <1>3, <1>8 DEF Moves
  <2>2. m \in 1 .. Len(q) + Len(r)
    BY <1>5, <2>1
  <2>3. (q \o r)[m] = Child(n, m)
    BY <1>4, <2>1
  <2> QED BY <1>3, <1>4, <2>2, <2>3
<1> QED BY <1>6, <1>7, <1>8

(* Which positions are marked by it: those that are the same.              *)
LEMMA VisitHits ==
  ASSUME Types, NEW t \in Threads, NEW n, Visited(t, n)
  PROVE  /\ \A a \in Coords, v \in Int : Hit(a, v) => Hit(a, v)'
         /\ Going(t, n) => \A b \in Cubes, v \in Int :
              Same(b, n.cube) /\ NewValue(d + Len(n.path)) <= v => Marked(b, v)'
         /\ Real => \A c \in Cubes, v \in Int : Marked(c, v)' =>
              Marked(c, v) \/ (Going(t, n) /\ Same(c, n.cube) /\ NewValue(d + Len(n.path)) <= v)
<1>1. /\ n \in Nodes /\ coords[t] = <<>> /\ UNCHANGED <<h, base, table>>
      /\ \A u \in Threads : u # t => coords'[u] = coords[u] /\ newval'[u] = newval[u]
      /\ Going(t, n) \/ UNCHANGED <<coords, newval>>
  BY DEF Visited, Skipping
<1> DEFINE w == NewValue(d + Len(n.path))  s == Sims(n.cube)
<1>2. n.cube \in Cubes
  BY <1>1 DEF Nodes
<1>3. s \in Seq(Keys)
  BY <1>2, SimsType
<1>4. /\ Going(t, n) => /\ newval'[t] = w
                        /\ coords'[t] = [x \in 1 .. Len(s) |-> Coord(s[x], h)]
  BY DEF Going
<1>5. \A k \in Keys : IsSimilar(k, n.cube) <=> \E x \in 1 .. Len(s) : s[x] = k
  BY DEF IsSimilar
<1> HIDE DEF w, s
<1>6. Going(t, n) => \A x : x \in 1 .. Len(coords'[t]) <=> x \in 1 .. Len(s)
  BY <1>3, <1>4
<1>7. Going(t, n) => \A x \in 1 .. Len(s) : coords'[t][x] = Coord(s[x], h)
  BY <1>4
<1>8. ASSUME NEW a \in Coords, NEW v \in Int, Hit(a, v) PROVE Hit(a, v)'
  <2>1. \A x \in 1 .. Len(coords[t]) : FALSE
    BY <1>1
  <2> QED BY <1>1, <1>8, <2>1 DEF Hit
<1>9. ASSUME Going(t, n), NEW b \in Cubes, NEW v \in Int, Same(b, n.cube), w <= v
      PROVE  Marked(b, v)'
  <2>1. PICK k \in Keys : IsSimilar(k, n.cube) /\ Coord(k, Grade) = Coord(Key[b], Grade)
    BY <1>9 DEF Same, Alike
  <2>2. Coord(k, h) = Coord(Key[b], h)
    <3>1. CASE Real
      BY <2>1, <3>1 DEF Grade
    <3>2. CASE ~Real
      <4>1. Grade = HMAX /\ Key[b] \in Keys
        BY <3>2, ParametersAssumption DEF Grade
      <4> QED BY <2>1, <4>1, KeyItself
    <3> QED BY <3>1, <3>2
  <2>3. PICK x \in 1 .. Len(s) : s[x] = k
    BY <1>5, <2>1
  <2>4. x \in 1 .. Len(coords'[t]) /\ coords'[t][x] = Coord(Key[b], h)
    BY <1>6, <1>7, <1>9, <2>2, <2>3
  <2>5. newval'[t] <= v
    BY <1>4, <1>9
  <2> QED BY <1>1, <2>4, <2>5 DEF Marked, Hit
<1>10. ASSUME Real, NEW c \in Cubes, NEW v \in Int, Marked(c, v)', ~Marked(c, v)
       PROVE  Going(t, n) /\ Same(c, n.cube) /\ w <= v
  <2>1. PICK u \in Threads : /\ newval'[u] <= v
                             /\ \E x \in 1 .. Len(coords'[u]) : coords'[u][x] = Coord(Key[c], h)
    BY <1>1, <1>10 DEF Marked, Hit
  <2>2. PICK x \in 1 .. Len(coords'[u]) : coords'[u][x] = Coord(Key[c], h)
    BY <2>1
  <2>3. u = t /\ Going(t, n)
    <3>1. ~(newval'[u] = newval[u] /\ coords'[u] = coords[u])
      BY <1>10, <2>1, <2>2 DEF Marked, Hit
    <3> QED BY <1>1, <3>1
  <2>4. x \in 1 .. Len(s) /\ Coord(s[x], h) = Coord(Key[c], h) /\ w <= v
    BY <1>4, <1>6, <1>7, <2>1, <2>2, <2>3
  <2>5. s[x] \in Keys /\ IsSimilar(s[x], n.cube)
    BY <1>3, <1>5, <2>4
  <2> QED BY <1>10, <2>3, <2>4, <2>5 DEF Same, Alike, Grade
<1> QED BY <1>8, <1>9, <1>10 DEF w

(* A branch that the search may take is only cut at an entry already       *)
(* marked, or where the node is no nearer for its moves.                   *)
LEMMA VisitCut ==
  ASSUME IInv, Found, LastSlotFree, NEW t \in Threads, NEW n, Visited(t, n), Cut(n),
         Allowed(n.path)
  PROVE  /\ Real => /\ d + Len(n.path) \in 0 .. 2
                    /\ Marked(n.cube, d + Len(n.path))
                    /\ NewValue(d + Len(n.path)) = d + Len(n.path)
         /\ ~Real => ~Exact(n)
<1>0. <<h, base>> \in Requests /\ table \in [Coords -> 0 .. Unset] /\ Types
  BY DEF IInv, Types
<1>1. /\ n \in Nodes /\ Len(n.path) <= LastLevel /\ pc_main # "short"
      /\ Len(n.path) \in 1 .. 3 /\ DfsStop(n.cube, d + Len(n.path))
  BY DEF Visited, Cut
<1>2. /\ d \in Int /\ LastLevel \in Int /\ d + LastLevel = 2 /\ shortdepth \in Nat
      /\ n.cube \in Cubes /\ Key[n.cube] \in Keys
  BY <1>0, <1>1, Levels, ParametersAssumption, SMTT(30) DEF Nodes
<1> DEFINE l == Len(n.path)
<1>3. l \in Int /\ d + l \in Int /\ l >= 1 /\ l <= LastLevel
  <2>1. l \in 1 .. 3 /\ l <= LastLevel
    BY <1>1
  <2> HIDE DEF l
  <2> QED BY <1>2, <2>1
<1>4. CASE Real
  <2>1. table[Coord(Key[n.cube], h)] <= d + l
    BY <1>1, <1>4 DEF DfsStop, Real
  <2>2. table[Coord(Key[n.cube], h)] \in Nat
    BY <1>0, <1>2, KeyCoord DEF Unset
  <2>3. d + l \in 0 .. 2
    BY <1>2, <1>3, <2>1, <2>2
  <2>4. NewValue(d + l) = d + l
    BY <2>3 DEF NewValue
  <2> QED BY <1>4, <2>1, <2>3, <2>4 DEF Marked, Hit
<1>5. CASE ~Real
  <2>1. h48map_value(map, Key[n.cube]) <= shortdepth
    BY <1>1, <1>5 DEF DfsStop, Real
  <2>2. h48map_value(map, Key[n.cube]) =
          IF KeyDist[Key[n.cube]] <= shortdepth THEN KeyDist[Key[n.cube]] ELSE MAP_UNSET_VAL
    BY <1>1, <1>2, MapExact DEF ShortMapExact
  <2>3. shortdepth \in 0 .. MAP_UNSET_VAL - 1 /\ MAP_UNSET_VAL \in Nat
    BY ParametersAssumption DEF MAP_UNSET_VAL
  <2>4. DistOf(n.cube) <= shortdepth /\ DistOf(n.cube) \in Nat
    BY <1>2, <2>1, <2>2, <2>3, DistType DEF DistOf
  <2>5. ClassDist(n.cube) <= DistOf(n.cube) /\ ClassDist(n.cube) \in Nat
    BY <1>2, ClassNearest
  <2> QED BY <1>2, <1>3, <1>5, <2>4, <2>5 DEF Exact
<1> QED BY <1>4, <1>5

(* The facts about a visit that the parts of the invariant need.           *)
LEMMA VisitFacts ==
  ASSUME IInv, Search, NEW t \in Threads, NEW n, Visited(t, n)
  PROVE  /\ d \in Int /\ LastLevel \in Int /\ d + LastLevel = 2 /\ -d \in 0 .. 2 /\ shortdepth \in Nat
         /\ n \in Nodes /\ n.cube \in Cubes /\ n.path \in Seq(Moves)
         /\ Len(n.path) \in Nat /\ Len(n.path) <= LastLevel
         /\ Within(n) /\ ClassDist(n.cube) \in Nat
         /\ Types /\ Taken /\ Routed /\ Closed /\ Frontier /\ Families /\ Phases
<1>1. Types /\ Taken /\ Routed /\ Closed /\ Frontier /\ Families /\ Phases
  BY DEF IInv, Search
<1>2. <<h, base>> \in Requests
  BY <1>1 DEF Types
<1>3. d \in Int /\ LastLevel \in Int /\ d + LastLevel = 2 /\ -d \in 0 .. 2 /\ shortdepth \in Nat
  BY <1>2, Levels
<1>4. /\ n \in Nodes /\ Len(n.path) <= LastLevel /\ DistOf(n.cube) <= shortdepth + Len(n.path)
      /\ n.cube \in Cubes /\ n.path \in Seq(Moves)
  BY DEF Visited, Nodes
<1>5. Len(n.path) \in Nat
  BY <1>4
<1>6. ClassDist(n.cube) \in Nat /\ ClassDist(n.cube) <= DistOf(n.cube) /\ DistOf(n.cube) \in Nat
  BY <1>4, ClassNearest, DistType
<1>7. Within(n)
  BY <1>3, <1>4, <1>5, <1>6 DEF Within
<1> QED BY <1>1, <1>3, <1>4, <1>5, <1>6, <1>7

LEMMA VisitTaken ==
  ASSUME IInv, Search, NEW t \in Threads, NEW n, Visited(t, n)
  PROVE  Taken' /\ Phases'
<1>1. Taken /\ Phases /\ Types /\ ShortOK
  BY DEF IInv, Search
<1>2. UNCHANGED <<h, base, map, next, pc_main>> /\ \A u \in Threads : pc'[u] = "exit" => pc[u] = "exit"
  BY DEF Visited
<1>3. \A a \in Coords, v \in Int : Hit(a, v) => Hit(a, v)'
  BY <1>1, VisitHits
<1>4. Phases'
  BY <1>1, <1>2 DEF Phases
<1>5. Taken'
  <2> SUFFICES ASSUME NEW s \in Slots, TakenSlot(s)', map'.table[s].val < shortdepth
               PROVE  Hit(Coord(map.table[s].key, h), 0)'
    BY DEF Taken
  <2>1. TakenSlot(s) /\ map.table[s].val < shortdepth
    BY <1>2 DEF TakenSlot
  <2>2. Hit(Coord(map.table[s].key, h), 0) /\ map.table[s].key \in Keys
    BY <1>1, <2>1 DEF Taken, TakenSlot, ShortOK, Entries
  <2>3. Coord(map.table[s].key, h) \in Coords
    <3>1. h \in 0 .. HMAX
      BY <1>1, Levels DEF Types
    <3> QED BY <2>2, <3>1, CoordType DEF Coords
  <2> QED BY <1>2, <1>3, <2>2, <2>3
<1> QED BY <1>4, <1>5

LEMMA VisitClosed ==
  ASSUME IInv, Search, NEW t \in Threads, NEW n, Visited(t, n)
  PROVE  Closed'
<1>1. /\ n.cube \in Cubes /\ Types /\ Closed /\ UNCHANGED <<h, base>>
  BY VisitFacts DEF Visited
<1>2. \A c \in Cubes, v \in Int : Marked(c, v) => Marked(c, v)'
  BY <1>1, VisitHits, MarksStay
<1> SUFFICES ASSUME Real, NEW b \in Cubes, NEW c \in Cubes, NEW v \in 0 .. 2, Same(b, c),
                    ClassDist(c) >= shortdepth, Marked(c, v)'
             PROVE  Marked(b, v)'
  BY <1>1, StaticStays DEF Closed
<1>3. v \in Int
  OBVIOUS
<1>4. \/ Marked(c, v)
      \/ Going(t, n) /\ Same(c, n.cube) /\ NewValue(d + Len(n.path)) <= v
  BY <1>1, <1>3, VisitHits
<1>5. CASE Marked(c, v)
  BY <1>1, <1>2, <1>3, <1>5 DEF Closed
<1>6. CASE Going(t, n) /\ Same(c, n.cube) /\ NewValue(d + Len(n.path)) <= v
  <2>1. Same(b, n.cube)
    BY <1>1, <1>6, SameEquivalence
  <2> QED BY <1>1, <1>3, <1>6, <2>1, VisitHits
<1> QED BY <1>4, <1>5, <1>6

LEMMA VisitRouted ==
  ASSUME IInv, Search, Found, LastSlotFree, NEW t \in Threads, NEW n, Visited(t, n)
  PROVE  Routed'
<1>1. /\ d \in Int /\ LastLevel \in Int /\ d + LastLevel = 2 /\ -d \in 0 .. 2 /\ shortdepth \in Nat
      /\ n \in Nodes /\ n.cube \in Cubes /\ Len(n.path) \in Nat /\ ClassDist(n.cube) \in Nat
      /\ Types /\ Routed /\ Closed
  BY VisitFacts
<1>2. UNCHANGED <<h, base, map, next>> /\ n = todo[t][1]
  BY DEF Visited
<1>3. /\ \A c \in Cubes, v \in Int : AllMarked(c, v) => AllMarked(c, v)'
      /\ \A x \in Int : NewValue(x) \in Int /\ NewValue(x)' = NewValue(x)
      /\ \A w : Route(w) => d + Len(w) - 1 \in Int /\ w[Len(w)] \in Nodes /\ w[Len(w)].cube \in Cubes
  BY <1>1, <1>2, VisitHits, MarksStay
<1>4. /\ (Real' <=> Real) /\ d' = d /\ Uncut' = Uncut
      /\ \A w : Route(w)' <=> Route(w)
      /\ \A b, c : Same(b, c)' <=> Same(b, c)
  BY <1>2, StaticStays
<1> SUFFICES ASSUME NEW w, Route(w), Len(w) <= Uncut + 1, RouteStarts(w)' PROVE RouteDone(w)'
  BY <1>4 DEF Routed
<1>5. RouteStarts(w)
  BY <1>2 DEF RouteStarts, TakenSlot
<1>6. RouteDone(w)
  BY <1>1, <1>5 DEF Routed
<1>7. CASE AllMarked(w[Len(w)].cube, NewValue(d + Len(w) - 1))
  BY <1>3, <1>4, <1>7 DEF RouteDone
<1>8. ASSUME NEW x \in 1 .. Len(w), Queued(w[x]) PROVE RouteDone(w)'
  <2>1. PICK u \in Threads : \E y \in 1 .. Len(todo[u]) : todo[u][y] = w[x]
    BY <1>8 DEF Queued
  <2>2. PICK y \in 1 .. Len(todo[u]) : todo[u][y] = w[x]
    BY <2>1
  <2>3. CASE u # t \/ y # 1
    <3>1. \E z \in 1 .. Len(todo'[u]) : todo'[u][z] = w[x]
      BY <1>1, <2>2, <2>3, VisitQueues
    <3> QED BY <3>1 DEF RouteDone, Queued
  <2>4. CASE u = t /\ y = 1
    <3>1. w[x] = n
      BY <1>2, <2>2, <2>4
    <3>2. /\ w \in Seq(Nodes) /\ Len(w) \in Nat /\ Allowed(n.path) /\ Exact(n) /\ Len(n.path) = x - 1
          /\ \A e \in 1 .. Len(w) - 1 : \E m \in Moves : w[e+1] = Child(w[e], m)
      <4>1. w \in Seq(Nodes) /\ Allowed(w[x].path) /\ Exact(w[x]) /\ Len(w[x].path) = x - 1
        BY DEF Route
      <4>2. \A e \in 1 .. Len(w) - 1 : \E m \in Moves : w[e+1] = Child(w[e], m)
        BY DEF Route
      <4>3. Len(w) \in Nat
        BY <4>1
      <4> QED BY <3>1, <4>1, <4>2, <4>3
    <3>3. x \in Int /\ 1 <= x /\ x <= Len(w) /\ Len(n.path) <= Uncut /\ Uncut \in Int
      <4>1. Uncut \in Int
        BY <1>1 DEF Uncut
      <4> QED BY <3>2, <4>1
    <3>4. CASE Going(t, n)
      <4>1. CASE x = Len(w)
        <5>1. w[Len(w)].cube = n.cube /\ NewValue(d + Len(w) - 1) = NewValue(d + Len(n.path))
          <6>1. d + Len(w) - 1 = d + Len(n.path)
            BY <1>1, <3>2, <4>1
          <6> QED BY <3>1, <4>1, <6>1
        <5>2. ASSUME NEW b \in Cubes, Same(b, n.cube)
              PROVE  Marked(b, NewValue(d + Len(n.path)))'
          <6> DEFINE v == NewValue(d + Len(n.path))
          <6>1. v \in Int /\ v <= v /\ v' = v
            <7>1. d + Len(n.path) \in Int
              BY <1>1
            <7>2. v \in Int
              BY <1>3, <7>1
            <7>3. v' = v
              BY <1>4 DEF NewValue
            <7> HIDE DEF v
            <7> QED BY <7>2, <7>3
          <6>2. \A q \in Int : v <= q => Marked(b, q)'
            BY <1>1, <3>4, <5>2, VisitHits
          <6> HIDE DEF v
          <6>3. PICK q \in Int : q = v
            BY <6>1
          <6>4. Marked(b, q)'
            BY <6>1, <6>2, <6>3
          <6>5. Marked(b, v)'
            BY <6>1, <6>3, <6>4
          <6> QED BY <6>5 DEF v
        <5>3. AllMarked(n.cube, NewValue(d + Len(n.path)))'
          BY <1>4, <5>2 DEF AllMarked
        <5>4. (d + Len(w) - 1)' = d + Len(w) - 1 /\ d' = d
          BY <1>4
        <5>5. NewValue(d + Len(w) - 1)' = NewValue(d + Len(n.path))'
          BY <1>4, <5>1 DEF NewValue
        <5> QED BY <5>1, <5>3, <5>5 DEF RouteDone, AllMarked
      <4>2. CASE x # Len(w)
        <5>1. x \in 1 .. Len(w) - 1 /\ x + 1 \in 1 .. Len(w)
          BY <3>2, <3>3, <4>2
        <5>2. PICK m \in Moves : w[x+1] = Child(n, m)
          BY <3>1, <3>2, <5>1
        <5>3. Len(n.path) # LastLevel
          <6>1. Uncut <= LastLevel
            BY <1>1 DEF Uncut
          <6> QED BY <1>1, <3>2, <3>3, <4>2, <6>1
        <5>4. \E z \in 1 .. Len(todo'[t]) : todo'[t][z] = w[x+1]
          BY <1>1, <3>4, <5>2, <5>3, VisitQueues
        <5> QED BY <5>1, <5>4 DEF RouteDone, Queued
      <4> QED BY <4>1, <4>2
    <3>5. CASE Skipping(t, n)
      <4>1. Cut(n)
        BY <3>5 DEF Skipping
      <4>2. /\ Real /\ d + Len(n.path) \in 0 .. 2 /\ Marked(n.cube, d + Len(n.path))
            /\ NewValue(d + Len(n.path)) = d + Len(n.path)
        BY <3>2, <4>1, VisitCut
      <4>3. Len(n.path) = -d /\ x = Len(w)
        <5>1. Uncut = -d
          BY <4>2 DEF Uncut
        <5> QED BY <1>1, <3>2, <3>3, <4>2, <5>1
      <4>4. d + Len(n.path) = 0 /\ d + Len(w) - 1 = 0 /\ NewValue(0) = 0
        BY <1>1, <3>2, <4>2, <4>3, SMTT(30)
      <4>5. ClassDist(n.cube) >= shortdepth
        BY <1>1, <3>2 DEF Exact
      <4>6. ASSUME NEW b \in Cubes, Same(b, n.cube) PROVE Marked(b, 0)
        <5>1. Marked(n.cube, 0) /\ 0 \in 0 .. 2
          BY <4>2, <4>4
        <5> QED BY <1>1, <4>2, <4>5, <4>6, <5>1 DEF Closed
      <4>7. AllMarked(w[Len(w)].cube, NewValue(d + Len(w) - 1))
        BY <3>1, <4>3, <4>4, <4>6 DEF AllMarked
      <4> QED BY <1>3, <1>4, <4>7 DEF RouteDone
    <3> QED BY <3>4, <3>5 DEF Visited
  <2> QED BY <2>3, <2>4
<1> QED BY <1>6, <1>7, <1>8 DEF RouteDone

(* What was covered stays so: a node that is cut has been marked.          *)
LEMMA VisitCovers ==
  ASSUME IInv, Search, Found, LastSlotFree, NEW t \in Threads, NEW n, Visited(t, n),
         Real, NEW c \in Cubes, NEW l \in 1 - d .. LastLevel, ClassDist(c) = shortdepth + l,
         Covered(c, l)
  PROVE  Covered(c, l)'
<1>1. /\ d \in Int /\ LastLevel \in Int /\ d + LastLevel = 2 /\ -d \in 0 .. 2 /\ shortdepth \in Nat
      /\ n \in Nodes /\ n.cube \in Cubes /\ Len(n.path) \in Nat /\ ClassDist(n.cube) \in Nat
      /\ Types /\ Closed
  BY VisitFacts
<1>2. UNCHANGED <<h, base>> /\ n = todo[t][1]
  BY DEF Visited
<1>3. \A e \in Cubes, v \in Int : Marked(e, v) => Marked(e, v)'
  BY <1>1, <1>2, VisitHits, MarksStay
<1>4. d' = d /\ \A b, e : Same(b, e)' <=> Same(b, e)
  BY <1>2, StaticStays
<1>5. l \in Int /\ d + l \in 0 .. 2 /\ d + l \in Int /\ NewValue(d + l) = d + l /\ l >= 0
  BY <1>1 DEF NewValue
<1>6. CASE Marked(c, d + l)
  BY <1>3, <1>4, <1>5, <1>6 DEF Covered
<1>7. ASSUME NEW u \in Threads, NEW y \in 1 .. Len(todo[u]),
             Same(todo[u][y].cube, c), Len(todo[u][y].path) = l, Allowed(todo[u][y].path)
      PROVE  Covered(c, l)'
  <2>1. CASE u # t \/ y # 1
    <3>1. PICK z \in 1 .. Len(todo'[u]) : todo'[u][z] = todo[u][y]
      BY <1>1, <2>1, VisitQueues
    <3> QED BY <1>4, <1>7, <3>1 DEF Covered
  <2>2. CASE u = t /\ y = 1
    <3>1. Same(n.cube, c) /\ Len(n.path) = l /\ Allowed(n.path) /\ Same(c, n.cube)
      BY <1>1, <1>2, <1>7, <2>2, SameEquivalence
    <3>2. ClassDist(n.cube) = ClassDist(c)
      BY <1>1, <3>1, ClassOfSame
    <3>3. CASE Going(t, n)
      <4>1. \A v \in Int : NewValue(d + l) <= v => Marked(c, v)'
        BY <1>1, <3>1, <3>3, VisitHits
      <4>2. PICK v \in Int : v = d + l
        BY <1>5
      <4>3. Marked(c, v)'
        BY <1>5, <4>1, <4>2
      <4>4. Marked(c, d + l)'
        BY <1>4, <4>2, <4>3
      <4> QED BY <4>4 DEF Covered
    <3>4. CASE Skipping(t, n)
      <4>1. Cut(n)
        BY <3>4 DEF Skipping
      <4>2. Marked(n.cube, d + l)
        BY <3>1, <4>1, VisitCut
      <4>3. Marked(c, d + l)
        BY <1>1, <1>5, <3>1, <3>2, <4>2 DEF Closed
      <4> QED BY <1>3, <1>4, <1>5, <4>3 DEF Covered
    <3> QED BY <3>3, <3>4 DEF Visited
  <2> QED BY <2>1, <2>2
<1> QED BY <1>6, <1>7 DEF Covered

(* What comes next after a position marked by this visit is queued; if it  *)
(* is not allowed there, it comes next after an earlier child of the same  *)
(* parent.                                                                 *)
LEMMA VisitFrontier ==
  ASSUME IInv, IInv', Search, Found, LastSlotFree, NEW t \in Threads, NEW n, Visited(t, n)
  PROVE  Frontier'
<1>1. /\ d \in Int /\ LastLevel \in Int /\ d + LastLevel = 2 /\ -d \in 0 .. 2 /\ shortdepth \in Nat
      /\ n \in Nodes /\ n.cube \in Cubes /\ n.path \in Seq(Moves)
      /\ Len(n.path) \in Nat /\ Len(n.path) <= LastLevel /\ Within(n) /\ ClassDist(n.cube) \in Nat
      /\ Types /\ Frontier /\ Families
  BY VisitFacts
<1>2. /\ UNCHANGED <<h, base>> /\ n = todo[t][1] /\ todo[t] \in Seq(Nodes) /\ todo[t] # <<>>
      /\ todo' \in [Threads -> Seq(Nodes)]
  BY DEF Visited, IInv, Types
<1>3. /\ (Real' <=> Real) /\ d' = d /\ LastLevel' = LastLevel
      /\ \A b, c : Same(b, c)' <=> Same(b, c)
      /\ \A c : ClassDist(c)' = ClassDist(c)
  BY <1>2, StaticStays
<1>4. Closed'
  BY VisitClosed
<1> SUFFICES ASSUME Real, NEW c \in Cubes, NEW l \in -d .. LastLevel - 1,
                    ClassDist(c) = shortdepth + l, Marked(c, d + l)', NEW m \in Moves,
                    ClassDist(Turns[c][m]) = shortdepth + l + 1
             PROVE  Covered(Turns[c][m], l + 1)'
  BY <1>3 DEF Frontier
<1> DEFINE e == Turns[c][m]
<1>5. /\ l \in Int /\ l >= 0 /\ d + l \in Int /\ NewValue(d + l) = d + l
      /\ l + 1 \in 1 - d .. LastLevel /\ d + (l + 1) \in 0 .. 2 /\ d + (l + 1) \in Int
      /\ shortdepth + l + 1 = shortdepth + (l + 1) /\ e \in Cubes
  <2>1. e \in Cubes
    BY ParametersAssumption
  <2>2. l \in Int /\ l >= 0 /\ d + l \in Int /\ d + (l + 1) \in 0 .. 2 /\ d + l >= 0
    BY <1>1
  <2>3. NewValue(d + l) = d + l
    BY <2>2 DEF NewValue
  <2> HIDE DEF e
  <2>4. /\ l + 1 \in 1 - d .. LastLevel /\ d + (l + 1) \in Int
        /\ shortdepth + l + 1 = shortdepth + (l + 1)
    <3>1. d \in Int /\ LastLevel \in Int /\ shortdepth \in Nat /\ l \in -d .. LastLevel - 1
      BY <1>1
    <3> QED BY ONLY <3>1
  <2> QED BY <2>1, <2>2, <2>3, <2>4
<1>6. Marked(c, d + l) \/ (Going(t, n) /\ Same(c, n.cube) /\ NewValue(d + Len(n.path)) <= d + l)
  <2>1. PICK v \in Int : v = d + l
    BY <1>5
  <2>2. Marked(c, v)'
    BY <1>3, <2>1
  <2>3. Marked(c, v) \/ (Going(t, n) /\ Same(c, n.cube) /\ NewValue(d + Len(n.path)) <= v)
    BY <1>1, <2>2, VisitHits
  <2> QED BY <2>1, <2>3
<1>7. CASE Marked(c, d + l)
  <2>1. Covered(e, l + 1)
    BY <1>1, <1>7 DEF Frontier
  <2> QED BY <1>5, <2>1, VisitCovers
<1>8. CASE Going(t, n) /\ Same(c, n.cube) /\ NewValue(d + Len(n.path)) <= d + l
  <2>1. ClassDist(n.cube) = shortdepth + l
    BY <1>1, <1>8, ClassOfSame
  <2>2. l = Len(n.path)
    <3>1. l <= Len(n.path)
      BY <1>1, <1>5, <2>1 DEF Within
    <3>2. Len(n.path) <= l
      BY <1>1, <1>5, <1>8 DEF NewValue
    <3> QED BY <1>1, <1>5, <3>1, <3>2, SMTT(30)
  <2>3. Exact(n) /\ Len(n.path) # LastLevel
    BY <1>1, <2>1, <2>2 DEF Exact
  <2>4. PICK k \in Moves : Same(e, Turns[n.cube][k])
    BY <1>1, <1>8, SameMoves
  <2>5. PICK y : y = Child(n, k)
    OBVIOUS
  <2>6. /\ y \in Nodes /\ y.cube = Turns[n.cube][k] /\ y.path = Append(n.path, k) /\ y.cube \in Cubes
        /\ Len(y.path) = l + 1 /\ y.path \in Seq(Moves)
    BY <1>1, <2>2, <2>5, ChildType DEF Nodes
  <2>7. Same(e, y.cube) /\ Same(y.cube, e) /\ ClassDist(y.cube) = shortdepth + (l + 1)
    BY <1>5, <2>4, <2>6, SameEquivalence, ClassOfSame
  <2>8. CASE Allowed(y.path)
    <3>1. \A v \in Moves : \E z \in 1 .. Len(todo'[t]) : todo'[t][z] = Child(n, v)
      BY <1>1, <1>8, <2>3, VisitQueues
    <3>2. PICK z \in 1 .. Len(todo'[t]) : todo'[t][z] = y
      BY <2>5, <3>1
    <3> QED BY <1>3, <2>6, <2>7, <2>8, <3>2 DEF Covered
  <2>9. CASE ~Allowed(y.path)
    <3>1. Len(n.path) # 0
      <4>1. ~(Len(y.path) <= 1)
        BY <2>6, <2>9, AllowedShort
      <4> QED BY <1>5, <2>2, <2>6, <4>1
    <3>2. 1 \in 1 .. Len(todo[t])
      BY <1>2, Tails
    <3>3. Family(t, 1)
      BY <1>1, <3>2 DEF Families
    <3>4. PICK p \in Nodes : \E m1 \in Moves :
             /\ n = Child(p, m1) /\ From(p)
             /\ \A q \in Moves : q < m1 /\ Allowed(Child(p, q).path) => SiblingDone(t, 1, p, q)
      BY <1>2, <3>1, <3>3 DEF Family
    <3>5. PICK m1 \in Moves :
             /\ n = Child(p, m1) /\ From(p)
             /\ \A q \in Moves : q < m1 /\ Allowed(Child(p, q).path) => SiblingDone(t, 1, p, q)
      BY <3>4
    <3>6. Exact(y)
      BY <2>6, <2>7 DEF Exact
    <3>7. PICK z : z = Child(p, k)
      OBVIOUS
    <3>8. /\ k < m1 /\ Allowed(z.path) /\ Exact(z) /\ Child(z, m1).cube = y.cube
      BY <1>1, <2>3, <2>5, <2>9, <3>5, <3>6, <3>7, Reorder
    <3>9. /\ z \in Nodes /\ z.cube = Turns[p.cube][k] /\ z.cube \in Cubes
          /\ Len(z.path) = Len(p.path) + 1 /\ Len(p.path) \in Nat
          /\ Len(n.path) = Len(p.path) + 1
      BY <3>5, <3>7, ChildType DEF Nodes
    <3>10. Turns[z.cube][m1] = y.cube
      BY <3>8, <3>9, ChildType
    <3>11. Marked(z.cube, d + l)
      <4>1. SiblingDone(t, 1, p, k)
        BY <3>5, <3>7, <3>8
      <4>2. ~(\E x \in 1 .. 1-1 : todo[t][x] = Child(p, k))
        OBVIOUS
      <4>3. Marked(z.cube, NewValue(d + Len(p.path) + 1))
        BY <3>9, <4>1, <4>2 DEF SiblingDone
      <4>4. d + Len(p.path) + 1 = d + l
        BY <1>1, <2>2, <3>9
      <4> QED BY <1>5, <4>3, <4>4
    <3>12. ClassDist(z.cube) = shortdepth + l
      BY <1>1, <2>2, <3>8, <3>9 DEF Exact
    <3>13. Covered(y.cube, l + 1)
      <4>1. ClassDist(Turns[z.cube][m1]) = shortdepth + l + 1
        BY <1>5, <2>7, <3>10
      <4> QED BY <1>1, <3>9, <3>10, <3>11, <3>12, <4>1 DEF Frontier
    <3>14. Covered(y.cube, l + 1)'
      BY <1>5, <2>6, <2>7, <3>13, VisitCovers
    <3>15. CASE Marked(y.cube, d + (l + 1))'
      <4>1. PICK v \in 0 .. 2 : v = d + (l + 1)
        BY <1>5
      <4>2. Marked(y.cube, v)' /\ ClassDist(y.cube) >= shortdepth
        BY <1>1, <1>3, <1>5, <2>7, <3>15, <4>1, SMTT(30)
      <4>3. Marked(e, v)'
        BY <1>2, <1>3, <1>4, <1>5, <2>6, <2>7, <4>2 DEF Closed
      <4> QED BY <1>3, <4>1, <4>3 DEF Covered
    <3>16. ASSUME NEW u \in Threads, NEW x \in 1 .. Len(todo'[u]),
                  Same(todo'[u][x].cube, y.cube), Len(todo'[u][x].path) = l + 1,
                  Allowed(todo'[u][x].path)
           PROVE  Covered(e, l + 1)'
      <4>1. todo'[u][x].cube \in Cubes
        <5>1. todo'[u] \in Seq(Nodes)
          BY <1>2
        <5>2. todo'[u][x] \in Nodes
          BY <5>1
        <5> QED BY <5>2 DEF Nodes
      <4>2. Same(todo'[u][x].cube, e)
        BY <1>5, <2>6, <2>7, <3>16, <4>1, SameEquivalence
      <4> QED BY <1>3, <3>16, <4>2 DEF Covered
    <3> QED BY <1>3, <3>14, <3>15, <3>16 DEF Covered
  <2> QED BY <2>8, <2>9
<1> QED BY <1>6, <1>7, <1>8

LEMMA VisitFamilies ==
  ASSUME IInv, Search, Found, LastSlotFree, NEW t \in Threads, NEW n, Visited(t, n)
  PROVE  Families'
<1>1. /\ d \in Int /\ LastLevel \in Int /\ d + LastLevel = 2 /\ -d \in 0 .. 2 /\ shortdepth \in Nat
      /\ n \in Nodes /\ n.cube \in Cubes /\ n.path \in Seq(Moves)
      /\ Len(n.path) \in Nat /\ Len(n.path) <= LastLevel /\ Within(n) /\ ClassDist(n.cube) \in Nat
      /\ Types /\ Families
  BY VisitFacts
<1>2. /\ UNCHANGED <<h, base>> /\ n = todo[t][1] /\ todo[t] \in Seq(Nodes) /\ todo[t] # <<>>
      /\ \A u \in Threads : u # t => todo'[u] = todo[u]
  BY DEF Visited
<1>3. /\ (Real' <=> Real) /\ d' = d
      /\ \A p : From(p)' <=> From(p)
  BY <1>2, StaticStays
<1>4. /\ \A e \in Cubes, v \in Int : Marked(e, v) => Marked(e, v)'
      /\ \A x \in Int : NewValue(x) \in Int /\ NewValue(x)' = NewValue(x)
  BY <1>1, <1>2, VisitHits, MarksStay
<1> SUFFICES ASSUME Real, NEW u \in Threads, NEW x \in 1 .. Len(todo'[u])
             PROVE  Family(u, x)'
  BY <1>3 DEF Families
<1> DEFINE Value(p) == NewValue(d + Len(p.path) + 1)
<1>5. ASSUME NEW p \in Nodes, NEW k \in Moves
      PROVE  /\ Turns[p.cube][k] \in Cubes /\ d + Len(p.path) + 1 \in Int
             /\ Marked(Turns[p.cube][k], Value(p)) => Marked(Turns[p.cube][k], Value(p))'
  <2>1. Turns[p.cube][k] \in Cubes /\ Len(p.path) \in Nat
    BY ChildType
  <2>2. d + Len(p.path) + 1 \in Int
    BY <1>1, <2>1
  <2> QED BY <1>3, <1>4, <2>1, <2>2
<1>6. CASE u # t
  <2>1. todo'[u] = todo[u] /\ Family(u, x)
    BY <1>1, <1>2, <1>6 DEF Families
  <2> QED BY <1>3, <1>5, <2>1 DEF Family, SiblingDone
<1>7. CASE u = t
  <2> DEFINE r == Tail(todo[t])
  <2>1. r \in Seq(Nodes) /\ Len(r) = Len(todo[t]) - 1 /\ \A y \in 1 .. Len(r) : r[y] = todo[t][y+1]
    BY <1>2, Tails
  <2>2. PICK q \in Seq(Nodes) :
          /\ todo'[t] = q \o r
          /\ Going(t, n) /\ Len(n.path) # LastLevel =>
               Len(q) = Len(Face) /\ \A m \in Moves : q[m] = Child(n, m)
          /\ q # <<>> => Going(t, n) /\ Len(n.path) # LastLevel
    BY <1>1, VisitLists
  <2>3. Len(todo[t]) \in Nat /\ 1 \in 1 .. Len(todo[t])
    BY <1>2, Tails
  <2> HIDE DEF r
  <2>4. /\ Len(q \o r) = Len(q) + Len(r)
        /\ \A y \in 1 .. Len(q) : (q \o r)[y] = q[y]
        /\ \A y \in 1 .. Len(r) : (q \o r)[Len(q) + y] = r[y]
        /\ \A y \in 1 .. Len(q \o r) :
             y \in 1 .. Len(q) \/ \E z \in 1 .. Len(r) : y = Len(q) + z
    <3>1. q \in Seq(Nodes) /\ r \in Seq(Nodes)
      BY <2>1
    <3> QED BY ONLY <3>1, Joined2
  <2>5. Len(q) \in Nat /\ Len(r) \in Nat
    BY <2>1
  <2>6. CASE x \in 1 .. Len(q)
    <3>1. Going(t, n) /\ Len(n.path) # LastLevel
      <4>1. q # <<>>
        BY <2>6
      <4> QED BY <2>2, <4>1
    <3>2. Len(q) = Len(Face) /\ \A m \in Moves : q[m] = Child(n, m)
      BY <2>2, <3>1
    <3>3. x \in Moves /\ x \in Nat /\ todo'[t][x] = Child(n, x)
      BY <2>2, <2>4, <2>6, <3>2 DEF Moves
    <3>4. From(n)
      <4>1. CASE Len(n.path) = 0
        BY <1>1, <4>1 DEF From
      <4>2. CASE Len(n.path) # 0
        <5>1. Family(t, 1)
          BY <1>1, <2>3 DEF Families
        <5>2. PICK p \in Nodes : \E m1 \in Moves : n = Child(p, m1) /\ From(p)
          BY <1>2, <4>2, <5>1 DEF Family
        <5> QED BY <1>1, <5>2 DEF From
      <4> QED BY <4>1, <4>2
    <3>5. ASSUME NEW k \in Moves, k < x PROVE SiblingDone(t, x, n, k)'
      <4>1. k \in 1 .. x - 1 /\ k \in 1 .. Len(q)
        BY <3>2, <3>3, <3>5 DEF Moves
      <4>2. todo'[t][k] = Child(n, k)
        BY <2>2, <2>4, <3>2, <4>1
      <4> QED BY <4>1, <4>2 DEF SiblingDone
    <3> QED BY <1>1, <1>3, <1>7, <3>3, <3>4, <3>5 DEF Family
  <2>7. ASSUME NEW z \in 1 .. Len(r), x = Len(q) + z PROVE Family(t, x)'
    <3>1. todo'[t][x] = todo[t][z+1] /\ z + 1 \in 1 .. Len(todo[t])
      BY <2>1, <2>2, <2>3, <2>4, <2>7
    <3>2. Family(t, z + 1)
      BY <1>1, <3>1 DEF Families
    <3>3. CASE Len(todo[t][z+1].path) = 0
      BY <3>1, <3>3 DEF Family
    <3>4. CASE Len(todo[t][z+1].path) # 0
      <4>1. PICK p \in Nodes : \E m1 \in Moves :
              /\ todo[t][z+1] = Child(p, m1) /\ From(p)
              /\ \A k \in Moves : k < m1 /\ Allowed(Child(p, k).path) => SiblingDone(t, z + 1, p, k)
        BY <3>2, <3>4 DEF Family
      <4>2. PICK m1 \in Moves :
              /\ todo[t][z+1] = Child(p, m1) /\ From(p)
              /\ \A k \in Moves : k < m1 /\ Allowed(Child(p, k).path) => SiblingDone(t, z + 1, p, k)
        BY <4>1
      <4>3. ASSUME NEW k \in Moves, Allowed(Child(p, k).path), SiblingDone(t, z + 1, p, k)
            PROVE  SiblingDone(t, x, p, k)'
        <5>1. CASE Marked(Turns[p.cube][k], Value(p))
          BY <1>3, <1>5, <5>1 DEF SiblingDone
        <5>2. ASSUME NEW y \in 1 .. (z + 1) - 1, todo[t][y] = Child(p, k), y # 1
              PROVE  SiblingDone(t, x, p, k)'
          <6>1. y - 1 \in 1 .. Len(r) /\ (y - 1) + 1 = y /\ Len(q) + (y - 1) \in 1 .. x - 1
            BY <2>5, <2>7, <5>2
          <6>2. todo'[t][Len(q) + (y - 1)] = Child(p, k)
            BY <2>1, <2>2, <2>4, <5>2, <6>1, ZenonT(40)
          <6> QED BY <6>1, <6>2 DEF SiblingDone
        <5>3. CASE n = Child(p, k)
          <6> DEFINE v == d + Len(n.path)
          <6>1. /\ n.cube = Turns[p.cube][k] /\ Len(n.path) = Len(p.path) + 1 /\ Allowed(n.path)
                /\ Len(p.path) \in Nat
            BY <4>3, <5>3, ChildType
          <6>2. Value(p) = NewValue(v) /\ v \in Int
            <7>1. d + Len(p.path) + 1 = v /\ v \in Int
              BY <1>1, <6>1
            <7> QED BY <7>1
          <6>3. Marked(n.cube, NewValue(v))'
            <7>1. CASE Going(t, n)
              <8>1. PICK w \in Int : w = NewValue(v)
                BY <1>4, <6>2
              <8>2. Same(n.cube, n.cube) /\ NewValue(d + Len(n.path)) <= w
                BY <1>1, <8>1, SameEquivalence
              <8>3. Marked(n.cube, w)'
                BY <1>1, <7>1, <8>2, VisitHits
              <8> QED BY <1>3, <8>1, <8>3 DEF NewValue
            <7>2. CASE Skipping(t, n)
              <8>1. Cut(n)
                BY <7>2 DEF Skipping
              <8>2. Marked(n.cube, v) /\ NewValue(v) = v
                BY <6>1, <8>1, VisitCut
              <8>3. Marked(n.cube, v)'
                BY <1>1, <1>3, <1>4, <6>2, <8>2
              <8> QED BY <1>3, <8>2, <8>3 DEF NewValue
            <7> QED BY <7>1, <7>2 DEF Visited
          <6>4. (d + Len(p.path) + 1)' = v' /\ v' = v
            BY <1>1, <1>3, <6>1
          <6>5. Marked(Turns[p.cube][k], NewValue(d + Len(p.path) + 1))'
            BY <6>1, <6>3, <6>4 DEF NewValue
          <6> QED BY <6>5 DEF SiblingDone
        <5>4. \/ Marked(Turns[p.cube][k], Value(p))
              \/ \E y \in 1 .. (z + 1) - 1 : todo[t][y] = Child(p, k)
          BY <4>3 DEF SiblingDone
        <5> QED BY <1>2, <5>1, <5>2, <5>3, <5>4
      <4> QED BY <1>3, <3>1, <4>2, <4>3 DEF Family
    <3> QED BY <3>3, <3>4
  <2> QED BY <1>7, <2>2, <2>4, <2>6, <2>7
<1> QED BY <1>6, <1>7

LEMMA VisitSearch ==
  ASSUME IInv, IInv', Search, Found, LastSlotFree, NEW t \in Threads, Visit(t)
  PROVE  Search'
<1>1. PICK n : Visited(t, n)
  BY VisitIs
<1>2. Taken' /\ Phases'
  BY <1>1, VisitTaken
<1>3. Closed'
  BY <1>1, VisitClosed
<1>4. Routed'
  BY <1>1, VisitRouted
<1>5. Frontier'
  BY <1>1, VisitFrontier
<1>6. Families'
  BY <1>1, VisitFamilies
<1> QED BY <1>2, <1>3, <1>4, <1>5, <1>6 DEF Search

LEMMA SearchGoesOn ==
  IInv /\ IInv' /\ Found /\ LastSlotFree /\ Search /\ [Next]_vars => Search'
<1> SUFFICES ASSUME IInv, IInv', Found, LastSlotFree, Search, [Next]_vars PROVE Search'
  OBVIOUS
<1>0. Types /\ Types' /\ \A t \in Threads : Roster(t)
  BY DEF IInv
<1>1. CASE ShortPair \/ ShortInsert
  <2>1. /\ UNCHANGED <<h, base, table, todo, coords, newval, next, pc, pc_main>>
        /\ pc_main = "short"
    BY <1>1 DEF ShortPair, ShortInsert, search
  <2> QED BY <2>1, QuietSearch
<1>2. CASE CreateThreads
  <2>1. /\ UNCHANGED <<h, base, table, todo, coords, newval, next, map>>
        /\ pc_main' = "join" /\ \A u \in Threads : pc'[u] = "next"
    BY <1>2 DEF CreateThreads, search, short
  <2> QED BY <2>1, QuietSearch
<1>3. CASE JoinThreads
  <2>1. /\ UNCHANGED <<h, base, table, todo, coords, newval, next, map, pc>>
        /\ pc_main' = "done"
    BY <1>3 DEF JoinThreads, search, short
  <2> QED BY <2>1, QuietSearch
<1>4. ASSUME NEW hh \in 0 .. h, Derive(hh) PROVE Search'
  <2>1. /\ UNCHANGED <<h, base, table, todo, coords, newval, next, map, pc>>
        /\ pc_main' = "derived"
    BY <1>4 DEF Derive, search, short
  <2> QED BY <2>1, QuietSearch
<1>5. ASSUME NEW t \in Threads, Load(t) PROVE Search'
  <2>1. /\ UNCHANGED <<h, base, table, todo, coords, newval, next, map, pc_main>>
        /\ \A u \in Threads : pc'[u] = "exit" => pc[u] = "exit"
    BY <1>0, <1>5 DEF Load, search, short, Types
  <2> QED BY <2>1, QuietSearch
<1>6. ASSUME NEW t \in Threads, NextShortCube(t) \/ Visit(t) \/ Store(t) PROVE Search'
  BY <1>6, NextSearch, VisitSearch, StoreSearch
<1>7. CASE UNCHANGED vars
  <2>1. UNCHANGED <<h, base, table, todo, coords, newval, next, map, pc, pc_main>>
    BY <1>7 DEF vars, search, short
  <2> QED BY <2>1, QuietSearch
<1> QED BY <1>1, <1>2, <1>3, <1>4, <1>5, <1>6, <1>7 DEF Next, MainStep, ThreadStep, Returned

LEMMA AlwaysSearch == Spec /\ []LastSlotFree => []Search
BY InitSearch, SearchGoesOn, AlwaysIInv, AlwaysFound, PTL DEF Spec

-----------------------------------------------------------------------------
(* When all threads have exited, nothing is left to visit or to mark, and  *)
(* all the short cubes have been taken.                                    *)
LEMMA AtTheEnd ==
  ASSUME IInv, Search, Joined, pc_main # "short"
  PROVE  /\ \A t \in Threads : todo[t] = <<>> /\ coords[t] = <<>>
         /\ next = capacity
         /\ \A a \in Coords, v \in Int : Hit(a, v) => table[a] <= v
         /\ \A n : ~Queued(n)
<1>1. \A t \in Threads : Roster(t) /\ pc[t] = "exit"
  BY DEF IInv, Joined
<1>2. \A t \in Threads : todo[t] = <<>> /\ coords[t] = <<>>
  BY <1>1 DEF Roster
<1>3. 0 \in Threads
  BY ParametersAssumption DEF Threads
<1>4. next = capacity
  BY <1>1, <1>3 DEF Search, Phases
<1>5. \A t \in Threads : Len(todo[t]) = 0 /\ Len(coords[t]) = 0
  BY <1>2
<1>6. \A a \in Coords, v \in Int : Hit(a, v) => table[a] <= v
  BY <1>5 DEF Hit
<1>7. \A n : ~Queued(n)
  BY <1>5 DEF Queued
<1> QED BY <1>2, <1>4, <1>6, <1>7

(* The short cubes with their distances have all been taken.               *)
LEMMA ShortTaken ==
  ASSUME IInv, Found, Search, Joined, pc_main # "short",
         NEW k \in Keys, KeyDist[k] <= shortdepth
  PROVE  \E s \in Slots : TakenSlot(s) /\ map.table[s].key = k /\ map.table[s].val = KeyDist[k]
<1>1. i = shortdepth
  BY DEF IInv, ShortOK
<1>2. PICK s \in Slots : map.table[s].key = k
  BY <1>1 DEF Found, Has
<1>3. k \in Nat
  BY DEF Keys
<1>4. map.table[s].val = KeyDist[k]
  BY <1>2, <1>3 DEF Found
<1>5. s < next
  BY AtTheEnd, CapacityAssumption DEF Slots
<1> QED BY <1>2, <1>3, <1>4, <1>5 DEF TakenSlot

(* Every class within the levels of the search has been marked.            *)
MarkedAt(l) ==
  \A c \in Cubes : ClassDist(c) = shortdepth + l => Marked(c, NewValue(d + l))

LEMMA UncutMarked ==
  ASSUME IInv, Found, Search, Joined, pc_main # "short", NEW l \in 0 .. LastLevel, l <= Uncut
  PROVE  MarkedAt(l)
<1> SUFFICES ASSUME NEW c \in Cubes, ClassDist(c) = shortdepth + l
             PROVE  Marked(c, NewValue(d + l))
  BY DEF MarkedAt
<1>1. /\ d \in Int /\ LastLevel \in 2 .. 4 /\ d + LastLevel = 2 /\ -d \in 0 .. 2 /\ shortdepth \in Nat
  BY Levels DEF IInv, Types
<1>2. l \in 0 .. 4 /\ l \in Nat
  BY <1>1
<1>3. RoutesTo(l)
  BY <1>1, <1>2, RoutesEverywhere
<1>4. PICK w : Route(w) /\ Len(w) = l + 1 /\ Same(w[l+1].cube, c)
  BY <1>3 DEF RoutesTo
<1>5. PICK k \in Keys : KeyDist[k] = shortdepth /\ w[1].cube = Rep[k]
  BY <1>4 DEF Route
<1>6. KeyDist[k] <= shortdepth
  BY <1>1, <1>5
<1>7. RouteStarts(w)
  BY <1>5, <1>6, ShortTaken DEF RouteStarts
<1>8. Len(w) <= Uncut + 1
  BY <1>1, <1>2, <1>4 DEF Uncut
<1>9. RouteDone(w)
  BY <1>4, <1>7, <1>8 DEF Search, Routed
<1>10. AllMarked(w[Len(w)].cube, NewValue(d + Len(w) - 1))
  BY <1>9, AtTheEnd DEF RouteDone
<1>11. Len(w) = l + 1 /\ d + Len(w) - 1 = d + l
  BY <1>1, <1>2, <1>4
<1>12. AllMarked(w[l+1].cube, NewValue(d + l))
  BY <1>10, <1>11
<1>13. w[l+1] \in Nodes
  BY <1>2, <1>4 DEF Route
<1>14. Same(c, w[l+1].cube)
  BY <1>4, <1>13, SameEquivalence DEF Nodes
<1> QED BY <1>12, <1>14 DEF AllMarked

(* Where branches may be cut, from one level to the next.                  *)
LEMMA NextLevelMarked ==
  ASSUME IInv, Search, Joined, pc_main # "short", Real,
         NEW l \in -d .. LastLevel - 1, MarkedAt(l)
  PROVE  MarkedAt(l + 1)
<1> SUFFICES ASSUME NEW c \in Cubes, ClassDist(c) = shortdepth + (l + 1)
             PROVE  Marked(c, NewValue(d + (l + 1)))
  BY DEF MarkedAt
<1>1. /\ d \in Int /\ LastLevel \in 2 .. 4 /\ d + LastLevel = 2 /\ -d \in 0 .. 2 /\ shortdepth \in Nat
  BY Levels, SMTT(30) DEF IInv, Types
<1>2. l \in Nat /\ d + l \in 0 .. 1 /\ ClassDist(c) > 0
  BY <1>1
<1>3. PICK p \in Cubes, m \in Moves :
        ClassDist(p) = ClassDist(c) - 1 /\ Same(Turns[p][m], c)
  BY <1>2, ClassParent
<1>4. Turns[p][m] \in Cubes
  BY ParametersAssumption
<1>5. ClassDist(p) = shortdepth + l /\ ClassDist(Turns[p][m]) = shortdepth + l + 1
  BY <1>1, <1>2, <1>3, <1>4, ClassOfSame
<1>6. NewValue(d + l) = d + l /\ NewValue(d + (l + 1)) = d + l + 1
  BY <1>1, <1>2 DEF NewValue
<1>7. Marked(p, d + l)
  BY <1>5, <1>6 DEF MarkedAt
<1>8. Covered(Turns[p][m], l + 1)
  BY <1>5, <1>7 DEF Search, Frontier
<1>9. \A t \in Threads : Len(todo[t]) = 0
  BY AtTheEnd
<1>10. Marked(Turns[p][m], d + (l + 1))
  BY <1>8, <1>9 DEF Covered
<1>11. PICK v \in 0 .. 2 : v = d + (l + 1)
  BY <1>1, <1>2
<1>12. Same(c, Turns[p][m])
  BY <1>3, <1>4, SameEquivalence
<1>13. ClassDist(Turns[p][m]) >= shortdepth
  BY <1>1, <1>2, <1>5
<1>14. Marked(c, v)
  BY <1>4, <1>10, <1>11, <1>12, <1>13 DEF Search, Closed
<1> QED BY <1>1, <1>2, <1>6, <1>11, <1>14

LEMMA AllLevelsMarked ==
  ASSUME IInv, Found, Search, Joined, pc_main # "short"
  PROVE  \A l \in 0 .. LastLevel : MarkedAt(l)
<1>1. /\ d \in Int /\ LastLevel \in 2 .. 4 /\ d + LastLevel = 2 /\ -d \in 0 .. 2
  BY Levels DEF IInv, Types
<1>2. \A l \in 0 .. LastLevel : l <= Uncut => MarkedAt(l)
  BY UncutMarked
<1>3. CASE ~Real
  BY <1>1, <1>2, <1>3 DEF Uncut
<1>4. CASE Real
  <2>1. \A l \in 0 .. LastLevel : l <= -d => MarkedAt(l)
    BY <1>2, <1>4 DEF Uncut
  <2>2. \A l \in -d .. LastLevel - 1 : MarkedAt(l) => MarkedAt(l + 1)
    BY <1>4, NextLevelMarked
  <2>3. PICK e \in 0 .. 2 : e = -d
    BY <1>1
  <2>4. /\ \A l \in 0 .. e + 2 : l <= e => MarkedAt(l)
        /\ \A l \in e .. e + 1 : MarkedAt(l) => MarkedAt(l + 1)
        /\ LastLevel = e + 2
    <3>1. LastLevel = e + 2
      BY <1>1, <2>3
    <3>2. \A l \in e .. e + 1 : l \in -d .. LastLevel - 1
      BY <1>1, <2>3, <3>1
    <3> QED BY <2>1, <2>2, <2>3, <3>1, <3>2
  <2>5. MarkedAt(e) /\ MarkedAt(e + 1)
    BY <2>4
  <2>6. PICK g \in e .. e + 1 : g = e + 1
    OBVIOUS
  <2>7. MarkedAt(g + 1)
    BY <2>4, <2>5, <2>6
  <2>8. \A l \in 0 .. e + 2 : l <= e \/ l = e + 1 \/ l = g + 1
    BY <2>6
  <2> QED BY <2>4, <2>5, <2>7, <2>8
<1> QED BY <1>3, <1>4

(* The class of the nearest position of an entry is as near as it is.      *)
LEMMA NearestClass ==
  ASSUME NEW k \in Keys, h \in 0 .. HMAX, Nearest(k, h)
  PROVE  Rep[k] \in Cubes /\ Key[Rep[k]] = k /\ ClassDist(Rep[k]) = KeyDist[k]
<1>1. Rep[k] \in Cubes /\ Key[Rep[k]] = k /\ DistOf(Rep[k]) = KeyDist[k] /\ KeyDist[k] \in Nat
  BY ParametersAssumption, DistanceAssumption DEF DistOf
<1>2. PICK b \in Cubes : Same(b, Rep[k]) /\ DistOf(b) = ClassDist(Rep[k])
  BY <1>1, ClassNearest
<1>3. CASE ~Real
  BY <1>1, <1>2, <1>3, SameWhenCut
<1>4. CASE Real
  <2>1. Same(Rep[k], b)
    BY <1>1, <1>2, SameEquivalence
  <2>2. PICK x \in Keys : IsSimilar(x, b) /\ Coord(x, h) = Coord(k, h)
    BY <1>1, <1>4, <2>1 DEF Same, Alike, Grade
  <2>3. KeyDist[k] <= KeyDist[x]
    BY <2>2 DEF Nearest
  <2>4. Rep[x] \in Cubes /\ Key[Rep[x]] = x
    BY ParametersAssumption
  <2>5. KeyDist[x] = DistOf(b)
    BY <2>2, <2>4, SimilarityAssumption DEF DistOf
  <2>6. ClassDist(Rep[k]) <= DistOf(Rep[k]) /\ ClassDist(Rep[k]) \in Nat
    BY <1>1, ClassNearest
  <2> QED BY <1>1, <1>2, <2>3, <2>5, <2>6
<1> QED BY <1>1, <1>3, <1>4

(* The table is what the distances say.                                    *)
LEMMA EndsExact ==
  ASSUME IInv, Found, Search, Joined, pc_main # "short", NEW c \in Coords
  PROVE  table[c] = Bound[h][base][c]
<1>1. /\ d \in Int /\ LastLevel \in 2 .. 4 /\ d + LastLevel = 2 /\ -d \in 0 .. 2 /\ shortdepth \in Nat
      /\ h \in 0 .. HMAX /\ base \in {q[2] : q \in Requests} /\ base \in Nat
      /\ KeyDist \in [Keys -> Nat] /\ d = shortdepth - base
  <2>1. <<h, base>> \in Requests
    BY DEF IInv, Types
  <2>2. base \in {q[2] : q \in Requests}
    BY <2>1
  <2> QED BY <2>1, <2>2, Levels, DistanceAssumption
<1>2. table[c] \in 0 .. 3 /\ (table[c] = Unset \/ Justified(c, table[c]))
  BY DEF IInv, Types, TableOK, Unset
<1>3. Bound[h][base][c] \in 0 .. table[c]
  BY <1>2, TableAboveBound DEF Unset
<1>4. PICK k \in Keys : /\ Coord(k, h) = c /\ Nearest(k, h)
                        /\ Bound[h][base][c] = Above(KeyDist[k], base)
  BY <1>1, BoundIs DEF Coords
<1>5. KeyDist[k] \in Nat
  BY <1>1
<1>6. CASE KeyDist[k] < shortdepth
  <2>1. PICK s \in Slots :
          TakenSlot(s) /\ map.table[s].key = k /\ map.table[s].val = KeyDist[k]
    BY <1>1, <1>5, <1>6, ShortTaken
  <2>2. Hit(c, 0)
    BY <1>4, <1>6, <2>1 DEF Search, Taken
  <2>3. table[c] <= 0
    BY <2>2, AtTheEnd
  <2> QED BY <1>2, <1>3, <2>3
<1>7. CASE KeyDist[k] > shortdepth + LastLevel
  <2>1. Above(KeyDist[k], base) = 3
    BY <1>1, <1>5, <1>7 DEF Above
  <2> QED BY <1>2, <1>3, <1>4, <2>1
<1>8. CASE KeyDist[k] >= shortdepth /\ KeyDist[k] <= shortdepth + LastLevel
  <2>1. PICK l \in 0 .. LastLevel : l = KeyDist[k] - shortdepth
    BY <1>1, <1>5, <1>8
  <2>2. MarkedAt(l)
    BY AllLevelsMarked
  <2>3. Rep[k] \in Cubes /\ Key[Rep[k]] = k /\ ClassDist(Rep[k]) = KeyDist[k]
    BY <1>1, <1>4, NearestClass
  <2>4. ClassDist(Rep[k]) = shortdepth + l
    BY <1>1, <1>5, <2>1, <2>3
  <2>5. Marked(Rep[k], NewValue(d + l))
    BY <2>2, <2>3, <2>4 DEF MarkedAt
  <2>6. NewValue(d + l) = IF KeyDist[k] <= base THEN 0 ELSE KeyDist[k] - base
    BY <1>1, <1>5, <2>1 DEF NewValue
  <2>7. Hit(c, NewValue(d + l)) /\ NewValue(d + l) \in Int
    BY <1>1, <1>4, <1>5, <2>3, <2>5, <2>6 DEF Marked
  <2>8. table[c] <= NewValue(d + l)
    BY <2>7, AtTheEnd
  <2>9. KeyDist[k] <= base + 2
    BY <1>1, <1>5, <1>8
  <2>10. Above(KeyDist[k], base) = NewValue(d + l)
    BY <1>1, <1>5, <2>6, <2>9 DEF Above
  <2>11. Bound[h][base][c] = NewValue(d + l)
    BY <1>4, <2>10
  <2> QED BY <1>2, <1>3, <2>6, <2>7, <2>8, <2>11
<1> QED BY <1>1, <1>5, <1>6, <1>7, <1>8

-----------------------------------------------------------------------------
(* The values that the distances give make a table.                        *)
LEMMA BoundTable ==
  ASSUME NEW hh \in 0 .. HMAX, NEW b \in {q[2] : q \in Requests}
  PROVE  Bound[hh][b] = [c \in CoordsOf(hh) |-> Bound[hh][b][c]]
<1> DEFINE f(x, y, c) ==
      LET dist == Min({KeyDist[k] : k \in {z \in Keys : Coord(z, x) = c}})
      IN  Min({Unset, IF dist > y THEN dist - y ELSE 0})
<1>1. Bound = [x \in 0 .. HMAX |-> [y \in {q[2] : q \in Requests} |->
                 [c \in CoordsOf(x) |-> f(x, y, c)]]]
  BY DEF Bound
<1> HIDE DEF f
<1>2. Bound[hh][b] = [c \in CoordsOf(hh) |-> f(hh, b, c)]
  BY <1>1
<1> QED BY <1>2

LEMMA Requested ==
  ASSUME <<h, base>> \in Requests
  PROVE  /\ h \in 0 .. HMAX /\ base \in {q[2] : q \in Requests} /\ base \in Nat
         /\ DOMAIN Bound[h][base] = Coords
<1>1. h \in 0 .. HMAX /\ base \in Nat
  BY Levels
<1>2. base \in {q[2] : q \in Requests}
  <2>1. \E q \in Requests : base = q[2]
    <3> WITNESS <<h, base>> \in Requests
    <3> QED OBVIOUS
  <2> QED BY <2>1
<1>3. Bound[h][base] = [c \in Coords |-> Bound[h][base][c]]
  BY <1>1, <1>2, BoundTable DEF Coords
<1> QED BY <1>1, <1>2, <1>3

(* The coordinate of a smaller h comes from that of a larger one.          *)
LEMMA QuotientTwice ==
  ASSUME NEW v \in Nat \ {0}, NEW w \in Nat \ {0}, NEW x \in Nat
  PROVE  (x \div v) \div w = x \div (v * w)
<1> DEFINE p == x \div v  q == p \div w
<1>1. p \in Nat /\ v * p <= x /\ x < v * p + v
  BY Quotient
<1>2. q \in Nat /\ w * q <= p /\ p < w * q + w
  BY <1>1, Quotient
<1> HIDE DEF p, q
<1> DEFINE u == w * q
<1>3. u \in Nat /\ u <= p /\ p + 1 <= u + w
  BY <1>1, <1>2
<1> HIDE DEF u
<1>4. v * u <= v * p
  BY <1>1, <1>3
<1>5. v * (p + 1) <= v * (u + w)
  BY <1>1, <1>3
<1>6. v * (p + 1) = v * p + v /\ v * (u + w) = v * u + v * w
  BY <1>1, <1>3
<1>7. v * u \in Nat /\ v * w \in Nat \ {0} /\ v * p \in Nat
  BY <1>1, <1>3
<1> DEFINE a == v * u  e == v * w  g == v * p  r == x - a
<1>8. a <= x /\ x < a + e
  BY <1>1, <1>4, <1>5, <1>6, <1>7
<1>9. r \in 0 .. e-1 /\ x = a + r
  BY <1>7, <1>8
<1>10. a = e * q
  <2>1. v * (w * q) = (v * w) * q
    BY <1>2
  <2> QED BY <2>1 DEF u
<1>11. (e * q + r) \div e = q
  <2> HIDE DEF e, r
  <2>1. e \in Nat \ {0} /\ r \in 0 .. e-1
    BY <1>7, <1>9 DEF e
  <2> QED BY <1>2, <2>1, QuotientIs
<1>12. x \div e = q
  BY <1>9, <1>10, <1>11
<1> QED BY <1>12 DEF p, q

LEMMA CoordOfCoord ==
  ASSUME h \in 0 .. HMAX, NEW hh \in 0 .. h, NEW k \in Keys
  PROVE  DeriveIndex(Coord(k, h), hh) = Coord(k, hh)
<1> DEFINE m == HMAX - h  n == h - hh  l == HMAX - hh
<1>1. m \in 0 .. 11 /\ n \in 0 .. 11 /\ l \in 0 .. 11 /\ m + n = l
  BY ParametersAssumption
<1> HIDE DEF m, n, l
<1>2. 2^m \in Nat \ {0} /\ 2^n \in Nat \ {0} /\ 2^(m + n) = 2^m * 2^n
  BY <1>1, Powers, Zenon
<1>3. 2^l = 2^m * 2^n
  BY <1>1, <1>2, Zenon
<1> DEFINE v == Shift(HMAX, h)  w == Shift(h, hh)  z == Shift(HMAX, hh)
<1>4. v = 2^m /\ w = 2^n /\ z = 2^l
  BY Zenon DEF Shift, m, n, l
<1>5. v \in Nat \ {0} /\ w \in Nat \ {0} /\ z = v * w
  BY <1>2, <1>3, <1>4, Zenon
<1> HIDE DEF v, w, z
<1>6. k \in Nat
  BY DEF Keys
<1>7. (k \div v) \div w = k \div z
  BY <1>5, <1>6, QuotientTwice
<1> QED BY <1>7 DEF DeriveIndex, Coord, v, w, z

(* What is derived from a table that says what the distances say.          *)
LEMMA DerivesExact ==
  ASSUME IInv, table = Bound[h][base], NEW hh \in 0 .. h
  PROVE  [b \in CoordsOf(hh) |->
           Min({Unset} \cup {table[c] : c \in {x \in Coords : DeriveIndex(x, hh) = b}})]
           = Bound[hh][base]
<1>1. /\ h \in 0 .. HMAX /\ base \in {q[2] : q \in Requests} /\ base \in Nat
      /\ hh \in 0 .. HMAX /\ KeyDist \in [Keys -> Nat]
  <2>1. h \in 0 .. HMAX /\ base \in {q[2] : q \in Requests} /\ base \in Nat
    BY Requested DEF IInv, Types
  <2>2. HMAX \in Nat
    BY ParametersAssumption
  <2> QED BY <2>1, <2>2, DistanceAssumption
<1>2. table \in [Coords -> 0 .. 3]
  BY DEF IInv, Types, Unset
<1>3. ASSUME NEW b \in CoordsOf(hh)
      PROVE  Min({Unset} \cup {table[c] : c \in {x \in Coords : DeriveIndex(x, hh) = b}})
               = Bound[hh][base][b]
  <2> DEFINE S == {Unset} \cup {table[c] : c \in {x \in Coords : DeriveIndex(x, hh) = b}}
  <2>1. PICK k \in Keys : /\ Coord(k, hh) = b /\ Nearest(k, hh)
                          /\ Bound[hh][base][b] = Above(KeyDist[k], base)
    BY <1>1, BoundIs
  <2>2. S \in SUBSET Nat /\ S # {}
    BY <1>2 DEF Unset
  <2>3. Min(S) \in S /\ \A x \in S : Min(S) <= x
    BY <2>2, MinOfNat
  <2>4. ASSUME NEW x \in Coords, DeriveIndex(x, hh) = b
        PROVE  \E e \in Keys : /\ Coord(e, h) = x /\ Nearest(e, h) /\ KeyDist[k] <= KeyDist[e]
                               /\ table[x] = Above(KeyDist[e], base)
    <3>1. PICK e \in Keys : /\ Coord(e, h) = x /\ Nearest(e, h)
                            /\ Bound[h][base][x] = Above(KeyDist[e], base)
      BY <1>1, BoundIs DEF Coords
    <3>2. Coord(e, hh) = b
      BY <1>1, <2>4, <3>1, CoordOfCoord
    <3> QED BY <2>1, <3>1, <3>2 DEF Nearest
  <2>5. \A x \in Coords : DeriveIndex(x, hh) = b => Above(KeyDist[k], base) <= table[x]
    <3> SUFFICES ASSUME NEW x \in Coords, DeriveIndex(x, hh) = b
                 PROVE  Above(KeyDist[k], base) <= table[x]
      OBVIOUS
    <3>1. PICK e \in Keys : KeyDist[k] <= KeyDist[e] /\ table[x] = Above(KeyDist[e], base)
      BY <2>4
    <3>2. KeyDist[k] \in Nat /\ KeyDist[e] \in Nat
      BY <1>1
    <3> QED BY <1>1, <3>1, <3>2 DEF Above
  <2>6. \E x \in Coords : DeriveIndex(x, hh) = b /\ table[x] = Above(KeyDist[k], base)
    <3>1. Coord(k, h) \in Coords /\ DeriveIndex(Coord(k, h), hh) = b
      BY <1>1, <2>1, CoordType, CoordOfCoord DEF Coords
    <3>2. PICK x \in Coords : x = Coord(k, h)
      BY <3>1
    <3>3. PICK e \in Keys : /\ Coord(e, h) = x /\ Nearest(e, h) /\ KeyDist[k] <= KeyDist[e]
                            /\ table[x] = Above(KeyDist[e], base)
      BY <2>4, <3>1, <3>2
    <3>4. KeyDist[e] <= KeyDist[k]
      BY <3>2, <3>3 DEF Nearest
    <3>5. KeyDist[e] = KeyDist[k]
      BY <1>1, <3>3, <3>4
    <3> QED BY <3>1, <3>2, <3>3, <3>5
  <2>7. Above(KeyDist[k], base) \in 0 .. 3
    <3>1. KeyDist[k] \in Nat
      BY <1>1
    <3> QED BY <1>1, <3>1 DEF Above
  <2>8. Above(KeyDist[k], base) \in S
    BY <2>6
  <2>9. \A x \in S : Above(KeyDist[k], base) <= x
    BY <2>5, <2>7 DEF Unset
  <2>10. Min(S) \in Nat /\ Min(S) <= Above(KeyDist[k], base) /\ Above(KeyDist[k], base) <= Min(S)
    BY <2>2, <2>3, <2>8, <2>9
  <2> HIDE DEF S
  <2>11. Min(S) = Above(KeyDist[k], base)
    BY <2>7, <2>10
  <2> QED BY <2>1, <2>11 DEF S
<1>4. Bound[hh][base] = [b \in CoordsOf(hh) |-> Bound[hh][base][b]]
  BY <1>1, BoundTable
<1> QED BY <1>3, <1>4

-----------------------------------------------------------------------------
(* What is returned.                                                       *)
Final ==
  /\ pc_main \in {"done", "derived"} => table = Bound[h][base]
  /\ pc_main = "derived" => derived.table = Bound[derived.h][base]

LEMMA JoinedExact ==
  ASSUME IInv, Found, Search, JoinThreads
  PROVE  table = Bound[h][base]
<1>1. Joined /\ pc_main # "short"
  BY DEF JoinThreads
<1>2. table \in [Coords -> 0 .. Unset] /\ <<h, base>> \in Requests
  BY DEF IInv, Types
<1>3. \A c \in Coords : table[c] = Bound[h][base][c]
  BY <1>1, EndsExact
<1>4. Bound[h][base] = [c \in Coords |-> Bound[h][base][c]]
  BY <1>2, Requested, BoundTable DEF Coords
<1> QED BY <1>2, <1>3, <1>4

LEMMA NextFinal == IInv /\ Found /\ Search /\ Final /\ [Next]_vars => Final'
<1> SUFFICES ASSUME IInv, Found, Search, Final, [Next]_vars PROVE Final'
  OBVIOUS
<1>1. CASE JoinThreads
  <2>1. table = Bound[h][base] /\ UNCHANGED <<h, base, table>> /\ pc_main' = "done"
    BY <1>1, JoinedExact DEF JoinThreads
  <2> QED BY <2>1 DEF Final
<1>2. ASSUME NEW hh \in 0 .. h, Derive(hh) PROVE Final'
  <2>1. /\ table = Bound[h][base] /\ UNCHANGED <<h, base, table>> /\ pc_main' = "derived"
    BY <1>2 DEF Derive, Final
  <2>2. derived' = [h |-> hh, table |-> Bound[hh][base]]
    BY <1>2, <2>1, DerivesExact DEF Derive
  <2> QED BY <2>1, <2>2 DEF Final
<1>3. ASSUME NEW t \in Threads, ThreadStep(t) PROVE Final'
  <2>1. pc[t] # "exit" /\ Roster(t) /\ Types
    BY <1>3 DEF ThreadStep, NextShortCube, Visit, Load, Store, IInv
  <2>2. pc_main \notin {"done", "derived"} /\ pc_main' = pc_main
    BY <1>3, <2>1 DEF Roster, ThreadStep, NextShortCube, Visit, Load, Store
  <2> QED BY <2>2 DEF Final
<1>4. CASE ShortPair \/ ShortInsert \/ CreateThreads
  <2>1. pc_main' \notin {"done", "derived"}
    BY <1>4 DEF ShortPair, ShortInsert, CreateThreads
  <2> QED BY <2>1 DEF Final
<1>5. CASE UNCHANGED vars
  <2>1. UNCHANGED <<h, base, table, derived, pc_main>>
    BY <1>5 DEF vars, out
  <2> QED BY <2>1 DEF Final
<1> QED BY <1>1, <1>2, <1>3, <1>4, <1>5 DEF Next, MainStep, Returned

LEMMA AlwaysFinal == Spec /\ []LastSlotFree => []Final
<1>1. Init => Final
  BY DEF Init, Final
<1> QED BY <1>1, NextFinal, AlwaysIInv, AlwaysFound, AlwaysSearch, PTL DEF Spec

(* The steps of the generator are those of LowerBoundTable, or none.       *)
LEMMA RefineInit == ASSUME Init PROVE Bounds!Init
<1>1. IInv /\ <<h, base>> \in Requests
  BY InitIInv DEF IInv, Types
<1>2. DOMAIN Bound[h][base] = Coords
  BY <1>1, Requested
<1>3. table = [c \in Coords |-> Unset] /\ distribution = [v \in 0 .. Unset |-> 0] /\ pc_main = "short"
  BY DEF Init
<1>4. \A c \in Coords : Bound[h][base][c] \in 0 .. Unset
  BY <1>1, TableAboveBound DEF Unset
<1> QED BY <1>2, <1>3, <1>4 DEF Bounds!Init, Bounds!Coords

LEMMA RefineStep ==
  ASSUME IInv, Found, Search, Final, [Next]_vars
  PROVE  [Bounds!Next]_(Bounds!vars)
<1>0. Types /\ DOMAIN Bound[h][base] = Coords
  BY Requested DEF IInv, Types
<1>1. CASE table' # table
  <2>1. PICK c \in Coords, v \in 0 .. Unset :
          v < table[c] /\ Bound[h][base][c] <= v /\ table' = [table EXCEPT ![c] = v]
    BY <1>1, StepLowers DEF OneEntryLowered
  <2>2. PICK t \in Threads : Store(t)
    BY <1>1 DEF Next, MainStep, ThreadStep, ShortPair, ShortInsert, CreateThreads, JoinThreads,
                Derive, NextShortCube, Visit, Load, Returned, vars
  <2>3. UNCHANGED <<h, base, distribution, pc_main>> /\ pc[t] = "store" /\ Roster(t)
    BY <2>2 DEF Store, out, IInv
  <2>4. pc_main \notin {"done", "derived"}
    BY <2>3 DEF Roster
  <2>5. v \in Bound[h][base][c] .. table[c] - 1
    <3>1. Bound[h][base][c] \in Int /\ table[c] \in Int
      <4>1. table[c] \in 0 .. Unset /\ (table[c] = Unset \/ Justified(c, table[c]))
        BY <1>0 DEF IInv, Types, TableOK
      <4>2. Bound[h][base][c] \in 0 .. table[c]
        BY <4>1, TableAboveBound
      <4> QED BY <4>1, <4>2 DEF Unset
    <3> QED BY <2>1, <3>1 DEF Unset
  <2>6. Bounds!Lower(c)
    BY <2>1, <2>3, <2>4, <2>5 DEF Bounds!Lower
  <2> QED BY <1>0, <2>6 DEF Bounds!Next, Bounds!Coords
<1>2. CASE JoinThreads
  <2>1. table = Bound[h][base]
    BY <1>2, JoinedExact
  <2>2. Bounds!Finish
    <3>1. /\ ~(pc_main \in {"done", "derived"}) /\ (pc_main \in {"done", "derived"})' = TRUE
          /\ UNCHANGED <<h, base, table>>
      BY <1>2 DEF JoinThreads
    <3>2. \A v \in 0 .. Unset :
            {c \in Coords : table[c] = v} = {c \in Coords : Bound[h][base][c] = v}
      BY <2>1, Zenon
    <3>3. distribution' = [v \in 0 .. Unset |-> Cardinality({c \in Coords : Bound[h][base][c] = v})]
      BY <1>2, <3>2, Zenon DEF JoinThreads
    <3>4. distribution' =
            [v \in 0 .. Unset |-> Cardinality({c \in DOMAIN Bound[h][base] : Bound[h][base][c] = v})]
      BY <1>0, <3>3, Zenon
    <3>5. (Bound[h][base])' = Bound[h][base]
      BY <3>1
    <3>6. \A S : Bounds!Cardinality(S) = Cardinality(S)
      BY Zenon DEF Bounds!Cardinality, Cardinality
    <3> QED BY <2>1, <3>1, <3>4, <3>5, <3>6, Zenon DEF Bounds!Finish, Bounds!Coords
  <2> QED BY <2>2 DEF Bounds!Next
<1>3. CASE table' = table /\ ~JoinThreads
  <2>1. UNCHANGED <<h, base, distribution>>
    BY <1>3 DEF Next, MainStep, ThreadStep, ShortPair, ShortInsert, CreateThreads, Derive,
                NextShortCube, Visit, Load, Store, Returned, vars, out
  <2>2. (pc_main \in {"done", "derived"})' <=> pc_main \in {"done", "derived"}
    BY <1>3 DEF Next, MainStep, ThreadStep, ShortPair, ShortInsert, CreateThreads, Derive,
                NextShortCube, Visit, Load, Store, Returned, vars, out
  <2>3. (pc_main \in {"done", "derived"})' = (pc_main \in {"done", "derived"})
    BY <2>2
  <2> QED BY <1>3, <2>1, <2>3 DEF Bounds!vars
<1> QED BY <1>1, <1>2, <1>3

(* The generator keeps the promise of LowerBoundTable: its entries start   *)
(* at 3, only decrease, are never below what their distance makes them,    *)
(* and are that when it returns, counted by value, although the threads    *)
(* cut branches at the marks of each other.                                *)
THEOREM GeneratorImplementsLowerBoundTable ==
  Spec /\ []LastSlotFree => ImplementsLowerBoundTable
<1>1. Init => Bounds!Init
  BY RefineInit
<1>2. IInv /\ Found /\ Search /\ Final /\ [Next]_vars => [Bounds!Next]_(Bounds!vars)
  BY RefineStep
<1> QED BY <1>1, <1>2, AlwaysIInv, AlwaysFound, AlwaysSearch, AlwaysFinal, PTL
        DEF Spec, ImplementsLowerBoundTable, Bounds!Spec

(* A table derived for a smaller h is the one that the generator would     *)
(* have made for it.                                                       *)
THEOREM DerivedTablesExact == Spec /\ []LastSlotFree => []DerivedAsGenerated
<1>1. Final => DerivedAsGenerated
  BY DEF Final, DerivedAsGenerated
<1> QED BY <1>1, AlwaysFinal, PTL
=============================================================================
