----------------------------- MODULE H48MapProof -----------------------------
(***************************************************************************)
(* Proofs about the map of short cubes, for any capacity and any hash: a   *)
(* key is in one slot, a lookup finds it there, an insertion moves none.   *)
(***************************************************************************)
EXTENDS H48Map, WellFoundedInduction, FiniteSetTheorems, TLAPS

Occupied(map) == {s \in Slots : map.table[s] # MAP_UNSET}

(* Probing for a stored key meets only other keys before it meets it.      *)
Reached(map, s) ==
  \E o \in Slots :
    /\ Probe(map.table[s].key, o) = s
    /\ \A q \in 0 .. o-1 : ~StopsAt(map, map.table[s].key, q)

MapOK(map) ==
  /\ map.table \in [Slots -> [key : Nat \cup {MAP_KEYMASK}, val : Nat]]
  /\ \A s \in Slots : map.table[s] = MAP_UNSET \/ map.table[s].key \in Nat
  /\ \A s \in Slots : map.table[s].key \in Nat => Reached(map, s)
  /\ map.n = Cardinality(Occupied(map))

Has(map, x) == \E s \in Slots : map.table[s].key = x

-----------------------------------------------------------------------------
(* What FiniteSetsExt calls Min, of a set of natural numbers.              *)
LEMMA MinOfNat ==
  ASSUME NEW S \in SUBSET Nat, S # {}
  PROVE  Min(S) \in S /\ \A x \in S : Min(S) <= x
<1>1. PICK m \in S : \A x \in S : <<x, m>> \notin OpToRel(<, Nat)
  BY WFMin, NatLessThanWellFounded, Zenon
<1>2. \A x \in S : ~(x < m)
  BY <1>1, Zenon DEF OpToRel
<1>3. \A x \in S : m <= x
  BY <1>2
<1> QED BY <1>3 DEF Min

LEMMA MinOfTwo ==
  ASSUME NEW a \in Nat, NEW b \in Nat
  PROVE  Min({a, b}) = IF a <= b THEN a ELSE b
<1>1. Min({a, b}) \in {a, b} /\ \A x \in {a, b} : Min({a, b}) <= x
  BY MinOfNat
<1> QED BY <1>1

(* A probe is a slot.                                                      *)
LEMMA ProbeIsSlot ==
  ASSUME NEW x \in Nat, NEW o \in Nat
  PROVE  Probe(x, o) \in Slots
<1>1. Hash(x) \in Nat
  <2>1. x % capacity \in Nat
    BY CapacityAssumption
  <2>2. (x % capacity) * randomizer \in Nat
    BY <2>1, CapacityAssumption
  <2> QED BY <2>2, CapacityAssumption DEF Hash
<1>2. Hash(x) + o \in Nat
  BY <1>1
<1>3. (Hash(x) + o) % capacity \in 0 .. capacity-1
  BY <1>2, CapacityAssumption
<1> QED BY <1>3 DEF Probe, Slots

(* A lookup that ends does so at the key, or at a free slot if the key is  *)
(* not in the map.                                                         *)
LEMMA LookupFinds ==
  ASSUME NEW map, MapOK(map), NEW x \in Nat, Ends(map, x)
  PROVE  LET l == h48map_lookup(map, x)
         IN  /\ l \in Slots
             /\ map.table[l].key \in {MAP_KEYMASK, x}
             /\ \E o \in Slots : l = Probe(x, o) /\ \A q \in 0 .. o-1 : ~StopsAt(map, x, q)
             /\ \A s \in Slots : map.table[s].key = x => s = l
<1> DEFINE First(o) == StopsAt(map, x, o) /\ \A q \in 0 .. o-1 : ~StopsAt(map, x, q)
           f == CHOOSE o \in Slots : First(o)
<1>1. \E o \in Slots : First(o)
  <2> DEFINE S == {o \in Slots : StopsAt(map, x, o)}
  <2>1. S \in SUBSET Nat /\ S # {}
    BY CapacityAssumption DEF Ends, Slots
  <2>2. Min(S) \in S /\ \A o \in S : Min(S) <= o
    BY <2>1, MinOfNat
  <2>3. \A q \in 0 .. Min(S)-1 : q \in Slots /\ ~(Min(S) <= q)
    BY <2>1, <2>2, CapacityAssumption DEF Slots
  <2>4. First(Min(S))
    BY <2>2, <2>3
  <2> QED BY <2>2, <2>4
<1>2. f \in Slots /\ First(f)
  BY <1>1
<1>3. h48map_lookup(map, x) = Probe(x, f)
  BY DEF h48map_lookup
<1>4. ASSUME NEW s \in Slots, map.table[s].key = x
      PROVE  s = Probe(x, f)
  <2>1. PICK o \in Slots : Probe(x, o) = s /\ \A q \in 0 .. o-1 : ~StopsAt(map, x, q)
    BY <1>4 DEF MapOK, Reached
  <2>2. StopsAt(map, x, o)
    BY <2>1, <1>4 DEF StopsAt
  <2>3. o \in Nat /\ f \in Nat
    BY <1>2, CapacityAssumption DEF Slots
  <2>4. ~(o < f) /\ ~(f < o)
    BY <1>2, <2>1, <2>2, <2>3
  <2> QED BY <2>1, <2>3, <2>4
<1>5. Probe(x, f) \in Slots
  BY <1>2, ProbeIsSlot, CapacityAssumption DEF Slots
<1> HIDE DEF f
<1> QED BY <1>2, <1>3, <1>4, <1>5 DEF StopsAt

(* A lookup of a key that is there ends.                                   *)
LEMMA StoredEnds ==
  ASSUME NEW map, MapOK(map), NEW x \in Nat, Has(map, x)
  PROVE  Ends(map, x)
<1>1. PICK s \in Slots : map.table[s].key = x
  BY DEF Has
<1>2. PICK o \in Slots : Probe(x, o) = s
  BY <1>1 DEF MapOK, Reached
<1> QED BY <1>1, <1>2 DEF Ends, StopsAt

(* With the last slot free every lookup ends: probing gets there.          *)
LEMMA FreeSlotEnds ==
  ASSUME NEW map, map.table[capacity-1] = MAP_UNSET, NEW x \in Nat
  PROVE  Ends(map, x)
<1>1. Hash(x) \in 0 .. capacity-1
  <2>1. x % capacity \in Nat
    BY CapacityAssumption
  <2>2. (x % capacity) * randomizer \in Nat
    BY <2>1, CapacityAssumption
  <2> QED BY <2>2, CapacityAssumption DEF Hash
<1> DEFINE o == capacity - 1 - Hash(x)
<1>2. o \in Slots /\ Hash(x) + o = capacity - 1
  BY <1>1, CapacityAssumption DEF Slots
<1>3. (capacity - 1) % capacity = capacity - 1
  BY CapacityAssumption
<1>4. Probe(x, o) = capacity - 1
  BY <1>2, <1>3 DEF Probe
<1> QED BY <1>2, <1>4 DEF Ends, StopsAt, MAP_UNSET

(* The empty map.                                                          *)
LEMMA CreatedOK ==
  MapOK(h48map_create) /\ \A s \in Slots : h48map_create.table[s] = MAP_UNSET
<1>1. MAP_UNSET \in [key : Nat \cup {MAP_KEYMASK}, val : Nat] /\ MAP_UNSET.key \notin Nat
  BY DEF MAP_UNSET, MAP_UNSET_VAL, MAP_KEYMASK
<1>2. Occupied(h48map_create) = {}
  BY DEF Occupied, h48map_create
<1> QED BY <1>1, <1>2, FS_EmptySet DEF MapOK, h48map_create

(* The value of a key that is there, and of one that is not.               *)
LEMMA ValueFound ==
  ASSUME NEW map, MapOK(map), NEW x \in Nat, NEW s \in Slots, map.table[s].key = x
  PROVE  h48map_value(map, x) = map.table[s].val
<1>1. Ends(map, x)
  BY StoredEnds DEF Has
<1>2. s = h48map_lookup(map, x)
  BY <1>1, LookupFinds
<1> QED BY <1>2 DEF h48map_value

LEMMA ValueMissing ==
  ASSUME NEW map, MapOK(map), NEW x \in Nat, Ends(map, x), ~Has(map, x)
  PROVE  h48map_value(map, x) = MAP_UNSET_VAL
<1> DEFINE l == h48map_lookup(map, x)
<1>1. l \in Slots /\ map.table[l].key \in {MAP_KEYMASK, x}
  BY LookupFinds
<1>2. map.table[l].key \notin Nat
  BY <1>1 DEF Has, MAP_KEYMASK
<1>3. map.table[l] = MAP_UNSET
  BY <1>1, <1>2 DEF MapOK
<1> QED BY <1>3 DEF h48map_value, MAP_UNSET

(* A key is in one slot.                                                   *)
LEMMA OneSlot ==
  ASSUME NEW map, MapOK(map), NEW s \in Slots, NEW u \in Slots,
         map.table[s].key \in Nat, map.table[s].key = map.table[u].key
  PROVE  s = u
<1>1. Ends(map, map.table[s].key)
  BY StoredEnds DEF Has
<1> QED BY <1>1, LookupFinds

(* What h48map_nextkvpair goes past is free.                               *)
LEMMA NextPair ==
  ASSUME NEW map, NEW p \in 0 .. capacity
  PROVE  LET r == h48map_nextkvpair(map, p)
         IN  \/ /\ r.p = capacity
                /\ \A s \in p .. capacity-1 : map.table[s] = MAP_UNSET
             \/ \E s \in p .. capacity-1 :
                  /\ r.p = s + 1 /\ r.kv = map.table[s] /\ map.table[s] # MAP_UNSET
                  /\ \A u \in p .. s-1 : map.table[u] = MAP_UNSET
<1> DEFINE S == {s \in p .. capacity-1 : map.table[s] # MAP_UNSET}
           r == h48map_nextkvpair(map, p)
<1>1. CASE S = {}
  <2>1. r = [kv |-> MAP_UNSET, p |-> capacity]
    BY <1>1 DEF h48map_nextkvpair
  <2> QED BY <1>1, <2>1
<1>2. CASE S # {}
  <2>1. S \in SUBSET Nat
    BY CapacityAssumption
  <2>2. Min(S) \in S /\ \A s \in S : Min(S) <= s
    BY <1>2, <2>1, MinOfNat
  <2>3. r = [kv |-> map.table[Min(S)], p |-> Min(S) + 1]
    BY <1>2 DEF h48map_nextkvpair
  <2>4. \A u \in p .. Min(S)-1 : map.table[u] = MAP_UNSET
    BY <2>1, <2>2, CapacityAssumption
  <2> HIDE DEF S, r
  <2>5. Min(S) \in p .. capacity-1 /\ map.table[Min(S)] # MAP_UNSET
    BY <2>2 DEF S
  <2> QED BY <2>3, <2>4, <2>5 DEF r
<1> QED BY <1>1, <1>2

(* An insertion: the slot where the lookup ends has the key and the lesser *)
(* of the two values, the others stay as they are.                         *)
Inserted(map, new, l, x, v) ==
  /\ new.table[l] = [key |-> x, val |-> IF map.table[l].key = x /\ map.table[l].val < v
                                        THEN map.table[l].val ELSE v]
  /\ \A s \in Slots \ {l} : new.table[s] = map.table[s]
  /\ \A s \in Slots : map.table[s].key = x => s = l
  /\ map.table[l].key \in {MAP_KEYMASK, x}

LEMMA InsertedWhere ==
  ASSUME NEW map, MapOK(map), NEW x \in Nat, NEW v \in 0 .. MAP_UNSET_VAL, Ends(map, x)
  PROVE  LET new == h48map_insertmin(map, x, v)
             l   == h48map_lookup(map, x)
         IN  l \in Slots /\ Inserted(map, new, l, x, v)
<1> DEFINE new == h48map_insertmin(map, x, v)
           l   == h48map_lookup(map, x)
           old == map.table[l]
<1>1. /\ l \in Slots
      /\ map.table[l].key \in {MAP_KEYMASK, x}
      /\ \A s \in Slots : map.table[s].key = x => s = l
  BY LookupFinds
<1>2. old \in [key : Nat \cup {MAP_KEYMASK}, val : Nat] /\ v \in Nat
  BY <1>1 DEF MapOK, MAP_UNSET_VAL
<1>3. Min({v, old.val}) = IF v <= old.val THEN v ELSE old.val
  BY <1>2, MinOfTwo
<1>4. new.table = [map.table EXCEPT ![l] = [key |-> x, val |-> Min({v, old.val})]]
  BY DEF h48map_insertmin
<1>5. old.key = x \/ old = MAP_UNSET
  BY <1>1 DEF MapOK, MAP_KEYMASK
<1>6. old = MAP_UNSET => old.key # x /\ v <= old.val
  BY <1>2 DEF MAP_UNSET, MAP_KEYMASK, MAP_UNSET_VAL
<1>7. Min({v, old.val}) = IF old.key = x /\ old.val < v THEN old.val ELSE v
  BY <1>2, <1>3, <1>5, <1>6
<1>8. map.table \in [Slots -> [key : Nat \cup {MAP_KEYMASK}, val : Nat]]
  BY DEF MapOK
<1> HIDE DEF new, l
<1>9. Inserted(map, new, l, x, v)
  BY <1>1, <1>4, <1>7, <1>8 DEF Inserted
<1> QED BY <1>1, <1>9 DEF new, l

LEMMA InsertKeepsOK ==
  ASSUME NEW map, MapOK(map), NEW x \in Nat, NEW v \in 0 .. MAP_UNSET_VAL, Ends(map, x)
  PROVE  MapOK(h48map_insertmin(map, x, v))
<1> DEFINE new == h48map_insertmin(map, x, v)
           l   == h48map_lookup(map, x)
           old == map.table[l]
<1>1. l \in Slots /\ Inserted(map, new, l, x, v)
  BY InsertedWhere
<1>2. PICK o \in Slots : l = Probe(x, o) /\ \A q \in 0 .. o-1 : ~StopsAt(map, x, q)
  BY LookupFinds
<1>3. map.table \in [Slots -> [key : Nat \cup {MAP_KEYMASK}, val : Nat]]
  BY DEF MapOK
<1>4. new.table = [map.table EXCEPT ![l] = new.table[l]]
  BY <1>1, <1>3 DEF h48map_insertmin
<1>5. /\ new.table[l].key = x /\ new.table[l] \in [key : Nat \cup {MAP_KEYMASK}, val : Nat]
      /\ \A s \in Slots \ {l} : new.table[s] = map.table[s]
      /\ \A s \in Slots : map.table[s].key = x => s = l
      /\ old.key \in {MAP_KEYMASK, x}
  BY <1>1, <1>3 DEF Inserted, MAP_UNSET_VAL
<1>6. new.n = IF old = MAP_UNSET THEN map.n + 1 ELSE map.n
  BY DEF h48map_insertmin
<1> HIDE DEF new, l
<1>7. new.table \in [Slots -> [key : Nat \cup {MAP_KEYMASK}, val : Nat]]
  BY <1>1, <1>3, <1>4, <1>5
<1>8. \A s \in Slots : new.table[s] = MAP_UNSET \/ new.table[s].key \in Nat
  BY <1>5 DEF MapOK
<1>9. ASSUME NEW s \in Slots, new.table[s].key \in Nat
      PROVE  Reached(new, s)
  <2>1. \A y \in Nat, q \in Nat : StopsAt(new, y, q) =>
           StopsAt(map, y, q) \/ (y = x /\ Probe(y, q) = l)
    <3> SUFFICES ASSUME NEW y \in Nat, NEW q \in Nat, StopsAt(new, y, q)
                 PROVE  StopsAt(map, y, q) \/ (y = x /\ Probe(y, q) = l)
      OBVIOUS
    <3>1. Probe(y, q) \in Slots
      BY ProbeIsSlot
    <3> QED BY <1>5, <3>1 DEF StopsAt, MAP_KEYMASK
  <2>2. CASE s = l
    <3>1. \A q \in 0 .. o-1 : ~StopsAt(new, x, q)
      <4> SUFFICES ASSUME NEW q \in 0 .. o-1, StopsAt(new, x, q)
                   PROVE  FALSE
        OBVIOUS
      <4>1. q \in Nat
        OBVIOUS
      <4>2. Probe(x, q) = l /\ ~StopsAt(map, x, q)
        BY <1>2, <2>1, <4>1
      <4> QED BY <1>5, <4>2 DEF StopsAt
    <3> QED BY <1>2, <1>5, <2>2, <3>1 DEF Reached
  <2>3. CASE s # l
    <3>1. new.table[s] = map.table[s]
      BY <1>5, <2>3
    <3>2. PICK e \in Slots : /\ Probe(map.table[s].key, e) = s
                             /\ \A q \in 0 .. e-1 : ~StopsAt(map, map.table[s].key, q)
      BY <1>9, <3>1 DEF MapOK, Reached
    <3>3. map.table[s].key # x
      BY <1>5, <2>3
    <3>4. \A q \in 0 .. e-1 : ~StopsAt(new, map.table[s].key, q)
      BY <1>9, <2>1, <3>1, <3>2, <3>3
    <3> QED BY <3>1, <3>2, <3>4 DEF Reached
  <2> QED BY <2>2, <2>3
<1>10. new.n = Cardinality(Occupied(new))
  <2>1. IsFiniteSet(Slots) /\ IsFiniteSet(Occupied(map)) /\ map.n = Cardinality(Occupied(map))
    <3>1. IsFiniteSet(Slots)
      BY FS_Interval, CapacityAssumption DEF Slots
    <3>2. Occupied(map) \subseteq Slots
      BY DEF Occupied
    <3> QED BY <3>1, <3>2, FS_Subset DEF MapOK
  <2>2. new.table[l] # MAP_UNSET
    BY <1>5 DEF MAP_UNSET, MAP_KEYMASK
  <2>3. Occupied(new) = Occupied(map) \cup {l}
    BY <1>1, <1>5, <2>2 DEF Occupied
  <2>4. l \in Occupied(map) <=> old # MAP_UNSET
    BY <1>1 DEF Occupied
  <2> HIDE DEF old
  <2>5. CASE old = MAP_UNSET
    <3>1. Cardinality(Occupied(new)) = Cardinality(Occupied(map)) + 1
      BY <2>1, <2>3, <2>4, <2>5, FS_AddElement
    <3> QED BY <1>6, <2>1, <2>5, <3>1
  <2>6. CASE old # MAP_UNSET
    <3>1. Occupied(new) = Occupied(map)
      BY <2>3, <2>4, <2>6
    <3> QED BY <1>6, <2>1, <2>6, <3>1
  <2> QED BY <2>5, <2>6
<1> QED BY <1>7, <1>8, <1>9, <1>10 DEF MapOK, new
=============================================================================
