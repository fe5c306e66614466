-------------------------------- MODULE H48Map --------------------------------
(***************************************************************************)
(* The map of short cubes (solvers/h48/map.h): an open-addressing table of *)
(* fixed capacity, with linear probing.  A map is a record of its slots    *)
(* and of the number of pairs; a slot is a pair of a key and a value.      *)
(***************************************************************************)
EXTENDS Integers, FiniteSetsExt

CONSTANTS
  capacity,     \* number of slots
  randomizer    \* multiplier of the hash

ASSUME CapacityAssumption == capacity \in Nat \ {0} /\ randomizer \in Nat

MAP_UNSET_VAL == 2^24 - 1
MAP_KEYMASK == -1              \* 2^40 - 1, which is no coordinate
MAP_UNSET == [key |-> MAP_KEYMASK, val |-> MAP_UNSET_VAL]

Slots == 0 .. capacity-1

h48map_create == [n |-> 0, table |-> [j \in Slots |-> MAP_UNSET]]

(* Probing starts at the hash and ends at an unset slot or at the key; in  *)
(* a full map it goes on forever if the key is missing.                    *)
Hash(x) == ((x % capacity) * randomizer) % capacity
Probe(x, o) == (Hash(x) + o) % capacity
StopsAt(map, x, o) == map.table[Probe(x, o)].key \in {MAP_KEYMASK, x}
Ends(map, x) == \E o \in Slots : StopsAt(map, x, o)
h48map_lookup(map, x) ==
  Probe(x, CHOOSE o \in Slots :
             StopsAt(map, x, o) /\ \A q \in 0 .. o-1 : ~StopsAt(map, x, q))

h48map_insertlast(map, key, val) ==
  LET j == h48map_lookup(map, key)
  IN  [n |-> IF map.table[j] = MAP_UNSET THEN map.n + 1 ELSE map.n,
       table |-> [map.table EXCEPT ![j] = [key |-> key, val |-> val]]]
h48map_insertmin(map, key, val) ==
  LET j == h48map_lookup(map, key)
      old == map.table[j]
  IN  [n |-> IF old = MAP_UNSET THEN map.n + 1 ELSE map.n,
       table |-> [map.table EXCEPT ![j] =
                    [key |-> key, val |-> Min({val, old.val})]]]

h48map_value(map, key) == map.table[h48map_lookup(map, key)].val

(* The next pair from slot p on, and the index left in *p: one past the    *)
(* slot of the pair, or the capacity when there is none.                   *)
h48map_nextkvpair(map, p) ==
  LET set == {j \in p .. capacity-1 : map.table[j] # MAP_UNSET}
  IN  IF set = {} THEN [kv |-> MAP_UNSET, p |-> capacity]
      ELSE [kv |-> map.table[Min(set)], p |-> Min(set) + 1]
================================================================================
