----------------------------- MODULE StringMap -----------------------------
(***************************************************************************)
(* The hash map of src/collection/string_map.c: open addressing with       *)
(* linear probing, tombstones, and rehashing when occupied slots and       *)
(* tombstones together reach about 70% of the capacity.  Sessions, forms,  *)
(* views and validation errors are kept in such maps.                      *)
(*                                                                         *)
(* An operation whose allocation fails returns with the map unchanged and  *)
(* everything it had copied freed again, which is a stuttering step here.  *)
(***************************************************************************)
EXTENDS Naturals, FiniteSets, FiniteSetsExt

CONSTANTS
    Keys,
    EmptyKey,         \* the key of length 0, which needs no copy
    Values,
    OwnedValues,      \* the values of the setters that store a copy
    Hash,             \* stringv_hash
    InitialCapacity,  \* STRING_MAP_INITIAL_CAPACITY
    MaxCapacity,      \* bound on the capacity
    None

ASSUME StringMapAssumption ==
    /\ None \notin Keys \cup Values \cup Nat
    /\ OwnedValues \subseteq Values
    /\ Hash \in [Keys -> Nat]
    /\ InitialCapacity \in Nat /\ InitialCapacity > 1
    /\ MaxCapacity \in Nat

VARIABLES
    slots,       \* the slots, numbered from 0; no slots at all before the first set
    capacity,    \* map->capacity
    length,      \* map->length
    tombstones,  \* map->tombstone_count
    heap,        \* buffers the map has allocated and not freed
    \* Bookkeeping that the code does not have.
    op           \* the last call that changed the map, with its arguments

vars == <<slots, capacity, length, tombstones, heap, op>>

Operation(name, k, v) == [name |-> name, key |-> k, value |-> v]

\* The call that is carried out.
Calls(name, k, v) == op' = Operation(name, k, v)

NoValue == [data |-> None, owned |-> FALSE]

EmptySlot == [state |-> "empty", key |-> None, value |-> NoValue, ownsKey |-> FALSE]

Tombstone == [EmptySlot EXCEPT !.state = "tombstone"]

Stored(v) == [data |-> v, owned |-> v \in OwnedValues]

StoredValues == {Stored(v) : v \in Values}

Slots ==
    {EmptySlot, Tombstone}
      \cup [state : {"occupied"}, key : Keys, value : StoredValues, ownsKey : BOOLEAN]

\* The type of every variable; a slot that is not occupied holds nothing.
TypeOK ==
    /\ capacity \in 0 .. MaxCapacity
    /\ slots \in [0 .. capacity - 1 -> Slots]
    /\ length \in Nat
    /\ tombstones \in Nat
    /\ heap \in Nat
    /\ op \in [name : {"set", "remove", "clear"}, key : Keys \cup {None},
              value : Values \cup {None}]

Init ==
    /\ slots = [i \in {} |-> EmptySlot]
    /\ capacity = 0
    /\ length = 0
    /\ tombstones = 0
    /\ heap = 0
    /\ op = Operation("clear", None, None)

----------------------------------------------------------------------------
(* Probing.                                                                *)

\* The slot of the n-th probe for key k among cap slots.
Probe(k, cap, n) == (Hash[k] + n) % cap

Holds(s, k) == s.state = "occupied" /\ s.key = k

\* Mutant: a tombstone ends the search.
StopsAtTombstone(s, k) == s.state # "occupied" \/ Holds(s, k)

\* A probe at slot s ends the search for k: k is there, or cannot be further on.
Stops(s, k) == s.state = "empty" \/ Holds(s, k)

\* The probes that the search for k in table t of cap slots goes past.
Passed(t, cap, k) ==
    CHOOSE n \in 0 .. cap :
        /\ n = cap \/ Stops(t[Probe(k, cap, n)], k)
        /\ \A m \in 0 .. n - 1 : ~Stops(t[Probe(k, cap, m)], k)

\* string_map_find_index: where k is, None if it is not there.
FindIndex(t, cap, k) ==
    LET n == Passed(t, cap, k)
    IN  IF n < cap /\ Holds(t[Probe(k, cap, n)], k) THEN Probe(k, cap, n) ELSE None

\* Where a key that is not in t goes: into the first tombstone the search went
\* past, or else the first slot that is not occupied.
InsertIndex(t, cap, k) ==
    LET past == {n \in 0 .. Passed(t, cap, k) - 1 : t[Probe(k, cap, n)].state = "tombstone"}
        free == {n \in 0 .. cap - 1 : t[Probe(k, cap, n)].state # "occupied"}
    IN  Probe(k, cap, Min(IF past # {} THEN past ELSE free))

----------------------------------------------------------------------------
(* Rehashing.                                                              *)

EmptyTable(cap) == [i \in 0 .. cap - 1 |-> EmptySlot]

Reinsert(t, cap, s) == [t EXCEPT ![InsertIndex(t, cap, s.key)] = s]

\* Mutant: slots are copied to where they were.
RehashedInPlace(cap) ==
    [i \in 0 .. cap - 1 |->
       IF i < capacity /\ slots[i].state = "occupied" THEN slots[i] ELSE EmptySlot]

\* The occupied slots are inserted into the new table in the order of the old one.
Rehashed(cap) ==
    LET upTo[n \in 0 .. capacity] ==
          IF n = 0 THEN EmptyTable(cap)
          ELSE IF slots[n - 1].state = "occupied"
               THEN Reinsert(upTo[n - 1], cap, slots[n - 1])
               ELSE upTo[n - 1]
    IN  upTo[capacity]

LoadReached(cap, n) ==
    LET threshold == cap \div 2 + cap \div 5 IN threshold = 0 \/ n >= threshold

\* string_map_prepare_capacity: the capacity the next key is inserted at, and
\* whether the table is rehashed for it.
NeedsRehash == capacity = 0 \/ LoadReached(capacity, length + tombstones + 1)

NextCapacity ==
    IF capacity = 0 THEN InitialCapacity
    ELSE IF length < capacity \div 2 /\ tombstones > 0 THEN capacity
    ELSE 2 * capacity

----------------------------------------------------------------------------
(* Operations.  One(b) counts a buffer that is there if b.                 *)

One(b) == IF b THEN 1 ELSE 0

Owns(copyKey, k) == copyKey /\ k # EmptyKey

Occupied(k, v, copyKey) ==
    [state |-> "occupied", key |-> k, value |-> v, ownsKey |-> Owns(copyKey, k)]

\* Mutant: the old value is forgotten, not freed.
AfterReplaceLeaks(old, v) == heap + One(v.owned)

\* The new value's buffer stays, the old one's is freed.
AfterReplace(old, v) == heap + One(v.owned) - One(old.owned)

\* sm_set_* with value v, of which the map owns a copy or not, and a copied or a
\* borrowed key; the key is in the map.
SetExisting(k, v) ==
    /\ Calls("set", k, v.data)
    /\ capacity # 0
    /\ FindIndex(slots, capacity, k) # None
    /\ LET i == FindIndex(slots, capacity, k) IN
         /\ slots' = [slots EXCEPT ![i].value = v]
         /\ heap' = AfterReplace(slots[i].value, v)
    /\ UNCHANGED <<capacity, length, tombstones>>

Absent(k) == capacity = 0 \/ FindIndex(slots, capacity, k) = None

\* The key is new and there is room: a tombstone may be reused.
SetNew(k, v, copyKey) ==
    /\ Calls("set", k, v.data)
    /\ Absent(k)
    /\ ~NeedsRehash
    /\ LET i == InsertIndex(slots, capacity, k) IN
         /\ slots' = [slots EXCEPT ![i] = Occupied(k, v, copyKey)]
         /\ tombstones' = tombstones - One(slots[i].state = "tombstone")
    /\ length' = length + 1
    /\ heap' = heap + One(v.owned) + One(Owns(copyKey, k))
    /\ UNCHANGED capacity

\* The key is new and the table is rehashed first, into a new array.
SetRehashed(k, v, copyKey) ==
    /\ Calls("set", k, v.data)
    /\ Absent(k)
    /\ NeedsRehash
    /\ NextCapacity <= MaxCapacity
    /\ LET t == Rehashed(NextCapacity) IN
         slots' = [t EXCEPT ![InsertIndex(t, NextCapacity, k)] = Occupied(k, v, copyKey)]
    /\ capacity' = NextCapacity
    /\ tombstones' = 0
    /\ length' = length + 1
    /\ heap' = heap + One(v.owned) + One(Owns(copyKey, k)) + 1 - One(capacity # 0)

\* Mutant: the slot becomes empty at once.
RemovedSlotEmpty(s) == EmptySlot

\* Mutant: the freed key and value stay in the slot.
RemovedSlotDangling(s) == [s EXCEPT !.state = "tombstone"]

\* string_map_slot_release clears the slot.
RemovedSlot(s) == Tombstone

Released(s) == One(s.ownsKey) + One(s.value.owned)

sm_remove(k) ==
    /\ Calls("remove", k, None)
    /\ ~Absent(k)
    /\ LET i == FindIndex(slots, capacity, k) IN
         /\ slots' = [slots EXCEPT ![i] = RemovedSlot(slots[i])]
         /\ heap' = heap - Released(slots[i])
    /\ length' = length - 1
    /\ tombstones' = tombstones + 1
    /\ UNCHANGED capacity

AllReleased ==
    Cardinality({i \in DOMAIN slots : slots[i].ownsKey})
      + Cardinality({i \in DOMAIN slots : slots[i].value.owned})

sm_clear ==
    /\ Calls("clear", None, None)
    /\ capacity # 0
    /\ slots' = EmptyTable(capacity)
    /\ length' = 0
    /\ tombstones' = 0
    /\ heap' = heap - AllReleased
    /\ UNCHANGED capacity

\* sm_destroy, after which sm_init may make the map anew.
sm_destroy ==
    /\ Calls("clear", None, None)
    /\ slots' = [i \in {} |-> EmptySlot]
    /\ capacity' = 0
    /\ length' = 0
    /\ tombstones' = 0
    /\ heap' = heap - AllReleased - One(capacity # 0)

Next ==
    \/ \E k \in Keys :
          \/ \E v \in StoredValues :
                \/ SetExisting(k, v)
                \/ \E c \in BOOLEAN : SetNew(k, v, c) \/ SetRehashed(k, v, c)
          \/ sm_remove(k)
    \/ sm_clear
    \/ sm_destroy

Spec == Init /\ [][Next]_vars

----------------------------------------------------------------------------
(* Properties.                                                             *)

\* sm_get: the value a lookup finds.
Lookup(k) ==
    LET i == IF capacity = 0 THEN None ELSE FindIndex(slots, capacity, k)
    IN  IF i = None THEN None ELSE slots[i].value.data

\* The map is a function from keys to values, and every call does to it what its
\* own arguments say: sm_set_* gives that key that value, sm_remove takes that
\* key away, sm_clear and sm_destroy all of them, and nothing else changes.  So,
\* whatever the history of collisions, removals and rehashes, a lookup finds what
\* was last set.
Abstract == INSTANCE AbstractMap WITH map <- [k \in Keys |-> Lookup(k)]

ImplementsMap == Abstract!Spec

\* Every occupied slot is the one a lookup of its key finds.  So no key is in the
\* map twice, iteration yields what lookups do, and nothing is lost behind a
\* gap in a probe sequence (string_map_find_index, sm_next).
SlotsReachable ==
    \A i \in DOMAIN slots :
        slots[i].state = "occupied" => FindIndex(slots, capacity, slots[i].key) = i

\* The counters that decide about rehashing count the slots, so there is always
\* an empty slot: every search ends before it has gone round, and so does the
\* loop of string_map_set_internal that looks for a free slot.
CountsExact ==
    /\ length = Cardinality({i \in DOMAIN slots : slots[i].state = "occupied"})
    /\ tombstones = Cardinality({i \in DOMAIN slots : slots[i].state = "tombstone"})
    /\ capacity # 0 => \E i \in DOMAIN slots : slots[i].state = "empty"

\* The buffers allocated are the ones the map can still free: the slots, the
\* owned keys and the owned values; none leaks when it is replaced.
NoLeak == heap = AllReleased + One(capacity # 0)

============================================================================
