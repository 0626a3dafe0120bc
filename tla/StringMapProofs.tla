-------------------------- MODULE StringMapProofs ---------------------------
(***************************************************************************)
(* What holds of StringMap for every set of keys, every hash and every     *)
(* capacity: the invariants, and that it implements AbstractMap.           *)
(***************************************************************************)
EXTENDS StringMap, Induction

-----------------------------------------------------------------------------
(* The invariant.                                                          *)

OccupiedIn(t) == {i \in DOMAIN t : t[i].state = "occupied"}
TombstonesIn(t) == {i \in DOMAIN t : t[i].state = "tombstone"}
OwnedKeysIn(t) == {i \in DOMAIN t : t[i].ownsKey}
OwnedValuesIn(t) == {i \in DOMAIN t : t[i].value.owned}

(* Every key can be reached: no slot that its search passes is empty. *)
Reachable(t, cap) ==
    \A i \in OccupiedIn(t) : \E n \in 0 .. cap - 1 :
        /\ Probe(t[i].key, cap, n) = i
        /\ \A m \in 0 .. n - 1 : t[Probe(t[i].key, cap, m)].state # "empty"

(* No key is there twice. *)
Unique(t) == \A i, j \in OccupiedIn(t) : t[i].key = t[j].key => i = j

(* A table of cap slots that can be searched. *)
Searchable(t, cap) ==
    /\ cap \in Nat
    /\ t \in [0 .. cap - 1 -> Slots]
    /\ Reachable(t, cap)
    /\ Unique(t)

IInv ==
    /\ capacity \in 0 .. MaxCapacity
    /\ Searchable(slots, capacity)
    /\ length = Cardinality(OccupiedIn(slots))
    /\ tombstones = Cardinality(TombstonesIn(slots))
    /\ capacity # 0 => length + tombstones < capacity
    /\ heap = Cardinality(OwnedKeysIn(slots)) + Cardinality(OwnedValuesIn(slots))
                + One(capacity # 0)

-----------------------------------------------------------------------------
(* Slots.                                                                  *)

(* The slots that hold nothing. *)
LEMMA FreeSlots ==
  /\ EmptySlot \in Slots /\ EmptySlot.state = "empty"
  /\ EmptySlot.ownsKey = FALSE /\ EmptySlot.value.owned = FALSE
  /\ Tombstone \in Slots /\ Tombstone.state = "tombstone"
  /\ Tombstone.ownsKey = FALSE /\ Tombstone.value.owned = FALSE
  BY DEF Slots, EmptySlot, Tombstone, NoValue

(* A slot is occupied by a key and a value, or holds nothing. *)
LEMMA SlotType ==
  ASSUME NEW s \in Slots
  PROVE  /\ s.state \in {"empty", "tombstone", "occupied"}
         /\ s.ownsKey \in BOOLEAN /\ s.value.owned \in BOOLEAN
         /\ s.state = "occupied" =>
              /\ s \in [state : {"occupied"}, key : Keys, value : StoredValues, ownsKey : BOOLEAN]
              /\ s.key \in Keys /\ s.value \in StoredValues /\ s.value.data \in Values
         /\ s.state # "occupied" => s.ownsKey = FALSE /\ s.value.owned = FALSE
<1>1. CASE s \in {EmptySlot, Tombstone}
  BY <1>1, FreeSlots
<1>2. CASE s \in [state : {"occupied"}, key : Keys, value : StoredValues, ownsKey : BOOLEAN]
  <2>1. PICK v \in Values : s.value = Stored(v)
    BY <1>2 DEF StoredValues
  <2>2. s.value.data = v /\ s.value.owned \in BOOLEAN
    BY <2>1 DEF Stored
  <2>3. s.state = "occupied" /\ s.key \in Keys /\ s.value \in StoredValues /\ s.ownsKey \in BOOLEAN
    BY <1>2
  <2> QED
    BY <1>2, <2>2, <2>3
<1> QED
  BY <1>1, <1>2 DEF Slots

(* What a setter stores. *)
LEMMA OccupiedType ==
  ASSUME NEW k \in Keys, NEW v \in StoredValues, NEW c \in BOOLEAN
  PROVE  /\ Occupied(k, v, c) \in Slots
         /\ Occupied(k, v, c).state = "occupied" /\ Occupied(k, v, c).key = k
         /\ Occupied(k, v, c).value = v
         /\ Occupied(k, v, c).ownsKey = Owns(c, k)
  BY DEF Occupied, Owns, Slots

(* The constants, and that a slot's number is not None. *)
LEMMA Bounds ==
  /\ InitialCapacity \in Nat /\ InitialCapacity > 1 /\ MaxCapacity \in Nat
  /\ None \notin Keys /\ None \notin Values /\ None \notin Nat
  /\ \A k \in Keys : Hash[k] \in Nat
  BY StringMapAssumption

-----------------------------------------------------------------------------
(* Probing.                                                                *)

(* A probe is a slot. *)
LEMMA ProbeType ==
  ASSUME NEW k \in Keys, NEW cap \in Nat \ {0}, NEW n \in Nat
  PROVE  Probe(k, cap, n) \in 0 .. cap - 1
<1>1. Hash[k] + n \in Nat
  BY Bounds
<1> QED
  BY <1>1, DivisionWithRemainder DEF Probe

(* The probes of a round, in terms of the first. *)
LEMMA ProbeRound ==
  ASSUME NEW k \in Keys, NEW cap \in Nat \ {0}, NEW n \in 0 .. cap - 1
  PROVE  LET q == Hash[k] % cap
         IN  /\ q \in 0 .. cap - 1
             /\ Probe(k, cap, n) = IF q + n < cap THEN q + n ELSE q + n - cap
<1> DEFINE h == Hash[k]
           d == h \div cap
           q == h % cap
<1>1. h \in Nat /\ q \in 0 .. cap - 1 /\ d \in Nat /\ h = cap * d + q
  BY Bounds, DivisionWithRemainder
<1> HIDE DEF d, q
<1>2. CASE q + n < cap
  <2>1. q + n \in 0 .. cap - 1 /\ h + n = cap * d + (q + n) /\ h + n \in Nat
    BY <1>1, <1>2
  <2>2. (h + n) % cap = q + n
    BY <1>1, <2>1, RemainderUnique
  <2> QED
    BY <1>1, <1>2, <2>2 DEF Probe, q
<1>3. CASE ~(q + n < cap)
  <2>1. q + n - cap \in 0 .. cap - 1 /\ h + n \in Nat /\ d + 1 \in Nat
    BY <1>1, <1>3
  <2>2. cap * (d + 1) = cap * d + cap
    BY <1>1
  <2>3. h + n = cap * (d + 1) + (q + n - cap)
    BY <1>1, <2>2
  <2>4. (h + n) % cap = q + n - cap
    BY <2>1, <2>3, RemainderUnique
  <2> QED
    BY <1>1, <1>3, <2>4 DEF Probe, q
<1> QED
  BY <1>2, <1>3

(* A round of probes visits every slot, and none twice. *)
LEMMA ProbeBijection ==
  ASSUME NEW k \in Keys, NEW cap \in Nat \ {0}
  PROVE  /\ \A n, m \in 0 .. cap - 1 : Probe(k, cap, n) = Probe(k, cap, m) => n = m
         /\ \A i \in 0 .. cap - 1 : \E n \in 0 .. cap - 1 : Probe(k, cap, n) = i
<1>1. PICK q \in 0 .. cap - 1 :
         \A n \in 0 .. cap - 1 :
            Probe(k, cap, n) = IF q + n < cap THEN q + n ELSE q + n - cap
  <2>1. 0 \in 0 .. cap - 1
    OBVIOUS
  <2> QED
    BY <2>1, ProbeRound
<1>2. \A n, m \in 0 .. cap - 1 : Probe(k, cap, n) = Probe(k, cap, m) => n = m
  <2> SUFFICES ASSUME NEW n \in 0 .. cap - 1, NEW m \in 0 .. cap - 1,
                      Probe(k, cap, n) = Probe(k, cap, m)
               PROVE  n = m
    OBVIOUS
  <2>1. (IF q + n < cap THEN q + n ELSE q + n - cap) = (IF q + m < cap THEN q + m ELSE q + m - cap)
    BY <1>1
  <2> QED
    BY <2>1
<1>3. ASSUME NEW i \in 0 .. cap - 1
      PROVE  \E n \in 0 .. cap - 1 : Probe(k, cap, n) = i
  <2> DEFINE n == IF i >= q THEN i - q ELSE i - q + cap
  <2>1. n \in 0 .. cap - 1 /\ (IF q + n < cap THEN q + n ELSE q + n - cap) = i
    OBVIOUS
  <2> HIDE DEF n
  <2>2. Probe(k, cap, n) = i
    BY <1>1, <2>1
  <2> QED
    BY <2>1, <2>2
<1> QED
  BY <1>2, <1>3

(* The search stops at the first probe that it can stop at, or goes round. *)
LEMMA PassedType ==
  ASSUME NEW cap \in Nat, NEW t, NEW k
  PROVE  /\ Passed(t, cap, k) \in 0 .. cap
         /\ Passed(t, cap, k) = cap \/ Stops(t[Probe(k, cap, Passed(t, cap, k))], k)
         /\ \A m \in 0 .. Passed(t, cap, k) - 1 : ~Stops(t[Probe(k, cap, m)], k)
<1> DEFINE S == {n \in 0 .. cap : n = cap \/ Stops(t[Probe(k, cap, n)], k)}
<1>1. S \subseteq Nat /\ cap \in S
  OBVIOUS
<1>2. PICK n \in S : \A m \in S : n <= m
  <2> HIDE DEF S
  <2> QED
    BY <1>1, LeastNatural
<1>3. /\ n = cap \/ Stops(t[Probe(k, cap, n)], k)
      /\ \A m \in 0 .. n - 1 : ~Stops(t[Probe(k, cap, m)], k)
  BY <1>2
<1> QED
  BY <1>3 DEF Passed

(* A key that is in the table is found where it is. *)
LEMMA FindHeld ==
  ASSUME NEW cap, NEW t, Searchable(t, cap), NEW i \in OccupiedIn(t)
  PROVE  FindIndex(t, cap, t[i].key) = i
<1> DEFINE k == t[i].key
           p == Passed(t, cap, k)
<1>1. cap \in Nat \ {0} /\ i \in 0 .. cap - 1 /\ t[i] \in Slots /\ k \in Keys
      /\ Holds(t[i], k)
  <2>1. /\ cap \in Nat \ {0} /\ i \in 0 .. cap - 1 /\ t[i] \in Slots
        /\ t[i].state = "occupied"
    BY DEF Searchable, OccupiedIn
  <2>2. k \in Keys
    BY <2>1, SlotType
  <2> QED
    BY <2>1, <2>2 DEF Holds
<1>2. PICK n \in 0 .. cap - 1 :
         /\ Probe(k, cap, n) = i
         /\ \A m \in 0 .. n - 1 : t[Probe(k, cap, m)].state # "empty"
  BY DEF Searchable, Reachable
<1>3. /\ p \in 0 .. cap
      /\ p = cap \/ Stops(t[Probe(k, cap, p)], k)
      /\ \A m \in 0 .. p - 1 : ~Stops(t[Probe(k, cap, m)], k)
  BY <1>1, PassedType
<1> HIDE DEF k, p
<1>4. p <= n
  <2>1. Stops(t[Probe(k, cap, n)], k)
    BY <1>1, <1>2 DEF Stops
  <2> QED
    BY <1>2, <1>3, <2>1
<1>5. ASSUME p < n
      PROVE  FALSE
  <2>1. Holds(t[Probe(k, cap, p)], k)
    BY <1>2, <1>3, <1>5 DEF Stops
  <2>2. Probe(k, cap, p) \in OccupiedIn(t)
    <3>1. Probe(k, cap, p) \in 0 .. cap - 1
      BY <1>1, <1>3, ProbeType
    <3>2. DOMAIN t = 0 .. cap - 1
      BY DEF Searchable
    <3> QED
      BY <2>1, <3>1, <3>2 DEF Holds, OccupiedIn
  <2>3. Probe(k, cap, p) = i
    BY <2>1, <2>2 DEF Searchable, Unique, Holds, k
  <2>4. p \in 0 .. cap - 1
    BY <1>1, <1>2, <1>3, <1>5
  <2> QED
    BY <1>1, <1>2, <1>5, <2>3, <2>4, ProbeBijection
<1>6. p = n
  BY <1>2, <1>3, <1>4, <1>5
<1> QED
  BY <1>1, <1>2, <1>6 DEF FindIndex, p, k

(* What is found holds the key. *)
LEMMA FindFound ==
  ASSUME NEW cap, NEW t, Searchable(t, cap), NEW k \in Keys,
         FindIndex(t, cap, k) # None
  PROVE  /\ FindIndex(t, cap, k) \in OccupiedIn(t)
         /\ t[FindIndex(t, cap, k)].key = k
<1> DEFINE p == Passed(t, cap, k)
<1>1. p \in 0 .. cap
  BY PassedType DEF Searchable
<1>2. p < cap /\ Holds(t[Probe(k, cap, p)], k) /\ FindIndex(t, cap, k) = Probe(k, cap, p)
  BY DEF FindIndex
<1> HIDE DEF p
<1>3. Probe(k, cap, p) \in 0 .. cap - 1
  BY <1>1, <1>2, ProbeType DEF Searchable
<1> QED
  BY <1>2, <1>3 DEF Holds, OccupiedIn, Searchable

(* Whether a key is found says whether it is in the table. *)
LEMMA FindNone ==
  ASSUME NEW cap, NEW t, Searchable(t, cap), NEW k \in Keys
  PROVE  FindIndex(t, cap, k) = None <=> \A i \in OccupiedIn(t) : t[i].key # k
<1>1. \A i \in OccupiedIn(t) : i # None
  BY Bounds DEF OccupiedIn, Searchable
<1> QED
  BY <1>1, FindHeld, FindFound

-----------------------------------------------------------------------------
(* Inserting.                                                              *)

(* A new key goes into a slot that is not occupied, past slots that are    *)
(* not empty.                                                              *)
LEMMA InsertPlace ==
  ASSUME NEW cap, NEW t, Searchable(t, cap), NEW k \in Keys,
         \E i \in DOMAIN t : i \notin OccupiedIn(t)
  PROVE  \E n \in 0 .. cap - 1 :
            /\ InsertIndex(t, cap, k) = Probe(k, cap, n)
            /\ Probe(k, cap, n) \in 0 .. cap - 1
            /\ t[Probe(k, cap, n)].state # "occupied"
            /\ \A m \in 0 .. n - 1 : t[Probe(k, cap, m)].state # "empty"
<1> DEFINE p == Passed(t, cap, k)
           past == {n \in 0 .. p - 1 : t[Probe(k, cap, n)].state = "tombstone"}
           free == {n \in 0 .. cap - 1 : t[Probe(k, cap, n)].state # "occupied"}
<1>1. cap \in Nat \ {0} /\ DOMAIN t = 0 .. cap - 1
  BY DEF Searchable
<1>2. p \in 0 .. cap /\ \A m \in 0 .. p - 1 : ~Stops(t[Probe(k, cap, m)], k)
  BY <1>1, PassedType
<1>3. free # {}
  <2>1. PICK i \in 0 .. cap - 1 : t[i].state # "occupied"
    BY <1>1 DEF OccupiedIn
  <2>2. PICK n \in 0 .. cap - 1 : Probe(k, cap, n) = i
    BY <1>1, ProbeBijection
  <2> QED
    BY <2>1, <2>2
<1>4. past \subseteq Nat /\ free \subseteq Nat
  BY <1>1, <1>2
<1>5. InsertIndex(t, cap, k) = Probe(k, cap, Min(IF past # {} THEN past ELSE free))
  BY DEF InsertIndex
<1> HIDE DEF p, past, free
<1>6. CASE past # {}
  <2>1. PICK n \in past : \A m \in past : n <= m
    BY <1>4, <1>6, LeastNatural
  <2>2. Min(past) \in past /\ \A m \in past : Min(past) <= m
    BY <2>1 DEF Min
  <2>3. /\ Min(past) \in 0 .. cap - 1 /\ Min(past) \in 0 .. p - 1
        /\ t[Probe(k, cap, Min(past))].state = "tombstone"
    BY <1>1, <1>2, <2>2 DEF past
  <2>4. \A m \in 0 .. Min(past) - 1 : t[Probe(k, cap, m)].state # "empty"
    BY <1>2, <2>3 DEF Stops
  <2>5. Probe(k, cap, Min(past)) \in 0 .. cap - 1
    BY <1>1, <2>3, ProbeType
  <2> QED
    BY <1>5, <1>6, <2>3, <2>4, <2>5
<1>7. CASE past = {}
  <2>1. PICK n \in free : \A m \in free : n <= m
    BY <1>3, <1>4, LeastNatural
  <2>2. Min(free) \in free /\ \A m \in free : Min(free) <= m
    BY <2>1 DEF Min
  <2>3. /\ Min(free) \in 0 .. cap - 1
        /\ t[Probe(k, cap, Min(free))].state # "occupied"
    BY <2>2 DEF free
  <2>4. \A m \in 0 .. Min(free) - 1 : t[Probe(k, cap, m)].state = "occupied"
    <3> SUFFICES ASSUME NEW m \in 0 .. Min(free) - 1, t[Probe(k, cap, m)].state # "occupied"
                 PROVE  FALSE
      OBVIOUS
    <3>1. m \in 0 .. cap - 1
      BY <1>1, <2>3
    <3>2. m \in free
      BY <3>1 DEF free
    <3> QED
      BY <2>2, <2>3, <3>1, <3>2
  <2>5. Probe(k, cap, Min(free)) \in 0 .. cap - 1
    BY <1>1, <2>3, ProbeType
  <2> QED
    BY <1>5, <1>7, <2>3, <2>4, <2>5
<1> QED
  BY <1>6, <1>7

(* What a table holds: the slots, whatever their places. *)
Contents(t) == {t[i] : i \in OccupiedIn(t)}

(* Disjoint finite sets are counted apart. *)
LEMMA DisjointUnion ==
  ASSUME NEW S, NEW T, IsFiniteSet(S), IsFiniteSet(T), S \cap T = {}
  PROVE  /\ IsFiniteSet(S \cup T)
         /\ Cardinality(S \cup T) = Cardinality(S) + Cardinality(T)
<1>1. /\ IsFiniteSet(S \cup T)
      /\ Cardinality(S \cup T) = Cardinality(S) + Cardinality(T) - Cardinality(S \cap T)
  BY FS_Union
<1>2. Cardinality(S \cap T) = 0
  BY FS_EmptySet
<1>3. Cardinality(S) \in Nat /\ Cardinality(T) \in Nat
  BY FS_CardinalityType
<1> QED
  BY <1>1, <1>2, <1>3

(* A table's slots are finitely many, and so are those of any kind. *)
LEMMA TableFinite ==
  ASSUME NEW cap \in Nat, NEW t \in [0 .. cap - 1 -> Slots]
  PROVE  /\ IsFiniteSet(OccupiedIn(t)) /\ IsFiniteSet(TombstonesIn(t))
         /\ IsFiniteSet(OwnedKeysIn(t)) /\ IsFiniteSet(OwnedValuesIn(t))
         /\ Cardinality(OccupiedIn(t)) \in Nat /\ Cardinality(TombstonesIn(t)) \in Nat
         /\ Cardinality(OwnedKeysIn(t)) \in Nat /\ Cardinality(OwnedValuesIn(t)) \in Nat
         /\ Cardinality(OccupiedIn(t)) + Cardinality(TombstonesIn(t)) <= cap
<1>1. IsFiniteSet(0 .. cap - 1) /\ Cardinality(0 .. cap - 1) = cap
  BY FS_Interval
<1>2. /\ OccupiedIn(t) \subseteq 0 .. cap - 1 /\ TombstonesIn(t) \subseteq 0 .. cap - 1
      /\ OwnedKeysIn(t) \subseteq 0 .. cap - 1 /\ OwnedValuesIn(t) \subseteq 0 .. cap - 1
  BY DEF OccupiedIn, TombstonesIn, OwnedKeysIn, OwnedValuesIn
<1>3. /\ IsFiniteSet(OccupiedIn(t)) /\ IsFiniteSet(TombstonesIn(t))
      /\ IsFiniteSet(OwnedKeysIn(t)) /\ IsFiniteSet(OwnedValuesIn(t))
  BY <1>1, <1>2, FS_Subset
<1>4. OccupiedIn(t) \cap TombstonesIn(t) = {}
  BY DEF OccupiedIn, TombstonesIn
<1>5. /\ IsFiniteSet(OccupiedIn(t) \cup TombstonesIn(t))
      /\ Cardinality(OccupiedIn(t) \cup TombstonesIn(t))
            = Cardinality(OccupiedIn(t)) + Cardinality(TombstonesIn(t))
  BY <1>3, <1>4, DisjointUnion
<1>6. OccupiedIn(t) \cup TombstonesIn(t) \subseteq 0 .. cap - 1
  BY <1>2
<1>7. Cardinality(OccupiedIn(t) \cup TombstonesIn(t)) <= cap
  BY <1>1, <1>6, FS_Subset
<1>8. /\ Cardinality(OccupiedIn(t)) \in Nat /\ Cardinality(TombstonesIn(t)) \in Nat
      /\ Cardinality(OwnedKeysIn(t)) \in Nat /\ Cardinality(OwnedValuesIn(t)) \in Nat
  BY <1>3, FS_CardinalityType
<1> QED
  BY <1>3, <1>5, <1>7, <1>8

(* The table with s in slot i. *)
Put(t, i, s) == [t EXCEPT ![i] = s]

(* How the counts change when one slot does. *)
LEMMA SlotChanges ==
  ASSUME NEW cap \in Nat, NEW t \in [0 .. cap - 1 -> Slots],
         NEW i \in 0 .. cap - 1, NEW s \in Slots
  PROVE  /\ Put(t, i, s) \in [0 .. cap - 1 -> Slots]
         /\ Cardinality(OccupiedIn(Put(t, i, s))) = Cardinality(OccupiedIn(t))
               + One(s.state = "occupied") - One(t[i].state = "occupied")
         /\ Cardinality(TombstonesIn(Put(t, i, s))) = Cardinality(TombstonesIn(t))
               + One(s.state = "tombstone") - One(t[i].state = "tombstone")
         /\ Cardinality(OwnedKeysIn(Put(t, i, s))) = Cardinality(OwnedKeysIn(t))
               + One(s.ownsKey) - One(t[i].ownsKey)
         /\ Cardinality(OwnedValuesIn(Put(t, i, s))) = Cardinality(OwnedValuesIn(t))
               + One(s.value.owned) - One(t[i].value.owned)
<1> DEFINE u == Put(t, i, s)
<1>1. /\ u \in [0 .. cap - 1 -> Slots] /\ DOMAIN u = 0 .. cap - 1 /\ DOMAIN t = 0 .. cap - 1
      /\ u[i] = s /\ \A j \in (0 .. cap - 1) \ {i} : u[j] = t[j]
  BY DEF Put
<1> HIDE DEF u
<1>2. Cardinality(OccupiedIn(u)) = Cardinality(OccupiedIn(t))
        + One(s.state = "occupied") - One(t[i].state = "occupied")
  <2>1. /\ OccupiedIn(t) \ {i} = OccupiedIn(u) \ {i}
        /\ i \in OccupiedIn(t) <=> t[i].state = "occupied"
        /\ i \in OccupiedIn(u) <=> s.state = "occupied"
    BY <1>1 DEF OccupiedIn
  <2>2. Cardinality(OccupiedIn(t)) \in Nat /\ IsFiniteSet(OccupiedIn(t))
    BY TableFinite
  <2> QED
    BY <2>1, <2>2, CardinalityChange DEF One
<1>3. Cardinality(TombstonesIn(u)) = Cardinality(TombstonesIn(t))
        + One(s.state = "tombstone") - One(t[i].state = "tombstone")
  <2>1. /\ TombstonesIn(t) \ {i} = TombstonesIn(u) \ {i}
        /\ i \in TombstonesIn(t) <=> t[i].state = "tombstone"
        /\ i \in TombstonesIn(u) <=> s.state = "tombstone"
    BY <1>1 DEF TombstonesIn
  <2>2. Cardinality(TombstonesIn(t)) \in Nat /\ IsFiniteSet(TombstonesIn(t))
    BY TableFinite
  <2> QED
    BY <2>1, <2>2, CardinalityChange DEF One
<1>4. Cardinality(OwnedKeysIn(u)) = Cardinality(OwnedKeysIn(t))
        + One(s.ownsKey) - One(t[i].ownsKey)
  <2>1. /\ OwnedKeysIn(t) \ {i} = OwnedKeysIn(u) \ {i}
        /\ i \in OwnedKeysIn(t) <=> t[i].ownsKey
        /\ i \in OwnedKeysIn(u) <=> s.ownsKey
    BY <1>1 DEF OwnedKeysIn
  <2>2. Cardinality(OwnedKeysIn(t)) \in Nat /\ IsFiniteSet(OwnedKeysIn(t))
    BY TableFinite
  <2> QED
    BY <2>1, <2>2, CardinalityChange DEF One
<1>5. Cardinality(OwnedValuesIn(u)) = Cardinality(OwnedValuesIn(t))
        + One(s.value.owned) - One(t[i].value.owned)
  <2>1. /\ OwnedValuesIn(t) \ {i} = OwnedValuesIn(u) \ {i}
        /\ i \in OwnedValuesIn(t) <=> t[i].value.owned
        /\ i \in OwnedValuesIn(u) <=> s.value.owned
    BY <1>1 DEF OwnedValuesIn
  <2>2. Cardinality(OwnedValuesIn(t)) \in Nat /\ IsFiniteSet(OwnedValuesIn(t))
    BY TableFinite
  <2> QED
    BY <2>1, <2>2, CardinalityChange DEF One
<1> QED
  BY <1>1, <1>2, <1>3, <1>4, <1>5 DEF u

(* A table that a new key is inserted into can be searched, and holds what *)
(* it held and the new slot.                                               *)
LEMMA InsertSearchable ==
  ASSUME NEW cap, NEW t, Searchable(t, cap),
         NEW s \in Slots, s.state = "occupied",
         \A i \in OccupiedIn(t) : t[i].key # s.key,
         \E i \in DOMAIN t : i \notin OccupiedIn(t)
  PROVE  /\ InsertIndex(t, cap, s.key) \in 0 .. cap - 1
         /\ t[InsertIndex(t, cap, s.key)].state # "occupied"
         /\ Searchable(Put(t, InsertIndex(t, cap, s.key), s), cap)
         /\ Contents(Put(t, InsertIndex(t, cap, s.key), s)) = Contents(t) \cup {s}
<1> DEFINE i == InsertIndex(t, cap, s.key)
           u == Put(t, i, s)
<1> HIDE DEF u
<1>0. s.key \in Keys
  BY SlotType
<1>1. PICK n \in 0 .. cap - 1 :
         /\ i = Probe(s.key, cap, n)
         /\ i \in 0 .. cap - 1
         /\ t[i].state # "occupied"
         /\ \A m \in 0 .. n - 1 : t[Probe(s.key, cap, m)].state # "empty"
  BY <1>0, InsertPlace
<1> HIDE DEF i
<1>2. /\ cap \in Nat \ {0} /\ t \in [0 .. cap - 1 -> Slots] /\ u \in [0 .. cap - 1 -> Slots]
      /\ u[i] = s /\ \A j \in (0 .. cap - 1) \ {i} : u[j] = t[j]
  BY <1>1 DEF Searchable, Put, u
<1>3. OccupiedIn(u) = OccupiedIn(t) \cup {i} /\ i \notin OccupiedIn(t)
  BY <1>1, <1>2 DEF OccupiedIn
<1>4. \A j \in OccupiedIn(t) : u[j] = t[j] /\ j \in 0 .. cap - 1
  BY <1>2, <1>3 DEF OccupiedIn
<1>5. \A j \in 0 .. cap - 1 : t[j].state # "empty" => u[j].state # "empty"
  BY <1>2
<1>6. Reachable(u, cap)
  <2>1. \A k \in Keys, m \in 0 .. cap - 1 :
           /\ Probe(k, cap, m) \in 0 .. cap - 1
           /\ t[Probe(k, cap, m)].state # "empty" => u[Probe(k, cap, m)].state # "empty"
    <3>1. cap \in Nat \ {0}
      BY <1>2
    <3>2. ASSUME NEW k \in Keys, NEW m \in 0 .. cap - 1
          PROVE  Probe(k, cap, m) \in 0 .. cap - 1
      BY <3>1, ProbeType
    <3> QED
      BY <1>5, <3>2
  <2>2. \E l \in 0 .. cap - 1 :
           /\ Probe(u[i].key, cap, l) = i
           /\ \A m \in 0 .. l - 1 : u[Probe(u[i].key, cap, m)].state # "empty"
    <3>1. \A m \in 0 .. n - 1 : m \in 0 .. cap - 1
      BY <1>2
    <3> QED
      BY <1>0, <1>1, <1>2, <2>1, <3>1
  <2>3. ASSUME NEW j \in OccupiedIn(t)
        PROVE  \E l \in 0 .. cap - 1 :
                 /\ Probe(u[j].key, cap, l) = j
                 /\ \A m \in 0 .. l - 1 : u[Probe(u[j].key, cap, m)].state # "empty"
    <3>1. u[j].key = t[j].key /\ t[j].key \in Keys
      BY <1>2, <1>4, SlotType DEF OccupiedIn
    <3>2. PICK l \in 0 .. cap - 1 :
             /\ Probe(t[j].key, cap, l) = j
             /\ \A m \in 0 .. l - 1 : t[Probe(t[j].key, cap, m)].state # "empty"
      BY DEF Searchable, Reachable
    <3>3. \A m \in 0 .. l - 1 : m \in 0 .. cap - 1
      BY <1>2
    <3> QED
      BY <2>1, <3>1, <3>2, <3>3
  <2> QED
    BY <1>3, <2>2, <2>3 DEF Reachable
<1>7. Unique(u)
  BY <1>2, <1>3, <1>4 DEF Unique, Searchable
<1>8. Contents(u) = Contents(t) \cup {s}
  BY <1>2, <1>3, <1>4 DEF Contents
<1> QED
  BY <1>1, <1>2, <1>3, <1>6, <1>7, <1>8 DEF Searchable, i, u

-----------------------------------------------------------------------------
(* Rehashing.                                                              *)

(* A new table is empty. *)
LEMMA EmptyTableType ==
  ASSUME NEW cap \in Nat
  PROVE  /\ Searchable(EmptyTable(cap), cap)
         /\ Contents(EmptyTable(cap)) = {}
         /\ Cardinality(OccupiedIn(EmptyTable(cap))) = 0
         /\ Cardinality(TombstonesIn(EmptyTable(cap))) = 0
         /\ Cardinality(OwnedKeysIn(EmptyTable(cap))) = 0
         /\ Cardinality(OwnedValuesIn(EmptyTable(cap))) = 0
<1> DEFINE t == EmptyTable(cap)
<1>1. t \in [0 .. cap - 1 -> Slots] /\ \A i \in DOMAIN t : t[i] = EmptySlot
  BY FreeSlots DEF EmptyTable
<1> HIDE DEF t
<1>2. OccupiedIn(t) = {} /\ TombstonesIn(t) = {} /\ OwnedKeysIn(t) = {} /\ OwnedValuesIn(t) = {}
  BY <1>1, FreeSlots DEF OccupiedIn, TombstonesIn, OwnedKeysIn, OwnedValuesIn
<1>3. Searchable(t, cap) /\ Contents(t) = {}
  BY <1>1, <1>2 DEF Searchable, Reachable, Unique, Contents
<1> QED
  BY <1>2, <1>3, FS_EmptySet DEF t

(* The old slots that the loop of string_map_rehash has seen after n. *)
Below(n) == {j \in OccupiedIn(slots) : j < n}

(* What the new table holds then. *)
Copied(n, t, cap) ==
    /\ Searchable(t, cap)
    /\ Contents(t) = {slots[j] : j \in Below(n)}
    /\ Cardinality(OccupiedIn(t)) = Cardinality(Below(n))
    /\ Cardinality(TombstonesIn(t)) = 0
    /\ Cardinality(OwnedKeysIn(t)) = Cardinality({j \in Below(n) : slots[j].ownsKey})
    /\ Cardinality(OwnedValuesIn(t)) = Cardinality({j \in Below(n) : slots[j].value.owned})

(* The loop copies one slot more. *)
LEMMA CopyOne ==
  ASSUME Searchable(slots, capacity), NEW cap \in Nat,
         Cardinality(OccupiedIn(slots)) <= cap,
         NEW n \in 0 .. capacity - 1, NEW t, Copied(n, t, cap),
         slots[n].state = "occupied"
  PROVE  Copied(n + 1, Reinsert(t, cap, slots[n]), cap)
<1>0. PICK s \in Slots : s = slots[n]
  BY DEF Searchable
<1> DEFINE i == InsertIndex(t, cap, s.key)
           u == Put(t, i, s)
<1> HIDE DEF u, i
<1>1. /\ capacity \in Nat /\ slots \in [0 .. capacity - 1 -> Slots] /\ s = slots[n]
      /\ n \in OccupiedIn(slots) /\ n \in Nat /\ s.state = "occupied"
  BY <1>0 DEF Searchable, OccupiedIn
<1>2. /\ IsFiniteSet(OccupiedIn(slots)) /\ Cardinality(OccupiedIn(slots)) \in Nat
  BY <1>1, TableFinite
<1>3. /\ Below(n + 1) = Below(n) \cup {n} /\ n \notin Below(n)
      /\ Below(n) \subseteq OccupiedIn(slots)
      /\ IsFiniteSet(Below(n)) /\ Cardinality(Below(n)) \in Nat
  <2>1. Below(n + 1) = Below(n) \cup {n} /\ n \notin Below(n)
    <3>1. \A j \in OccupiedIn(slots) : j \in Nat
      BY <1>1 DEF OccupiedIn
    <3>2. \A j \in Nat : j < n + 1 <=> j < n \/ j = n
      BY <1>1
    <3>3. ~(n < n) /\ n < n + 1
      BY <1>1
    <3> QED
      BY <1>1, <3>1, <3>2, <3>3 DEF Below
  <2>2. Below(n) \subseteq OccupiedIn(slots)
    BY DEF Below
  <2> QED
    BY <1>2, <2>1, <2>2, FS_Subset, FS_CardinalityType
<1>4. \A j \in OccupiedIn(t) : t[j].key # s.key
  <2> SUFFICES ASSUME NEW j \in OccupiedIn(t), t[j].key = s.key
               PROVE  FALSE
    OBVIOUS
  <2>1. t[j] \in Contents(t)
    BY DEF Contents
  <2>2. PICK l \in Below(n) : t[j] = slots[l]
    BY <2>1 DEF Copied
  <2>3. l = n
    BY <1>1, <1>3, <2>2 DEF Searchable, Unique
  <2> QED
    BY <1>3, <2>2, <2>3
<1>5. \E j \in DOMAIN t : j \notin OccupiedIn(t)
  <2> SUFFICES ASSUME OccupiedIn(t) = DOMAIN t
               PROVE  FALSE
    BY DEF OccupiedIn
  <2>1. DOMAIN t = 0 .. cap - 1
    BY DEF Copied, Searchable
  <2>2. Cardinality(OccupiedIn(t)) = cap
    BY <2>1, FS_Interval
  <2>3. Cardinality(Below(n)) <= Cardinality(OccupiedIn(slots))
        /\ (Cardinality(Below(n)) = Cardinality(OccupiedIn(slots)) => OccupiedIn(slots) = Below(n))
    BY <1>2, <1>3, FS_Subset
  <2>4. Cardinality(Below(n)) = cap
    BY <2>2 DEF Copied
  <2> QED
    BY <1>1, <1>2, <1>3, <2>3, <2>4
<1>6. /\ i \in 0 .. cap - 1 /\ t[i].state # "occupied"
      /\ Searchable(u, cap)
      /\ Contents(u) = Contents(t) \cup {s}
  <2>1. Searchable(t, cap) /\ s \in Slots /\ s.state = "occupied"
    BY <1>1 DEF Copied
  <2> QED
    BY <1>4, <1>5, <2>1, InsertSearchable DEF i, u
<1>7. t \in [0 .. cap - 1 -> Slots] /\ t[i] \in Slots
  BY <1>6 DEF Copied, Searchable
<1>8. t[i].state # "tombstone"
  <2>1. TombstonesIn(t) = {}
    BY <1>7, TableFinite, FS_EmptySet DEF Copied
  <2> QED
    BY <1>6, <1>7, <2>1 DEF TombstonesIn
<1>9. /\ Cardinality(OccupiedIn(u)) = Cardinality(OccupiedIn(t)) + 1
      /\ Cardinality(TombstonesIn(u)) = 0
      /\ Cardinality(OwnedKeysIn(u)) = Cardinality(OwnedKeysIn(t)) + One(s.ownsKey)
      /\ Cardinality(OwnedValuesIn(u)) = Cardinality(OwnedValuesIn(t)) + One(s.value.owned)
  <2>1. /\ Cardinality(OccupiedIn(u)) = Cardinality(OccupiedIn(t))
              + One(s.state = "occupied") - One(t[i].state = "occupied")
        /\ Cardinality(TombstonesIn(u)) = Cardinality(TombstonesIn(t))
              + One(s.state = "tombstone") - One(t[i].state = "tombstone")
        /\ Cardinality(OwnedKeysIn(u)) = Cardinality(OwnedKeysIn(t))
              + One(s.ownsKey) - One(t[i].ownsKey)
        /\ Cardinality(OwnedValuesIn(u)) = Cardinality(OwnedValuesIn(t))
              + One(s.value.owned) - One(t[i].value.owned)
    <3> QED
      BY <1>6, <1>7, SlotChanges DEF u
  <2>2. /\ One(s.state = "occupied") = 1 /\ One(t[i].state = "occupied") = 0
        /\ One(s.state = "tombstone") = 0 /\ One(t[i].state = "tombstone") = 0
        /\ One(t[i].ownsKey) = 0 /\ One(t[i].value.owned) = 0
        /\ One(s.ownsKey) \in Nat /\ One(s.value.owned) \in Nat
    <3>1. t[i].ownsKey = FALSE /\ t[i].value.owned = FALSE
      BY <1>6, <1>7, SlotType
    <3>2. s.ownsKey \in BOOLEAN /\ s.value.owned \in BOOLEAN
      BY SlotType
    <3> QED
      BY <1>1, <1>6, <1>8, <3>1, <3>2 DEF One
  <2>3. /\ Cardinality(OccupiedIn(t)) \in Nat /\ Cardinality(TombstonesIn(t)) = 0
        /\ Cardinality(OwnedKeysIn(t)) \in Nat /\ Cardinality(OwnedValuesIn(t)) \in Nat
    BY <1>7, TableFinite DEF Copied
  <2> QED
    BY <2>1, <2>2, <2>3
<1>10. Cardinality(Below(n + 1)) = Cardinality(Below(n)) + 1
  BY <1>3, FS_AddElement
<1>11. Cardinality({j \in Below(n + 1) : slots[j].ownsKey})
         = Cardinality({j \in Below(n) : slots[j].ownsKey}) + One(s.ownsKey)
  <2> DEFINE A == {j \in Below(n) : slots[j].ownsKey}
             B == {j \in Below(n + 1) : slots[j].ownsKey}
  <2>1. A \ {n} = B \ {n} /\ n \notin A /\ (n \in B <=> s.ownsKey) /\ IsFiniteSet(A)
    BY <1>1, <1>3, FS_Subset
  <2> HIDE DEF A, B
  <2>2. Cardinality(B) = Cardinality(A) + One(s.ownsKey)
    BY <2>1, CardinalityChange DEF One
  <2> QED
    BY <2>2 DEF A, B
<1>12. Cardinality({j \in Below(n + 1) : slots[j].value.owned})
         = Cardinality({j \in Below(n) : slots[j].value.owned}) + One(s.value.owned)
  <2> DEFINE A == {j \in Below(n) : slots[j].value.owned}
             B == {j \in Below(n + 1) : slots[j].value.owned}
  <2>1. A \ {n} = B \ {n} /\ n \notin A /\ (n \in B <=> s.value.owned) /\ IsFiniteSet(A)
    BY <1>1, <1>3, FS_Subset
  <2> HIDE DEF A, B
  <2>2. Cardinality(B) = Cardinality(A) + One(s.value.owned)
    BY <2>1, CardinalityChange DEF One
  <2> QED
    BY <2>2 DEF A, B
<1>13. Contents(u) = {slots[j] : j \in Below(n + 1)}
  BY <1>1, <1>3, <1>6 DEF Copied
<1>14. Copied(n + 1, u, cap)
  BY <1>6, <1>9, <1>10, <1>11, <1>12, <1>13 DEF Copied
<1> QED
  BY <1>1, <1>14 DEF Reinsert, Put, u, i

(* The rehashed table holds what the old one held, and no tombstones.      *)
LEMMA RehashCopies ==
  ASSUME Searchable(slots, capacity), NEW cap \in Nat,
         Cardinality(OccupiedIn(slots)) <= cap
  PROVE  /\ Searchable(Rehashed(cap), cap)
         /\ Contents(Rehashed(cap)) = Contents(slots)
         /\ Cardinality(OccupiedIn(Rehashed(cap))) = Cardinality(OccupiedIn(slots))
         /\ Cardinality(TombstonesIn(Rehashed(cap))) = 0
         /\ Cardinality(OwnedKeysIn(Rehashed(cap))) = Cardinality(OwnedKeysIn(slots))
         /\ Cardinality(OwnedValuesIn(Rehashed(cap))) = Cardinality(OwnedValuesIn(slots))
<1> DEFINE V == [0 .. cap - 1 -> Slots]
           Then(n, t) == IF slots[n - 1].state = "occupied" THEN Reinsert(t, cap, slots[n - 1])
                         ELSE t
           IsCopy(g) == g = [n \in 0 .. capacity |->
                               IF n = 0 THEN EmptyTable(cap)
                               ELSE IF slots[n - 1].state = "occupied"
                                    THEN Reinsert(g[n - 1], cap, slots[n - 1])
                                    ELSE g[n - 1]]
<1>1. /\ capacity \in Nat /\ slots \in [0 .. capacity - 1 -> Slots]
      /\ EmptyTable(cap) \in V
  BY EmptyTableType DEF Searchable
<1>2. ASSUME NEW n \in 1 .. capacity, NEW t \in V
      PROVE  Then(n, t) \in V
  <2>1. slots[n - 1] \in Slots
    BY <1>1
  <2> QED
    BY <2>1 DEF Reinsert
<1>3. \E g : IsCopy(g)
  <2> DEFINE step == [n \in 1 .. capacity |-> [t \in V |-> Then(n, t)]]
  <2>1. step \in [1 .. capacity -> [V -> V]]
    BY <1>2
  <2>2. \A n \in 1 .. capacity : \A t \in V : step[n][t] = Then(n, t)
    OBVIOUS
  <2> HIDE DEF step, V
  <2>3. PICK g \in [0 .. capacity -> V] :
           Recursive(g, capacity, EmptyTable(cap), step)
    <3>1. PICK N \in Nat, base \in V : N = capacity /\ base = EmptyTable(cap)
      BY <1>1
    <3>2. step \in [1 .. N -> [V -> V]]
      BY <2>1, <3>1
    <3>3. \E g \in [0 .. N -> V] : Recursive(g, N, base, step)
      BY <3>2, IntervalRecursion
    <3> QED
      BY <3>1, <3>3
  <2>4. g[0] = EmptyTable(cap) /\ \A n \in 1 .. capacity : g[n] = Then(n, g[n - 1])
    <3>1. \A n \in 1 .. capacity : g[n - 1] \in V
      BY <1>1
    <3> QED
      BY <2>2, <2>3, <3>1 DEF Recursive
  <2>5. g = [n \in 0 .. capacity |-> IF n = 0 THEN EmptyTable(cap) ELSE Then(n, g[n - 1])]
    <3> DEFINE h == [n \in 0 .. capacity |-> IF n = 0 THEN EmptyTable(cap) ELSE Then(n, g[n - 1])]
    <3> HIDE DEF Then
    <3>1. \A n \in 0 .. capacity : g[n] = h[n]
      BY <1>1, <2>4
    <3> QED
      BY <2>3, <3>1
  <2> QED
    BY <2>5
<1>4. PICK g : IsCopy(g) /\ Rehashed(cap) = g[capacity]
  BY <1>3 DEF Rehashed
<1>5. /\ g[0] = EmptyTable(cap)
      /\ \A n \in 1 .. capacity : g[n] = Then(n, g[n - 1])
  <2>1. g = [n \in 0 .. capacity |-> IF n = 0 THEN EmptyTable(cap) ELSE Then(n, g[n - 1])]
    BY <1>4
  <2>2. g[0] = EmptyTable(cap)
    BY <1>1, <2>1
  <2> HIDE DEF Then
  <2>3. ASSUME NEW n \in 1 .. capacity
        PROVE  g[n] = Then(n, g[n - 1])
    <3>1. n \in 0 .. capacity /\ n # 0
      BY <1>1
    <3> QED
      BY <2>1, <3>1
  <2> QED
    BY <2>2, <2>3
<1> HIDE DEF IsCopy
<1> DEFINE S == {n \in 0 .. capacity : Copied(n, g[n], cap)}
<1>6. 0 \in S
  <2>1. Below(0) = {}
    BY <1>1 DEF Below, OccupiedIn
  <2>2. Copied(0, EmptyTable(cap), cap)
    BY <2>1, EmptyTableType, FS_EmptySet DEF Copied
  <2> QED
    BY <1>1, <1>5, <2>2
<1>7. ASSUME NEW n \in 0 .. capacity - 1, n \in S
      PROVE  n + 1 \in S
  <2>1. n + 1 \in 1 .. capacity /\ n + 1 \in 0 .. capacity /\ (n + 1) - 1 = n
    BY <1>1
  <2>2. g[n + 1] = Then(n + 1, g[n])
    BY <1>5, <2>1
  <2>3. CASE slots[n].state = "occupied"
    <3>1. Copied(n + 1, Reinsert(g[n], cap, slots[n]), cap)
      BY <1>7, <2>3, CopyOne
    <3> QED
      BY <2>1, <2>2, <2>3, <3>1
  <2>4. CASE slots[n].state # "occupied"
    <3>1. Below(n + 1) = Below(n)
      <4>1. \A j \in OccupiedIn(slots) : j \in Nat /\ j # n
        BY <1>1, <2>4 DEF OccupiedIn
      <4>2. \A j \in Nat : j < n + 1 <=> j < n \/ j = n
        BY <2>1
      <4> QED
        BY <4>1, <4>2 DEF Below
    <3>2. Copied(n + 1, g[n], cap)
      BY <1>7, <3>1 DEF Copied
    <3> QED
      BY <2>1, <2>2, <2>4, <3>2
  <2> QED
    BY <2>3, <2>4
<1>8. Copied(capacity, g[capacity], cap)
  <2> HIDE DEF S
  <2>1. 0 .. capacity \subseteq S
    BY <1>1, <1>6, <1>7, IntervalInduction
  <2>2. capacity \in S
    BY <1>1, <2>1
  <2> QED
    BY <2>2 DEF S
<1>9. Below(capacity) = OccupiedIn(slots)
  BY <1>1 DEF Below, OccupiedIn
<1>10. /\ OwnedKeysIn(slots) = {j \in OccupiedIn(slots) : slots[j].ownsKey}
       /\ OwnedValuesIn(slots) = {j \in OccupiedIn(slots) : slots[j].value.owned}
  BY <1>1, SlotType DEF OwnedKeysIn, OwnedValuesIn, OccupiedIn
<1> QED
  BY <1>4, <1>8, <1>9, <1>10 DEF Copied, Contents

-----------------------------------------------------------------------------
(* What a lookup finds.                                                    *)

(* The value that a lookup of k finds in a table. *)
ValueIn(t, cap, k) ==
    LET i == IF cap = 0 THEN None ELSE FindIndex(t, cap, k)
    IN  IF i = None THEN None ELSE t[i].value.data

(* A lookup finds the value of the slot that holds the key, if there is    *)
(* one, and nothing otherwise.                                             *)
LEMMA ValueFound ==
  ASSUME NEW cap, NEW t, Searchable(t, cap), NEW k \in Keys
  PROVE  /\ ValueIn(t, cap, k) \in Values \cup {None}
         /\ \A s \in Contents(t) : s.key = k => ValueIn(t, cap, k) = s.value.data
         /\ (\A s \in Contents(t) : s.key # k) => ValueIn(t, cap, k) = None
<1>1. cap \in Nat /\ DOMAIN t = 0 .. cap - 1 /\ t \in [0 .. cap - 1 -> Slots]
  BY DEF Searchable
<1>2. ASSUME NEW i \in OccupiedIn(t), t[i].key = k
      PROVE  ValueIn(t, cap, k) = t[i].value.data /\ t[i].value.data \in Values
  <2>1. cap # 0 /\ i # None /\ t[i] \in Slots /\ t[i].state = "occupied"
    BY <1>1, Bounds DEF OccupiedIn
  <2>2. FindIndex(t, cap, k) = i
    BY <1>2, FindHeld
  <2>3. t[i].value.data \in Values
    BY <2>1, SlotType
  <2> QED
    BY <2>1, <2>2, <2>3 DEF ValueIn
<1>3. ASSUME \A i \in OccupiedIn(t) : t[i].key # k
      PROVE  ValueIn(t, cap, k) = None
  BY <1>3, FindNone DEF ValueIn
<1> QED
  BY <1>2, <1>3 DEF Contents

(* Tables that hold a key alike find the same value for it. *)
LEMMA SameValue ==
  ASSUME NEW c, NEW t, Searchable(t, c), NEW d, NEW u, Searchable(u, d), NEW k \in Keys,
         \A s : s.key = k => (s \in Contents(t) <=> s \in Contents(u))
  PROVE  ValueIn(t, c, k) = ValueIn(u, d, k)
<1>1. CASE \E s \in Contents(t) : s.key = k
  BY <1>1, ValueFound
<1>2. CASE \A s \in Contents(t) : s.key # k
  <2>1. \A s \in Contents(u) : s.key # k
    BY <1>2
  <2> QED
    BY <1>2, <2>1, ValueFound
<1> QED
  BY <1>1, <1>2

-----------------------------------------------------------------------------
(* Operations.                                                             *)

(* An operation on the key k leaves the other keys alone. *)
OnlyKey(k) == \A s : s.key # k => (s \in Contents(slots') <=> s \in Contents(slots))

(* It leaves the key with the value v, or takes the key away. *)
Holding(k, v) == \E s \in Contents(slots') : s.key = k /\ s.value = v

TakenAway(k) ==
    /\ \E s \in Contents(slots) : s.key = k
    /\ \A s \in Contents(slots') : s.key # k

(* What the invariant says of the table, with types. *)
LEMMA Known ==
  ASSUME IInv
  PROVE  /\ Searchable(slots, capacity) /\ capacity \in Nat /\ capacity <= MaxCapacity
         /\ slots \in [0 .. capacity - 1 -> Slots] /\ DOMAIN slots = 0 .. capacity - 1
         /\ length \in Nat /\ tombstones \in Nat /\ heap \in Nat
         /\ Cardinality(OwnedKeysIn(slots)) \in Nat
         /\ Cardinality(OwnedValuesIn(slots)) \in Nat
         /\ AllReleased = Cardinality(OwnedKeysIn(slots)) + Cardinality(OwnedValuesIn(slots))
         /\ One(capacity # 0) \in Nat
<1>1. /\ Searchable(slots, capacity) /\ capacity \in Nat /\ capacity <= MaxCapacity
      /\ slots \in [0 .. capacity - 1 -> Slots]
  BY Bounds DEF IInv, Searchable
<1>2. /\ Cardinality(OccupiedIn(slots)) \in Nat /\ Cardinality(TombstonesIn(slots)) \in Nat
      /\ Cardinality(OwnedKeysIn(slots)) \in Nat
      /\ Cardinality(OwnedValuesIn(slots)) \in Nat
  BY <1>1, TableFinite
<1>3. One(capacity # 0) \in Nat
  BY DEF One
<1>4. AllReleased = Cardinality(OwnedKeysIn(slots)) + Cardinality(OwnedValuesIn(slots))
  BY DEF AllReleased, OwnedKeysIn, OwnedValuesIn
<1> QED
  BY <1>1, <1>2, <1>3, <1>4 DEF IInv

(* While there is room, some slot is neither occupied nor a tombstone. *)
LEMMA EmptySlotLeft ==
  ASSUME IInv, capacity # 0
  PROVE  \E i \in DOMAIN slots : slots[i].state = "empty"
<1> SUFFICES ASSUME \A i \in DOMAIN slots : slots[i].state # "empty"
             PROVE  FALSE
  OBVIOUS
<1>1. capacity \in Nat /\ slots \in [0 .. capacity - 1 -> Slots] /\ DOMAIN slots = 0 .. capacity - 1
  BY Known
<1>2. OccupiedIn(slots) \cup TombstonesIn(slots) = 0 .. capacity - 1
      /\ OccupiedIn(slots) \cap TombstonesIn(slots) = {}
  BY <1>1, SlotType DEF OccupiedIn, TombstonesIn
<1>3. /\ IsFiniteSet(OccupiedIn(slots)) /\ IsFiniteSet(TombstonesIn(slots))
      /\ Cardinality(OccupiedIn(slots)) \in Nat /\ Cardinality(TombstonesIn(slots)) \in Nat
  BY <1>1, TableFinite
<1>4. Cardinality(0 .. capacity - 1) = Cardinality(OccupiedIn(slots)) + Cardinality(TombstonesIn(slots))
  <2>1. PICK A, B : A = OccupiedIn(slots) /\ B = TombstonesIn(slots)
    OBVIOUS
  <2>2. /\ IsFiniteSet(A) /\ IsFiniteSet(B) /\ A \cap B = {} /\ A \cup B = 0 .. capacity - 1
        /\ Cardinality(A) \in Nat /\ Cardinality(B) \in Nat
    BY <1>2, <1>3, <2>1
  <2>3. Cardinality(A \cup B) = Cardinality(A) + Cardinality(B) - Cardinality(A \cap B)
    BY <2>2, FS_Union
  <2>4. Cardinality(A \cap B) = 0
    BY <2>2, FS_EmptySet
  <2>5. Cardinality(A \cup B) = Cardinality(A) + Cardinality(B)
    BY <2>2, <2>3, <2>4
  <2> QED
    BY <2>1, <2>2, <2>5
<1>5. Cardinality(0 .. capacity - 1) = capacity
  BY <1>1, FS_Interval
<1> QED
  BY <1>1, <1>3, <1>4, <1>5 DEF IInv

(* A slot whose value is replaced, or whose key is removed, keeps what the *)
(* others need.                                                            *)
LEMMA PutSearchable ==
  ASSUME NEW cap, NEW t, Searchable(t, cap), NEW i \in OccupiedIn(t), NEW s \in Slots,
         s.state = "tombstone" \/ (s.state = "occupied" /\ s.key = t[i].key)
  PROVE  /\ Searchable(Put(t, i, s), cap)
         /\ \A x : x.key # t[i].key => (x \in Contents(Put(t, i, s)) <=> x \in Contents(t))
         /\ s.state = "occupied" => s \in Contents(Put(t, i, s))
         /\ s.state = "tombstone" => \A x \in Contents(Put(t, i, s)) : x.key # t[i].key
<1> DEFINE u == Put(t, i, s)
<1>1. /\ cap \in Nat \ {0} /\ t \in [0 .. cap - 1 -> Slots] /\ i \in 0 .. cap - 1
      /\ u \in [0 .. cap - 1 -> Slots] /\ DOMAIN u = 0 .. cap - 1 /\ DOMAIN t = 0 .. cap - 1
      /\ u[i] = s /\ \A j \in (0 .. cap - 1) \ {i} : u[j] = t[j]
  BY DEF Searchable, Put, OccupiedIn
<1> HIDE DEF u
<1>2. \A j \in OccupiedIn(u) : j \in OccupiedIn(t) /\ u[j].key = t[j].key
  BY <1>1 DEF OccupiedIn
<1>3. \A j \in 0 .. cap - 1 : t[j].state # "empty" => u[j].state # "empty"
  BY <1>1
<1>4. Reachable(u, cap)
  <2> SUFFICES ASSUME NEW j \in OccupiedIn(u)
               PROVE  \E n \in 0 .. cap - 1 :
                        /\ Probe(u[j].key, cap, n) = j
                        /\ \A m \in 0 .. n - 1 : u[Probe(u[j].key, cap, m)].state # "empty"
    BY DEF Reachable
  <2>1. j \in OccupiedIn(t) /\ u[j].key = t[j].key
    BY <1>2
  <2>2. t[j].key \in Keys
    BY <1>1, <2>1, SlotType DEF OccupiedIn
  <2>3. PICK n \in 0 .. cap - 1 :
           /\ Probe(t[j].key, cap, n) = j
           /\ \A m \in 0 .. n - 1 : t[Probe(t[j].key, cap, m)].state # "empty"
    BY <2>1 DEF Searchable, Reachable
  <2>4. \A m \in 0 .. n - 1 : Probe(t[j].key, cap, m) \in 0 .. cap - 1
    <3>1. \A m \in 0 .. n - 1 : m \in Nat
      BY <1>1
    <3> QED
      BY <1>1, <2>2, <3>1, ProbeType
  <2> QED
    BY <1>3, <2>1, <2>3, <2>4
<1>5. Unique(u)
  BY <1>2 DEF Unique, Searchable
<1>6. ASSUME NEW x, x.key # t[i].key
      PROVE  x \in Contents(u) <=> x \in Contents(t)
  <2>1. \A j \in OccupiedIn(t) \ {i} : j \in OccupiedIn(u) /\ u[j] = t[j]
    BY <1>1 DEF OccupiedIn
  <2>2. \A j \in OccupiedIn(u) \ {i} : j \in OccupiedIn(t) /\ u[j] = t[j]
    BY <1>1 DEF OccupiedIn
  <2>3. i \in OccupiedIn(u) => u[i].key = t[i].key
    BY <1>2
  <2> QED
    BY <1>6, <2>1, <2>2, <2>3 DEF Contents
<1>7. s.state = "occupied" => s \in Contents(u)
  BY <1>1 DEF Contents, OccupiedIn
<1>8. ASSUME s.state = "tombstone", NEW x \in Contents(u)
      PROVE  x.key # t[i].key
  <2>1. PICK j \in OccupiedIn(u) : x = u[j]
    BY DEF Contents
  <2>2. j # i
    BY <1>1, <1>8, <2>1 DEF OccupiedIn
  <2> QED
    BY <1>2, <2>1, <2>2 DEF Searchable, Unique
<1> QED
  BY <1>1, <1>4, <1>5, <1>6, <1>7, <1>8 DEF Searchable, u

(* How the counts of the map change when one of its slots does. *)
LEMMA SlotChanged ==
  ASSUME IInv, NEW i \in 0 .. capacity - 1, NEW s \in Slots, slots' = Put(slots, i, s)
  PROVE  /\ Cardinality(OccupiedIn(slots')) = length
               + One(s.state = "occupied") - One(slots[i].state = "occupied")
         /\ Cardinality(TombstonesIn(slots')) = tombstones
               + One(s.state = "tombstone") - One(slots[i].state = "tombstone")
         /\ Cardinality(OwnedKeysIn(slots')) = Cardinality(OwnedKeysIn(slots))
               + One(s.ownsKey) - One(slots[i].ownsKey)
         /\ Cardinality(OwnedValuesIn(slots')) = Cardinality(OwnedValuesIn(slots))
               + One(s.value.owned) - One(slots[i].value.owned)
<1>0. PICK cap \in Nat : cap = capacity
  BY Known
<1>1. PICK t \in [0 .. cap - 1 -> Slots] : t = slots
  BY <1>0, Known
<1>2. /\ Cardinality(OccupiedIn(Put(t, i, s))) = Cardinality(OccupiedIn(t))
            + One(s.state = "occupied") - One(t[i].state = "occupied")
      /\ Cardinality(TombstonesIn(Put(t, i, s))) = Cardinality(TombstonesIn(t))
            + One(s.state = "tombstone") - One(t[i].state = "tombstone")
      /\ Cardinality(OwnedKeysIn(Put(t, i, s))) = Cardinality(OwnedKeysIn(t))
            + One(s.ownsKey) - One(t[i].ownsKey)
      /\ Cardinality(OwnedValuesIn(Put(t, i, s))) = Cardinality(OwnedValuesIn(t))
            + One(s.value.owned) - One(t[i].value.owned)
  BY <1>0, SlotChanges
<1>3. length = Cardinality(OccupiedIn(slots)) /\ tombstones = Cardinality(TombstonesIn(slots))
  BY DEF IInv
<1> QED
  BY <1>1, <1>2, <1>3

(* A new value for a key that is there: the old one's buffer is freed. *)
LEMMA SetExistingKeeps ==
  ASSUME IInv, NEW k \in Keys, NEW v \in StoredValues, SetExisting(k, v)
  PROVE  IInv' /\ OnlyKey(k) /\ Holding(k, v)
<1> DEFINE i == FindIndex(slots, capacity, k)
           s == [slots[i] EXCEPT !.value = v]
<1>1. /\ i \in OccupiedIn(slots) /\ slots[i].key = k /\ i \in 0 .. capacity - 1
      /\ slots[i] \in Slots /\ slots[i].state = "occupied"
  <2>1. i \in OccupiedIn(slots) /\ slots[i].key = k
    BY Known, FindFound DEF SetExisting
  <2> QED
    BY <2>1, Known DEF OccupiedIn
<1>2. slots' = [slots EXCEPT ![i].value = v] /\ heap' = AfterReplace(slots[i].value, v)
      /\ UNCHANGED <<capacity, length, tombstones>>
  BY DEF SetExisting
<1> HIDE DEF i
<1>3. /\ s \in Slots /\ s.state = "occupied" /\ s.key = k /\ s.value = v
      /\ s.ownsKey = slots[i].ownsKey /\ s.value.owned = v.owned
  <2>1. slots[i] \in [state : {"occupied"}, key : Keys, value : StoredValues, ownsKey : BOOLEAN]
    BY <1>1, SlotType
  <2> QED
    BY <1>1, <2>1 DEF Slots
<1>4. slots' = Put(slots, i, s)
  BY <1>2 DEF Put
<1> HIDE DEF s
<1>5. Searchable(slots', capacity') /\ OnlyKey(k) /\ Holding(k, v)
  <2>1. Searchable(slots, capacity)
    BY Known
  <2>2. /\ Searchable(Put(slots, i, s), capacity)
        /\ \A x : x.key # slots[i].key => (x \in Contents(Put(slots, i, s)) <=> x \in Contents(slots))
        /\ s \in Contents(Put(slots, i, s))
    BY <1>1, <1>3, <2>1, PutSearchable
  <2> QED
    BY <1>1, <1>2, <1>3, <1>4, <2>2 DEF OnlyKey, Holding
<1>6. /\ Cardinality(OccupiedIn(slots')) = length
            + One(s.state = "occupied") - One(slots[i].state = "occupied")
      /\ Cardinality(TombstonesIn(slots')) = tombstones
            + One(s.state = "tombstone") - One(slots[i].state = "tombstone")
      /\ Cardinality(OwnedKeysIn(slots')) = Cardinality(OwnedKeysIn(slots))
            + One(s.ownsKey) - One(slots[i].ownsKey)
      /\ Cardinality(OwnedValuesIn(slots')) = Cardinality(OwnedValuesIn(slots))
            + One(s.value.owned) - One(slots[i].value.owned)
  BY <1>1, <1>3, <1>4, SlotChanged
<1>7. /\ One(s.state = "occupied") = 1 /\ One(slots[i].state = "occupied") = 1
      /\ One(s.state = "tombstone") = 0 /\ One(slots[i].state = "tombstone") = 0
      /\ One(s.ownsKey) = One(slots[i].ownsKey) /\ One(s.ownsKey) \in Nat
      /\ One(v.owned) \in Nat /\ One(slots[i].value.owned) \in Nat
  BY <1>1, <1>3 DEF One
<1>8. heap' = heap + One(v.owned) - One(slots[i].value.owned)
  BY <1>2 DEF AfterReplace
<1>9. /\ length' = Cardinality(OccupiedIn(slots')) /\ tombstones' = Cardinality(TombstonesIn(slots'))
      /\ heap' = Cardinality(OwnedKeysIn(slots')) + Cardinality(OwnedValuesIn(slots'))
                    + One(capacity' # 0)
  BY <1>2, <1>3, <1>6, <1>7, <1>8, Known DEF IInv
<1> QED
  BY <1>2, <1>5, <1>9 DEF IInv

(* Whether a key is new says that no slot holds it. *)
LEMMA AbsentKey ==
  ASSUME IInv, NEW k \in Keys, Absent(k)
  PROVE  \A i \in OccupiedIn(slots) : slots[i].key # k
<1>1. CASE capacity = 0
  BY <1>1, Known DEF OccupiedIn
<1>2. CASE FindIndex(slots, capacity, k) = None
  BY <1>2, Known, FindNone
<1> QED
  BY <1>1, <1>2 DEF Absent

(* Below the load at which the table is rehashed there is room for one more. *)
LEMMA LoadBound ==
  ASSUME NEW cap \in Nat, NEW n \in Nat, ~LoadReached(cap, n)
  PROVE  n < cap
  BY DEF LoadReached

(* A new key, and what its slot adds to the counts. *)
LEMMA SetNewKeeps ==
  ASSUME IInv, NEW k \in Keys, NEW v \in StoredValues, NEW c \in BOOLEAN, SetNew(k, v, c)
  PROVE  IInv' /\ OnlyKey(k) /\ Holding(k, v)
<1>1. /\ capacity # 0 /\ length + tombstones + 1 < capacity
      /\ \A i \in OccupiedIn(slots) : slots[i].key # k
  <2>1. capacity # 0 /\ ~LoadReached(capacity, length + tombstones + 1)
    BY DEF SetNew, NeedsRehash
  <2>2. capacity \in Nat /\ length + tombstones + 1 \in Nat
    BY Known
  <2> QED
    BY <2>1, <2>2, LoadBound, AbsentKey DEF SetNew
<1>2. PICK s \in Slots :
         /\ s = Occupied(k, v, c) /\ s.state = "occupied" /\ s.key = k /\ s.value = v
         /\ s.value.owned = v.owned /\ s.ownsKey = Owns(c, k)
  BY OccupiedType
<1> DEFINE i == InsertIndex(slots, capacity, k)
<1>3. /\ i \in 0 .. capacity - 1 /\ slots[i].state # "occupied"
      /\ Searchable(Put(slots, i, s), capacity)
      /\ Contents(Put(slots, i, s)) = Contents(slots) \cup {s}
  <2>1. Searchable(slots, capacity)
    BY Known
  <2>2. \E j \in DOMAIN slots : j \notin OccupiedIn(slots)
    BY <1>1, EmptySlotLeft DEF OccupiedIn
  <2> QED
    BY <1>1, <1>2, <2>1, <2>2, InsertSearchable
<1>4. /\ slots' = Put(slots, i, s) /\ capacity' = capacity
      /\ tombstones' = tombstones - One(slots[i].state = "tombstone")
      /\ length' = length + 1
      /\ heap' = heap + One(v.owned) + One(Owns(c, k))
  BY <1>2 DEF SetNew, Put
<1> HIDE DEF i
<1>5. slots[i] \in Slots
  BY <1>3, Known
<1>6. /\ Cardinality(OccupiedIn(slots')) = length
            + One(s.state = "occupied") - One(slots[i].state = "occupied")
      /\ Cardinality(TombstonesIn(slots')) = tombstones
            + One(s.state = "tombstone") - One(slots[i].state = "tombstone")
      /\ Cardinality(OwnedKeysIn(slots')) = Cardinality(OwnedKeysIn(slots))
            + One(s.ownsKey) - One(slots[i].ownsKey)
      /\ Cardinality(OwnedValuesIn(slots')) = Cardinality(OwnedValuesIn(slots))
            + One(s.value.owned) - One(slots[i].value.owned)
  BY <1>3, <1>4, SlotChanged
<1>7. /\ One(s.state = "occupied") = 1 /\ One(slots[i].state = "occupied") = 0
      /\ One(s.state = "tombstone") = 0 /\ One(slots[i].state = "tombstone") \in 0 .. 1
      /\ One(s.ownsKey) = One(Owns(c, k)) /\ One(slots[i].ownsKey) = 0
      /\ One(s.value.owned) = One(v.owned) /\ One(slots[i].value.owned) = 0
      /\ One(v.owned) \in Nat /\ One(Owns(c, k)) \in Nat
  <2>1. slots[i].ownsKey = FALSE /\ slots[i].value.owned = FALSE
    BY <1>3, <1>5, SlotType
  <2> QED
    BY <1>2, <1>3, <2>1 DEF One
<1>8. /\ length' = Cardinality(OccupiedIn(slots')) /\ tombstones' = Cardinality(TombstonesIn(slots'))
      /\ heap' = Cardinality(OwnedKeysIn(slots')) + Cardinality(OwnedValuesIn(slots'))
                    + One(capacity' # 0)
      /\ length' + tombstones' < capacity'
  <2>1. /\ length \in Nat /\ tombstones \in Nat /\ capacity \in Nat
        /\ Cardinality(OwnedKeysIn(slots)) \in Nat
        /\ Cardinality(OwnedValuesIn(slots)) \in Nat
        /\ One(capacity # 0) \in Nat
        /\ heap = Cardinality(OwnedKeysIn(slots)) + Cardinality(OwnedValuesIn(slots))
                    + One(capacity # 0)
    BY Known DEF IInv
  <2>2. One(capacity' # 0) = One(capacity # 0)
    BY <1>4
  <2>3. length' = Cardinality(OccupiedIn(slots')) /\ tombstones' = Cardinality(TombstonesIn(slots'))
    BY <1>4, <1>6, <1>7, <2>1
  <2>4. length' + tombstones' < capacity'
    BY <1>1, <1>4, <1>7, <2>1
  <2>5. heap' = Cardinality(OwnedKeysIn(slots')) + Cardinality(OwnedValuesIn(slots'))
                  + One(capacity' # 0)
    BY <1>4, <1>6, <1>7, <2>1, <2>2
  <2> QED
    BY <2>3, <2>4, <2>5
<1>9. Searchable(slots', capacity') /\ OnlyKey(k) /\ Holding(k, v)
  BY <1>2, <1>3, <1>4 DEF OnlyKey, Holding
<1> QED
  BY <1>4, <1>8, <1>9 DEF IInv

(* The capacity after string_map_prepare_capacity leaves room beyond the   *)
(* new key, so that a search in it ends.                                   *)
LEMMA CapacityGrows ==
  ASSUME IInv, NextCapacity <= MaxCapacity
  PROVE  NextCapacity \in 0 .. MaxCapacity /\ length + 1 < NextCapacity
<1>1. capacity \in Nat /\ length \in Nat /\ tombstones \in Nat
  BY Known
<1>2. CASE capacity = 0
  <2>1. Cardinality(OccupiedIn(slots)) + Cardinality(TombstonesIn(slots)) <= 0
    BY <1>2, Known, TableFinite
  <2>2. length = 0
    BY <1>1, <2>1 DEF IInv
  <2> QED
    BY <1>2, <2>2, Bounds DEF NextCapacity
<1>3. CASE capacity # 0
  <2>1. length + tombstones < capacity
    BY <1>3 DEF IInv
  <2> QED
    BY <1>1, <1>3, <2>1, Bounds DEF NextCapacity
<1> QED
  BY <1>2, <1>3

(* A new key in a table that is rehashed for it. *)
LEMMA SetRehashedKeeps ==
  ASSUME IInv, NEW k \in Keys, NEW v \in StoredValues, NEW c \in BOOLEAN,
         SetRehashed(k, v, c)
  PROVE  IInv' /\ OnlyKey(k) /\ Holding(k, v)
<1>1. PICK cap \in Nat : cap = NextCapacity /\ cap <= MaxCapacity /\ length + 1 < cap
  BY CapacityGrows DEF SetRehashed
<1>2. PICK s \in Slots :
         /\ s = Occupied(k, v, c) /\ s.state = "occupied" /\ s.key = k /\ s.value = v
         /\ s.value.owned = v.owned /\ s.ownsKey = Owns(c, k)
  BY OccupiedType
<1>3. PICK t :
         /\ t = Rehashed(cap) /\ Searchable(t, cap) /\ Contents(t) = Contents(slots)
         /\ Cardinality(OccupiedIn(t)) = length
         /\ Cardinality(TombstonesIn(t)) = 0
         /\ Cardinality(OwnedKeysIn(t)) = Cardinality(OwnedKeysIn(slots))
         /\ Cardinality(OwnedValuesIn(t)) = Cardinality(OwnedValuesIn(slots))
  <2>1. Searchable(slots, capacity) /\ Cardinality(OccupiedIn(slots)) = length /\ length <= cap
    BY <1>1, Known DEF IInv
  <2> QED
    BY <2>1, RehashCopies
<1>4. t \in [0 .. cap - 1 -> Slots] /\ DOMAIN t = 0 .. cap - 1
  BY <1>3 DEF Searchable
<1> DEFINE i == InsertIndex(t, cap, k)
<1>5. /\ i \in 0 .. cap - 1 /\ t[i].state # "occupied"
      /\ Searchable(Put(t, i, s), cap)
      /\ Contents(Put(t, i, s)) = Contents(t) \cup {s}
  <2>1. \A j \in OccupiedIn(t) : t[j].key # s.key
    <3> SUFFICES ASSUME NEW j \in OccupiedIn(t), t[j].key = k
                 PROVE  FALSE
      BY <1>2
    <3>1. t[j] \in Contents(slots)
      BY <1>3 DEF Contents
    <3>2. PICK l \in OccupiedIn(slots) : t[j] = slots[l]
      BY <3>1 DEF Contents
    <3> QED
      BY <3>2, AbsentKey DEF SetRehashed
  <2>2. \E j \in DOMAIN t : j \notin OccupiedIn(t)
    <3> SUFFICES ASSUME OccupiedIn(t) = DOMAIN t
                 PROVE  FALSE
      BY DEF OccupiedIn
    <3>1. Cardinality(0 .. cap - 1) = cap
      BY <1>1, FS_Interval
    <3> QED
      BY <1>1, <1>3, <1>4, <3>1, Known
  <2> QED
    BY <1>2, <1>3, <2>1, <2>2, InsertSearchable
<1>6. /\ slots' = Put(t, i, s) /\ capacity' = cap /\ tombstones' = 0 /\ length' = length + 1
      /\ heap' = heap + One(v.owned) + One(Owns(c, k)) + 1 - One(capacity # 0)
  BY <1>1, <1>2, <1>3 DEF SetRehashed, Put
<1> HIDE DEF i
<1>7. t[i] \in Slots /\ t[i].state # "tombstone"
  <2>1. TombstonesIn(t) = {}
    BY <1>3, <1>4, TableFinite, FS_EmptySet
  <2> QED
    BY <1>4, <1>5, <2>1 DEF TombstonesIn
<1>8. /\ Cardinality(OccupiedIn(Put(t, i, s))) = Cardinality(OccupiedIn(t))
            + One(s.state = "occupied") - One(t[i].state = "occupied")
      /\ Cardinality(TombstonesIn(Put(t, i, s))) = Cardinality(TombstonesIn(t))
            + One(s.state = "tombstone") - One(t[i].state = "tombstone")
      /\ Cardinality(OwnedKeysIn(Put(t, i, s))) = Cardinality(OwnedKeysIn(t))
            + One(s.ownsKey) - One(t[i].ownsKey)
      /\ Cardinality(OwnedValuesIn(Put(t, i, s))) = Cardinality(OwnedValuesIn(t))
            + One(s.value.owned) - One(t[i].value.owned)
  BY <1>4, <1>5, SlotChanges
<1>9. /\ One(s.state = "occupied") = 1 /\ One(t[i].state = "occupied") = 0
      /\ One(s.state = "tombstone") = 0 /\ One(t[i].state = "tombstone") = 0
      /\ One(s.ownsKey) = One(Owns(c, k)) /\ One(t[i].ownsKey) = 0
      /\ One(s.value.owned) = One(v.owned) /\ One(t[i].value.owned) = 0
      /\ One(v.owned) \in Nat /\ One(Owns(c, k)) \in Nat
      /\ One(cap # 0) = 1
  <2>1. t[i].ownsKey = FALSE /\ t[i].value.owned = FALSE
    BY <1>5, <1>7, SlotType
  <2>2. cap # 0
    BY <1>1, Known
  <2> QED
    BY <1>2, <1>5, <1>7, <2>1, <2>2 DEF One
<1>10. /\ length' = Cardinality(OccupiedIn(slots')) /\ tombstones' = Cardinality(TombstonesIn(slots'))
       /\ heap' = Cardinality(OwnedKeysIn(slots')) + Cardinality(OwnedValuesIn(slots'))
                     + One(capacity' # 0)
       /\ length' + tombstones' < capacity'
  <2>1. /\ length \in Nat
        /\ Cardinality(OwnedKeysIn(slots)) \in Nat
        /\ Cardinality(OwnedValuesIn(slots)) \in Nat
        /\ One(capacity # 0) \in Nat
        /\ heap = Cardinality(OwnedKeysIn(slots)) + Cardinality(OwnedValuesIn(slots))
                    + One(capacity # 0)
    BY Known DEF IInv
  <2>2. length' = Cardinality(OccupiedIn(slots')) /\ tombstones' = Cardinality(TombstonesIn(slots'))
    BY <1>3, <1>6, <1>8, <1>9, <2>1
  <2>3. length' + tombstones' < capacity'
    BY <1>1, <1>6, <2>1
  <2>4. One(capacity' # 0) = 1
    BY <1>6, <1>9
  <2>5. heap' = Cardinality(OwnedKeysIn(slots')) + Cardinality(OwnedValuesIn(slots'))
                  + One(capacity' # 0)
    BY <1>3, <1>6, <1>8, <1>9, <2>1, <2>4
  <2> QED
    BY <2>2, <2>3, <2>5
<1>11. Searchable(slots', capacity') /\ OnlyKey(k) /\ Holding(k, v)
  BY <1>2, <1>3, <1>5, <1>6 DEF OnlyKey, Holding
<1> QED
  BY <1>1, <1>6, <1>10, <1>11 DEF IInv

(* A removed key leaves a tombstone, and its buffers are freed. *)
LEMMA RemoveKeeps ==
  ASSUME IInv, NEW k \in Keys, sm_remove(k)
  PROVE  IInv' /\ OnlyKey(k) /\ TakenAway(k)
<1> DEFINE i == FindIndex(slots, capacity, k)
<1>1. /\ i \in OccupiedIn(slots) /\ slots[i].key = k /\ i \in 0 .. capacity - 1
      /\ slots[i] \in Slots /\ slots[i].state = "occupied"
  <2>1. i \in OccupiedIn(slots) /\ slots[i].key = k
    BY Known, FindFound DEF sm_remove, Absent
  <2> QED
    BY <2>1, Known DEF OccupiedIn
<1>2. /\ slots' = Put(slots, i, Tombstone) /\ heap' = heap - Released(slots[i])
      /\ length' = length - 1 /\ tombstones' = tombstones + 1 /\ capacity' = capacity
  BY DEF sm_remove, RemovedSlot, Put
<1> HIDE DEF i
<1>3. Searchable(slots', capacity') /\ OnlyKey(k) /\ TakenAway(k)
  <2>1. Searchable(slots, capacity)
    BY Known
  <2>2. /\ Searchable(Put(slots, i, Tombstone), capacity)
        /\ \A x : x.key # slots[i].key =>
               (x \in Contents(Put(slots, i, Tombstone)) <=> x \in Contents(slots))
        /\ \A x \in Contents(Put(slots, i, Tombstone)) : x.key # slots[i].key
    BY <1>1, <2>1, FreeSlots, PutSearchable
  <2>3. slots[i] \in Contents(slots)
    BY <1>1 DEF Contents
  <2> QED
    BY <1>1, <1>2, <2>2, <2>3 DEF OnlyKey, TakenAway
<1>4. PICK s \in Slots : s = Tombstone
  BY FreeSlots
<1>5. /\ Cardinality(OccupiedIn(slots')) = length
            + One(s.state = "occupied") - One(slots[i].state = "occupied")
      /\ Cardinality(TombstonesIn(slots')) = tombstones
            + One(s.state = "tombstone") - One(slots[i].state = "tombstone")
      /\ Cardinality(OwnedKeysIn(slots')) = Cardinality(OwnedKeysIn(slots))
            + One(s.ownsKey) - One(slots[i].ownsKey)
      /\ Cardinality(OwnedValuesIn(slots')) = Cardinality(OwnedValuesIn(slots))
            + One(s.value.owned) - One(slots[i].value.owned)
  BY <1>1, <1>2, <1>4, SlotChanged
<1>6. /\ One(s.state = "occupied") = 0 /\ One(slots[i].state = "occupied") = 1
      /\ One(s.state = "tombstone") = 1 /\ One(slots[i].state = "tombstone") = 0
      /\ One(s.ownsKey) = 0 /\ One(slots[i].ownsKey) \in Nat
      /\ One(s.value.owned) = 0 /\ One(slots[i].value.owned) \in Nat
  BY <1>1, <1>4, FreeSlots DEF One
<1>7. /\ length' = Cardinality(OccupiedIn(slots')) /\ tombstones' = Cardinality(TombstonesIn(slots'))
      /\ heap' = Cardinality(OwnedKeysIn(slots')) + Cardinality(OwnedValuesIn(slots'))
                    + One(capacity' # 0)
      /\ capacity' # 0 => length' + tombstones' < capacity'
  <2>1. /\ length \in Nat /\ tombstones \in Nat /\ capacity \in Nat
        /\ Cardinality(OwnedKeysIn(slots)) \in Nat
        /\ Cardinality(OwnedValuesIn(slots)) \in Nat
        /\ One(capacity # 0) \in Nat
        /\ heap = Cardinality(OwnedKeysIn(slots)) + Cardinality(OwnedValuesIn(slots))
                    + One(capacity # 0)
        /\ capacity # 0 => length + tombstones < capacity
    BY Known DEF IInv
  <2>2. One(capacity' # 0) = One(capacity # 0)
    BY <1>2
  <2>3. length' = Cardinality(OccupiedIn(slots')) /\ tombstones' = Cardinality(TombstonesIn(slots'))
    BY <1>2, <1>5, <1>6, <2>1
  <2>4. capacity' # 0 => length' + tombstones' < capacity'
    BY <1>2, <2>1
  <2>5. heap' = Cardinality(OwnedKeysIn(slots')) + Cardinality(OwnedValuesIn(slots'))
                  + One(capacity' # 0)
    BY <1>2, <1>5, <1>6, <2>1, <2>2 DEF Released
  <2> QED
    BY <2>3, <2>4, <2>5
<1> QED
  BY <1>2, <1>3, <1>7 DEF IInv

(* Clearing and destroying free everything that the keys and values own. *)
LEMMA ClearKeeps ==
  ASSUME IInv, sm_clear \/ sm_destroy
  PROVE  IInv' /\ Contents(slots') = {}
<1>1. slots' = EmptyTable(capacity') /\ capacity' \in {0, capacity}
      /\ length' = 0 /\ tombstones' = 0
      /\ heap' = heap - AllReleased - (One(capacity # 0) - One(capacity' # 0))
  <2>1. CASE sm_clear
    BY <2>1, Known DEF sm_clear
  <2>2. CASE sm_destroy
    <3>1. 0 .. 0 - 1 = {}
      OBVIOUS
    <3>2. slots' = EmptyTable(0)
      BY <2>2, <3>1 DEF sm_destroy, EmptyTable
    <3> QED
      BY <2>2, <3>2, Known DEF sm_destroy, One
  <2> QED
    BY <2>1, <2>2
<1>2. capacity' \in Nat /\ capacity' <= MaxCapacity
  BY <1>1, Known, Bounds
<1>3. /\ Searchable(slots', capacity') /\ Contents(slots') = {}
      /\ Cardinality(OccupiedIn(slots')) = 0 /\ Cardinality(TombstonesIn(slots')) = 0
      /\ Cardinality(OwnedKeysIn(slots')) = 0 /\ Cardinality(OwnedValuesIn(slots')) = 0
  BY <1>1, <1>2, EmptyTableType
<1>4. heap' = One(capacity' # 0)
  <2>1. One(capacity' # 0) \in Nat
    BY DEF One
  <2>2. heap = AllReleased + One(capacity # 0)
    BY Known DEF IInv
  <2>3. AllReleased \in Nat /\ One(capacity # 0) \in Nat
    BY Known
  <2>4. heap' = heap - AllReleased - (One(capacity # 0) - One(capacity' # 0))
    BY <1>1
  <2> QED
    BY <2>1, <2>2, <2>3, <2>4
<1> QED
  BY <1>1, <1>2, <1>3, <1>4, Bounds DEF IInv

-----------------------------------------------------------------------------
(* The theorems.                                                           *)

(* Every operation keeps the invariant. *)
LEMMA NextKeeps == IInv /\ [Next]_vars => IInv'
<1> SUFFICES ASSUME IInv, [Next]_vars
             PROVE  IInv'
  OBVIOUS
<1>1. ASSUME NEW k \in Keys, NEW v \in StoredValues,
             \/ SetExisting(k, v)
             \/ \E c \in BOOLEAN : SetNew(k, v, c) \/ SetRehashed(k, v, c)
      PROVE  IInv'
  BY <1>1, SetExistingKeeps, SetNewKeeps, SetRehashedKeeps
<1>2. ASSUME NEW k \in Keys, sm_remove(k)
      PROVE  IInv'
  BY <1>2, RemoveKeeps
<1>3. CASE sm_clear \/ sm_destroy
  BY <1>3, ClearKeeps
<1>4. CASE UNCHANGED vars
  BY <1>4 DEF vars, IInv
<1> QED
  BY <1>1, <1>2, <1>3, <1>4 DEF Next

(* A map that sm_init has made has no slots. *)
LEMMA InitHolds == Init => IInv /\ Contents(slots) = {}
<1> SUFFICES ASSUME Init
             PROVE  IInv /\ Contents(slots) = {}
  OBVIOUS
<1>1. 0 .. 0 - 1 = {}
  OBVIOUS
<1>2. slots = EmptyTable(0) /\ capacity = 0
  BY <1>1 DEF Init, EmptyTable
<1>3. /\ Searchable(slots, capacity) /\ Contents(slots) = {}
      /\ Cardinality(OccupiedIn(slots)) = 0 /\ Cardinality(TombstonesIn(slots)) = 0
      /\ Cardinality(OwnedKeysIn(slots)) = 0 /\ Cardinality(OwnedValuesIn(slots)) = 0
  BY <1>2, EmptyTableType
<1>4. One(capacity # 0) = 0
  BY <1>2 DEF One
<1> QED
  BY <1>2, <1>3, <1>4, Bounds DEF Init, IInv

(* The invariant of every history of a map. *)
THEOREM StringMapInvariant == Spec => []IInv
<1> QED
  BY InitHolds, NextKeeps, PTL DEF Spec

(* Every variable keeps its type, and a slot that is not occupied holds    *)
(* nothing.                                                                *)
THEOREM StringMapTypes == Spec => []TypeOK
<1> DEFINE Calling == op \in [name : {"set", "remove", "clear"}, key : Keys \cup {None},
                               value : Values \cup {None}]
<1>1. Init => Calling
  BY DEF Init, Operation
<1>2. Calling /\ [Next]_vars => Calling'
  <2> SUFFICES ASSUME Calling, [Next]_vars
               PROVE  Calling'
    OBVIOUS
  <2>1. ASSUME NEW k \in Keys, NEW v \in StoredValues,
               \/ SetExisting(k, v)
               \/ \E c \in BOOLEAN : SetNew(k, v, c) \/ SetRehashed(k, v, c)
        PROVE  Calling'
    BY <2>1 DEF SetExisting, SetNew, SetRehashed, Calls, Operation, StoredValues, Stored
  <2>2. ASSUME NEW k \in Keys, sm_remove(k)
        PROVE  Calling'
    BY <2>2 DEF sm_remove, Calls, Operation
  <2>3. CASE sm_clear \/ sm_destroy
    BY <2>3 DEF sm_clear, sm_destroy, Calls, Operation
  <2>4. CASE UNCHANGED vars
    BY <2>4 DEF vars
  <2> QED
    BY <2>1, <2>2, <2>3, <2>4 DEF Next
<1>3. IInv /\ Calling => TypeOK
  BY Known DEF IInv, TypeOK
<1> HIDE DEF Calling
<1> QED
  BY <1>1, <1>2, <1>3, StringMapInvariant, PTL DEF Spec

(* string_map_find_index finds every key that is in the map where it is:   *)
(* nothing is lost behind a gap that a removal or a rehash has left.       *)
THEOREM KeysStayReachable == Spec => []SlotsReachable
<1>1. IInv => SlotsReachable
  BY FindHeld, Known DEF SlotsReachable, OccupiedIn
<1> QED
  BY <1>1, StringMapInvariant, PTL

(* The counters that decide about rehashing count the slots, and an empty  *)
(* slot is left, at which every unsuccessful search ends.                  *)
THEOREM CountersAreExact == Spec => []CountsExact
<1>1. IInv => CountsExact
  BY EmptySlotLeft DEF IInv, CountsExact, OccupiedIn, TombstonesIn
<1> QED
  BY <1>1, StringMapInvariant, PTL

(* The map can free all that it has allocated, and nothing else. *)
THEOREM NothingLeaks == Spec => []NoLeak
<1>1. IInv => NoLeak
  BY Known DEF IInv, NoLeak
<1> QED
  BY <1>1, StringMapInvariant, PTL

-----------------------------------------------------------------------------
(* The refinement.                                                         *)

(* The abstract map, as a function of the table. *)
Lookups(t, cap) == [k \in Keys |-> ValueIn(t, cap, k)]

(* What the abstract map is before and after a step. *)
LEMMA MapIsLookups ==
  /\ [k \in Keys |-> Lookup(k)] = Lookups(slots, capacity)
  /\ [k \in Keys |-> Lookup(k)]' = Lookups(slots', capacity')
  BY DEF Lookup, Lookups, ValueIn

(* A step on one key changes what is found for that key alone. *)
LEMMA OneKeyStep ==
  ASSUME IInv, IInv', NEW k \in Keys, OnlyKey(k)
  PROVE  Lookups(slots', capacity')
           = [Lookups(slots, capacity) EXCEPT ![k] = ValueIn(slots', capacity', k)]
<1>1. Searchable(slots, capacity) /\ Searchable(slots', capacity')
  BY DEF IInv
<1>2. ASSUME NEW q \in Keys, q # k
      PROVE  ValueIn(slots', capacity', q) = ValueIn(slots, capacity, q)
  <2>1. \A s : s.key = q => (s \in Contents(slots') <=> s \in Contents(slots))
    BY <1>2 DEF OnlyKey
  <2> QED
    BY <1>1, <2>1, SameValue
<1> QED
  BY <1>2 DEF Lookups

(* sm_set_* is the abstract map's Set with the same arguments. *)
LEMMA SetRefines ==
  ASSUME IInv, IInv', NEW k \in Keys, NEW v \in StoredValues,
         Calls("set", k, v.data), OnlyKey(k), Holding(k, v)
  PROVE  v.data \in Values /\ Abstract!Set(k, v.data)
<1>1. v.data \in Values
  BY DEF StoredValues, Stored
<1>2. ValueIn(slots', capacity', k) = v.data
  <2>1. Searchable(slots', capacity')
    BY DEF IInv
  <2> QED
    BY <2>1, ValueFound DEF Holding
<1> QED
  BY <1>1, <1>2, OneKeyStep, MapIsLookups DEF Calls, Operation, Abstract!Set, Abstract!Operation

(* sm_remove is the abstract map's Remove of the same key. *)
LEMMA RemoveRefines ==
  ASSUME IInv, IInv', NEW k \in Keys,
         Calls("remove", k, None), OnlyKey(k), TakenAway(k)
  PROVE  Abstract!Remove(k)
<1>1. Searchable(slots, capacity) /\ Searchable(slots', capacity')
  BY DEF IInv
<1>2. ValueIn(slots', capacity', k) = None
  BY <1>1, ValueFound DEF TakenAway
<1>3. ValueIn(slots, capacity, k) # None
  <2>1. PICK s \in Contents(slots) : s.key = k
    BY DEF TakenAway
  <2>2. s \in Slots /\ s.state = "occupied"
    BY <2>1, Known DEF Contents, OccupiedIn
  <2>3. s.value.data \in Values
    BY <2>2, SlotType
  <2> QED
    BY <1>1, <2>1, <2>3, ValueFound, StringMapAssumption
<1>4. Lookups(slots, capacity)[k] # None
  BY <1>3 DEF Lookups
<1> QED
  BY <1>2, <1>4, OneKeyStep, MapIsLookups
  DEF Calls, Operation, Abstract!Remove, Abstract!Operation

(* sm_clear and sm_destroy are the abstract map's Clear. *)
LEMMA ClearRefines ==
  ASSUME IInv, IInv', sm_clear \/ sm_destroy
  PROVE  Abstract!Clear
<1>1. Searchable(slots', capacity') /\ Contents(slots') = {}
  BY ClearKeeps DEF IInv
<1>2. Lookups(slots', capacity') = [k \in Keys |-> None]
  BY <1>1, ValueFound DEF Lookups
<1> QED
  BY <1>2, MapIsLookups
  DEF sm_clear, sm_destroy, Calls, Operation, Abstract!Clear, Abstract!Operation

(* Every step of the hash map is the abstract step that its call asks for. *)
LEMMA StepRefines == IInv /\ [Next]_vars => [Abstract!Next]_Abstract!vars
<1> SUFFICES ASSUME IInv, [Next]_vars
             PROVE  Abstract!Next \/ UNCHANGED Abstract!vars
  OBVIOUS
<1>0. IInv'
  BY NextKeeps
<1>1. ASSUME NEW k \in Keys, NEW v \in StoredValues,
             \/ SetExisting(k, v)
             \/ \E c \in BOOLEAN : SetNew(k, v, c) \/ SetRehashed(k, v, c)
      PROVE  Abstract!Next
  <2>1. Calls("set", k, v.data)
    BY <1>1 DEF SetExisting, SetNew, SetRehashed
  <2>2. OnlyKey(k) /\ Holding(k, v)
    BY <1>1, SetExistingKeeps, SetNewKeeps, SetRehashedKeeps
  <2>3. v.data \in Values /\ Abstract!Set(k, v.data)
    BY <1>0, <2>1, <2>2, SetRefines
  <2> QED
    BY <2>3 DEF Abstract!Next
<1>2. ASSUME NEW k \in Keys, sm_remove(k)
      PROVE  Abstract!Next
  <2>1. Calls("remove", k, None)
    BY <1>2 DEF sm_remove
  <2>2. Abstract!Remove(k)
    BY <1>0, <1>2, <2>1, RemoveKeeps, RemoveRefines
  <2> QED
    BY <2>2 DEF Abstract!Next
<1>3. CASE sm_clear \/ sm_destroy
  BY <1>0, <1>3, ClearRefines DEF Abstract!Next
<1>4. CASE UNCHANGED vars
  <2>1. Lookups(slots', capacity') = Lookups(slots, capacity)
    BY <1>4 DEF vars
  <2> QED
    BY <1>4, <2>1, MapIsLookups DEF vars, Abstract!vars
<1> QED
  BY <1>1, <1>2, <1>3, <1>4 DEF Next

(* The hash map implements the function from keys to values that its users *)
(* think of: each call does what its own arguments say, so a lookup finds  *)
(* what was last set, and nothing else.                                    *)
THEOREM MapIsImplemented == Spec => ImplementsMap
<1>1. Init => Abstract!Init
  <2> SUFFICES ASSUME Init
               PROVE  Abstract!Init
    OBVIOUS
  <2>1. Lookups(slots, capacity) = [k \in Keys |-> None]
    BY InitHolds, ValueFound DEF IInv, Lookups
  <2> QED
    BY <2>1, MapIsLookups DEF Init, Operation, Abstract!Init, Abstract!Operation
<1> QED
  BY <1>1, StepRefines, StringMapInvariant, PTL DEF Spec, ImplementsMap, Abstract!Spec

=============================================================================
