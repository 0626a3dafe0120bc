---------------------------- MODULE AbstractMap ----------------------------
(***************************************************************************)
(* What a string map promises: a finite function from keys to values, and  *)
(* operations that change it as their arguments say.  An operation that    *)
(* runs out of memory changes nothing and is not recorded.                 *)
(***************************************************************************)
EXTENDS Naturals

CONSTANTS Keys, Values, None

VARIABLES
    map,  \* the value of every key, None if it has none
    op    \* the operation that made the map what it is, with its arguments

vars == <<map, op>>

Operation(name, k, v) == [name |-> name, key |-> k, value |-> v]

Operations ==
    {Operation("set", k, v) : k \in Keys, v \in Values}
      \cup {Operation("remove", k, None) : k \in Keys}
      \cup {Operation("clear", None, None)}

\* A map's type.
TypeOK ==
    /\ map \in [Keys -> Values \cup {None}]
    /\ op \in Operations

Init ==
    /\ map = [k \in Keys |-> None]
    /\ op = Operation("clear", None, None)

Set(k, v) ==
    /\ op' = Operation("set", k, v)
    /\ map' = [map EXCEPT ![k] = v]

Remove(k) ==
    /\ map[k] # None
    /\ op' = Operation("remove", k, None)
    /\ map' = [map EXCEPT ![k] = None]

Clear ==
    /\ op' = Operation("clear", None, None)
    /\ map' = [k \in Keys |-> None]

Next ==
    \/ \E k \in Keys : Remove(k) \/ \E v \in Values : Set(k, v)
    \/ Clear

Spec == Init /\ [][Next]_vars

============================================================================
