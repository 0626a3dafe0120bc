---------------------------- MODULE MCStringMap ----------------------------
(* A small instance of StringMap for TLC. *)
EXTENDS StringMap, TLC

CONSTANTS k1, k2, k3, k4, k5

\* Collisions at every capacity, at the larger one only, and at the last slot.
MCHash ==
    [k \in Keys |-> CASE k \in {k1, k2} -> 3 [] k = k3 -> 7 [] k = k4 -> 15 [] k = k5 -> 4]

\* States that differ only in the call that led to them are one state: no step
\* reads op, and a property of steps is evaluated on every step, also on one
\* that leads to a state seen before.
TableView == <<slots, capacity, length, tombstones, heap>>

============================================================================
