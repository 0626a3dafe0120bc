------------------------------ MODULE MCArena ------------------------------
(* Small instances of Arena for TLC. *)
EXTENDS Arena, TLC

\* Blocks are told apart by address only, marks by slot only.
Symmetry == Permutations(Addresses) \cup Permutations(MarkSlots)

============================================================================
