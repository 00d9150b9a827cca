-------------------------- MODULE MCGroupInventory --------------------------
(* Small instances of GroupInventory for TLC. *)
EXTENDS GroupInventory, TLC

OneHierarchy == [g \in Groups |-> "alt"]
Symmetry == Permutations(Collectors) \cup Permutations(Endpoints) \cup Permutations(Groups)
=============================================================================
