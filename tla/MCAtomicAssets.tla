--------------------------- MODULE MCAtomicAssets ---------------------------
(* TLC instances of AtomicAssets. *)
EXTENDS AtomicAssets, TLC

Symmetry == Permutations(Assets) \cup Permutations(Accounts) \cup Permutations(Offers)
=============================================================================
