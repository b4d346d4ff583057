---------------------------- MODULE MCContractDB ----------------------------
(* TLC instances of ContractDB: primary keys and values are interchangeable. *)
EXTENDS ContractDB, TLC

Symmetry == Permutations(Keys) \cup Permutations(Vals)
=============================================================================
