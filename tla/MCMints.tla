------------------------------ MODULE MCMints ------------------------------
(* TLC instances of Mints. *)
EXTENDS Mints
=============================================================================
