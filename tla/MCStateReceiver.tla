-------------------------- MODULE MCStateReceiver --------------------------
(* TLC instances of StateReceiver. *)
EXTENDS StateReceiver
=============================================================================
