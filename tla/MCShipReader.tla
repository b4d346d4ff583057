---------------------------- MODULE MCShipReader ----------------------------
(* TLC instances of ShipReader. *)
EXTENDS ShipReader
=============================================================================
