----------------------------- MODULE MCHandlers -----------------------------
(* TLC instances of Handlers. *)
EXTENDS Handlers

Bounds ==
  [sales |-> 5, config |-> 4, medians |-> 4, auctions |-> 5, buyoffers |-> 3, rows |-> 3, lists |-> 2, links |-> 4,
   simple |-> 3, assets |-> 3, definitions |-> 3]
Kinds == DOMAIN Bounds
=============================================================================
