------------------------------ MODULE MCWorker ------------------------------
(* TLC instances of Worker. *)
EXTENDS Worker

Directories == {<<1, 2, 0>>, <<1, 2, 14>>, <<1, 2, 2>>}
JobList == <<"mints", "stats", "prices", "offers">>
Priorities == [mints |-> 1, stats |-> 1, prices |-> 1, offers |-> 3, views |-> 2]
Intervals == [mints |-> 1, stats |-> 1, prices |-> 2, offers |-> 1, views |-> 1]
=============================================================================
