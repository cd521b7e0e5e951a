----------------------------- MODULE MCLevelDB -----------------------------
(* LevelDB with two keys, puts and deletes and one large write per store.  *)
EXTENDS LevelDB

MCKeys == {1, 2}
Asked(st, k, d, large, upto) == [st |-> st, k |-> k, d |-> d, large |-> large, upto |-> upto]
MCRequests ==
    {Asked("regular", 1, FALSE, FALSE, 3), Asked("regular", 1, TRUE, FALSE, 2),
     Asked("regular", 1, FALSE, TRUE, 2), Asked("state", 2, FALSE, FALSE, 2),
     Asked("state", 1, FALSE, TRUE, 1)}
MCReadKeys == {<<"regular", 1>>, <<"state", 2>>}
=============================================================================
