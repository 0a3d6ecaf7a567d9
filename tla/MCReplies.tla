----------------------------- MODULE MCReplies -----------------------------
(* Replies in three-bit bytes to a few requests of every length that       *)
(* matters, for TLC.                                                       *)
EXTENDS Replies

\* A full VIN, one that ends in spaces, an empty one.
MCVinFields == {<<5, 6>>, <<5, 3>>, <<0, 3>>}

\* One of the two times is made of start marks.
MCBodies == {SubSeq(time \o [i \in 1 .. 35 |-> fill], 1, len) :
                 time \in {<<1, 1, 2, 2, 1, 1>>, <<3, 6, 5, 4, 0, 7>>},
                 fill \in {0, 5},
                 len \in {0, 5, 6, 7, 8, 29, 30, 39, 40}}

MCAccounts == {<<[i \in 1 .. 12 |-> 5], [i \in 1 .. 20 |-> 5]>>}

MCClock == <<4, 4, 4, 4, 4, 4>>
=============================================================================
