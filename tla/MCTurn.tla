--------------------------------- MODULE MCTurn ---------------------------------
(* Two messages of one user, stamped against the order of their ids, and a    *)
(* request for a message to that user or to another one.                      *)
EXTENDS Turn

CONSTANTS m1, m2, alice, bob, r1

MCMessages == {[id |-> m1, from |-> alice, stamp |-> 2],
               [id |-> m2, from |-> alice, stamp |-> 1]}
MCRequests == {r1}
MCRecipients == {alice, bob}
===============================================================================
