------------------------------- MODULE MCHttpRpc -------------------------------
(* A request to the base class and one to AAT; two complete replies race for  *)
(* each, and two messages cannot be replies at all.                           *)
EXTENDS HttpRpc, TLC

CONSTANTS base, aat, a, b, c, d, empty, stray

MCRequests == {base, aat}
MCAat == {aat}
MCReplies == {a, b, c, d, empty, stray}
MCInReplyTo == a :> base @@ b :> base @@ c :> aat @@ d :> aat
               @@ empty :> base @@ stray :> None
MCHasContent == [m \in MCReplies |-> m # empty]
===============================================================================
