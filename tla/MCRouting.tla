------------------------------- MODULE MCRouting -------------------------------
(* Two applications.  The user's own address is mapped to the first, the       *)
(* address the user writes to to the second, and to the first behind it.       *)
EXTENDS Routing

CONSTANTS a1, a2, x, r1, code, user

MCApps == {a1, a2}
MCMappings == << [name |-> a1, pattern |-> {user}],
                 [name |-> a2, pattern |-> {code}],
                 [name |-> a1, pattern |-> {code, user}] >>
MCInbounds == {x}
MCTo == [i \in MCInbounds |-> code]
MCFrom == [i \in MCInbounds |-> user]
MCReplies == {r1}
MCInReplyTo == [r \in MCReplies |-> x]
MCWithUrl == {r1}
===============================================================================
