------------------------------ MODULE MCSmppSession ------------------------------
(* A message of one PDU, one of two, and the same of inbound messages.          *)
EXTENDS SmppSession, TLC

CONSTANTS m1, m2, x, y

MCMessages == {m1, m2}
MCSegments == m1 :> 1 @@ m2 :> 2
OneMessage == {m1}
OneSegments == m1 :> 1
MCInbounds == {x}
MCParts == x :> 1
TwoInbounds == {x, y}
TwoParts == x :> 1 @@ y :> 2
================================================================================
