----------------------------- MODULE MCTimeoutDict -----------------------------
(* TimeoutDict over three keys (two cannot separate "first" from "all") and  *)
(* a clock that runs past the timeout twice.                                 *)
EXTENDS TimeoutDict

CONSTANTS k1, k2, k3, v1, v2

MCKeys == {k1, k2, k3}
MCValues == {v1, v2}
===============================================================================
