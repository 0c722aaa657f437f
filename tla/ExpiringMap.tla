------------------------------ MODULE ExpiringMap ------------------------------
(***************************************************************************)
(* What a TimeoutDict promises: a map in which every entry vanishes by     *)
(* itself, the instant it is older than Timeout, however the other keys    *)
(* are used in the meantime.                                               *)
(***************************************************************************)
EXTENDS Integers, FiniteSets

CONSTANTS Keys, Values, None, Timeout

VARIABLES now,     \* the clock
          live,    \* what each key holds: a stored value and its time, or None
          res      \* what the last operation returned

vars == <<now, live, res>>

\* What the map m still holds at time t.
At(m, t) ==
  [k \in Keys |-> IF m[k] # None /\ t - m[k].ts <= Timeout THEN m[k] ELSE None]

Init == /\ now = 0
        /\ live = [k \in Keys |-> None]
        /\ res = None

\* The clock runs, also while an operation does.
Pass == now' \in Nat /\ now' >= now

Tick == /\ Pass
        /\ live' = At(live, now')
        /\ res' = res

Set(k, v) ==
  /\ Pass
  /\ live' = At([live EXCEPT ![k] = [ts |-> now', value |-> v]], now')
  /\ res' = None

Get(k) ==
  /\ res' = IF live[k] = None THEN None ELSE live[k].value
  /\ UNCHANGED <<now, live>>

Delete(k) ==
  /\ live' = [live EXCEPT ![k] = None]
  /\ res' = None
  /\ now' = now

Pop(k) ==
  /\ Pass
  /\ live' = At([live EXCEPT ![k] = None], now')
  /\ res' = IF live[k] = None THEN None ELSE live[k].value

Size == /\ res' = Cardinality({k \in Keys : live[k] # None})
        /\ UNCHANGED <<now, live>>

Next == \/ Tick
        \/ \E k \in Keys : Get(k) \/ Delete(k) \/ Pop(k)
        \/ \E k \in Keys, v \in Values : Set(k, v)
        \/ Size

Spec == Init /\ [][Next]_vars
================================================================================
