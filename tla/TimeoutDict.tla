------------------------------ MODULE TimeoutDict ------------------------------
(***************************************************************************)
(* A TimeoutDict in use: the mapping operations the caches call on it, in  *)
(* any order, with the clock advancing between and during the calls.       *)
(***************************************************************************)
EXTENDS TimeoutDictOps

CONSTANTS Keys, Values,
          MaxNow        \* bound on the clock

ASSUME KeysValuesAssumption ==
  /\ None \notin Values /\ None \notin [ts : Nat, value : Values]
  /\ MaxNow \in Nat

VARIABLES now,      \* trio.current_time()
          data,     \* self.data
          res       \* what the last call returned

vars == <<now, data, res>>

Times == 0 .. MaxNow

Init == /\ now = 0
        /\ data = << >>
        /\ res = None

Tick == /\ now < MaxNow
        /\ now' = now + 1
        /\ UNCHANGED <<data, res>>

\* The clock read a second time within the same call.
LaterReading == {u \in Times : now <= u /\ u <= now + 1}

Store(k, v) == \E u \in LaterReading :
  /\ data' = SetItem(data, k, v, now, u)
  /\ now' = u
  /\ res' = None

Get(k) == /\ data' = RemoveExpired(data, now)
          /\ res' = GetItem(data, k, now)
          /\ UNCHANGED now

Delete(k) == /\ data' = DelItem(data, k, now)
             /\ res' = None
             /\ UNCHANGED now

Pop(k) == \E u \in LaterReading :
  /\ data' = PopItem(data, k, now, u)
  /\ res' = GetItem(data, k, now)
  /\ now' = u

Size == /\ data' = RemoveExpired(data, now)
        /\ res' = Len(RemoveExpired(data, now))
        /\ UNCHANGED now

Next == \/ Tick
        \/ \E k \in Keys, v \in Values : Store(k, v)
        \/ \E k \in Keys : Get(k)
        \/ \E k \in Keys : Delete(k)
        \/ \E k \in Keys : Pop(k)
        \/ Size

Spec == Init /\ [][Next]_vars

-------------------------------------------------------------------------------
\* The claim _remove_expired rests its early stop on ("Dictionaries are
\* ordered, so we don't need to check all the others"): insertion order is the
\* order of the timestamps, whatever was stored again, deleted or popped, and
\* none of them is in the future.
OldestFirst ==
  \A i, j \in DOMAIN data : i <= j => /\ data[i].ts <= data[j].ts
                                      /\ data[j].ts <= now

\* The entry of d a reader can see at key k at time t.
LiveEntry(d, t, k) ==
  LET fresh == {e \in FreshAt(d, t) : e.key = k}
  IN  IF fresh = {} THEN None
      ELSE LET e == CHOOSE e \in fresh : TRUE
           IN  [ts |-> e.ts, value |-> e.value]

\* The lazily cleaned, ordered dictionary behaves as a map whose entries expire
\* one by one on their own: no read returns an expired value, and none misses a
\* value because a neighbour's clean-up took it away.
Abstract == INSTANCE ExpiringMap WITH live <- [k \in Keys |-> LiveEntry(data, now, k)]
ImplementsExpiringMap == Abstract!Spec
===============================================================================
