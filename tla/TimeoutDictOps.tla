---------------------------- MODULE TimeoutDictOps ----------------------------
(***************************************************************************)
(* The operations of message_caches.TimeoutDict as functions of the        *)
(* dictionary and of the clock.                                            *)
(*                                                                         *)
(* A Python dictionary keeps its entries in insertion order, and           *)
(* _remove_expired relies on it: it stops at the first entry that has not  *)
(* expired.  A dictionary is therefore a sequence of entries, oldest       *)
(* insertion first, and an operation maps a sequence to the next one.      *)
(* trio's clock keeps running while an operation does: an operation that   *)
(* reads it twice takes two readings, t and then u.                        *)
(***************************************************************************)
EXTENDS Integers, SequencesExt

CONSTANTS Timeout,    \* seconds an entry stays readable (inclusive)
          None        \* Python's None: what a read of a missing key returns

ASSUME TimeoutAssumption == Timeout \in Nat

Entry(k, t, v) == [key |-> k, ts |-> t, value |-> v]

Expired(e, t) == t - e.ts > Timeout

\* The entries from the first one that is still fresh: those behind it are
\* kept without being looked at.
RemoveExpired(d, t) ==
  LET first == SelectInSeq(d, LAMBDA e : ~Expired(e, t))
  IN  IF first = 0 THEN << >> ELSE SubSeq(d, first, Len(d))

\* self.data.pop(key, None)
PopKey(d, k) == RemoveFirstMatch(d, LAMBDA e : e.key = k)

\* Fault: the key is not popped, and a second store leaves it where it was.
SetItemInPlace(d, k, v, t, u) ==
  LET fresh == RemoveExpired(d, t)
      i     == SelectInSeq(fresh, LAMBDA e : e.key = k)
  IN  IF i = 0 THEN Append(fresh, Entry(k, u, v))
      ELSE [fresh EXCEPT ![i] = Entry(k, u, v)]

\* The key is popped first, so that a second store of it moves it to the end.
SetItem(d, k, v, t, u) ==
  Append(RemoveExpired(PopKey(d, k), t), Entry(k, u, v))

\* What is found at key k of a dictionary that has just been cleaned.
Lookup(d, k) ==
  LET i == SelectInSeq(d, LAMBDA e : e.key = k)
  IN  IF i = 0 THEN None ELSE d[i].value

\* Fault: a read does not clean up first.
GetItemUncleaned(d, k, t) == Lookup(d, k)

\* __getitem__ leaves RemoveExpired(d, t) behind and returns:
GetItem(d, k, t) == Lookup(RemoveExpired(d, t), k)

DelItem(d, k, t) == RemoveExpired(PopKey(d, k), t)

\* MutableMapping.pop: __getitem__ and then __delitem__.
PopItem(d, k, t, u) == DelItem(RemoveExpired(d, t), k, u)

\* The entries of d that a read at time t can return.
FreshAt(d, t) == {e \in ToSet(d) : ~Expired(e, t)}
===============================================================================
