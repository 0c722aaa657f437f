-------------------------------- MODULE Multipart --------------------------------
(***************************************************************************)
(* InMemorySmppCache.store_multipart: the parts of long inbound messages,  *)
(* each stored under its reference number and number of parts until all of *)
(* that key are there.  The dictionary of dictionaries is a set of parts,  *)
(* no two of one key with the same number.                                 *)
(***************************************************************************)
EXTENDS Integers, FiniteSets, SequencesExt

VARIABLE cache      \* _multipart

\* _multipart's key
SameKey(p, q) == p.ref = q.ref /\ p.total = q.total

\* The parts of p's key once p is put among them.
Gathered(p) ==
  {q \in cache : SameKey(p, q) /\ q.number # p.number} \cup {p}

Others(p) == {q \in cache : ~SameKey(p, q)}

\* Fault: the part with the last number is taken to come last.
CompleteByNumber(p) == p.number = p.total

Complete(p) == Cardinality(Gathered(p)) = p.total

\* "".join(c for i, c in sorted(parts.items()))
Joined(parts) ==
  LET sorted == CHOOSE s \in [1 .. Cardinality(parts) -> parts] :
                  \A i, j \in DOMAIN s : i < j => s[i].number < s[j].number
  IN  FlattenSeq([i \in DOMAIN sorted |-> sorted[i].content])

\* Fault: the completed set stays in the cache.
StoreMultipartKeeps(p) == cache' = Others(p) \cup Gathered(p)

\* store_multipart, which returns Joined(Gathered(p)) if Complete(p) and else None.
StoreMultipart(p) ==
  cache' = IF Complete(p) THEN Others(p) ELSE Others(p) \cup Gathered(p)
===============================================================================
