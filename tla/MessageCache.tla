------------------------------ MODULE MessageCache ------------------------------
(***************************************************************************)
(* message_caches.MemoryMessageCache: two TimeoutDicts keyed by message    *)
(* id, one of inbound and one of outbound messages, and the one query that *)
(* reads a whole dictionary.  Turn composes it with its handlers.          *)
(*                                                                         *)
(* fetch_last_inbound_by_from_address iterates over values(), which        *)
(* MutableMapping implements as an iteration over the keys with a          *)
(* __getitem__ of each, and every __getitem__ removes what has expired by  *)
(* then.  No other task runs during the query, but the clock does, so the  *)
(* query is a step per entry.                                              *)
(***************************************************************************)
EXTENDS TimeoutDictOps

CONSTANTS Messages,     \* [id, from, stamp]; stamp is the sender's, not the cache's
          OutboundIds,
          MaxNow        \* bound on the clock

\* Ids are unique; stamps can be compared.
ASSUME CacheAssumption ==
  /\ \A m, n \in Messages : m.id = n.id => m = n
  /\ \A m \in Messages : m # None /\ m.stamp \in Int

VARIABLES now,
          inbounds,     \* self._inbounds
          outbounds,    \* self._outbounds; a message stands for its id
          query         \* fetch_last_inbound_by_from_address in progress or ended

cacheVars == <<now, inbounds, outbounds, query>>

Addrs == {m.from : m \in Messages}

NoQuery == [state |-> "idle", from |-> None, next |-> 1, size |-> 0, found |-> << >>,
            answer |-> None]

CacheInit == /\ now = 0
             /\ inbounds = << >> /\ outbounds = << >>
             /\ query = NoQuery

Querying == query.state = "running"

Tick == /\ now < MaxNow
        /\ now' = now + 1
        /\ UNCHANGED <<inbounds, outbounds, query>>

StoreInbound(m) ==
  /\ inbounds' = SetItem(inbounds, m.id, m, now, now)
  /\ UNCHANGED <<now, outbounds, query>>

StoreOutbound(id) == outbounds' = SetItem(outbounds, id, id, now, now)

\* An id that no message has is looked up like any other.
FetchOutbound(id) == GetItem(outbounds, id, now)
CleanOutbound == outbounds' = RemoveExpired(outbounds, now)

\* iter(values()): the iterator remembers how large the dictionary was.
AskLast(from) ==
  /\ inbounds' = RemoveExpired(inbounds, now)
  /\ query' = [NoQuery EXCEPT !.state = "running", !.from = from,
                  !.size = Len(inbounds')]
  /\ UNCHANGED <<now, outbounds>>

SizeChanged == query.size # Len(inbounds)

\* The next key's value: None if it expired since the iterator yielded the key.
AskNext ==
  /\ Querying /\ ~SizeChanged /\ query.next <= query.size
  /\ inbounds' = RemoveExpired(inbounds, now)
  /\ LET v == GetItem(inbounds, inbounds[query.next].key, now)
         wanted == v # None /\ v.from = query.from
     IN  query' = [query EXCEPT !.next = @ + 1,
                                !.found = IF wanted THEN Append(@, v) ELSE @]
  /\ UNCHANGED <<now, outbounds>>

\* Fault: the message stored last is taken for the latest.
LastStored(s) == IF s = << >> THEN None ELSE s[Len(s)]

\* max(messages, key=lambda x: x.timestamp): the first of the latest.
LatestOf(s) ==
  IF s = << >> THEN None
  ELSE s[SelectInSeq(s, LAMBDA m : \A n \in ToSet(s) : n.stamp <= m.stamp)]

AskDone ==
  /\ Querying /\ ~SizeChanged /\ query.next > query.size
  /\ query' = [query EXCEPT !.state = "done", !.answer = LatestOf(query.found)]
  /\ UNCHANGED <<now, inbounds, outbounds>>

\* RuntimeError: dictionary changed size during iteration.
AskFails ==
  /\ Querying /\ SizeChanged
  /\ query' = [query EXCEPT !.state = "failed"]
  /\ UNCHANGED <<now, inbounds, outbounds>>

===============================================================================
