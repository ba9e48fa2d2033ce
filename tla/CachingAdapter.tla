--------------------------- MODULE CachingAdapter ---------------------------
(***************************************************************************)
(* CachingAdapter of adapters/outbound/caching_adapter.py: the TTL cache   *)
(* that every read of AthleteOne data goes through.  The check of an entry *)
(* and the start of the fetch are one step of the event loop; between the  *)
(* start and the store lies an `await', during which any other task may    *)
(* look up, delete and store the same key.                                 *)
(*                                                                         *)
(* A cached value is abstracted to `at', the instant at which the upstream *)
(* produced it.  The adapter underneath is external: it answers or raises. *)
(***************************************************************************)
EXTENDS Naturals, Dict

CONSTANTS Calls,            \* the tasks that read through the cache
          Keys,             \* cache keys: a method and its arguments
          LiveKeys,         \* those of the methods that use _live_ttl
          TtlSeconds,       \* _ttl
          LiveTtlSeconds,   \* _live_ttl
          MaxTransit,       \* bound: seconds an answer travels before it is stored
          MaxTime           \* bound: the clock stops here

ASSUME CacheAssumption == /\ LiveKeys \subseteq Keys
                          /\ TtlSeconds \in Nat \ {0}
                          /\ LiveTtlSeconds \in Nat \ {0}
                          /\ MaxTransit \in Nat
                          /\ MaxTime \in Nat

VARIABLES now,     \* time.monotonic()
          cache,   \* _cache: key -> (expiry, result)
          task     \* where each task stands in _get_or_fetch

vars == <<now, cache, task>>

Ttl(k) == IF k \in LiveKeys THEN LiveTtlSeconds ELSE TtlSeconds

Entry == [expiry : Nat, at : Nat]

Task == [pc : {"idle"}]
          \union [pc : {"fetching"}, key : Keys, began : Nat]
          \union [pc : {"returned"}, key : Keys, at : Nat]
          \union [pc : {"raised"}, key : Keys]

Fetching(c, k) == task[c].pc = "fetching" /\ task[c].key = k

Init == /\ now = 0
        /\ cache = EmptyDict
        /\ task = [c \in Calls |-> [pc |-> "idle"]]

-----------------------------------------------------------------------------
Free(c) == task[c].pc \in {"idle", "returned", "raised"}

\* Mutants (suffix _M): a definition as a plausible bug of this code would have it.
Valid_M(k) == k \in DOMAIN cache /\ now <= cache[k].expiry
Valid(k) == k \in DOMAIN cache /\ now < cache[k].expiry

Return(c, k, at) == task' = [task EXCEPT ![c] = [pc |-> "returned", key |-> k, at |-> at]]

Hit(c, k) == /\ Free(c)
             /\ Valid(k)
             /\ Return(c, k, cache[k].at)
             /\ UNCHANGED <<now, cache>>

Drop_M(k) == cache
Drop(k) == Del(cache, k)

\* No entry, or an expired one that is dropped before the fetch is awaited.
Miss(c, k) == /\ Free(c)
              /\ ~Valid(k)
              /\ cache' = Drop(k)
              /\ task' = [task EXCEPT ![c] = [pc |-> "fetching", key |-> k, began |-> now]]
              /\ UNCHANGED now

Expiry_M1(c, k) == task[c].began + Ttl(k)
Expiry_M2(c, k) == now - Ttl(k)
Expiry(c, k) == now + Ttl(k)

\* The await returns: the result is stored over whatever is there, and returned.
Store(c, k, at) == /\ cache' = Put(cache, k, [expiry |-> Expiry(c, k), at |-> at])
                   /\ Return(c, k, at)
                   /\ UNCHANGED now

\* The upstream produced the result during the fetch, MaxTransit ago at the earliest.
Fill(c, k) == /\ Fetching(c, k)
              /\ \E at \in task[c].began .. now : now <= at + MaxTransit /\ Store(c, k, at)

Raise_M(c, k) == /\ Fetching(c, k)
                 /\ task' = [task EXCEPT ![c] = [pc |-> "fetching", key |-> k, began |-> now]]
                 /\ UNCHANGED <<now, cache>>

\* The await raises (an error of the adapter underneath, or a cancellation):
\* nothing is stored.
Raise(c, k) == /\ Fetching(c, k)
               /\ task' = [task EXCEPT ![c] = [pc |-> "raised", key |-> k]]
               /\ UNCHANGED <<now, cache>>

Tick == /\ now < MaxTime
        /\ now' = now + 1
        /\ UNCHANGED <<cache, task>>

Await(c, k) == Fill(c, k) \/ Raise(c, k)

Next == Tick \/ \E c \in Calls, k \in Keys : Hit(c, k) \/ Miss(c, k) \/ Await(c, k)

\* Every HTTP request has a timeout, so an await is never left hanging.
Spec == /\ Init /\ [][Next]_vars
        /\ \A c \in Calls, k \in Keys : WF_vars(Await(c, k))

-----------------------------------------------------------------------------
(* Every variable keeps its type: entries are (expiry, result) pairs.      *)
TypeOK == /\ now \in Nat
          /\ DOMAIN cache \subseteq Keys
          /\ \A k \in DOMAIN cache : cache[k] \in Entry
          /\ task \in [Calls -> Task]

(* An entry that a lookup found expired never outlives that lookup: while  *)
(* a task fetches a key, an entry of this key can only be one that another *)
(* task stored after the fetch began.  So a fetch that fails leaves no     *)
(* stale value behind it (`del self._cache[key]' before the await).        *)
NoExpiredEntryDuringFetch ==
  \A c \in Calls, k \in Keys :
    Fetching(c, k) /\ k \in DOMAIN cache => cache[k].expiry >= task[c].began + Ttl(k)

(* The promise of the cache to its callers.  An answer can have aged in    *)
(* transit before it was stored, and by less than the TTL after that.      *)
CallOf(t) == CASE t.pc = "fetching" -> [pc |-> "pending", key |-> t.key]
               [] t.pc = "returned" -> [pc |-> "answered", key |-> t.key, at |-> t.at]
               [] t.pc = "raised" -> [pc |-> "failed", key |-> t.key]
               [] OTHER -> [pc |-> "idle"]

Promise == INSTANCE FreshData WITH call <- [c \in Calls |-> CallOf(task[c])],
                                   MaxAge <- [k \in Keys |-> Ttl(k) + MaxTransit]

(* No interleaving of hits, misses, stores and failures hands out data     *)
(* older than the TTL of its method plus the time it travelled.            *)
KeepsPromise == Promise!Spec

(* Every read through the cache ends, with a result or with an exception.  *)
EveryReadEnds == Promise!EveryCallEnds
=============================================================================
