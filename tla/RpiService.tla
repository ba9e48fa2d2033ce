----------------------------- MODULE RpiService -----------------------------
(***************************************************************************)
(* ECNLService of application/service.py over the schedule cache: the memo *)
(* of RPI tables behind get_rpi and get_team_rpi, an OrderedDict with a    *)
(* TTL and an LRU cap, and the reads of the schedule it is computed from.  *)
(* A coroutine of the service awaits the cache directly, so what follows   *)
(* an await happens in the step in which the cache returns: a memo miss    *)
(* that hits the schedule cache is one step, and so are the store into the *)
(* cache and the store into the memo.                                      *)
(*                                                                         *)
(* A table, like a schedule, is known by the instant at which the upstream *)
(* produced the schedule.                                                  *)
(***************************************************************************)
EXTENDS Naturals, Sequences, SequencesExt, Dict

CONSTANTS Calls,           \* tool calls, one name per call under way
          Flights,         \* (event_id, flight_id): the keys of the schedule cache
          TieWeights,      \* the values of tie_weight
          LiveTtlSeconds,  \* _live_ttl of the cache
          RpiTtlSeconds,   \* _rpi_ttl
          RpiCacheSize,    \* _rpi_cache_size
          MaxTransit,      \* bound: seconds a schedule travels before it is stored
          MaxTime          \* bound: the clock stops here

ASSUME ServiceAssumption == /\ LiveTtlSeconds \in Nat \ {0}
                            /\ RpiTtlSeconds \in Nat \ {0}
                            /\ RpiCacheSize \in Nat
                            /\ MaxTransit \in Nat
                            /\ MaxTime \in Nat

VARIABLES now, cache, task,    \* the clock and the cache, see CachingAdapter
          memo,                \* _rpi_cache: key -> (expiry, table)
          order,               \* the order of _rpi_cache, oldest use first
          request              \* the progress of each tool call

cachevars == <<now, cache, task>>
vars == <<cachevars, memo, order, request>>

Cache == INSTANCE CachingAdapter WITH Keys <- Flights, LiveKeys <- Flights,
                                      TtlSeconds <- LiveTtlSeconds

\* Mutants (suffix _M): a definition as a plausible bug of this code would have it.
\* The key of the memo; a table is named by its key.
Key_M(flight, weight) == <<flight>>
Key(flight, weight) == <<flight, weight>>

Tables == Flights \X TieWeights

\* What get_rpi and get_team_rpi are asked for.
Asked == {Key(flight, weight) : flight \in Flights, weight \in TieWeights}

FlightOf(t) == t[1]

Entry == [expiry : Nat, at : Nat]

Request == [pc : {"idle"}]
             \union [pc : {"waiting"}, table : Tables]
             \union [pc : {"answered"}, table : Tables, at : Nat]
             \union [pc : {"failed"}, table : Tables]

Init == /\ Cache!Init
        /\ memo = EmptyDict
        /\ order = <<>>
        /\ request = [c \in Calls |-> [pc |-> "idle"]]

-----------------------------------------------------------------------------
Free(c) == Cache!Free(c)

Set(c, v) == request' = [request EXCEPT ![c] = v]

Valid_M(t) == t \in DOMAIN memo /\ now <= memo[t].expiry
Valid(t) == t \in DOMAIN memo /\ now < memo[t].expiry

Position(t) == CHOOSE i \in 1 .. Len(order) : order[i] = t

\* The order once `_rpi_cache[t] = ...' or a hit has moved t to the end.
Used_M(t) == IF t \in DOMAIN memo THEN order ELSE Append(order, t)
Used(t) == Append(IF t \in DOMAIN memo THEN RemoveAt(order, Position(t)) ELSE order, t)

Full_M(s) == Len(s) > RpiCacheSize + 1
Full(s) == Len(s) > RpiCacheSize

MemoHit(c, t) == /\ Free(c)
                 /\ Valid(t)
                 /\ order' = Used(t)
                 /\ Set(c, [pc |-> "answered", table |-> t, at |-> memo[t].at])
                 /\ UNCHANGED <<cachevars, memo>>

\* Store the table computed from a schedule, evict at the cap, return it.
Memoize(c, t, at) ==
  LET stored == Put(memo, t, [expiry |-> now + RpiTtlSeconds, at |-> at])
      used == Used(t)
  IN  /\ Set(c, [pc |-> "answered", table |-> t, at |-> at])
      /\ \/ ~Full(used) /\ order' = used /\ memo' = stored
         \/ Full(used) /\ order' = Tail(used) /\ memo' = Del(stored, Head(used))

\* The memo misses and the schedule is in the cache: no await suspends the call.
MemoMissCacheHit(c, t) == /\ Free(c)
                          /\ ~Valid(t)
                          /\ Cache!Hit(c, FlightOf(t))
                          /\ Memoize(c, t, cache[FlightOf(t)].at)

\* Both miss: an expired entry of the memo stays where it is.
MemoMissCacheMiss(c, t) == /\ Free(c)
                           /\ ~Valid(t)
                           /\ Cache!Miss(c, FlightOf(t))
                           /\ Set(c, [pc |-> "waiting", table |-> t])
                           /\ UNCHANGED <<memo, order>>

\* get_schedule and get_results read the schedule without the memo.
ReadSchedule(c, f) ==
  /\ Cache!Hit(c, f) \/ Cache!Miss(c, f)
  /\ UNCHANGED <<memo, order, request>>

\* The fetched schedule arrives: it is cached, and the table computed and memoized.
\* The memo is not looked up again after the await.
Resume(c, f) ==
  /\ Cache!Fill(c, f)
  /\ \/ /\ request[c].pc # "waiting"
        /\ UNCHANGED <<memo, order, request>>
     \/ /\ request[c].pc = "waiting"
        /\ Memoize(c, request[c].table, task'[c].at)

Fail(c, f) ==
  /\ Cache!Raise(c, f)
  /\ \/ request[c].pc # "waiting" /\ UNCHANGED request
     \/ request[c].pc = "waiting" /\ Set(c, [pc |-> "failed", table |-> request[c].table])
  /\ UNCHANGED <<memo, order>>

Tick == Cache!Tick /\ UNCHANGED <<memo, order, request>>

Next == \/ Tick
        \/ \E c \in Calls, t \in Asked :
             MemoHit(c, t) \/ MemoMissCacheHit(c, t) \/ MemoMissCacheMiss(c, t)
        \/ \E c \in Calls, f \in Flights : ReadSchedule(c, f) \/ Resume(c, f) \/ Fail(c, f)

Spec == Init /\ [][Next]_vars

-----------------------------------------------------------------------------
(* Every variable keeps its type: what is memoized is under the key of a   *)
(* flight and a tie weight, and no call waits for or is answered with      *)
(* anything less.  memo and order are the one OrderedDict of the code.     *)
TypeOK == /\ DOMAIN memo \subseteq Tables
          /\ \A t \in DOMAIN memo : memo[t] \in Entry
          /\ order \in Seq(Tables)
          /\ \A i, j \in 1 .. Len(order) : order[i] = order[j] => i = j
          /\ \A t \in Tables : t \in DOMAIN memo <=> \E i \in 1 .. Len(order) : order[i] = t
          /\ request \in [Calls -> Request]

(* The memo never holds more tables than its cap, however many calls store *)
(* into it at once.                                                        *)
MemoBounded == Len(order) <= RpiCacheSize

(* The promise of get_rpi: an answer is an error, or a table computed from *)
(* a schedule that the upstream produced less than the TTL of the memo     *)
(* plus the TTL of the cache plus the transit bound ago.  The two lifetimes*)
(* add up: a table may be memoized from a schedule about to expire - in    *)
(* whole seconds, one second before.                                       *)
RequestOf(r) == CASE r.pc = "waiting" -> [pc |-> "pending", key |-> r.table]
                  [] r.pc = "answered" -> [pc |-> "answered", key |-> r.table, at |-> r.at]
                  [] r.pc = "failed" -> [pc |-> "failed", key |-> r.table]
                  [] OTHER -> [pc |-> "idle"]

Promise == INSTANCE FreshData
             WITH Keys <- Tables,
                  call <- [c \in Calls |-> RequestOf(request[c])],
                  MaxAge <- [t \in Tables |-> RpiTtlSeconds + LiveTtlSeconds + MaxTransit - 1]

(* No interleaving of memo and cache hands out an older table.             *)
KeepsPromise == Promise!Spec
=============================================================================
