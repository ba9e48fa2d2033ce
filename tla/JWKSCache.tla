----------------------------- MODULE JWKSCache ------------------------------
(***************************************************************************)
(* JWKSCache of security/jwks.py: the signing keys of the auth server, kept*)
(* for a TTL and fetched again when they are stale or when a key id is     *)
(* unknown.  One asyncio.Lock covers lookup and refresh, so a task that    *)
(* asks during a refresh waits for it, and then looks for itself; the lock *)
(* serves its waiters in the order of their arrival.                       *)
(*                                                                         *)
(* A set of keys is abstracted to the key ids in it.  The auth server is   *)
(* external: it rotates its keys at any time, and answers or fails.        *)
(*                                                                         *)
(* The expiry is in wall-clock time.  The wall clock may be set, and is    *)
(* ahead of the true time or behind it by MaxSkew at most.                 *)
(***************************************************************************)
EXTENDS Integers, Sequences, SequencesExt

CONSTANTS Calls,        \* the tasks that verify a token
          Kids,         \* key ids that tokens name
          TtlSeconds,   \* ttl_seconds
          MaxTransit,   \* bound: seconds a response travels
          MaxSkew,      \* bound: seconds between the wall clock and the true time, either way
          MaxTime       \* bound: time stops here

ASSUME JWKSAssumption == /\ TtlSeconds \in Int
                         /\ MaxTransit \in Nat
                         /\ MaxSkew \in Nat
                         /\ MaxTime \in Nat

VARIABLES now,         \* the true time
          clock,       \* time.time()
          published,   \* the key ids that the auth server publishes
          keys,        \* _keys: the key ids in the cache
          expiresAt,   \* _expires_at
          holders,     \* the task that holds _lock, if any
          waiters,     \* the tasks that wait for _lock, in order
          task         \* where each task stands in get

lock == <<holders, waiters>>
store == <<keys, expiresAt>>
time == <<now, clock>>
vars == <<time, published, store, lock, task>>

Task == [pc : {"idle"}]
          \union [pc : {"waiting", "fetching", "found", "unknown", "raised", "cancelled"}, kid : Kids]
          \union [pc : {"arriving"}, kid : Kids, sent : SUBSET Kids, at : Nat]

Within(t) == t - MaxSkew .. t + MaxSkew

\* The wall clock counts from long before the process starts, so it is never below 0.
Init == /\ now = MaxSkew /\ clock \in Within(now)
        /\ published \in SUBSET Kids
        /\ keys = {} /\ expiresAt = 0
        /\ holders = {} /\ waiters = <<>>
        /\ task = [c \in Calls |-> [pc |-> "idle"]]

-----------------------------------------------------------------------------
Free(c) == task[c].pc \in {"idle", "found", "unknown", "raised", "cancelled"}

Set(c, v) == task' = [task EXCEPT ![c] = v]

Move(c, pc) == Set(c, [pc |-> pc, kid |-> task[c].kid])

\* Mutants (suffix _M): a definition as a plausible bug of this code would have it.
NeedsRefresh_M1(kid) == clock >= expiresAt
NeedsRefresh_M2(kid) == kid \notin keys
NeedsRefresh(kid) == clock >= expiresAt \/ kid \notin keys

\* `return self._keys[kid]': a kid that is not there is a KeyError.
Lookup(kid, present) == [pc |-> IF kid \in present THEN "found" ELSE "unknown", kid |-> kid]

\* The body of `async with self._lock', up to the await of the refresh if it comes
\* to that; without a refresh the lock is released in the same step.
Enter(c, kid) == /\ \/ /\ NeedsRefresh(kid)
                       /\ holders' = {c}
                       /\ Set(c, [pc |-> "fetching", kid |-> kid])
                    \/ /\ ~NeedsRefresh(kid)
                       /\ Set(c, Lookup(kid, keys))
                       /\ UNCHANGED holders
                 /\ UNCHANGED <<time, published, store>>

Get(c, kid) ==
  /\ Free(c)
  /\ \/ /\ holders = {} /\ waiters = <<>>
        /\ Enter(c, kid)
        /\ UNCHANGED waiters
     \/ /\ holders # {} \/ waiters # <<>>
        /\ waiters' = Append(waiters, c)
        /\ Set(c, [pc |-> "waiting", kid |-> kid])
        /\ UNCHANGED <<time, published, store, holders>>

Acquire(c) == /\ holders = {} /\ waiters # <<>> /\ c = Head(waiters)
              /\ task[c].pc = "waiting"
              /\ waiters' = Tail(waiters)
              /\ Enter(c, task[c].kid)

\* The auth server sends what it publishes; it has not reached this task yet.
ServerAnswers(c) ==
  /\ task[c].pc = "fetching"
  /\ Set(c, [pc |-> "arriving", kid |-> task[c].kid, sent |-> published, at |-> now])
  /\ UNCHANGED <<time, published, store, lock>>

\* The refresh replaces all keys.
Replace_M(sent) == keys \union sent
Replace(sent) == sent

Refreshed(c) == /\ task[c].pc = "arriving"
                /\ keys' = Replace(task[c].sent)
                /\ expiresAt' = clock + TtlSeconds
                /\ Set(c, Lookup(task[c].kid, keys'))
                /\ holders' = {}
                /\ UNCHANGED <<time, published, waiters>>

\* The refresh raises: a transport error, a status that is not 2xx, a body that is
\* not JSON or no object, a key that PyJWK does not accept.  The keys stay as they are,
\* and the lock is released.
RefreshFails_M(c) ==
  /\ task[c].pc \in {"fetching", "arriving"}
  /\ Move(c, "raised")
  /\ UNCHANGED <<time, published, store, lock>>
RefreshFails(c) ==
  /\ task[c].pc \in {"fetching", "arriving"}
  /\ Move(c, "raised")
  /\ holders' = {}
  /\ UNCHANGED <<time, published, store, waiters>>

\* The request is dropped while its task waits for the lock, or refreshes the keys.
Cancel(c) == /\ \/ /\ task[c].pc = "waiting"
                   /\ waiters' = RemoveFirst(waiters, c)
                   /\ UNCHANGED holders
                \/ /\ task[c].pc \in {"fetching", "arriving"}
                   /\ holders' = {}
                   /\ UNCHANGED waiters
             /\ Move(c, "cancelled")
             /\ UNCHANGED <<time, published, store>>

\* The auth server publishes or retires keys.
Rotate == /\ published' \in SUBSET Kids /\ published' # published
          /\ UNCHANGED <<time, store, lock, task>>

Tick == /\ now < MaxTime
        /\ \A c \in Calls : task[c].pc = "arriving" => now < task[c].at + MaxTransit
        /\ now' = now + 1 /\ clock' = clock + 1
        /\ UNCHANGED <<published, store, lock, task>>

\* The wall clock is set.
SetClock == /\ clock' \in Within(now) /\ clock' # clock
            /\ UNCHANGED <<now, published, store, lock, task>>

Await(c) == Acquire(c) \/ ServerAnswers(c) \/ Refreshed(c) \/ RefreshFails(c)

Next == \/ Tick \/ SetClock \/ Rotate
        \/ \E c \in Calls : Await(c) \/ Cancel(c) \/ \E kid \in Kids : Get(c, kid)

\* The client has a timeout, so a refresh is never left hanging, and the loop runs
\* the task that the lock is passed to.
Spec == Init /\ [][Next]_vars /\ \A c \in Calls : WF_vars(Await(c))

-----------------------------------------------------------------------------
(* Every variable keeps its type; the lock has one holder at most, which   *)
(* is the task that refreshes, and its waiters are the tasks that wait.    *)
TypeOK == /\ now \in Nat /\ clock \in Within(now) /\ expiresAt \in Int
          /\ published \subseteq Kids /\ keys \subseteq Kids
          /\ task \in [Calls -> Task]
          /\ waiters \in Seq(Calls)
          /\ holders = {c \in Calls : task[c].pc \in {"fetching", "arriving"}}
          /\ \A c, d \in holders : c = d
          /\ \A c \in Calls : task[c].pc = "waiting" <=> \E i \in 1 .. Len(waiters) : waiters[i] = c

(* Every get ends: the lock is never lost with a task that failed, and no  *)
(* waiter is overtaken forever.                                            *)
EveryGetEnds == \A c \in Calls : ~Free(c) ~> Free(c)
=============================================================================
