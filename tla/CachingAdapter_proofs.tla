------------------------ MODULE CachingAdapter_proofs -----------------------
(***************************************************************************)
(* Proofs about CachingAdapter, for every set of tasks and keys and every  *)
(* TTL: its type invariant, its invariant about expired entries, and that  *)
(* it implements the safety promise of FreshData.                          *)
(***************************************************************************)
EXTENDS CachingAdapter, TLAPS

(* A fetch began in the past.                                              *)
BeganBefore == \A c \in Calls : task[c].pc = "fetching" => task[c].began <= now

(* The expiry of an entry bounds the age of its value, not only the time   *)
(* since it was stored.                                                    *)
EntryAge == \A k \in DOMAIN cache :
  /\ cache[k].at <= now
  /\ cache[k].expiry <= cache[k].at + MaxTransit + Ttl(k)
  /\ cache[k].expiry <= now + Ttl(k)

(* The inductive invariant.                                                *)
IInv == TypeOK /\ BeganBefore /\ EntryAge /\ NoExpiredEntryDuringFetch

(* A TTL is a positive number of seconds.                                  *)
LEMMA TtlType == \A k \in Keys : Ttl(k) \in Nat /\ Ttl(k) > 0
  BY CacheAssumption DEF Ttl

(* No task, no entry.                                                      *)
LEMMA InitIInv == Init => IInv
  BY CacheAssumption
     DEF Init, IInv, TypeOK, BeganBefore, EntryAge, NoExpiredEntryDuringFetch,
         Fetching, EmptyDict, Task

(* Every step keeps the inductive invariant.                               *)
LEMMA NextIInv == IInv /\ [Next]_vars => IInv'
<1> SUFFICES ASSUME IInv, [Next]_vars PROVE IInv'
  OBVIOUS
<1> USE CacheAssumption, TtlType
<1>1. CASE UNCHANGED vars
  BY <1>1 DEF vars, IInv, TypeOK, BeganBefore, EntryAge, NoExpiredEntryDuringFetch,
              Fetching, Ttl
<1>2. CASE Tick
  BY <1>2 DEF Tick, IInv, TypeOK, BeganBefore, EntryAge, NoExpiredEntryDuringFetch,
              Fetching, Task, Entry
<1>3. ASSUME NEW c \in Calls, NEW k \in Keys, Hit(c, k) PROVE IInv'
  BY <1>3 DEF Hit, Return, Valid, IInv, TypeOK, BeganBefore, EntryAge,
              NoExpiredEntryDuringFetch, Fetching, Task, Entry
<1>4. ASSUME NEW c \in Calls, NEW k \in Keys, Miss(c, k) PROVE IInv'
  <2>0. /\ now' = now /\ now \in Nat
        /\ task' = [task EXCEPT ![c] = [pc |-> "fetching", key |-> k, began |-> now]]
        /\ DOMAIN cache' = DOMAIN cache \ {k}
        /\ \A x \in DOMAIN cache' : cache'[x] = cache[x]
    BY <1>4 DEF Miss, Drop, Del, IInv, TypeOK
  <2>1. TypeOK'
    BY <2>0 DEF IInv, TypeOK, Task
  <2>2. BeganBefore'
    BY <2>0 DEF IInv, TypeOK, BeganBefore, Task
  <2>3. EntryAge'
    BY <2>0 DEF IInv, EntryAge
  <2>4. NoExpiredEntryDuringFetch'
    BY <2>0 DEF IInv, TypeOK, NoExpiredEntryDuringFetch, Fetching
  <2> QED BY <2>1, <2>2, <2>3, <2>4 DEF IInv
<1>5. ASSUME NEW c \in Calls, NEW k \in Keys, Fill(c, k) PROVE IInv'
  <2>a. task[c].began \in Nat
    BY <1>5 DEF Fill, Fetching, IInv, TypeOK, Task
  <2>b. PICK at \in task[c].began .. now : now <= at + MaxTransit /\ Store(c, k, at)
    BY <1>5 DEF Fill
  <2> DEFINE e == [expiry |-> now + Ttl(k), at |-> at]
  <2>0. /\ now' = now /\ now \in Nat
        /\ task' = [task EXCEPT ![c] = [pc |-> "returned", key |-> k, at |-> at]]
        /\ at \in Nat /\ at <= now /\ now <= at + MaxTransit
    BY <2>a, <2>b DEF Store, Return, IInv, TypeOK
  <2>1. /\ DOMAIN cache' = DOMAIN cache \union {k}
        /\ cache'[k] = e
        /\ \A x \in DOMAIN cache \ {k} : cache'[x] = cache[x]
    <3>1. cache' = Put(cache, k, e)
      BY <2>b DEF Store, Expiry
    <3> HIDE DEF e
    <3> QED BY <3>1 DEF Put
  <2>2. e \in Entry /\ e.expiry = now + Ttl(k) /\ e.at = at
    BY <2>0 DEF Entry
  <2> HIDE DEF e
  <2>3. TypeOK'
    BY <2>0, <2>1, <2>2 DEF IInv, TypeOK, Task
  <2>4. BeganBefore'
    BY <2>0 DEF IInv, TypeOK, BeganBefore
  <2>5. EntryAge'
    <3> SUFFICES ASSUME NEW x \in DOMAIN cache'
                 PROVE /\ cache'[x].at <= now
                       /\ cache'[x].expiry <= cache'[x].at + MaxTransit + Ttl(x)
                       /\ cache'[x].expiry <= now + Ttl(x)
      BY <2>0 DEF EntryAge, Ttl
    <3>1. CASE x = k
      BY <2>0, <2>1, <2>2, <3>1
    <3>2. CASE x # k
      BY <2>0, <2>1, <3>2 DEF IInv, EntryAge
    <3> QED BY <3>1, <3>2
  <2>6. NoExpiredEntryDuringFetch'
    <3> SUFFICES ASSUME NEW d \in Calls, NEW x \in Keys, Fetching(d, x)', x \in DOMAIN cache'
                 PROVE cache'[x].expiry >= task'[d].began + Ttl(x)
      BY DEF NoExpiredEntryDuringFetch, Ttl
    <3>1. d # c /\ task'[d] = task[d]
      BY <2>0 DEF Fetching, IInv, TypeOK
    <3>2. Fetching(d, x) /\ task[d].began <= now /\ task[d].began \in Nat
      BY <2>0, <3>1 DEF Fetching, IInv, TypeOK, BeganBefore, Task
    <3>3. CASE x = k
      BY <2>0, <2>1, <2>2, <3>1, <3>2, <3>3
    <3>4. CASE x # k
      BY <2>1, <3>1, <3>2, <3>4 DEF IInv, NoExpiredEntryDuringFetch
    <3> QED BY <3>3, <3>4
  <2> QED BY <2>3, <2>4, <2>5, <2>6 DEF IInv
<1>6. ASSUME NEW c \in Calls, NEW k \in Keys, Raise(c, k) PROVE IInv'
  BY <1>6 DEF Raise, IInv, TypeOK, BeganBefore, EntryAge, NoExpiredEntryDuringFetch,
              Fetching, Task
<1> QED BY <1>1, <1>2, <1>3, <1>4, <1>5, <1>6 DEF Next, Await

(* The inductive invariant holds in every reachable state.                 *)
THEOREM Invariant == Spec => []IInv
  BY InitIInv, NextIInv, PTL DEF Spec

(* Every reachable state is well typed: the dict holds only (expiry,       *)
(* result) pairs under keys of the API, and each task is in one phase.     *)
THEOREM TypeCorrect == Spec => []TypeOK
<1>1. IInv => TypeOK
  BY DEF IInv
<1> QED BY <1>1, Invariant, PTL

(* A lookup that found an expired entry removed it for good: no task ever  *)
(* fetches beside an entry that had expired when its fetch began.          *)
THEOREM NoExpiredEntry == Spec => []NoExpiredEntryDuringFetch
<1>1. IInv => NoExpiredEntryDuringFetch
  BY DEF IInv
<1> QED BY <1>1, Invariant, PTL

-----------------------------------------------------------------------------
(* A task that may start a read is a caller that may ask.                  *)
LEMMA FreeIsReady ==
  ASSUME TypeOK, NEW c \in Calls, Free(c)
  PROVE CallOf(task[c]).pc \in {"idle", "answered", "failed"}
<1>1. task[c] \in Task
  BY DEF TypeOK
<1> QED BY <1>1 DEF Free, Task, CallOf

(* A task in a fetch is a caller that waits for this key.                  *)
LEMMA FetchingIsPending ==
  ASSUME TypeOK, NEW c \in Calls, NEW k \in Keys, Fetching(c, k)
  PROVE CallOf(task[c]) = [pc |-> "pending", key |-> k]
  BY DEF Fetching, CallOf

(* The initial state of the cache is that of the promise.                  *)
LEMMA InitPromise == Init => Promise!Init
  BY DEF Init, Promise!Init, CallOf

(* Each step of the cache is a step of the promise, or leaves it alone.    *)
LEMMA NextPromise == IInv /\ [Next]_vars => [Promise!Next]_(Promise!vars)
<1> SUFFICES ASSUME IInv, [Next]_vars PROVE [Promise!Next]_(Promise!vars)
  OBVIOUS
<1> USE CacheAssumption, TtlType
<1> DEFINE call == [c \in Calls |-> CallOf(task[c])]
           maxAge == [k \in Keys |-> Ttl(k) + MaxTransit]
<1>0. TypeOK /\ now \in Nat
  BY DEF IInv, TypeOK
<1>1. CASE UNCHANGED vars
  BY <1>1 DEF vars, Promise!vars
<1>2. CASE Tick
  BY <1>2 DEF Tick, Promise!Next, Promise!Tick
<1>3. ASSUME NEW c \in Calls, NEW k \in Keys, Hit(c, k) PROVE Promise!Answer(c, k)
  <2> DEFINE a == cache[k].at
  <2>1. a \in 0 .. now /\ now < a + maxAge[k]
    BY <1>3, <1>0 DEF Hit, Valid, IInv, EntryAge, TypeOK, Entry
  <2>2. call' = [call EXCEPT ![c] = [pc |-> "answered", key |-> k, at |-> a]]
    <3> DEFINE t == [pc |-> "returned", key |-> k, at |-> a]
    <3>1. task' = [task EXCEPT ![c] = t]
      BY <1>3 DEF Hit, Return
    <3>2. CallOf(t) = [pc |-> "answered", key |-> k, at |-> a]
      BY DEF CallOf
    <3> HIDE DEF t
    <3> QED BY <1>0, <3>1, <3>2 DEF TypeOK
  <2>3. call[c].pc \in {"idle", "answered", "failed"}
    BY <1>3, <1>0, FreeIsReady DEF Hit
  <2> QED BY <2>1, <2>2, <2>3, <1>3 DEF Promise!Answer, Promise!Ready, Hit
<1>4. ASSUME NEW c \in Calls, NEW k \in Keys, Miss(c, k) PROVE Promise!Ask(c, k)
  <2>1. call' = [call EXCEPT ![c] = [pc |-> "pending", key |-> k]]
    <3> DEFINE t == [pc |-> "fetching", key |-> k, began |-> now]
    <3>1. task' = [task EXCEPT ![c] = t]
      BY <1>4 DEF Miss
    <3>2. CallOf(t) = [pc |-> "pending", key |-> k]
      BY DEF CallOf
    <3> HIDE DEF t
    <3> QED BY <1>0, <3>1, <3>2 DEF TypeOK
  <2>2. call[c].pc \in {"idle", "answered", "failed"}
    BY <1>4, <1>0, FreeIsReady DEF Miss
  <2> QED BY <2>1, <2>2, <1>4 DEF Promise!Ask, Promise!Ready, Miss
<1>5. ASSUME NEW c \in Calls, NEW k \in Keys, Fill(c, k) PROVE Promise!Answer(c, k)
  <2>a. task[c].began \in Nat
    BY <1>5, <1>0 DEF Fill, Fetching, TypeOK, Task
  <2>b. PICK a \in task[c].began .. now : now <= a + MaxTransit /\ Store(c, k, a)
    BY <1>5 DEF Fill
  <2>1. a \in 0 .. now /\ now < a + maxAge[k]
    BY <2>a, <2>b, <1>0
  <2>2. call' = [call EXCEPT ![c] = [pc |-> "answered", key |-> k, at |-> a]]
    <3> DEFINE t == [pc |-> "returned", key |-> k, at |-> a]
    <3>1. task' = [task EXCEPT ![c] = t]
      BY <2>b DEF Store, Return
    <3>2. CallOf(t) = [pc |-> "answered", key |-> k, at |-> a]
      BY DEF CallOf
    <3> HIDE DEF t
    <3> QED BY <1>0, <3>1, <3>2 DEF TypeOK
  <2>3. call[c] = [pc |-> "pending", key |-> k]
    BY <1>5, <1>0, FetchingIsPending DEF Fill
  <2> QED BY <2>1, <2>2, <2>3, <2>b DEF Promise!Answer, Store
<1>6. ASSUME NEW c \in Calls, NEW k \in Keys, Raise(c, k) PROVE Promise!Fail(c, k)
  <2>1. call' = [call EXCEPT ![c] = [pc |-> "failed", key |-> k]]
    <3> DEFINE t == [pc |-> "raised", key |-> k]
    <3>1. task' = [task EXCEPT ![c] = t]
      BY <1>6 DEF Raise
    <3>2. CallOf(t) = [pc |-> "failed", key |-> k]
      BY DEF CallOf
    <3> HIDE DEF t
    <3> QED BY <1>0, <3>1, <3>2 DEF TypeOK
  <2>2. call[c] = [pc |-> "pending", key |-> k]
    BY <1>6, <1>0, FetchingIsPending DEF Raise
  <2> QED BY <2>1, <2>2, <1>6 DEF Promise!Fail, Raise
<1> QED BY <1>1, <1>2, <1>3, <1>4, <1>5, <1>6 DEF Next, Await, Promise!Next

(* The cache implements the promise of FreshData: whatever the order of    *)
(* hits, misses, stores and failures of any number of tasks, an answer is  *)
(* younger than the TTL of its method plus the transit bound.              *)
THEOREM ImplementsPromise == Spec => KeepsPromise
<1>1. Spec => []IInv /\ [][Next]_vars /\ Init
  BY Invariant, PTL DEF Spec
<1> QED BY <1>1, InitPromise, NextPromise, PTL DEF KeepsPromise, Promise!Spec
=============================================================================
