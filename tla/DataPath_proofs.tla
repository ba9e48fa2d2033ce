--------------------------- MODULE DataPath_proofs --------------------------
(***************************************************************************)
(* Proofs about MCDataPath, for any calls, keys, methods, limits, delays   *)
(* and lifetimes: the retries and the requests under them do what the      *)
(* cache assumes of its inner port, so the wired path keeps the promise of *)
(* the cache; and every store is kept for the whole TTL.  What a call is   *)
(* like in between is taken from RetryingAdapter_proofs, by instance.      *)
(***************************************************************************)
EXTENDS MCDataPath, CachingAdapter_proofs

\* The errors that the attempts met: a history of MCRetryingAdapter, of no account here.
VARIABLE failures

Tries == INSTANCE RetryingAdapter_proofs

\* A task fetches exactly while its call is pending.
Linked == \A c \in Calls : Retry!Pending(c) <=> task[c].pc = "fetching"

\* The requests of an attempt run out together, and what it has gathered was sent
\* when they were, or later.
Prompt(c) ==
  call[c].pc = "trying" =>
    /\ gathered[c] \in task[c].began .. now
    /\ \A r \in open : r.call = c /\ r.attempt = call[c].attempt =>
         /\ r.left <= RequestSeconds
         /\ now <= gathered[c] + (RequestSeconds - r.left)
         /\ \A q \in open : q.call = c /\ q.attempt = r.attempt => q.left = r.left

(* The inductive invariant, over those of the cache and of the retries.    *)
PathInv == /\ IInv
           /\ Tries!IInv /\ Tries!TimeInv
           /\ gathered \in [Calls -> Nat]
           /\ Linked
           /\ \A c \in Calls : Prompt(c)

-----------------------------------------------------------------------------
LEMMA TriesAssumption == Tries!RetryAssumption
BY DataPathAssumption DEF DataPathAssumption, Retry!RetryAssumption, Tries!RetryAssumption

\* The retries are the same module, whether by DataPath or by the proofs about it.
LEMMA SamePowers == Retry!PowerOfTwo = Tries!PowerOfTwo
BY DEF Retry!PowerOfTwo, Tries!PowerOfTwo

LEMMA SameTry ==
  ASSUME NEW c, NEW m, NEW n, NEW a, Retry!Try(c, m, n, a)
  PROVE  Tries!Try(c, m, n, a)
BY DEF Retry!Try, Tries!Try, Retry!Attempts, Tries!Attempts, Retry!Set, Tries!Set, Retry!Fail,
       Tries!Fail, Retry!Requests, Tries!Requests, Retry!Parts, Tries!Parts

LEMMA SameReply ==
  ASSUME NEW r, NEW reply, Retry!Reply(r, reply)
  PROVE  Tries!Reply(r, reply)
<1>1. \A part : Retry!Outcome(part, reply) = Tries!Outcome(part, reply)
  BY DEF Retry!Outcome, Tries!Outcome
<1>2. \A c, part : Retry!PartSucceeds(c, part) => Tries!PartSucceeds(c, part)
  BY DEF Retry!PartSucceeds, Tries!PartSucceeds, Retry!Set, Tries!Set, Retry!Parts, Tries!Parts
<1>3. \A c, error : Retry!AttemptFails(c, error) => Tries!AttemptFails(c, error)
  BY SamePowers
     DEF Retry!AttemptFails, Tries!AttemptFails, Retry!Set, Tries!Set, Retry!Fail, Tries!Fail,
         Retry!IsLast, Tries!IsLast, Retry!Attempts, Tries!Attempts, Retry!Backoff, Tries!Backoff
<1>4. Retry!Awaited(r) <=> Tries!Awaited(r)
  BY DEF Retry!Awaited, Tries!Awaited
<1> QED
  BY <1>1, <1>2, <1>3, <1>4 DEF Retry!Reply, Tries!Reply

LEMMA SameRetry ==
  ASSUME NEW c, NEW m
  PROVE  /\ Retry!Begin(c, m) => Tries!Begin(c, m)
         /\ Retry!Replying(c) => Tries!Replying(c)
         /\ Retry!Wake(c) => Tries!Wake(c)
         /\ Retry!Cancel(c) => Tries!Cancel(c)
         /\ Retry!Tick => Tries!Tick
         /\ Retry!Init => Tries!Init
         /\ m \in Retry!Methods => m \in Tries!Methods
<1>1. Retry!Begin(c, m) => Tries!Begin(c, m)
  BY SameTry DEF Retry!Begin, Tries!Begin, Retry!Pending, Tries!Pending
<1>2. Retry!Replying(c) => Tries!Replying(c)
  BY SameReply DEF Retry!Replying, Tries!Replying, Retry!Replies, Tries!Replies
<1>3. Retry!Wake(c) => Tries!Wake(c)
  BY SameTry DEF Retry!Wake, Tries!Wake
<1>4. Retry!Cancel(c) => Tries!Cancel(c)
  BY DEF Retry!Cancel, Tries!Cancel, Retry!Pending, Tries!Pending, Retry!Fail, Tries!Fail,
         Retry!Set, Tries!Set, Retry!Awaited, Tries!Awaited
<1>5. Retry!Tick => Tries!Tick
  BY DEF Retry!Tick, Tries!Tick
<1>6. Retry!Init => Tries!Init
  BY DEF Retry!Init, Tries!Init
<1>7. m \in Retry!Methods => m \in Tries!Methods
  BY DEF Retry!Methods, Tries!Methods
<1> QED
  BY <1>1, <1>2, <1>3, <1>4, <1>5, <1>6, <1>7

\* What holds of the retries alone holds of them under the cache.
LEMMA TriesKeep ==
  ASSUME Tries!IInv, Tries!TimeInv, [PathNext]_pathvars
  PROVE  (Tries!IInv /\ Tries!TimeInv)'
<1>1. PathTick => Tries!Tick
  BY SameRetry DEF PathTick
<1>2. ASSUME NEW c \in Calls, PathReplying(c) \/ PathWake(c)
      PROVE  Tries!Replying(c) \/ Tries!Wake(c)
  <2>1. PathReplying(c) => Retry!Replying(c)
    BY DEF PathReplying, PathReply, Retry!Replying
  <2> QED
    BY <1>2, <2>1, SameRetry DEF PathWake
<1>3. ASSUME NEW c \in Calls, NEW k \in Keys, StartFetch(c, k) \/ PathCancel(c, k)
      PROVE  Tries!Cancel(c) \/ \E m \in Tries!Methods : Tries!Begin(c, m)
  <2>1. MethodOf[k] \in Tries!Methods
    BY DataPathAssumption, SameRetry DEF DataPathAssumption
  <2> QED
    BY <1>3, <2>1, SameRetry DEF StartFetch, PathCancel
<1>4. ASSUME NEW c \in Calls, NEW k \in Keys, PathHit(c, k)
      PROVE  UNCHANGED retryvars
  BY <1>4 DEF PathHit
<1>5. [Tries!Next]_(Tries!vars)
  BY <1>1, <1>2, <1>3, <1>4 DEF PathNext, Tries!Next, pathvars, retryvars, Tries!vars
<1> QED
  BY <1>5, TriesAssumption, Tries!NextIInv, Tries!NextTimeInv

-----------------------------------------------------------------------------
\* What the invariant says of the state of the retries.
LEMMA PathTypes ==
  ASSUME PathInv
  PROVE  /\ call = [c \in Calls |-> call[c]]
         /\ \A c \in Calls : Retry!Pending(c) => call[c].attempt \in Nat /\ call[c].method \in Retry!Methods
         /\ \A c \in Calls : Retry!Pending(c) <=> call[c].pc \in {"trying", "sleeping"}
         /\ \A c \in Calls : call[c].pc = "sleeping" => call[c].attempt + 1 < Retry!Attempts
         /\ \A r \in open : /\ r.call \in Calls /\ r.attempt \in Nat /\ r.left \in Nat
                            /\ call[r.call].pc = "sleeping" => r.attempt <= call[r.call].attempt
         /\ Retry!Attempts \in Nat /\ Retry!Attempts >= 1
         /\ now \in Nat /\ RequestSeconds \in Nat /\ MaxTransit = RequestSeconds
<1>1. call \in [Calls -> Tries!Call] /\ open \subseteq Tries!Request /\ maxAttempts \in Limits
  BY DEF PathInv, Tries!TimeInv, Tries!TypeOK
<1>2. \A c \in Calls : call[c].pc \in {"trying", "sleeping"} =>
                         call[c].method \in Tries!Methods /\ call[c].attempt \in Nat
  BY <1>1, TriesAssumption, Tries!CallTypes
<1>3. Tries!Methods = Retry!Methods /\ Tries!Attempts = Retry!Attempts
  BY DEF Tries!Methods, Retry!Methods, Tries!Attempts, Retry!Attempts
<1>4. Tries!Attempts \in Nat /\ Tries!Attempts >= 1
  BY <1>1, TriesAssumption, Tries!AttemptsType DEF Tries!RetryAssumption
<1>5. \A c \in Calls : call[c].pc = "sleeping" => call[c].attempt + 1 < Tries!Attempts
  BY DEF PathInv, Tries!TimeInv, Tries!Timely
<1>6. \A r \in open : call[r.call].pc = "sleeping" => r.attempt <= call[r.call].attempt
  BY DEF PathInv, Tries!IInv, Tries!Knows
<1>7. now \in Nat /\ RequestSeconds \in Nat /\ MaxTransit = RequestSeconds
  BY TriesAssumption, DataPathAssumption
     DEF PathInv, IInv, TypeOK, Tries!RetryAssumption, DataPathAssumption
<1> QED
  BY <1>1, <1>2, <1>3, <1>4, <1>5, <1>6, <1>7 DEF Retry!Pending, Tries!Request

\* A step of one call between two instants of the clock.
LEMMA PathMoves ==
  ASSUME PathInv, (IInv /\ Tries!IInv /\ Tries!TimeInv)', NEW c \in Calls, UNCHANGED now,
         gathered' = [gathered EXCEPT ![c] = gathered'[c]], gathered'[c] \in Nat,
         \A d \in Calls \ {c} : call'[d] = call[d] /\ task'[d] = task[d],
         \A r : r.call # c => (r \in open' => r \in open),
         Retry!Pending(c)' <=> task'[c].pc = "fetching", Prompt(c)'
  PROVE  PathInv'
<1>1. gathered' \in [Calls -> Nat] /\ \A d \in Calls \ {c} : gathered'[d] = gathered[d]
  BY DEF PathInv
<1>2. ASSUME NEW d \in Calls, d # c
      PROVE  (Retry!Pending(d)' <=> task'[d].pc = "fetching") /\ Prompt(d)'
  <2>1. call'[d] = call[d] /\ task'[d] = task[d] /\ gathered'[d] = gathered[d]
    BY <1>1, <1>2
  <2>2. \A r \in open' : r.call = d => r \in open
    BY <1>2
  <2>3. Prompt(d) /\ (Retry!Pending(d) <=> task[d].pc = "fetching")
    BY DEF PathInv, Linked
  <2> QED
    BY <2>1, <2>2, <2>3 DEF Prompt, Retry!Pending
<1>3. \A d \in Calls : Retry!Pending(d)' <=> task'[d].pc = "fetching"
  BY <1>2
<1>4. \A d \in Calls : Prompt(d)'
  BY <1>2
<1> QED
  BY <1>1, <1>3, <1>4 DEF PathInv, Linked

\* An attempt begins: its requests are all as new as the clock.
LEMMA Tried ==
  ASSUME PathInv, NEW c \in Calls, NEW m, NEW n \in Nat, NEW a, Retry!Try(c, m, n, a),
         n < Retry!Attempts, \A r \in open : r.call = c => r.attempt < n
  PROVE  /\ call'[c].pc = "trying" /\ call'[c].attempt = n
         /\ \A d \in Calls \ {c} : call'[d] = call[d]
         /\ \A r : r.call # c => (r \in open' => r \in open)
         /\ \A r \in open' : r.call = c /\ r.attempt = n => r.left = RequestSeconds
<1> DEFINE t == [pc |-> "trying", method |-> m, attempt |-> n, age |-> a, got |-> {}]
           new == Retry!Requests(c, m, n)
<1>1. call' = [call EXCEPT ![c] = t] /\ open' = open \union new
  BY DEF Retry!Try, Retry!Set
<1>2. t.pc = "trying" /\ t.attempt = n
  OBVIOUS
<1>3. \A r \in new : r.call = c /\ r.left = RequestSeconds
  BY DEF Retry!Requests
<1> HIDE DEF t, new
<1>4. call = [d \in Calls |-> call[d]] /\ \A r \in open : r.attempt \in Nat
  BY PathTypes
<1>5. call'[c] = t /\ \A d \in Calls \ {c} : call'[d] = call[d]
  BY <1>1, <1>4
<1> QED
  BY <1>1, <1>2, <1>3, <1>4, <1>5

\* The attempt that began is prompt.
LEMMA TriedIsPrompt ==
  ASSUME PathInv, NEW c \in Calls, UNCHANGED now, call'[c].pc = "trying",
         gathered'[c] = now, task'[c].began \in Nat, task'[c].began <= now,
         \A r \in open' : r.call = c /\ r.attempt = call'[c].attempt => r.left = RequestSeconds
  PROVE  Prompt(c)'
<1>1. now \in Nat /\ RequestSeconds \in Nat
  BY PathTypes
<1>2. gathered'[c] \in task'[c].began .. now'
  BY <1>1
<1> QED
  BY <1>1, <1>2 DEF Prompt

LEMMA GatherMoves ==
  ASSUME PathInv, NEW c \in Calls, NEW at \in Nat, Gather(c, at)
  PROVE  /\ gathered' = [gathered EXCEPT ![c] = gathered'[c]]
         /\ gathered'[c] = (IF call'[c].pc = "trying" THEN at ELSE 0)
         /\ gathered'[c] \in Nat
BY DEF PathInv, Gather

LEMMA BeganInTime ==
  ASSUME PathInv, NEW c \in Calls, Retry!Pending(c)
  PROVE  /\ task[c].key \in Keys /\ Fetching(c, task[c].key)
         /\ task[c].began \in Nat /\ task[c].began <= now
<1>1. task[c].pc = "fetching" /\ task[c] \in Task
  BY DEF PathInv, Linked, IInv, TypeOK
<1>2. task[c].key \in Keys /\ task[c].began \in Nat
  BY <1>1 DEF Task
<1> QED
  BY <1>1, <1>2 DEF PathInv, IInv, BeganBefore, Fetching

-----------------------------------------------------------------------------
LEMMA HitKeepsPath ==
  ASSUME PathInv, (IInv /\ Tries!IInv /\ Tries!TimeInv)', NEW c \in Calls, NEW k \in Keys, PathHit(c, k)
  PROVE  PathInv'
<1>1. /\ Hit(c, k) /\ UNCHANGED <<maxAttempts, call, open, gathered, now>>
  BY DEF PathHit, retryvars, Hit
<1>2. ~Retry!Pending(c)
  BY <1>1 DEF Hit, Free, PathInv, Linked
<1>3. \A d \in Calls \ {c} : task'[d] = task[d]
  BY <1>1 DEF Hit, Return, PathInv, IInv, TypeOK
<1>4. task'[c].pc = "returned"
  BY <1>1 DEF Hit, Return, PathInv, IInv, TypeOK
<1>5. Retry!Pending(c)' <=> task'[c].pc = "fetching"
  BY <1>1, <1>2, <1>4 DEF Retry!Pending
<1>6. Prompt(c)'
  BY <1>1, <1>2 DEF Prompt, Retry!Pending
<1>7. gathered' = [gathered EXCEPT ![c] = gathered'[c]] /\ gathered'[c] \in Nat
  <2>1. gathered' = gathered /\ gathered \in [Calls -> Nat]
    BY <1>1 DEF PathInv
  <2> QED
    BY <2>1
<1> QED
  BY <1>1, <1>3, <1>5, <1>6, <1>7, PathMoves

LEMMA StartKeepsPath ==
  ASSUME PathInv, (IInv /\ Tries!IInv /\ Tries!TimeInv)', NEW c \in Calls, NEW k \in Keys, StartFetch(c, k)
  PROVE  PathInv'
<1>1. Miss(c, k) /\ Retry!Begin(c, MethodOf[k]) /\ Gather(c, now) /\ UNCHANGED now
  BY DEF StartFetch, Miss
<1>2. Retry!Try(c, MethodOf[k], 0, 0) /\ \A r \in open : r.call # c
  BY <1>1 DEF Retry!Begin
<1>3. /\ call'[c].pc = "trying" /\ call'[c].attempt = 0
      /\ \A d \in Calls \ {c} : call'[d] = call[d]
      /\ \A r : r.call # c => (r \in open' => r \in open)
      /\ \A r \in open' : r.call = c /\ r.attempt = 0 => r.left = RequestSeconds
  <2>1. 0 \in Nat /\ 0 < Retry!Attempts
    BY PathTypes
  <2>2. \A r \in open : r.call = c => r.attempt < 0
    BY <1>2
  <2> QED
    BY <1>2, <2>1, <2>2, Tried
<1>4. /\ task'[c].pc = "fetching" /\ task'[c].began = now
      /\ \A d \in Calls \ {c} : task'[d] = task[d]
  BY <1>1 DEF Miss, PathInv, IInv, TypeOK
<1>5. now \in Nat
  BY PathTypes
<1>6. /\ gathered' = [gathered EXCEPT ![c] = gathered'[c]] /\ gathered'[c] = now
  BY <1>1, <1>3, <1>5, GatherMoves
<1>7. Prompt(c)'
  BY <1>1, <1>3, <1>4, <1>5, <1>6, TriedIsPrompt
<1>8. Retry!Pending(c)' <=> task'[c].pc = "fetching"
  BY <1>3, <1>4 DEF Retry!Pending
<1> QED
  BY <1>1, <1>3, <1>4, <1>5, <1>6, <1>7, <1>8, PathMoves

LEMMA WakeKeepsPath ==
  ASSUME PathInv, (IInv /\ Tries!IInv /\ Tries!TimeInv)', NEW c \in Calls, PathWake(c)
  PROVE  PathInv'
<1> DEFINE n == call[c].attempt
<1>1. Retry!Wake(c) /\ Gather(c, now) /\ UNCHANGED <<now, cache, task>>
  BY DEF PathWake, vars
<1>2. call[c].pc = "sleeping" /\ Retry!Try(c, call[c].method, n + 1, call[c].age)
  BY <1>1 DEF Retry!Wake
<1>3. n \in Nat /\ n + 1 < Retry!Attempts /\ Retry!Pending(c) /\ n + 1 \in Nat
  BY <1>2, PathTypes
<1>4. \A r \in open : r.call = c => r.attempt < n + 1
  BY <1>2, <1>3, PathTypes
<1>5. /\ call'[c].pc = "trying" /\ call'[c].attempt = n + 1
      /\ \A d \in Calls \ {c} : call'[d] = call[d]
      /\ \A r : r.call # c => (r \in open' => r \in open)
      /\ \A r \in open' : r.call = c /\ r.attempt = n + 1 => r.left = RequestSeconds
  BY <1>2, <1>3, <1>4, Tried
<1>6. now \in Nat
  BY PathTypes
<1>7. gathered' = [gathered EXCEPT ![c] = gathered'[c]] /\ gathered'[c] = now
  BY <1>1, <1>5, <1>6, GatherMoves
<1>8. task[c].pc = "fetching" /\ task[c].began \in Nat /\ task[c].began <= now
  BY <1>3, BeganInTime DEF Fetching
<1> HIDE DEF n
<1>9. Prompt(c)'
  BY <1>1, <1>5, <1>7, <1>8, TriedIsPrompt
<1>10. Retry!Pending(c)' <=> task'[c].pc = "fetching"
  BY <1>1, <1>5, <1>8 DEF Retry!Pending
<1> QED
  BY <1>1, <1>5, <1>6, <1>7, <1>9, <1>10, PathMoves

LEMMA CancelKeepsPath ==
  ASSUME PathInv, (IInv /\ Tries!IInv /\ Tries!TimeInv)', NEW c \in Calls, NEW k \in Keys, PathCancel(c, k)
  PROVE  PathInv'
<1>1. Retry!Cancel(c) /\ Raise(c, k) /\ Gather(c, 0) /\ UNCHANGED now
  BY DEF PathCancel, Raise
<1>2. call' = [call EXCEPT ![c] = [pc |-> "raised", error |-> "cancelled"]] /\ open' \subseteq open
  BY <1>1 DEF Retry!Cancel, Retry!Fail, Retry!Set
<1>3. call'[c].pc = "raised" /\ \A d \in Calls \ {c} : call'[d] = call[d]
  BY <1>2, PathTypes
<1>4. task'[c].pc = "raised" /\ \A d \in Calls \ {c} : task'[d] = task[d]
  BY <1>1 DEF Raise, PathInv, IInv, TypeOK
<1>5. gathered' = [gathered EXCEPT ![c] = gathered'[c]] /\ gathered'[c] \in Nat
  BY <1>1, GatherMoves
<1>6. (Retry!Pending(c)' <=> task'[c].pc = "fetching") /\ Prompt(c)'
  BY <1>3, <1>4 DEF Retry!Pending, Prompt
<1> QED
  BY <1>1, <1>2, <1>3, <1>4, <1>5, <1>6, PathMoves

-----------------------------------------------------------------------------
\* A reply changes the call that awaits it, and no other.
LEMMA ReplyMoves ==
  ASSUME PathInv, NEW r \in open, NEW reply, Retry!Reply(r, reply)
  PROVE  LET c == r.call
         IN  /\ c \in Calls /\ open' = open \ {r}
             /\ \A d \in Calls \ {c} : call'[d] = call[d]
             /\ call'[c] # call[c] => Retry!Awaited(r)
             /\ Retry!Awaited(r) /\ call'[c].pc = "trying" => call'[c].attempt = call[c].attempt
<1> DEFINE c == r.call
           outcome == Retry!Outcome(r.part, reply)
<1>0. c \in Calls /\ open' = open \ {r} /\ call = [d \in Calls |-> call[d]]
  BY PathTypes DEF Retry!Reply
<1>1. CASE ~Retry!Awaited(r)
  BY <1>0, <1>1 DEF Retry!Reply
<1>2. CASE Retry!Awaited(r) /\ outcome = "ok"
  <2> DEFINE got == call[c].got \union {r.part}
  <2>1. Retry!PartSucceeds(c, r.part)
    BY <1>2 DEF Retry!Reply
  <2>2. CASE got = Retry!Parts(call[c].method)
    <3>1. call' = [call EXCEPT ![c] = [pc |-> "returned", method |-> call[c].method,
                                       attempt |-> call[c].attempt]]
      BY <2>1, <2>2 DEF Retry!PartSucceeds, Retry!Set
    <3>2. call'[c].pc = "returned" /\ \A d \in Calls \ {c} : call'[d] = call[d]
      BY <1>0, <3>1
    <3> QED
      BY <1>0, <1>2, <3>2
  <2>3. CASE got # Retry!Parts(call[c].method)
    <3>1. call' = [call EXCEPT ![c] = [call[c] EXCEPT !.got = got]]
      BY <2>1, <2>3 DEF Retry!PartSucceeds, Retry!Set
    <3> HIDE DEF got
    <3>2. PICK m, n, a, g : call[c] = Tries!Trying(m, n, a, g)
      <4>1. Tries!Shape(call[c]) /\ call[c].pc = "trying"
        BY <1>0, <1>2 DEF PathInv, Tries!IInv, Retry!Awaited
      <4> QED
        BY <4>1, TriesAssumption, Tries!ShapeOf
    <3>3. [call[c] EXCEPT !.got = got] = Tries!Trying(m, n, a, got)
      BY <3>2 DEF Tries!Trying
    <3>4. call'[c] = Tries!Trying(m, n, a, got) /\ \A d \in Calls \ {c} : call'[d] = call[d]
      BY <1>0, <3>1, <3>3
    <3>5. call'[c].attempt = call[c].attempt
      BY <3>2, <3>4, TriesAssumption, Tries!TryingFields
    <3> QED
      BY <1>0, <1>2, <3>4, <3>5
  <2> QED
    BY <2>2, <2>3
<1>3. CASE Retry!Awaited(r) /\ outcome # "ok"
  <2>1. Retry!AttemptFails(c, outcome)
    BY <1>3 DEF Retry!Reply
  <2>2. PICK t : call' = [call EXCEPT ![c] = t] /\ t.pc # "trying"
    <3>1. PICK t : /\ t = [pc |-> "raised", error |-> outcome]
                      \/ t = [pc |-> "sleeping", method |-> call[c].method,
                              attempt |-> call[c].attempt, age |-> call[c].age,
                              left |-> Retry!Backoff(call[c].attempt)]
                   /\ call' = [call EXCEPT ![c] = t]
      BY <2>1 DEF Retry!AttemptFails, Retry!Fail, Retry!Set
    <3>2. t.pc # "trying"
      BY <3>1
    <3> QED
      BY <3>1, <3>2
  <2>3. call'[c].pc # "trying" /\ \A d \in Calls \ {c} : call'[d] = call[d]
    BY <1>0, <2>2
  <2> QED
    BY <1>0, <1>3, <2>3
<1> QED
  BY <1>1, <1>2, <1>3

\* What a call has gathered is not older than its fetch, nor than the timeout allows.
LEMMA OldestInTime ==
  ASSUME PathInv, NEW r \in open, r.call \in Calls, call[r.call].pc = "trying"
  PROVE  /\ Oldest(r) \in task[r.call].began .. now /\ Oldest(r) \in Nat
         /\ Retry!Awaited(r) => now <= Oldest(r) + MaxTransit
         /\ \A q \in open : q.call = r.call /\ q.attempt = call[r.call].attempt =>
              now <= Oldest(r) + (RequestSeconds - q.left)
<1> DEFINE c == r.call
<1>1. /\ task[c].began \in Nat /\ task[c].began <= now /\ now \in Nat
      /\ RequestSeconds \in Nat /\ MaxTransit = RequestSeconds /\ \A q \in open : q.left \in Nat
  BY BeganInTime, PathTypes
<1>2. Prompt(c) /\ gathered[c] \in Nat
  BY DEF PathInv
<1>3. gathered[c] \in task[c].began .. now
  BY <1>2 DEF Prompt
<1>4. CASE ~Retry!Awaited(r)
  <2>1. Oldest(r) = gathered[c]
    BY <1>4 DEF Oldest
  <2> QED
    BY <1>1, <1>2, <1>3, <1>4, <2>1 DEF Prompt
<1>5. CASE Retry!Awaited(r)
  <2>0. r.attempt = call[c].attempt
    BY <1>5 DEF Retry!Awaited
  <2>1. r.left <= RequestSeconds /\ now <= gathered[c] + (RequestSeconds - r.left)
    BY <1>2, <2>0 DEF Prompt
  <2>2. \A q \in open : q.call = c /\ q.attempt = call[c].attempt => q.left = r.left
    BY <1>2, <2>0 DEF Prompt
  <2> DEFINE s == Sent(r)
  <2>3. s \in task[c].began .. now /\ s \in Nat /\ now <= s + (RequestSeconds - r.left)
    BY <1>1, <2>1 DEF Sent, Larger
  <2>4. Oldest(r) = Smaller(gathered[c], s)
    BY <1>5 DEF Oldest
  <2> HIDE DEF s
  <2>5. /\ Oldest(r) \in task[c].began .. now /\ Oldest(r) \in Nat
        /\ now <= Oldest(r) + (RequestSeconds - r.left)
    BY <1>1, <1>2, <1>3, <2>1, <2>3, <2>4 DEF Smaller
  <2>6. now <= Oldest(r) + MaxTransit
    BY <1>1, <2>5
  <2> QED
    BY <2>2, <2>5, <2>6
<1> QED
  BY <1>4, <1>5

\* The reply that ends a call ends the fetch of its task, and what the task stores is
\* what the cache takes a fetch to bring.
LEMMA ReplyFills ==
  ASSUME PathInv, NEW r \in open, NEW reply, PathReply(r, reply)
  PROVE  LET c == r.call
             k == task[c].key
         IN  \/ (call'[c] = call[c] \/ Retry!Pending(c)') /\ UNCHANGED vars
             \/ call'[c].pc = "returned" /\ k \in Keys /\ Fill(c, k)
             \/ call'[c].pc = "raised" /\ k \in Keys /\ Raise(c, k)
<1> DEFINE c == r.call
           k == task[c].key
<1>1. ASSUME call'[c] # call[c]
      PROVE  c \in Calls /\ Retry!Awaited(r) /\ call[c].pc = "trying" /\ k \in Keys /\ Fetching(c, k)
  <2>1. Retry!Reply(r, reply)
    BY DEF PathReply
  <2>2. c \in Calls /\ Retry!Awaited(r)
    BY <1>1, <2>1, ReplyMoves
  <2>3. call[c].pc = "trying" /\ Retry!Pending(c)
    BY <2>2 DEF Retry!Awaited, Retry!Pending
  <2> QED
    BY <2>2, <2>3, BeganInTime
<1>2. CASE call'[c] # call[c] /\ call'[c].pc = "returned" /\ Store(c, k, Oldest(r))
  <2>1. Oldest(r) \in task[c].began .. now /\ now <= Oldest(r) + MaxTransit
    BY <1>1, <1>2, OldestInTime
  <2> QED
    BY <1>1, <1>2, <2>1 DEF Fill
<1> QED
  BY <1>1, <1>2 DEF PathReply

LEMMA ReplyKeepsPath ==
  ASSUME PathInv, (IInv /\ Tries!IInv /\ Tries!TimeInv)', NEW r \in open, NEW reply, PathReply(r, reply)
  PROVE  PathInv'
<1> DEFINE c == r.call
           k == task[c].key
           at == Oldest(r)
<1>1. Retry!Reply(r, reply) /\ Gather(c, at)
  BY DEF PathReply
<1>2. /\ c \in Calls /\ open' = open \ {r}
      /\ \A d \in Calls \ {c} : call'[d] = call[d]
      /\ call'[c] # call[c] => Retry!Awaited(r)
      /\ Retry!Awaited(r) /\ call'[c].pc = "trying" => call'[c].attempt = call[c].attempt
  BY <1>1, ReplyMoves
<1>3. Retry!Awaited(r) => call[c].pc = "trying" /\ Retry!Pending(c)
  BY DEF Retry!Awaited, Retry!Pending
<1>4. UNCHANGED now /\ \A d \in Calls \ {c} : task'[d] = task[d]
  BY ReplyFills DEF vars, Fill, Store, Return, Raise, PathInv, IInv, TypeOK
<1>5. Retry!Pending(c)' <=> task'[c].pc = "fetching"
  <2>1. CASE UNCHANGED vars /\ call'[c] = call[c]
    BY <1>2, <2>1 DEF vars, PathInv, Linked, Retry!Pending
  <2>2. CASE UNCHANGED vars /\ call'[c] # call[c] /\ Retry!Pending(c)'
    BY <1>2, <1>3, <2>2 DEF vars, PathInv, Linked
  <2>3. CASE call'[c].pc = "returned" /\ Fill(c, k)
    BY <1>2, <2>3 DEF Fill, Store, Return, PathInv, IInv, TypeOK, Retry!Pending
  <2>4. CASE call'[c].pc = "raised" /\ Raise(c, k)
    BY <1>2, <2>4 DEF Raise, PathInv, IInv, TypeOK, Retry!Pending
  <2> QED
    BY <2>1, <2>2, <2>3, <2>4, ReplyFills
<1>6. CASE call'[c].pc = "trying"
  <2>1. call[c].pc = "trying" /\ call'[c].attempt = call[c].attempt
    BY <1>2, <1>3, <1>6
  <2>2. /\ at \in task[c].began .. now /\ at \in Nat
        /\ \A q \in open : q.call = c /\ q.attempt = call[c].attempt =>
             now <= at + (RequestSeconds - q.left)
    BY <1>2, <2>1, OldestInTime
  <2>3. task'[c] = task[c]
    BY <1>6, ReplyFills DEF vars
  <2> HIDE DEF at
  <2>4. gathered' = [gathered EXCEPT ![c] = gathered'[c]] /\ gathered'[c] = at
    BY <1>1, <1>2, <1>6, <2>2, GatherMoves
  <2>5. Prompt(c)
    BY <1>2 DEF PathInv
  <2>6. Prompt(c)'
    BY <1>2, <1>4, <2>1, <2>2, <2>3, <2>4, <2>5 DEF Prompt
  <2> QED
    BY <1>2, <1>4, <1>5, <2>2, <2>4, <2>6, PathMoves
<1>7. CASE call'[c].pc # "trying"
  <2>1. Prompt(c)'
    BY <1>7 DEF Prompt
  <2>2. gathered' = [gathered EXCEPT ![c] = gathered'[c]] /\ gathered'[c] = 0
    BY <1>1, <1>2, <1>7 DEF Gather, PathInv
  <2> QED
    BY <1>2, <1>4, <1>5, <2>1, <2>2, PathMoves
<1> QED
  BY <1>6, <1>7

\* As the clock goes on, less is left of the requests; it may have stopped before them.
LEMMA TickKeepsPath ==
  ASSUME PathInv, (IInv /\ Tries!IInv /\ Tries!TimeInv)', PathTick
  PROVE  PathInv'
<1> DEFINE Later(r) == [r EXCEPT !.left = @ - 1]
<1>1. /\ Retry!Tick /\ UNCHANGED <<task, gathered>> /\ now' \in {now, now + 1}
  BY DEF PathTick, Tick, vars
<1>2. open' = {Later(r) : r \in open} /\ \A r \in open : r.left > 0
  BY <1>1 DEF Retry!Tick
<1>3. \A r \in open : /\ Later(r).call = r.call /\ Later(r).attempt = r.attempt
                      /\ Later(r).left = r.left - 1 /\ r.left \in Nat
  BY DEF PathInv, Tries!TimeInv, Tries!TypeOK, Tries!Request
<1> HIDE DEF Later
<1>4. \A c \in Calls : /\ call'[c].pc = call[c].pc
                       /\ call[c].pc = "trying" => call'[c].attempt = call[c].attempt
  <2> TAKE c \in Calls
  <2>1. call[c] \in Tries!Call
    BY DEF PathInv, Tries!TimeInv, Tries!TypeOK
  <2>2. CASE call[c].pc = "trying"
    <3>1. PICK m, n, a, g : call[c] = Tries!Trying(m, n, a, g)
      BY <2>1, <2>2, TriesAssumption, Tries!CallTypes
    <3>2. call'[c] = [call[c] EXCEPT !.age = @ + 1]
      BY <1>1, <2>2 DEF Retry!Tick
    <3>3. call'[c] = Tries!Trying(m, n, a + 1, g)
      BY <3>1, <3>2 DEF Tries!Trying
    <3> QED
      BY <3>1, <3>3, TriesAssumption, Tries!TryingFields
  <2>3. CASE call[c].pc = "sleeping"
    <3>1. PICK m, n, a, l : call[c] = Tries!Sleeping(m, n, a, l)
      BY <2>1, <2>3, TriesAssumption, Tries!CallTypes
    <3>2. call'[c] = [[call[c] EXCEPT !.age = @ + 1] EXCEPT !.left = @ - 1]
      BY <1>1, <2>3 DEF Retry!Tick
    <3>3. [call[c] EXCEPT !.age = @ + 1] = Tries!Sleeping(m, n, a + 1, l)
      BY <3>1 DEF Tries!Sleeping
    <3>4. [Tries!Sleeping(m, n, a + 1, l) EXCEPT !.left = @ - 1] = Tries!Sleeping(m, n, a + 1, l - 1)
      BY DEF Tries!Sleeping
    <3>5. call'[c] = Tries!Sleeping(m, n, a + 1, l - 1)
      BY <3>2, <3>3, <3>4
    <3> QED
      BY <2>3, <3>5, TriesAssumption, Tries!SleepingFields
  <2>4. CASE call[c].pc \notin {"trying", "sleeping"}
    BY <1>1, <2>4 DEF Retry!Tick
  <2> QED
    BY <2>2, <2>3, <2>4
<1>5. Linked'
  BY <1>1, <1>4 DEF PathInv, Linked, Retry!Pending
<1>6. ASSUME NEW c \in Calls PROVE Prompt(c)'
  <2> SUFFICES ASSUME call'[c].pc = "trying" PROVE Prompt(c)'
    BY DEF Prompt
  <2>1. /\ call[c].pc = "trying" /\ call'[c].attempt = call[c].attempt /\ Prompt(c)
        /\ gathered[c] \in Nat /\ now \in Nat /\ RequestSeconds \in Nat
    BY <1>4, PathTypes DEF PathInv
  <2>2. gathered'[c] \in task'[c].began .. now'
    <3>1. task[c].began \in Nat
      BY <2>1, BeganInTime DEF Retry!Pending
    <3> QED
      BY <1>1, <2>1, <3>1 DEF Prompt
  <2>3. ASSUME NEW r \in open', r.call = c, r.attempt = call'[c].attempt
        PROVE  /\ r.left <= RequestSeconds /\ now' <= gathered'[c] + (RequestSeconds - r.left)
               /\ \A q \in open' : q.call = c /\ q.attempt = r.attempt => q.left = r.left
    <3>1. PICK s \in open : r = Later(s)
      BY <1>2
    <3>2. s.call = c /\ s.attempt = call[c].attempt /\ r.left = s.left - 1 /\ s.left \in Nat
      BY <1>3, <2>1, <2>3, <3>1
    <3>3. /\ s.left <= RequestSeconds /\ now <= gathered[c] + (RequestSeconds - s.left)
          /\ \A q \in open : q.call = c /\ q.attempt = s.attempt => q.left = s.left
      BY <2>1, <3>2 DEF Prompt
    <3>4. r.left <= RequestSeconds /\ now' <= gathered'[c] + (RequestSeconds - r.left)
      BY <1>1, <2>1, <3>2, <3>3
    <3>5. ASSUME NEW q \in open', q.call = c, q.attempt = r.attempt PROVE q.left = r.left
      <4>1. PICK p \in open : q = Later(p)
        BY <1>2
      <4> QED
        BY <1>3, <3>1, <3>2, <3>3, <3>5, <4>1
    <3> QED
      BY <3>4, <3>5
  <2> QED
    BY <2>2, <2>3 DEF Prompt
<1> QED
  BY <1>1, <1>5, <1>6 DEF PathInv

-----------------------------------------------------------------------------
\* A step of the wired adapters is a step of the cache, or leaves it alone.
LEMMA PathStep ==
  ASSUME PathInv, [PathNext]_pathvars
  PROVE  [Next]_vars
<1>1. PathTick => Tick \/ UNCHANGED vars
  BY DEF PathTick
<1>2. ASSUME NEW c \in Calls, PathReplying(c)
      PROVE  [Next]_vars
  <2>1. PICK r \in open, reply \in Retry!Replies : PathReply(r, reply)
    BY <1>2 DEF PathReplying
  <2>2. r.call \in Calls
    BY PathTypes
  <2> QED
    BY <2>1, <2>2, ReplyFills DEF Next, Await
<1>3. ASSUME NEW c \in Calls, NEW k \in Keys, PathHit(c, k) \/ StartFetch(c, k) \/ PathCancel(c, k)
      PROVE  Next
  BY <1>3 DEF PathHit, StartFetch, PathCancel, Next, Await
<1> QED
  BY <1>1, <1>2, <1>3 DEF PathNext, PathWake, Next, pathvars

LEMMA InitPathInv == PathInit => PathInv
<1> SUFFICES ASSUME PathInit PROVE PathInv
  OBVIOUS
<1>1. Init /\ Retry!Init /\ gathered = [c \in Calls |-> 0]
  BY DEF PathInit
<1>2. IInv
  BY <1>1, InitIInv
<1>3. Tries!Init
  BY <1>1, SameRetry
<1>4. Tries!IInv /\ Tries!TimeInv
  BY <1>3, TriesAssumption, Tries!InitIInv, Tries!InitTimeInv
<1>5. \A c \in Calls : call[c].pc = "idle" /\ task[c].pc = "idle"
  BY <1>1 DEF Init, Retry!Init
<1> QED
  BY <1>1, <1>2, <1>4, <1>5 DEF PathInv, Linked, Prompt, Retry!Pending

LEMMA NextPathInv ==
  ASSUME PathInv, [PathNext]_pathvars
  PROVE  PathInv'
<1>1. (IInv /\ Tries!IInv /\ Tries!TimeInv)'
  <2>1. IInv'
    BY PathStep, NextIInv DEF PathInv
  <2>2. (Tries!IInv /\ Tries!TimeInv)'
    BY TriesKeep DEF PathInv
  <2> QED
    BY <2>1, <2>2
<1>2. CASE PathTick
  BY <1>1, <1>2, TickKeepsPath
<1>3. ASSUME NEW c \in Calls, PathReplying(c) PROVE PathInv'
  BY <1>1, <1>3, ReplyKeepsPath DEF PathReplying
<1>4. ASSUME NEW c \in Calls, PathWake(c) PROVE PathInv'
  BY <1>1, <1>4, WakeKeepsPath
<1>5. ASSUME NEW c \in Calls, NEW k \in Keys, PathHit(c, k) PROVE PathInv'
  BY <1>1, <1>5, HitKeepsPath
<1>6. ASSUME NEW c \in Calls, NEW k \in Keys, StartFetch(c, k) PROVE PathInv'
  BY <1>1, <1>6, StartKeepsPath
<1>7. ASSUME NEW c \in Calls, NEW k \in Keys, PathCancel(c, k) PROVE PathInv'
  BY <1>1, <1>7, CancelKeepsPath
<1>8. CASE UNCHANGED pathvars
  BY <1>1, <1>8 DEF pathvars, vars, retryvars, PathInv, Linked, Prompt, Retry!Pending
<1> QED
  BY <1>2, <1>3, <1>4, <1>5, <1>6, <1>7, <1>8 DEF PathNext

\* The record of the stores adds nothing.
LEMMA PathInvariance == MCSpec => []PathInv
<1>1. MCInit => PathInv
  BY InitPathInv DEF MCInit
<1>2. PathInv /\ [MCNext]_mcvars => PathInv'
  BY NextPathInv DEF MCNext, mcvars
<1> QED
  BY <1>1, <1>2, PTL DEF MCSpec

(* The retries and the requests are an inner port as CachingAdapter takes  *)
(* it: for any methods, limits and delays, whatever replies, orphans and   *)
(* cancellations come when, each step of the wired adapters is a step of   *)
(* the cache over a port that answers within the transit bound, or raises. *)
(* This is ImplementsCache but for the fairness.                           *)
THEOREM CacheIsImplemented == MCSpec => Init /\ [][Next]_vars
<1>1. MCInit => Init
  BY DEF MCInit, PathInit
<1>2. PathInv /\ [MCNext]_mcvars => [Next]_vars
  BY PathStep DEF MCNext, mcvars
<1> QED
  BY <1>1, <1>2, PathInvariance, PTL DEF MCSpec

(* The cache and its tasks keep their types over the retries.              *)
THEOREM PathTypeCorrect == MCSpec => []TypeOK
<1>1. PathInv => TypeOK
  BY DEF PathInv, IInv
<1> QED
  BY <1>1, PathInvariance, PTL

(* No task fetches beside an expired entry, however long its retries take. *)
THEOREM NoExpiredEntryOverRetries == MCSpec => []NoExpiredEntryDuringFetch
<1>1. PathInv => NoExpiredEntryDuringFetch
  BY DEF PathInv, IInv
<1> QED
  BY <1>1, PathInvariance, PTL

(* The wired adapters keep the promise of the cache: a read ends with an   *)
(* error, or with data no older than the TTL of its method and the timeout *)
(* of one request, however many attempts it took.                          *)
THEOREM PathKeepsPromise == MCSpec => KeepsPromise
<1>1. IInv /\ [Next]_vars => [Promise!Next]_(Promise!vars)
  BY NextPromise
<1>2. PathInv => IInv
  BY DEF PathInv
<1> QED
  BY <1>1, <1>2, CacheIsImplemented, PathInvariance, InitPromise, PTL DEF KeepsPromise, Promise!Spec

-----------------------------------------------------------------------------
\* What was stored and has not been stored over is there until it expires.
StoreInv ==
  /\ DOMAIN filled \subseteq Keys
  /\ \A k \in DOMAIN filled :
       /\ filled[k] \in Nat
       /\ now < filled[k] + Ttl(k) =>
            k \in DOMAIN cache /\ cache[k].expiry >= filled[k] + Ttl(k)

LEMMA NextStoreInv ==
  ASSUME PathInv, StoreInv, [MCNext]_mcvars
  PROVE  StoreInv'
<1>0. /\ now \in Nat /\ \A k \in Keys : Ttl(k) \in Nat /\ Ttl(k)' = Ttl(k)
      /\ task \in [Calls -> Task] /\ \A k \in DOMAIN cache : cache[k].expiry \in Nat
  BY TtlType DEF PathInv, IInv, TypeOK, Entry, Ttl
<1>1. [Next]_vars
  BY PathStep DEF MCNext, mcvars
<1>2. \/ (\A k \in Keys : ~Stored(k)) /\ filled' = filled
      \/ \E k \in Keys : Stored(k) /\ filled' = Put(filled, k, now)
      \/ UNCHANGED <<vars, filled>>
  BY DEF MCNext, mcvars, pathvars
<1>3. CASE UNCHANGED vars
  <2>1. \A k \in Keys : ~Stored(k)
    BY <1>3 DEF vars, Stored, Fetching
  <2> QED
    BY <1>0, <1>2, <1>3, <2>1 DEF StoreInv, vars
<1>4. CASE Tick
  <2>1. \A k \in Keys : ~Stored(k)
    BY <1>4 DEF Tick, Stored, Fetching
  <2>2. filled' = filled /\ cache' = cache /\ now' = now + 1
    BY <1>2, <1>4, <2>1 DEF Tick, vars
  <2> QED
    BY <1>0, <2>2 DEF StoreInv
<1>5. ASSUME NEW c \in Calls, NEW k \in Keys, Hit(c, k) \/ Raise(c, k) PROVE StoreInv'
  <2>1. \A x \in Keys : ~Stored(x)
    BY <1>0, <1>5 DEF Hit, Free, Return, Raise, Stored, Fetching
  <2> QED
    BY <1>0, <1>2, <1>5, <2>1 DEF StoreInv, Hit, Raise, vars
<1>6. ASSUME NEW c \in Calls, NEW k \in Keys, Miss(c, k) PROVE StoreInv'
  <2>1. \A x \in Keys : ~Stored(x)
    BY <1>0, <1>6 DEF Miss, Stored, Fetching
  <2>2. filled' = filled /\ now' = now
    BY <1>2, <1>6, <2>1 DEF Miss, vars
  <2>3. DOMAIN cache' = DOMAIN cache \ {k} /\ \A x \in DOMAIN cache' : cache'[x] = cache[x]
    BY <1>6 DEF Miss, Drop, Del
  <2>4. k \in DOMAIN cache => now >= cache[k].expiry
    BY <1>0, <1>6 DEF Miss, Valid
  <2> QED
    BY <1>0, <2>2, <2>3, <2>4 DEF StoreInv
<1>7. ASSUME NEW c \in Calls, NEW k \in Keys, Fill(c, k) PROVE StoreInv'
  <2>1. PICK at : Store(c, k, at)
    BY <1>7 DEF Fill
  <2>2. Fetching(c, k) /\ task'[c].pc = "returned" /\ \A d \in Calls \ {c} : task'[d] = task[d]
    BY <1>0, <1>7, <2>1 DEF Fill, Store, Return
  <2>3. Stored(k) /\ \A x \in Keys : Stored(x) => x = k
    BY <2>2 DEF Stored, Fetching
  <2>4. filled' = Put(filled, k, now)
    <3>1. task' # task
      BY <2>2 DEF Fetching
    <3> QED
      BY <1>2, <2>3, <3>1 DEF vars
  <2>5. /\ DOMAIN filled' = DOMAIN filled \union {k} /\ filled'[k] = now
        /\ \A x \in DOMAIN filled \ {k} : filled'[x] = filled[x]
    BY <2>4 DEF Put
  <2>6. /\ now' = now /\ DOMAIN cache' = DOMAIN cache \union {k} /\ cache'[k].expiry = now + Ttl(k)
        /\ \A x \in DOMAIN cache \ {k} : cache'[x] = cache[x]
    <3> DEFINE e == [expiry |-> Expiry(c, k), at |-> at]
    <3>1. cache' = Put(cache, k, e) /\ now' = now
      BY <2>1 DEF Store
    <3>2. e.expiry = now + Ttl(k)
      BY DEF Expiry
    <3> HIDE DEF e
    <3> QED
      BY <3>1, <3>2 DEF Put
  <2> QED
    BY <1>0, <2>5, <2>6 DEF StoreInv
<1> QED
  BY <1>1, <1>3, <1>4, <1>5, <1>6, <1>7 DEF Next, Await

(* The cache does its work: for any tasks, keys, methods and lifetimes, a  *)
(* key that was stored is answered without a request for its whole TTL,    *)
(* whatever other tasks look up, drop and store meanwhile.                 *)
THEOREM StoresAreKept == MCSpec => []EveryStoreIsKept
<1>1. MCInit => StoreInv
  BY DEF MCInit, StoreInv, EmptyDict
<1>2. PathInv /\ StoreInv /\ [MCNext]_mcvars => StoreInv'
  BY NextStoreInv
<1>3. PathInv /\ StoreInv => EveryStoreIsKept
  <2> SUFFICES ASSUME PathInv, StoreInv, NEW k \in DOMAIN filled, now < filled[k] + Ttl(k)
               PROVE  Valid(k)
    BY DEF EveryStoreIsKept
  <2>1. k \in Keys /\ filled[k] \in Nat /\ k \in DOMAIN cache /\ cache[k].expiry >= filled[k] + Ttl(k)
    BY DEF StoreInv
  <2>2. now \in Nat /\ Ttl(k) \in Nat /\ cache[k].expiry \in Nat
    BY <2>1, TtlType DEF PathInv, IInv, TypeOK, Entry
  <2> QED
    BY <2>1, <2>2 DEF Valid
<1> QED
  BY <1>1, <1>2, <1>3, PathInvariance, PTL DEF MCSpec
=============================================================================
