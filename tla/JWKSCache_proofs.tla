-------------------------- MODULE JWKSCache_proofs --------------------------
(***************************************************************************)
(* Proofs about JWKSCache, for any tasks, key ids and TTL, and any error of*)
(* the wall clock either way: that a retired key dies, that a key id is    *)
(* unknown only if it was not published, that refreshes never overlap, and *)
(* that the lock knows who holds it and who waits for it.                  *)
(***************************************************************************)
EXTENDS MCJWKSCache, SequenceTheorems, TLAPS

Types == /\ now \in Nat /\ clock \in Within(now) /\ expiresAt \in Int
         /\ published \subseteq Kids /\ keys \subseteq Kids
         /\ task \in [Calls -> Task]

\* What is published was published at this very instant; last is of the past.
LastIsPast == /\ last = [k \in DOMAIN last |-> last[k]]
              /\ \A k \in DOMAIN last : last[k] \in Nat /\ last[k] <= now
              /\ \A k \in published : k \in DOMAIN last /\ last[k] = now

\* An answer on its way is as old as it may travel, and its keys were published
\* when it was sent.
Sending(t) == t.pc = "arriving" =>
                /\ t.at <= now /\ now <= t.at + MaxTransit
                /\ \A k \in t.sent : k \in DOMAIN last /\ t.at <= last[k]

\* The expiry bounds the age of each key, not only the time since the refresh.
KeyAge == \A k \in keys :
  k \in DOMAIN last /\ expiresAt <= last[k] + MaxTransit + MaxSkew + TtlSeconds

\* A task that is told, or about to be told, that its kid is unknown.
Missing(t) == t.pc = "unknown" \/ (t.pc = "arriving" /\ t.kid \notin t.sent)

(* The inductive invariant.                                                *)
IInv == /\ Types /\ LastIsPast /\ KeyAge
        /\ \A c \in Calls : Sending(task[c])
        /\ \A c \in Calls : Missing(task[c]) => c \in absent

LEMMA InitIInv ==
  ASSUME JWKSAssumption, MCInit
  PROVE  IInv
<1>1. \A c \in Calls : task[c] = [pc |-> "idle"]
  BY DEF MCInit, Init
<1>2. Types
  BY <1>1 DEF MCInit, Init, Types, Within, JWKSAssumption, Task
<1>3. LastIsPast /\ KeyAge
  BY <1>2 DEF MCInit, Init, LastIsPast, KeyAge, Types
<1>4. \A c \in Calls : Sending(task[c]) /\ ~Missing(task[c])
  <2> TAKE c \in Calls
  <2>1. task[c].pc = "idle"
    BY <1>1
  <2> QED
    BY <2>1 DEF Sending, Missing
<1> QED
  BY <1>2, <1>3, <1>4 DEF IInv

-----------------------------------------------------------------------------
(* What was published last grows.                                          *)
LEMMA LastGrows ==
  ASSUME IInv, Remember, now' \in Nat, now' >= now
  PROVE  /\ LastIsPast'
         /\ \A k \in DOMAIN last : k \in DOMAIN last' /\ last'[k] >= last[k]
BY DEF Remember, IInv, Types, LastIsPast

(* A task that does not move keeps what holds of it.                       *)
LEMMA Rests ==
  ASSUME IInv, Witness, Remember, now' \in Nat, now' >= now,
         NEW c \in Calls, task'[c] = task[c],
         task[c].pc = "arriving" => now' <= task[c].at + MaxTransit
  PROVE  Sending(task[c])' /\ (Missing(task'[c]) => c \in absent')
<1>1. Missing(task'[c]) => c \in absent'
  BY DEF Witness, IInv
<1>2. ASSUME task[c].pc = "arriving"
      PROVE  /\ task[c].at <= now'
             /\ \A k \in task[c].sent : k \in DOMAIN last' /\ task[c].at <= last'[k]
  <2>1. task[c].at \in Nat /\ task[c].at <= now
    BY <1>2 DEF IInv, Sending, Types, Task
  <2>2. \A k \in task[c].sent : k \in DOMAIN last /\ task[c].at <= last[k]
    BY <1>2 DEF IInv, Sending
  <2>3. \A k \in DOMAIN last' : last'[k] \in Nat
    BY LastGrows DEF LastIsPast
  <2> QED
    BY <2>1, <2>2, <2>3, LastGrows DEF IInv, Types, LastIsPast
<1> QED
  BY <1>1, <1>2 DEF Sending

(* Keys that stay keep their age.                                          *)
LEMMA KeysStay ==
  ASSUME JWKSAssumption, IInv, Remember, UNCHANGED store, now' \in Nat, now' >= now
  PROVE  KeyAge'
<1>1. \A k \in DOMAIN last : last[k] \in Nat /\ k \in DOMAIN last' /\ last'[k] >= last[k]
  BY LastGrows DEF IInv, LastIsPast
<1>2. \A k \in DOMAIN last' : last'[k] \in Nat
  BY LastGrows DEF LastIsPast
<1>3. expiresAt \in Int /\ keys' = keys /\ expiresAt' = expiresAt
  BY DEF IInv, Types, store
<1>4. MaxTransit \in Nat /\ MaxSkew \in Nat /\ TtlSeconds \in Int
  BY DEF JWKSAssumption
<1> QED
  BY <1>1, <1>2, <1>3, <1>4 DEF KeyAge, IInv

(* The steps of one task.                                                  *)
LEMMA OneMoves ==
  ASSUME IInv, Witness, Remember, UNCHANGED <<time, published>>,
         NEW c \in Calls, NEW t \in Task, Set(c, t),
         Sending(t)', Missing(t) => c \in absent',
         keys' \subseteq Kids, expiresAt' \in Int, KeyAge'
  PROVE  IInv'
<1>1. now' = now /\ clock' = clock /\ published' = published /\ now \in Nat
  BY DEF time, IInv, Types
<1>2. task'[c] = t /\ \A d \in Calls \ {c} : task'[d] = task[d]
  BY DEF Set, IInv, Types
<1>3. Types'
  BY <1>1 DEF Set, IInv, Types
<1>4. LastIsPast'
  BY <1>1, LastGrows
<1>5. ASSUME NEW d \in Calls
      PROVE  Sending(task[d])' /\ (Missing(task'[d]) => d \in absent')
  <2>1. CASE d = c
    BY <1>2, <2>1 DEF Sending
  <2>2. CASE d # c
    <3>1. task[d].pc = "arriving" => now' <= task[d].at + MaxTransit
      BY <1>1 DEF IInv, Sending
    <3> QED
      BY <1>1, <1>2, <2>2, <3>1, Rests
  <2> QED
    BY <2>1, <2>2
<1>6. (\A d \in Calls : Sending(task[d]))' /\ (\A d \in Calls : Missing(task[d]) => d \in absent)'
  BY <1>5 DEF Missing
<1> QED
  BY <1>3, <1>4, <1>6 DEF IInv

\* A task that neither brings keys nor is told that its kid is unknown.
LEMMA PlainMove ==
  ASSUME JWKSAssumption, IInv, Witness, Remember, UNCHANGED <<time, published, store>>,
         NEW c \in Calls, NEW t \in Task, t.pc \notin {"arriving", "unknown"}, Set(c, t)
  PROVE  IInv'
<1>1. Sending(t)' /\ ~Missing(t)
  BY DEF Sending, Missing
<1>2. now' = now /\ now \in Nat /\ now' >= now
  BY DEF time, IInv, Types
<1>3. KeyAge'
  BY <1>2, KeysStay
<1>4. keys' \subseteq Kids /\ expiresAt' \in Int
  BY DEF store, IInv, Types
<1> QED
  BY <1>1, <1>3, <1>4, OneMoves

(* Without a refresh the kid is there.                                     *)
LEMMA EnterKeeps ==
  ASSUME JWKSAssumption, IInv, Witness, Remember, NEW c \in Calls, NEW kid \in Kids,
         Enter(c, kid)
  PROVE  IInv'
<1>1. UNCHANGED <<time, published, store>>
  BY DEF Enter
<1>2. CASE Set(c, [pc |-> "fetching", kid |-> kid])
  <2> DEFINE t == [pc |-> "fetching", kid |-> kid]
  <2>1. t \in Task /\ t.pc = "fetching"
    BY DEF Task
  <2> HIDE DEF t
  <2> QED
    BY <1>1, <1>2, <2>1, PlainMove DEF t
<1>3. CASE ~NeedsRefresh(kid) /\ Set(c, Lookup(kid, keys))
  <2> DEFINE t == Lookup(kid, keys)
  <2>1. t = [pc |-> "found", kid |-> kid]
    BY <1>3 DEF Lookup, NeedsRefresh
  <2>2. t \in Task /\ t.pc = "found"
    BY <2>1 DEF Task
  <2> HIDE DEF t
  <2> QED
    BY <1>1, <1>3, <2>2, PlainMove DEF t
<1> QED
  BY <1>2, <1>3 DEF Enter

\* A task in get names a kid.
LEMMA PendingTask ==
  ASSUME IInv, NEW c \in Calls, Pending(task[c])
  PROVE  task[c].kid \in Kids
BY DEF IInv, Types, Task, Pending

LEMMA GetKeeps ==
  ASSUME JWKSAssumption, IInv, Witness, Remember, NEW c \in Calls, NEW kid \in Kids,
         Get(c, kid)
  PROVE  IInv'
<1>1. CASE Enter(c, kid)
  BY <1>1, EnterKeeps
<1>2. CASE Set(c, [pc |-> "waiting", kid |-> kid]) /\ UNCHANGED <<time, published, store, holders>>
  <2> DEFINE t == [pc |-> "waiting", kid |-> kid]
  <2>1. t \in Task /\ t.pc = "waiting"
    BY DEF Task
  <2> HIDE DEF t
  <2> QED
    BY <1>2, <2>1, PlainMove DEF t
<1> QED
  BY <1>1, <1>2 DEF Get

LEMMA MoveKeeps ==
  ASSUME JWKSAssumption, IInv, Witness, Remember, NEW c \in Calls,
         Pending(task[c]), NEW pc \in {"raised", "cancelled"}, Move(c, pc),
         UNCHANGED <<time, published, store>>
  PROVE  IInv'
<1> DEFINE t == [pc |-> pc, kid |-> task[c].kid]
<1>1. t \in Task /\ t.pc = pc
  BY PendingTask DEF Task
<1>2. Set(c, t)
  BY DEF Move
<1> HIDE DEF t
<1> QED
  BY <1>1, <1>2, PlainMove

(* What the server sends is what it publishes; what it does not is absent. *)
LEMMA AnswersKeeps ==
  ASSUME JWKSAssumption, IInv, Witness, Remember, NEW c \in Calls, ServerAnswers(c)
  PROVE  IInv'
<1>1. task[c].kid \in Kids
  BY PendingTask DEF ServerAnswers, Pending
<1>2. UNCHANGED <<time, published, store, lock>>
  BY DEF ServerAnswers
<1>3. now' = now /\ now \in Nat /\ published' = published /\ published \subseteq Kids
  BY <1>2 DEF time, IInv, Types
<1>4. PICK t \in Task : /\ Set(c, t)
                        /\ t.pc = "arriving" /\ t.kid = task[c].kid
                        /\ t.sent = published /\ t.at = now
  <2> DEFINE a == [pc |-> "arriving", kid |-> task[c].kid, sent |-> published, at |-> now]
  <2>1. /\ a \in Task /\ a.pc = "arriving" /\ a.kid = task[c].kid
        /\ a.sent = published /\ a.at = now
    BY <1>1, <1>3 DEF Task
  <2>2. Set(c, a)
    BY DEF ServerAnswers
  <2> HIDE DEF a
  <2> QED
    BY <2>1, <2>2
<1>5. task'[c] = t
  BY <1>4 DEF Set, IInv, Types
<1>6. \A k \in published : k \in DOMAIN last' /\ last'[k] = now
  BY <1>3, LastGrows DEF LastIsPast
<1>7. Sending(t)'
  BY <1>3, <1>4, <1>6 DEF Sending, JWKSAssumption
<1>8. Missing(t) => c \in absent'
  <2>1. task'[c].pc = "arriving" /\ task'[c].kid = t.kid
    BY <1>4, <1>5
  <2>2. Pending(task'[c])
    BY <2>1 DEF Pending
  <2>3. Missing(t) => task'[c].kid \notin published
    BY <1>4, <2>1 DEF Missing
  <2> QED
    BY <1>3, <2>2, <2>3 DEF Witness
<1>9. KeyAge' /\ keys' \subseteq Kids /\ expiresAt' \in Int
  BY <1>2, <1>3, KeysStay DEF store, IInv, Types
<1> QED
  BY <1>2, <1>4, <1>7, <1>8, <1>9, OneMoves

(* An answer that arrives is as old as it travelled, and its keys expire a *)
(* TTL later by the wall clock.                                            *)
LEMMA RefreshedKeeps ==
  ASSUME JWKSAssumption, IInv, Witness, Remember, NEW c \in Calls, Refreshed(c)
  PROVE  IInv'
<1>1. /\ task[c].pc = "arriving" /\ task[c].kid \in Kids
      /\ task[c].sent \subseteq Kids /\ task[c].at \in Nat
  BY DEF Refreshed, IInv, Types, Task
<1>2. /\ now' = now /\ clock' = clock /\ published' = published
      /\ now \in Nat /\ clock \in Int /\ clock <= now + MaxSkew
      /\ keys' = task[c].sent /\ expiresAt' = clock + TtlSeconds
  BY DEF Refreshed, Replace, time, IInv, Types, Within, JWKSAssumption
<1>3. MaxTransit \in Nat /\ MaxSkew \in Nat /\ TtlSeconds \in Int
  BY DEF JWKSAssumption
<1>4. now <= task[c].at + MaxTransit /\ \A k \in task[c].sent : k \in DOMAIN last /\ task[c].at <= last[k]
  BY <1>1 DEF IInv, Sending
<1>5. \A k \in task[c].sent : /\ k \in DOMAIN last' /\ last'[k] \in Nat
                             /\ task[c].at <= last'[k]
  <2>1. \A k \in DOMAIN last : last[k] \in Nat /\ k \in DOMAIN last' /\ last'[k] >= last[k]
    BY <1>2, LastGrows DEF IInv, LastIsPast
  <2>2. \A k \in DOMAIN last' : last'[k] \in Nat
    BY <1>2, LastGrows DEF LastIsPast
  <2> QED
    BY <1>1, <1>4, <2>1, <2>2
<1>6. KeyAge'
  BY <1>1, <1>2, <1>3, <1>4, <1>5 DEF KeyAge
<1>7. PICK t \in Task : /\ Set(c, t) /\ t.pc \in {"found", "unknown"}
                        /\ t.pc = "unknown" => t.kid \notin task[c].sent /\ t.kid = task[c].kid
  <2> DEFINE a == Lookup(task[c].kid, keys')
  <2>1. /\ a \in Task /\ a.pc \in {"found", "unknown"}
        /\ a.pc = "unknown" => a.kid \notin task[c].sent /\ a.kid = task[c].kid
    BY <1>1, <1>2 DEF Lookup, Task
  <2>2. Set(c, a)
    BY DEF Refreshed
  <2> HIDE DEF a
  <2> QED
    BY <2>1, <2>2
<1>8. Sending(t)'
  BY <1>7 DEF Sending
<1>9. Missing(t) => c \in absent'
  <2>1. Missing(t) => Missing(task[c])
    BY <1>1, <1>7 DEF Missing
  <2>2. Pending(task[c])
    BY <1>1 DEF Pending
  <2> QED
    BY <2>1, <2>2 DEF Witness, IInv
<1>10. keys' \subseteq Kids /\ expiresAt' \in Int
  BY <1>1, <1>2, <1>3
<1> QED
  BY <1>2, <1>6, <1>7, <1>8, <1>9, <1>10, OneMoves DEF time

(* Time, the wall clock and the published keys move and the tasks do not.  *)
LEMMA WorldKeeps ==
  ASSUME JWKSAssumption, IInv, Witness, Remember, Tick \/ SetClock \/ Rotate
  PROVE  IInv'
<1>1. /\ UNCHANGED <<store, task>>
      /\ now' \in Nat /\ now' >= now /\ clock' \in Within(now)'
      /\ published' \subseteq Kids
  BY DEF Tick, SetClock, Rotate, time, IInv, Types, Within, JWKSAssumption
<1>2. Types'
  BY <1>1 DEF IInv, Types, store
<1>3. LastIsPast' /\ KeyAge'
  BY <1>1, LastGrows, KeysStay
<1>4. ASSUME NEW d \in Calls
      PROVE  Sending(task[d])' /\ (Missing(task'[d]) => d \in absent')
  <2>1. task'[d] = task[d]
    BY <1>1
  <2>2. task[d].pc = "arriving" => now' <= task[d].at + MaxTransit
    <3>1. task[d].pc = "arriving" => task[d].at \in Nat /\ now <= task[d].at + MaxTransit
      BY DEF IInv, Types, Task, Sending
    <3> QED
      BY <3>1 DEF Tick, SetClock, Rotate, time, IInv, Types, JWKSAssumption
  <2> QED
    BY <1>1, <2>1, <2>2, Rests
<1>5. (\A d \in Calls : Sending(task[d]))' /\ (\A d \in Calls : Missing(task[d]) => d \in absent)'
  BY <1>4 DEF Missing
<1> QED
  BY <1>2, <1>3, <1>5 DEF IInv

\* Nothing of the cache moves.
LEMMA StandsStill ==
  ASSUME JWKSAssumption, IInv, Witness, Remember, UNCHANGED vars
  PROVE  IInv'
<1>1. /\ UNCHANGED <<time, published, store, task>>
      /\ now' = now /\ now \in Nat /\ now' >= now /\ clock' = clock
  BY DEF vars, time, IInv, Types
<1>2. Types' /\ LastIsPast' /\ KeyAge'
  BY <1>1, LastGrows, KeysStay DEF IInv, Types, store
<1>3. ASSUME NEW d \in Calls
      PROVE  Sending(task[d])' /\ (Missing(task'[d]) => d \in absent')
  BY <1>1, Rests DEF IInv, Sending
<1>4. (\A d \in Calls : Sending(task[d]))' /\ (\A d \in Calls : Missing(task[d]) => d \in absent)'
  BY <1>3 DEF Missing
<1> QED
  BY <1>2, <1>4 DEF IInv

LEMMA NextIInv ==
  ASSUME JWKSAssumption, IInv, [MCNext]_mcvars
  PROVE  IInv'
<1>1. CASE UNCHANGED mcvars
  <2>1. UNCHANGED <<now, clock, published, keys, expiresAt, task, absent, last>>
    BY <1>1 DEF mcvars, vars, time, store
  <2>2. Types' /\ LastIsPast' /\ KeyAge'
    BY <2>1 DEF IInv, Types, LastIsPast, KeyAge
  <2>3. (\A c \in Calls : Sending(task[c]))' /\ (\A c \in Calls : Missing(task[c]) => c \in absent)'
    BY <2>1 DEF IInv, Sending, Missing
  <2> QED
    BY <2>2, <2>3 DEF IInv
<1>2. CASE MCNext
  <2>1. Witness /\ Remember
    BY <1>2 DEF MCNext
  <2>2. CASE Tick \/ SetClock \/ Rotate
    BY <2>1, <2>2, WorldKeeps
  <2>3. ASSUME NEW c \in Calls, Acquire(c) PROVE IInv'
    <3>1. task[c].kid \in Kids
      BY <2>3, PendingTask DEF Acquire, Pending
    <3> QED
      BY <2>1, <2>3, <3>1, EnterKeeps DEF Acquire
  <2>4. ASSUME NEW c \in Calls, ServerAnswers(c) PROVE IInv'
    BY <2>1, <2>4, AnswersKeeps
  <2>5. ASSUME NEW c \in Calls, Refreshed(c) PROVE IInv'
    BY <2>1, <2>5, RefreshedKeeps
  <2>6. ASSUME NEW c \in Calls, RefreshFails(c) PROVE IInv'
    BY <2>1, <2>6, MoveKeeps DEF RefreshFails, Pending
  <2>7. ASSUME NEW c \in Calls, Cancel(c) PROVE IInv'
    BY <2>1, <2>7, MoveKeeps DEF Cancel, Pending
  <2>8. ASSUME NEW c \in Calls, NEW kid \in Kids, Get(c, kid) PROVE IInv'
    BY <2>1, <2>8, GetKeeps
  <2> QED
    BY <1>2, <2>2, <2>3, <2>4, <2>5, <2>6, <2>7, <2>8 DEF MCNext, Next, Await
<1> QED
  BY <1>1, <1>2

LEMMA Invariance == MCSpec => []IInv
<1>1. MCInit => IInv
  BY JWKSAssumption, InitIInv
<1>2. IInv /\ [MCNext]_mcvars => IInv'
  BY JWKSAssumption, NextIInv
<1> QED
  BY <1>1, <1>2, PTL DEF MCSpec

-----------------------------------------------------------------------------
(* A key id is unknown to a task only if the auth server did not publish it*)
(* at some instant of its get (jwks.py:58), however long the lock was held.*)
THEOREM UnknownWasUnpublished == MCSpec => []UnknownMeansUnpublished
<1>1. IInv => UnknownMeansUnpublished
  BY DEF IInv, Missing, UnknownMeansUnpublished
<1> QED
  BY <1>1, Invariance, PTL

\* A step of one task leaves the others where they are.
LEMMA OthersRest ==
  ASSUME IInv, NEW c \in Calls, NEW t, Set(c, t)
  PROVE  task'[c] = t /\ \A d \in Calls \ {c} : task'[d] = task[d]
BY DEF Set, IInv, Types

\* What a step of a task that waits makes of it.
LEMMA AwaitMoves ==
  ASSUME JWKSAssumption, IInv, NEW c \in Calls, Await(c) \/ Cancel(c)
  PROVE  /\ ~Free(c) /\ task'[c].kid = task[c].kid
         /\ task'[c].pc \in {"fetching", "arriving", "found", "unknown", "raised", "cancelled"}
         /\ \A d \in Calls \ {c} : task'[d] = task[d]
         /\ UNCHANGED time
<1>1. ASSUME Acquire(c)
      PROVE  task[c].pc = "waiting" /\ UNCHANGED time
             /\ \E pc \in {"fetching", "found", "unknown"} : Set(c, [pc |-> pc, kid |-> task[c].kid])
  BY <1>1 DEF Acquire, Enter, Lookup
<1>2. ASSUME ServerAnswers(c)
      PROVE  /\ task[c].pc = "fetching" /\ UNCHANGED time
             /\ Set(c, [pc |-> "arriving", kid |-> task[c].kid, sent |-> published, at |-> now])
  BY <1>2 DEF ServerAnswers
<1>3. ASSUME Refreshed(c)
      PROVE  /\ task[c].pc = "arriving" /\ UNCHANGED time
             /\ \E pc \in {"found", "unknown"} : Set(c, [pc |-> pc, kid |-> task[c].kid])
  BY <1>3 DEF Refreshed, Lookup
<1>4. ASSUME RefreshFails(c) \/ Cancel(c)
      PROVE  /\ task[c].pc \in {"waiting", "fetching", "arriving"} /\ UNCHANGED time
             /\ \E pc \in {"raised", "cancelled"} : Set(c, [pc |-> pc, kid |-> task[c].kid])
  BY <1>4 DEF RefreshFails, Cancel, Move
<1>5. CASE ServerAnswers(c)
  <2>1. PICK t : /\ t = [pc |-> "arriving", kid |-> task[c].kid, sent |-> published, at |-> now]
                 /\ Set(c, t)
    BY <1>2, <1>5
  <2>2. t.pc = "arriving" /\ t.kid = task[c].kid
    BY <2>1
  <2> QED
    BY <1>2, <1>5, <2>1, <2>2, OthersRest DEF Free
<1>6. CASE ~ServerAnswers(c)
  <2>1. PICK pc \in {"fetching", "found", "unknown", "raised", "cancelled"} :
          Set(c, [pc |-> pc, kid |-> task[c].kid])
    BY <1>1, <1>3, <1>4, <1>6 DEF Await
  <2>2. PICK t : t = [pc |-> pc, kid |-> task[c].kid] /\ Set(c, t)
    BY <2>1
  <2>3. t.pc = pc /\ t.kid = task[c].kid
    BY <2>2
  <2>4. ~Free(c) /\ UNCHANGED time
    BY <1>1, <1>3, <1>4, <1>6 DEF Await, Free
  <2> QED
    BY <2>1, <2>2, <2>3, <2>4, OthersRest
<1> QED
  BY <1>5, <1>6

\* Who begins a get is not told at once that its kid is unknown.
LEMMA GetMoves ==
  ASSUME JWKSAssumption, IInv, NEW c \in Calls, NEW kid \in Kids, Get(c, kid)
  PROVE  /\ Free(c) /\ task'[c].kid = kid
         /\ task'[c].pc \in {"waiting", "fetching", "found"}
         /\ \A d \in Calls \ {c} : task'[d] = task[d]
         /\ UNCHANGED time
<1>1. PICK pc \in {"waiting", "fetching", "found"} : Set(c, [pc |-> pc, kid |-> kid])
  BY DEF Get, Enter, Lookup, NeedsRefresh
<1>2. PICK t : t = [pc |-> pc, kid |-> kid] /\ Set(c, t)
  BY <1>1
<1>3. t.pc = pc /\ t.kid = kid
  BY <1>2
<1> QED
  BY <1>1, <1>2, <1>3, OthersRest DEF Get, Enter

(* A key that is handed out straight from a refresh was published the      *)
(* transit ago at most; one that is kept, by a clock that was ahead when   *)
(* the TTL began and is behind now, less than the TTL and twice the error  *)
(* of the clock more.                                                      *)
LEMMA HandedOutIsAlive ==
  ASSUME JWKSAssumption, IInv, NEW c \in Calls, task'[c].pc = "found",
         Await(c) \/ Cancel(c) \/ \E kid \in Kids : Get(c, kid)
  PROVE  Alive(task'[c].kid)
<1>1. /\ TtlSeconds \in Int /\ MaxTransit \in Nat /\ MaxSkew \in Nat
      /\ now \in Nat /\ clock \in Int /\ now - MaxSkew <= clock /\ expiresAt \in Int
      /\ \A k \in DOMAIN last : last[k] \in Nat
  BY DEF JWKSAssumption, IInv, Types, Within, LastIsPast
<1>2. ASSUME NEW kid \in Kids, Enter(c, kid) PROVE Alive(task'[c].kid)
  <2>1. ~NeedsRefresh(kid) /\ Set(c, Lookup(kid, keys))
    BY <1>2, OthersRest DEF Enter
  <2>2. kid \in keys /\ clock < expiresAt
    BY <1>1, <2>1 DEF NeedsRefresh
  <2>3. task'[c].kid = kid
    BY <2>1, OthersRest DEF Lookup
  <2> QED
    BY <1>1, <2>2, <2>3 DEF IInv, KeyAge, Alive
<1>3. CASE Refreshed(c)
  <2>1. task'[c] = Lookup(task[c].kid, keys') /\ keys' = task[c].sent
    BY <1>3, OthersRest DEF Refreshed, Replace
  <2>2. task[c].pc = "arriving" /\ task[c].at \in Nat
    BY <1>3 DEF Refreshed, IInv, Types, Task
  <2>3. task'[c].kid = task[c].kid /\ task[c].kid \in task[c].sent
    BY <2>1 DEF Lookup
  <2> QED
    BY <1>1, <2>2, <2>3 DEF IInv, Sending, Alive
<1>4. CASE ServerAnswers(c)
  BY <1>4, OthersRest DEF ServerAnswers
<1>5. CASE RefreshFails(c) \/ Cancel(c)
  <2>1. PICK pc \in {"raised", "cancelled"} : Set(c, [pc |-> pc, kid |-> task[c].kid])
    BY <1>5 DEF RefreshFails, Cancel, Move
  <2> QED
    BY <2>1, OthersRest
<1>6. CASE Acquire(c)
  <2>1. task[c].kid \in Kids
    BY <1>6, PendingTask DEF Acquire, Pending
  <2> QED
    BY <1>2, <1>6, <2>1 DEF Acquire
<1>7. ASSUME NEW kid \in Kids, Get(c, kid) PROVE Alive(task'[c].kid)
  <2>1. CASE Enter(c, kid)
    BY <1>2, <2>1
  <2>2. CASE Set(c, [pc |-> "waiting", kid |-> kid])
    BY <2>2, OthersRest
  <2> QED
    BY <1>7, <2>1, <2>2 DEF Get
<1> QED
  BY <1>3, <1>4, <1>5, <1>6, <1>7 DEF Await

LEMMA FoundIsAlive ==
  ASSUME JWKSAssumption, IInv, MCNext, NEW c \in Calls,
         task'[c].pc = "found", task'[c] # task[c]
  PROVE  Alive(task'[c].kid)
<1>1. CASE Tick \/ SetClock \/ Rotate
  BY <1>1 DEF Tick, SetClock, Rotate
<1>2. ASSUME NEW d \in Calls, Await(d) \/ Cancel(d) \/ \E kid \in Kids : Get(d, kid)
      PROVE  Alive(task'[c].kid)
  <2>1. d = c
    BY <1>2, AwaitMoves, GetMoves
  <2> QED
    BY <1>2, <2>1, HandedOutIsAlive
<1> QED
  BY <1>1, <1>2 DEF MCNext, Next

(* A retired key dies with the TTL (jwks.py:66): none is handed out longer *)
(* after it was published, whatever refreshes fail, wait or are cancelled, *)
(* and however often the wall clock is set, ahead of the time or behind it.*)
THEOREM RetiredKeysAreDead == MCSpec => RetiredKeysDie
<1>1. IInv /\ [MCNext]_mcvars =>
        [\A c \in Calls :
           task'[c].pc = "found" /\ task'[c] # task[c] => Alive(task'[c].kid)]_mcvars
  BY JWKSAssumption, FoundIsAlive
<1> QED
  BY <1>1, Invariance, PTL DEF MCSpec, RetiredKeysDie

-----------------------------------------------------------------------------
\* The holder of the lock is the task that refreshes; there is one at most.
Refreshing(t) == t.pc \in {"fetching", "arriving"}

Exclusive == /\ holders = {c \in Calls : Refreshing(task[c])}
             /\ \A c, d \in holders : c = d

\* A step of c to t, which takes the lock, keeps it, leaves it or has nothing to do with it.
LEMMA LockMoves ==
  ASSUME IInv, Exclusive, NEW c \in Calls, NEW t, Set(c, t),
         \/ holders = {} /\ holders' = {c} /\ Refreshing(t)
         \/ Refreshing(task[c]) /\ holders' = {} /\ ~Refreshing(t)
         \/ UNCHANGED holders /\ (Refreshing(t) <=> Refreshing(task[c]))
  PROVE  Exclusive'
<1>1. task'[c] = t /\ \A d \in Calls \ {c} : task'[d] = task[d]
  BY OthersRest
<1>2. \A d \in Calls : d \in holders' <=> Refreshing(task'[d])
  BY <1>1 DEF Exclusive
<1>3. holders' \subseteq Calls /\ \A d, e \in holders' : d = e
  BY DEF Exclusive
<1> QED
  BY <1>2, <1>3 DEF Exclusive, Refreshing

LEMMA EnterLocks ==
  ASSUME IInv, Exclusive, NEW c \in Calls, NEW kid, holders = {}, Enter(c, kid)
  PROVE  Exclusive'
<1>1. ~Refreshing(task[c])
  BY DEF Exclusive
<1>2. CASE Set(c, [pc |-> "fetching", kid |-> kid]) /\ holders' = {c}
  <2>1. Refreshing([pc |-> "fetching", kid |-> kid])
    BY DEF Refreshing
  <2> QED
    BY <1>2, <2>1, LockMoves
<1>3. CASE Set(c, Lookup(kid, keys)) /\ UNCHANGED holders
  <2>1. ~Refreshing(Lookup(kid, keys))
    BY DEF Refreshing, Lookup
  <2> QED
    BY <1>1, <1>3, <2>1, LockMoves
<1> QED
  BY <1>2, <1>3 DEF Enter

LEMMA NextExclusive ==
  ASSUME IInv, Exclusive, [MCNext]_mcvars
  PROVE  Exclusive'
<1>1. CASE UNCHANGED mcvars \/ Tick \/ SetClock \/ Rotate
  BY <1>1 DEF mcvars, vars, lock, Tick, SetClock, Rotate, Exclusive, Refreshing
<1>2. ASSUME NEW c \in Calls, Acquire(c) PROVE Exclusive'
  BY <1>2, EnterLocks DEF Acquire
<1>3. ASSUME NEW c \in Calls, NEW kid \in Kids, Get(c, kid) PROVE Exclusive'
  <2>1. CASE holders = {} /\ Enter(c, kid)
    BY <2>1, EnterLocks
  <2>2. CASE Set(c, [pc |-> "waiting", kid |-> kid]) /\ UNCHANGED holders
    <3>1. ~Refreshing([pc |-> "waiting", kid |-> kid]) /\ ~Refreshing(task[c])
      BY <1>3 DEF Refreshing, Get, Free
    <3> QED
      BY <2>2, <3>1, LockMoves
  <2> QED
    BY <1>3, <2>1, <2>2 DEF Get
<1>4. ASSUME NEW c \in Calls, ServerAnswers(c) PROVE Exclusive'
  <2>1. PICK t : /\ t = [pc |-> "arriving", kid |-> task[c].kid, sent |-> published, at |-> now]
                 /\ Set(c, t)
    BY <1>4 DEF ServerAnswers
  <2>2. Refreshing(t) /\ Refreshing(task[c]) /\ UNCHANGED holders
    BY <1>4, <2>1 DEF ServerAnswers, Refreshing, lock
  <2> QED
    BY <2>1, <2>2, LockMoves
<1>5. ASSUME NEW c \in Calls, Refreshed(c) PROVE Exclusive'
  <2>1. PICK pc \in {"found", "unknown"} : Set(c, [pc |-> pc, kid |-> task[c].kid])
    BY <1>5 DEF Refreshed, Lookup
  <2>2. ~Refreshing([pc |-> pc, kid |-> task[c].kid]) /\ Refreshing(task[c]) /\ holders' = {}
    BY <1>5, <2>1 DEF Refreshed, Refreshing
  <2> QED
    BY <2>1, <2>2, LockMoves
<1>6. ASSUME NEW c \in Calls, RefreshFails(c) \/ Cancel(c) PROVE Exclusive'
  <2>1. PICK pc \in {"raised", "cancelled"} : Set(c, [pc |-> pc, kid |-> task[c].kid])
    BY <1>6 DEF RefreshFails, Cancel, Move
  <2>2. ~Refreshing([pc |-> pc, kid |-> task[c].kid])
    BY <2>1 DEF Refreshing
  <2>3. \/ Refreshing(task[c]) /\ holders' = {}
        \/ ~Refreshing(task[c]) /\ UNCHANGED holders
    BY <1>6 DEF RefreshFails, Cancel, Refreshing
  <2> QED
    BY <2>1, <2>2, <2>3, LockMoves
<1> QED
  BY <1>1, <1>2, <1>3, <1>4, <1>5, <1>6 DEF MCNext, Next, Await

(* Refreshes never overlap (jwks.py:57): of two tasks that find the same   *)
(* key missing one fetches, and none overwrites what a later one brought.  *)
THEOREM OneRefresh == MCSpec => [](\A c, d \in Calls :
                                     Refreshing(task[c]) /\ Refreshing(task[d]) => c = d)
<1>1. MCInit => Exclusive
  BY DEF MCInit, Init, Exclusive, Refreshing
<1>2. IInv /\ Exclusive /\ [MCNext]_mcvars => Exclusive'
  BY NextExclusive
<1>3. Exclusive => \A c, d \in Calls : Refreshing(task[c]) /\ Refreshing(task[d]) => c = d
  BY DEF Exclusive
<1> QED
  BY <1>1, <1>2, <1>3, Invariance, PTL DEF MCSpec

-----------------------------------------------------------------------------
\* The waiters of the lock are the tasks that wait, once each.
Queue == /\ waiters \in Seq(Calls)
         /\ \A i, j \in 1 .. Len(waiters) : waiters[i] = waiters[j] => i = j
         /\ \A c \in Calls :
              task[c].pc = "waiting" <=> \E i \in 1 .. Len(waiters) : waiters[i] = c

\* s without its element i.
Without(s, i, rest) ==
  /\ Len(rest) = Len(s) - 1
  /\ \A k \in 1 .. Len(s) - 1 : rest[k] = IF k < i THEN s[k] ELSE s[k + 1]

LEMMA RemoveAtIsWithout ==
  ASSUME NEW S, NEW s \in Seq(S), NEW i \in 1 .. Len(s)
  PROVE  RemoveAt(s, i) \in Seq(S) /\ Without(s, i, RemoveAt(s, i))
<1> DEFINE front == SubSeq(s, 1, i - 1)
           back == SubSeq(s, i + 1, Len(s))
           rest == front \o back
<1>0. Len(s) \in Nat /\ i \in Nat
  BY LenProperties
<1>1. front \in Seq(S) /\ Len(front) = i - 1 /\ \A k \in 1 .. i - 1 : front[k] = s[k]
  BY <1>0, SubSeqProperties
<1>2. back \in Seq(S) /\ Len(back) = Len(s) - i /\ \A k \in 1 .. Len(s) - i : back[k] = s[i + k]
  BY <1>0, SubSeqProperties
<1>3. RemoveAt(s, i) = rest
  BY DEF RemoveAt
<1> HIDE DEF front, back
<1>s. front \in Seq(S) /\ back \in Seq(S)
  BY <1>1, <1>2
<1>c. /\ front \o back \in Seq(S) /\ Len(front \o back) = Len(front) + Len(back)
      /\ \A k \in 1 .. Len(front) + Len(back) :
           (front \o back)[k] = IF k <= Len(front) THEN front[k] ELSE back[k - Len(front)]
  BY <1>s, ConcatProperties
<1>l. Len(front) + Len(back) = Len(s) - 1
  BY <1>0, <1>1, <1>2
<1>4. /\ rest \in Seq(S) /\ Len(rest) = Len(s) - 1
      /\ \A k \in 1 .. Len(s) - 1 : rest[k] = IF k <= i - 1 THEN front[k] ELSE back[k - (i - 1)]
  BY <1>1, <1>c, <1>l
<1> HIDE DEF rest
<1>5. ASSUME NEW k \in 1 .. Len(s) - 1
      PROVE  rest[k] = IF k < i THEN s[k] ELSE s[k + 1]
  <2>1. CASE k < i
    <3>1. k \in 1 .. i - 1 /\ k <= i - 1
      BY <1>0, <2>1
    <3> QED
      BY <1>1, <1>4, <2>1, <3>1
  <2>2. CASE ~(k < i)
    <3>1. k - (i - 1) \in 1 .. Len(s) - i /\ ~(k <= i - 1) /\ i + (k - (i - 1)) = k + 1
      BY <1>0, <2>2
    <3> QED
      BY <1>2, <1>4, <2>2, <3>1
  <2> QED
    BY <2>1, <2>2
<1> QED
  BY <1>3, <1>4, <1>5 DEF Without

\* A task that waits once is removed from where it stands.
LEMMA RemoveFirstIsWithout ==
  ASSUME Queue, NEW c \in Calls, task[c].pc = "waiting"
  PROVE  \E i \in 1 .. Len(waiters) : /\ waiters[i] = c
                                      /\ RemoveFirst(waiters, c) \in Seq(Calls)
                                      /\ Without(waiters, i, RemoveFirst(waiters, c))
<1>1. PICK i \in 1 .. Len(waiters) : waiters[i] = c
  BY DEF Queue
<1>2. {j \in 1 .. Len(waiters) : waiters[j] = c} = {i}
  BY <1>1 DEF Queue
<1>3. Min({i}) = i
  BY <1>1 DEF Min
<1>4. RemoveFirst(waiters, c) = RemoveAt(waiters, i)
  BY <1>1, <1>2, <1>3 DEF RemoveFirst, SelectInSeq
<1> QED
  BY <1>1, <1>4, RemoveAtIsWithout DEF Queue

LEMMA QueueRests ==
  ASSUME IInv, Queue, NEW c \in Calls, NEW t, Set(c, t), UNCHANGED waiters,
         t.pc = "waiting" <=> task[c].pc = "waiting"
  PROVE  Queue'
<1>1. task'[c] = t /\ \A d \in Calls \ {c} : task'[d] = task[d]
  BY OthersRest
<1> QED
  BY <1>1 DEF Queue

LEMMA QueueGrows ==
  ASSUME IInv, Queue, NEW c \in Calls, NEW t, Set(c, t), waiters' = Append(waiters, c),
         task[c].pc # "waiting", t.pc = "waiting"
  PROVE  Queue'
<1>1. task'[c] = t /\ \A d \in Calls \ {c} : task'[d] = task[d]
  BY OthersRest
<1>2. waiters \in Seq(Calls) /\ Len(waiters) \in Nat /\ \A i \in 1 .. Len(waiters) : waiters[i] # c
  BY DEF Queue
<1>3. /\ waiters' \in Seq(Calls) /\ Len(waiters') = Len(waiters) + 1
      /\ \A i \in 1 .. Len(waiters) : waiters'[i] = waiters[i]
      /\ waiters'[Len(waiters) + 1] = c
  BY <1>2, AppendProperties
<1>4. \A i \in 1 .. Len(waiters') : i \in 1 .. Len(waiters) \/ i = Len(waiters) + 1
  BY <1>2, <1>3
<1>5. ASSUME NEW i \in 1 .. Len(waiters'), NEW j \in 1 .. Len(waiters'), waiters'[i] = waiters'[j]
      PROVE  i = j
  BY <1>2, <1>3, <1>4, <1>5 DEF Queue
<1>6. ASSUME NEW d \in Calls
      PROVE  task'[d].pc = "waiting" <=> \E i \in 1 .. Len(waiters') : waiters'[i] = d
  <2>1. CASE d = c
    BY <1>1, <1>2, <1>3, <2>1
  <2>2. CASE d # c
    BY <1>1, <1>2, <1>3, <1>4, <2>2 DEF Queue
  <2> QED
    BY <2>1, <2>2
<1> QED
  BY <1>3, <1>5, <1>6 DEF Queue

LEMMA QueueShrinks ==
  ASSUME IInv, Queue, NEW c \in Calls, NEW t, Set(c, t), t.pc # "waiting",
         NEW i \in 1 .. Len(waiters), waiters[i] = c,
         waiters' \in Seq(Calls), Without(waiters, i, waiters')
  PROVE  Queue'
<1>0. Len(waiters) \in Nat /\ i \in Nat /\ Len(waiters') = Len(waiters) - 1
  BY LenProperties DEF Queue, Without
<1>1. task'[c] = t /\ \A d \in Calls \ {c} : task'[d] = task[d]
  BY OthersRest
<1> DEFINE From(k) == IF k < i THEN k ELSE k + 1
<1>2. \A k \in 1 .. Len(waiters') : /\ From(k) \in 1 .. Len(waiters) /\ From(k) # i
                                    /\ waiters'[k] = waiters[From(k)]
  BY <1>0 DEF Without
<1>3. \A k, l \in 1 .. Len(waiters') : From(k) = From(l) => k = l
  BY <1>0
<1>4. \A j \in 1 .. Len(waiters) : j # i => \E k \in 1 .. Len(waiters') : From(k) = j
  <2> TAKE j \in 1 .. Len(waiters)
  <2>1. CASE j < i
    <3>1. j \in 1 .. Len(waiters') /\ From(j) = j
      BY <1>0, <2>1
    <3> QED
      BY <3>1
  <2>2. CASE j > i
    <3>1. j - 1 \in 1 .. Len(waiters') /\ From(j - 1) = j
      BY <1>0, <2>2
    <3> QED
      BY <3>1
  <2> QED
    BY <1>0, <2>1, <2>2
<1> HIDE DEF From
<1>5. ASSUME NEW k \in 1 .. Len(waiters'), NEW l \in 1 .. Len(waiters'),
             waiters'[k] = waiters'[l]
      PROVE  k = l
  <2>1. waiters[From(k)] = waiters[From(l)]
    BY <1>2, <1>5
  <2>2. From(k) = From(l)
    BY <1>2, <2>1 DEF Queue
  <2> QED
    BY <1>3, <2>2
<1>6. ASSUME NEW d \in Calls
      PROVE  task'[d].pc = "waiting" <=> \E k \in 1 .. Len(waiters') : waiters'[k] = d
  <2>1. CASE d = c
    BY <1>1, <1>2, <2>1 DEF Queue
  <2>2. CASE d # c
    <3>1. task'[d].pc = "waiting" <=> \E j \in 1 .. Len(waiters) : waiters[j] = d
      BY <1>1, <2>2 DEF Queue
    <3>2. ASSUME NEW j \in 1 .. Len(waiters), waiters[j] = d
          PROVE  \E k \in 1 .. Len(waiters') : waiters'[k] = d
      BY <1>2, <1>4, <2>2, <3>2
    <3>3. ASSUME NEW k \in 1 .. Len(waiters'), waiters'[k] = d
          PROVE  \E j \in 1 .. Len(waiters) : waiters[j] = d
      BY <1>2, <3>3
    <3> QED
      BY <3>1, <3>2, <3>3
  <2> QED
    BY <2>1, <2>2
<1> QED
  BY <1>5, <1>6 DEF Queue

LEMMA NextQueue ==
  ASSUME IInv, Queue, [MCNext]_mcvars
  PROVE  Queue'
<1>1. CASE UNCHANGED mcvars \/ Tick \/ SetClock \/ Rotate
  BY <1>1 DEF mcvars, vars, lock, Tick, SetClock, Rotate, Queue
<1>2. ASSUME NEW c \in Calls, NEW kid, Enter(c, kid)
      PROVE  \E t : Set(c, t) /\ t.pc # "waiting"
  <2>1. [pc |-> "fetching", kid |-> kid].pc # "waiting" /\ Lookup(kid, keys).pc # "waiting"
    BY DEF Lookup
  <2> QED
    BY <1>2, <2>1 DEF Enter
<1>3. ASSUME NEW c \in Calls, Acquire(c) PROVE Queue'
  <2>1. PICK t : Set(c, t) /\ t.pc # "waiting"
    BY <1>2, <1>3 DEF Acquire
  <2>2. /\ waiters # <<>> /\ waiters \in Seq(Calls) /\ c = waiters[1] /\ waiters' = Tail(waiters)
    BY <1>3 DEF Acquire, Queue
  <2>3. Len(waiters) \in Nat /\ 1 \in 1 .. Len(waiters)
    BY <2>2, EmptySeq, LenProperties
  <2>4. waiters' \in Seq(Calls) /\ Without(waiters, 1, waiters')
    BY <2>2, <2>3, HeadTailProperties DEF Without
  <2> QED
    BY <2>1, <2>2, <2>3, <2>4, QueueShrinks
<1>4. ASSUME NEW c \in Calls, NEW kid \in Kids, Get(c, kid) PROVE Queue'
  <2>0. task[c].pc # "waiting"
    BY <1>4 DEF Get, Free
  <2>1. CASE Enter(c, kid) /\ UNCHANGED waiters
    BY <1>2, <2>0, <2>1, QueueRests
  <2>2. CASE Set(c, [pc |-> "waiting", kid |-> kid]) /\ waiters' = Append(waiters, c)
    <3>1. [pc |-> "waiting", kid |-> kid].pc = "waiting"
      OBVIOUS
    <3> QED
      BY <2>0, <2>2, <3>1, QueueGrows
  <2> QED
    BY <1>4, <2>1, <2>2 DEF Get
<1>5. ASSUME NEW c \in Calls, ServerAnswers(c) \/ Refreshed(c) \/ RefreshFails(c) PROVE Queue'
  <2>1. UNCHANGED waiters /\ task[c].pc \in {"fetching", "arriving"}
    BY <1>5 DEF ServerAnswers, Refreshed, RefreshFails, lock
  <2>2. PICK t : Set(c, t) /\ t.pc # "waiting"
    BY <1>5 DEF ServerAnswers, Refreshed, RefreshFails, Move, Lookup
  <2> QED
    BY <2>1, <2>2, QueueRests
<1>6. ASSUME NEW c \in Calls, Cancel(c) PROVE Queue'
  <2>1. PICK t : Set(c, t) /\ t.pc # "waiting"
    BY <1>6 DEF Cancel, Move
  <2>2. CASE task[c].pc = "waiting"
    <3>1. waiters' = RemoveFirst(waiters, c)
      BY <1>6, <2>2 DEF Cancel
    <3> QED
      BY <2>1, <2>2, <3>1, RemoveFirstIsWithout, QueueShrinks
  <2>3. CASE task[c].pc # "waiting"
    BY <1>6, <2>1, <2>3, QueueRests DEF Cancel
  <2> QED
    BY <2>2, <2>3
<1> QED
  BY <1>1, <1>3, <1>4, <1>5, <1>6 DEF MCNext, Next, Await

(* The lock knows its tasks (jwks.py:57): whatever fails, is cancelled or  *)
(* waits, its holder is the one task that refreshes, and a task waits for  *)
(* it exactly if it stands in its queue, once.                             *)
THEOREM TypeCorrect == MCSpec => []TypeOK
<1>1. MCInit => Exclusive /\ Queue
  BY EmptySeq DEF MCInit, Init, Exclusive, Refreshing, Queue
<1>2. IInv /\ Exclusive /\ Queue /\ [MCNext]_mcvars => (Exclusive /\ Queue)'
  BY NextExclusive, NextQueue
<1>3. IInv /\ Exclusive /\ Queue => TypeOK
  BY DEF IInv, Types, Exclusive, Refreshing, Queue, TypeOK
<1> QED
  BY <1>1, <1>2, <1>3, Invariance, PTL DEF MCSpec
=============================================================================
