------------------------------ MODULE DataPath ------------------------------
(***************************************************************************)
(* The adapters that every read of AthleteOne data goes through, wired as  *)
(* in container.py: CachingAdapter over RetryingAdapter over the requests  *)
(* of AthleteOneAdapter.  A coroutine awaits the one below directly, so a  *)
(* miss sends the first requests in its own step, and the reply that ends  *)
(* a call stores the result, or passes the exception on, in the same step. *)
(* CachingAdapter alone assumes what its inner port does; here that is     *)
(* what the retries and the requests under it do.                          *)
(***************************************************************************)
EXTENDS Integers, CachingAdapter

CONSTANTS MethodOf,         \* [Keys -> the port method the key calls]
          Limits, DelaySeconds, RequestSeconds    \* see RetryingAdapter

VARIABLES maxAttempts, call, open,   \* the retries and requests, see RetryingAdapter
          gathered    \* of each call, when the oldest request was sent whose reply
                      \* is part of its result

Retry == INSTANCE RetryingAdapter

\* No reply is read later than the timeout after its request was sent.
ASSUME DataPathAssumption == /\ Retry!RetryAssumption
                             /\ MethodOf \in [Keys -> Retry!Methods]
                             /\ MaxTransit = RequestSeconds

retryvars == <<maxAttempts, call, open>>
pathvars == <<vars, retryvars, gathered>>

PathInit == Init /\ Retry!Init /\ gathered = [c \in Calls |-> 0]

-----------------------------------------------------------------------------
PathHit(c, k) == Hit(c, k) /\ UNCHANGED <<retryvars, gathered>>

Gather(c, at) == gathered' = [gathered EXCEPT ![c] = IF call'[c].pc = "trying" THEN at ELSE 0]

\* `result = await fetch()' runs down to the requests of the first attempt.
StartFetch(c, k) == /\ Miss(c, k)
                    /\ Retry!Begin(c, MethodOf[k])
                    /\ Gather(c, now)

Smaller(i, j) == IF i < j THEN i ELSE j
Larger(i, j) == IF i > j THEN i ELSE j

\* When r was sent; the clock may have stopped at MaxTime since.
Sent(r) == Larger(task[r.call].began, now - (RequestSeconds - r.left))

\* The oldest part of what c holds once the reply to r is there.
Oldest(r) == IF Retry!Awaited(r) THEN Smaller(gathered[r.call], Sent(r)) ELSE gathered[r.call]

\* A reply nobody waits for, the first of two, or an error that is tried again;
\* the last of a result, which is stored; an error that is raised.
PathReply(r, reply) ==
  LET c == r.call
      k == task[c].key
  IN  /\ Retry!Reply(r, reply)
      /\ Gather(c, Oldest(r))
      /\ \/ /\ call'[c] = call[c] \/ Retry!Pending(c)'
            /\ UNCHANGED vars
         \/ /\ call'[c] # call[c] /\ call'[c].pc = "returned"
            /\ Store(c, k, Oldest(r))
         \/ /\ call'[c] # call[c] /\ call'[c].pc = "raised"
            /\ Raise(c, k)

\* The next attempt starts from nothing.
PathWake(c) == /\ Retry!Wake(c)
               /\ Gather(c, now)
               /\ UNCHANGED vars

PathCancel(c, k) == Retry!Cancel(c) /\ Raise(c, k) /\ Gather(c, 0)

\* Beyond MaxTime only the timers go on, so that every call can still end.
PathTick == /\ Retry!Tick
            /\ Tick \/ (now = MaxTime /\ UNCHANGED vars)
            /\ UNCHANGED gathered

PathReplying(c) == \E r \in open, reply \in Retry!Replies : r.call = c /\ PathReply(r, reply)

PathNext == \/ PathTick
            \/ \E c \in Calls : PathReplying(c) \/ PathWake(c)
            \/ \E c \in Calls, k \in Keys : PathHit(c, k) \/ StartFetch(c, k) \/ PathCancel(c, k)

\* The fairness of RetryingAdapter; the cache adds none.
PathFairness == /\ WF_pathvars(PathTick)
                /\ \A c \in Calls : WF_pathvars(PathReplying(c)) /\ WF_pathvars(PathWake(c))

PathSpec == PathInit /\ [][PathNext]_pathvars /\ PathFairness

-----------------------------------------------------------------------------
(* What CachingAdapter assumes of its inner port is what the retries do:   *)
(* a result holds nothing that was asked for longer ago than the timeout   *)
(* of one request, however many attempts and orphans came before it, a     *)
(* fetch that fails or is cancelled raises, and every fetch ends.          *)
ImplementsCache == Spec
=============================================================================
