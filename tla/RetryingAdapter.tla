--------------------------- MODULE RetryingAdapter --------------------------
(***************************************************************************)
(* RetryingAdapter of adapters/outbound/retry_adapter.py over the requests *)
(* of AthleteOneAdapter.  A call makes up to Attempts attempts; an attempt *)
(* sends its requests at once and ends with the first of them to fail, or  *)
(* when all have succeeded.  asyncio.gather does not stop the other request*)
(* of a failed attempt: it stays open, an orphan whose reply nobody reads. *)
(*                                                                         *)
(* Time is kept by countdowns, so that a behaviour need not end.  A timer  *)
(* that reached zero acts before the clock moves on.                       *)
(***************************************************************************)
EXTENDS Integers, AthleteOneAdapter

CONSTANTS Calls,            \* calls of port methods, one name per call under way
          Limits,           \* what the constructor may be given as max_attempts
          DelaySeconds,     \* _delay_seconds
          RequestSeconds    \* the HTTP client fails a request that takes longer

ASSUME RetryAssumption == /\ Limits \subseteq Int
                          /\ DelaySeconds \in Nat
                          /\ RequestSeconds \in Nat

VARIABLES maxAttempts,   \* the max_attempts the adapter was built with
          call,          \* the progress of each call in _retry
          open           \* the HTTP requests on their way

vars == <<maxAttempts, call, open>>

Errors == {"not_found", "upstream", "undecodable", "cancelled"}

\* Mutants (suffix _M): a definition as a plausible bug of this code would have it.
Attempts_M == maxAttempts
Attempts == IF maxAttempts > 1 THEN maxAttempts ELSE 1    \* max(1, max_attempts)

Call == [pc : {"idle"}]
          \union [pc : {"trying"}, method : Methods, attempt : Nat, age : Nat,
                  got : SUBSET AllParts]
          \union [pc : {"sleeping"}, method : Methods, attempt : Nat, age : Nat, left : Nat]
          \union [pc : {"returned"}, method : Methods, attempt : Nat]
          \union [pc : {"raised"}, error : Errors]

Request == [call : Calls, attempt : Nat, part : AllParts, left : Nat]

Init == /\ maxAttempts \in Limits
        /\ call = [c \in Calls |-> [pc |-> "idle"]]
        /\ open = {}

-----------------------------------------------------------------------------
Pending(c) == call[c].pc \in {"trying", "sleeping"}

Set(c, v) == call' = [call EXCEPT ![c] = v]

Fail(c, error) == Set(c, [pc |-> "raised", error |-> error])

Requests(c, method, attempt) ==
  {[call |-> c, attempt |-> attempt, part |-> p, left |-> RequestSeconds] : p \in Parts(method)}

\* `return await method(*args)' of the given pass of the loop.  When the loop is over
\* last_error is raised, which is None if there was no pass at all.
Try(c, method, attempt, age) ==
  IF attempt < Attempts
  THEN /\ Set(c, [pc |-> "trying", method |-> method, attempt |-> attempt, age |-> age, got |-> {}])
       /\ open' = open \union Requests(c, method, attempt)
  ELSE /\ Fail(c, IF attempt > 0 THEN "upstream" ELSE "none")
       /\ UNCHANGED open

\* The name c stands for a new call once all requests of its last one are over.
Begin(c, method) == /\ ~Pending(c) /\ \A r \in open : r.call # c
                    /\ Try(c, method, 0, 0)
                    /\ UNCHANGED maxAttempts

\* 2 ** n
PowerOfTwo[n \in Nat] == IF n = 0 THEN 1 ELSE 2 * PowerOfTwo[n - 1]

Backoff(attempt) == DelaySeconds * PowerOfTwo[attempt]

IsLast_M(attempt) == attempt = Attempts
IsLast(attempt) == attempt = Attempts - 1

\* The attempt failed: sleep before the next one, or raise.
AttemptFails(c, error) ==
  IF error # "upstream" \/ IsLast(call[c].attempt)
  THEN Fail(c, error)
  ELSE Set(c, [pc |-> "sleeping", method |-> call[c].method, attempt |-> call[c].attempt,
               age |-> call[c].age, left |-> Backoff(call[c].attempt)])

PartSucceeds(c, part) ==
  LET got == call[c].got \union {part} IN
  Set(c, IF got = Parts(call[c].method)
         THEN [pc |-> "returned", method |-> call[c].method, attempt |-> call[c].attempt]
         ELSE [call[c] EXCEPT !.got = got])

\* Whether the caller still waits for r: it does not read what orphans bring.
Awaited_M(r) == call[r.call].pc = "trying"
Awaited(r) == call[r.call].pc = "trying" /\ call[r.call].attempt = r.attempt

Reply(r, reply) ==
  /\ r \in open
  /\ open' = open \ {r}
  /\ LET outcome == Outcome(r.part, reply) IN
     CASE ~Awaited(r) -> UNCHANGED call
       [] Awaited(r) /\ outcome = "ok" -> PartSucceeds(r.call, r.part)
       [] OTHER -> AttemptFails(r.call, outcome)
  /\ UNCHANGED maxAttempts

Wake_M(c) == /\ call[c].pc = "sleeping" /\ call[c].left = 0
             /\ Try(c, call[c].method, 0, 0)
             /\ UNCHANGED maxAttempts
Wake(c) == /\ call[c].pc = "sleeping" /\ call[c].left = 0
           /\ Try(c, call[c].method, call[c].attempt + 1, call[c].age)
           /\ UNCHANGED maxAttempts

\* The client of the MCP server drops the tool call: the task is cancelled, and
\* with it the requests of the attempt it awaits; orphans are no longer its own.
Cancel(c) == /\ Pending(c)
             /\ Fail(c, "cancelled")
             /\ open' = {r \in open : r.call = c => ~Awaited(r)}
             /\ UNCHANGED maxAttempts

Tick == /\ \A r \in open : r.left > 0
        /\ \A c \in Calls : call[c].pc = "sleeping" => call[c].left > 0
        /\ open' = {[r EXCEPT !.left = @ - 1] : r \in open}
        /\ call' = [c \in Calls |->
                      CASE call[c].pc = "trying" -> [call[c] EXCEPT !.age = @ + 1]
                        [] call[c].pc = "sleeping" -> [call[c] EXCEPT !.age = @ + 1, !.left = @ - 1]
                        [] OTHER -> call[c]]
        /\ UNCHANGED maxAttempts

Replying(c) == \E r \in open, reply \in Replies : r.call = c /\ Reply(r, reply)

Next == \/ Tick
        \/ \E c \in Calls : \/ \E method \in Methods : Begin(c, method)
                            \/ Replying(c) \/ Wake(c) \/ Cancel(c)

\* Time passes, the loop runs what is due, and a request ends by its timeout at
\* the latest.
Spec == /\ Init /\ [][Next]_vars
        /\ WF_vars(Tick) /\ \A c \in Calls : WF_vars(Replying(c)) /\ WF_vars(Wake(c))

-----------------------------------------------------------------------------
(* Every variable keeps its type.                                          *)
TypeOK == maxAttempts \in Limits /\ call \in [Calls -> Call] /\ open \subseteq Request

(* A call is over within the time of Attempts requests and of the sleeps   *)
(* between them: no sleep follows the last attempt, and orphans of earlier *)
(* attempts delay nothing.                                                 *)
MaxSeconds == Attempts * RequestSeconds + DelaySeconds * (PowerOfTwo[Attempts - 1] - 1)

EndsInTime == \A c \in Calls : Pending(c) => call[c].age <= MaxSeconds

(* A result is made of the replies of one attempt only: when a call has    *)
(* returned, the requests of its last attempt have all been answered, and  *)
(* an open request can only be an orphan of an earlier attempt.            *)
ResultOfOneAttempt ==
  \A r \in open : call[r.call].pc = "returned" => r.attempt < call[r.call].attempt

(* Every call ends, with a result or an exception.                         *)
EveryCallEnds == \A c \in Calls : Pending(c) ~> ~Pending(c)
=============================================================================
