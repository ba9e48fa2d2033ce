----------------------------- MODULE FreshData ------------------------------
(***************************************************************************)
(* What every cached read of ecnl promises its caller, whatever lies       *)
(* underneath: a call for a key ends with an error, or with data that the  *)
(* upstream itself produced less than MaxAge[key] seconds ago.  A value is *)
(* known only by the instant at which the upstream produced it.            *)
(***************************************************************************)
EXTENDS Naturals

CONSTANTS Calls,    \* concurrent callers (asyncio tasks)
          Keys,     \* what can be asked for
          MaxAge    \* [Keys -> Nat]: the staleness bound of each key

VARIABLES now,      \* the clock, in whole seconds
          call      \* [Calls -> the progress of the caller's current read]

vars == <<now, call>>

Ready(c) == call[c].pc \in {"idle", "answered", "failed"}

Init == now = 0 /\ call = [c \in Calls |-> [pc |-> "idle"]]

Ask(c, k) == /\ Ready(c)
             /\ call' = [call EXCEPT ![c] = [pc |-> "pending", key |-> k]]
             /\ UNCHANGED now

\* An answer may come in the step of the question: a read that never awaits.
Answer(c, k) ==
  /\ Ready(c) \/ call[c] = [pc |-> "pending", key |-> k]
  /\ \E at \in 0 .. now :
       /\ now < at + MaxAge[k]
       /\ call' = [call EXCEPT ![c] = [pc |-> "answered", key |-> k, at |-> at]]
  /\ UNCHANGED now

Fail(c, k) == /\ call[c] = [pc |-> "pending", key |-> k]
              /\ call' = [call EXCEPT ![c] = [pc |-> "failed", key |-> k]]
              /\ UNCHANGED now

Tick == now' = now + 1 /\ UNCHANGED call

Next == Tick \/ \E c \in Calls, k \in Keys : Ask(c, k) \/ Answer(c, k) \/ Fail(c, k)

Spec == Init /\ [][Next]_vars

-----------------------------------------------------------------------------
(* A read that was started ends: every `await' of the chain of adapters    *)
(* below a tool call comes back, with a result or with an exception.       *)
EveryCallEnds == \A c \in Calls : call[c].pc = "pending" ~> call[c].pc # "pending"
=============================================================================
