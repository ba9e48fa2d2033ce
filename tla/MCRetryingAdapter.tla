------------------------- MODULE MCRetryingAdapter --------------------------
(* RetryingAdapter with the error of every failed attempt recorded beside  *)
(* the state.                                                              *)
EXTENDS RetryingAdapter, Sequences

VARIABLE failures    \* of each call, the errors that ended its attempts so far; bounded by
                     \* one more than the allowed attempts, which is too many already

mcvars == <<vars, failures>>

MCInit == Init /\ failures = [c \in Calls |-> <<>>]

MCReply(r, reply) ==
  /\ Reply(r, reply)
  /\ failures' = IF /\ Awaited(r) /\ Outcome(r.part, reply) # "ok"
                    /\ Len(failures[r.call]) <= Attempts
                 THEN [failures EXCEPT ![r.call] = Append(@, Outcome(r.part, reply))]
                 ELSE failures

MCNext == \/ \E r \in open, reply \in Replies : MCReply(r, reply)
          \/ \E c \in Calls, method \in Methods : /\ Begin(c, method)
                                                  /\ failures' = [failures EXCEPT ![c] = <<>>]
          \/ /\ Tick \/ \E c \in Calls : Wake(c) \/ Cancel(c)
             /\ UNCHANGED failures

MCSpec == /\ MCInit /\ [][MCNext]_mcvars
          /\ WF_vars(Tick) /\ \A c \in Calls : WF_vars(Replying(c)) /\ WF_vars(Wake(c))

(* What a call raises tells how its attempts failed: an upstream error is  *)
(* raised only when every allowed attempt has failed with one, a 404 or an *)
(* undecodable reply ends the call in the attempt that met it, and it      *)
(* follows upstream errors only.  `raise last_error' never raises None.    *)
RaisesWhatItMet ==
  \A c \in Calls :
    LET n == Len(failures[c])
    IN  call[c].pc = "raised" /\ call[c].error # "cancelled" =>
          /\ n \in 1 .. Attempts
          /\ call[c].error = failures[c][n]
          /\ call[c].error = "upstream" => n = Attempts
          /\ \A i \in 1 .. n - 1 : failures[c][i] = "upstream"
=============================================================================
