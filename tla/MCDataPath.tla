---------------------------- MODULE MCDataPath ------------------------------
(* DataPath on a small instance, with the time of each key's latest store  *)
(* recorded beside the state.                                              *)
EXTENDS DataPath

CONSTANT overview    \* a structural key, of two requests

VARIABLE filled    \* [key that was ever stored -> the time of its latest store]

MCMethodOf == [k \in Keys |-> "get_event_overview"]

mcvars == <<pathvars, filled>>

MCInit == PathInit /\ filled = EmptyDict

\* A step stores when it ends a fetch with a result.
Stored(k) == \E c \in Calls : Fetching(c, k) /\ task'[c].pc = "returned"

MCNext == /\ PathNext
          /\ \/ /\ \A k \in Keys : ~Stored(k)
                /\ UNCHANGED filled
             \/ \E k \in Keys : Stored(k) /\ filled' = Put(filled, k, now)

MCSpec == MCInit /\ [][MCNext]_mcvars /\ PathFairness

(* The cache does its work: whatever other tasks do to the key, a result   *)
(* that was stored keeps the key answered without a request for the whole  *)
(* TTL of its method.                                                      *)
EveryStoreIsKept ==
  \A k \in DOMAIN filled : now < filled[k] + Ttl(k) => Valid(k)
=============================================================================
