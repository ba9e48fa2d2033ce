---------------------------- MODULE MCRpiService ----------------------------
(* RpiService with the tables listed in the order of their last use beside *)
(* the state, those that were evicted included.                            *)
EXTENDS RpiService, TLC

VARIABLE uses    \* every table ever used, the last used last

mcvars == <<vars, uses>>

MCInit == Init /\ uses = <<>>

Touch(t) == uses' = Append(RemoveFirst(uses, t), t)

MCNext == \/ Tick /\ UNCHANGED uses
          \/ \E c \in Calls, t \in Asked : \/ (MemoHit(c, t) \/ MemoMissCacheHit(c, t)) /\ Touch(t)
                                           \/ MemoMissCacheMiss(c, t) /\ UNCHANGED uses
          \/ \E c \in Calls, f \in Flights :
               \/ (ReadSchedule(c, f) \/ Fail(c, f)) /\ UNCHANGED uses
               \/ /\ Resume(c, f)
                  /\ IF request[c].pc = "waiting" THEN Touch(request[c].table) ELSE UNCHANGED uses

MCSpec == MCInit /\ [][MCNext]_mcvars

(* What the memo keeps are the tables used last, and what it evicts is the *)
(* one whose last use lies furthest back; a table is dropped only when the *)
(* memo is full.                                                           *)
KeepsMostRecentlyUsed ==
  /\ IsSuffix(order, uses)
  /\ Len(order) = IF Len(uses) < RpiCacheSize THEN Len(uses) ELSE RpiCacheSize

Symmetry == Permutations(Calls) \union Permutations(TieWeights)
=============================================================================
