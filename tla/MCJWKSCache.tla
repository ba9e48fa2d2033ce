---------------------------- MODULE MCJWKSCache -----------------------------
(* JWKSCache with, beside the state, what the auth server published when.  *)
EXTENDS JWKSCache

VARIABLES absent,    \* the tasks whose kid was unpublished during their current get
          last       \* [key id ever published -> the last instant it was]

mcvars == <<vars, absent, last>>

Pending(t) == t.pc \in {"waiting", "fetching", "arriving"}

MCInit == /\ Init
          /\ absent = {}
          /\ last = [k \in published |-> now]

\* What happened to a task in its current get, and to a key id in this step.
Witness ==
  absent' = {c \in Calls : \/ c \in absent /\ (Pending(task[c]) \/ task'[c] = task[c])
                           \/ Pending(task'[c]) /\ task'[c].kid \notin published'}

Remember == last' = [k \in published' \union DOMAIN last |->
                       IF k \in published' THEN now' ELSE last[k]]

MCNext == Next /\ Witness /\ Remember

MCSpec == MCInit /\ [][MCNext]_mcvars /\ \A c \in Calls : WF_vars(Await(c))

(* A newly promoted key is accepted at once: a token is refused for an     *)
(* unknown kid only if the auth server did not publish that kid at some    *)
(* instant since the verification began, however long the task waited for  *)
(* the refresh of another.                                                 *)
UnknownMeansUnpublished ==
  \A c \in Calls : task[c].pc = "unknown" => c \in absent

\* A key that may be handed out: fresh from the auth server, or kept for its TTL - by
\* a clock that was ahead when the TTL began, and is behind when it is read.
Alive(kid) == /\ kid \in DOMAIN last
              /\ \/ now <= last[kid] + MaxTransit
                 \/ now < last[kid] + TtlSeconds + MaxTransit + 2 * MaxSkew

(* A retired key dies: a key is handed out only if the auth server has     *)
(* published it less than the TTL plus the transit bound ago, whatever     *)
(* refreshes fail or wait; a clock that is set forward and back adds no    *)
(* more than its error to either side, however often it is set.  With a TTL*)
(* that is not positive a key is handed out straight from its refresh only.*)
RetiredKeysDie ==
  [][\A c \in Calls :
       task'[c].pc = "found" /\ task'[c] # task[c] => Alive(task'[c].kid)]_mcvars
=============================================================================
