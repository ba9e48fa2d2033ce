----------------------------- MODULE MCDispatch -----------------------------
(* Dispatch with, beside the state, what the policy service said of a call.*)
EXTENDS Dispatch

VARIABLE heard    \* the reply of the policy service to the current call

mcvars == <<vars, heard>>

MCInit == Init /\ heard = [c \in Calls |-> "nothing"]

Hear(c, reply) == heard' = [heard EXCEPT ![c] = reply]

MCNext ==
  \E c \in Calls :
    \/ \E handler \in Handlers, claims \in Claims \union {Nobody} :
         Begin(c, handler, claims) /\ Hear(c, "nothing")
    \/ PolicyFails(c) /\ Hear(c, "no_reply")
    \/ \E reply \in Replies : PolicyReplies(c, reply) /\ Hear(c, reply)
    \/ /\ Cancel(c) \/ \E outcome \in Outcomes : ServiceEnds(c, outcome)
       /\ UNCHANGED heard

\* Tokens with up to two scopes, and a subject and a client of their own or not.
MCNames == {"u", "v"}
MCScope == [key : {"read", "sub", "client_id"}, value : {"v"}] \union [key : {"sub"}, value : {""}]
MCScopes == UNION {[1 .. n -> MCScope] : n \in 0 .. 2}
MCClaims == [scope : MCScopes, actor_type : {""}, agent_id : {"u"}, sub : {"", "u"}, client_id : {"", "u"}]

MCSpec == MCInit /\ [][MCNext]_mcvars

(* A denial short-circuits before the coroutine runs (_base.py:164): a     *)
(* service method has run only where nobody decides, where the policy      *)
(* service said yes, or where an error of it is configured to allow.       *)
NothingRunsUnauthorized ==
  \A c \in Calls : coro[c] \in {"running", "finished"} =>
    \/ wiring = "pass_through"
    \/ heard[c] = "allowed"
    \/ wiring = "fail_open" /\ heard[c] \in {"no_reply", "bad_status"}
=============================================================================
