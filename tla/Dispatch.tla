------------------------------ MODULE Dispatch ------------------------------
(***************************************************************************)
(* A tool call from its handler in adapters/inbound/tools to its answer:   *)
(* the coroutine of the service method is created, the authorizer is asked,*)
(* and the coroutine is run or closed (_safe_call_authorized of _base.py,  *)
(* with the two authorizers of adapters/inbound/authorization.py).  The    *)
(* caller is who the token of the request names, see Identity.             *)
(*                                                                         *)
(* The policy service and the methods of ECNLService are external: they    *)
(* end in any of the ways that the code tells apart, at any time.          *)
(***************************************************************************)
EXTENDS Identity, ToolHandlers

CONSTANTS Calls,     \* tool calls, one name per call under way
          Wirings    \* the environments that build_authorizer may find

ASSUME DispatchAssumption == Wirings \subseteq {"pass_through", "fail_closed", "fail_open"}

VARIABLES wiring,   \* the authorizer that build_authorizer chose
          call,     \* the progress of each tool call
          coro      \* the coroutine of its service method

vars == <<wiring, call, coro>>

Answers == {"text", "not_found", "upstream_error", "invalid_request",    \* strings
            "forbidden", "unavailable",
            "exception", "cancelled"}          \* exceptions that leave the handler

Request == [subject_id : ClaimValue, tool : {h.asks : h \in Handlers}]

Call == [pc : {"idle"}]
          \union [pc : {"asking", "serving"}, handler : Handlers,
                  claims : Claims \union {Nobody}, request : Request]
          \union [pc : {"over"}, answer : Answers]

Init == /\ wiring \in Wirings
        /\ call = [c \in Calls |-> [pc |-> "idle"]]
        /\ coro = [c \in Calls |-> "none"]

-----------------------------------------------------------------------------
Free(c) == call[c].pc \in {"idle", "over"}

Set(c, v) == call' = [call EXCEPT ![c] = v]

Ends(c, answer) == Set(c, [pc |-> "over", answer |-> answer])

Coro(c, v) == coro' = [coro EXCEPT ![c] = v]

\* What _authorize_tool asks: for the actor of the request, about the tool it is given.
Ask(handler, claims) == [subject_id |-> SubjectId(ReadActor(claims)), tool |-> handler.asks]

At(c, pc, handler, claims) ==
  Set(c, [pc |-> pc, handler |-> handler, claims |-> claims, request |-> Ask(handler, claims)])

\* The handler creates the coroutine, which starts to run only when it is awaited.
\* The pass-through authorizer has no await that suspends the call.
Begin(c, handler, claims) ==
  /\ Free(c)
  /\ \/ /\ wiring = "pass_through"
        /\ At(c, "serving", handler, claims) /\ Coro(c, "running")
     \/ /\ wiring # "pass_through"
        /\ At(c, "asking", handler, claims) /\ Coro(c, "created")
  /\ UNCHANGED wiring

\* Mutants (suffix _M): a definition as a plausible bug of this code would have it.
\* authorize allows the call: the coroutine is awaited.
Allow_M(c) == Set(c, [call[c] EXCEPT !.pc = "serving"]) /\ UNCHANGED coro
Allow(c) == Set(c, [call[c] EXCEPT !.pc = "serving"]) /\ Coro(c, "running")

\* authorize denies the call: the coroutine is closed, never having run.
Deny(c, answer) == Ends(c, answer) /\ Coro(c, "closed")

\* _error_decision: fail_closed tells whether an error denies or allows.
ErrorDecision(c) == \/ wiring = "fail_closed" /\ Deny(c, "unavailable")
                    \/ wiring = "fail_open" /\ Allow(c)

\* authorize raises: _safe_call_authorized neither awaits nor closes the coroutine.
AuthorizeRaises(c) == Ends(c, "exception") /\ UNCHANGED coro

\* What authorize does with a reply: a status that is not 2xx is an httpx.HTTPError;
\* that the body is no JSON, or no object, is not.
Verdict_M(c, reply) ==
  \/ reply \in {"allowed", "denied"} /\ Allow(c)
  \/ reply = "bad_status" /\ ErrorDecision(c)
  \/ reply \in {"no_json", "no_object"} /\ AuthorizeRaises(c)
Verdict(c, reply) ==
  \/ reply = "allowed" /\ Allow(c)
  \/ reply = "denied" /\ Deny(c, "forbidden")
  \/ reply = "bad_status" /\ ErrorDecision(c)
  \/ reply \in {"no_json", "no_object"} /\ AuthorizeRaises(c)

Replies == {"allowed", "denied", "bad_status", "no_json", "no_object"}

PolicyReplies(c, reply) == /\ call[c].pc = "asking"
                           /\ Verdict(c, reply)
                           /\ UNCHANGED wiring

\* A transport error, or a timeout of any phase of the request: each an httpx.HTTPError.
PolicyFails(c) == /\ call[c].pc = "asking"
                  /\ ErrorDecision(c)
                  /\ UNCHANGED wiring

\* _safe_call: the coroutine returns or raises; only these exceptions become text.
SafeCall(outcome) == CASE outcome = "result" -> "text"
                       [] outcome = "ECNLNotFoundError" -> "not_found"
                       [] outcome = "UpstreamAPIError" -> "upstream_error"
                       [] outcome = "ValueError" -> "invalid_request"
                       [] outcome = "other" -> "exception"

Outcomes == {"result", "ECNLNotFoundError", "UpstreamAPIError", "ValueError", "other"}

ServiceEnds(c, outcome) == /\ call[c].pc = "serving"
                           /\ Ends(c, SafeCall(outcome)) /\ Coro(c, "finished")
                           /\ UNCHANGED wiring

\* The client went away: the task is cancelled where it stands.
Cancel(c) == /\ ~Free(c)
             /\ Ends(c, "cancelled")
             /\ IF call[c].pc = "serving" THEN Coro(c, "finished") ELSE UNCHANGED coro
             /\ UNCHANGED wiring

Next == \E c \in Calls : \/ PolicyFails(c) \/ Cancel(c)
                         \/ \E handler \in Handlers, claims \in Claims \union {Nobody} :
                              Begin(c, handler, claims)
                         \/ \E reply \in Replies : PolicyReplies(c, reply)
                         \/ \E outcome \in Outcomes : ServiceEnds(c, outcome)

Spec == Init /\ [][Next]_vars

-----------------------------------------------------------------------------
(* Every variable keeps its type, and a coroutine stands where its call    *)
(* does: created while the authorizer is asked, running while it is served.*)
TypeOK == /\ wiring \in Wirings
          /\ call \in [Calls -> Call]
          /\ coro \in [Calls -> {"none", "created", "running", "finished", "closed"}]
          /\ \A c \in Calls : /\ call[c].pc = "asking" => coro[c] = "created"
                              /\ call[c].pc = "serving" <=> coro[c] = "running"

(* The authorizer is asked about the call that it holds up: for the tool   *)
(* that the client called, the only one whose coroutine would then run, and*)
(* for the subject of the verified token, whatever scopes the token carries*)
(* - even one that is encoded as the subject is (_base.py:293).  Without a *)
(* token it is asked for nobody.                                           *)
AsksAboutItself(t) ==
  /\ t.request.tool = t.handler.tool
  /\ \A h \in Handlers : h.runs = t.handler.runs => h = t.handler
  /\ t.claims = Nobody => t.request.subject_id = ""
  /\ t.claims # Nobody /\ t.claims.sub # "" => t.request.subject_id = t.claims.sub

PolicyIsAskedAboutTheCall ==
  \A c \in Calls : call[c].pc \in {"asking", "serving"} => AsksAboutItself(call[c])
=============================================================================
