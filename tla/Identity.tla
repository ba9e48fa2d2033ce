------------------------------ MODULE Identity -------------------------------
(***************************************************************************)
(* Who a tool call is made for, on its way from the token to the policy    *)
(* service: _to_access_token of security/token_verifier.py encodes claims  *)
(* of the token as `key:value' scopes behind the scopes that the token     *)
(* has itself, _read_actor of tools/_base.py decodes them, and the         *)
(* authorizer asks about the first identity that is not empty.             *)
(*                                                                         *)
(* A scope is a key and a value.  One without a colon, and one with a key  *)
(* that is no field of the actor, are both ignored: key "read" stands for  *)
(* either.                                                                 *)
(***************************************************************************)
EXTENDS Integers, Sequences

CONSTANTS Names,     \* subjects, clients, agents, kinds of actors; none is ""
          Claims,    \* bound: the claims of the tokens that come in
          Nobody     \* in place of claims: no token, as on stdio or without authentication

Fields == {"actor_type", "agent_id", "sub", "client_id"}

ClaimValue == Names \union {""}

Scope == [key : Fields \union {"read"}, value : ClaimValue]

ASSUME IdentityAssumption ==
  /\ "" \notin Names
  /\ Claims \subseteq [scope : Seq(Scope), actor_type : ClaimValue, agent_id : ClaimValue,
                       sub : ClaimValue, client_id : ClaimValue]
  /\ Nobody \notin Claims

Actor == [Fields -> ClaimValue]

\* `a or b' of Python, for strings.
OrElse(a, b) == IF a # "" THEN a ELSE b

\* A claim that is missing or empty is not encoded.
Encode(claims, key) == IF claims[key] = "" THEN <<>> ELSE <<[key |-> key, value |-> claims[key]]>>

\* Mutants (suffix _M): a definition as a plausible bug of this code would have it.
Scopes_M(claims) == Encode(claims, "actor_type") \o Encode(claims, "agent_id")
                      \o Encode(claims, "sub") \o claims.scope
Scopes(claims) == claims.scope \o Encode(claims, "actor_type") \o Encode(claims, "agent_id")
                    \o Encode(claims, "sub")

\* _to_access_token
AccessToken(claims) == [client_id |-> OrElse(claims.client_id, claims.sub), scopes |-> Scopes(claims)]

\* _merge_scope_claims assigns one after the other: of the scopes with a key the last counts.
MergeScopeClaims(actor, scopes) ==
  [f \in Fields |->
     LET last == {i \in 1 .. Len(scopes) :
                    scopes[i].key = f /\ \A j \in i + 1 .. Len(scopes) : scopes[j].key # f}
     IN  IF last = {} THEN actor[f] ELSE scopes[CHOOSE i \in last : TRUE].value]

Unknown == [f \in Fields |-> ""]

\* _read_actor
ReadActor(claims) ==
  IF claims = Nobody THEN Unknown
  ELSE LET token == AccessToken(claims)
       IN  MergeScopeClaims([Unknown EXCEPT !["client_id"] = token.client_id], token.scopes)

\* The subject_id that _fetch_decision asks the policy service about.
SubjectId(actor) == OrElse(actor["sub"], OrElse(actor["client_id"], actor["agent_id"]))
=============================================================================
