---------------------------- MODULE TokenVerifier ----------------------------
(***************************************************************************)
(* JWKSTokenVerifier.verify_token of security/token_verifier.py over the   *)
(* key cache.  jwks.get is awaited directly, so the token is decoded in the*)
(* step in which the cache hands out the key: an instant that may lie well *)
(* after the one at which the token came in.                               *)
(*                                                                         *)
(* A token is abstracted to what its verification depends on: the key id in*)
(* its header, the key that it was really signed with, the instants between*)
(* which it is valid, and whether its claims have the types that the code  *)
(* expects.  Those instants are of the clock of the auth server, which     *)
(* stands for the true time; the issuer and the audience, which jwt.decode *)
(* compares with constants, are left out.                                  *)
(***************************************************************************)
EXTENDS Integers

CONSTANTS Calls,           \* requests under way, one name per request
          Kids,            \* the key ids of the auth server
          TtlSeconds,      \* ttl_seconds of the key cache
          NoKey,           \* no key, or one that the auth server never had
          Tokens,          \* bound: the tokens that come in
          LeewaySeconds,   \* leeway_seconds
          MaxTransit,      \* bound: seconds a response travels
          MaxSkew,         \* bound: seconds between the wall clock and the true time, either way
          MaxTime          \* bound: time stops here

\* from is the later of iat and nbf.  The claims are odd if one has a type of which
\* _to_access_token makes nothing: a scope that is a list.
Token == [kid : Kids \union {NoKey}, signedBy : Kids \union {NoKey},
          from : Int, exp : Int, claims : {"regular", "odd"}]

ASSUME VerifierAssumption == /\ TtlSeconds \in Int
                             /\ MaxTransit \in Nat
                             /\ MaxSkew \in Nat
                             /\ MaxTime \in Nat
                             /\ LeewaySeconds \in Int
                             /\ Tokens \subseteq Token
                             /\ NoKey \notin Kids

VARIABLES now, clock, published, keys, expiresAt, holders, waiters, task,   \* see JWKSCache
          verdict,   \* what verify_token came to, for each request
          token      \* the token of each request

jwksvars == <<now, clock, published, keys, expiresAt, holders, waiters, task>>
vars == <<jwksvars, verdict, token>>

Jwks == INSTANCE JWKSCache

Init == /\ Jwks!Init
        /\ verdict = [c \in Calls |-> "none"]
        /\ token \in [Calls -> {t \in Tokens : t.kid = NoKey}]

-----------------------------------------------------------------------------
Pending(c) == verdict[c] = "pending"

\* Mutants (suffix _M): a definition as a plausible bug of this code would have it.
\* jwt.decode with the key of the token's kid, at the current time.
Decodes_M(t) == /\ t.signedBy = t.kid
                /\ t.from <= clock - LeewaySeconds /\ clock - LeewaySeconds < t.exp
Decodes(t) == /\ t.signedBy = t.kid
              /\ t.from <= clock + LeewaySeconds /\ clock - LeewaySeconds < t.exp

\* jwt.decode, and the projection of the claims, which stands outside of the try.
Decoded(t) == CASE ~Decodes(t) -> "refused"
                [] Decodes(t) /\ t.claims = "regular" -> "accepted"
                [] Decodes(t) /\ t.claims = "odd" -> "raised"

\* What follows `await self.jwks.get(kid)', once it came to what t says: of the
\* exceptions that it raises only KeyError is caught.
Concludes_M(t, tok) == CASE t.pc = "found" -> Decoded(tok)
                         [] t.pc \in {"unknown", "cancelled"} -> "refused"
                         [] OTHER -> "pending"
Concludes(t, tok) == CASE t.pc = "found" -> Decoded(tok)
                       [] t.pc = "unknown" -> "refused"
                       [] t.pc \in {"raised", "cancelled"} -> t.pc
                       [] OTHER -> "pending"

\* Whoever is pending after a step of the cache concludes in that step.
Follow(started) ==
  verdict' = [c \in Calls |-> IF Pending(c) \/ c \in started
                                THEN Concludes(task'[c], token'[c]) ELSE verdict[c]]

\* A request comes in: no kid, or a malformed header, ends it at once.
Verify(c, t) ==
  /\ ~Pending(c)
  /\ token' = [token EXCEPT ![c] = t]
  /\ \/ /\ t.kid = NoKey
        /\ verdict' = [verdict EXCEPT ![c] = "refused"]
        /\ UNCHANGED jwksvars
     \/ /\ t.kid # NoKey
        /\ Jwks!Get(c, t.kid)
        /\ Follow({c})

Await(c) == Jwks!Await(c) /\ UNCHANGED token /\ Follow({})

External == /\ Jwks!Tick \/ Jwks!SetClock \/ Jwks!Rotate
            /\ UNCHANGED <<verdict, token>>

Next == \/ External
        \/ \E c \in Calls : \/ Await(c)
                            \/ Jwks!Cancel(c) /\ UNCHANGED token /\ Follow({})
                            \/ \E t \in Tokens : Verify(c, t)

Spec == Init /\ [][Next]_vars

-----------------------------------------------------------------------------
(* Every variable keeps its type; a request is pending exactly while its   *)
(* task is in jwks.get, for the kid of its own token.                      *)
TypeOK == /\ verdict \in [Calls -> {"none", "pending", "accepted", "refused", "raised", "cancelled"}]
          /\ token \in [Calls -> Tokens]
          /\ \A c \in Calls : /\ Pending(c) <=> ~Jwks!Free(c)
                              /\ Pending(c) => task[c].kid = token[c].kid

(* What token_verifier.py:61 says: verify_token returns None on every      *)
(* failure.  It never ends with an exception.                              *)
ReturnsNoneOnEveryFailure == \A c \in Calls : verdict[c] # "raised"
=============================================================================
