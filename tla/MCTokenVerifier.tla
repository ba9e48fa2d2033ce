--------------------------- MODULE MCTokenVerifier ---------------------------
(* TokenVerifier with, beside the state, what the auth server published    *)
(* when, as in MCJWKSCache.                                                *)
EXTENDS TokenVerifier, TLC

VARIABLES absent, last    \* see MCJWKSCache

mcvars == <<vars, absent, last>>

History == INSTANCE MCJWKSCache

MCInit == Init /\ History!MCInit

MCNext == Next /\ History!Witness /\ History!Remember

MCSpec == MCInit /\ [][MCNext]_mcvars

\* verify_token comes to v in this step.
Comes(c, v) == verdict'[c] = v /\ (verdict[c] # v \/ token'[c] # token[c])

(* What is accepted is genuine at the instant it is accepted: signed by    *)
(* the key it names, begun and not expired, each with no more tolerance    *)
(* than the leeway and the error of the wall clock, and with a key that the*)
(* auth server has published less than the TTL plus the transit bound ago -*)
(* however long the verification waited for the lock or for a refresh, and *)
(* whichever way the clock is wrong.                                       *)
AcceptedTokensAreGenuine ==
  [][\A c \in Calls : Comes(c, "accepted") =>
       LET t == token'[c]
       IN  /\ t.signedBy = t.kid
           /\ t.from <= now + LeewaySeconds + MaxSkew
           /\ now < t.exp + LeewaySeconds + MaxSkew
           /\ History!Alive(t.kid)]_mcvars

(* A genuine token is refused only if it is not valid yet, or no longer, by*)
(* a clock that errs by MaxSkew against it and a leeway in favour of it, or*)
(* if the auth server did not publish its key at some instant since the    *)
(* request came in.  So a key that is promoted between two refreshes works *)
(* at once, and a leeway no smaller than the error of the clock suffices   *)
(* for a token that was issued a moment ago.                               *)
RefusedForAReason ==
  [][\A c \in Calls : Comes(c, "refused") =>
       LET t == token'[c]
       IN  \/ t.kid = NoKey \/ t.signedBy # t.kid
           \/ now - MaxSkew + LeewaySeconds < t.from
           \/ now + MaxSkew - LeewaySeconds >= t.exp
           \/ c \in absent']_mcvars

\* Without a kid; signed by somebody else; of this auth server, and valid at once or
\* only later; and with claims of which no access token can be made.
TheToken(kid, signer, from, exp, claims) ==
  [kid |-> kid, signedBy |-> signer, from |-> from, exp |-> exp, claims |-> claims]

MCTokens == {TheToken(NoKey, NoKey, 0, 3, "regular")} \union
            UNION {{TheToken(k, NoKey, 0, 3, "regular"),
                    TheToken(k, k, 0, 3, "regular"), TheToken(k, k, 3, 6, "regular"),
                    TheToken(k, k, 0, 3, "odd")} : k \in Kids}

Symmetry == Permutations(Calls) \union Permutations(Kids)
=============================================================================
