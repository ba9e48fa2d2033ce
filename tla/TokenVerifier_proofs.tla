------------------------ MODULE TokenVerifier_proofs ------------------------
(***************************************************************************)
(* Proofs about verify_token over the key cache, for any requests, tokens, *)
(* TTL and leeway, and any error of the wall clock either way.  What the   *)
(* cache promises is taken from JWKSCache_proofs, by instance.             *)
(***************************************************************************)
EXTENDS MCTokenVerifier, TLAPS

Keys == INSTANCE JWKSCache_proofs

Verdicts == {"none", "pending", "accepted", "refused", "raised", "cancelled"}

Waiting(t) == t.pc \in {"waiting", "fetching", "arriving"}

\* A request is pending exactly while its task is in jwks.get, for its own kid.
Linked(c) == /\ Pending(c) <=> Waiting(task[c])
             /\ Pending(c) => task[c].kid = token[c].kid

(* The inductive invariant.                                                *)
IInv == /\ Keys!IInv
        /\ verdict \in [Calls -> Verdicts] /\ token \in [Calls -> Tokens]
        /\ \A c \in Calls : Linked(c)

LEMMA CacheAssumption == Keys!JWKSAssumption
BY VerifierAssumption DEF VerifierAssumption, Keys!JWKSAssumption

LEMMA TokenFields ==
  ASSUME NEW t \in Tokens
  PROVE  t.from \in Int /\ t.exp \in Int /\ t.claims \in {"regular", "odd"}
         /\ (t.kid # NoKey => t.kid \in Kids)
BY VerifierAssumption DEF VerifierAssumption, Token

\* A task is where JWKSCache says it may be.
LEMMA TaskPhases ==
  ASSUME Keys!IInv, NEW c \in Calls
  PROVE  /\ task[c].pc \in {"idle", "waiting", "fetching", "arriving",
                            "found", "unknown", "raised", "cancelled"}
         /\ Waiting(task[c]) => task[c].kid \in Kids
         /\ Keys!Free(c) <=> ~Waiting(task[c])
<1>1. task[c] \in Keys!Task
  BY DEF Keys!IInv, Keys!Types
<1> QED
  BY <1>1 DEF Keys!Task, Keys!Free, Waiting

LEMMA InitIInv == MCInit => IInv
<1> SUFFICES ASSUME MCInit PROVE IInv
  OBVIOUS
<1>1. Keys!MCInit
  BY DEF MCInit, History!MCInit, Keys!MCInit, History!Init, Keys!Init,
         History!Within, Keys!Within
<1>2. Keys!IInv
  BY <1>1, CacheAssumption, Keys!InitIInv
<1>3. verdict \in [Calls -> Verdicts] /\ token \in [Calls -> Tokens]
  BY DEF MCInit, Init, Verdicts
<1>4. ASSUME NEW c \in Calls PROVE Linked(c)
  <2>1. task[c].pc = "idle" /\ verdict[c] = "none"
    BY DEF MCInit, Init, Jwks!Init
  <2> QED
    BY <2>1 DEF Linked, Pending, Waiting
<1> QED
  BY <1>2, <1>3, <1>4 DEF IInv

-----------------------------------------------------------------------------
\* The cache is the same module, whether by TokenVerifier or by the proofs about it.
LEMMA SameGet ==
  ASSUME NEW c, NEW kid, Jwks!Get(c, kid)
  PROVE  Keys!Get(c, kid)
BY DEF Jwks!Get, Keys!Get, Jwks!Free, Keys!Free, Jwks!Enter, Keys!Enter,
       Jwks!NeedsRefresh, Keys!NeedsRefresh, Jwks!Set, Keys!Set, Jwks!Lookup, Keys!Lookup,
       Jwks!time, Keys!time, Jwks!store, Keys!store

LEMMA SameAwait ==
  ASSUME NEW c, Jwks!Await(c) \/ Jwks!Cancel(c)
  PROVE  (Jwks!Await(c) /\ Keys!Await(c)) \/ (Jwks!Cancel(c) /\ Keys!Cancel(c))
<1>1. Jwks!Acquire(c) => Keys!Acquire(c)
  BY DEF Jwks!Acquire, Keys!Acquire, Jwks!Enter, Keys!Enter, Jwks!NeedsRefresh,
         Keys!NeedsRefresh, Jwks!Set, Keys!Set, Jwks!Lookup, Keys!Lookup,
         Jwks!time, Keys!time, Jwks!store, Keys!store
<1>2. Jwks!ServerAnswers(c) => Keys!ServerAnswers(c)
  BY DEF Jwks!ServerAnswers, Keys!ServerAnswers, Jwks!Set, Keys!Set,
         Jwks!time, Keys!time, Jwks!store, Keys!store, Jwks!lock, Keys!lock
<1>3. Jwks!Refreshed(c) => Keys!Refreshed(c)
  BY DEF Jwks!Refreshed, Keys!Refreshed, Jwks!Replace, Keys!Replace, Jwks!Set, Keys!Set,
         Jwks!Lookup, Keys!Lookup, Jwks!time, Keys!time
<1>4. Jwks!RefreshFails(c) => Keys!RefreshFails(c)
  BY DEF Jwks!RefreshFails, Keys!RefreshFails, Jwks!Move, Keys!Move, Jwks!Set, Keys!Set,
         Jwks!time, Keys!time, Jwks!store, Keys!store
<1>5. Jwks!Cancel(c) => Keys!Cancel(c)
  <2>1. \A I : Jwks!Min(I) = Keys!Min(I)
    BY DEF Jwks!Min, Keys!Min
  <2>2. Jwks!RemoveFirst(waiters, c) = Keys!RemoveFirst(waiters, c)
    BY <2>1 DEF Jwks!RemoveFirst, Keys!RemoveFirst, Jwks!RemoveAt, Keys!RemoveAt,
                Jwks!SelectInSeq, Keys!SelectInSeq
  <2> QED
    BY <2>2 DEF Jwks!Cancel, Keys!Cancel, Jwks!Move, Keys!Move, Jwks!Set, Keys!Set,
                Jwks!time, Keys!time, Jwks!store, Keys!store
<1> QED
  BY <1>1, <1>2, <1>3, <1>4, <1>5 DEF Jwks!Await, Keys!Await

LEMMA SameWorld ==
  ASSUME Jwks!Tick \/ Jwks!SetClock \/ Jwks!Rotate
  PROVE  Keys!Tick \/ Keys!SetClock \/ Keys!Rotate
BY DEF Jwks!Tick, Keys!Tick, Jwks!SetClock, Keys!SetClock, Jwks!Rotate, Keys!Rotate,
       Jwks!Within, Keys!Within, Jwks!time, Keys!time, Jwks!store, Keys!store,
       Jwks!lock, Keys!lock

\* What a step of this module is: of the world outside, of a request that waits, or of
\* one that comes in with or without a kid.
LEMMA Steps ==
  ASSUME Next
  PROVE  \/ /\ Keys!Tick \/ Keys!SetClock \/ Keys!Rotate
            /\ UNCHANGED <<verdict, token>>
         \/ \E c \in Calls : /\ (Jwks!Await(c) /\ Keys!Await(c)) \/ (Jwks!Cancel(c) /\ Keys!Cancel(c))
                            /\ UNCHANGED token /\ Follow({})
         \/ \E c \in Calls, t \in Tokens :
              /\ ~Pending(c) /\ token' = [token EXCEPT ![c] = t]
              /\ \/ /\ t.kid = NoKey /\ UNCHANGED jwksvars
                    /\ verdict' = [verdict EXCEPT ![c] = "refused"]
                 \/ /\ t.kid # NoKey /\ Keys!Get(c, t.kid)
                    /\ Follow({c})
BY SameWorld, SameAwait, SameGet DEF Next, External, Await, Verify

\* The cache makes a step of its own, or none.
LEMMA CacheKeeps ==
  ASSUME IInv, MCNext
  PROVE  Keys!IInv'
<1>1. Keys!Witness /\ Keys!Remember
  BY DEF MCNext, History!Witness, Keys!Witness, History!Remember, Keys!Remember,
         History!Pending, Keys!Pending
<1>2. \A t \in Tokens : t.kid # NoKey => t.kid \in Kids
  BY TokenFields
<1>3. Keys!Next \/ UNCHANGED jwksvars
  BY <1>2, Steps DEF MCNext, Keys!Next
<1>4. CASE Keys!Next
  <2>1. Keys!MCNext
    BY <1>1, <1>4 DEF Keys!MCNext
  <2> QED
    BY <2>1, CacheAssumption, Keys!NextIInv DEF IInv
<1>5. CASE UNCHANGED jwksvars
  <2>1. UNCHANGED Keys!vars
    BY <1>5 DEF jwksvars, Keys!vars, Keys!time, Keys!store, Keys!lock
  <2> QED
    BY <1>1, <2>1, CacheAssumption, Keys!StandsStill DEF IInv
<1> QED
  BY <1>3, <1>4, <1>5

-----------------------------------------------------------------------------
\* Signed by its key, and valid at the current time but for the error of the clock and
\* the leeway.
Good(t) == /\ t.signedBy = t.kid
           /\ t.from <= now + LeewaySeconds + MaxSkew
           /\ now < t.exp + LeewaySeconds + MaxSkew

\* Not signed by its key, or not valid even in spite of the leeway.
Bad(t) == \/ t.signedBy # t.kid
          \/ now - MaxSkew + LeewaySeconds < t.from
          \/ now + MaxSkew - LeewaySeconds >= t.exp

\* What a request comes to, and why.
LEMMA Conclusion ==
  ASSUME IInv, NEW t, NEW tok \in Tokens,
         t.pc \in {"waiting", "fetching", "arriving", "found", "unknown", "raised", "cancelled"}
  PROVE  /\ Concludes(t, tok) \in Verdicts
         /\ Concludes(t, tok) = "pending" <=> Waiting(t)
         /\ Concludes(t, tok) = "accepted" => t.pc = "found" /\ Good(tok)
         /\ Concludes(t, tok) = "refused" => Bad(tok) \/ t.pc = "unknown"
<1>1. /\ now \in Nat /\ clock \in Int /\ now - MaxSkew <= clock /\ clock <= now + MaxSkew
      /\ MaxSkew \in Nat /\ LeewaySeconds \in Int
  BY VerifierAssumption DEF IInv, Keys!IInv, Keys!Types, Keys!Within, VerifierAssumption
<1>2. tok.exp \in Int /\ tok.from \in Int /\ tok.claims \in {"regular", "odd"}
  BY TokenFields
<1>3. Decodes(tok) => Good(tok)
  BY <1>1, <1>2 DEF Decodes, Good
<1>4. ~Decodes(tok) => Bad(tok)
  BY <1>1, <1>2 DEF Decodes, Bad
<1>5. CASE t.pc = "found"
  <2>1. Concludes(t, tok) = Decoded(tok)
    BY <1>5 DEF Concludes
  <2>2. /\ ~Decodes(tok) => Decoded(tok) = "refused"
        /\ Decodes(tok) => Decoded(tok) \in {"accepted", "raised"}
    BY <1>2 DEF Decoded
  <2> QED
    BY <1>3, <1>4, <1>5, <2>1, <2>2 DEF Verdicts, Waiting
<1>6. CASE t.pc # "found"
  BY <1>6 DEF Concludes, Verdicts, Waiting
<1> QED
  BY <1>5, <1>6

\* A step that one request takes, with a token that stays or comes in with it.
LEMMA RequestKeeps ==
  ASSUME IInv, Keys!IInv', NEW c \in Calls, NEW tok \in Tokens, UNCHANGED <<now, clock>>,
         token' = [token EXCEPT ![c] = tok],
         \A d \in Calls \ {c} : task'[d] = task[d],
         task'[c].pc \in {"waiting", "fetching", "arriving", "found", "unknown", "raised", "cancelled"},
         task'[c].kid = tok.kid,
         Follow({c})
  PROVE  IInv'
<1>1. token'[c] = tok /\ token' \in [Calls -> Tokens] /\ \A d \in Calls \ {c} : token'[d] = token[d]
  BY DEF IInv
<1>2. verdict'[c] = Concludes(task'[c], tok)
  BY <1>1 DEF Follow
<1>3. ASSUME NEW d \in Calls \ {c} PROVE verdict'[d] = verdict[d]
  <2>1. CASE Pending(d)
    <3>1. Waiting(task'[d])
      BY <2>1 DEF IInv, Linked
    <3>2. Concludes(task'[d], token'[d]) = "pending"
      BY <3>1 DEF Concludes, Waiting
    <3> QED
      BY <2>1, <3>2 DEF Follow, Pending
  <2>2. CASE ~Pending(d)
    BY <2>2 DEF Follow
  <2> QED
    BY <2>1, <2>2
<1>4. verdict' = [d \in Calls |-> verdict'[d]] /\ \A d \in Calls : verdict'[d] \in Verdicts
  <2>1. verdict' = [d \in Calls |-> verdict'[d]]
    BY DEF Follow
  <2>2. verdict'[c] \in Verdicts
    BY <1>2, Conclusion
  <2> QED
    BY <1>3, <2>1, <2>2 DEF IInv
<1>5. ASSUME NEW d \in Calls PROVE Linked(d)'
  <2>1. CASE d = c
    BY <1>1, <1>2, <2>1, Conclusion DEF Linked, Pending, Waiting
  <2>2. CASE d # c
    BY <1>1, <1>3, <2>2 DEF IInv, Linked, Pending, Waiting
  <2> QED
    BY <2>1, <2>2
<1> QED
  BY <1>1, <1>4, <1>5 DEF IInv

\* A request that waits.
LEMMA AwaitKeeps ==
  ASSUME IInv, Keys!IInv', NEW c \in Calls, Keys!Await(c) \/ Keys!Cancel(c),
         UNCHANGED token, Follow({})
  PROVE  IInv' /\ Pending(c)
<1>1. /\ ~Keys!Free(c) /\ task'[c].kid = task[c].kid
      /\ task'[c].pc \in {"fetching", "arriving", "found", "unknown", "raised", "cancelled"}
      /\ \A d \in Calls \ {c} : task'[d] = task[d]
      /\ UNCHANGED Keys!time
  BY CacheAssumption, Keys!AwaitMoves DEF IInv
<1>2. Pending(c) /\ token[c].kid = task[c].kid
  BY <1>1, TaskPhases DEF IInv, Linked
<1>3. Follow({c})
  BY <1>2 DEF Follow
<1>4. UNCHANGED <<now, clock>>
  BY <1>1 DEF Keys!time
<1>5. token[c] \in Tokens /\ token' = [token EXCEPT ![c] = token[c]]
  BY DEF IInv
<1> QED
  BY <1>1, <1>2, <1>3, <1>4, <1>5, RequestKeeps

\* A request that comes in with a kid.
LEMMA GetKeeps ==
  ASSUME IInv, Keys!IInv', NEW c \in Calls, NEW t \in Tokens, t.kid # NoKey, Keys!Get(c, t.kid),
         token' = [token EXCEPT ![c] = t], Follow({c})
  PROVE  IInv'
<1>1. t.kid \in Kids
  BY TokenFields
<1>2. /\ task'[c].kid = t.kid /\ task'[c].pc \in {"waiting", "fetching", "found"}
      /\ \A d \in Calls \ {c} : task'[d] = task[d]
      /\ UNCHANGED Keys!time
  BY <1>1, CacheAssumption, Keys!GetMoves DEF IInv
<1>3. UNCHANGED <<now, clock>>
  BY <1>2 DEF Keys!time
<1> QED
  BY <1>2, <1>3, RequestKeeps

\* A request that comes in without one.
LEMMA NoKidKeeps ==
  ASSUME IInv, Keys!IInv', NEW c \in Calls, NEW t \in Tokens, t.kid = NoKey, ~Pending(c),
         UNCHANGED jwksvars, token' = [token EXCEPT ![c] = t],
         verdict' = [verdict EXCEPT ![c] = "refused"]
  PROVE  IInv'
<1>1. task' = task /\ now' = now
  BY DEF jwksvars
<1>2. /\ token'[c] = t /\ token' \in [Calls -> Tokens]
      /\ verdict'[c] = "refused" /\ verdict' \in [Calls -> Verdicts]
      /\ \A d \in Calls \ {c} : token'[d] = token[d] /\ verdict'[d] = verdict[d]
  BY DEF IInv, Verdicts
<1>3. ASSUME NEW d \in Calls PROVE Linked(d)'
  <2>1. CASE d = c
    BY <1>1, <1>2, <2>1 DEF IInv, Linked, Pending, Waiting
  <2>2. CASE d # c
    BY <1>1, <1>2, <2>2 DEF IInv, Linked, Pending, Waiting
  <2> QED
    BY <2>1, <2>2
<1> QED
  BY <1>2, <1>3 DEF IInv

\* The world outside.
LEMMA WorldKeeps ==
  ASSUME IInv, Keys!IInv', Keys!Tick \/ Keys!SetClock \/ Keys!Rotate, UNCHANGED <<verdict, token>>
  PROVE  IInv'
<1>1. task' = task
  BY DEF Keys!Tick, Keys!SetClock, Keys!Rotate
<1>2. ASSUME NEW d \in Calls PROVE Linked(d)'
  BY <1>1 DEF IInv, Linked, Pending, Waiting
<1> QED
  BY <1>2 DEF IInv

LEMMA NextIInv ==
  ASSUME IInv, [MCNext]_mcvars
  PROVE  IInv'
<1>1. CASE MCNext
  <2>1. Keys!IInv' /\ Next
    BY <1>1, CacheKeeps DEF MCNext
  <2> QED
    BY <2>1, Steps, WorldKeeps, AwaitKeeps, GetKeeps, NoKidKeeps
<1>2. CASE UNCHANGED mcvars
  <2>1. /\ UNCHANGED <<now, clock, published, keys, expiresAt, task, absent, last>>
        /\ UNCHANGED <<verdict, token>>
    BY <1>2 DEF mcvars, vars, jwksvars
  <2>2. Keys!IInv'
    <3>1. UNCHANGED Keys!mcvars
      BY <1>2 DEF mcvars, vars, jwksvars, Keys!mcvars, Keys!vars, Keys!time, Keys!store, Keys!lock
    <3> QED
      BY <3>1, CacheAssumption, Keys!NextIInv DEF IInv
  <2>3. \A d \in Calls : Linked(d)'
    BY <2>1 DEF IInv, Linked, Pending, Waiting
  <2> QED
    BY <2>1, <2>2, <2>3 DEF IInv
<1> QED
  BY <1>1, <1>2

LEMMA Invariance == MCSpec => []IInv
<1>1. MCInit => IInv
  BY InitIInv
<1>2. IInv /\ [MCNext]_mcvars => IInv'
  BY NextIInv
<1> QED
  BY <1>1, <1>2, PTL DEF MCSpec

-----------------------------------------------------------------------------
(* A request is pending exactly while it is in jwks.get for its own kid,   *)
(* and every variable keeps its type.                                      *)
THEOREM TypeCorrect == MCSpec => []TypeOK
<1>1. IInv => TypeOK
  <2> SUFFICES ASSUME IInv, NEW c \in Calls
               PROVE  /\ Pending(c) <=> ~Jwks!Free(c)
                      /\ Pending(c) => task[c].kid = token[c].kid
    BY DEF IInv, TypeOK, Verdicts
  <2>1. Jwks!Free(c) <=> Keys!Free(c)
    BY DEF Jwks!Free, Keys!Free
  <2> QED
    BY <2>1, TaskPhases DEF IInv, Linked
<1> QED
  BY <1>1, Invariance, PTL

\* Who comes to a verdict, and by what: with no kid; or by what jwks.get came to.
LEMMA Verdict ==
  ASSUME IInv, MCNext, NEW c \in Calls, NEW v \in {"accepted", "refused"}, Comes(c, v)
  PROVE  \/ v = "refused" /\ token'[c].kid = NoKey
         \/ /\ Keys!Await(c) \/ Keys!Cancel(c) \/ \E kid \in Kids : Keys!Get(c, kid)
            /\ token'[c] \in Tokens /\ task'[c].kid = token'[c].kid
            /\ v = Concludes(task'[c], token'[c])
            /\ task'[c].pc \in {"waiting", "fetching", "arriving", "found", "unknown",
                              "raised", "cancelled"}
<1>0. verdict'[c] = v /\ (verdict[c] # v \/ token'[c] # token[c]) /\ v # "pending"
  BY DEF Comes
<1>1. Keys!IInv /\ Next
  BY DEF IInv, MCNext
<1>2. ASSUME NEW d \in Calls, Keys!Await(d) \/ Keys!Cancel(d), UNCHANGED token, Follow({})
      PROVE  /\ d = c /\ token'[c] \in Tokens /\ task'[c].kid = token'[c].kid
             /\ v = Concludes(task'[c], token'[c])
             /\ task'[c].pc \in {"waiting", "fetching", "arriving", "found", "unknown",
                               "raised", "cancelled"}
  <2>1. Pending(c) /\ verdict'[c] = Concludes(task'[c], token'[c])
    BY <1>0, <1>2 DEF Follow
  <2>2. Waiting(task[c])
    BY <2>1 DEF IInv, Linked
  <2>3. d = c
    <3>1. d # c => Waiting(task'[c])
      BY <1>1, <1>2, <2>2, CacheAssumption, Keys!AwaitMoves
    <3>2. Waiting(task'[c]) => Concludes(task'[c], token'[c]) = "pending"
      BY DEF Waiting, Concludes
    <3> QED
      BY <1>0, <2>1, <3>1, <3>2
  <2>4. /\ task'[c].kid = task[c].kid
        /\ task'[c].pc \in {"fetching", "arriving", "found", "unknown", "raised", "cancelled"}
    BY <1>1, <1>2, <2>3, CacheAssumption, Keys!AwaitMoves
  <2>5. token'[c] \in Tokens /\ task'[c].kid = token'[c].kid
    BY <1>2, <2>1, <2>4 DEF IInv, Linked
  <2> QED
    BY <1>0, <2>1, <2>3, <2>4, <2>5
<1>3. ASSUME NEW d \in Calls, NEW t \in Tokens, token' = [token EXCEPT ![d] = t],
             t.kid # NoKey, Keys!Get(d, t.kid), Follow({d})
      PROVE  /\ d = c /\ token'[c] \in Tokens /\ task'[c].kid = token'[c].kid /\ t.kid \in Kids
             /\ v = Concludes(task'[c], token'[c])
             /\ task'[c].pc \in {"waiting", "fetching", "arriving", "found", "unknown",
                               "raised", "cancelled"}
  <2>1. t.kid \in Kids
    BY <1>3, TokenFields
  <2>2. /\ task'[d].kid = t.kid /\ task'[d].pc \in {"waiting", "fetching", "found"}
        /\ \A b \in Calls \ {d} : task'[b] = task[b]
    BY <1>1, <1>3, <2>1, CacheAssumption, Keys!GetMoves
  <2>3. d = c
    <3>1. d # c => token'[c] = token[c] /\ task'[c] = task[c]
      BY <1>3, <2>2 DEF IInv
    <3>2. d # c /\ Pending(c) => Waiting(task'[c]) /\ verdict'[c] = Concludes(task'[c], token'[c])
      BY <1>3, <3>1 DEF IInv, Linked, Follow
    <3>3. d # c /\ ~Pending(c) => verdict'[c] = verdict[c]
      BY <1>3 DEF Follow
    <3>4. Waiting(task'[c]) => Concludes(task'[c], token'[c]) = "pending"
      BY DEF Waiting, Concludes
    <3> QED
      BY <1>0, <3>1, <3>2, <3>3, <3>4
  <2>4. token'[c] = t /\ verdict'[c] = Concludes(task'[c], t)
    BY <1>3, <2>3 DEF IInv, Follow
  <2> QED
    BY <1>0, <1>3, <2>1, <2>2, <2>3, <2>4
<1>4. ASSUME NEW d \in Calls, NEW t \in Tokens, token' = [token EXCEPT ![d] = t],
             t.kid = NoKey, verdict' = [verdict EXCEPT ![d] = "refused"]
      PROVE  v = "refused" /\ token'[c].kid = NoKey
  <2>1. d # c => token'[c] = token[c] /\ verdict'[c] = verdict[c]
    BY <1>4 DEF IInv
  <2>2. d = c => token'[c] = t /\ verdict'[c] = "refused"
    BY <1>4 DEF IInv
  <2> QED
    BY <1>0, <1>4, <2>1, <2>2
<1>5. ~UNCHANGED <<verdict, token>>
  BY <1>0
<1> QED
  BY <1>2, <1>3, <1>4, <1>1, <1>5, Steps

(* A genuine token is refused only if it is not valid by a clock that errs *)
(* against it, or if its key was not published at some instant since the   *)
(* request came in (token_verifier.py:78 and 84), whichever way the clock  *)
(* is wrong and however long the request waited.                           *)
THEOREM RefusalsHaveAReason == MCSpec => RefusedForAReason
<1> DEFINE Reason(c) == LET t == token'[c]
                        IN  \/ t.kid = NoKey \/ t.signedBy # t.kid
                            \/ now - MaxSkew + LeewaySeconds < t.from
                            \/ now + MaxSkew - LeewaySeconds >= t.exp
                            \/ c \in absent'
<1>1. ASSUME IInv, MCNext, NEW c \in Calls, Comes(c, "refused") PROVE Reason(c)
  <2>1. Keys!IInv'
    BY <1>1, CacheKeeps
  <2>2. task'[c].pc = "unknown" => c \in absent'
    BY <2>1 DEF Keys!IInv, Keys!Missing
  <2>3. CASE token'[c].kid = NoKey
    BY <2>3
  <2>4. CASE token'[c].kid # NoKey
    <3>1. Bad(token'[c]) \/ task'[c].pc = "unknown"
      BY <1>1, <2>4, Verdict, Conclusion
    <3> QED
      BY <2>2, <3>1 DEF Bad
  <2> QED
    BY <2>3, <2>4
<1>2. IInv /\ [MCNext]_mcvars => [\A c \in Calls : Comes(c, "refused") => Reason(c)]_mcvars
  BY <1>1
<1> QED
  BY <1>2, Invariance, PTL DEF MCSpec, RefusedForAReason

(* What is accepted is signed by the key it names, is valid but for the    *)
(* leeway and the error of the wall clock, and its key was published at the*)
(* refresh that brought it, or less than the TTL, the transit and twice the*)
(* error of the clock ago (token_verifier.py:84), however long the request *)
(* waited.                                                                 *)
THEOREM AcceptedAreGenuine == MCSpec => AcceptedTokensAreGenuine
<1> DEFINE Genuine(c) == LET t == token'[c]
                         IN  /\ t.signedBy = t.kid
                             /\ t.from <= now + LeewaySeconds + MaxSkew
                             /\ now < t.exp + LeewaySeconds + MaxSkew
                             /\ History!Alive(t.kid)
<1>1. ASSUME IInv, MCNext, NEW c \in Calls, Comes(c, "accepted")
      PROVE  Good(token'[c]) /\ History!Alive(token'[c].kid)
  <2>1. /\ Keys!Await(c) \/ Keys!Cancel(c) \/ \E kid \in Kids : Keys!Get(c, kid)
        /\ task'[c].kid = token'[c].kid
        /\ task'[c].pc = "found" /\ Good(token'[c])
    BY <1>1, Verdict, Conclusion
  <2>2. Keys!Alive(task'[c].kid)
    BY <1>1, <2>1, CacheAssumption, Keys!HandedOutIsAlive DEF IInv
  <2> QED
    BY <2>1, <2>2 DEF Keys!Alive, History!Alive
<1>2. IInv /\ [MCNext]_mcvars =>
        [\A c \in Calls : Comes(c, "accepted") => Genuine(c)]_mcvars
  BY <1>1 DEF Good
<1> QED
  BY <1>2, Invariance, PTL DEF MCSpec, AcceptedTokensAreGenuine
=============================================================================
