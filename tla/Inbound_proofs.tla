---------------------------- MODULE Inbound_proofs ---------------------------
(***************************************************************************)
(* Proofs about the inbound side: a tool call (Dispatch), and the process  *)
(* that serves it (Server).                                                *)
(*                                                                         *)
(* The policy is asked about the call it holds up, and no call runs        *)
(* unauthorized, for any calls, claims and wirings.  The process serves    *)
(* what it was asked to and traces all its requests, for any environment   *)
(* and any queue of spans.                                                 *)
(***************************************************************************)
EXTENDS MCDispatch, Server, SequenceTheorems, TLAPS

(* Every handler writes down one name three times.                         *)
LEMMA OneNameEach ==
  ASSUME NEW h \in Handlers
  PROVE  h.asks = h.tool /\ \A g \in Handlers : g.runs = h.runs => g = h
<1> DEFINE Alike(g) == g = Handler(g.tool, g.tool, g.tool)
<1>1. \A g \in EventTools \union StandingsTools \union ScheduleTools : Alike(g)
  BY DEF EventTools, StandingsTools, ScheduleTools, Handler
<1>2. \A g \in TeamTools \union MatchTools \union AnalyticsTools : Alike(g)
  BY DEF TeamTools, MatchTools, AnalyticsTools, Handler
<1>3. \A g \in Handlers : Alike(g)
  BY <1>1, <1>2 DEF Handlers
<1>4. \A g \in Handlers : g.asks = g.tool /\ g.runs = g.tool
  BY <1>3 DEF Handler
<1> QED
  BY <1>3, <1>4

(* The claims of a token encode to scopes.                                 *)
LEMMA ClaimType ==
  ASSUME IdentityAssumption, NEW claims \in Claims
  PROVE  /\ claims.scope \in Seq(Scope)
         /\ \A key \in Fields : claims[key] \in ClaimValue
<1>1. claims \in [scope : Seq(Scope), actor_type : ClaimValue, agent_id : ClaimValue,
                  sub : ClaimValue, client_id : ClaimValue]
  BY DEF IdentityAssumption
<1> QED
  BY <1>1 DEF Fields

LEMMA EncodedType ==
  ASSUME NEW key \in Fields, NEW value \in ClaimValue, value # ""
  PROVE  [key |-> key, value |-> value] \in Scope
BY DEF ClaimValue, Scope

LEMMA OneIsSeq ==
  ASSUME NEW S, NEW x \in S
  PROVE  <<x>> \in Seq(S)
<1>1. <<x>> \in [1 .. 1 -> S]
  OBVIOUS
<1> QED
  BY <1>1, SeqDef

LEMMA LastOfConcat ==
  ASSUME NEW S, NEW seq \in Seq(S), NEW x \in S
  PROVE  LET s == seq \o <<x>> IN Len(s) # 0 /\ s[Len(s)] = x
<1>1. seq \o <<x>> = Append(seq, x)
  BY AppendIsConcat
<1>2. Len(seq) \in Nat
  BY LenProperties
<1> QED
  BY <1>1, <1>2, AppendProperties

LEMMA EncodeType ==
  ASSUME IdentityAssumption, NEW claims \in Claims, NEW key \in Fields
  PROVE  Encode(claims, key) \in Seq(Scope)
<1> DEFINE value == claims[key]
<1>1. value \in ClaimValue
  BY ClaimType
<1> HIDE DEF value
<1>2. CASE value = ""
  BY <1>2, EmptySeq DEF Encode, value
<1>3. CASE value # ""
  <2>1. [key |-> key, value |-> value] \in Scope
    BY <1>1, <1>3, EncodedType
  <2>2. Encode(claims, key) = <<[key |-> key, value |-> value]>>
    BY <1>3 DEF Encode, value
  <2> QED
    BY <2>1, <2>2, OneIsSeq
<1> QED
  BY <1>2, <1>3

LEMMA ScopesType ==
  ASSUME IdentityAssumption, NEW claims \in Claims
  PROVE  Scopes(claims) \in Seq(Scope)
<1> DEFINE a == claims.scope
           b == Encode(claims, "actor_type")
           c == Encode(claims, "agent_id")
           d == Encode(claims, "sub")
<1>1. a \in Seq(Scope)
  BY ClaimType
<1>2. b \in Seq(Scope) /\ c \in Seq(Scope) /\ d \in Seq(Scope)
  BY EncodeType DEF Fields
<1>3. Scopes(claims) = a \o b \o c \o d
  BY DEF Scopes
<1> HIDE DEF a, b, c, d
<1>4. a \o b \in Seq(Scope)
  BY <1>1, <1>2, ConcatProperties
<1>5. a \o b \o c \in Seq(Scope)
  BY <1>2, <1>4, ConcatProperties
<1>6. a \o b \o c \o d \in Seq(Scope)
  BY <1>2, <1>5, ConcatProperties
<1> QED
  BY <1>3, <1>6

(* What the scopes say of an actor is an actor.                            *)
LEMMA MergeType ==
  ASSUME NEW actor \in Actor, NEW scopes \in Seq(Scope)
  PROVE  MergeScopeClaims(actor, scopes) \in Actor
<1> SUFFICES ASSUME NEW f \in Fields
             PROVE  MergeScopeClaims(actor, scopes)[f] \in ClaimValue
  BY DEF MergeScopeClaims, Actor
<1> DEFINE last == {i \in 1 .. Len(scopes) :
                      scopes[i].key = f /\ \A j \in i + 1 .. Len(scopes) : scopes[j].key # f}
<1>1. CASE last = {}
  BY <1>1 DEF MergeScopeClaims, Actor
<1>2. CASE last # {}
  <2>1. (CHOOSE i \in last : TRUE) \in 1 .. Len(scopes)
    BY <1>2
  <2>2. scopes[CHOOSE i \in last : TRUE] \in Scope
    BY <2>1
  <2>3. MergeScopeClaims(actor, scopes)[f] = scopes[CHOOSE i \in last : TRUE].value
    BY <1>2 DEF MergeScopeClaims
  <2> QED
    BY <2>2, <2>3 DEF Scope, ClaimValue
<1> QED
  BY <1>1, <1>2

LEMMA ActorType ==
  ASSUME IdentityAssumption, NEW claims \in Claims \union {Nobody}
  PROVE  ReadActor(claims) \in Actor
<1>1. Unknown \in Actor
  BY DEF Unknown, Actor, ClaimValue
<1>2. CASE claims = Nobody
  BY <1>1, <1>2 DEF ReadActor
<1>3. CASE claims # Nobody
  <2>1. claims \in Claims
    BY <1>3
  <2>2. AccessToken(claims).scopes \in Seq(Scope)
    BY <2>1, ScopesType DEF AccessToken
  <2>3. claims.client_id \in ClaimValue /\ claims.sub \in ClaimValue
    BY <2>1 DEF IdentityAssumption
  <2>4. AccessToken(claims).client_id \in ClaimValue
    BY <2>3 DEF AccessToken, OrElse
  <2>5. [Unknown EXCEPT !["client_id"] = AccessToken(claims).client_id] \in Actor
    BY <1>1, <2>4 DEF Actor
  <2> QED
    BY <1>3, <2>2, <2>5, MergeType DEF ReadActor
<1> QED
  BY <1>2, <1>3

LEMMA AskType ==
  ASSUME IdentityAssumption, NEW handler \in Handlers, NEW claims \in Claims \union {Nobody}
  PROVE  Ask(handler, claims) \in Request
<1>1. ReadActor(claims) \in Actor
  BY ActorType
<1>2. \A f \in Fields : ReadActor(claims)[f] \in ClaimValue
  BY <1>1 DEF Actor
<1>3. SubjectId(ReadActor(claims)) \in ClaimValue
  BY <1>2 DEF SubjectId, OrElse, Fields
<1> QED
  BY <1>3 DEF Ask, Request

(* The last scope of a key counts.                                         *)
LEMMA LastCounts ==
  ASSUME NEW actor, NEW s \in Seq(Scope), Len(s) # 0,
         NEW key \in Fields, s[Len(s)].key = key
  PROVE  MergeScopeClaims(actor, s)[key] = s[Len(s)].value
<1> DEFINE last == {i \in 1 .. Len(s) :
                      s[i].key = key /\ \A j \in i + 1 .. Len(s) : s[j].key # key}
<1>1. Len(s) \in Nat /\ Len(s) \in 1 .. Len(s)
  OBVIOUS
<1>2. last = {Len(s)}
  <2>1. Len(s) \in last
    BY <1>1
  <2>2. ASSUME NEW i \in last, i # Len(s) PROVE FALSE
    <3>1. Len(s) \in i + 1 .. Len(s)
      BY <1>1, <2>2
    <3> QED
      BY <3>1
  <2> QED
    BY <2>1, <2>2
<1>3. (CHOOSE i \in last : TRUE) = Len(s) /\ last # {}
  BY <1>2
<1> QED
  BY <1>3 DEF MergeScopeClaims

(* The subject is encoded last, so the subject of the token is what        *)
(* _read_actor finds, whatever scopes the token has.                       *)
LEMMA SubjectSurvives ==
  ASSUME IdentityAssumption, NEW claims \in Claims, claims.sub # ""
  PROVE  SubjectId(ReadActor(claims)) = claims.sub
<1> DEFINE a == claims.scope
           b == Encode(claims, "actor_type")
           c == Encode(claims, "agent_id")
           before == a \o b \o c
           mine == [key |-> "sub", value |-> claims.sub]
           actor == [Unknown EXCEPT !["client_id"] = AccessToken(claims).client_id]
           s == Scopes(claims)
<1>1. s \in Seq(Scope)
  BY ScopesType
<1>2. before \in Seq(Scope)
  <2>1. a \in Seq(Scope) /\ b \in Seq(Scope) /\ c \in Seq(Scope)
    BY ClaimType, EncodeType DEF Fields
  <2> HIDE DEF a, b, c
  <2>2. a \o b \in Seq(Scope)
    BY <2>1, ConcatProperties
  <2> QED
    BY <2>1, <2>2, ConcatProperties
<1>3. s = before \o <<mine>>
  BY DEF Scopes, Encode
<1>4. mine \in Scope
  <2>1. claims["sub"] \in ClaimValue /\ "sub" \in Fields
    BY ClaimType DEF Fields
  <2> QED
    BY <2>1, EncodedType
<1>5. Len(s) # 0 /\ s[Len(s)] = mine
  <2> HIDE DEF before, mine, s
  <2> QED
    BY <1>2, <1>3, <1>4, LastOfConcat
<1>6. ReadActor(claims) = MergeScopeClaims(actor, s)
  <2>1. claims # Nobody
    BY DEF IdentityAssumption
  <2> QED
    BY <2>1 DEF ReadActor, AccessToken
<1> HIDE DEF actor, s
<1>7. s[Len(s)].key = "sub" /\ s[Len(s)].value = claims.sub
  <2>1. mine.key = "sub" /\ mine.value = claims.sub
    OBVIOUS
  <2> HIDE DEF mine
  <2> QED
    BY <1>5, <2>1
<1> HIDE DEF mine
<1>8. MergeScopeClaims(actor, s)["sub"] = s[Len(s)].value
  <2>1. "sub" \in Fields
    BY DEF Fields
  <2> QED
    BY <1>1, <1>5, <1>7, <2>1, LastCounts
<1>9. ReadActor(claims)["sub"] = claims.sub
  BY <1>6, <1>7, <1>8
<1> QED
  BY <1>9 DEF SubjectId, OrElse

(* Without a token every field of the actor is empty.                      *)
LEMMA NobodyIsAsked ==
  SubjectId(ReadActor(Nobody)) = ""
BY DEF SubjectId, OrElse, ReadActor, Unknown, Fields

-----------------------------------------------------------------------------
(* The inductive invariant.  The call that begins is the only one to build *)
(* a request, and what the policy said is only forgotten when it does.     *)
Listening == heard = [c \in Calls |-> heard[c]]

IInv == /\ TypeOK
        /\ PolicyIsAskedAboutTheCall
        /\ Listening
        /\ NothingRunsUnauthorized

LEMMA InitIInv ==
  ASSUME DispatchAssumption, MCInit
  PROVE  IInv
<1>1. \A c \in Calls : call[c] = [pc |-> "idle"] /\ coro[c] = "none"
  BY DEF MCInit, Init
<1>2. TypeOK
  BY <1>1 DEF MCInit, Init, TypeOK, Call
<1>3. PolicyIsAskedAboutTheCall
  <2>1. \A c \in Calls : call[c].pc = "idle"
    BY <1>1
  <2> QED
    BY <2>1 DEF PolicyIsAskedAboutTheCall
<1>4. Listening
  BY DEF MCInit, Listening
<1>5. NothingRunsUnauthorized
  BY <1>1 DEF NothingRunsUnauthorized
<1> QED
  BY <1>2, <1>3, <1>4, <1>5 DEF IInv

(* A step is one of one call: it leaves the others as they are, and makes  *)
(* of its own call one that keeps the invariant.                           *)
Moves(c) == /\ wiring' = wiring
            /\ call' = [call EXCEPT ![c] = call'[c]]
            /\ coro' = [coro EXCEPT ![c] = coro'[c]]
            /\ heard' = [heard EXCEPT ![c] = heard'[c]]

Keeps(c) == /\ call'[c] \in Call
            /\ coro'[c] \in {"none", "created", "running", "finished", "closed"}
            /\ call'[c].pc = "asking" => coro'[c] = "created"
            /\ call'[c].pc = "serving" <=> coro'[c] = "running"
            /\ call'[c].pc \in {"asking", "serving"} => AsksAboutItself(call'[c])
            /\ coro'[c] \in {"running", "finished"} =>
                 \/ wiring = "pass_through"
                 \/ heard'[c] = "allowed"
                 \/ wiring = "fail_open" /\ heard'[c] \in {"no_reply", "bad_status"}

LEMMA MoveKeeps ==
  ASSUME IInv, NEW c \in Calls, Moves(c), Keeps(c)
  PROVE  IInv'
<1>1. \A d \in Calls : d # c =>
        call'[d] = call[d] /\ coro'[d] = coro[d] /\ heard'[d] = heard[d]
  BY DEF Moves, IInv, TypeOK, Listening
<1>2. TypeOK'
  <2>1. wiring' \in Wirings /\ call' \in [Calls -> Call]
    BY DEF Moves, Keeps, IInv, TypeOK
  <2>2. coro' \in [Calls -> {"none", "created", "running", "finished", "closed"}]
    BY DEF Moves, Keeps, IInv, TypeOK
  <2>3. ASSUME NEW d \in Calls
        PROVE  /\ call'[d].pc = "asking" => coro'[d] = "created"
               /\ call'[d].pc = "serving" <=> coro'[d] = "running"
    BY <1>1 DEF Keeps, IInv, TypeOK
  <2> QED
    BY <2>1, <2>2, <2>3 DEF TypeOK
<1>3. PolicyIsAskedAboutTheCall'
  BY <1>1 DEF Keeps, IInv, PolicyIsAskedAboutTheCall
<1>4. Listening'
  BY DEF Moves, IInv, Listening
<1>5. NothingRunsUnauthorized'
  BY <1>1 DEF Moves, Keeps, IInv, NothingRunsUnauthorized
<1> QED
  BY <1>2, <1>3, <1>4, <1>5 DEF IInv

(* A call that begins asks about itself.                                   *)
LEMMA AskAsksAboutItself ==
  ASSUME IdentityAssumption, NEW phase, NEW handler \in Handlers, NEW claims \in Claims \union {Nobody}
  PROVE  AsksAboutItself([pc |-> phase, handler |-> handler, claims |-> claims, request |-> Ask(handler, claims)])
<1> DEFINE request == Ask(handler, claims)
<1>1. /\ request.tool = handler.tool
      /\ \A h \in Handlers : h.runs = handler.runs => h = handler
      /\ claims = Nobody => request.subject_id = ""
      /\ claims # Nobody /\ claims.sub # "" => request.subject_id = claims.sub
  BY SubjectSurvives, NobodyIsAsked, OneNameEach DEF Ask
<1> HIDE DEF request
<1>2. AsksAboutItself([pc |-> phase, handler |-> handler, claims |-> claims, request |-> request])
  BY <1>1, Zenon DEF AsksAboutItself
<1> QED
  BY <1>2 DEF request

LEMMA AskedCallType ==
  ASSUME NEW phase \in {"asking", "serving"}, NEW handler \in Handlers,
         NEW claims \in Claims \union {Nobody}, NEW request \in Request
  PROVE  LET t == [pc |-> phase, handler |-> handler, claims |-> claims, request |-> request]
         IN  t \in Call /\ t.pc = phase
BY DEF Call

LEMMA EntryKeeps ==
  ASSUME IInv, NEW c \in Calls, NEW t \in Call, t.pc \in {"asking", "serving"},
         AsksAboutItself(t), Set(c, t), UNCHANGED wiring, Hear(c, "nothing"),
         Coro(c, IF t.pc = "asking" THEN "created" ELSE "running"),
         t.pc = "serving" => wiring = "pass_through"
  PROVE  Moves(c) /\ Keeps(c)
<1>1. call'[c] = t /\ coro'[c] = IF t.pc = "asking" THEN "created" ELSE "running"
  BY DEF Set, Coro, IInv, TypeOK
<1>2. Moves(c)
  BY <1>1 DEF Moves, Set, Coro, Hear, IInv, Listening
<1>3. CASE t.pc = "asking"
  BY <1>1, <1>2, <1>3 DEF Keeps
<1>4. CASE t.pc = "serving"
  BY <1>1, <1>2, <1>4 DEF Keeps
<1> QED
  BY <1>3, <1>4

LEMMA BeginKeeps ==
  ASSUME IdentityAssumption, IInv, NEW c \in Calls, NEW handler \in Handlers,
         NEW claims \in Claims \union {Nobody}, Begin(c, handler, claims), Hear(c, "nothing")
  PROVE  Moves(c) /\ Keeps(c)
<1> DEFINE t(phase) == [pc |-> phase, handler |-> handler, claims |-> claims, request |-> Ask(handler, claims)]
<1>1. \A phase \in {"asking", "serving"} : t(phase) \in Call /\ t(phase).pc = phase /\ AsksAboutItself(t(phase))
  BY AskType, AskedCallType, AskAsksAboutItself
<1>2. UNCHANGED wiring
  BY DEF Begin
<1>3. CASE /\ wiring = "pass_through"
           /\ Set(c, t("serving")) /\ Coro(c, "running")
  <2> HIDE DEF t
  <2> QED
    BY <1>1, <1>2, <1>3, EntryKeeps
<1>4. CASE Set(c, t("asking")) /\ Coro(c, "created")
  <2> HIDE DEF t
  <2> QED
    BY <1>1, <1>2, <1>4, EntryKeeps
<1> QED
  BY <1>3, <1>4 DEF Begin, At

(* A call that asks is allowed, and is heard to be.                        *)
LEMMA AllowKeeps ==
  ASSUME IInv, NEW c \in Calls, call[c].pc = "asking", Allow(c), UNCHANGED wiring,
         NEW reply, Hear(c, reply),
         reply = "allowed" \/ (wiring = "fail_open" /\ reply \in {"no_reply", "bad_status"})
  PROVE  Moves(c) /\ Keeps(c)
<1>1. call'[c] = [call[c] EXCEPT !.pc = "serving"] /\ coro'[c] = "running" /\ heard'[c] = reply
  BY DEF Allow, Set, Coro, Hear, IInv, TypeOK, Listening
<1>2. call[c] \in [pc : {"asking", "serving"}, handler : Handlers, claims : Claims \union {Nobody},
                   request : Request]
  BY DEF IInv, TypeOK, Call
<1>3. /\ call'[c] \in Call /\ call'[c].pc = "serving"
      /\ call'[c].handler = call[c].handler /\ call'[c].claims = call[c].claims
      /\ call'[c].request = call[c].request
  BY <1>1, <1>2 DEF Call
<1>4. Moves(c)
  BY <1>1 DEF Moves, Allow, Set, Coro, Hear, IInv, Listening
<1>5. AsksAboutItself(call'[c])
  <2>1. AsksAboutItself(call[c])
    BY DEF IInv, PolicyIsAskedAboutTheCall
  <2> QED
    BY <1>3, <2>1, Zenon DEF AsksAboutItself
<1>6. Keeps(c)
  BY <1>1, <1>3, <1>5 DEF Keeps
<1> QED
  BY <1>4, <1>6

(* A call that is over keeps nothing of its request; what was heard of it  *)
(* still says whether its coroutine was to run.                            *)
LEMMA EndKeeps ==
  ASSUME IInv, NEW c \in Calls, NEW answer \in Answers, Ends(c, answer), UNCHANGED wiring,
         NEW v \in {"none", "created", "running", "finished", "closed"}, Coro(c, v),
         v # "running", v = "finished" => coro[c] = "running" /\ heard' = heard,
         heard' = [heard EXCEPT ![c] = heard'[c]]
  PROVE  Moves(c) /\ Keeps(c)
<1>1. call'[c] = [pc |-> "over", answer |-> answer] /\ coro'[c] = v
  BY DEF Ends, Set, Coro, IInv, TypeOK
<1>2. call'[c] \in Call
  <2>1. [pc |-> "over", answer |-> answer] \in [pc : {"over"}, answer : Answers]
    OBVIOUS
  <2> QED
    BY <1>1, <2>1 DEF Call
<1>3. call'[c].pc = "over"
  BY <1>1
<1>4. Moves(c)
  BY <1>1 DEF Moves, Ends, Set, Coro
<1>5. coro'[c] \in {"running", "finished"} =>
        \/ wiring = "pass_through"
        \/ heard'[c] = "allowed"
        \/ wiring = "fail_open" /\ heard'[c] \in {"no_reply", "bad_status"}
  BY <1>1 DEF IInv, NothingRunsUnauthorized
<1>6. /\ ~ (call'[c].pc = "asking") /\ ~ (call'[c].pc = "serving")
      /\ ~ (call'[c].pc \in {"asking", "serving"})
      /\ coro'[c] \in {"none", "created", "running", "finished", "closed"}
      /\ ~ (coro'[c] = "running")
  BY <1>1, <1>3
<1>7. Keeps(c)
  BY <1>2, <1>5, <1>6 DEF Keeps
<1> QED
  BY <1>4, <1>7

(* What the authorizer makes of an error is heard as one.                  *)
LEMMA ErrorKeeps ==
  ASSUME IInv, NEW c \in Calls, call[c].pc = "asking", ErrorDecision(c), UNCHANGED wiring,
         NEW reply \in {"no_reply", "bad_status"}, Hear(c, reply)
  PROVE  Moves(c) /\ Keeps(c)
<1>1. CASE wiring = "fail_closed" /\ Deny(c, "unavailable")
  BY <1>1, EndKeeps DEF Deny, Hear, Answers, IInv, Listening
<1>2. CASE wiring = "fail_open" /\ Allow(c)
  BY <1>2, AllowKeeps
<1> QED
  BY <1>1, <1>2 DEF ErrorDecision

LEMMA ReplyKeeps ==
  ASSUME IInv, NEW c \in Calls, NEW reply \in Replies, PolicyReplies(c, reply), Hear(c, reply)
  PROVE  Moves(c) /\ Keeps(c)
<1>1. call[c].pc = "asking" /\ coro[c] = "created" /\ UNCHANGED wiring
  BY DEF PolicyReplies, IInv, TypeOK
<1>2. CASE reply = "allowed" /\ Allow(c)
  BY <1>1, <1>2, AllowKeeps
<1>3. CASE reply = "denied" /\ Deny(c, "forbidden")
  BY <1>1, <1>3, EndKeeps DEF Deny, Hear, Answers, IInv, Listening
<1>4. CASE reply = "bad_status" /\ ErrorDecision(c)
  BY <1>1, <1>4, ErrorKeeps
<1>5. CASE reply \in {"no_json", "no_object"} /\ AuthorizeRaises(c)
  <2>1. coro' = coro /\ Coro(c, "created")
    BY <1>1, <1>5 DEF AuthorizeRaises, Coro, IInv, TypeOK
  <2> QED
    BY <1>1, <1>5, <2>1, EndKeeps DEF AuthorizeRaises, Hear, Answers, IInv, Listening
<1> QED
  BY <1>2, <1>3, <1>4, <1>5 DEF PolicyReplies, Verdict

LEMMA ServiceKeeps ==
  ASSUME IInv, NEW c \in Calls, NEW outcome \in Outcomes, ServiceEnds(c, outcome),
         UNCHANGED heard
  PROVE  Moves(c) /\ Keeps(c)
<1>1. coro[c] = "running"
  BY DEF ServiceEnds, IInv, TypeOK
<1>2. SafeCall(outcome) \in Answers
  BY DEF Outcomes, SafeCall, Answers
<1>3. heard' = [heard EXCEPT ![c] = heard'[c]]
  BY DEF IInv, Listening
<1> QED
  BY <1>1, <1>2, <1>3, EndKeeps DEF ServiceEnds

LEMMA CancelKeeps ==
  ASSUME IInv, NEW c \in Calls, Cancel(c), UNCHANGED heard
  PROVE  Moves(c) /\ Keeps(c)
<1>1. heard' = [heard EXCEPT ![c] = heard'[c]]
  BY DEF IInv, Listening
<1>2. CASE call[c].pc = "serving"
  <2>1. coro[c] = "running" /\ Coro(c, "finished")
    BY <1>2 DEF Cancel, IInv, TypeOK
  <2> QED
    BY <1>1, <2>1, EndKeeps DEF Cancel, Answers
<1>3. CASE call[c].pc # "serving"
  <2>1. call[c].pc = "asking"
    BY <1>3 DEF Cancel, Free, IInv, TypeOK, Call
  <2>2. coro[c] = "created" /\ coro' = coro
    BY <1>3, <2>1 DEF Cancel, IInv, TypeOK
  <2>3. Coro(c, "created")
    BY <2>2 DEF Coro, IInv, TypeOK
  <2> QED
    BY <1>1, <2>3, EndKeeps DEF Cancel, Answers
<1> QED
  BY <1>2, <1>3

LEMMA NextIInv ==
  ASSUME IInv, [MCNext]_mcvars
  PROVE  IInv'
<1>1. CASE UNCHANGED mcvars
  <2>1. wiring' = wiring /\ call' = call /\ coro' = coro /\ heard' = heard
    BY <1>1 DEF mcvars, vars
  <2>2. TypeOK' /\ Listening' /\ NothingRunsUnauthorized'
    BY <2>1 DEF IInv, TypeOK, Listening, NothingRunsUnauthorized
  <2>3. PolicyIsAskedAboutTheCall'
    BY <2>1 DEF IInv, PolicyIsAskedAboutTheCall
  <2> QED
    BY <2>2, <2>3 DEF IInv
<1>2. CASE MCNext
  <2>1. PICK c \in Calls :
          \/ \E handler \in Handlers, claims \in Claims \union {Nobody} :
               Begin(c, handler, claims) /\ Hear(c, "nothing")
          \/ PolicyFails(c) /\ Hear(c, "no_reply")
          \/ \E reply \in Replies : PolicyReplies(c, reply) /\ Hear(c, reply)
          \/ Cancel(c) /\ UNCHANGED heard
          \/ \E outcome \in Outcomes : ServiceEnds(c, outcome) /\ UNCHANGED heard
    BY <1>2, Zenon DEF MCNext
  <2>2. ASSUME NEW handler \in Handlers, NEW claims \in Claims \union {Nobody},
               Begin(c, handler, claims), Hear(c, "nothing")
        PROVE  Moves(c) /\ Keeps(c)
    BY <2>2, BeginKeeps, IdentityAssumption, Zenon
  <2>3. ASSUME PolicyFails(c), Hear(c, "no_reply")
        PROVE  Moves(c) /\ Keeps(c)
    BY <2>3, ErrorKeeps DEF PolicyFails
  <2>4. ASSUME NEW reply \in Replies, PolicyReplies(c, reply), Hear(c, reply)
        PROVE  Moves(c) /\ Keeps(c)
    BY <2>4, ReplyKeeps
  <2>5. ASSUME Cancel(c), UNCHANGED heard
        PROVE  Moves(c) /\ Keeps(c)
    BY <2>5, CancelKeeps
  <2>6. ASSUME NEW outcome \in Outcomes, ServiceEnds(c, outcome), UNCHANGED heard
        PROVE  Moves(c) /\ Keeps(c)
    BY <2>6, ServiceKeeps
  <2>7. Moves(c) /\ Keeps(c)
    BY <2>1, <2>2, <2>3, <2>4, <2>5, <2>6
  <2> QED
    BY <2>7, MoveKeeps
<1> QED
  BY <1>1, <1>2

LEMMA Invariance == MCSpec => []IInv
<1>1. MCInit => IInv
  BY InitIInv, DispatchAssumption
<1>2. IInv /\ [MCNext]_mcvars => IInv'
  BY NextIInv
<1> QED
  BY <1>1, <1>2, PTL DEF MCSpec

-----------------------------------------------------------------------------
(* The types hold, and every coroutine stands where its call does.         *)
THEOREM TypeCorrect == MCSpec => []TypeOK
<1>1. IInv => TypeOK
  BY DEF IInv
<1> QED
  BY <1>1, Invariance, PTL

(* The authorizer is always asked about the tool that then runs and about  *)
(* the subject of the verified token (_base.py:199), however many scopes   *)
(* the token has and whatever they are.                                    *)
THEOREM AskedAboutTheCall == MCSpec => []PolicyIsAskedAboutTheCall
<1>1. IInv => PolicyIsAskedAboutTheCall
  BY DEF IInv
<1> QED
  BY <1>1, Invariance, PTL

(* No service method has run that nobody allowed (_base.py:164).           *)
THEOREM NothingUnauthorized == MCSpec => []NothingRunsUnauthorized
<1>1. IInv => NothingRunsUnauthorized
  BY DEF IInv
<1> QED
  BY <1>1, Invariance, PTL

-----------------------------------------------------------------------------
\* What main has decided once it is past the step that decides it.
Checked == pc \in {"authz", "tracing", "build", "serving"} =>
             /\ env.transport \in {"stdio", "streamable-http"}
             /\ verifier = "jwks" <=> env.transport = "streamable-http" /\ env.auth = "on"
             /\ env.transport = "streamable-http" => env.auth \notin {"no_issuer", "bad_url"}

Authorized == pc \in {"tracing", "build", "serving"} => (env.authz = "url" <=> authorizer = "policy")

Instrumented == /\ pc \in {"build", "serving", "stopping"} => (instrumented <=> Traced)
                /\ client # "none" => (client = "instrumented" <=> Traced)

\* What holds when the verifier is to be built.
Known == /\ pc = "auth" => env.transport \in {"stdio", "streamable-http"}
         /\ pc \in {"start", "auth"} => verifier = "none"

(* The inductive invariant of the process.                                 *)
ProcessInv == ProcessTypeOK /\ Known /\ Checked /\ Authorized /\ Instrumented

LEMMA InitProcessInv ==
  ASSUME ProcessInit
  PROVE  ProcessInv
BY ServerAssumption DEF ProcessInit, ProcessInv, ProcessTypeOK, Known, Checked, Authorized,
   Instrumented, ServerAssumption

LEMMA NextProcessInv ==
  ASSUME ProcessInv, [ProcessNext]_processvars
  PROVE  ProcessInv'
<1> USE DEF Goto, wired, Traced
<1>0. /\ env \in Environment /\ MaxSpans \in Nat /\ spans \in 0 .. MaxSpans
      /\ env.transport \in {"stdio", "streamable-http", "other"}
      /\ env.auth \in {"off", "no_issuer", "bad_url", "on"} /\ env.authz \in {"none", "url"}
      /\ env.tracing \in {"off", "no_endpoint", "endpoint", "broken"}
  BY ServerAssumption DEF ProcessInv, ProcessTypeOK, Environment, ServerAssumption
<1> USE <1>0 DEF ProcessInv, ProcessTypeOK, Known, Checked, Authorized, Instrumented
<1>1. CASE ReadEnvironment
  BY <1>1 DEF ReadEnvironment
<1>2. CASE BuildAuth
  BY <1>2 DEF BuildAuth
<1>3. CASE BuildAuthorizer
  BY <1>3 DEF BuildAuthorizer
<1>4. CASE SetUpTracing
  BY <1>4 DEF SetUpTracing
<1>5. CASE BuildServer
  BY <1>5 DEF BuildServer
<1>6. CASE Serve
  BY <1>6 DEF Serve
<1>7. CASE Export
  BY <1>7 DEF Export, Flush, ExportsToStdout
<1>8. CASE Stop \/ Kill
  BY <1>8 DEF Stop, Kill
<1>9. CASE ShutDown
  BY <1>9 DEF ShutDown, Flush, ExportsToStdout
<1>10. CASE UNCHANGED processvars
  BY <1>10 DEF processvars
<1> QED
  BY <1>1, <1>2, <1>3, <1>4, <1>5, <1>6, <1>7, <1>8, <1>9, <1>10 DEF ProcessNext

LEMMA ProcessInvariance == ProcessSpec => []ProcessInv
<1>1. ProcessInv /\ [ProcessNext]_processvars => ProcessInv'
  BY NextProcessInv
<1> QED
  BY <1>1, InitProcessInv, PTL DEF ProcessSpec

(* Nobody but the transport of stdio and an exporter without an endpoint   *)
(* ever writes to stdout, and there is no span to export unless the span   *)
(* processor was installed (tracing.py).                                   *)
THEOREM ProcessTypeCorrect == ProcessSpec => []ProcessTypeOK
<1>1. ProcessInv => ProcessTypeOK
  BY DEF ProcessInv
<1> QED
  BY <1>1, ProcessInvariance, PTL

(* Over HTTP the server comes up with a verifier if it is to check tokens, *)
(* and not at all if it cannot build one; both transports ask the policy   *)
(* service if there is one (server.py:132).                                *)
THEOREM ServesWhatWasAsked == ProcessSpec => []ServesAsAsked
<1>1. ProcessInv => ServesAsAsked
  BY DEF ProcessInv, ProcessTypeOK, Environment, Checked, Authorized,
     ServesAsAsked
<1> QED
  BY <1>1, ProcessInvariance, PTL

(* The client of a traced process is created after httpx was instrumented  *)
(* (server.py:142).                                                        *)
THEOREM AllRequestsAreTraced == ProcessSpec => []RequestsAreTraced
<1>1. ProcessInv => RequestsAreTraced
  BY DEF ProcessInv, Instrumented, RequestsAreTraced
<1> QED
  BY <1>1, ProcessInvariance, PTL
=============================================================================
