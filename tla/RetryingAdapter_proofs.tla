----------------------- MODULE RetryingAdapter_proofs -----------------------
(***************************************************************************)
(* That a result is made of the replies of one attempt, and that what is   *)
(* raised is what the attempts met, for any calls, any limit on the        *)
(* attempts and any delays: no orphan of an earlier attempt is ever taken  *)
(* for a reply of the current one.                                         *)
(***************************************************************************)
EXTENDS MCRetryingAdapter, WellFoundedInduction, TLAPS

\* The shape of a call; its ages and what is left of its sleep are of no account.
Trying(m, n, a, g) == [pc |-> "trying", method |-> m, attempt |-> n, age |-> a, got |-> g]
Sleeping(m, n, a, l) == [pc |-> "sleeping", method |-> m, attempt |-> n, age |-> a, left |-> l]
Returned(m, n) == [pc |-> "returned", method |-> m, attempt |-> n]
Raised(e) == [pc |-> "raised", error |-> e]

Shape(t) == \/ t = [pc |-> "idle"]
            \/ \E m \in Methods, n \in Nat : \E a, g : t = Trying(m, n, a, g)
            \/ \E m \in Methods, n \in Nat : \E a, l : t = Sleeping(m, n, a, l)
            \/ \E m \in Methods, n \in Nat : t = Returned(m, n)
            \/ \E e : t = Raised(e)

Sent == [call : Calls, attempt : Nat, part : AllParts, left : Int]

\* What an open request r says of the call t that sent it: it is of this attempt or an
\* earlier one, and of this one only while its part is missing.
Knows(r, t) ==
  /\ t.pc # "idle"
  /\ t.pc \in {"trying", "sleeping"} => r.attempt <= t.attempt
  /\ t.pc = "trying" /\ r.attempt = t.attempt => r.part \in Parts(t.method) \ t.got
  /\ t.pc = "returned" => r.attempt < t.attempt

\* An attempt asks for each of its parts once.
Same(r, q) == r.call = q.call /\ r.attempt = q.attempt /\ r.part = q.part

(* The inductive invariant.                                                *)
IInv == /\ call = [c \in Calls |-> call[c]]
        /\ \A c \in Calls : Shape(call[c])
        /\ open \subseteq Sent
        /\ \A r \in open : Knows(r, call[r.call])
        /\ \A r, q \in open : Same(r, q) => r = q

LEMMA InitIInv == Init => IInv
BY DEF Init, IInv, Shape

LEMMA TryingFields ==
  ASSUME NEW m, NEW n, NEW a, NEW g
  PROVE  LET t == Trying(m, n, a, g)
         IN  t.pc = "trying" /\ t.method = m /\ t.attempt = n /\ t.age = a /\ t.got = g
BY DEF Trying

LEMMA SleepingFields ==
  ASSUME NEW m, NEW n, NEW a, NEW l
  PROVE  LET t == Sleeping(m, n, a, l)
         IN  t.pc = "sleeping" /\ t.method = m /\ t.attempt = n /\ t.age = a /\ t.left = l
BY DEF Sleeping

LEMMA ReturnedFields ==
  ASSUME NEW m, NEW n
  PROVE  LET t == Returned(m, n) IN t.pc = "returned" /\ t.method = m /\ t.attempt = n
BY DEF Returned

LEMMA RaisedFields ==
  ASSUME NEW e
  PROVE  LET t == Raised(e) IN t.pc = "raised" /\ t.error = e
BY DEF Raised

\* The shape of a call by its phase.
LEMMA ShapeOf ==
  ASSUME NEW t, Shape(t)
  PROVE  /\ t.pc \in {"idle", "trying", "sleeping", "returned", "raised"}
         /\ t.pc = "trying" => \E m \in Methods, n \in Nat : \E a, g : t = Trying(m, n, a, g)
         /\ t.pc = "sleeping" => \E m \in Methods, n \in Nat : \E a, l : t = Sleeping(m, n, a, l)
         /\ t.pc \in {"trying", "sleeping"} => t.method \in Methods /\ t.attempt \in Nat
<1>1. CASE t = [pc |-> "idle"]
  <2>1. t.pc = "idle"
    BY <1>1
  <2> QED
    BY <2>1
<1>2. CASE \E m \in Methods, n \in Nat : \E a, g : t = Trying(m, n, a, g)
  BY <1>2, TryingFields
<1>3. CASE \E m \in Methods, n \in Nat : \E a, l : t = Sleeping(m, n, a, l)
  BY <1>3, SleepingFields
<1>4. CASE \E m \in Methods, n \in Nat : t = Returned(m, n)
  BY <1>4, ReturnedFields
<1>5. CASE \E e : t = Raised(e)
  BY <1>5, RaisedFields
<1> QED
  BY <1>1, <1>2, <1>3, <1>4, <1>5 DEF Shape

(* A step of one call, with the requests that it answers or drops gone and *)
(* those that it sends new.                                                *)
LEMMA CallMoves ==
  ASSUME IInv, NEW c \in Calls, NEW t, Shape(t), Set(c, t),
         NEW new, new \subseteq Sent, open' \subseteq open \union new,
         \A r \in new : r.call = c /\ Knows(r, t),
         \A r \in open' \ new : r.call = c => Knows(r, t),
         \A r \in new, q \in open \union new : Same(r, q) => r = q
  PROVE  IInv'
<1>1. call' = [d \in Calls |-> call'[d]] /\ call'[c] = t /\ \A d \in Calls \ {c} : call'[d] = call[d]
  BY DEF Set, IInv
<1>2. \A d \in Calls : Shape(call'[d])
  BY <1>1 DEF IInv
<1>3. open' \subseteq Sent
  BY DEF IInv
<1>4. ASSUME NEW r \in open' PROVE Knows(r, call'[r.call])
  <2>1. r.call \in Calls
    BY <1>3 DEF Sent
  <2>2. CASE r.call = c
    BY <1>1, <2>2
  <2>3. CASE r.call # c
    BY <1>1, <2>1, <2>3 DEF IInv
  <2> QED
    BY <2>2, <2>3
<1>5. ASSUME NEW r \in open', NEW q \in open', Same(r, q) PROVE r = q
  <2>1. Same(q, r)
    BY <1>5 DEF Same
  <2> QED
    BY <1>5, <2>1 DEF IInv
<1> QED
  BY <1>1, <1>2, <1>3, <1>4, <1>5 DEF IInv, Shape, Knows, Same

\* A step of one call that sends nothing.
LEMMA CallSettles ==
  ASSUME IInv, NEW c \in Calls, NEW t, Shape(t), Set(c, t), open' \subseteq open,
         \A r \in open' : r.call = c => Knows(r, t)
  PROVE  IInv'
<1>1. PICK new : new = {}
  OBVIOUS
<1>2. new \subseteq Sent /\ open' \subseteq open \union new /\ open' \ new = open'
  BY <1>1
<1>3. /\ \A r \in new : r.call = c /\ Knows(r, t)
      /\ \A r \in open' \ new : r.call = c => Knows(r, t)
      /\ \A r \in new, q \in open \union new : Same(r, q) => r = q
  BY <1>1
<1> QED
  BY <1>2, <1>3, CallMoves

-----------------------------------------------------------------------------
\* A call that ends with an exception, or sleeps, keeps its requests as orphans.
LEMMA FailKeeps ==
  ASSUME IInv, NEW c \in Calls, NEW e, Fail(c, e), open' \subseteq open
  PROVE  IInv'
<1>1. PICK t : t = Raised(e) /\ Set(c, t)
  BY DEF Fail, Raised
<1>2. Shape(t) /\ t.pc = "raised"
  BY <1>1, RaisedFields DEF Shape
<1>3. \A r \in open' : r.call = c => Knows(r, t)
  BY <1>2 DEF Knows
<1> QED
  BY <1>1, <1>2, <1>3, CallSettles

\* A new attempt asks for all of its parts; what is open is of earlier ones.
LEMMA TryKeeps ==
  ASSUME RetryAssumption, IInv, NEW c \in Calls, NEW m \in Methods, NEW n \in Nat, NEW a,
         Try(c, m, n, a), \A r \in open : r.call = c => r.attempt < n
  PROVE  IInv'
<1>1. CASE ~(n < Attempts)
  <2>1. PICK e : Fail(c, e)
    BY <1>1 DEF Try
  <2>2. open' \subseteq open
    BY <1>1 DEF Try
  <2> QED
    BY <2>1, <2>2, FailKeeps
<1>2. CASE n < Attempts
  <2> DEFINE t == Trying(m, n, a, {})
             new == Requests(c, m, n)
  <2>1. Shape(t)
    BY DEF Shape
  <2>2. Set(c, t) /\ open' = open \union new
    BY <1>2 DEF Try, Trying
  <2>3. t.pc = "trying" /\ t.method = m /\ t.attempt = n /\ t.got = {}
    BY TryingFields
  <2>4. ASSUME NEW r \in new
        PROVE  r \in Sent /\ r.call = c /\ r.attempt = n /\ r.part \in Parts(m)
               /\ r = [call |-> c, attempt |-> n, part |-> r.part, left |-> RequestSeconds]
    <3>1. Parts(m) \subseteq AllParts
      BY DEF Parts, Methods, AllParts
    <3>2. PICK p \in Parts(m) : r = [call |-> c, attempt |-> n, part |-> p, left |-> RequestSeconds]
      BY <2>4 DEF Requests
    <3> QED
      BY <3>1, <3>2 DEF Sent, RetryAssumption
  <2> HIDE DEF t, new
  <2>5. \A r \in new : r.call = c /\ Knows(r, t)
    BY <2>3, <2>4 DEF Knows
  <2>6. \A r \in open' \ new : r.call = c => Knows(r, t)
    <3>1. \A r \in open' \ new : r.call = c => r.attempt < n /\ r.attempt \in Nat
      BY <2>2 DEF IInv, Sent
    <3> QED
      BY <2>3, <3>1 DEF Knows
  <2>7. ASSUME NEW r \in new, NEW q \in open \union new, Same(r, q) PROVE r = q
    <3>1. r.attempt = n /\ q.call = c /\ q.attempt = n /\ r.part = q.part
      BY <2>4, <2>7 DEF Same
    <3>2. q \in new
      BY <3>1
    <3> QED
      BY <2>4, <3>1, <3>2
  <2>8. new \subseteq Sent
    BY <2>4
  <2> QED
    BY <2>1, <2>2, <2>5, <2>6, <2>7, <2>8, CallMoves
<1> QED
  BY <1>1, <1>2

LEMMA BeginKeeps ==
  ASSUME RetryAssumption, IInv, NEW c \in Calls, NEW m \in Methods, Begin(c, m)
  PROVE  IInv'
BY TryKeeps DEF Begin

LEMMA WakeKeeps ==
  ASSUME RetryAssumption, IInv, NEW c \in Calls, Wake(c)
  PROVE  IInv'
<1>1. call[c].pc = "sleeping" /\ call[c].method \in Methods /\ call[c].attempt \in Nat
  BY ShapeOf DEF Wake, IInv
<1>2. \A r \in open : r.call = c => r.attempt < call[c].attempt + 1
  BY <1>1 DEF IInv, Knows, Sent
<1>3. call[c].attempt + 1 \in Nat
  BY <1>1
<1> QED
  BY <1>1, <1>2, <1>3, TryKeeps DEF Wake

LEMMA CancelKeeps ==
  ASSUME IInv, NEW c \in Calls, Cancel(c)
  PROVE  IInv'
<1>1. open' \subseteq open
  BY DEF Cancel
<1> QED
  BY <1>1, FailKeeps DEF Cancel

\* The failure of an attempt sends nothing.
LEMMA AttemptFailsKeeps ==
  ASSUME IInv, NEW c \in Calls, call[c].pc = "trying", NEW e, AttemptFails(c, e),
         open' \subseteq open
  PROVE  IInv'
<1>1. CASE Fail(c, e)
  BY <1>1, FailKeeps
<1>2. CASE ~Fail(c, e)
  <2>1. call[c].method \in Methods /\ call[c].attempt \in Nat
    BY ShapeOf DEF IInv
  <2>2. PICK t : /\ t = Sleeping(call[c].method, call[c].attempt, call[c].age, Backoff(call[c].attempt))
                 /\ Set(c, t)
    BY <1>2 DEF AttemptFails, Sleeping
  <2>3. Shape(t)
    BY <2>1, <2>2 DEF Shape
  <2>4. t.pc = "sleeping" /\ t.attempt = call[c].attempt
    BY <2>2, SleepingFields
  <2>5. \A r \in open' : r.call = c => Knows(r, t)
    BY <2>4 DEF IInv, Knows
  <2> QED
    BY <2>2, <2>3, <2>5, CallSettles
<1> QED
  BY <1>1, <1>2

\* Any other reply: the part is no longer missing, and if none is, the call returns.
LEMMA PartSucceedsKeeps ==
  ASSUME IInv, NEW r \in open, PartSucceeds(r.call, r.part), Awaited(r), open' = open \ {r}
  PROVE  IInv'
<1> DEFINE c == r.call
           m == call[c].method
           n == call[c].attempt
           got == call[c].got \union {r.part}
<1>1. c \in Calls /\ r \in Sent
  BY DEF IInv, Sent
<1>2. PICK m0 \in Methods, n0 \in Nat : \E a, g : call[c] = Trying(m0, n0, a, g)
  BY <1>1, ShapeOf DEF IInv, Awaited
<1>0. PICK a0, g0 : call[c] = Trying(m0, n0, a0, g0)
  BY <1>2
<1>3. m = m0 /\ n = n0 /\ call[c].got = g0 /\ call[c].pc = "trying"
  BY <1>0, TryingFields
<1>4. r.attempt = n
  BY DEF Awaited
<1>5. ASSUME NEW q \in open', q.call = c
      PROVE  /\ q \in open /\ q.attempt \in Nat /\ q.attempt <= n
             /\ q.attempt = n => q.part \in Parts(m) \ got
  <2>1. q \in open /\ q # r
    BY <1>5
  <2>2. q.attempt \in Nat /\ Knows(q, call[c])
    BY <1>5, <2>1 DEF IInv, Sent
  <2>3. q.attempt <= n /\ (q.attempt = n => q.part \in Parts(m) \ call[c].got)
    BY <1>3, <2>2 DEF Knows
  <2>4. q.attempt = n => q.part # r.part
    BY <1>4, <1>5, <2>1 DEF IInv, Same
  <2> QED
    BY <2>1, <2>2, <2>3, <2>4
<1>6. CASE got = Parts(m)
  <2>1. PICK t : t = Returned(m0, n0) /\ Set(c, t)
    BY <1>3, <1>6 DEF PartSucceeds, Returned
  <2>2. Shape(t)
    BY <2>1 DEF Shape
  <2>3. t.pc = "returned" /\ t.attempt = n
    BY <1>3, <2>1, ReturnedFields
  <2>4. \A q \in open' : q.call = c => Knows(q, t)
    BY <1>3, <1>5, <1>6, <2>3 DEF Knows
  <2>5. open' \subseteq open
    OBVIOUS
  <2> QED
    BY <1>1, <2>1, <2>2, <2>4, <2>5, CallSettles
<1>7. CASE got # Parts(m)
  <2>1. PICK t : t = Trying(m0, n0, a0, got) /\ Set(c, t)
    BY <1>0, <1>3, <1>7 DEF PartSucceeds, Trying
  <2>2. Shape(t)
    BY <2>1 DEF Shape
  <2>3. t.pc = "trying" /\ t.attempt = n /\ t.method = m /\ t.got = got
    BY <1>3, <2>1, TryingFields
  <2>4. \A q \in open' : q.call = c => Knows(q, t)
    BY <1>5, <2>3 DEF Knows
  <2>5. open' \subseteq open
    OBVIOUS
  <2> QED
    BY <1>1, <2>1, <2>2, <2>4, <2>5, CallSettles
<1> QED
  BY <1>6, <1>7

LEMMA ReplyKeeps ==
  ASSUME IInv, NEW r \in open, NEW reply, Reply(r, reply)
  PROVE  IInv'
<1>1. r.call \in Calls
  BY DEF IInv, Sent
<1>2. open' = open \ {r}
  BY DEF Reply
<1>3. CASE UNCHANGED call
  BY <1>2, <1>3 DEF IInv
<1>4. CASE Awaited(r) /\ PartSucceeds(r.call, r.part)
  BY <1>2, <1>4, PartSucceedsKeeps
<1>5. CASE Awaited(r) /\ AttemptFails(r.call, Outcome(r.part, reply))
  <2>1. call[r.call].pc = "trying" /\ open' \subseteq open
    BY <1>2, <1>5 DEF Awaited
  <2> QED
    BY <1>1, <1>5, <2>1, AttemptFailsKeeps
<1> QED
  BY <1>3, <1>4, <1>5 DEF Reply

-----------------------------------------------------------------------------
\* Time only changes what is left of requests and sleeps, and the age of calls.
LEMMA TickKeeps ==
  ASSUME IInv, Tick
  PROVE  IInv'
<1> DEFINE Later(r) == [r EXCEPT !.left = @ - 1]
<1>1. open' = {Later(r) : r \in open} /\ \A r \in open : r.left > 0
  BY DEF Tick
<1>2. ASSUME NEW r \in open
      PROVE  /\ Later(r) \in Sent /\ Later(r).call = r.call /\ Later(r).attempt = r.attempt
             /\ Later(r).part = r.part
  BY <1>2 DEF IInv, Sent
<1>3. call' = [c \in Calls |-> call'[c]]
  BY DEF Tick
<1>4. ASSUME NEW c \in Calls
      PROVE  Shape(call'[c]) /\ \A r \in Sent : r.call = c /\ Knows(r, call[c]) => Knows(r, call'[c])
  <2>1. CASE call[c].pc = "trying"
    <3>0. PICK m \in Methods, n \in Nat : \E a, g : call[c] = Trying(m, n, a, g)
      BY <2>1, ShapeOf DEF IInv
    <3>1. PICK a, g : call[c] = Trying(m, n, a, g)
      BY <3>0
    <3>2. PICK t : t = Trying(m, n, a + 1, g) /\ call'[c] = t
      <4>1. call'[c] = [call[c] EXCEPT !.age = @ + 1]
        BY <2>1 DEF Tick
      <4> QED
        BY <3>1, <4>1 DEF Trying
    <3>3. Shape(t)
      BY <3>2 DEF Shape
    <3>4. /\ t.pc = call[c].pc /\ t.method = call[c].method /\ t.attempt = call[c].attempt
          /\ t.got = call[c].got
      BY <3>1, <3>2, TryingFields
    <3> QED
      BY <3>2, <3>3, <3>4 DEF Knows
  <2>2. CASE call[c].pc = "sleeping"
    <3>0. PICK m \in Methods, n \in Nat : \E a, l : call[c] = Sleeping(m, n, a, l)
      BY <2>2, ShapeOf DEF IInv
    <3>1. PICK a, l : call[c] = Sleeping(m, n, a, l)
      BY <3>0
    <3>2. PICK t : t = Sleeping(m, n, a + 1, l - 1) /\ call'[c] = t
      <4>1. call'[c] = [call[c] EXCEPT !.age = @ + 1, !.left = @ - 1]
        BY <2>2 DEF Tick
      <4>2. [call[c] EXCEPT !.age = @ + 1] = Sleeping(m, n, a + 1, l)
        BY <3>1 DEF Sleeping
      <4>3. [Sleeping(m, n, a + 1, l) EXCEPT !.left = @ - 1] = Sleeping(m, n, a + 1, l - 1)
        BY DEF Sleeping
      <4>4. [call[c] EXCEPT !.age = @ + 1, !.left = @ - 1]
              = [[call[c] EXCEPT !.age = @ + 1] EXCEPT !.left = @ - 1]
        OBVIOUS
      <4> QED
        BY <4>1, <4>2, <4>3, <4>4
    <3>3. Shape(t)
      BY <3>2 DEF Shape
    <3>4. t.pc = "sleeping" /\ t.attempt = call[c].attempt
      BY <3>1, <3>2, SleepingFields
    <3> QED
      BY <2>2, <3>2, <3>3, <3>4 DEF Knows
  <2>3. CASE call[c].pc \notin {"trying", "sleeping"}
    <3>1. call'[c] = call[c]
      BY <2>3 DEF Tick
    <3> QED
      BY <3>1 DEF IInv
  <2> QED
    BY <2>1, <2>2, <2>3
<1> HIDE DEF Later
<1>5. ASSUME NEW q \in open' PROVE q \in Sent /\ Knows(q, call'[q.call])
  <2>1. PICK r \in open : q = Later(r)
    BY <1>1
  <2>2. r \in Sent /\ r.call \in Calls /\ Knows(r, call[r.call])
    BY DEF IInv, Sent
  <2>3. Knows(r, call'[r.call])
    BY <1>4, <2>2
  <2>4. q \in Sent /\ q.call = r.call /\ q.attempt = r.attempt /\ q.part = r.part
    BY <1>2, <2>1
  <2> QED
    BY <2>3, <2>4 DEF Knows
<1>6. ASSUME NEW p \in open', NEW q \in open', Same(p, q) PROVE p = q
  <2>1. PICK r \in open, s \in open : p = Later(r) /\ q = Later(s)
    BY <1>1
  <2>2. Same(r, s)
    BY <1>2, <1>6, <2>1 DEF Same
  <2> QED
    BY <2>1, <2>2 DEF IInv
<1> QED
  BY <1>3, <1>4, <1>5, <1>6 DEF IInv, Knows, Same, Shape

LEMMA NextIInv ==
  ASSUME RetryAssumption, IInv, [Next]_vars
  PROVE  IInv'
<1>1. CASE Tick
  BY <1>1, TickKeeps
<1>2. ASSUME NEW c \in Calls, NEW m \in Methods, Begin(c, m) PROVE IInv'
  BY <1>2, BeginKeeps
<1>3. ASSUME NEW c \in Calls, Replying(c) PROVE IInv'
  BY <1>3, ReplyKeeps DEF Replying
<1>4. ASSUME NEW c \in Calls, Wake(c) PROVE IInv'
  BY <1>4, WakeKeeps
<1>5. ASSUME NEW c \in Calls, Cancel(c) PROVE IInv'
  BY <1>5, CancelKeeps
<1>6. CASE UNCHANGED vars
  BY <1>6 DEF vars, IInv
<1> QED
  BY <1>1, <1>2, <1>3, <1>4, <1>5, <1>6 DEF Next

LEMMA Invariance == Spec => []IInv
<1>1. Init => IInv
  BY InitIInv
<1>2. IInv /\ [Next]_vars => IInv'
  BY NextIInv, RetryAssumption
<1> QED
  BY <1>1, <1>2, PTL DEF Spec

(* A result is made of the replies of one attempt: what is open when a call *)
(* has returned is an orphan of an earlier one, for any number of calls.    *)
THEOREM OneAttempt == Spec => []ResultOfOneAttempt
<1>1. IInv => ResultOfOneAttempt
  BY DEF IInv, Knows, ResultOfOneAttempt
<1> QED
  BY <1>1, Invariance, PTL

-----------------------------------------------------------------------------
(* Induction over the natural numbers, for a set in place of a property.   *)
LEMMA Least ==
  ASSUME NEW T, T \subseteq Nat, T # {}
  PROVE  \E n \in T : \A m \in T : ~(m < n)
<1> DEFINE R == {ss \in Nat \X Nat : ss[1] < ss[2]}
<1>1. IsWellFoundedOn(R, Nat)
  BY NatLessThanWellFounded DEF OpToRel
<1> HIDE DEF R
<1>2. \E n \in T : \A m \in T : ~(<<m, n>> \in R)
  BY <1>1, WFMin
<1> QED
  BY <1>2 DEF R
LEMMA Induct ==
  ASSUME NEW S, 0 \in S, \A n \in Nat : n \in S => n+1 \in S
  PROVE  Nat \subseteq S
<1> SUFFICES ASSUME Nat \ S # {} PROVE FALSE
  OBVIOUS
<1>1. PICK n \in Nat \ S : \A m \in Nat \ S : ~(m < n)
  BY Least
<1>2. n # 0 /\ n - 1 \in Nat /\ n - 1 < n
  OBVIOUS
<1>3. n - 1 \in S
  BY <1>1, <1>2
<1> QED
  BY <1>2, <1>3

\* The first n + 1 powers.
Powers(g, n) == g \in [0 .. n -> Nat] /\ g[0] = 1 /\ \A i \in 0 .. n - 1 : g[i + 1] = 2 * g[i]

LEMMA PowersExist == \A n \in Nat : \E g : Powers(g, n)
<1> DEFINE S == {n \in Nat : \E g : Powers(g, n)}
<1>1. 0 \in S
  <2>1. Powers([i \in 0 .. 0 |-> 1], 0)
    BY DEF Powers
  <2> QED
    BY <2>1
<1>2. ASSUME NEW n \in Nat, n \in S
      PROVE  n + 1 \in S
  <2>1. PICK g : Powers(g, n)
    BY <1>2
  <2> DEFINE h == [i \in 0 .. n + 1 |-> IF i = n + 1 THEN 2 * g[n] ELSE g[i]]
  <2>2. Powers(h, n + 1)
    BY <2>1 DEF Powers
  <2> QED
    BY <2>2
<1> HIDE DEF S
<1>3. Nat \subseteq S
  BY <1>1, <1>2, Induct
<1> QED
  BY <1>3 DEF S

LEMMA PowersAgree ==
  ASSUME NEW m \in Nat, NEW n \in Nat, NEW g, NEW h, Powers(g, m), Powers(h, n),
         NEW i \in Nat, i <= m, i <= n
  PROVE  g[i] = h[i]
<1> DEFINE S == {j \in Nat : j <= m /\ j <= n => g[j] = h[j]}
<1>1. 0 \in S
  BY DEF Powers
<1>2. ASSUME NEW j \in Nat, j \in S
      PROVE  j + 1 \in S
  BY <1>2 DEF Powers
<1> HIDE DEF S
<1>3. Nat \subseteq S
  BY <1>1, <1>2, Induct
<1> QED
  BY <1>3 DEF S

LEMMA PowerOfTwoDef ==
  /\ PowerOfTwo \in [Nat -> Nat] /\ PowerOfTwo[0] = 1
  /\ \A n \in Nat : PowerOfTwo[n + 1] = 2 * PowerOfTwo[n]
<1> DEFINE g(n) == CHOOSE g : Powers(g, n)
           f == [n \in Nat |-> g(n)[n]]
           F(h) == [n \in Nat |-> IF n = 0 THEN 1 ELSE 2 * h[n - 1]]
<1>1. \A n \in Nat : Powers(g(n), n)
  BY PowersExist
<1> HIDE DEF g
<1>2. f \in [Nat -> Nat] /\ f[0] = 1
  BY <1>1 DEF Powers
<1>3. \A n \in Nat : f[n + 1] = 2 * f[n]
  <2> TAKE n \in Nat
  <2>1. g(n + 1)[n] = g(n)[n]
    BY <1>1, PowersAgree
  <2>2. Powers(g(n + 1), n + 1)
    BY <1>1
  <2>3. g(n + 1)[n + 1] = 2 * g(n + 1)[n]
    BY <2>2 DEF Powers
  <2> QED
    BY <2>1, <2>3
<1> HIDE DEF f
<1>4. f = F(f)
  <2>1. \A n \in Nat : f[n] = IF n = 0 THEN 1 ELSE 2 * f[n - 1]
    <3> TAKE n \in Nat
    <3>1. CASE n = 0
      BY <3>1, <1>2
    <3>2. CASE n # 0
      <4>1. n - 1 \in Nat /\ (n - 1) + 1 = n
        BY <3>2
      <4> QED
        BY <4>1, <3>2, <1>3
    <3> QED
      BY <3>1, <3>2
  <2> QED
    BY <2>1, <1>2
<1>5. PowerOfTwo = CHOOSE h : h = F(h)
  BY DEF PowerOfTwo
<1>6. PowerOfTwo = F(PowerOfTwo)
  BY <1>4, <1>5
<1>7. /\ PowerOfTwo[0] = 1 /\ DOMAIN PowerOfTwo = Nat
      /\ \A n \in Nat : PowerOfTwo[n + 1] = 2 * PowerOfTwo[n]
  BY <1>6
<1> DEFINE S == {n \in Nat : PowerOfTwo[n] \in Nat}
<1>8. 0 \in S /\ \A n \in Nat : n \in S => n + 1 \in S
  BY <1>7
<1> HIDE DEF S
<1>9. Nat \subseteq S
  BY <1>8, Induct
<1> QED
  BY <1>6, <1>7, <1>9 DEF S

-----------------------------------------------------------------------------
(* What a call raises, with the failures that MCRetryingAdapter records.   *)
AllUpstream(s) == \A i \in 1 .. Len(s) : s[i] = "upstream"

\* What the failures s of a call tell of its phase t.
Story(t, s) ==
  /\ s \in Seq(Errors)
  /\ t.pc = "trying" => Len(s) = t.attempt /\ t.attempt < Attempts /\ AllUpstream(s)
  /\ t.pc = "sleeping" => Len(s) = t.attempt + 1 /\ t.attempt < Attempts - 1 /\ AllUpstream(s)
  /\ t.pc = "raised" /\ t.error # "cancelled" =>
       /\ Len(s) \in 1 .. Attempts
       /\ t.error = s[Len(s)]
       /\ t.error = "upstream" => Len(s) = Attempts
       /\ \A i \in 1 .. Len(s) - 1 : s[i] = "upstream"

(* The inductive invariant, over that of the requests.                     *)
StoryInv == /\ maxAttempts \in Int
            /\ failures = [c \in Calls |-> failures[c]]
            /\ \A c \in Calls : Story(call[c], failures[c])

LEMMA AttemptsType == maxAttempts \in Int => Attempts \in Nat /\ Attempts >= 1
BY DEF Attempts

LEMMA InitStory == MCInit => StoryInv
<1> SUFFICES ASSUME MCInit PROVE StoryInv
  OBVIOUS
<1>1. \A c \in Calls : call[c].pc = "idle" /\ failures[c] = <<>>
  BY DEF MCInit, Init
<1>2. ASSUME NEW t, t.pc = "idle" PROVE Story(t, <<>>)
  BY <1>2 DEF Story
<1> QED
  BY <1>1, <1>2, RetryAssumption DEF StoryInv, MCInit, Init, RetryAssumption

\* A step of one call, and what it adds to its failures.
LEMMA StoryMoves ==
  ASSUME IInv, StoryInv, UNCHANGED maxAttempts, NEW c \in Calls, NEW t, Set(c, t),
         NEW s, failures' = [failures EXCEPT ![c] = s], Story(t, s)
  PROVE  StoryInv'
<1>1. Attempts' = Attempts
  BY DEF Attempts
<1>2. call'[c] = t /\ \A d \in Calls \ {c} : call'[d] = call[d]
  BY DEF Set, IInv
<1>3. /\ failures' = [d \in Calls |-> failures'[d]] /\ failures'[c] = s
      /\ \A d \in Calls \ {c} : failures'[d] = failures[d]
  BY DEF StoryInv
<1>4. ASSUME NEW d \in Calls
      PROVE  Story(call'[d], failures'[d])
  <2>1. CASE d = c
    BY <1>2, <1>3, <2>1
  <2>2. CASE d # c
    BY <1>2, <1>3, <2>2 DEF StoryInv
  <2> QED
    BY <2>1, <2>2
<1> QED
  BY <1>1, <1>3, <1>4 DEF StoryInv, Story, AllUpstream

\* A step that adds nothing.
LEMMA StorySettles ==
  ASSUME IInv, StoryInv, UNCHANGED <<maxAttempts, failures>>, NEW c \in Calls, NEW t, Set(c, t),
         Story(t, failures[c])
  PROVE  StoryInv'
<1>1. failures' = [failures EXCEPT ![c] = failures[c]]
  BY DEF StoryInv
<1> QED
  BY <1>1, StoryMoves

\* An attempt that is allowed is made.
LEMMA TryTells ==
  ASSUME NEW c, NEW m, NEW n, NEW a, n < Attempts, Try(c, m, n, a)
  PROVE  Set(c, Trying(m, n, a, {}))
BY DEF Try, Trying

LEMMA BeginTells ==
  ASSUME IInv, StoryInv, NEW c \in Calls, NEW m, Begin(c, m), failures' = [failures EXCEPT ![c] = <<>>]
  PROVE  StoryInv'
<1>1. PICK t : t = Trying(m, 0, 0, {})
  OBVIOUS
<1>2. 0 < Attempts
  BY AttemptsType DEF StoryInv
<1>3. Set(c, t)
  BY <1>1, <1>2, TryTells DEF Begin
<1>4. t.pc = "trying" /\ t.attempt = 0
  BY <1>1, TryingFields
<1>5. Story(t, <<>>)
  BY <1>2, <1>4 DEF Story, AllUpstream
<1> QED
  BY <1>3, <1>5, StoryMoves DEF Begin

LEMMA WakeTells ==
  ASSUME IInv, StoryInv, NEW c \in Calls, Wake(c), UNCHANGED failures
  PROVE  StoryInv'
<1>1. call[c].pc = "sleeping" /\ call[c].attempt \in Nat
  BY ShapeOf DEF Wake, IInv
<1> DEFINE n == call[c].attempt + 1
<1>2. PICK t : t = Trying(call[c].method, n, call[c].age, {})
  OBVIOUS
<1>3. /\ failures[c] \in Seq(Errors) /\ Len(failures[c]) = n /\ n < Attempts
      /\ AllUpstream(failures[c])
  BY <1>1, AttemptsType DEF StoryInv, Story
<1>4. Set(c, t)
  BY <1>2, <1>3, TryTells DEF Wake
<1>5. t.pc = "trying" /\ t.attempt = n
  BY <1>2, TryingFields
<1>6. Story(t, failures[c])
  BY <1>3, <1>5 DEF Story
<1> QED
  BY <1>4, <1>6, StorySettles DEF Wake

LEMMA CancelTells ==
  ASSUME IInv, StoryInv, NEW c \in Calls, Cancel(c), UNCHANGED failures
  PROVE  StoryInv'
<1>1. PICK t : t = Raised("cancelled") /\ Set(c, t)
  BY DEF Cancel, Fail, Raised
<1>2. t.pc = "raised" /\ t.error = "cancelled"
  BY <1>1, RaisedFields
<1>3. Story(t, failures[c])
  BY <1>2 DEF Story, StoryInv
<1> QED
  BY <1>1, <1>3, StorySettles DEF Cancel

\* One more failure ends the call, or is one of those after which it sleeps.
LEMMA FailureTells ==
  ASSUME IInv, StoryInv, UNCHANGED maxAttempts, NEW c \in Calls, call[c].pc = "trying",
         NEW e \in Errors \ {"cancelled"}, AttemptFails(c, e),
         failures' = [failures EXCEPT ![c] = Append(failures[c], e)]
  PROVE  StoryInv'
<1> DEFINE n == call[c].attempt
           s == failures[c]
<1>1. /\ n \in Nat /\ Attempts \in Nat /\ s \in Seq(Errors) /\ Len(s) = n /\ n < Attempts
      /\ AllUpstream(s)
  BY ShapeOf, AttemptsType DEF IInv, StoryInv, Story
<1> HIDE DEF s, n
<1>2. PICK more : more = Append(s, e)
  OBVIOUS
<1>3. /\ more \in Seq(Errors) /\ Len(more) = n + 1 /\ more[n + 1] = e
      /\ \A i \in 1 .. n : more[i] = s[i]
  BY <1>1, <1>2
<1>4. \A i \in 1 .. n : more[i] = "upstream"
  BY <1>1, <1>3 DEF AllUpstream
<1>5. failures' = [failures EXCEPT ![c] = more]
  BY <1>2 DEF s
<1>6. CASE e # "upstream" \/ IsLast(n)
  <2>1. PICK t : t = Raised(e) /\ Set(c, t)
    BY <1>6 DEF AttemptFails, Fail, Raised, n
  <2>2. t.pc = "raised" /\ t.error = e
    BY <2>1, RaisedFields
  <2>3. Story(t, more)
    BY <1>1, <1>3, <1>4, <1>6, <2>2 DEF Story, IsLast
  <2> QED
    BY <1>5, <2>1, <2>3, StoryMoves
<1>7. CASE ~(e # "upstream" \/ IsLast(n))
  <2>1. PICK t : t = Sleeping(call[c].method, n, call[c].age, Backoff(n)) /\ Set(c, t)
    BY <1>7 DEF AttemptFails, Sleeping, n
  <2>2. t.pc = "sleeping" /\ t.attempt = n
    BY <2>1, SleepingFields
  <2>3. n < Attempts - 1
    BY <1>1, <1>7 DEF IsLast
  <2>4. AllUpstream(more)
    BY <1>1, <1>3, <1>4, <1>7 DEF AllUpstream
  <2>5. Story(t, more)
    BY <1>1, <1>3, <2>2, <2>3, <2>4 DEF Story
  <2> QED
    BY <1>5, <2>1, <2>5, StoryMoves
<1> QED
  BY <1>6, <1>7

\* A success adds no failure.
LEMMA SuccessTells ==
  ASSUME IInv, StoryInv, UNCHANGED <<maxAttempts, failures>>, NEW c \in Calls, NEW part,
         call[c].pc = "trying", PartSucceeds(c, part)
  PROVE  StoryInv'
<1>1. PICK m \in Methods, n \in Nat : \E a, g : call[c] = Trying(m, n, a, g)
  BY ShapeOf DEF IInv
<1>2. PICK a, g : call[c] = Trying(m, n, a, g)
  BY <1>1
<1>3. call[c].method = m /\ call[c].attempt = n /\ call[c].got = g
  BY <1>2, TryingFields
<1> DEFINE got == g \union {part}
<1>4. CASE got = Parts(m)
  <2>1. PICK t : t = Returned(m, n) /\ Set(c, t)
    BY <1>3, <1>4 DEF PartSucceeds, Returned
  <2>2. t.pc = "returned"
    BY <2>1, ReturnedFields
  <2>3. Story(t, failures[c])
    BY <2>2 DEF Story, StoryInv
  <2> QED
    BY <2>1, <2>3, StorySettles
<1>5. CASE got # Parts(m)
  <2>1. PICK t : t = Trying(m, n, a, got) /\ Set(c, t)
    BY <1>2, <1>3, <1>5 DEF PartSucceeds, Trying
  <2>2. t.pc = "trying" /\ t.attempt = n
    BY <2>1, TryingFields
  <2>3. Story(t, failures[c])
    BY <1>3, <2>2 DEF Story, StoryInv
  <2> QED
    BY <2>1, <2>3, StorySettles
<1> QED
  BY <1>4, <1>5

LEMMA ReplyTells ==
  ASSUME IInv, StoryInv, NEW r \in open, NEW reply \in Replies, MCReply(r, reply)
  PROVE  StoryInv'
<1>1. r.call \in Calls /\ maxAttempts' = maxAttempts
  BY DEF IInv, Sent, MCReply, Reply
<1> DEFINE outcome == Outcome(r.part, reply)
<1>2. outcome # "ok" => outcome \in Errors \ {"cancelled"}
  BY DEF Outcome, Errors, Replies
<1> HIDE DEF outcome
<1>3. CASE ~Awaited(r)
  <2>1. UNCHANGED <<call, failures>>
    BY <1>3 DEF MCReply, Reply
  <2> QED
    BY <1>1, <2>1 DEF StoryInv, Story, AllUpstream, Attempts
<1>4. CASE Awaited(r) /\ outcome = "ok"
  <2>1. PartSucceeds(r.call, r.part) /\ failures' = failures /\ call[r.call].pc = "trying"
    BY <1>4 DEF MCReply, Reply, outcome, Awaited
  <2> QED
    BY <1>1, <2>1, SuccessTells
<1>5. CASE Awaited(r) /\ outcome # "ok"
  <2>1. AttemptFails(r.call, outcome) /\ call[r.call].pc = "trying"
    BY <1>5 DEF MCReply, Reply, outcome, Awaited
  <2>2. Len(failures[r.call]) = call[r.call].attempt /\ call[r.call].attempt < Attempts
        /\ call[r.call].attempt \in Nat /\ Attempts \in Nat
    BY <1>1, <2>1, ShapeOf, AttemptsType DEF IInv, StoryInv, Story
  <2>3. Len(failures[r.call]) <= Attempts
    BY <2>2
  <2>4. failures' = [failures EXCEPT ![r.call] = Append(failures[r.call], outcome)]
    BY <1>5, <2>3 DEF MCReply, outcome
  <2> QED
    BY <1>1, <1>2, <1>5, <2>1, <2>4, FailureTells
<1> QED
  BY <1>3, <1>4, <1>5

\* Time leaves the phase and the attempt of each call as they are.
LEMMA TickTells ==
  ASSUME IInv, StoryInv, Tick, UNCHANGED failures
  PROVE  StoryInv'
<1>1. maxAttempts' = maxAttempts
  BY DEF Tick
<1>2. ASSUME NEW c \in Calls
      PROVE  Story(call'[c], failures[c])
  <2>1. CASE call[c].pc = "trying"
    <3>1. call'[c] = [call[c] EXCEPT !.age = @ + 1]
      BY <2>1 DEF Tick
    <3>2. call'[c].pc = "trying" /\ call'[c].attempt = call[c].attempt
      <4>0. PICK m \in Methods, n \in Nat : \E a, g : call[c] = Trying(m, n, a, g)
        BY <2>1, ShapeOf DEF IInv
      <4>1. PICK a, g : call[c] = Trying(m, n, a, g)
        BY <4>0
      <4>2. call'[c] = Trying(m, n, a + 1, g)
        BY <3>1, <4>1 DEF Trying
      <4> QED
        BY <4>1, <4>2, TryingFields
    <3> QED
      BY <2>1, <3>2 DEF Story, StoryInv
  <2>2. CASE call[c].pc = "sleeping"
    <3>1. call'[c] = [call[c] EXCEPT !.age = @ + 1, !.left = @ - 1]
      BY <2>2 DEF Tick
    <3>2. call'[c].pc = "sleeping" /\ call'[c].attempt = call[c].attempt
      <4>0. PICK m \in Methods, n \in Nat : \E a, l : call[c] = Sleeping(m, n, a, l)
        BY <2>2, ShapeOf DEF IInv
      <4>1. PICK a, l : call[c] = Sleeping(m, n, a, l)
        BY <4>0
      <4>2. /\ [call[c] EXCEPT !.age = @ + 1].pc = "sleeping"
            /\ [call[c] EXCEPT !.age = @ + 1].attempt = n
            /\ DOMAIN [call[c] EXCEPT !.age = @ + 1] = DOMAIN call[c]
        BY <4>1 DEF Sleeping
      <4>3. call[c].attempt = n
        BY <4>1, SleepingFields
      <4> QED
        BY <2>2, <3>1, <4>1, <4>3 DEF Sleeping
    <3> QED
      BY <2>2, <3>2 DEF Story, StoryInv
  <2>3. CASE call[c].pc \notin {"trying", "sleeping"}
    <3>1. call'[c] = call[c]
      BY <2>3 DEF Tick
    <3> QED
      BY <3>1 DEF StoryInv
  <2> QED
    BY <2>1, <2>2, <2>3
<1> QED
  BY <1>1, <1>2 DEF StoryInv, Story, AllUpstream, Attempts

LEMMA NextStory == IInv /\ StoryInv /\ [MCNext]_mcvars => StoryInv'
<1> SUFFICES ASSUME IInv, StoryInv, [MCNext]_mcvars PROVE StoryInv'
  OBVIOUS
<1>1. CASE UNCHANGED mcvars
  BY <1>1 DEF mcvars, vars, StoryInv, Story, AllUpstream, Attempts
<1> QED
  BY <1>1, ReplyTells, BeginTells, TickTells, WakeTells, CancelTells DEF MCNext

LEMMA HistoryAddsNothing == IInv /\ [MCNext]_mcvars => [Next]_vars
<1> SUFFICES ASSUME IInv, [MCNext]_mcvars PROVE [Next]_vars
  OBVIOUS
<1>1. CASE UNCHANGED mcvars
  BY <1>1 DEF mcvars, vars
<1>2. ASSUME NEW r \in open, NEW reply \in Replies, MCReply(r, reply)
      PROVE  Next
  <2>1. r.call \in Calls
    BY DEF IInv, Sent
  <2>2. Replying(r.call)
    BY <1>2 DEF Replying, MCReply
  <2> QED
    BY <2>1, <2>2 DEF Next
<1> QED
  BY <1>1, <1>2 DEF MCNext, Next

(* For any limit on the attempts, an upstream error is raised only after   *)
(* as many of them as are allowed, any other ends the call in the attempt  *)
(* that met it, and what is raised is the last thing met - never None.     *)
THEOREM RaisesWhatWasMet == MCSpec => []RaisesWhatItMet
<1>1. MCInit => IInv
  BY InitIInv DEF MCInit
<1>2. IInv /\ [MCNext]_mcvars => IInv'
  BY NextIInv, RetryAssumption, HistoryAddsNothing
<1>3. StoryInv => RaisesWhatItMet
  BY DEF StoryInv, Story, RaisesWhatItMet
<1> QED
  BY <1>1, <1>2, <1>3, InitStory, NextStory, PTL DEF MCSpec

-----------------------------------------------------------------------------
(* Types and time.                                                         *)

\* How old a call is at most when its attempt n ends.
Budget(n) == (n + 1) * RequestSeconds + DelaySeconds * (PowerOfTwo[n] - 1)

\* What the phase t of the call c and its requests say of its age: an attempt that
\* goes on has a request for each part it misses, and ends with the slowest at the latest.
Timely(c, t, reqs) ==
  /\ t.pc = "trying" =>
       /\ t.attempt < Attempts /\ t.got \subseteq Parts(t.method) /\ t.got # Parts(t.method)
       /\ \A p \in Parts(t.method) \ t.got :
            \E r \in reqs : r.call = c /\ r.attempt = t.attempt /\ r.part = p
       /\ \A r \in reqs : r.call = c /\ r.attempt = t.attempt =>
            t.age + r.left <= Budget(t.attempt)
  /\ t.pc = "sleeping" =>
       /\ t.attempt + 1 < Attempts
       /\ t.age + t.left <= Budget(t.attempt) + Backoff(t.attempt)

(* The inductive invariant, over that of the requests.                     *)
TimeInv == TypeOK /\ \A c \in Calls : Timely(c, call[c], open)

LEMMA Seconds ==
  ASSUME NEW n \in Nat
  PROVE  /\ Budget(n) \in Nat /\ Backoff(n) \in Nat /\ Budget(n) >= RequestSeconds
         /\ Budget(n) + Backoff(n) + RequestSeconds = Budget(n + 1)
<1> DEFINE p == PowerOfTwo[n]
<1>1. p \in Nat /\ PowerOfTwo[n + 1] = 2 * p /\ p >= 1
  <2> DEFINE S == {m \in Nat : PowerOfTwo[m] >= 1}
  <2>1. 0 \in S /\ \A m \in Nat : m \in S => m + 1 \in S
    BY PowerOfTwoDef
  <2> HIDE DEF S
  <2>2. Nat \subseteq S
    BY <2>1, Induct
  <2> QED
    BY <2>2, PowerOfTwoDef DEF S
<1> HIDE DEF p
<1>2. RequestSeconds \in Nat /\ DelaySeconds \in Nat
  BY RetryAssumption DEF RetryAssumption
<1>3. \A d, q \in Nat : d * (2 * q - 1) = d * (q - 1) + d * q
  OBVIOUS
<1>4. \A d, q \in Nat : q >= 1 => d * (q - 1) \in Nat /\ d * q \in Nat
  OBVIOUS
<1>5. \A k, r \in Nat : (k + 1) * r \in Nat /\ (k + 1) * r >= r /\ (k + 2) * r = (k + 1) * r + r
  OBVIOUS
<1>6. /\ DelaySeconds * (2 * p - 1) = DelaySeconds * (p - 1) + DelaySeconds * p
      /\ DelaySeconds * (p - 1) \in Nat /\ DelaySeconds * p \in Nat
      /\ (n + 1) * RequestSeconds \in Nat /\ (n + 1) * RequestSeconds >= RequestSeconds
      /\ (n + 1 + 1) * RequestSeconds = (n + 1) * RequestSeconds + RequestSeconds
  BY <1>1, <1>2, <1>3, <1>4, <1>5
<1>7. /\ Budget(n) = (n + 1) * RequestSeconds + DelaySeconds * (p - 1)
      /\ Budget(n + 1) = (n + 1 + 1) * RequestSeconds + DelaySeconds * (2 * p - 1)
      /\ Backoff(n) = DelaySeconds * p
  BY <1>1 DEF Budget, Backoff, p
<1> QED
  BY <1>2, <1>6, <1>7

\* A later attempt ends later.
LEMMA BudgetGrows ==
  ASSUME NEW m \in Nat, NEW n \in Nat, m <= n
  PROVE  Budget(m) <= Budget(n)
<1> DEFINE S == {k \in Nat : Budget(m) <= Budget(m + k)}
<1>1. 0 \in S
  BY Seconds
<1>2. ASSUME NEW k \in Nat, k \in S
      PROVE  k + 1 \in S
  <2>1. m + k \in Nat /\ m + (k + 1) = (m + k) + 1 /\ Budget(m) <= Budget(m + k)
    BY <1>2
  <2>2. Budget(m + k) <= Budget((m + k) + 1) /\ Budget((m + k) + 1) \in Nat
    BY <2>1, Seconds, RetryAssumption DEF RetryAssumption
  <2> QED
    BY <2>1, <2>2, Seconds
<1> HIDE DEF S
<1>3. Nat \subseteq S
  BY <1>1, <1>2, Induct
<1>4. n - m \in Nat /\ m + (n - m) = n
  OBVIOUS
<1> QED
  BY <1>3, <1>4 DEF S

LEMMA CallTypes ==
  ASSUME NEW t \in Call
  PROVE  /\ t.pc \in {"idle", "trying", "sleeping", "returned", "raised"}
         /\ t.pc \in {"trying", "sleeping"} => t.method \in Methods /\ t.attempt \in Nat /\ t.age \in Nat
         /\ t.pc = "trying" => /\ t.got \subseteq AllParts
                               /\ t = Trying(t.method, t.attempt, t.age, t.got)
         /\ t.pc = "sleeping" => t.left \in Nat /\ t = Sleeping(t.method, t.attempt, t.age, t.left)
BY DEF Call, Trying, Sleeping

LEMMA TryingType ==
  ASSUME NEW m \in Methods, NEW n \in Nat, NEW a \in Nat, NEW g \in SUBSET AllParts
  PROVE  Trying(m, n, a, g) \in Call
BY DEF Trying, Call

LEMMA SleepingType ==
  ASSUME NEW m \in Methods, NEW n \in Nat, NEW a \in Nat, NEW l \in Nat
  PROVE  Sleeping(m, n, a, l) \in Call
BY DEF Sleeping, Call

\* A call moves on, and leaves the requests of the others alone.
LEMMA TimeMoves ==
  ASSUME TimeInv, UNCHANGED maxAttempts, NEW c \in Calls, NEW t \in Call, Set(c, t),
         open' \subseteq Request, \A r \in Request : r.call # c => (r \in open' <=> r \in open),
         Timely(c, t, open')
  PROVE  TimeInv'
<1>1. TypeOK'
  BY DEF TimeInv, TypeOK, Set
<1>2. ASSUME NEW d \in Calls, NEW u, u = call'[d]
      PROVE  Timely(d, u, open)'
  <2>1. Attempts' = Attempts
    BY DEF Attempts
  <2>2. CASE d = c
    <3>1. u = t
      BY <1>2, <2>2 DEF Set, TimeInv, TypeOK
    <3> QED
      BY <2>1, <2>2, <3>1 DEF Timely
  <2>3. CASE d # c
    <3>1. u = call[d] /\ Timely(d, u, open)
      BY <1>2, <2>3 DEF Set, TimeInv, TypeOK
    <3>2. \A r : r \in open /\ r.call = d <=> r \in open' /\ r.call = d
      BY <2>3 DEF TimeInv, TypeOK
    <3> QED
      BY <2>1, <3>1, <3>2 DEF Timely
  <2> QED
    BY <2>2, <2>3
<1> QED
  BY <1>1, <1>2 DEF TimeInv

LEMMA FailInTime ==
  ASSUME TimeInv, UNCHANGED maxAttempts, NEW c \in Calls, NEW e \in Errors, Fail(c, e),
         open' \subseteq open, \A r \in open : r.call # c => r \in open'
  PROVE  TimeInv'
<1>1. PICK t : t = Raised(e)
  OBVIOUS
<1>2. t \in Call /\ t.pc = "raised"
  BY <1>1 DEF Raised, Call
<1>3. Set(c, t) /\ Timely(c, t, open')
  BY <1>1, <1>2 DEF Fail, Raised, Timely
<1>4. open' \subseteq Request /\ \A r \in Request : r.call # c => (r \in open' <=> r \in open)
  BY DEF TimeInv, TypeOK
<1> QED
  BY <1>2, <1>3, <1>4, TimeMoves

\* A new attempt of a call that was at most as old as the attempts before it may be.
LEMMA TryInTime ==
  ASSUME TimeInv, UNCHANGED maxAttempts, NEW c \in Calls, NEW m \in Methods, NEW n \in Nat,
         NEW a \in Nat, Try(c, m, n, a), n < Attempts, a + RequestSeconds <= Budget(n),
         \A r \in open : r.call = c => r.attempt < n
  PROVE  TimeInv'
<1> DEFINE t == Trying(m, n, a, {})
           new == Requests(c, m, n)
<1>1. Set(c, t) /\ open' = open \union new
  BY DEF Try, Trying
<1>2. t \in Call /\ t.pc = "trying" /\ t.method = m /\ t.attempt = n /\ t.age = a /\ t.got = {}
  BY TryingType, TryingFields
<1>3. Parts(m) \subseteq AllParts /\ Parts(m) # {}
  BY DEF Parts, Methods, AllParts
<1>4. \A r \in new : r \in Request /\ r.call = c /\ r.attempt = n /\ r.left = RequestSeconds
  BY <1>3, RetryAssumption DEF Requests, Request, RetryAssumption
<1>5. ASSUME NEW p \in Parts(m)
      PROVE  \E r \in new : r.call = c /\ r.attempt = n /\ r.part = p
  <2> DEFINE q == [call |-> c, attempt |-> n, part |-> p, left |-> RequestSeconds]
  <2>1. q \in new /\ q.call = c /\ q.attempt = n /\ q.part = p
    BY DEF Requests
  <2> QED
    BY <2>1
<1> HIDE DEF t, new
<1>6. \A r \in open' : r.call = c /\ r.attempt = n => r \in new
  BY <1>1 DEF TimeInv, TypeOK, Request
<1>7. Timely(c, t, open')
  BY <1>1, <1>2, <1>3, <1>4, <1>5, <1>6 DEF Timely
<1>8. open' \subseteq Request /\ \A r \in Request : r.call # c => (r \in open' <=> r \in open)
  BY <1>1, <1>4 DEF TimeInv, TypeOK
<1> QED
  BY <1>1, <1>2, <1>7, <1>8, TimeMoves

LEMMA BeginInTime ==
  ASSUME TimeInv, NEW c \in Calls, NEW m \in Methods, Begin(c, m)
  PROVE  TimeInv'
<1>1. 0 < Attempts /\ 0 + RequestSeconds <= Budget(0)
  BY Seconds, AttemptsType, RetryAssumption DEF TimeInv, TypeOK, RetryAssumption
<1> QED
  BY <1>1, TryInTime DEF Begin

LEMMA WakeInTime ==
  ASSUME IInv, TimeInv, NEW c \in Calls, Wake(c)
  PROVE  TimeInv'
<1> DEFINE t == call[c]
<1>1. /\ t.pc = "sleeping" /\ t.left = 0 /\ Try(c, t.method, t.attempt + 1, t.age)
      /\ UNCHANGED maxAttempts
  BY DEF Wake
<1>2. t.method \in Methods /\ t.attempt \in Nat /\ t.age \in Nat
  BY <1>1, CallTypes DEF TimeInv, TypeOK
<1>3. t.attempt + 1 < Attempts /\ t.age + t.left <= Budget(t.attempt) + Backoff(t.attempt)
  BY <1>1 DEF TimeInv, Timely
<1>4. t.age + RequestSeconds <= Budget(t.attempt + 1)
  BY <1>1, <1>2, <1>3, Seconds, RetryAssumption DEF RetryAssumption
<1>5. \A r \in open : r.call = c => r.attempt < t.attempt + 1
  BY <1>1, <1>2 DEF IInv, Knows, Sent
<1>6. t.attempt + 1 \in Nat
  BY <1>2
<1> HIDE DEF t
<1> QED
  BY <1>1, <1>2, <1>3, <1>4, <1>5, <1>6, TryInTime

LEMMA CancelInTime ==
  ASSUME TimeInv, NEW c \in Calls, Cancel(c)
  PROVE  TimeInv'
<1>1. /\ Fail(c, "cancelled") /\ UNCHANGED maxAttempts
      /\ open' \subseteq open /\ \A r \in open : r.call # c => r \in open'
  BY DEF Cancel
<1> QED
  BY <1>1, FailInTime DEF Errors

\* The sleep after a failed attempt is in the budget of the next one.
LEMMA AttemptFailsInTime ==
  ASSUME TimeInv, UNCHANGED maxAttempts, NEW r \in open, Awaited(r), NEW e \in Errors,
         AttemptFails(r.call, e), open' = open \ {r}
  PROVE  TimeInv'
<1> DEFINE c == r.call
           n == call[c].attempt
<1>0. c \in Calls /\ call[c].pc = "trying" /\ r.attempt = n /\ r.left \in Nat /\ call[c] \in Call
  BY DEF Awaited, TimeInv, TypeOK, Request
<1>1. CASE Fail(c, e)
  BY <1>0, <1>1, FailInTime
<1>2. CASE ~Fail(c, e)
  <2> DEFINE t == Sleeping(call[c].method, n, call[c].age, Backoff(n))
  <2>1. Set(c, t) /\ ~IsLast(n)
    BY <1>2 DEF AttemptFails, Sleeping
  <2>2. call[c].method \in Methods /\ n \in Nat /\ call[c].age \in Nat
    BY <1>0, CallTypes
  <2>3. n < Attempts /\ call[c].age + r.left <= Budget(n)
    BY <1>0 DEF TimeInv, Timely
  <2>4. Backoff(n) \in Nat /\ Budget(n) \in Nat /\ Attempts \in Nat
    BY <2>2, Seconds, AttemptsType, RetryAssumption DEF RetryAssumption, TimeInv, TypeOK
  <2>5. n + 1 < Attempts /\ call[c].age + Backoff(n) <= Budget(n) + Backoff(n)
    BY <1>0, <2>1, <2>2, <2>3, <2>4 DEF IsLast
  <2>6. t \in Call /\ t.pc = "sleeping" /\ t.attempt = n /\ t.age = call[c].age /\ t.left = Backoff(n)
    BY <2>2, <2>4, SleepingType, SleepingFields
  <2>7. open' \subseteq Request /\ \A q \in Request : q.call # c => (q \in open' <=> q \in open)
    BY DEF TimeInv, TypeOK
  <2> HIDE DEF t
  <2>8. Timely(c, t, open')
    BY <2>5, <2>6 DEF Timely
  <2> HIDE DEF c
  <2> QED
    BY <1>0, <2>1, <2>6, <2>7, <2>8, TimeMoves
<1> QED
  BY <1>1, <1>2

\* The reply of one part leaves the requests of the other parts.
LEMMA PartSucceedsInTime ==
  ASSUME IInv, TimeInv, UNCHANGED maxAttempts, NEW r \in open, Awaited(r),
         PartSucceeds(r.call, r.part), open' = open \ {r}
  PROVE  TimeInv'
<1> DEFINE c == r.call
           m == call[c].method
           n == call[c].attempt
           a == call[c].age
           got == call[c].got \union {r.part}
<1>0. c \in Calls /\ call[c].pc = "trying" /\ r.attempt = n /\ call[c] \in Call
  BY DEF Awaited, TimeInv, TypeOK, Request
<1>1. /\ m \in Methods /\ n \in Nat /\ a \in Nat
      /\ call[c] = Trying(m, n, a, call[c].got)
  BY <1>0, CallTypes
<1>2. r.part \in Parts(m) \ call[c].got
  BY <1>0 DEF IInv, Knows
<1>3. Timely(c, call[c], open) /\ Parts(m) \subseteq AllParts
  BY <1>0, <1>1 DEF TimeInv, Parts, Methods, AllParts
<1>4. open' \subseteq Request /\ \A q \in Request : q.call # c => (q \in open' <=> q \in open)
  BY DEF TimeInv, TypeOK
<1>5. CASE got = Parts(m)
  <2> DEFINE t == Returned(m, n)
  <2>1. Set(c, t)
    BY <1>5 DEF PartSucceeds, Returned
  <2>2. t \in Call /\ t.pc = "returned"
    BY <1>1 DEF Returned, Call
  <2> HIDE DEF t
  <2>3. Timely(c, t, open')
    BY <2>2 DEF Timely
  <2> HIDE DEF c
  <2> QED
    BY <1>0, <1>4, <2>1, <2>2, <2>3, TimeMoves
<1>6. CASE got # Parts(m)
  <2> DEFINE t == Trying(m, n, a, got)
  <2>1. Set(c, t)
    <3>1. Set(c, [call[c] EXCEPT !.got = got])
      BY <1>6 DEF PartSucceeds
    <3>2. [call[c] EXCEPT !.got = got] = t
      <4>1. \A g, h : [Trying(m, n, a, g) EXCEPT !.got = h] = Trying(m, n, a, h)
        BY DEF Trying
      <4> HIDE DEF got, m, n, a
      <4> QED
        BY <1>1, <4>1
    <3> QED
      BY <3>1, <3>2
  <2>2. got \subseteq Parts(m)
    BY <1>0, <1>2, <1>3 DEF Timely
  <2>3. t \in Call /\ t.pc = "trying" /\ t.method = m /\ t.attempt = n /\ t.age = a /\ t.got = got
    BY <1>1, <1>3, <2>2, TryingType, TryingFields
  <2>4. ASSUME NEW p \in Parts(m) \ got
        PROVE  \E q \in open' : q.call = c /\ q.attempt = n /\ q.part = p
    <3>1. PICK q \in open : q.call = c /\ q.attempt = n /\ q.part = p
      BY <1>0, <1>3 DEF Timely
    <3>2. q # r
      BY <3>1
    <3> QED
      BY <3>1, <3>2
  <2>5. \A q \in open' : q.call = c /\ q.attempt = n => a + q.left <= Budget(n)
    BY <1>0, <1>3 DEF Timely
  <2>6. n < Attempts
    BY <1>0, <1>3 DEF Timely
  <2> HIDE DEF t, got
  <2>7. Timely(c, t, open')
    BY <1>6, <2>2, <2>3, <2>4, <2>5, <2>6 DEF Timely
  <2> HIDE DEF c
  <2> QED
    BY <1>0, <1>4, <2>1, <2>3, <2>7, TimeMoves
<1> QED
  BY <1>5, <1>6

\* The reply to an orphan changes nothing.
LEMMA OrphanInTime ==
  ASSUME TimeInv, NEW r \in open, ~Awaited(r), open' = open \ {r}, UNCHANGED <<call, maxAttempts>>
  PROVE  TimeInv'
<1>1. TypeOK' /\ Attempts' = Attempts
  BY DEF TimeInv, TypeOK, Attempts
<1>2. ASSUME NEW c \in Calls, NEW t, t = call[c]
      PROVE  Timely(c, t, open')
  <2>1. Timely(c, t, open)
    BY <1>2 DEF TimeInv
  <2>2. t.pc = "trying" => ~(r.call = c /\ r.attempt = t.attempt)
    BY <1>2 DEF Awaited
  <2> QED
    BY <2>1, <2>2 DEF Timely
<1>3. \A c \in Calls : Timely(c, call[c], open)'
  BY <1>1, <1>2 DEF Timely
<1> QED
  BY <1>1, <1>3 DEF TimeInv

LEMMA ReplyInTime ==
  ASSUME IInv, TimeInv, NEW r \in open, NEW reply \in Replies, Reply(r, reply)
  PROVE  TimeInv'
<1>1. open' = open \ {r} /\ UNCHANGED maxAttempts
  BY DEF Reply
<1>2. CASE ~Awaited(r)
  BY <1>1, <1>2, OrphanInTime DEF Reply
<1>3. CASE Awaited(r) /\ Outcome(r.part, reply) = "ok"
  BY <1>1, <1>3, PartSucceedsInTime DEF Reply
<1>4. CASE Awaited(r) /\ Outcome(r.part, reply) # "ok"
  <2>1. Outcome(r.part, reply) \in Errors
    BY <1>4 DEF Outcome, Errors, Replies
  <2>2. AttemptFails(r.call, Outcome(r.part, reply))
    BY <1>4 DEF Reply
  <2> QED
    BY <1>1, <1>4, <2>1, <2>2, AttemptFailsInTime
<1> QED
  BY <1>2, <1>3, <1>4

\* As a call grows older, less is left of its requests, or of its sleep.
LEMMA TickInTime ==
  ASSUME TimeInv, Tick
  PROVE  TimeInv'
<1> DEFINE Later(r) == [r EXCEPT !.left = @ - 1]
<1>1. /\ open' = {Later(r) : r \in open} /\ UNCHANGED maxAttempts
      /\ \A r \in open : r.left > 0
      /\ \A c \in Calls : call[c].pc = "sleeping" => call[c].left > 0
  BY DEF Tick
<1>2. \A r \in open : /\ Later(r) \in Request /\ Later(r).call = r.call
                      /\ Later(r).attempt = r.attempt /\ Later(r).part = r.part
                      /\ Later(r).left = r.left - 1 /\ r.left \in Nat
  BY <1>1 DEF TimeInv, TypeOK, Request
<1> HIDE DEF Later
<1>3. Attempts' = Attempts
  BY <1>1 DEF Attempts
<1>4. ASSUME NEW c \in Calls, NEW t, t = call'[c]
      PROVE  t \in Call /\ Timely(c, t, open')
  <2> DEFINE s == call[c]
  <2>0. s \in Call /\ Timely(c, s, open)
    BY DEF TimeInv, TypeOK
  <2>1. CASE s.pc = "trying"
    <3>1. t = [s EXCEPT !.age = @ + 1]
      BY <1>4, <2>1 DEF Tick
    <3>2. /\ s.method \in Methods /\ s.attempt \in Nat /\ s.age \in Nat /\ s.got \subseteq AllParts
          /\ s = Trying(s.method, s.attempt, s.age, s.got)
      BY <2>0, <2>1, CallTypes
    <3>3. t = Trying(s.method, s.attempt, s.age + 1, s.got)
      <4>1. \A m, n, a, g : [Trying(m, n, a, g) EXCEPT !.age = @ + 1] = Trying(m, n, a + 1, g)
        BY DEF Trying
      <4> HIDE DEF s
      <4> QED
        BY <3>1, <3>2, <4>1
    <3>4. /\ t \in Call /\ t.pc = "trying" /\ t.method = s.method /\ t.attempt = s.attempt
          /\ t.age = s.age + 1 /\ t.got = s.got
      BY <3>2, <3>3, TryingType, TryingFields
    <3>5. ASSUME NEW p \in Parts(t.method) \ t.got
          PROVE  \E q \in open' : q.call = c /\ q.attempt = t.attempt /\ q.part = p
      <4>1. PICK r \in open : r.call = c /\ r.attempt = s.attempt /\ r.part = p
        BY <2>0, <2>1, <3>4, <3>5 DEF Timely
      <4> QED
        BY <1>1, <1>2, <3>4, <4>1
    <3>6. ASSUME NEW q \in open', q.call = c, q.attempt = t.attempt
          PROVE  t.age + q.left <= Budget(t.attempt)
      <4>1. PICK r \in open : q = Later(r)
        BY <1>1
      <4>2. s.age + r.left <= Budget(s.attempt)
        BY <1>2, <2>0, <2>1, <3>4, <3>6, <4>1 DEF Timely
      <4> QED
        BY <1>2, <3>2, <3>4, <4>1, <4>2
    <3>7. t.attempt < Attempts /\ t.got \subseteq Parts(t.method) /\ t.got # Parts(t.method)
      BY <2>0, <2>1, <3>4 DEF Timely
    <3> QED
      BY <3>4, <3>5, <3>6, <3>7 DEF Timely
  <2>2. CASE s.pc = "sleeping"
    <3>1. t = [s EXCEPT !.age = @ + 1, !.left = @ - 1]
      BY <1>4, <2>2 DEF Tick
    <3>2. /\ s.method \in Methods /\ s.attempt \in Nat /\ s.age \in Nat /\ s.left \in Nat
          /\ s = Sleeping(s.method, s.attempt, s.age, s.left) /\ s.left > 0
      BY <1>1, <2>0, <2>2, CallTypes
    <3>3. t = Sleeping(s.method, s.attempt, s.age + 1, s.left - 1)
      <4> DEFINE m == s.method
                 n == s.attempt
                 a == s.age
                 l == s.left
      <4>1. s = Sleeping(m, n, a, l)
        BY <3>2
      <4> HIDE DEF m, n, a, l
      <4>2. [s EXCEPT !.age = @ + 1] = Sleeping(m, n, a + 1, l)
        BY <4>1 DEF Sleeping
      <4>3. [Sleeping(m, n, a + 1, l) EXCEPT !.left = @ - 1] = Sleeping(m, n, a + 1, l - 1)
        BY DEF Sleeping
      <4>4. t = [[s EXCEPT !.age = @ + 1] EXCEPT !.left = @ - 1]
        BY <3>1
      <4>5. t = Sleeping(m, n, a + 1, l - 1)
        BY <4>2, <4>3, <4>4
      <4> QED
        BY <4>5 DEF m, n, a, l
    <3>4. /\ t \in Call /\ t.pc = "sleeping" /\ t.attempt = s.attempt
          /\ t.age = s.age + 1 /\ t.left = s.left - 1
      <4> HIDE DEF s
      <4>1. s.age + 1 \in Nat /\ s.left - 1 \in Nat
        BY <3>2
      <4>2. t \in Call
        BY <3>2, <3>3, <4>1, SleepingType
      <4> QED
        BY <3>3, <4>2, SleepingFields
    <3>5. /\ s.attempt + 1 < Attempts
          /\ s.age + s.left <= Budget(s.attempt) + Backoff(s.attempt)
      BY <2>0, <2>2 DEF Timely
    <3>6. t.age + t.left = s.age + s.left
      BY <3>2, <3>4
    <3> QED
      BY <3>4, <3>5, <3>6 DEF Timely
  <2>3. CASE s.pc \notin {"trying", "sleeping"}
    <3>1. t = s
      BY <1>4, <2>3 DEF Tick
    <3> QED
      BY <2>0, <2>3, <3>1 DEF Timely
  <2> QED
    BY <2>1, <2>2, <2>3
<1>5. TypeOK'
  <2>1. call' = [c \in Calls |-> call'[c]]
    BY DEF Tick
  <2>2. open' \subseteq Request
    BY <1>1, <1>2
  <2> QED
    BY <1>1, <1>4, <2>1, <2>2 DEF TimeInv, TypeOK
<1>6. \A c \in Calls : Timely(c, call[c], open)'
  BY <1>3, <1>4 DEF Timely
<1> QED
  BY <1>5, <1>6 DEF TimeInv

LEMMA InitTimeInv == Init => TimeInv
BY DEF Init, TimeInv, TypeOK, Call, Timely

LEMMA NextTimeInv ==
  ASSUME IInv, TimeInv, [Next]_vars
  PROVE  TimeInv'
<1>1. CASE Tick
  BY <1>1, TickInTime
<1>2. ASSUME NEW c \in Calls, NEW m \in Methods, Begin(c, m) PROVE TimeInv'
  BY <1>2, BeginInTime
<1>3. ASSUME NEW c \in Calls, Replying(c) PROVE TimeInv'
  BY <1>3, ReplyInTime DEF Replying, Reply
<1>4. ASSUME NEW c \in Calls, Wake(c) PROVE TimeInv'
  BY <1>4, WakeInTime
<1>5. ASSUME NEW c \in Calls, Cancel(c) PROVE TimeInv'
  BY <1>5, CancelInTime
<1>6. CASE UNCHANGED vars
  BY <1>6 DEF vars, TimeInv, TypeOK, Timely, Attempts
<1> QED
  BY <1>1, <1>2, <1>3, <1>4, <1>5, <1>6 DEF Next

LEMMA TimeInvariance == Spec => []TimeInv
<1>1. IInv /\ TimeInv /\ [Next]_vars => TimeInv'
  BY NextTimeInv
<1> QED
  BY <1>1, InitTimeInv, Invariance, PTL DEF Spec

(* Whatever replies come when, a call is in one phase, what it raises is   *)
(* one of the errors that the adapters know, and no request outlives its   *)
(* timeout (retry_adapter.py:61).                                          *)
THEOREM TypeCorrect == Spec => []TypeOK
<1>1. TimeInv => TypeOK
  BY DEF TimeInv
<1> QED
  BY <1>1, TimeInvariance, PTL

(* A call ends within the time of its requests and of the sleeps between   *)
(* them, each twice as long as the one before: for any limit and delay, no *)
(* orphan, cancellation or order of replies adds to it.                    *)
THEOREM CallsEndInTime == Spec => []EndsInTime
<1>1. ASSUME TimeInv, NEW c \in Calls, Pending(c)
      PROVE  call[c].age <= MaxSeconds
  <2> DEFINE t == call[c]
             n == t.attempt
  <2>0. t \in Call /\ Timely(c, t, open) /\ Attempts \in Nat /\ Attempts >= 1
    BY <1>1, AttemptsType, RetryAssumption DEF TimeInv, TypeOK, RetryAssumption
  <2>1. n \in Nat /\ t.age \in Nat /\ t.pc \in {"trying", "sleeping"}
    BY <1>1, <2>0, CallTypes DEF Pending
  <2>2. Attempts - 1 \in Nat /\ Budget(Attempts - 1) = MaxSeconds /\ MaxSeconds \in Nat
    BY <2>0, Seconds DEF Budget, MaxSeconds
  <2>3. CASE t.pc = "trying"
    <3>1. n < Attempts /\ t.got \subseteq Parts(t.method) /\ t.got # Parts(t.method)
      BY <2>0, <2>3 DEF Timely
    <3>2. PICK p \in Parts(t.method) \ t.got : TRUE
      BY <3>1
    <3>3. PICK r \in open : r.call = c /\ r.attempt = n
      BY <2>0, <2>3, <3>2 DEF Timely
    <3>4. t.age + r.left <= Budget(n) /\ r.left \in Nat
      BY <1>1, <2>0, <2>3, <3>3 DEF Timely, TimeInv, TypeOK, Request
    <3>5. n <= Attempts - 1
      BY <2>0, <2>1, <3>1
    <3>6. Budget(n) <= MaxSeconds /\ Budget(n) \in Nat
      <4> HIDE DEF n
      <4> QED
        BY <2>1, <2>2, <3>5, BudgetGrows, Seconds
    <3> QED
      BY <2>1, <2>2, <3>4, <3>6
  <2>4. CASE t.pc = "sleeping"
    <3>1. n + 1 < Attempts /\ t.age + t.left <= Budget(n) + Backoff(n) /\ t.left \in Nat
      BY <2>0, <2>4, CallTypes DEF Timely
    <3>2. Budget(n) + Backoff(n) <= Budget(n + 1) /\ Budget(n + 1) \in Nat
      BY <2>1, Seconds, RetryAssumption DEF RetryAssumption
    <3>3. Budget(n + 1) <= MaxSeconds
      BY <2>0, <2>1, <2>2, <3>1, BudgetGrows
    <3>4. Budget(n) \in Nat /\ Backoff(n) \in Nat
      BY <2>1, Seconds
    <3>5. \A a, l, b, k, next, most \in Nat :
            a + l <= b + k /\ b + k <= next /\ next <= most => a <= most
      OBVIOUS
    <3>6. t.age <= MaxSeconds
      <4> HIDE DEF t, n
      <4> QED
        BY <2>1, <2>2, <3>1, <3>2, <3>3, <3>4, <3>5
    <3> QED
      BY <3>6
  <2> QED
    BY <2>1, <2>3, <2>4
<1>2. TimeInv => EndsInTime
  BY <1>1 DEF EndsInTime
<1> QED
  BY <1>2, TimeInvariance, PTL
=============================================================================
