-------------------------- MODULE Discovery_proofs --------------------------
(***************************************************************************)
(* Proofs about MCDiscovery: its type invariant, and that every answer is  *)
(* complete and fresh, for any calls, organizations, events, names, feeds, *)
(* queries and TTL.  What the shared cache guarantees is taken from        *)
(* CachingAdapter_proofs, by instance.                                     *)
(***************************************************************************)
EXTENDS MCDiscovery, TLAPS

Shared == INSTANCE CachingAdapter_proofs WITH Calls <- Reads, Keys <- Items, LiveKeys <- {},
                                              LiveTtlSeconds <- TtlSeconds

LEMMA SharedAssumption == Shared!CacheAssumption
BY DiscoveryAssumption DEF DiscoveryAssumption, Shared!CacheAssumption

\* The reads that the gathers of f have asked for so far.
Asked(f) == IF find[f].pc = "lists" THEN find[f].items
            ELSE find[f].items \union OrgsOf(find[f].query)

\* What the lists that f has read list.
ListedFor(f) == UNION {lists[task[<<f, o>>].at][o] : o \in OrgsOf(find[f].query)}

\* A read that f asked for and the loop has started is of f's own time, or what it
\* returned is young enough.
Started(f, i) ==
  LET t == task[<<f, i>>]
  IN  \/ t.pc = "fetching" /\ t.began >= began[f]
      \/ t.pc = "returned" /\ t.at \in 0 .. now /\ t.at + TtlSeconds + MaxTransit > began[f]
      \/ t.pc = "raised"

\* What f awaits, and that nothing of f runs beside what it asked for.
Awaits(f) ==
  /\ find[f].pc = "lists" => find[f].items = OrgsOf(find[f].query)
  /\ find[f].pc = "events" => find[f].items \subseteq Events /\ find[f].items = ListedFor(f)
  /\ \A i \in Items \ find[f].items : Over(<<f, i>>)
  /\ \A i \in Asked(f) : <<f, i>> \notin due => Started(f, i)

ClockInv == /\ now \in 0 .. MaxTime
            /\ lists \in [0 .. MaxTime -> [Orgs -> SUBSET Events]]
            /\ began \in [Finds -> Nat] /\ \A f \in Finds : began[f] <= now

(* The inductive invariant.                                                *)
IInv == /\ Shared!IInv
        /\ TypeOK
        /\ ClockInv
        /\ \A f \in Finds : Pending(f) => Awaits(f)

-----------------------------------------------------------------------------
\* The cache is the same module, whether by Discovery or by the proofs about it.
LEMMA SameCache ==
  ASSUME NEW r, NEW i
  PROVE  /\ Cache!Hit(r, i) => Shared!Hit(r, i)
         /\ Cache!Miss(r, i) => Shared!Miss(r, i)
         /\ Cache!Fill(r, i) => Shared!Fill(r, i)
         /\ Cache!Raise(r, i) => Shared!Raise(r, i)
         /\ Cache!Tick => Shared!Tick
         /\ Cache!Init => Shared!Init
BY DEF Cache!Hit, Shared!Hit, Cache!Free, Shared!Free, Cache!Valid, Shared!Valid,
       Cache!Return, Shared!Return, Cache!Miss, Shared!Miss, Cache!Drop, Shared!Drop,
       Cache!Del, Shared!Del, Cache!Fill, Shared!Fill, Cache!Fetching, Shared!Fetching,
       Cache!Store, Shared!Store, Cache!Put, Shared!Put, Cache!Expiry, Shared!Expiry,
       Cache!Ttl, Shared!Ttl, Cache!Raise, Shared!Raise, Cache!Tick, Shared!Tick,
       Cache!Init, Shared!Init, Cache!EmptyDict, Shared!EmptyDict

\* A step of Discovery is a step of the cache, or leaves it alone.
LEMMA SharedKeeps ==
  ASSUME Shared!IInv, [Next]_vars
  PROVE  Shared!IInv'
<1>1. ASSUME NEW r \in Reads, StartRead(r) \/ Read(r)
      PROVE  Shared!Next
  <2>1. r[2] \in Items
    BY DEF Reads
  <2>2. Shared!Hit(r, r[2]) \/ Shared!Miss(r, r[2]) \/ Shared!Await(r, r[2])
    BY <1>1, SameCache DEF StartRead, Read, Cache!Await, Shared!Await
  <2> QED
    BY <2>1, <2>2 DEF Shared!Next
<1>2. Tick => Shared!Next
  BY SameCache DEF Tick, Shared!Next
<1>3. ASSUME NEW f \in Finds, Resume(f) \/ \E query \in Queries : Begin(f, query)
      PROVE  UNCHANGED cachevars
  BY <1>3 DEF Resume, Begin
<1>4. [Shared!Next]_(Shared!vars)
  BY <1>1, <1>2, <1>3 DEF Next, vars, cachevars, Shared!vars
<1> QED
  BY <1>4, SharedAssumption, Shared!NextIInv

LEMMA ReadIs ==
  ASSUME NEW r \in Reads
  PROVE  /\ r[1] \in Finds /\ r[2] \in Items /\ r = <<r[1], r[2]>>
         /\ \A f, i : r = <<f, i>> => f = r[1] /\ i = r[2]
BY DEF Reads

LEMMA BeganKeeps ==
  ASSUME ClockInv, now' \in Nat, now <= now',
         began' = [f \in Finds |-> IF Pending(f) THEN began[f] ELSE now']
  PROVE  /\ began' \in [Finds -> Nat] /\ \A f \in Finds : began'[f] <= now'
         /\ \A f \in Finds : Pending(f) => began'[f] = began[f]
<1> DEFINE b(f) == IF Pending(f) THEN began[f] ELSE now'
<1>1. \A f \in Finds : b(f) \in Nat /\ b(f) <= now' /\ (Pending(f) => b(f) = began[f])
  BY DiscoveryAssumption DEF ClockInv, DiscoveryAssumption
<1>2. \A f \in Finds : began'[f] = b(f)
  OBVIOUS
<1> HIDE DEF b
<1>3. began' = [f \in Finds |-> b(f)]
  BY DEF b
<1> QED
  BY <1>1, <1>2, <1>3

(* A task that was not over has moved.                                     *)
LEMMA ReadKeeps ==
  ASSUME IInv, Shared!IInv', NEW r \in Reads, NEW t, ~Over(r),
         task' = [task EXCEPT ![r] = t], due' = due \ {r}, UNCHANGED <<now, lists, find>>,
         began' = [f \in Finds |-> IF Pending(f) THEN began[f] ELSE now'],
         Pending(r[1]) => \/ t.pc = "fetching" /\ t.began >= began[r[1]]
                          \/ /\ t.pc = "returned" /\ t.at \in 0 .. now
                             /\ t.at + TtlSeconds + MaxTransit > began[r[1]]
                          \/ t.pc = "raised"
  PROVE  IInv'
<1>0. task \in [Reads -> Shared!Task] /\ now \in Nat
  BY DEF IInv, Shared!IInv, Shared!TypeOK
<1>1. /\ task'[r] = t
      /\ \A x \in Reads : x # r => task'[x] = task[x] /\ (x \in due' <=> x \in due)
  BY <1>0
<1>2. \A x \in Reads : Over(x) => x # r /\ task'[x] = task[x] /\ Over(x)'
  BY <1>1 DEF Over, Cache!Free
<1>3. ClockInv' /\ \A f \in Finds : Pending(f) => began'[f] = began[f]
  BY <1>0, BeganKeeps DEF IInv, ClockInv
<1>4. TypeOK'
  <2>1. due' \subseteq {x \in Reads : Cache!Free(x)'}
    BY <1>1 DEF IInv, TypeOK, Cache!Free
  <2>2. ASSUME NEW f \in Finds, find'[f].pc = "events", NEW o \in OrgsOf(find'[f].query)
        PROVE  Over(<<f, o>>)' /\ task'[<<f, o>>].pc = "returned"
    <3>1. <<f, o>> \in Reads
      BY DEF Reads, Items, OrgsOf
    <3>2. Over(<<f, o>>) /\ task[<<f, o>>].pc = "returned"
      BY <2>2 DEF IInv, TypeOK
    <3> QED
      BY <3>1, <3>2, <1>2
  <2> QED
    BY <2>1, <2>2 DEF IInv, TypeOK
<1>5. ASSUME NEW f \in Finds, Pending(f)'
      PROVE  Awaits(f)'
  <2>1. Pending(f) /\ Awaits(f) /\ began'[f] = began[f]
    BY <1>5, <1>3 DEF IInv, Pending
  <2>2. ASSUME NEW i \in Items \ find'[f].items
        PROVE  Over(<<f, i>>)'
    <3>1. Over(<<f, i>>) /\ <<f, i>> \in Reads
      BY <2>1 DEF Awaits, Reads
    <3> QED
      BY <3>1, <1>2
  <2>3. ASSUME NEW i \in Asked(f)', <<f, i>> \notin due'
        PROVE  Started(f, i)'
    <3>0. i \in Asked(f)
      BY DEF Asked, OrgsOf
    <3>1. CASE r = <<f, i>>
      BY <3>1, <2>1, <1>1, ReadIs DEF Started
    <3>2. CASE r # <<f, i>>
      <4>1. <<f, i>> \in Reads
        BY <3>0, <2>1 DEF IInv, TypeOK, Find, Asked, OrgsOf, Reads, Items, Pending
      <4>2. <<f, i>> \notin due /\ task'[<<f, i>>] = task[<<f, i>>]
        BY <4>1, <3>2, <2>3, <1>1
      <4>3. Started(f, i)
        BY <4>2, <3>0, <2>1 DEF Awaits
      <4> QED
        BY <4>2, <4>3, <2>1 DEF Started
    <3> QED
      BY <3>1, <3>2
  <2>4. find[f].pc = "events" => ListedFor(f)' = ListedFor(f)
    <3> SUFFICES ASSUME find[f].pc = "events"
                 PROVE  ListedFor(f)' = ListedFor(f)
      OBVIOUS
    <3>1. \A o \in OrgsOf(find[f].query) : task'[<<f, o>>] = task[<<f, o>>]
      BY <1>2 DEF IInv, TypeOK, OrgsOf, Reads, Items
    <3> QED
      BY <3>1 DEF ListedFor, OrgsOf
  <2> QED
    BY <2>1, <2>2, <2>3, <2>4 DEF Awaits, OrgsOf
<1> QED
  BY <1>3, <1>4, <1>5 DEF IInv

\* A read that is due starts, or one that is awaited goes on.
LEMMA StartKeeps ==
  ASSUME IInv, Shared!IInv', NEW r \in Reads, StartRead(r),
         began' = [f \in Finds |-> IF Pending(f) THEN began[f] ELSE now']
  PROVE  IInv'
<1>0. /\ now \in Nat /\ TtlSeconds \in Nat \ {0} /\ MaxTransit \in Nat
      /\ began[r[1]] \in Nat /\ began[r[1]] <= now
  BY ReadIs, DiscoveryAssumption DEF IInv, ClockInv, DiscoveryAssumption
<1>1. CASE Cache!Hit(r, r[2])
  <2> DEFINE i == r[2]
             t == [pc |-> "returned", key |-> i, at |-> cache[i].at]
  <2>1. /\ i \in DOMAIN cache /\ now < cache[i].expiry
        /\ task' = [task EXCEPT ![r] = t] /\ UNCHANGED now
    BY <1>1 DEF Cache!Hit, Cache!Valid, Cache!Return
  <2>2. /\ cache[i].at \in Nat /\ cache[i].expiry \in Nat /\ cache[i].at <= now
        /\ cache[i].expiry <= cache[i].at + MaxTransit + TtlSeconds
    BY <2>1 DEF IInv, Shared!IInv, Shared!TypeOK, Shared!EntryAge, Shared!Entry, Shared!Ttl
  <2>3. t.pc = "returned" /\ t.at \in 0 .. now /\ t.at + TtlSeconds + MaxTransit > began[r[1]]
    BY <1>0, <2>1, <2>2
  <2> HIDE DEF t
  <2> QED
    BY <2>1, <2>3, <1>0, ReadKeeps DEF StartRead, Over
<1>2. CASE Cache!Miss(r, r[2])
  <2> DEFINE t == [pc |-> "fetching", key |-> r[2], began |-> now]
  <2>1. t.pc = "fetching" /\ t.began >= began[r[1]]
    BY <1>0
  <2>2. task' = [task EXCEPT ![r] = t] /\ UNCHANGED now
    BY <1>2 DEF Cache!Miss
  <2> HIDE DEF t
  <2> QED
    BY <2>1, <2>2, ReadKeeps DEF StartRead, Over
<1> QED
  BY <1>1, <1>2 DEF StartRead

LEMMA AwaitKeeps ==
  ASSUME IInv, Shared!IInv', NEW r \in Reads, Read(r),
         began' = [f \in Finds |-> IF Pending(f) THEN began[f] ELSE now']
  PROVE  IInv'
<1>0. /\ now \in Nat /\ TtlSeconds \in Nat \ {0} /\ MaxTransit \in Nat
      /\ began[r[1]] \in Nat /\ began[r[1]] <= now
      /\ task[r].pc = "fetching" /\ task[r].began \in Nat
  BY ReadIs, DiscoveryAssumption
     DEF IInv, ClockInv, DiscoveryAssumption, Read, Cache!Await, Cache!Fill, Cache!Raise,
         Cache!Fetching, Shared!IInv, Shared!TypeOK, Shared!Task
<1>1. ~Over(r) /\ r \notin due
  BY <1>0 DEF Over, IInv, TypeOK, Cache!Free
<1>2. due' = due \ {r} /\ UNCHANGED <<now, lists, find>>
  BY <1>1 DEF Read, Cache!Await, Cache!Fill, Cache!Raise, Cache!Store
<1>3. CASE Cache!Fill(r, r[2])
  <2>1. PICK at \in task[r].began .. now : Cache!Store(r, r[2], at)
    BY <1>3 DEF Cache!Fill
  <2> DEFINE t == [pc |-> "returned", key |-> r[2], at |-> at]
  <2>2. task' = [task EXCEPT ![r] = t]
    BY <2>1 DEF Cache!Store, Cache!Return
  <2>3. t.pc = "returned" /\ t.at = at /\ at \in 0 .. now
    BY <1>0
  <2>4. Pending(r[1]) => task[r].began >= began[r[1]]
    <3> SUFFICES ASSUME Pending(r[1])
                 PROVE  task[r].began >= began[r[1]]
      OBVIOUS
    <3> DEFINE f == r[1]
               i == r[2]
    <3>0. f \in Finds /\ i \in Items /\ r = <<f, i>>
      BY ReadIs
    <3>1. Awaits(f)
      BY <3>0 DEF IInv
    <3>2. i \in find[f].items
      BY <3>0, <3>1, <1>1 DEF Awaits
    <3>3. Started(f, i)
      BY <3>0, <3>1, <3>2, <1>1 DEF Awaits, Asked
    <3> QED
      BY <3>0, <3>3, <1>0 DEF Started
  <2> HIDE DEF t
  <2>5. Pending(r[1]) => t.at + TtlSeconds + MaxTransit > began[r[1]]
    BY <2>3, <2>4, <1>0
  <2> QED
    BY <1>1, <1>2, <2>2, <2>3, <2>5, ReadKeeps
<1>4. CASE Cache!Raise(r, r[2])
  <2> DEFINE t == [pc |-> "raised", key |-> r[2]]
  <2>1. task' = [task EXCEPT ![r] = t] /\ t.pc = "raised"
    BY <1>4 DEF Cache!Raise
  <2> HIDE DEF t
  <2> QED
    BY <1>1, <1>2, <2>1, ReadKeeps
<1> QED
  BY <1>3, <1>4 DEF Read, Cache!Await

(* A call moves on its own, and may leave reads that are due.              *)
LEMMA FindKeeps ==
  ASSUME IInv, Shared!IInv', NEW f \in Finds, NEW v \in Find, UNCHANGED <<now, task, lists>>,
         find' = [find EXCEPT ![f] = v],
         due \subseteq due', \A x \in due' \ due : x[1] = f,
         due' \subseteq {x \in Reads : Cache!Free(x)},
         began' = [g \in Finds |-> IF Pending(g) THEN began[g] ELSE now'],
         v.pc = "events" => \A o \in OrgsOf(v.query) :
                              Over(<<f, o>>)' /\ task[<<f, o>>].pc = "returned",
         Pending(f)' => Awaits(f)'
  PROVE  IInv'
<1>0. /\ find \in [Finds -> Find] /\ find'[f] = v
      /\ \A g \in Finds \ {f} : find'[g] = find[g]
  BY DEF IInv, TypeOK
<1>1. ClockInv' /\ \A g \in Finds : Pending(g) => began'[g] = began[g]
  BY BeganKeeps DEF IInv, ClockInv
<1>2. \A g \in Finds \ {f} : \A i : Over(<<g, i>>) <=> Over(<<g, i>>)'
  BY DEF Over, Cache!Free
<1>3. TypeOK'
  <2>1. find' \in [Finds -> Find]
    BY <1>0
  <2>2. due' \subseteq {x \in Reads : Cache!Free(x)'}
    BY DEF Cache!Free
  <2>3. ASSUME NEW g \in Finds, find'[g].pc = "events", NEW o \in OrgsOf(find'[g].query)
        PROVE  Over(<<g, o>>)' /\ task'[<<g, o>>].pc = "returned"
    <3>1. CASE g = f
      BY <3>1, <2>3, <1>0
    <3>2. CASE g # f
      BY <3>2, <2>3, <1>0, <1>2 DEF IInv, TypeOK
    <3> QED
      BY <3>1, <3>2
  <2> QED
    BY <2>1, <2>2, <2>3 DEF TypeOK
<1>4. ASSUME NEW g \in Finds, Pending(g)'
      PROVE  Awaits(g)'
  <2>1. CASE g = f
    BY <2>1, <1>4
  <2>2. CASE g # f
    <3>1. Pending(g) /\ Awaits(g) /\ find'[g] = find[g] /\ began'[g] = began[g]
      BY <2>2, <1>4, <1>0, <1>1 DEF IInv, Pending
    <3>2. \A i : i \in Asked(g)' => i \in Asked(g)
      BY <3>1 DEF Asked, OrgsOf
    <3>5. ListedFor(g)' = ListedFor(g)
      <4>1. find'[g].query = find[g].query /\ lists' = lists /\ task' = task
        BY <3>1
      <4> QED
        BY <4>1, Zenon DEF ListedFor, OrgsOf
    <3>3. \A i : Started(g, i)' <=> Started(g, i)
      BY <3>1 DEF Started
    <3>4. \A i : <<g, i>> \in due' <=> <<g, i>> \in due
      BY <2>2
    <3> QED
      BY <3>1, <3>2, <3>3, <3>4, <3>5, <2>2, <1>2 DEF Awaits, OrgsOf
  <2> QED
    BY <2>1, <2>2
<1> QED
  BY <1>1, <1>3, <1>4 DEF IInv

LEMMA BeginKeeps ==
  ASSUME IInv, Shared!IInv', NEW f \in Finds, NEW query \in Queries, Begin(f, query),
         began' = [g \in Finds |-> IF Pending(g) THEN began[g] ELSE now']
  PROVE  IInv'
<1>0. /\ UNCHANGED <<now, task, lists>> /\ find \in [Finds -> Find]
      /\ \A i \in Items : Over(<<f, i>>)
      /\ due \subseteq {x \in Reads : Cache!Free(x)}
  BY DEF Begin, cachevars, IInv, TypeOK
<1>1. CASE find' = [find EXCEPT ![f] = [pc |-> "raised"]] /\ due' = due
  <2> DEFINE v == [pc |-> "raised"]
  <2>1. v \in Find /\ v.pc = "raised"
    BY DEF Find
  <2> HIDE DEF v
  <2>2. find' = [find EXCEPT ![f] = v] /\ due' = due
    BY <1>1 DEF v
  <2>3. ~ Pending(f)'
    BY <1>0, <2>1, <2>2 DEF Pending
  <2> QED
    BY <1>0, <2>1, <2>2, <2>3, FindKeeps
<1>2. CASE Answer(f, query, {}) /\ UNCHANGED due
  <2> DEFINE v == [pc |-> "answered", query |-> query, events |-> {}]
  <2>1. v \in Find /\ v.pc = "answered"
    BY DEF Find
  <2>2. find' = [find EXCEPT ![f] = v] /\ due' = due
    BY <1>2 DEF Answer, Set
  <2> HIDE DEF v
  <2>3. ~ Pending(f)'
    BY <1>0, <2>1, <2>2 DEF Pending
  <2> QED
    BY <1>0, <2>1, <2>2, <2>3, FindKeeps
<1>3. CASE Gather(f, "lists", query, OrgsOf(query))
  <2> DEFINE items == OrgsOf(query)
             v == [pc |-> "lists", query |-> query, items |-> items]
  <2>0. items \subseteq Items
    BY DEF OrgsOf, Items
  <2>1. v \in Find /\ v.pc = "lists" /\ v.items = items /\ v.query = query
    BY <2>0 DEF Find
  <2>2. find' = [find EXCEPT ![f] = v] /\ due' = due \union {f} \X items
    BY <1>3 DEF Gather, Set
  <2>3. items = OrgsOf(v.query)
    BY <2>1
  <2> HIDE DEF v, items
  <2>4. find'[f] = v
    BY <1>0, <2>2
  <2>5. /\ due \subseteq due' /\ \A x \in due' \ due : x[1] = f
        /\ \A i \in items : <<f, i>> \in due'
    BY <2>2
  <2>6. due' \subseteq {x \in Reads : Cache!Free(x)}
    <3> SUFFICES ASSUME NEW x \in due'
                 PROVE  x \in Reads /\ Cache!Free(x)
      OBVIOUS
    <3>1. CASE x \in due
      BY <3>1, <1>0
    <3>2. CASE x \notin due
      <4>1. PICK i \in items : x = <<f, i>>
        BY <3>2, <2>2
      <4> QED
        BY <4>1, <1>0, <2>0 DEF Over, Reads
    <3> QED
      BY <3>1, <3>2
  <2>7. Awaits(f)'
    <3>1. \A i \in Items \ items : Over(<<f, i>>)'
      BY <1>0, <2>2 DEF Over, Cache!Free
    <3>2. \A i \in Asked(f)' : <<f, i>> \in due'
      BY <2>1, <2>4, <2>5 DEF Asked
    <3>3. find'[f].items = OrgsOf(find'[f].query)
      BY <2>1, <2>3, <2>4
    <3> QED
      BY <2>1, <2>4, <3>1, <3>2, <3>3 DEF Awaits, OrgsOf
  <2> QED
    BY <1>0, <2>1, <2>2, <2>5, <2>6, <2>7, FindKeeps
<1> QED
  BY <1>1, <1>2, <1>3 DEF Begin, Raise, Set

(* When the gather of the lists is over and none has failed, every list    *)
(* was returned, and is young enough.                                      *)
LEMMA ListsAreRead ==
  ASSUME IInv, NEW f \in Finds, find[f].pc = "lists", Done(f), ~Failed(f),
         NEW o \in OrgsOf(find[f].query)
  PROVE  /\ Over(<<f, o>>) /\ o \in find[f].items
         /\ task[<<f, o>>].pc = "returned" /\ task[<<f, o>>].at \in 0 .. now
         /\ task[<<f, o>>].at + TtlSeconds + MaxTransit > began[f]
<1>1. Awaits(f) /\ find[f].items = OrgsOf(find[f].query)
  BY DEF IInv, Pending, Awaits
<1>2. Over(<<f, o>>) /\ task[<<f, o>>].pc # "raised"
  BY <1>1 DEF Done, Failed
<1>3. Started(f, o)
  BY <1>1, <1>2 DEF Awaits, Asked, Over
<1> QED
  BY <1>1, <1>2, <1>3 DEF Over, Cache!Free, Started

LEMMA ResumeKeeps ==
  ASSUME IInv, Shared!IInv', NEW f \in Finds, Resume(f),
         began' = [g \in Finds |-> IF Pending(g) THEN began[g] ELSE now']
  PROVE  IInv'
<1> DEFINE query == find[f].query
<1>0. /\ UNCHANGED <<now, task, lists>> /\ find \in [Finds -> Find]
      /\ due \subseteq {x \in Reads : Cache!Free(x)}
      /\ Pending(f) /\ Awaits(f) /\ query \in Queries /\ find[f].items \subseteq Items
      /\ began'[f] = began[f]
  BY DEF Resume, cachevars, IInv, TypeOK, Find, Pending
<1>1. CASE Raise(f)
  <2> DEFINE v == [pc |-> "raised"]
  <2>1. v \in Find /\ v.pc = "raised"
    BY DEF Find
  <2>2. find' = [find EXCEPT ![f] = v] /\ due' = due
    BY <1>1 DEF Raise, Set
  <2> HIDE DEF v
  <2>3. ~ Pending(f)'
    BY <1>0, <2>1, <2>2 DEF Pending
  <2> QED
    BY <1>0, <2>1, <2>2, <2>3, FindKeeps
<1>2. CASE Answer(f, query, Matching(query, find[f].items)) /\ UNCHANGED due /\ find[f].pc = "events"
  <2> DEFINE v == [pc |-> "answered", query |-> query, events |-> Matching(query, find[f].items)]
  <2>1. Matching(query, find[f].items) \subseteq Events
    BY <1>0, <1>2 DEF Awaits, Matching
  <2>2. v \in Find /\ v.pc = "answered"
    BY <1>0, <2>1 DEF Find
  <2>3. find' = [find EXCEPT ![f] = v] /\ due' = due
    BY <1>2 DEF Answer, Set
  <2> HIDE DEF v
  <2>4. ~ Pending(f)'
    BY <1>0, <2>2, <2>3 DEF Pending
  <2> QED
    BY <1>0, <2>2, <2>3, <2>4, FindKeeps
<1>3. CASE Done(f) /\ ~Failed(f) /\ find[f].pc = "lists" /\ Gather(f, "events", query, Listed(f))
  <2> DEFINE items == Listed(f)
             v == [pc |-> "events", query |-> query, items |-> items]
  <2>1. \A o \in OrgsOf(query) :
          /\ Over(<<f, o>>) /\ o \in find[f].items
          /\ task[<<f, o>>].pc = "returned" /\ task[<<f, o>>].at \in 0 .. now
          /\ task[<<f, o>>].at + TtlSeconds + MaxTransit > began[f]
    BY <1>3, ListsAreRead
  <2>2. items = ListedFor(f)
    <3>1. {i \in find[f].items : task[<<f, i>>].pc = "returned"} = OrgsOf(query)
      BY <2>1, <1>0, <1>3 DEF Awaits
    <3> QED
      BY <3>1 DEF Listed, ListedFor
  <2>3. items \subseteq Events
    <3> SUFFICES ASSUME NEW o \in OrgsOf(query)
                 PROVE  lists[task[<<f, o>>].at][o] \subseteq Events
      BY <2>2 DEF ListedFor
    <3>1. o \in Orgs /\ task[<<f, o>>].at \in 0 .. MaxTime
      BY <2>1, DiscoveryAssumption DEF OrgsOf, IInv, ClockInv, DiscoveryAssumption
    <3> QED
      BY <3>1 DEF IInv, ClockInv
  <2> HIDE DEF items
  <2>4. v \in Find /\ v.pc = "events" /\ v.items = items /\ v.query = query
    BY <1>0, <2>3 DEF Find, Items
  <2>5. find' = [find EXCEPT ![f] = v] /\ due' = due \union {f} \X items
    BY <1>3 DEF Gather, Set, items
  <2> HIDE DEF v
  <2>6. find'[f] = v
    BY <1>0, <2>5
  <2>7. /\ due \subseteq due' /\ \A x \in due' \ due : x[1] = f
        /\ \A i \in items : <<f, i>> \in due'
    BY <2>5
  <2>8. \A o \in OrgsOf(query) : o \notin items
    BY <2>3, DiscoveryAssumption DEF OrgsOf, DiscoveryAssumption
  <2>9. \A i \in Items : i \notin OrgsOf(query) => Over(<<f, i>>)
    BY <1>0, <1>3 DEF Awaits
  <2>10. \A i \in Items \ items : Over(<<f, i>>)'
    <3>1. \A i \in Items : Over(<<f, i>>)
      BY <2>1, <2>9
    <3> QED
      BY <3>1, <1>0, <2>5 DEF Over, Cache!Free
  <2>11. due' \subseteq {x \in Reads : Cache!Free(x)}
    <3> SUFFICES ASSUME NEW x \in due'
                 PROVE  x \in Reads /\ Cache!Free(x)
      OBVIOUS
    <3>1. CASE x \in due
      BY <3>1, <1>0
    <3>2. CASE x \notin due
      <4>1. PICK i \in items : x = <<f, i>>
        BY <3>2, <2>5
      <4>2. i \in Items /\ i \notin OrgsOf(query)
        BY <2>3, <2>8 DEF Items
      <4> QED
        BY <4>1, <4>2, <2>9 DEF Over, Reads
    <3> QED
      BY <3>1, <3>2
  <2>12. \A o \in OrgsOf(query) : Over(<<f, o>>)' /\ Started(f, o)'
    <3> SUFFICES ASSUME NEW o \in OrgsOf(query)
                 PROVE  Over(<<f, o>>)' /\ Started(f, o)'
      OBVIOUS
    <3>1. Over(<<f, o>>)'
      BY <2>1, <2>8, <2>10 DEF OrgsOf, Items
    <3> QED
      BY <3>1, <2>1, <1>0 DEF Started
  <2>13. items = ListedFor(f)'
    <3>1. find'[f].query = find[f].query /\ lists' = lists /\ task' = task
      BY <1>0, <2>4, <2>6
    <3>2. items = UNION {lists[task[<<f, o>>].at][o] : o \in OrgsOf(find[f].query)}
      BY <2>2 DEF ListedFor
    <3> QED
      BY <3>1, <3>2, Zenon DEF ListedFor, OrgsOf
  <2>14. Awaits(f)'
    <3>1. \A i \in Asked(f)' : <<f, i>> \notin due' => i \in OrgsOf(query)
      BY <2>4, <2>6, <2>7 DEF Asked, OrgsOf
    <3> QED
      BY <2>3, <2>4, <2>6, <2>10, <2>12, <2>13, <3>1 DEF Awaits
  <2>15. \A o \in OrgsOf(v.query) : Over(<<f, o>>)' /\ task[<<f, o>>].pc = "returned"
    BY <2>1, <2>4, <2>12
  <2> QED
    BY <1>0, <2>4, <2>5, <2>7, <2>11, <2>14, <2>15, FindKeeps
<1> QED
  BY <1>1, <1>2, <1>3 DEF Resume

LEMMA TickKeeps ==
  ASSUME IInv, Shared!IInv', Tick,
         began' = [g \in Finds |-> IF Pending(g) THEN began[g] ELSE now']
  PROVE  IInv'
<1>1. /\ now' = now + 1 /\ now \in Nat /\ now' \in 0 .. MaxTime
      /\ UNCHANGED <<task, lists, find, due>>
  BY DiscoveryAssumption DEF Tick, Cache!Tick, IInv, ClockInv, DiscoveryAssumption
<1>2. /\ began' \in [Finds -> Nat] /\ \A f \in Finds : began'[f] <= now'
      /\ \A f \in Finds : Pending(f) => began'[f] = began[f]
  BY <1>1, BeganKeeps DEF IInv
<1>3. ClockInv'
  BY <1>1, <1>2 DEF IInv, ClockInv
<1>4. TypeOK'
  BY <1>1 DEF IInv, TypeOK, Over, Cache!Free, OrgsOf
<1>5. ASSUME NEW f \in Finds, Pending(f)'
      PROVE  Awaits(f)'
  <2>1. Pending(f) /\ Awaits(f) /\ began'[f] = began[f]
    BY <1>1, <1>2, <1>5 DEF IInv, Pending
  <2>2. \A i : Started(f, i) => Started(f, i)'
    BY <1>1, <2>1 DEF Started
  <2>3. \A i : Over(<<f, i>>) => Over(<<f, i>>)'
    BY <1>1 DEF Over, Cache!Free
  <2> QED
    BY <1>1, <2>1, <2>2, <2>3 DEF Awaits, Asked, ListedFor, OrgsOf
<1> QED
  BY <1>3, <1>4, <1>5 DEF IInv

LEMMA InitIInv == MCInit => IInv
<1> SUFFICES ASSUME MCInit
             PROVE  IInv
  OBVIOUS
<1>1. Shared!IInv
  BY SameCache, SharedAssumption, Shared!InitIInv DEF MCInit, Init
<1>2. ClockInv
  BY DiscoveryAssumption DEF MCInit, Init, Cache!Init, ClockInv, DiscoveryAssumption
<1>3. \A f \in Finds : find[f] = [pc |-> "idle"]
  BY DEF MCInit, Init
<1>4. TypeOK
  BY <1>3 DEF MCInit, Init, TypeOK, Find
<1> QED
  BY <1>1, <1>2, <1>3, <1>4 DEF IInv, Pending

LEMMA NextIInv ==
  ASSUME IInv, [MCNext]_mcvars
  PROVE  IInv'
<1>1. CASE MCNext
  <2>0. began' = [g \in Finds |-> IF Pending(g) THEN began[g] ELSE now']
    BY <1>1 DEF MCNext
  <2>1. Shared!IInv'
    BY <1>1, SharedKeeps DEF MCNext, IInv
  <2>2. CASE Tick
    BY <2>0, <2>1, <2>2, TickKeeps
  <2>3. ASSUME NEW f \in Finds, Resume(f)
        PROVE  IInv'
    BY <2>0, <2>1, <2>3, ResumeKeeps
  <2>4. ASSUME NEW f \in Finds, NEW query \in Queries, Begin(f, query)
        PROVE  IInv'
    BY <2>0, <2>1, <2>4, BeginKeeps
  <2>5. ASSUME NEW r \in Reads, StartRead(r) \/ Read(r)
        PROVE  IInv'
    BY <2>0, <2>1, <2>5, StartKeeps, AwaitKeeps
  <2> QED
    BY <1>1, <2>2, <2>3, <2>4, <2>5 DEF MCNext, Next
<1>2. CASE UNCHANGED mcvars
  <2>1. UNCHANGED <<now, cache, task, lists, find, due, began>>
    BY <1>2 DEF mcvars, vars, cachevars
  <2>2. Shared!IInv'
    BY <2>1, SharedKeeps DEF vars, cachevars, IInv
  <2>3. ClockInv' /\ TypeOK'
    BY <2>1 DEF IInv, ClockInv, TypeOK, Over, Cache!Free, OrgsOf
  <2>4. \A f \in Finds : Pending(f)' => Awaits(f)'
    BY <2>1 DEF IInv, Pending, Awaits, Asked, ListedFor, Started, Over, Cache!Free, OrgsOf
  <2> QED
    BY <2>2, <2>3, <2>4 DEF IInv
<1> QED
  BY <1>1, <1>2

LEMMA Invariance == MCSpec => []IInv
<1>1. IInv /\ [MCNext]_mcvars => IInv'
  BY NextIInv
<1> QED
  BY <1>1, InitIInv, PTL DEF MCSpec

(* A read that gather has not started yet has no task that runs, and a     *)
(* call that waits for its events has read every list (discovery.py:90).   *)
THEOREM TypeCorrect == MCSpec => []TypeOK
<1>1. IInv => TypeOK
  BY DEF IInv
<1> QED
  BY <1>1, Invariance, PTL

-----------------------------------------------------------------------------
\* The filters of the code keep what the query wants.
LEMMA MatchingIsWanted ==
  ASSUME NEW query \in Queries, NEW e \in Events
  PROVE  EventMatches(ClassifyEventName(NameOf[e]), query) <=> e \in Wanted(query)
<1> DEFINE name == NameOf[e]
           gender == CASE "girls" \in name.words -> "girls"
                       [] name.words = {"boys"} -> "boys"
                       [] OTHER -> ""
<1>1. name.words \subseteq {"girls", "boys"}
  BY DiscoveryAssumption DEF DiscoveryAssumption, Name, Genders
<1>2. query.gender # ""
  BY DiscoveryAssumption DEF DiscoveryAssumption, Query, Genders, None
<1>3. query.gender = gender <=> query.gender \in Says(name.words)
  <2>1. CASE "girls" \in name.words
    BY <2>1 DEF Says
  <2>2. CASE "girls" \notin name.words /\ "boys" \in name.words
    <3>1. name.words = {"boys"}
      BY <1>1, <2>2
    <3> QED
      BY <3>1 DEF Says
  <2>3. CASE "girls" \notin name.words /\ "boys" \notin name.words
    <3>1. name.words = {}
      BY <1>1, <2>3
    <3> QED
      BY <3>1, <1>2 DEF Says
  <2> QED
    BY <2>1, <2>2, <2>3
<1>4. /\ ClassifyEventName(name).league = IF name.rl THEN "ECRL" ELSE "ECNL"
      /\ ClassifyEventName(name).gender = gender
      /\ ClassifyEventName(name).season = name.season
  BY DEF ClassifyEventName
<1> HIDE DEF gender
<1> QED
  BY <1>3, <1>4 DEF EventMatches, OrgMatches, Passes, Wanted, Fits

LEMMA WantedOrgsAreRead ==
  ASSUME NEW query
  PROVE  WantedOrgs(query) = OrgsOf(query)
BY DEF WantedOrgs, OrgsOf, OrgMatches, Passes, Fits

\* Only its own last step answers a call that is under way.
LEMMA AnswerStep ==
  ASSUME IInv, [MCNext]_mcvars, NEW f \in Finds, Pending(f), find'[f].pc = "answered"
  PROVE  /\ find[f].pc = "events"
         /\ find'[f].events = Matching(find[f].query, find[f].items)
<1>0. find \in [Finds -> Find] /\ find'[f] # find[f]
  BY DEF IInv, TypeOK, Pending
<1>1. \E g \in Finds : Resume(g) \/ \E query \in Queries : Begin(g, query)
  BY <1>0 DEF MCNext, Next, mcvars, vars, Tick, StartRead, Read
<1>2. ASSUME NEW g \in Finds, NEW query \in Queries, Begin(g, query)
      PROVE  FALSE
  <2>1. g # f
    BY <1>2 DEF Begin
  <2> QED
    BY <1>0, <1>2, <2>1 DEF Begin, Raise, Answer, Gather, Set
<1>3. PICK g \in Finds : Resume(g)
  BY <1>1, <1>2
<1>4. g = f
  BY <1>0, <1>3 DEF Resume, Raise, Answer, Gather, Set
<1> QED
  BY <1>0, <1>3, <1>4 DEF Resume, Raise, Answer, Gather, Set

LEMMA AnswerIsComplete ==
  ASSUME IInv, [MCNext]_mcvars, NEW f \in Finds, Pending(f), find'[f].pc = "answered"
  PROVE  LET query == find[f].query
         IN  \E read \in [WantedOrgs(query) ->
                            {t \in 0 .. now : t + TtlSeconds + MaxTransit > began[f]}] :
               find'[f].events = Wanted(query)
                                   \intersect UNION {lists[read[o]][o] : o \in WantedOrgs(query)}
<1> DEFINE query == find[f].query
           young == {t \in 0 .. now : t + TtlSeconds + MaxTransit > began[f]}
           read == [o \in WantedOrgs(query) |-> task[<<f, o>>].at]
<1>1. /\ find[f].pc = "events" /\ find'[f].events = Matching(query, find[f].items)
      /\ query \in Queries /\ Awaits(f) /\ find[f].items \subseteq Events
  BY AnswerStep DEF IInv, TypeOK, Find, Awaits
<1>2. ASSUME NEW o \in OrgsOf(query)
      PROVE  task[<<f, o>>].at \in young
  <2>1. Over(<<f, o>>) /\ task[<<f, o>>].pc = "returned"
    BY <1>1 DEF IInv, TypeOK
  <2>2. Started(f, o)
    BY <1>1, <2>1 DEF Awaits, Asked, Over
  <2> QED
    BY <2>1, <2>2 DEF Started
<1>3. read \in [WantedOrgs(query) -> young]
  BY <1>2, WantedOrgsAreRead
<1>4. find[f].items = UNION {lists[read[o]][o] : o \in WantedOrgs(query)}
  BY <1>1, WantedOrgsAreRead DEF Awaits, ListedFor
<1>5. Matching(query, find[f].items) = Wanted(query) \intersect find[f].items
  BY <1>1, MatchingIsWanted DEF Matching
<1> HIDE DEF read
<1> QED
  BY <1>1, <1>3, <1>4, <1>5

(* All or nothing: an answer of find_events is complete and fresh, for any *)
(* number of calls that share the cache, whatever reads fail and whatever  *)
(* orphans of failed gathers run on (discovery.py:88).                     *)
THEOREM CompleteAnswers == MCSpec => AnswersAreComplete
<1> DEFINE Answered == \A f \in Finds : Pending(f) /\ find'[f].pc = "answered" =>
       LET query == find[f].query
       IN  \E read \in [WantedOrgs(query) ->
                          {t \in 0 .. now : t + TtlSeconds + MaxTransit > began[f]}] :
             find'[f].events = Wanted(query)
                                 \intersect UNION {lists[read[o]][o] : o \in WantedOrgs(query)}
<1>1. IInv /\ [MCNext]_mcvars => Answered
  BY AnswerIsComplete
<1>2. MCSpec => [][Answered]_mcvars
  <2> HIDE DEF Answered
  <2>1. MCSpec => []IInv /\ [][MCNext]_mcvars
    BY Invariance, PTL DEF MCSpec
  <2> QED
    BY <1>1, <2>1, PTL
<1> QED
  BY <1>2, PTL DEF AnswersAreComplete
=============================================================================
