------------------------------ MODULE Discovery ------------------------------
(***************************************************************************)
(* DiscoveryAdapter of adapters/outbound/discovery.py over the cache it    *)
(* shares with the data tools: find_events gathers the event lists of the  *)
(* organizations that pass the filters, then the events that are listed.   *)
(* asyncio.gather runs each read as a task of its own; it ends with the    *)
(* first of them to fail, and the others go on as orphans.                 *)
(*                                                                         *)
(* The order of the answer is left out.                                    *)
(***************************************************************************)
EXTENDS Naturals, Dict, Classification

CONSTANTS Finds,        \* calls of find_events, one name per call under way
          Orgs,         \* organization ids
          OrgKey,       \* _org_ids, from the id to its (league, gender)
          Events,       \* event ids
          NameOf,       \* [Events -> their names]
          Queries,      \* the filters that may be asked for
          TtlSeconds,   \* _ttl of the cache
          MaxTransit,   \* bound: seconds an answer travels before it is stored
          MaxTime       \* bound: the clock stops here

ASSUME DiscoveryAssumption ==
  /\ Orgs \intersect Events = {}
  /\ OrgKey \in [Orgs -> [league : Leagues, gender : Genders]]
  /\ NameOf \in [Events -> Name]
  /\ Queries \subseteq Query
  /\ TtlSeconds \in Nat \ {0}
  /\ MaxTransit \in Nat
  /\ MaxTime \in Nat

VARIABLES now, cache, task,   \* the clock and the cache, see CachingAdapter
          lists,   \* the feed: [instant -> [organization -> the events it lists]]
          find,    \* the progress of each find_events
          due      \* reads that gather created and the loop has not started yet

cachevars == <<now, cache, task>>
vars == <<cachevars, lists, find, due>>

Items == Orgs \union Events

Reads == Finds \X Items

Cache == INSTANCE CachingAdapter WITH Calls <- Reads, Keys <- Items, LiveKeys <- {},
                                      LiveTtlSeconds <- TtlSeconds

Find == [pc : {"idle", "raised"}]
          \union [pc : {"lists", "events"}, query : Queries, items : SUBSET Items]
          \union [pc : {"answered"}, query : Queries, events : SUBSET Events]

Init == /\ Cache!Init
        /\ lists \in [0 .. MaxTime -> [Orgs -> SUBSET Events]]
        /\ find = [f \in Finds |-> [pc |-> "idle"]]
        /\ due = {}

-----------------------------------------------------------------------------
Pending(f) == find[f].pc \in {"lists", "events"}

Set(f, v) == find' = [find EXCEPT ![f] = v]

Over(r) == r \notin due /\ Cache!Free(r)

Answer(f, query, events) == Set(f, [pc |-> "answered", query |-> query, events |-> events])

\* `await asyncio.gather(...)' over the items; without any it returns at once.
Gather(f, pc, query, items) ==
  /\ Set(f, [pc |-> pc, query |-> query, items |-> items])
  /\ due' = due \union {f} \X items

Raise(f) == Set(f, [pc |-> "raised"]) /\ UNCHANGED due

OrgsOf(query) == {o \in Orgs : OrgMatches(OrgKey[o], query)}

\* The name f stands for a new call once the orphans of its last one are over.
Begin(f, query) ==
  /\ ~Pending(f) /\ \A i \in Items : Over(<<f, i>>)
  /\ \/ ~Validates(query) /\ Raise(f)
     \/ /\ Validates(query)
        /\ \/ OrgsOf(query) = {} /\ Answer(f, query, {}) /\ UNCHANGED due
           \/ OrgsOf(query) # {} /\ Gather(f, "lists", query, OrgsOf(query))
  /\ UNCHANGED <<cachevars, lists>>

\* A read runs up to its first await: a hit, or the fetch after a miss.
StartRead(r) == /\ r \in due
                /\ due' = due \ {r}
                /\ Cache!Hit(r, r[2]) \/ Cache!Miss(r, r[2])
                /\ UNCHANGED <<lists, find>>

\* A fetch that is awaited goes on, to a result or to an exception.
Read(r) == Cache!Await(r, r[2]) /\ UNCHANGED <<lists, find, due>>

\* Mutants (suffix _M): a definition as a plausible bug of this code would have it.
\* The gather of f is over: every read is, or one has failed.
Done_M(f) == \E i \in find[f].items : Over(<<f, i>>)
Done(f) == \A i \in find[f].items : Over(<<f, i>>)

Failed(f) == \E i \in find[f].items : Over(<<f, i>>) /\ task[<<f, i>>].pc = "raised"

\* The distinct events of the lists that the reads of f returned.
Listed_M(f) == LET o == CHOOSE i \in find[f].items : TRUE IN lists[task[<<f, o>>].at][o]
Listed(f) == UNION {lists[task[<<f, o>>].at][o] :
                      o \in {i \in find[f].items : task[<<f, i>>].pc = "returned"}}

\* The events that pass the filters by what their own names say.
Matching(query, events) ==
  {e \in events : EventMatches(ClassifyEventName(NameOf[e]), query)}

Resume(f) ==
  /\ Pending(f)
  /\ LET query == find[f].query
     IN  \/ /\ Failed(f)
            /\ Raise(f)
         \/ /\ Done(f) /\ ~Failed(f) /\ find[f].pc = "lists"
            /\ Gather(f, "events", query, Listed(f))
         \/ /\ Done(f) /\ ~Failed(f) /\ find[f].pc = "events"
            /\ Answer(f, query, Matching(query, find[f].items))
            /\ UNCHANGED due
  /\ UNCHANGED <<cachevars, lists>>

Tick == Cache!Tick /\ UNCHANGED <<lists, find, due>>

Next == \/ Tick
        \/ \E f \in Finds : Resume(f) \/ \E query \in Queries : Begin(f, query)
        \/ \E r \in Reads : StartRead(r) \/ Read(r)

Spec == Init /\ [][Next]_vars

-----------------------------------------------------------------------------
(* Every variable keeps its type; a read that is due belongs to no running *)
(* task, and a call that waits for events has read every list.             *)
TypeOK == /\ find \in [Finds -> Find]
          /\ due \subseteq {r \in Reads : Cache!Free(r)}
          /\ \A f \in Finds : find[f].pc = "events" =>
               \A o \in OrgsOf(find[f].query) : Over(<<f, o>>) /\ task[<<f, o>>].pc = "returned"
=============================================================================
