# A verification of jk-mcp-ecnl

TLA+ models of the ECNL MCP server in `src/src/ecnl`, model-checked with TLC, and
theorems about them that TLAPS has checked. Source paths below are relative to
`src/src/ecnl`.

The server is one Python process with one asyncio loop. Between two awaits a
coroutine runs alone; at every await others may run. A step of a model is what a
task does between two awaits, and most of the properties are about what tasks
find changed when an await comes back.

## The system

    MCP client --> transport --> JWKSTokenVerifier --> JWKSCache --> auth server
                       |
                   tool handler --> Authorizer -------------------> policy service
                       |
                   ECNLService (memo of RPI tables) --> _rpi.py
                       |            \
                       |             DiscoveryAdapter
                       v               |
                   CachingAdapter <----+
                       |
                   RetryingAdapter
                       |
                   AthleteOneAdapter --------------------------------> AthleteOne API

| component | state it keeps | operations | hard behaviour | what makes it correct | models |
|---|---|---|---|---|---|
| `adapters/outbound/athleteone_adapter.py` | none; one HTTP client | eleven `get_*`, each one or two requests | a gather of two requests that fails half-way; replies of every shape | every reply becomes data, `not_found` or `upstream` | `AthleteOneAdapter` |
| `adapters/outbound/retry_adapter.py` | none beyond a call | `_retry` | backoff, late replies of earlier attempts, cancellation | ends in time, with one attempt's result or the errors met | `RetryingAdapter`, `DataPath` |
| `adapters/outbound/caching_adapter.py` | dict of (expiry, result) | `_get_or_fetch` | misses of one key interleave; expired entry dropped before a fetch that may fail | no answer older than its TTL | `CachingAdapter`, `FreshData`, `DataPath` |
| `adapters/outbound/discovery.py`, `domain/classification.py` | none beyond a call | `find_events`, `classify_event_name` | gathers over a shared cache, filters, failures, orphans | all of the events that pass, or none | `Discovery`, `Classification` |
| `application/service.py` | OrderedDict of RPI tables | `get_rpi`, `get_team_rpi` through `_rpi_table`; `get_results` | two stores of one table; LRU with TTL; stacked lifetimes | bounded, most recently used kept, age bounded | `RpiService`, `RpiGraph`, `RpiTable` |
| `application/_rpi.py` | none; builds a graph | `build_graph`, `_opponent_wp_excluding`, `compute_rpi` | the game to exclude has to be in the record; ratings are rounded before they are ranked | records and games agree; the table and its ranks follow the formula | `RpiGraph`, `RpiTable` |
| `security/jwks.py` | keys, expiry, lock | `get`, `_refresh` | tasks queue for the lock while keys rotate, refreshes fail, requests are dropped, the wall clock is wrong or set | promoted keys found, retired keys dead, lock passed on | `JWKSCache` |
| `security/token_verifier.py` | none beyond a request | `verify_token`, `_to_access_token` | decoding happens after a wait, by a clock that is not the issuer's; claims share their encoding with scopes | only genuine tokens accepted, refusals have a reason | `TokenVerifier`, `Identity` |
| `adapters/inbound/authorization.py`, `tools/_base.py` | the chosen authorizer | `authorize`, `_safe_call_authorized`, `_read_actor` | the coroutine exists before it is authorized; policy call fails in many ways | nothing runs unauthorized; asked about the right call | `Dispatch`, `Identity` |
| `adapters/inbound/mcp_adapter.py`, `tools/*` | none; twelve handlers | registration | each handler writes down one name three times | the tool asked about is the one that runs | `ToolHandlers` |
| `server.py`, `observability/tracing.py` | wiring, span buffer | `main`, `setup_tracing` | order of the wiring; every step may fail; an exporter that shares stdout | serves what was asked, traced from the first request | `Server` |
| `adapters/outbound/athleteone_parsers.py` | none | field conversion | none that interleaves | | not modelled |
| `adapters/inbound/formatters.py`, `ports/*` | none | layout, types | | | not modelled |

Hazards, each at its line and with the properties that watch it, are listed in
`PROJECT.json`.

## The modules

**Dict** is what the caches use of Python's dict: a function whose domain is the
set of present keys.

**FreshData** is the abstract promise of a cached read: a call ends with an
error, or with data that the upstream produced less than `MaxAge` seconds ago.
A result is known only by the instant at which the upstream produced it. It is
implemented twice, by the cache and by the memo above it.

**CachingAdapter** has the clock `now`, the dict `cache`, and for each task where
it stands in `_get_or_fetch`. `Hit` is the early return at line 61, `Miss` the
lookup with its `del` at 62 up to the await, `Fill` what follows the await,
`Raise` an exception or a cancellation in it. `Fill` chooses when, during the
fetch and at most `MaxTransit` seconds ago, the upstream produced the result:
the age that counts is that of the data, not that of the entry. A key is of one
of the two TTLs.

**AthleteOneAdapter** is the table of what each method sends and what each reply
becomes; **RetryingAdapter** runs `_retry` over it. An attempt opens all of its
requests, and the first to fail ends it while the others stay in `open` as
orphans. Time is a countdown in each sleep and each request, so behaviours are
infinite and liveness means something. `maxAttempts` is what the constructor was
given, so one run covers the floor of one attempt as well as the retries.
`RequestSeconds` is an assumption on the HTTP client: httpx bounds each phase of
a request and not the whole, and the model takes some bound on the whole for
granted.

**DataPath** composes the three as they are wired when the server starts:
the cache over the retries over the requests. A coroutine awaits the one below
it directly, so a miss sends the first requests in its own step (`StartFetch`)
and the reply that ends a call stores its result in the same step
(`PathReply`). `gathered` records when the oldest request was sent whose reply is
part of a result. CachingAdapter assumes that a result is at most
`MaxTransit` old, that every await ends, and that a failure stores nothing;
`ImplementsCache` says that the retries and the requests fulfil this.

**RpiService** is `_rpi_table` over an instance of CachingAdapter. Because the
service awaits the cache directly, a memo miss that hits the cache is one step
(`MemoMissCacheHit`), and so are the store into the cache and that into the memo
(`Resume`). `memo` and `order` are the two halves of the OrderedDict. `Memoize`
is the store, `move_to_end` and the single `popitem` of lines 197-202. The other
reads of the schedule (`ReadSchedule`) share the cache and move it on.

**RpiGraph** reads a schedule one match at a time: `AddMatch` is a pass of the
loop of `build_graph`, `SkipMatch` a match that `get_results` filters out because
it has not been played, or only one of its scores is known. So an invariant
speaks of every schedule. A team may meet itself, as two empty names of the feed
do. **RpiTable** adds the values of `compute_rpi` as exact fractions, their
rounding, the ranks, and the lookup of `get_team_rpi`. A float differs from its
fraction by far less than the step of the report, so what may go either way is
a fraction that lies half-way between two reported values; the property
quantifies over which of these round up. The sort is stable, so ties are in the order in
which the teams entered the dict (`Place`).

**JWKSCache** has the keys by id, the lock as a holder and a queue, and where
each task stands in `get`. `now` is the true time and `clock` what `time.time()`
says, which may be ahead of the time or behind it; `SetClock` moves it to anywhere
within `MaxSkew` on either side. For the keys only the error between two readings of the
clock counts; for a token, whose times are of the auth server's clock, also on which
side it is. **TokenVerifier** is `verify_token` over an instance of it: a token is the
key id it names, the key that signed it, the instants between which it is valid
(from the later of `iat` and `nbf` to `exp`), and whether its claims have the types
that `_to_access_token` expects, which raises if they have not. The TTL and the leeway
are any integers, as the environment may give them.

**Identity** is the way of the caller's identity: `_to_access_token` encodes
claims as `key:value` scopes behind those that the token already has,
`_read_actor` decodes them, the authorizer takes the first identity that is not
empty. **ToolHandlers** lists the handlers that are registered, with the three
names each one writes down. **Dispatch** is a tool call over these two, from the creation
of its coroutine to its answer, under the three wirings that `build_authorizer` can
choose; the policy call may fail at any time, which covers every timeout.

**Classification** is `classify_event_name` and the filters compared with it; a
name is what the function looks for in it. **Discovery** is
`find_events` over an instance of CachingAdapter with one task for each gathered
read. **Server** is the process: environment, wiring, serving, stopping. Each step of
`main` may fail: before the `try` the process just ends, in it `finally` shuts
tracing down. The span processor is external: it drops spans when its queue is full,
and its exporter may fail.

A module named `MC...` gives constants their values and, where a property needs
one, adds a history variable beside the state (the errors an attempt met, the
tables ever used, what the auth server published when; that of MCTokenVerifier is
an instance of that of MCJWKSCache). The history variables
never constrain the model. `..._proofs` modules hold the theorems. Definitions
with the suffix `_M` are what a plausible bug would make of the definition that
follows; each property is violated under one of them.

## The runs

| run | what it shows |
|---|---|
| `cache` | DataPath with two tasks and one key of two requests: whatever replies, timeouts, retries, orphans and cancellations do, the retries do for the cache what CachingAdapter assumes (`ImplementsCache`); no data is older than its TTL plus transit (`KeepsPromise`, the refinement of FreshData); a fetch that fails leaves no expired entry behind (`NoExpiredEntryDuringFetch`); a stored result serves the whole TTL, whatever others do to its key (`EveryStoreIsKept`); every read ends (`EveryReadEnds`) |
| `retry` | `max_attempts` 0, 2 and 3, two-request and one-request methods, every order of replies, timeouts, orphans and cancellations: the call ends (`EveryCallEnds`) within the seconds of its attempts and sleeps (`EndsInTime`), a result is made of one attempt's replies (`ResultOfOneAttempt`), and what it raises is what its last attempt met and never the `None` that `last_error` starts as (`RaisesWhatItMet`) |
| `rpi_memo` | a memo of two tables used by two calls for three, each under a key that tells its flight and its tie weight (`TypeOK`): never over its cap (`MemoBounded`), always the tables used last (`KeepsMostRecentlyUsed`), and no table older than both lifetimes together (`KeepsPromise`) |
| `rpi_table` | every schedule of up to four matches over four teams: records and games agree (`RecordCountsGames`), the two sides of a game mirror each other (`GamesAreMirrored`), excluding a game never makes a count negative (`ExclusionNeverNegative`) and is exact for teams that met once (`ExclusionIsExact`); where no teams met twice, the table equals the formula written over the results (`TableIsTheFormula`), and ranks and lookup follow the formula up to one step of the report, however the floats round (`RanksFollowTheFormula`) |
| `jwks` | three tasks queueing for the lock, rotation at any instant, failing and cancelled refreshes, a wall clock that is set to either side of the time: an unknown kid means that the server did not publish it at some instant of the call (`UnknownMeansUnpublished`), a retired key is handed out only straight from a refresh, or within the TTL, the transit and twice the error of the clock (`RetiredKeysDie`), the lock has one holder and its queue lists the tasks that wait (`TypeOK`) and is passed on, so every `get` ends (`EveryGetEnds`) |
| `verify` | two requests with forged tokens, tokens valid at once, later or no longer, and odd claims, over a key that is published and retired, and the same wall clock: what is accepted is genuine at the instant it is accepted, however long it waited (`AcceptedTokensAreGenuine`); a genuine token is refused only if a clock that errs against it finds it immature or expired in spite of the leeway, or if its key was not published (`RefusedForAReason`) |
| `dispatch` | every tool, each of the three wirings, tokens with and without each claim and with scopes that look like claims: no service method runs that was not allowed (`NothingRunsUnauthorized`), and the policy is asked about the tool that would run and the subject of the token (`PolicyIsAskedAboutTheCall`) |
| `discovery` | two concurrent `find_events`, with and without filters, over a changing feed: each answer holds exactly the events that pass, complete and fresh, whatever reads fail and whatever orphans run on (`AnswersAreComplete`) |
| `server` | every environment: what serves has the verifier and authorizer that were asked for, or does not start (`ServesAsAsked`); all upstream requests of a traced process are traced (`RequestsAreTraced`); only an exporter without an endpoint, and the transport of stdio, write to stdout (`ProcessTypeOK`) |

### Where the code and its documentation disagree

Each of these runs checks one sentence of the documentation, and TLC finds it
violated.

| run | the documentation | the code |
|---|---|---|
| `rpi_meetings` | the opponent's percentage is taken with the game(s) against the rated team removed (`_rpi.py:8`) | one game is removed at a time: when teams met twice, each term keeps the other game |
| `verify_raises` | `verify_token` returns `None` on every failure (`token_verifier.py:61`) | only `KeyError` of `jwks.get` is caught, so a failing refresh raises through; so does a claim of an odd type, which is read behind the last `try` |
| `server_stdout` | never write to stdout in stdio mode (`server.py:9`) | tracing without an endpoint exports to the console, whatever the transport |

Four more are part of the models, as the code has them, without a run of their
own. The `response.json()` of `_get` (`athleteone_adapter.py:78`) is outside its
try block, so a body that is not JSON is a `ValueError` and not, as
`domain/exceptions.py:3` has it of all errors of the adapters, an `ECNLError`: the
outcome `undecodable` of AthleteOneAdapter, which RetryingAdapter does not retry.
The HTTP authorizer catches only `httpx.HTTPError` (`authorization.py:108`), so a
policy reply that is no JSON object raises although `fail_closed` promises a deny
(line 72): `AuthorizeRaises` of Dispatch, where the service method does not run
either, but its coroutine is left neither awaited nor closed, as it is when a call is
cancelled while the authorizer is asked. `timeout_seconds` is called a hard ceiling
(line 66) but is httpx's timeout, which holds for each phase of a request. And the
shutdown of tracing is to be wired "so spans aren't dropped on SIGTERM"
(`observability/tracing.py:77`), but it is wired into the `finally` of `main` only: no
module installs a handler for SIGTERM, whose default ends the process without it. That is
`Kill` of Server, which leaves `spans` as they are; whether a transport installs a
handler of its own is not this repository's to say.

## Bounds

A bound is a constant of its module or a value in a `.cfg`.

- *Tasks.* Two tasks (three for the lock, where one holds it and two queue) are
  enough for one to act inside the await of another, and for a third to pass
  both. The retry adapter shares nothing between calls, and tool calls share only
  the wiring, which never changes: one call is enough in `retry` and `dispatch`
  (and the theorems about them are for any number).
- *Keys.* `cache` has one key, of a method with two requests, because the dict
  treats keys alike and independently and one request is a case of two. The memo
  needs one table more than its cap so that something is evicted. `jwks` and
  `verify` have one key id, which the server publishes, retires and publishes
  again: a refresh replaces all keys, and of them a lookup asks for one. Tokens of
  `verify` may name, and be signed by, a key the server never had.
- *Attempts.* `Limits` is {0, 2, 3} in `retry`: the floor of one attempt, one
  sleep, and two sleeps of which the second is longer. `cache` takes the limit 2,
  so that a result may follow a failure with an orphan under way;
  `RequestSeconds` and `MaxTransit` are the same number there, as a result is as
  old as its oldest request.
- *Clock.* `MaxTime` reaches every TTL in use, so that entries are stored,
  expire, and are stored again; at `MaxTime` time stops and the other actions go
  on. In DataPath the countdowns go on too, so every call can still end.
  `MaxTransit` 1 lets answers be stored late; `discovery` sets 0, as the delay
  is covered by `cache`, and so does `jwks`, as it is by `verify`, which runs the same
  cache with a transit of 1. `MaxSkew` 1 with a TTL of 1 lets an error of the clock be as
  long as the TTL; time begins at `MaxSkew`, so a clock that is behind is never negative.
  With the leeway of 1, `MaxTime` 5 (4 in `jwks`) lies beyond everything that a key or a
  token may still be good for.
- *Tokens.* No kid; and for the key: a forged one, a genuine one that is valid at
  once, one that is valid only later, and one with odd claims. A token never changes,
  and the first expires while the runs last.
- *Results.* Four matches over four teams include repeated meetings, a team
  that meets itself and chains of three. The score lines are a decided match, a
  tie and one with a single score; an away win is a home win with the sides
  exchanged. With `One = 1728` all divisions that occur are exact. `Unit` makes the
  step of the report a sixth, coarse enough that ratings of so few teams tie, and
  lie half-way.
- *Queries.* Four: no filter; all three filters, with a gender that the name of
  the event does not say; a gender of which there is no organization; an invalid
  one. With one event and two organizations, the same event may be
  listed by none, one or both, and change between the reads.
- *Claims.* Up to two scopes, of which any may look like an encoded claim, two
  names, and each of subject and client present or not. `_read_actor` takes the last
  scope of a key, so what a third adds is a scope that does not count.

- *Symmetry* is used over tasks, key ids, teams and tie weights where no
  liveness property is checked in the same run and no definition tells the
  members apart. FreshData and the action properties are symmetric in them too.
- `CHECK_DEADLOCK FALSE` is set where the system stops by nature: a list of
  results is at its end, and a process has exited.

## Fairness

CachingAdapter, RetryingAdapter, DataPath and JWKSCache have liveness properties. Weak
fairness is assumed of an await that is to come back (the HTTP client has a
timeout, so a request ends with a reply or an exception), of a task that the
asyncio loop has to run because it is ready, and, in the retry adapter, of time.
DataPath assumes what RetryingAdapter does and nothing of the cache: that a fetch of the cache
always ends, which CachingAdapter assumes, is part of `ImplementsCache`.
Nothing is assumed of callers, of key rotation, of clocks that are set, of
cancellation, or of *which* way an await ends. `asyncio.Lock` hands the lock to its
waiters in order, so weak fairness of the task it was handed to is enough. The
other modules state safety only and have no fairness.

## Proofs

`ASSUME`s on constants are as weak as the code: the TTLs of the data are positive, that
of the keys and the leeway are any integers, caps and bounds are naturals, sets are
arbitrary.

**CachingAdapter_proofs** proves, for any tasks, keys, TTLs and bounds, the type
invariant, `NoExpiredEntryDuringFetch`, and that the cache implements
FreshData (`ImplementsPromise`). That an entry has not expired says nothing of
the age of its value; the inductive invariant adds that its expiry is at most
`MaxTransit` plus the TTL after the upstream made the value (`EntryAge`), which
in turn needs that a fetch began in the past (`BeganBefore`). Each action is
then mapped to an action of FreshData or a stutter.

**RetryingAdapter_proofs** proves, for any calls, limits and delays, that nothing
that is open when a call has returned belongs to the attempt that returned
(`OneAttempt`). The invariant relates every open request to the call that sent
it (`Knows`): it is of the current attempt or an earlier one, and of the current one
only while its part is missing; and an attempt sends each part once (`Same`). It
also proves that what a call raises is what its last attempt met, and that an
upstream error is raised only when no attempt is left (`RaisesWhatWasMet`): the
invariant follows the attempts a call has made and what it last met (`StoryInv`).
The time bound (`CallsEndInTime`) compares the age of a call with what its attempts
so far may have used (`Budget`) and what is left of its sleep or of its requests
(`Timely`), where orphans do not count. The budget doubles its sleeps, and that the
recursive function `PowerOfTwo` exists and doubles is itself proved: of a set of
natural numbers some member is the smallest (`Least`), so what holds of zero and
carries over to the next holds of all (`Induct`).

**DataPath_proofs** proves that the cache over the retries does what the cache alone
may do: each step of the path is a step of CachingAdapter or a stutter
(`CacheIsImplemented`, the safety part of the refinement `ImplementsCache`). The
hard step is a result: the cache assumes that its data is no older than
`MaxTransit`, and the path has only the timeouts of single requests. The invariant `PathInv`
adds to those of the two adapters that a task of the cache fetches exactly while
its call is pending (`Linked`), and that the requests of an attempt run out
together and what it has gathered was sent when they were, or later (`Prompt`).
The promise of FreshData and `NoExpiredEntryDuringFetch` follow for the
path, and that a stored result serves its whole TTL (`StoresAreKept`).

**Discovery_proofs** proves that an answer of `find_events` is complete and fresh for
any searches, organizations, names, feeds and TTL (`CompleteAnswers`). What the
cache gives is `Young` data, by instance of CachingAdapter_proofs; the invariant says
of each read of a pending gather that it is due, under way, or was read after the search
began from a list that is that fresh (`Awaits`), so that the lists at the end of
the second gather account for every event that passes the filters.

**Rpi_proofs** has three parts.

*The graph*, for any teams, scores and number of matches: the type
invariant, that a record counts exactly the listed games
(`RecordsAndGamesAgree`), and that the game taken out of an opponent's record was
counted in it (`ExclusionIsCovered`). The last is not inductive; the
strengthening says that for every game listed with an outcome, the opponent
exists and has at least one game of the mirrored outcome, and that records only
grow. Two more invariants tell what a match adds. `MirroredGames` (the games of two
teams are the same from both sides) follows from the number of times a game is
listed, to which an append adds one or none (`TallyAppend`, `MeetingsAfter`). That
the exclusion is exact for teams that met once (`ExclusionIsExactOnce`) needs two
facts that relate the graph to the schedule: a record counts the matches that show
its outcome (`ShownInRecord`), and each listed game is one of them
(`ShownInSchedule`); without the only match of two teams, the count of one outcome
is one less (`OneMatchOut`).

*The table*: where no teams meet twice, it is the published formula
(`TableFollowsFormula`) for any tie weights. The code takes means over lists of
games and the formula over sets of opponents, so the proof needs that a mean does
not depend on how its values are indexed (`MeanSame`). A sum of natural numbers is the
number of points under their graph (`SumIsArea`), and a bijection of the indices
is one of the points. That the games of a team are its opponents, one for one
(`GamesAreOpponents`), is the invariant `Paired`: each match of two teams is a game in
both lists, and two games against one opponent are two matches. The ranks follow
the formula however half-way ratings round (`RanksFollow`): teams come into the
dict at different places (`PlacesDiffer`), so no two rows tie, a row has more rows
before it than each of those has (`RankOrder`), and rounding keeps the order of
ratings that are more than one step of the report apart (`RoundedFollows`).

*The memo*: it stays within its cap for any number of
calls that store into it at once, and any cap, zero included
(`MemoStaysBounded`); the type invariant, which keeps the two halves of the modelled
`OrderedDict` in step, is proved with it. The bound is inductive only if a hit and a store of a table
that is present move an entry and add none, so the invariant adds that each
table of the memo is in the order; lemmas say what `move_to_end`, a removal
followed by an append, does to the places of a sequence (`RemoveAtPlaces`). The memo over the
cache implements FreshData in its turn (`ImplementsPromise`): each step of the
service is a step of the cache, so the invariant of CachingAdapter_proofs holds
here by instance, a schedule that is hit or fetched is younger than
one lifetime and the transit (`Young`), and the expiry of a table adds its own
(`TableAge`). And it holds the tables used last, in the order of their last use
(`MostRecentlyUsedAreKept`): the order is the end of the list of all the tables
ever used (`UsesInv`), moving a table to the end of both keeps it so
(`MovedEnds`), and so does dropping the first once the cap is exceeded.

**JWKSCache_proofs** proves, for any tasks, key ids, TTL and error of the clock on
either side, that at most one task refreshes at a time (`OneRefresh`), that a retired key is
not handed out beyond the bound (`RetiredKeysAreDead`), and that an unknown kid
was not published at some instant of the call (`UnknownWasUnpublished`). The
expiry is set when an answer arrives and the keys are as old as the answer's
departure, so the invariant bounds each key's age by the expiry (`KeyAge`), and an
answer's by the transit (`Sending`). The type invariant says that the lock has one
holder and that its queue lists exactly the tasks that wait, once each
(`Queue`); a cancellation takes one out of the middle (`RemoveFirstIsWithout`). A
key that is kept was stored by a clock that was `MaxSkew` ahead at most and is read by
one that is `MaxSkew` behind at most, hence twice the error in the bound (`Alive`).
**TokenVerifier_proofs** takes that invariant by instance and adds that a request
is pending exactly while its task is in `get` for its own kid (`Linked`), so that a
verdict is reached in the step in which that task comes back (`Verdict`), by the clock of
that step (`Conclusion`). `AcceptedAreGenuine` and `RefusalsHaveAReason` are about those
steps; the type invariant follows from `Linked`.

**Inbound_proofs** proves, for any calls, claims and wirings, that nothing runs
unauthorized, and that the policy is asked about the tool that runs and the subject of the token (`AskedAboutTheCall`). The
last has two halves: each handler writes one name three times, and, whatever
scopes a token brings, the encoded subject is the last scope and the last of a
key counts. Of the process it proves the type invariant and the two properties
for any environment and queue of spans; the invariant says, for each step of
`main`, what the steps before it have decided.

Model-checked only: the liveness properties `EveryReadEnds`, `EveryCallEnds` and
`EveryGetEnds`, and of `ImplementsCache` the part that is fairness (that every fetch
of the cache ends), as the prover does not reason about `ENABLED`. Every other property
of a run that passes is a theorem.

## Not modelled

- *The field by field conversion of the parsers, formatting, logging, the
  annotations of the tools*: they keep no state. What the parsers raise on unexpected
  data is the `undecodable` reply of AthleteOneAdapter.
- *Service methods that forward one call to a port*: they are the coroutine that
  Dispatch runs, and the read that the cache serves.
- *The growth of the cache's dict*: nothing evicts an entry whose key is not
  asked for again, and nothing in the code promises a bound.
- *The length of a policy call*: its timeout holds for each phase, and the code
  promises no bound on the whole that a property could state.
- *Claims that are only checked*: issuer, audience and the like are PyJWT's, in one
  call with the signature, and compared with constants.
- *What becomes of the other keys of a response* of which PyJWK does not accept one:
  the refresh raises and stores nothing (`RefreshFails`); the code and its documentation
  promise nothing that a property could state.
- *Coroutines that are left open* when an authorizer raises, or a call is cancelled while
  it is asked: both steps are in Dispatch, but that every coroutine is closed does not
  hold of the code, and no sentence promises it.
- *The delivery of spans*: a full queue drops spans, an exporter may fail, and the code
  promises no more than the shutdown at a normal exit, which is one call.
- *httpx, asyncio, the MCP SDK, OpenTelemetry* are modelled from how the code uses
  them and marked external; of tracing, the sampler and the resource attributes are left
  out. *The outbound ports* are types without behaviour.

## Plan

Done: the modules above, first each component (cache, retry, memo, RPI graph and
table, keys, tokens, dispatch, discovery, server), then their composition
(DataPath), identity and tools, filters and ranks, the wall clock, and the
proofs, of every property that is not one of liveness.

Left:

1. The service methods and the parsers as far as they decide something: the
   status of a match, which of several names a field takes.
2. Verification and dispatch in one module, so that one request runs from its
   token to its answer. They share only the token, whose identity Dispatch
   already takes from the verified claims.
