# A verification project for aadp

aadp is a TypeScript toolkit for the AI Agent Discovery Protocol: a client that
discovers a publisher's documents, module clients (Relations, Answer, Evidence)
that resolve references between them, a cross-module graph traversal, a server
runtime that publishes documents, two registries, validators and a conformance
suite. All of it runs on one event loop; what makes it hard is that many
asynchronous calls share one caller-owned budget, one cache and one set of
fetches in flight, and each of them may be cancelled, time out, be retried or
fail at every `await`.

The TLA+ modules here translate the source under `src/src/`. Throughout, a
**step is a synchronous stretch between two awaits**: nothing can come between
two statements of it, and anything may come between two of them.

## 1. Inventory

| Part (source) | State | Operations | What is hard |
|---|---|---|---|
| Canonical resolution layer (`modules/shared/canonical-resolution.ts`, `resolution-context.ts`) | per budget: `outcomes`, `rootOutcomes`, `pending`, `globalStops`, the context digest; per fetch: promise, controller, `waiters` | `budgetResolutionStateFor`, `resolveCanonicalTarget`, `recordRootOutcome`, `replaySettledOutcomeForUrl` | fetches shared by calls with signals of their own; abandoned fetches that settle late; root walks that write the same cache by another path |
| Node budget (`modules/relations/v1.0/client/budget.ts`) | `visitedTargets`, `nodesVisited`, `expandedTargets`, `crossOriginRequestsMade` | `chargeNode`, `releaseNode`, `markExpanded`, `chargeDepth`, `crossOriginAttemptHook` | charged before the limit is checked; releases; several owners of one charge |
| Run budget (`client/discovery-budget.ts`) | pages, entities, requests, bytes, start time | `chargeDiscoveryBudget*` | one counter charged by interleaved calls |
| HTTP policy (`client/http.ts`) | per call: attempt, hop, headers, timers | `requestWithPolicy`, `readBodyCapped`, `fetchJson`, `probeUrl` | retries, redirects, abort, timeout and deadline racing each other |
| Ordered concurrent map (`client/scheduler.ts`) | window, results, `yieldIndex`, `sawError` | `mapConcurrent` | results out of order, failures in the window, a slow consumer |
| Streaming boundary (`traversal/v1.0/scheduler.ts`) | buffer, two wake-up slots, flags, terminal summary | producer, `next`, `return`, `abort` | lost wake-ups, backpressure, two ends racing |
| Graph walk (`traversal/v1.0/state-machine.ts`, `traversal.ts`, `edge-planner.ts`, adapters) | queue, expanded keys, resolutions, in flight, progress | `walkTraversal`, `settleEdge`, `prefetchBatch`, `pageCollections` | deterministic order over concurrent fetches; cycles, fan-in, budget stops |
| Discovery walk (`client/v1.0/index.ts`, `client/v0.1/index.ts`) | cursors seen, shared budget | `iterateSitemap`, `discoverAllEntities` | page requests between entity fetches; cursor loops |
| Relations client (`resolve.ts`, `graph.ts`, `fetch.ts`) | expanded and visited targets on the budget | `resolveRelationTarget`, `resolveRelationItem`, `iterateRelationCollection`, `traverseRelations` | partial results, duplicates, cycles |
| Answer and Evidence resolvers | none of their own | `resolveAnswerTargets`, `resolveAnswerEvidenceV1`, `resolveClaimEvidenceV1` | a verdict per reference over shared outcomes; partial results |
| Module registry, adapter registry (`module-registry/`, `traversal/v1.0/registry.ts`) | entries, canonical dependency schemas, the shared Ajv instance; the adapter table | `registerModule`, lookups, imports; `registerTraversalAdapter`, `createAdapterLookup` | all-or-nothing registration over a validator that keeps what it compiled |
| Server runtime (`server/`) | configuration only; the application's store behind it | `manifest`, `sitemapIndex`, `sitemap`, `entity`, `handleRequest` | templates that collide, cursors bound to a type, conditional requests, shared caches |
| Conformance suites (`conformance/`, `modules/*/v1.0/conformance/`, `traversal/v1.0/conformance/`) | results so far, documents kept for later checks, one run budget | five runners, their checks, status and exit code | a stop or an abort in the middle of a check; checks that depend on each other |
| URL policy, validators, canonical JSON, command line tools, scaffolding | none that interacts | pure functions and generators | - |

How they interact: a graph walk (and each module client) asks the canonical
layer for targets; the layer starts a fetch through `resolveRelationTarget`,
which charges the node budget and calls the HTTP policy, whose every hop charges
the run budget. The walk's events go through the streaming boundary to the
consumer. The discovery walk feeds sitemap items to the concurrent map, whose
mapper calls the HTTP policy on the same run budget. The server answers what the
discovery walk asks; a conformance run drives the clients against it.

What makes each part correct: a target is fetched once and every caller hears
the same of it; an abort stays private; limits hold whatever interleaves; order
never depends on timing; a stream ends exactly once and says truthfully how; a
walk that calls itself complete is; every reference gets one verdict; a reader is
never served somebody else's copy; a registration happens or does not; a run that
reports success did everything; a failure is contained where it happened; nobody
waits for ever.

## 2. Modules

| Module | Models | Kind |
|---|---|---|
| `CanonicalResolution` | the canonical layer with `chargeNode`/`releaseNode` and the root branch of `traverseGraphV1` | system |
| `ResolveOnce` | what that layer promises, without fetches or waiters | abstract |
| `CanonicalResolution_proofs` | theorems of `CanonicalResolution` | proofs |
| `MapConcurrent` | both paths of `mapConcurrent` | system |
| `OrderedMap` | what a concurrent map promises its consumer | abstract |
| `StreamTraversal` | `streamTraversal` | system |
| `StreamTraversal_proofs` | theorems of `StreamTraversal` and of `Registries` | proofs |
| `HttpRequest` | `requestWithPolicy`, the run budget, the cross-origin hook | system |
| `HttpRequest_proofs` | theorems of `HttpRequest`, and of `MapConcurrent` with its refinement of `OrderedMap` | proofs |
| `TraversalPlan` | the three built-in adapters and the edge planner | pure operators |
| `TraversalWalk` | `walkTraversal` with its prefetch pool, over `TraversalPlan` | system |
| `SequentialWalk` | what a walk tells its consumer, with no pool and no budget | abstract |
| `TraversalWalk_proofs` | theorems of `TraversalWalk` | proofs |
| `DiscoverAll` | `discoverAllEntities` of both clients, the ordered map in line | system |
| `DiscoverAll_proofs` | theorems of `DiscoverAll` | proofs |
| `ClientBudget` | the budget shared by all module clients | shared state |
| `RelationsWalk` | `traverseRelations` with items and collections, over `ClientBudget` | component |
| `ReferenceResolution` | the Answer and Evidence resolvers, over `ClientBudget` | component |
| `ModuleClients` | `RelationsWalk` and `ReferenceResolution` on one budget | composition |
| `ModuleClients_proofs` | theorems of `ModuleClients` | proofs |
| `AadpRoutes` | route templates: compilation, collision check, matching, printing | pure operators |
| `PublishedServer` | the server runtime, an application, readers and a shared cache, over `AadpRoutes` | system |
| `PublishedServer_proofs` | theorems of `PublishedServer` | proofs |
| `Registries` | both registries, imports and walk lookups | system |
| `ConformanceSteps`, `CoreChecks`, `ModuleChecks`, `GraphChecks` | the checks of the suites as sequences of steps | data |
| `RunOptions` | which options each runner accepts | pure operators |
| `ConformanceRun` | the runner, over those | system |
| `ConformanceSchedule` | what the order and the prerequisites of the checks guarantee | discipline, an assumption TLC evaluates |
| `ConformanceRun_proofs` | theorems of `ConformanceRun` | proofs |
| `MC...` | the instances TLC checks | instances |

A composition shares variables: `ModuleClients` has one `ClientBudget` and lets
its two components step alternately, `TraversalWalk` and `SequentialWalk` both
use `TraversalPlan`, `ConformanceRun` reads the checks as constants. Between
systems that meet only at an interface, each is seen by the other as what it may
answer: the walk of `StreamTraversal` chooses its events freely, the resolver of
`TraversalWalk` settles when it likes with the answer its world gives, the layer
of `ReferenceResolution` is one entry per key.

### CanonicalResolution

A *caller* is one call of `resolveCanonicalTarget`, a *root* one walk from a bare
URL. A fetch is named by the caller that started it. `visited` and
`nodesVisited` are the budget's; `bound` is `contextDigest`; `outcomes`,
`rootOutcomes`, `pending` and `globalStops` are the maps of the same names;
`waiters` is the field of `PendingFetch`; `cancelled` are the fetches whose
controller was aborted; `phase`, `key`, `entry` and `answer` are a caller's
program counter and locals. Actions and code:

- `Enter`/`RejectContext`: `budgetResolutionStateFor`;
- `ReplayStop`, `ReplayOutcome`, `StopBeforeStart`, `Join`, `Start`: the
  synchronous decision of `resolveCanonicalTarget`, `Start` with the charge that
  runs before the fetch's first await;
- `Settle`: the fetch's end and the `then()` attached at its creation, with the
  `pending.get(key) === created` guard;
- `Deliver`, `SignalAbort`: the two ways `raceSignal` ends;
- `Leave`: the `finally` block, with abandonment, `releaseNode` and the abort;
- `RootEnter` ... `RootStopped`: replay, fetch, charge and `recordRootOutcome`
  of a root walk, in their order;
- `RawCharge`: a Relations step that charges the budget without this layer.

An outcome is its kind and the fetch it came from, so that *the same result* and
*a result of the same kind* are different things. `ServedKey` says which
document a URL really serves; a reference may lie about it. The observer hook
has no effect on the state and is left out.

### MapConcurrent

`pc` is the place of the generator between two awaits. `results` and the
promises are one field per index, `task`. The source ends or fails whenever it
likes; a mapper call settles whenever it likes, also after the generator ended.
With `concurrency` 1 the `Serial...` actions run instead. `MaxItems` bounds the
source. Its specification is called `MapSpec`, because its theorems stand beside
those of `HttpRequest`.

### StreamTraversal

An event is its number. `notifyConsumer` holds the reader whose promise the slot
resolves; `notifyProducer` is whether the producer's is set. `WalkYields`,
`WalkStops` and `ProducerWakes` are the stretches of `produce()`; `CallsNext`
and `ReaderWakes` one turn of the loop in `next()`; `Abort`, `Return` and
`Returned` the signal and `return()`. The walk may be cut by the signal or by
`onCancel`, and may fail. To the code the first is the second: what cuts the walk is
an `AbortedError`, whose `name` is `"AadpClientError"` (`http.ts:143,154`), and
`isAbortError` goes by the name. `thrown` counts the calls that got the error.

### HttpRequest

`at` is where a call waits; a hop's synchronous head is `Refused` (signal,
deadline, policy, in this order), `Vetoed` (the caller's hook throws) or
`Charged` (cross-origin charge, request count, `fetch`). `Fails` is the catch
clause with `isRetryableError` and the deadline check of a retry. A body that is too
large, or whose chunk the budget refuses, is cancelled first; between `Chunk` and
`Discards` the signal may fire, and then it is what the caller is told. `cause`
remembers why a call was last retried; `sent`, `crossSent` and `bytesRead` count
what really crossed the network. Time is a counter up to `Deadline`. A server, a
resolver and a hook choose freely; the URL policy is the free choice `blocked`.

### TraversalPlan, TraversalWalk and SequentialWalk

A graph (`world`) gives each key its entity, the verdict of its resolution, and
whether an outcome is cached. `PlanNode` is `planNodeExpansions`: every adapter the lookup
knows plans its edges and collections, and the edges are put into schedule order
whatever the order of adapters was. The stable sort of the code is `Arranged`:
what stands at a set of places, in a given order of the places; `BeforeCollections`
and `AfterCollections` arrange the edges of a node by `compareSchedule`, `Keep` is a
filter (the places in their own order), and `ItemsFrom` lists the items of the
collections page by page. In the walk, `at` is the place of the
generator; `segment` says whether a node's edges before its collections, their
pages or the edges after them are being told. The pool of
`prefetchBatch` is `pool` (queued), `active` (its places that are taken) and
`inFlight`: `Pumped` is its `pump()`, run in every stretch that adds to it or
settles one; `Settle` and
`Reject` end a resolution in any order. `PrefetchBatch` and the order *prefetch,
then settle in schedule order* are `StartBefore` and `StartAfter`; `Settled` is
`settleEdge` (target told, edge told, target enqueued), and `Fate` is its cascade
of cycle, fan-in, depth and capability. `PageItem`, `PageEnds`, `PageFails`,
`PageStops` are `pageCollections`; a page is `Unreadable` also for the signal, which
`isAbortStop` does not recognise in an `AbortedError`. A root is an entity that is
given or a URL that is resolved first (`RootResolves`, `RootRejected`). `budget`
is how many requests the caller's budget still pays for.

`SequentialWalk` knows nothing of the pool: it tells the rest of the current
node's schedule one by one; a cut or an unread collection only shortens it. The
mapping `Seen` computes `rest` from the segment, the page and the plan, so each
step of the walk tells the consumer exactly what the sequential walk would, or
nothing.

### DiscoverAll

`ReadManifest`, `ReadIndex`, `NextSitemap`, `TurnPage`/`SendPage`/`PageArrives`
are `iterateSitemap` and its callers; `StartCall`, `SendCall`, `CallSettles`,
`TakeResult` and `Yield` the map whose source it is. A document has `faults`, the
checks it would fail, and is rejected for the first in the order of the code.
`late` is the deadline. The variable `version` is "1.0" or "0.1": the older client
is the same walk with a window of one, without a limit on sitemaps and without the
checks that came later.

### ClientBudget, RelationsWalk, ReferenceResolution, ModuleClients

The recursion of `traverseRelations` is `frames`; `hints` are the target hints of
the current item; `Expand`, `NextItem`, `ChargeHint`, `Fetched`, `TurnPage`,
`PageArrives`, `Edge` are its stretches. `ReferenceResolution` makes one call
after another on the same budget: `Asked` is what `collectReferences` (or its
Evidence counterpart) lists, `StartFetch`/`Arrives`/`Leaves` the request of
one target, `MetBefore` and `FetchStopped` the ends of a fetch that sends nothing
because the walk has charged its key or the budget refuses the node (both are
awaited, so a signal may come first), `NotAttempted` and `StopsAtOnce` what every later reference of a
stopped list is told, `ExpandsClaim` the step from a claim to its evidence. The
cross-origin limit and the deadline are not kept apart from the request limit
here: all three are a request that is refused, and `HttpRequest` has them in full.
A request the signal calls off may have been charged (`CalledOff`). `givenAway`
counts the charges of the walk that an aborted call released.

A valid Relations document has been through its schema and nothing else, so an
item may list a target twice, and a collection's page may list it again:
`OneEdgeEach` allows two equal edges only there (`ListedTwice`), because the code
then really has one edge per place. `EachReferenceReported` places the references
of resolved claims by `Expansion`, the list that `ExpandsClaim` appends.

### AadpRoutes and PublishedServer

Text is a sequence of characters of an alphabet `Chars` with one that must be
percent-encoded, its encoded form, a dot and an encoded dot. Types and ids are
made of `Letters`, none of these four: `RESOURCE_TYPE_GRAMMAR`
(`server/types.ts:11`) is lower-case letters, digits, `_` and `-`, and is enforced
on types by `defineResource` (`runtime.ts:62`), on ids by `entity`
(`runtime.ts:550`) and by the schema of every sitemap page (`runtime.ts:535`).
`Compile` and `CompileRoutes` are the template compiler with its checks; `Match`
and `BuildPath` the two directions; `Pathname` what `new URL()` makes of a
published path, which drops a segment of dots. `Listed` is what the application has of a
type, in its order, and `PageFrom` a page of it. `Entity` and `Sitemap` are the handlers with their checks in
order; `HandleRequest` the dispatcher with `If-None-Match` and cache headers.
The application is external: a `store` that changes between requests (`Update`),
personalises what a protected type says, and returns wrong records or errors.
Each reader keeps its copies with their ETag, pages a sitemap with the cursors it
was given (or with strayed ones), revalidates, and may sit behind one shared cache
(`shared`, `SharedHit`) that keeps what the headers let it keep.

### Registries

`RegisterModule` is `registerModule` as a function from state to state: key taken,
preflight of the dependencies, `ajv.addSchema` one after the other, `compile` of
the document schema, and the rollback of what a failing step had added. `Import`
is a module's `register.ts`, which registers several kinds and sets its flag only
at the end. `RegisterAdapter` and `CreateLookup` are the traversal side; a lookup
reads the global table whenever it is asked, or the call's own list for ever.

### ConformanceRun

A check is an identifier, what it requires, and a sequence of steps: it asks for a
document, judges what it saw, walks pages, needs an option, uses or keeps a
document. A step says what becomes of the check when its request fails, when a
budget is spent and when the caller aborts: these differ from check to check in
the code, and are what goes wrong. A step may be a request that the documents decide
about (`Maybe`), and its failure may be `contained`, which is what `traverseRelations`
does below its root: the check goes on and only the history variable `contained` tells
(`Target`, `Many`). `Expands` is the walk of the Evidence checks, whose
`danglingEntries` excuses a forbidden target. `Run` is the loop over `runCheck` with `requires`,
skipping and the report; `Status` and `ExitCode` are the report's. What documents show is
free. The graph suite walks fixtures of its own in memory; its checks only judge.

## 3. Runs

| Run | Instance | What it shows |
|---|---|---|
| `Canonical_callers` | three callers, two targets, room for one node, raw charges of one target, no root walks | one fetch per target, private aborts, no trace of an abandoned fetch, exact waiters and charges; implements `ResolveOnce`; everybody is answered |
| `Canonical_roots` | three callers and two root walks on one URL with a true and a false reference, two contexts | what a root URL was told stays, and no answer crosses a context |
| `Canonical_overwrite` | the same; a violation is expected | a settled outcome is replaced (section 6) |
| `Map_calls` | concurrency 1, 2 and 3, up to five items | blast radius of a failure; implements `OrderedMap`; every request is answered |
| `Stream_readers` | two overlapping readers, buffer of two, up to four events | order and bound of the buffer, one truthful terminal event, an error told once, every call is answered |
| `Http` | two calls with a retry and two redirects each, on a budget of three requests, one cross-origin request, one byte and one tick | limits, headers, deadline and abort; every call settles |
| `Walk_graphs` | nine graphs of five keys, depth 2, a pool of two, budgets of 0, 1, 2, 3 and 9 requests | implements `SequentialWalk`; complete means complete; every fetch paid for is used; ends |
| `Discover` | eleven publishers, three budgets, windows of one and two, both clients | listed order, complete means complete, ends |
| `Clients` | seven worlds, three budgets, both signals | one fetch per charge of a target, one true verdict per reference, no edge twice and no inline target lost; both clients end |
| `Server` | every accepted configuration of templates once; the traffic of the default one with two readers, three requests, one write, pages of one | routes round-trip, nobody is served another's copy, a walk over a quiet store is complete, a validator hits exactly when nothing covered changed |
| `Registries` | six calls of two imports, eight registrations, three adapters and four walk options | a registry never lies about what it holds; lookups never change |
| `Conformance` | seven suites (Relations in three profiles), six option sets, five pages, four entities, two troubles | exit 0 means everything ran, but for what a traversal contains; no check uses what was not kept; limits; the run ends |

Why the bounds are enough. A third caller is what it takes for one to join
another's fetch and a third to start anew after it was abandoned; one node of
room for two targets makes the charge throw; two root walks race on one URL.
Five items let a window of three fill, slide past a failure and drain. Four
events pass a buffer of two twice. Three requests for two calls make each of a
retry, a redirect and the other call the one that meets the limit. In the walk,
four targets of one node overfill a pool of two twice; the graphs have a diamond
with a cycle, a self-reference, a path beyond the depth, two modules' edges to
one target, pages that fail and one that ends; the budgets stop it before the
root, in each segment, and never. In the discovery walk a cursor that returns,
one that is always fresh and a window of two between two page requests are the
cases. In the clients, limits hit nodes, depth, pages and requests in turn.
Three ids in pages of one let a cursor stray between two good ones, and one
write falls before, between and after the reads; readers are interchangeable and
reduced by symmetry (that run has safety properties only). Six calls are a
failing import, its retry, two registrations around it and a lookup before and
after. Two troubles are a stop and an abort in one check, or a failure in one
check and a stop in a later one that needs it.

`CHECK_DEADLOCK` is `FALSE` everywhere: all these systems end. `MaxItems`,
`MaxEvents`, `MaxAsked`, `MaxUpdates`, `MaxCalls` and `MaxTrouble` bound the
environment only.

Every property of a passing run has a mutant: a plausible bug in one definition
(a dropped guard, an off-by-one, a missing wake-up) under which TLC finds the
property violated. The mutated forms stand before the definitions they change.

## 4. Fairness

`FairSpec` is used for liveness only. Assumed is what the event loop and the
timeouts give: a fetch ends (each hop has a timeout), a settled promise resumes
whoever awaits it, a generator whose consumer asks can run, the clock advances.
So `TraversalWalk` has weak fairness of the generator and of each resolution's
end, `DiscoverAll` of the walk and of the calls in flight, `ModuleClients` of each
client's next stretch, `ConformanceRun` of the runner. Never assumed: that anybody
calls, reads on, aborts, returns or writes, nor that a particular answer is given.
Weak fairness is enough everywhere, since a promise that is settled stays
settled. `WalkEnds` and `ClientsEnd` also mean that cycles, looping cursors and
endless pages cannot keep a walk going: nothing in the fairness says they end.

## 5. Theorems

A theorem holds for every value of the constants that satisfies the named
assumptions of its module; every run evaluates those of the modules it extends.
An `Inductive` theorem states the inductive invariant of a module. TLC checked each
invariant used here on that module's instance before it was proved (that of
`DiscoverAll` with the trails it quantifies over taken from the pages there are).

### CanonicalResolution

`CanonicalResolution_proofs` proves, for all sets of keys, callers, roots and
contexts and every `MaxNodes`:

- `TypeCorrect`: `TypeOK`;
- `FetchedOnceAlways`, `AbortIsPrivateAlways`, `AbandonedLeavesNoTraceAlways`,
  `WaitersExactAlways`: the four properties that make sharing a fetch safe;
- `RootsKeepTheirWordAlways`: what a root URL was told stays, and no answer
  crosses a context;
- where no root walk takes part (`Roots = {}`): `ChargesExactAlways`,
  `SettledIsFinalAlone`, and `ImplementsResolveOnceAlways`, the refinement of
  `ResolveOnce` step by step.

None of them is inductive alone. The invariant behind them (`IInv`, theorem
`Inductive`) says in addition what a caller's phase implies of its locals, that
a pending entry is a fetch of its own key that runs and was not cancelled, that
a key that is settled or stopped has no uncancelled fetch left running, and that
whoever waits on a fetch asked for its key. Assumed of the constants is only
`ConstantsAssumption` and `NoneAssumption`.

For the contexts, `ContextInv` says that whoever is past the door belongs to the
bound context (`Admitted`), that nobody has an answer who has not asked
(`ToldAfterAsking`), and that everything stored and told is of that context
(`AllInContext`). Root walks are included there.

The last three theorems need `Roots = {}` because they are false otherwise: a
root walk charges and records by another path, and overwrites, releases or
leaves a charge behind (section 6; the run `Canonical_overwrite` shows the first
of these). `AloneInv` is the invariant of references alone: what is in flight is
undecided and charged (`PendingOpen`), a fetch nobody abandoned is the pending
one of its key until it settles and its outcome afterwards (`RunsPending`,
`Committed`), callers were told that outcome (`ToldTruth`), only a raw step
charges a key that nobody asked the layer for (`RawExplains`), and the counter
is the number of charged keys, the requested ones among them (`ChargedFirst`).
With it `Settle` is the one step of `ResolveOnce` that decides a key, `Deliver`
the one that tells a caller, and an abandoned fetch a stutter.

### MapConcurrent

The second part of `HttpRequest_proofs` proves, for every set of window sizes and
every length of the source (`MapAssumption`):

- `MapTypes`: `MapTypeOK`;
- `WindowBoundedAlways`, `BlastRadiusAlways`, `ReadAheadBoundedAlways`,
  `NoPullAfterErrorAlways`: what a map costs, whatever fails and whoever is slow;
- `NoSchedulerErrorAlways`: the internal error of `scheduler.ts` is unreachable;
- `ImplementsOrderedMapAlways`: the map implements `OrderedMap`, step by step.

The argument is that the keys in flight are always the interval from `yieldIndex`
to the last item started (`WindowIsInterval`), that what lies behind it settled
well or was fatal (`BehindIsDone`), and that what left it was delivered or is the
one result in hand (`HeldOrDelivered`); `OneByOne` says the same of the serial
path. An ordered map is done only when its source is, so the invariant also says
that a window found empty has seen the source end. Each action is then one
step of `OrderedMap` or none. The properties of the map that are proved and that
no run lists (`MapTypeOK`, `WindowBounded`, `ReadAheadBounded`, `NoPullAfterError`,
`NoSchedulerError`) need none: the theorems cover every instance.

### StreamTraversal

`StreamTraversal_proofs` proves, for any set of readers, every capacity and every
length of the walk (`StreamAssumption`):

- `TypeCorrect`: `TypeOK`;
- `BufferFaithfulAlways`: the buffer is bounded and in walk order, and the two
  sides never wait for each other;
- `EndsTruthfullyAlways`: one terminal event at most, what it says of the walk is
  true, no event follows it, and an error of the walk is told once. It is told before
  the terminal event, unless the signal ended the stream; then a call may throw even
  after it (section 6), and the property says no more than that.

The invariant numbers the events (`Numbered`: the readers' and then the buffer's
count on from 1), gives a pulling producer room for one more and a parked one its
slot (`Room`), says that nothing was dropped of a walk that is still pulled or
that told its own end (`AllKept`), who may have set `finished` and what `terminal`
then is (`EndKnown`), and that the terminal event found the buffer empty for good
(`ToldOnce`). `AllKept` is what makes a summary truthful: an event is dropped only
by a producer that ends with it.

### HttpRequest

`HttpRequest_proofs` proves, for any finite set of calls on one budget, any
limits, numbers of attempts and redirects, and lengths of a backoff
(`HttpAssumption`):

- `TypeCorrect`: `TypeOK`;
- `LimitsHoldAlways`: the limits hold for all the calls together, and what must
  not be retried is not;
- `HeadersScopedAlways`: the caller's headers stay at home through every chain of
  redirects and retries;
- `StopsSendingAlways`: nothing goes out after the deadline, nor for a call that
  was aborted, and only such a call says "aborted".

What a call does to its control state is one of three things: it ends, it waits
for another attempt, or it goes on (`StepCall`); so each property needs to look
at the one action that matters to it. The overshoot of the counters is the
number of calls in `StoppedCalls` (for bytes in `CutShort`: the call that overspent
may be cancelled before it is told), which grows by the very call that was refused;
for this a call has no result before it is done (`Undecided`). `ChargedFirst` says
that `sent` never passes the counters, `AllMeansHome` that a chain with all
headers has not left home (the invariant is about every place of the call, the
property about the moment of `fetch`), `ToldOwnAbort` who says "aborted".

### DiscoverAll

`DiscoverAll_proofs` proves, for any publishers with finitely many pages, each of
which ends its sitemap or names another page (`PublishersAssumption`; cursors may
return or loop), any limits, any window and both clients
(`DiscoverAssumption`):

- `InListedOrderAlways`: what was delivered, is held and is in flight is always the
  beginning of what the publisher lists;
- `CompleteMeansAllAlways`: a walk that ends without an error delivered all of it,
  and every page and entity of it passed its checks.

The listing is defined by following the cursors until one returns or ends; the
walk only has the set `seen`. `InSitemap` joins the two by a `trail`, the pages
read so far: `seen` is that trail and the cursor at hand, each page of it is the
next of the one before, and delivered, held, in flight and not yet pulled, in
this order, are what those pages list after what came before (`PlaceOf`). Each
action of the walk moves one item from one of the four to the next, or puts the
items of a page at the end of the last; an error drops what is behind it. That
everything behind the walk is `Complete` is carried from sitemap to sitemap.

Chains of cursors and concatenations are recursive, and what they compute is
proved here by induction over `Nat`. The library's induction theorems take an
operator, which the provers cannot instantiate; `SetInduction` states induction
for a property given as a *set*, and follows from the pigeonhole principle
(`FS_Injection`): a set of numbers below n that is closed under successor and
holds 0 would inject into itself without 0.

### ModuleClients, PublishedServer, ConformanceRun

`ModuleClients_proofs` proves, for any worlds and limits:

- `FetchedOncePerChargeAlways`: the Relations walk and the resolvers together fetch a
  target once, and once more for each charge of the walk that an aborted call gave
  away. The invariant (`Covered`) says that the fetches of a key, made or awaited, are
  covered by the charge that is held and those that were given away; `WalkOnce` and
  `RefOnce` show that neither client breaks this for the other. At most one fetch
  outright is false of the code (section 6).
- `ReportsTrueAlways`: every reference gets one verdict, in its place and true of
  its target, and what was cut off is told. `ReportInv` says that what is reported and what is
  still to do are together what was asked and what resolved claims added
  (`InOrder`); that an outcome in the cache is the one of its target, or `invalid`
  for a key that was charged by the raw walk alone (`OutcomesTrue`); that the
  verdict kept per target and every reported one follow from it (`NodesTrue`,
  `AllJudged`); that after the first reference cut off all are (`CutShort`); and
  that a request is awaited only for a target with no outcome (`Awaiting`). A
  reference is judged by the type it declares itself, so a target that was
  resolved for another one is judged anew (`Judged`).
- `EdgesCompleteAlways`: no listed place has two edges, and no inline target is lost.
  `OnceInv` is the first half. An entity is on the stack once (`OpenFrames`,
  because expanded targets are not expanded again); the hints that are left are
  the end of one list of the current item (`Gathers`), so what was found comes
  from a place already read (`Placed`) and a cursor is read once; edges are of
  items before the one at hand (`EdgesBelow`); hence a target found twice, or
  found when it has its edge, stands in two places (`FoundOnce`, `FoundNew`).
  `NothingLost` is the second half: as long as the walk is neither partial nor
  thrown, an inline target of a walked entity has its edge or issue, or is ahead
  in a frame, found in it or among the hints (`Pending`).

Assumed of the worlds is that publishers serve an entity or a failure and name
keys (`ReferencesAssumption`), and that a valid Relations document is what its
schema says: a collection has no inline targets and its cursors lead to its pages
(`RelationsAssumption`; `resolve.ts` reads inline targets before a collection).

`PublishedServer_proofs` proves, for any templates over any alphabet, any types
and ids in their grammar, any application, readers and shared cache:

- `NeverSomeoneElsesAlways`: nobody is served what was made for another principal;
- `RevalidationExactAlways`: a validator hits exactly when what its copy covers is
  unchanged;
- `RoutesRoundTripAlways`: whatever templates are accepted, every published URL is
  matched back to its document;
- `PagesCompleteAlways`: a pagination of a list that did not change ends with every
  item once, in order.

For the first two, each copy, a reader's or the shared cache's, is a document its
path stands for, and its validator is the checksum of what it holds (`MadeFor`);
a reader keeps one copy of a document (`OneCopyEach`). That proof never opens the
matcher: it needs that a path is matched to the same route each time, not to
which one.

The third does. It is about every state because the routes stay as configured
(`ConfiguredStays`). A compiled template is `Ready`: its literals hold nothing
the parser would encode and no segment is one of dots. What is built from it by
types and ids is therefore left as it is by the parser (`BuiltPath`), satisfies
its own template, and gives the parameters back (`ReadBack`). That no earlier
template takes the path is the collision check: two segments that some text
satisfies are found to collide (`SegmentsCollide`: of two prefixes of one text
one is a prefix of the other), so templates that passed the check have no path in
common (`Apart`, `AcceptedRoutes`); the check is exact in the direction that
matters.

For the fourth, a reader's cursor is one the server made for that very list
(`OwnCursors`), and unless the list changed on the way, what the reader has is
the list up to where that cursor goes on (`Paged`). A page that is answered is
the next one (`NextPage`); a stray cursor is of another type, of another version
or of none, and is refused (`OnlyItsOwn`), or is the reader's own.

Their assumptions: `CharsAssumption` and `NamesAssumption` (the grammar of types
and ids, see section 2), `ConfigsAssumption` (templates are lists of segments),
`ServedAssumption`, `SchemesAssumption`, `BoundsAssumption`, and
`NoneAssumption` (the value that stands for *absent* is neither a number nor a
cursor).

`ConformanceRun_proofs` proves:

- `RequestsWithinLimitsAlways`, for any limits (`RunAssumption`) and suites: all
  checks charge in one place, which counts before it compares, so nothing goes out
  that was not charged (`SentWasCharged`);
- `NoRunnerBugAlways`: no check reads a document nobody captured;
- `CleanExitMeansFinishedAlways`: a run that exits with 0 under `failOnWarning` was
  finished, apart from requests whose failure a traversal contained below its root.

The last two do not hold of arbitrary lists of checks: a check that reads what it
does not require, or that swallows an error nobody else reports, breaks them.
`ConformanceSchedule` states what a list of checks must be like, looking at the
checks alone. `Certain` are the documents that are there for certain before each
step, through prerequisites that went well (a warning is enough) and through
steps that got them or were passed over because they were there; a document may
be used only where it is certain (`UsesCertain`), and one that comes with another
is kept only where that one is (`KeptTogether`). A request that is stopped, aborted
or fails must end its check with an alarm, or be noted and told at the end
(`links.no_dead_urls`), or, where the error is swallowed
(`relations.privacy.social_graph`), be for a document that a check without
prerequisites would have got or reported, or, after an abort, leave it to the next
check (`Accountable`). What a traversal contains and the end of a budget of its own
are nobody's to answer for. `SchedulesAssumption`
says that the suites that are run are so; TLC evaluates it for the five suites, the
profiles included, so a check added to one of them in the wrong place fails
there. The theorems say that this is enough, in every run: whatever the deployment
answers, under any limits, options and number of troubles. In the
invariant (`RunInv`) what is certain is kept (`CertainIsKept`), a check that went well
has kept what it ensures (`EnsuredIsKept`), and if anything was cut short or lost,
some verdict says so or the running check still will (`ToldOrNoted`).

### Registries

The second part of `StreamTraversal_proofs` is about `Registries`, which shares no
state with the streaming boundary. It proves, for any modules, registrations,
adapters and walk options, and whatever Ajv makes of a schema:

- `RegistryHonestAlways`: the error of a lookup tells what is registered, and every
  registered document refers to what it was compiled against and shipped with;
- `LookupsStableAlways`: a lookup that has found an adapter always finds that one.

A state of the schema registry is `Good` when the committed dependencies are what
the shared Ajv holds (`Agreeing`), each map of a module and of a version leads to
an entry (`Nested`; this is what makes the three errors tell the truth), and what
entries refer to is held (`AllResolve`). `RegisterKeeps` shows it of one
registration. Its two halves are that nothing held before is ever removed or
replaced: what is taken back after a failure is only what this call added, and Ajv
refuses an `$id` it holds (`Holds`, `TakenBack`); and that after a commit every
dependency, also one that was not added because its `$id` was known, is held with
the content it was shipped with (`PreflightCovers`: the first dependency of an
`$id` is new or committed, and the later ones equal it). An import is a fold of
registrations, so `RegisterAllKeeps` is an induction over its list. The one
assumption, `RegistriesAssumption`, says that lists are lists.

### TraversalWalk

`TraversalWalk_proofs` proves, for any graphs, depth, budgets and size of the pool:

- `WalkTypes`: the types of the state, and what the generator has in hand where;
- `FetchesAreUsedAlways`: no target is fetched twice, never more at once than the
  pool holds, and a walk that ends without a stop told an edge the answer of
  everything it fetched;
- `ImplementsSequentialWalkAlways`: what the consumer is told is a `SequentialWalk`;
- `CompleteMeansAllAlways`: a walk that ends without a stop and with a complete
  summary expanded exactly `Reach`, told each reference of those nodes once, and cut
  none off.

The second is what the comment on `prefetchBatch` claims of running ahead. Until
the walk is cancelled or stopped, every target held or queued by the pool stands
among the edges of the segment that may still be looked up (`Due`), every such
edge is known, held or queued (`Covered`), and held before queued and queued
before queued is the order of the edges (`InTurn`). So when an edge's turn comes,
its target is not waiting in the queue: the held ones are due before it, and
nothing is before the head (`HeadIsStarted`). A look-up by the generator itself therefore only
happens in a collection, where the pool is empty, and counts as the only fetch in
flight (`Flights`, `FlightBound`). Claims do not disturb this: an edge that is told
its answer leaves the list, and other edges to the same target stop being due only
when the target is answered (`Used`). That a filtered or sorted list is in the
order it should be in is a theory of its own at the head of the module
(`Arranged`): the place a strict order gives each of finitely many elements is the
number of elements before it, and these numbers are exactly the first ones
(`PlaceExists`, a pigeonhole argument).

The refinement maps every step of the walk to a step of the sequential one or to
none. What is not told yet (`Rest`) is the segment in hand, the items of the
collections from the pager's place on, and what comes after them; so a prefetch,
a look-up, a resolution that settles and a change of segment move nothing
(`QuietSeen`, `StartSeen`, `LookUpSeen`, `SegmentSeen`), reading an item only
numbers the next edge (`PageItemSeen`, from `ItemsNext`), and giving up a
collection drops a prefix of items (`UnreadSeen`, from `ItemsLater`). The answer an
edge is told must be the world's, a limit or not at all: `SeenInv` says that what
is known of a target nobody claimed is honest, that the queue expands resolved
targets only, and how the edge in hand is numbered.

`CompleteMeansAll` is proved on top of the refinement, over the mapped state of the
sequential walk, so that no step of the prefetch pool, the pager or the segments
has to be looked at again: a step of the walk is a step of `SequentialWalk` or none
(`StepSeenAs`), and `CompleteInv` is kept by each of those. While the root was
resolved, nothing was cut and no page was lost (`Uncut`), it says that the queue
holds what is left of one level and then the next (`InLevels`); that a node waits at
its least depth (`Timely`), claimed with its ancestors and once (`Owned`); that every
level up to the visited one is claimed and that a claimed key which no longer waits
has handed on its claim to its targets (`Spread`); that what the visited node may
still claim is claimed already or among the edges that are left (`Aimed`); and that
the edges told of a key and those left are the planned ones (`Counted`). None of the
parts is inductive alone: the levels are closed only because the queue is in their
order, and an edge to an unclaimed key is at the least depth only because the levels
before it are closed. An empty queue then gives the property (`AllClaimed`, by
induction over the depth). TLC checked `CompleteInv` on the instance of `Walk_graphs`
before it was proved. That the recursion behind `Reach` has a solution at all is
`WithinExists`.

Assumed is `WalkAssumption` (finitely many keys) and `WorldsAssumption`: what the
planner finds on a node are lists of edges and collections whose targets are keys.

### What is only model-checked

- Liveness under fairness, and what uses `ENABLED`: out of the prover's reach.
- Where root walks take part: which of `ChargesExact` and `ResolveOnce` still
  holds. The passing run with roots checks `RootsKeepTheirWord`, which is proved.

Every other safety invariant that a passing run checks is proved.

`TypeOK` of a module without a theorem documents the types of its variables; the
properties of its run do not hold in a state that breaks it.

## 6. Where the code and its words disagree

The run `Canonical_overwrite` expects a violation: a fetch that was in flight
when a root walk settled its key overwrites that outcome, against
`canonical-resolution.ts:442-445`. In the passing run, where no root walk takes
part, `SettledIsFinal` is part of `ImplementsResolveOnce`.

The models show more of this kind. Where a property states the words, it stands
at the end of its module under *Promised, and not kept*; put it in place of the
properties of that component's configuration and TLC shows how it is broken.

Canonical layer:

- abandoning a fetch gives back the charge of a target that a root walk has
  resolved meanwhile; a fetch that met somebody else's charge releases it too
  (`budget.ts:173`: callers release what they themselves charged); and
  `releaseNode` takes an exceeded counter back under its limit
  (`canonical-resolution.ts:268`: it never un-exceeds);
- a root that exceeded `maxNodes` leaves its key charged without a record; a
  later reference is told `invalid` instead of a budget stop;
- a reference with a wrong id decides what a later walk from its URL is told
  (`RootTruthful`).

Map, stream and HTTP:

- a call rejecting while the source is awaited does not keep the next item from
  starting (`WindowStopsGrowing`); a source that fails while a good result is in
  hand loses that result;
- an ordinary abort is a failure of the walk to `streamTraversal`, because
  `isAbortError` (`scheduler.ts:35-39`) looks for names an `AbortedError` does not
  have: `next()` throws where the comment at `scheduler.ts:110` says that an abort is a
  stop reason (`AbortIsNoFailure`), and, as the signal also ends the stream, it may
  throw after `complete` was delivered, which `traversal.ts:76` and
  `scheduler.ts:50-53` call the end, always (`CompleteIsLast`);
- of two overlapping `next()` calls the first is woken only by the second's
  progress (`CallsNext` overwrites the one slot);
- a throwing hook and a malformed `Location` are retried as network failures
  (`OnlyTransientRetried`); the chunk that exceeds `maxResponseBytes` is never
  charged to the run (`http.ts:392`: bytes are charged as soon as they are read).

Walks:

- an abort while a collection is read is recorded as a failure of that collection and
  the walk goes on, for the same reason (`state-machine.ts:598-604`), where the comment
  at `state-machine.ts:502-503` says it propagates (`AbortPropagates`);
- a call that met the walk's charge awaits a fetch that sends nothing; aborted there,
  it releases the charge (`canonical-resolution.ts:645`) and the target is fetched
  again, against `canonical-resolution.ts:494-495` (*exactly once per canonical key for
  the lifetime of the budget*; `FetchedAtMostOnce`);
- after a budget stop the prefetch pool and the pager go on asking
  (`state-machine.ts:655-656`; `NothingRequestedAfterStop`); a node first told as a
  leaf and expanded later is never told again, so its modules are missing from it;
- a page of a Relations collection that times out makes `traverseRelations` throw
  (`resolve.ts:332`), although `graph.ts:46-47` and `resolve.ts:239-240` keep
  throwing for global stops and aborts (`ThrowsOnlyForStops`); an abort in a list
  of `many` targets becomes an issue instead (`graph.ts:91-92`); a partial result
  need not say why (`types.ts:80`; `GapsExplained`).

Server and registries:

- the checksum, and so the ETag, does not cover a sitemap's `next`, so a 304 may
  hide that the next page has moved (`spec/v1.0/specification.md:337-338`;
  `NotModifiedMeansSame`);
- a failed registration leaves dependency schemas or an `$id` in the shared Ajv
  (`registry.ts:113-115`; `FailureLeavesNoTrace`); when the second kind of a module
  fails, the retry of its import throws "already registered" for the first
  (`register.ts:31-36`).

Conformance suites:

- `assertErrorEnvelope` (`checks.ts:664-672`) and
  `relations.collection.pagination` record a caller's abort as *failed*, which
  `conformance/types.ts:188-193` and `runner.ts:399-400` call inconclusive
  (`CutShortIsInconclusive`); so is running into `maxSitemaps`
  (`checks.ts:378-382` against `runner.ts:386-389`);
- `answer.references` reports a budget stop as a warning, so a run cut short may
  exit 0 (`spec/modules/answer/v1.0/conformance.md:53-56,70-71`);
  `relations.privacy.social_graph` swallows every error;
- targets that fail below the root of a traversal leave `partial` false, and
  `relations.traversal.budget` and the checks beside it look at nothing else, so a
  `relations-full` run exits 0 although a request failed
  (`spec/modules/relations/v1.0/conformance.md:70-73` has *failed or partial*;
  `ContainedIsTold`);
- so does an abort in a list of `many` targets or in a page, inside the last two
  traversal checks: only the next check tells of it.

## 7. Not modelled

- URL policy and DNS pinning: address arithmetic on strings without state; its
  verdict is a free choice of `HttpRequest`.
- Document validation and canonical JSON: pure functions over documents, driven
  by JSON Schema; their verdicts are inputs of the models (a document's `faults`,
  a check's judgement).
- Collecting a walk's events into a graph (`traverseGraph`): it is the event list
  read once.
- Rendering of conformance reports, profile presets, the length of backoffs.
- Command line tools and scaffolding: argument parsing and file generators that
  keep no state between two awaits that anything else could see.

## 8. Plan

What is left is to compose: `TraversalWalk` with `CanonicalResolution` as its resolver and
`StreamTraversal` as its consumer, on graphs small enough for the three to be
explored together.
