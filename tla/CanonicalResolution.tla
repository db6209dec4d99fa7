------------------------ MODULE CanonicalResolution ------------------------
(***************************************************************************)
(* The per-budget canonical resolution state shared by every module client *)
(* and every graph walk on one caller-owned budget                         *)
(* (src/modules/shared/canonical-resolution.ts, with chargeNode and        *)
(* releaseNode of modules/relations/v1.0/client/budget.ts and the root     *)
(* branch of traversal/v1.0/traversal.ts).                                 *)
(*                                                                         *)
(* A CALLER is one invocation of resolveCanonicalTarget for one reference; *)
(* a ROOT is one walk that starts from a bare URL.  A fetch is identified  *)
(* by the caller that started it, since a caller starts at most one.  The  *)
(* steps are the synchronous stretches between two awaits, so any two      *)
(* stretches of different callers may interleave.                          *)
(***************************************************************************)
EXTENDS Integers, FiniteSets

CONSTANTS
  Keys,        \* canonical targets {id, normalizedUrl} that references name
  Urls,        \* normalized URLs
  UrlOf,       \* the URL half of a key
  ServedKey,   \* the key of the document a URL really serves
  RawKeys,     \* keys a raw Relations step may charge outside this layer
  Callers,     \* invocations of resolveCanonicalTarget
  Roots,       \* walks whose root is a bare URL
  Contexts,    \* resolution-context digests
  ContextOf,   \* the digest of a caller's or a root walk's options
  MaxNodes,    \* the budget's maxNodes
  None         \* no entry in a map

ASSUME ConstantsAssumption ==
  /\ UrlOf \in [Keys -> Urls]
  /\ ServedKey \in [Urls -> Keys]
  /\ RawKeys \subseteq Keys
  /\ IsFiniteSet(Keys) /\ IsFiniteSet(Callers)
  /\ Callers \cap Roots = {}
  /\ ContextOf \in [Callers \cup Roots -> Contexts]
  /\ MaxNodes \in Nat
  /\ None \notin Keys \cup Callers \cup Roots \cup Contexts

VARIABLES
  visited,       \* budget.visitedTargets
  nodesVisited,  \* budget.nodesVisited
  bound,         \* BudgetResolutionState.contextDigest
  outcomes,      \* settled outcome per key
  rootOutcomes,  \* settled outcome per URL
  pending,       \* the fetch in flight per key
  globalStops,   \* keys whose fetch hit a budget stop
  fetch,         \* per caller: what became of the fetch it started
  waiters,       \* per fetch: PendingFetch.waiters
  cancelled,     \* fetches whose AbortController was aborted
  aborted,       \* callers whose own signal fired
  phase,         \* where a caller is
  key,           \* the key a caller asked for
  entry,         \* the fetch a caller waits on
  answer,        \* what a caller was told
  rootPhase,     \* where a root walk is
  rootUrl,       \* the URL a root walk starts from
  rootAnswer     \* what a root walk was told

budgetVars == <<visited, nodesVisited>>
storeVars  == <<outcomes, rootOutcomes, pending, globalStops>>
fetchVars  == <<fetch, waiters, cancelled>>
callerVars == <<aborted, phase, key, entry, answer>>
rootVars   == <<rootPhase, rootUrl, rootAnswer>>
vars == <<budgetVars, bound, storeVars, fetchVars, callerVars, rootVars>>

-----------------------------------------------------------------------------
(* What a fetch can settle with.  "mismatch" is a served id other than the *)
(* referenced one, "failed" any other unusable target, "duplicate" a key   *)
(* already charged outside this layer; "budget" and "aborted" reject.      *)

OutcomeKinds == {"ok", "failed", "mismatch", "duplicate"}
StopKinds    == {"budget", "aborted"}

\* A CanonicalOutcome, tagged with the fetch that produced it.
Outcome == [kind : OutcomeKinds, from : Callers \cup Roots]

\* A fetch runs over HTTP, or was already decided by chargeNode and only has
\* its promise left to settle.
Running == {"http", "duplicateRunning", "overBudgetRunning"}
Settled == OutcomeKinds \cup StopKinds

Stop(kind) == [kind |-> kind, from |-> None]

ASSUME NoneAssumption ==
  None \notin Outcome \cup {Stop(s) : s \in StopKinds} \cup Running \cup Settled

Answers    == Outcome \cup {Stop(s) : s \in StopKinds} \cup {None}

InFlight(c) == phase[c] \in {"waiting", "raced"}

Init ==
  /\ visited = {} /\ nodesVisited = 0
  /\ bound = None
  /\ outcomes = [k \in Keys |-> None]
  /\ rootOutcomes = [u \in Urls |-> None]
  /\ pending = [k \in Keys |-> None]
  /\ globalStops = {}
  /\ fetch = [c \in Callers |-> None]
  /\ waiters = [c \in Callers |-> 0]
  /\ cancelled = {} /\ aborted = {}
  /\ phase = [c \in Callers |-> "idle"]
  /\ key = [c \in Callers |-> None]
  /\ entry = [c \in Callers |-> None]
  /\ answer = [c \in Callers |-> None]
  /\ rootPhase = [r \in Roots |-> "idle"]
  /\ rootUrl = [r \in Roots |-> None]
  /\ rootAnswer = [r \in Roots |-> None]

-----------------------------------------------------------------------------
(* The node budget.                                                        *)

\* chargeNode: the key is marked visited and counted BEFORE the limit check,
\* which may still throw.
ChargeNode(k) ==
  /\ visited' = visited \cup {k}
  /\ nodesVisited' = IF k \in visited THEN nodesVisited ELSE nodesVisited + 1

ChargeThrows(k) == k \notin visited /\ nodesVisited + 1 > MaxNodes

\* Mutant: the abandoned fetch keeps its charge.
ReleaseNode_Kept(k) == visited' = visited \cup {k} /\ UNCHANGED nodesVisited

ReleaseNode(k) ==
  /\ visited' = visited \ {k}
  /\ nodesVisited' = IF k \in visited THEN nodesVisited - 1 ELSE nodesVisited

\* A Relations step that walks the same budget without this layer's cache:
\* traverseRelations' root, a directly resolved relation item, a hint-only
\* collection item.  Only the charge touches the shared state.
RawCharge(k) ==
  /\ k \in RawKeys \ visited
  /\ ChargeNode(k)
  /\ UNCHANGED <<bound, storeVars, fetchVars, callerVars, rootVars>>

-----------------------------------------------------------------------------
(* A caller: budgetResolutionStateFor, then resolveCanonicalTarget.        *)

\* Mutant: any context passes.
BindContext_Unchecked(p) == bound' = ContextOf[p]

\* The first use of a budget binds its context; a later one must agree.
BindContext(p) ==
  /\ bound \in {None, ContextOf[p]}
  /\ bound' = ContextOf[p]

Enter(c) ==
  /\ phase[c] = "idle"
  /\ BindContext(c)
  /\ phase' = [phase EXCEPT ![c] = "entered"]
  /\ UNCHANGED <<budgetVars, storeVars, fetchVars, aborted, key, entry, answer, rootVars>>

RejectContext(c) ==
  /\ phase[c] = "idle"
  /\ bound \notin {None, ContextOf[c]}
  /\ phase' = [phase EXCEPT ![c] = "rejected"]
  /\ UNCHANGED <<budgetVars, bound, storeVars, fetchVars, aborted, key, entry, answer, rootVars>>

\* The caller ends in its synchronous stretch, without waiting.
Answered(c, k, a) ==
  /\ phase[c] = "entered"
  /\ phase' = [phase EXCEPT ![c] = "done"]
  /\ key' = [key EXCEPT ![c] = k]
  /\ answer' = [answer EXCEPT ![c] = a]
  /\ UNCHANGED <<budgetVars, bound, storeVars, fetchVars, aborted, entry, rootVars>>

ReplayStop(c, k) ==
  /\ k \in globalStops
  /\ Answered(c, k, Stop("budget"))

ReplayOutcome(c, k) ==
  /\ k \notin globalStops
  /\ outcomes[k] # None
  /\ Answered(c, k, outcomes[k])

\* Mutant: the cache is not consulted before a fetch starts.
Undecided_NoCache(k) == k \notin globalStops

Undecided(k) == k \notin globalStops /\ outcomes[k] = None

StopBeforeStart(c, k) ==
  /\ Undecided(k)
  /\ pending[k] = None
  /\ c \in aborted
  /\ Answered(c, k, Stop("aborted"))

\* waiters++ and the entry of raceSignal: an already-aborted signal decides
\* the race at once, without touching the shared fetch.
Wait(c, k, f) ==
  /\ phase[c] = "entered"
  /\ key' = [key EXCEPT ![c] = k]
  /\ entry' = [entry EXCEPT ![c] = f]
  /\ waiters' = [waiters EXCEPT ![f] = @ + 1]
  /\ phase' = [phase EXCEPT ![c] = IF c \in aborted THEN "raced" ELSE "waiting"]
  /\ answer' = [answer EXCEPT ![c] = IF c \in aborted THEN Stop("aborted") ELSE None]

Join(c, k) ==
  /\ Undecided(k)
  /\ pending[k] # None
  /\ Wait(c, k, pending[k])
  /\ UNCHANGED <<budgetVars, bound, storeVars, fetch, cancelled, aborted, rootVars>>

\* The fetch runs synchronously up to its first await, so the charge happens
\* in the same stretch that records the pending entry.
Start(c, k) ==
  /\ Undecided(k)
  /\ pending[k] = None
  /\ c \notin aborted
  /\ ChargeNode(k)
  /\ fetch' = [fetch EXCEPT ![c] =
       IF k \in visited THEN "duplicateRunning"
       ELSE IF ChargeThrows(k) THEN "overBudgetRunning" ELSE "http"]
  /\ pending' = [pending EXCEPT ![k] = c]
  /\ Wait(c, k, c)
  /\ UNCHANGED <<bound, outcomes, rootOutcomes, globalStops, cancelled, aborted, rootVars>>

-----------------------------------------------------------------------------
(* The shared fetch.                                                       *)

\* Fetch f may settle with res.  Only its own controller can abort it, and an
\* abort that lands after the transport's last check changes nothing.
MayEnd(f, res) ==
  \/ fetch[f] = "duplicateRunning" /\ res = "duplicate"
  \/ fetch[f] = "overBudgetRunning" /\ res = "budget"
  \/ fetch[f] = "http" /\
       \/ res \in {"failed", "budget"}
       \/ res = IF ServedKey[UrlOf[key[f]]] = key[f] THEN "ok" ELSE "mismatch"
       \/ res = "aborted" /\ f \in cancelled

\* Mutants: a stop is cached like any result; a budget stop leaves no record.
RecordsOutcome_Any(res) == TRUE
RecordsStop_Never(res)  == FALSE

RecordsOutcome(res) == res \in OutcomeKinds
RecordsStop(res)    == res = "budget"

\* What the creation-time then() does with result res of fetch f of key k.
Commit(f, k, res) ==
  /\ pending' = [pending EXCEPT ![k] = None]
  /\ outcomes' = IF RecordsOutcome(res)
                 THEN [outcomes EXCEPT ![k] = [kind |-> res, from |-> f]] ELSE outcomes
  /\ globalStops' = IF RecordsStop(res) THEN globalStops \cup {k} ELSE globalStops

\* Mutant: whatever settles is committed.
IsCurrent_Always(f) == TRUE

\* The whole settlement is for the key's current fetch only.
IsCurrent(f) == pending[key[f]] = f

\* An evicted fetch settles without a trace.
Settle(f) == \E res \in Settled :
  /\ MayEnd(f, res)
  /\ fetch' = [fetch EXCEPT ![f] = res]
  /\ IF IsCurrent(f) THEN Commit(f, key[f], res) ELSE UNCHANGED <<pending, outcomes, globalStops>>
  /\ UNCHANGED <<budgetVars, bound, rootOutcomes, waiters, cancelled, callerVars, rootVars>>

\* Mutant: a rejection never reaches the waiter.
Deliverable_NoReject == OutcomeKinds

Deliverable == Settled

\* raceSignal: the fetch wins ...
Deliver(c) ==
  /\ phase[c] = "waiting"
  /\ fetch[entry[c]] \in Deliverable
  /\ phase' = [phase EXCEPT ![c] = "raced"]
  /\ answer' = [answer EXCEPT ![c] =
       IF fetch[entry[c]] \in StopKinds THEN Stop(fetch[entry[c]])
       ELSE [kind |-> fetch[entry[c]], from |-> entry[c]]]
  /\ UNCHANGED <<budgetVars, bound, storeVars, fetchVars, aborted, key, entry, rootVars>>

\* ... or the caller's own signal does.
SignalAbort(c) ==
  /\ c \notin aborted
  /\ phase[c] \in {"idle", "entered", "waiting"}
  /\ aborted' = aborted \cup {c}
  /\ IF phase[c] = "waiting"
     THEN /\ phase' = [phase EXCEPT ![c] = "raced"]
          /\ answer' = [answer EXCEPT ![c] = Stop("aborted")]
     ELSE UNCHANGED <<phase, answer>>
  /\ UNCHANGED <<budgetVars, bound, storeVars, fetchVars, key, entry, rootVars>>

\* Mutants: any leaving waiter abandons; nobody does.
Abandons_Anyone(c) == pending[key[c]] = entry[c]
Abandons_Nobody(c) == FALSE

\* The finally block: the last waiter to leave a fetch still in flight evicts
\* it, gives its node charge back and cancels it.
Abandons(c) == waiters[entry[c]] = 1 /\ pending[key[c]] = entry[c]

Leave(c) ==
  /\ phase[c] = "raced"
  /\ waiters' = [waiters EXCEPT ![entry[c]] = @ - 1]
  /\ phase' = [phase EXCEPT ![c] = "done"]
  /\ IF Abandons(c)
     THEN /\ pending' = [pending EXCEPT ![key[c]] = None]
          /\ ReleaseNode(key[c])
          /\ cancelled' = cancelled \cup {entry[c]}
     ELSE UNCHANGED <<pending, budgetVars, cancelled>>
  /\ UNCHANGED <<bound, outcomes, rootOutcomes, globalStops, fetch, aborted, key, entry, answer, rootVars>>

-----------------------------------------------------------------------------
(* A walk's root: fetched by bare URL, never registered in pending.        *)

RootEnter(r, u) ==
  /\ rootPhase[r] = "idle"
  /\ BindContext(r)
  /\ rootPhase' = [rootPhase EXCEPT ![r] = "entered"]
  /\ rootUrl' = [rootUrl EXCEPT ![r] = u]
  /\ UNCHANGED <<budgetVars, storeVars, fetchVars, callerVars, rootAnswer>>

RootReject(r) ==
  /\ rootPhase[r] = "idle"
  /\ bound \notin {None, ContextOf[r]}
  /\ rootPhase' = [rootPhase EXCEPT ![r] = "rejected"]
  /\ UNCHANGED <<budgetVars, bound, storeVars, fetchVars, callerVars, rootUrl, rootAnswer>>

RootEnds(r, from, a) ==
  /\ rootPhase[r] = from
  /\ rootPhase' = [rootPhase EXCEPT ![r] = "done"]
  /\ rootAnswer' = [rootAnswer EXCEPT ![r] = a]
  /\ UNCHANGED <<rootUrl, bound, pending, globalStops, fetchVars, callerVars>>

\* replaySettledOutcomeForUrl: the root index, else a settled key with this
\* URL (the first one inserted: any of them here).
Replayable(u) ==
  IF rootOutcomes[u] # None THEN {rootOutcomes[u]}
  ELSE {outcomes[k] : k \in {kk \in Keys : UrlOf[kk] = u /\ outcomes[kk] # None}}

RootReplay(r) ==
  /\ rootPhase[r] = "entered"
  /\ \E o \in Replayable(rootUrl[r]) : RootEnds(r, "entered", o)
  /\ UNCHANGED <<budgetVars, outcomes, rootOutcomes>>

RootFetch(r) ==
  /\ rootPhase[r] = "entered"
  /\ Replayable(rootUrl[r]) = {}
  /\ rootPhase' = [rootPhase EXCEPT ![r] = "fetching"]
  /\ UNCHANGED <<budgetVars, bound, storeVars, fetchVars, callerVars, rootUrl, rootAnswer>>

\* recordRootOutcome never overwrites.
RecordRoot(u, o) ==
  LET k == ServedKey[u] IN
  /\ rootOutcomes' = IF rootOutcomes[u] = None
                     THEN [rootOutcomes EXCEPT ![u] = o] ELSE rootOutcomes
  /\ outcomes' = IF o.kind = "ok" /\ outcomes[k] = None
                 THEN [outcomes EXCEPT ![k] = o] ELSE outcomes

\* The document arrived: the root is charged under its real key, whether or
\* not the key was charged already, and recorded.
RootResolved(r) ==
  LET k == ServedKey[rootUrl[r]]
      o == [kind |-> "ok", from |-> r]
  IN /\ RootEnds(r, "fetching", o)
     /\ ~ChargeThrows(k)
     /\ ChargeNode(k)
     /\ RecordRoot(rootUrl[r], o)

\* The charge threw: the walk ends budget-exhausted and nothing is recorded,
\* but the key stays charged.
RootOverBudget(r) ==
  LET k == ServedKey[rootUrl[r]]
  IN /\ RootEnds(r, "fetching", Stop("budget"))
     /\ ChargeThrows(k)
     /\ ChargeNode(k)
     /\ UNCHANGED <<outcomes, rootOutcomes>>

RootFailed(r) ==
  LET o == [kind |-> "failed", from |-> r]
  IN /\ RootEnds(r, "fetching", o)
     /\ RecordRoot(rootUrl[r], o)
     /\ UNCHANGED budgetVars

\* An HTTP-level budget stop, or the walk's own cancellation.
RootStopped(r, stop) ==
  /\ RootEnds(r, "fetching", Stop(stop))
  /\ UNCHANGED <<budgetVars, outcomes, rootOutcomes>>

-----------------------------------------------------------------------------

CallerStep(c) ==
  \/ Enter(c) \/ RejectContext(c)
  \/ \E k \in Keys : \/ ReplayStop(c, k) \/ ReplayOutcome(c, k)
                     \/ StopBeforeStart(c, k) \/ Join(c, k) \/ Start(c, k)
  \/ Deliver(c) \/ SignalAbort(c) \/ Leave(c)

RootStep(r) ==
  \/ \E u \in Urls : RootEnter(r, u)
  \/ RootReject(r) \/ RootReplay(r) \/ RootFetch(r)
  \/ RootResolved(r) \/ RootOverBudget(r) \/ RootFailed(r)
  \/ \E stop \in StopKinds : RootStopped(r, stop)

Next ==
  \/ \E c \in Callers : CallerStep(c) \/ Settle(c)
  \/ \E r \in Roots : RootStep(r)
  \/ \E k \in Keys : RawCharge(k)

\* A fetch ends (every request has a timeout), a settled promise is delivered
\* and a decided wait runs its finally block.  Nobody is obliged to call or to
\* abort.
Fairness == \A c \in Callers : WF_vars(Settle(c)) /\ WF_vars(Deliver(c)) /\ WF_vars(Leave(c))

Spec == Init /\ [][Next]_vars
FairSpec == Spec /\ Fairness

-----------------------------------------------------------------------------
(* Properties.                                                             *)

TypeOK ==
  /\ visited \subseteq Keys /\ nodesVisited \in Int
  /\ bound \in Contexts \cup {None}
  /\ outcomes \in [Keys -> Outcome \cup {None}]
  /\ rootOutcomes \in [Urls -> Outcome \cup {None}]
  /\ pending \in [Keys -> Callers \cup {None}]
  /\ globalStops \subseteq Keys
  /\ fetch \in [Callers -> Running \cup Settled \cup {None}]
  /\ waiters \in [Callers -> Int]
  /\ cancelled \subseteq Callers /\ aborted \subseteq Callers
  /\ phase \in [Callers -> {"idle", "entered", "rejected", "waiting", "raced", "done"}]
  /\ key \in [Callers -> Keys \cup {None}]
  /\ entry \in [Callers -> Callers \cup {None}]
  /\ answer \in [Callers -> Answers]
  /\ rootPhase \in [Roots -> {"idle", "entered", "rejected", "fetching", "done"}]
  /\ rootUrl \in [Roots -> Urls \cup {None}]
  /\ rootAnswer \in [Roots -> Answers]

\* "Fetches one canonical target exactly once": of two fetches started for
\* one key, one was abandoned by everybody who waited on it.
FetchedOnce ==
  \A a, b \in Callers :
    (a # b /\ fetch[a] # None /\ fetch[b] # None /\ key[a] = key[b])
      => (a \in cancelled \/ b \in cancelled)

\* A caller's cancellation never reaches another caller: nobody is told
\* "aborted" whose own signal did not fire.
AbortIsPrivate ==
  \A c \in Callers : answer[c] = Stop("aborted") => c \in aborted

\* A cancelled fetch has no trace in the cache and nobody is waiting on it,
\* however late it settles.
AbandonedLeavesNoTrace ==
  /\ \A k \in Keys : outcomes[k] # None => outcomes[k].from \notin cancelled
  /\ \A c \in Callers : InFlight(c) => entry[c] \notin cancelled

\* The waiter count is the number of callers that have not left yet, and a
\* fetch stays in flight only while somebody waits for it.
WaitersExact ==
  /\ \A f \in Callers :
       waiters[f] = Cardinality({c \in Callers : InFlight(c) /\ entry[c] = f})
  /\ \A k \in Keys : pending[k] # None => waiters[pending[k]] > 0

\* One budget means one request configuration: an answer always comes from a
\* fetch made with the asking caller's own context.
ContextIsolation ==
  /\ \A c \in Callers : (answer[c] # None /\ answer[c].from # None)
                          => ContextOf[answer[c].from] = ContextOf[c]
  /\ \A r \in Roots : (rootAnswer[r] # None /\ rootAnswer[r].from # None)
                          => ContextOf[rootAnswer[r].from] = ContextOf[r]

\* Every caller that hears an outcome of a key hears the same one, whether it
\* started the fetch, joined it or met it in the cache.
CallersAgree ==
  \A c, d \in Callers :
    (key[c] = key[d] /\ answer[c] \in Outcome /\ answer[d] \in Outcome)
      => answer[c] = answer[d]

\* A key settles once per budget.
SettledIsFinal ==
  [][\A k \in Keys : outcomes[k] # None => outcomes'[k] = outcomes[k]]_outcomes

\* A key is reported as a bare duplicate only when a raw Relations step
\* charged it: the layer never meets its own charge as somebody else's.
NoFalseDuplicate ==
  \A k \in Keys : (outcomes[k] # None /\ outcomes[k].kind = "duplicate") => k \in RawKeys

\* Without root walks the layer is exactly the promise of ResolveOnce: every
\* step settles a key, answers a caller truthfully, or is invisible.
Once == INSTANCE ResolveOnce WITH settled <- outcomes, spent <- globalStops,
                                  gone <- aborted, target <- key, told <- answer
ImplementsResolveOnce == Once!Spec

\* A root URL settles once per budget too, with two walks racing on it.
RootOutcomesKept == \A u \in Urls : rootOutcomes[u] # None => rootOutcomes'[u] = rootOutcomes[u]

\* Root walks and references share a document's answers only within a context,
\* and neither replaces what a root URL has settled to.
RootsKeepTheirWord == [][ContextIsolation' /\ RootOutcomesKept]_vars

\* A key whose target did resolve stays charged for the life of the budget.
ResolvedStaysCharged ==
  \A k \in Keys : (outcomes[k] # None /\ outcomes[k].kind = "ok") => k \in visited

\* No more distinct targets are requested or held than maxNodes admits.
NodesWithinBudget ==
  Cardinality({k \in Keys : \/ pending[k] # None /\ fetch[pending[k]] = "http"
                            \/ outcomes[k] # None /\ outcomes[k].kind # "duplicate"}) <= MaxNodes

\* The cache and the node budget tell one story: callers of a key agree on it, the
\* layer never meets a charge of its own as a duplicate, and what resolved is
\* charged, within the limit.
ChargesExact == CallersAgree /\ NoFalseDuplicate /\ ResolvedStaysCharged /\ NodesWithinBudget

\* Whoever asked is answered, whatever the others do.
EveryCallerAnswered ==
  \A c \in Callers : (phase[c] = "waiting") ~> (phase[c] = "done")

(* Promised, and not kept; see "Where the code and its words disagree".   *)
\* A root walk hears that its URL is unusable only if a request for the URL
\* itself failed: a reference with a wrong id says nothing about the document.
RootTruthful ==
  \A r \in Roots : rootAnswer[r] # None => rootAnswer[r].kind \notin {"mismatch", "duplicate"}
=============================================================================
