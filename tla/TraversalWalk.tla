--------------------------- MODULE TraversalWalk ---------------------------
(***************************************************************************)
(* The graph walk of traversal/v1.0/state-machine.ts with the resolver of  *)
(* traversal.ts: a breadth-first walk that settles edges strictly in       *)
(* schedule order while up to FetchConcurrency targets are in flight.  The *)
(* steps are the stretches of the generator between two awaits, and the    *)
(* settling of resolutions, which happens whenever it likes.               *)
(***************************************************************************)
EXTENDS TraversalPlan, FiniteSets

CONSTANTS
  Worlds,            \* graphs: entities, verdicts, what is cached, barred, failing
  Keys,              \* canonical keys
  Root,
  MaxDepth,
  FetchConcurrency,  \* FETCH_CONCURRENCY
  Budgets,           \* requests the caller's budget still pays for
  None

ASSUME WalkAssumption ==
  /\ Root \in Keys /\ None \notin Keys /\ None \notin {"resolved", "not-found", "budget-exhausted"}
  /\ IsFiniteSet(Keys)
  /\ MaxDepth \in Nat /\ Budgets \subseteq Nat
  /\ FetchConcurrency \in Nat \ {0}

\* The shape of a graph: a target has a key, and an answer of its own.
Groups == {"relations.item", "relations.collection", "answer.related_entity", "answer.source_target",
           "evidence.evidence_ref"}
Edges == [group : Groups, index : Nat, to : Keys, declared : STRING, expandable : BOOLEAN, of : {0}]

ASSUME WorldsAssumption ==
  \A w \in Worlds :
    /\ w.verdict \in [Keys -> {"resolved", "not-found"}] /\ w.rootGiven \in BOOLEAN
    /\ \A k \in Keys :
         /\ FoundOn(w, k).edges \in Seq(Edges)
         /\ FoundOn(w, k).collections \in Seq([pages : Seq(Keys), declared : STRING])
         /\ FoundOn(w, k).expansions \in Seq(STRING)

VARIABLES
  world, budget,  \* the input of this walk
  at,             \* where the generator is
  segment,        \* "before", "paging" or "after" the collections of a node
  queue,          \* nodes to visit
  node,           \* the node being visited
  plan,           \* what the planner found on it
  todo,           \* edges of the segment that are not settled
  page,           \* collection, position in it and index within the group
  resolutions, inFlight,
  pool, active,   \* prefetch: occurrences not started; started and not settled
  expandedKeys, emittedNodes, discoveryIndex,
  events,         \* what the consumer was told
  stopReason, incomplete,
  spent,          \* requests charged to the budget
  started,        \* fetches started per key
  cancelled       \* the signal of the walk fired

nodeVars  == <<queue, node, plan, todo, page, segment>>
fetchVars == <<resolutions, inFlight, pool, active, started>>
toldVars  == <<expandedKeys, emittedNodes, discoveryIndex, events>>
stopVars  == <<stopReason, incomplete>>
vars == <<world, budget, at, nodeVars, fetchVars, toldVars, stopVars, spent, cancelled>>

Entity(k)  == world.entity[k]
NoPage     == [collection |-> 1, position |-> 1, index |-> 1]
NoNode     == [key |-> None, depth |-> 0, found |-> 0, expand |-> FALSE, path |-> {}]
NoPlan     == [before |-> <<>>, collections |-> <<>>, after |-> <<>>, expansions |-> <<>>]

\* What the planner finds on a node, its edges split around the collections.
PlanOf(k) ==
  LET found == FoundOn(world, k)
  IN  [before |-> BeforeCollections(found.edges), collections |-> found.collections,
       after |-> AfterCollections(found.edges), expansions |-> found.expansions]

Init ==
  /\ world \in Worlds /\ budget \in Budgets
  /\ at = "root" /\ segment = "before"
  /\ queue = <<>> /\ node = NoNode /\ plan = NoPlan /\ todo = <<>> /\ page = NoPage
  /\ resolutions = [k \in Keys |-> None] /\ inFlight = {}
  /\ pool = <<>> /\ active = {}
  /\ expandedKeys = {} /\ emittedNodes = {} /\ discoveryIndex = 0 /\ events = <<>>
  /\ stopReason = "none" /\ incomplete = FALSE
  /\ spent = 0 /\ started = [k \in Keys |-> 0]
  /\ cancelled = FALSE

-----------------------------------------------------------------------------
(* The resolver: the shared canonical layer seen from one walk.            *)

\* The verdict of a key; a cached outcome costs nothing.  A key may be barred
\* by a limit of its own (cross-origin, nodes), or the requests may run out.
Verdict(k) ==
  IF k \in world.cached THEN world.verdict[k]
  ELSE IF k \in world.barred \/ spent >= budget THEN "budget-exhausted"
  ELSE world.verdict[k]

Charge(k) == spent' = spent + (IF k \in world.cached \/ Verdict(k) = "budget-exhausted" THEN 0 ELSE 1)

Known == {k \in Keys : resolutions[k] # None}

\* The pool starts queued occurrences while it has a free place; a key that is
\* known by then frees its place at once.
Pumped(queued, held, fetching, known) ==
  \E open \in {Keep(queued, {i \in DOMAIN queued : queued[i] \notin known})} :
    LET free == FetchConcurrency - Cardinality(held)
        n    == IF Len(open) < free THEN Len(open) ELSE free
        now  == {open[i] : i \in 1 .. n}
    IN  /\ pool' = SubSeq(open, n + 1, Len(open))
        /\ active' = held \cup now /\ inFlight' = fetching \cup now
        /\ started' = [k \in Keys |-> started[k] + (IF k \in now \ inFlight THEN 1 ELSE 0)]

\* A resolution in flight settles, and the pool goes on.
Settle(k) ==
  /\ k \in inFlight
  /\ Charge(k)
  /\ resolutions' = [resolutions EXCEPT ![k] = Verdict(k)]
  /\ Pumped(pool, active \ {k}, inFlight \ {k}, Known \cup {k})
  /\ UNCHANGED <<world, budget, at, nodeVars, toldVars, stopVars, cancelled>>

\* A resolution is rejected because the walk was cancelled: nothing is cached,
\* and the generator throws if it is waiting for this one.
Reject(k) ==
  /\ cancelled /\ k \in inFlight
  /\ Pumped(pool, active \ {k}, inFlight \ {k}, Known)
  /\ at' = IF at = "await" /\ Head(todo).to = k THEN "failed" ELSE at
  /\ UNCHANGED <<world, budget, nodeVars, resolutions, toldVars, stopVars, spent, cancelled>>

\* The caller's signal fires, or the consumer returned.
Cancel ==
  /\ ~cancelled /\ cancelled' = TRUE
  /\ UNCHANGED <<world, budget, at, nodeVars, fetchVars, toldVars, stopVars, spent>>

-----------------------------------------------------------------------------
(* The root.                                                               *)

PendingRoot(expand) == [key |-> Root, depth |-> 0, found |-> 0, expand |-> expand, path |-> {}]

\* An entity root is resolved already; a URL root is asked for like any node.
RootResolves ==
  /\ at = "root" /\ at' = "loop"
  /\ LET r == IF world.rootGiven THEN "resolved" ELSE Verdict(Root)
     IN  /\ resolutions' = [resolutions EXCEPT ![Root] = r]
         /\ queue' = <<PendingRoot(r = "resolved")>>
         /\ expandedKeys' = IF r = "resolved" THEN {Root} ELSE {}
         /\ stopReason' = IF r = "budget-exhausted" THEN "budget" ELSE stopReason
  /\ IF world.rootGiven THEN UNCHANGED spent ELSE Charge(Root)
  /\ UNCHANGED <<world, budget, segment, node, plan, todo, page, inFlight, pool, active, started,
                 emittedNodes, discoveryIndex, events, incomplete, cancelled>>

RootRejected ==
  /\ at = "root" /\ cancelled /\ ~world.rootGiven
  /\ at' = "failed"
  /\ UNCHANGED <<world, budget, nodeVars, fetchVars, toldVars, stopVars, spent, cancelled>>

-----------------------------------------------------------------------------
(* One node.                                                               *)

Tells(list) == events' = events \o list

\* The head of the loop: the next node is told, unless it was, and planned, if
\* it is one to expand.
Visit ==
  /\ at = "loop" /\ queue # <<>>
  /\ LET n == Head(queue)
         expands == n.expand /\ resolutions[n.key] = "resolved"
     IN  /\ node' = n /\ queue' = Tail(queue)
         /\ plan' = IF expands THEN PlanOf(n.key) ELSE NoPlan
         /\ Tells(IF n.key \in emittedNodes THEN <<>> ELSE <<[told |-> "node", key |-> n.key]>>)
         /\ emittedNodes' = emittedNodes \cup {n.key}
         /\ at' = IF expands THEN "planned" ELSE "loop"
  /\ segment' = "before" /\ todo' = <<>> /\ page' = NoPage
  /\ UNCHANGED <<world, budget, fetchVars, expandedKeys, discoveryIndex, stopVars, spent, cancelled>>

Finish ==
  /\ at = "loop" /\ queue = <<>> /\ at' = "done"
  /\ UNCHANGED <<world, budget, nodeVars, fetchVars, toldVars, stopVars, spent, cancelled>>

\* Mutant: a self-reference and a reference to the root are not seen as cycles.
OnAncestorPath_Parents(n, key) == key \in n.path

\* The target is on the path of this very occurrence.
OnAncestorPath(n, key) == key = n.key \/ key \in n.path

\* Whether an occurrence passes the guards that come before a lookup.
Fetchable(edge) ==
  /\ node.depth + 1 <= MaxDepth
  /\ ~OnAncestorPath(node, edge.to)
  /\ edge.to \notin expandedKeys

\* What a batch prefetches: each unknown key once, in schedule order.
Prefetchable(edges) ==
  Keep([n \in DOMAIN edges |-> edges[n].to],
       {n \in DOMAIN edges :
          /\ Fetchable(edges[n]) /\ edges[n].to \notin Known \cup inFlight
          /\ \A m \in 1 .. n - 1 : ~(Fetchable(edges[m]) /\ edges[m].to = edges[n].to)})

PrefetchBatch(edges) ==
  /\ \E keys \in {Prefetchable(edges)} : Pumped(pool \o keys, active, inFlight, Known)
  /\ UNCHANGED resolutions

\* Mutant: what follows the collections is prefetched along with what precedes.
StartBefore_All ==
  /\ at = "planned" /\ at' = "settle"
  /\ todo' = plan.before
  /\ PrefetchBatch(plan.before \o plan.after)
  /\ UNCHANGED <<world, budget, queue, node, plan, page, segment, toldVars, stopVars, spent, cancelled>>

StartBefore ==
  /\ at = "planned" /\ at' = "settle"
  /\ todo' = plan.before
  /\ PrefetchBatch(plan.before)
  /\ UNCHANGED <<world, budget, queue, node, plan, page, segment, toldVars, stopVars, spent, cancelled>>

-----------------------------------------------------------------------------
(* One edge: settleEdge and emitDiscovery.                                 *)

EdgeEvent(told, edge, outcome, status) ==
  [told |-> told, from |-> node.key, to |-> edge.to, group |-> edge.group, index |-> edge.index,
   outcome |-> outcome, status |-> status]

\* The fate of an occurrence that is not looked up, in the order of the checks.
Fate(edge) ==
  CASE stopReason = "budget"                      -> "budget-exhausted"
    [] stopReason # "budget" /\ node.depth + 1 > MaxDepth -> "depth-limit"
    [] stopReason # "budget" /\ node.depth + 1 <= MaxDepth /\ OnAncestorPath(node, edge.to) -> "cycle"
    [] OTHER -> IF edge.to \in expandedKeys THEN "already-expanded" ELSE "lookup"

\* After an edge of a page comes the next item, else the next of the segment.
Onwards == at' = IF segment = "paging" THEN "page" ELSE "settle"

Blocked ==
  /\ at = "settle" /\ todo # <<>> /\ Fate(Head(todo)) # "lookup"
  /\ Tells(<<EdgeEvent("edge", Head(todo), Fate(Head(todo)), "none")>>)
  /\ todo' = Tail(todo) /\ Onwards
  /\ UNCHANGED <<world, budget, queue, node, plan, page, segment, fetchVars, expandedKeys,
                 emittedNodes, discoveryIndex, stopVars, spent, cancelled>>

\* resolveKey: a known key, a fetch to join, or a fetch to start.
LookUp ==
  /\ at = "settle" /\ todo # <<>> /\ Fate(Head(todo)) = "lookup" /\ at' = "await"
  /\ LET k == Head(todo).to
     IN  IF k \in Known \cup inFlight THEN UNCHANGED <<inFlight, started>>
         ELSE inFlight' = inFlight \cup {k} /\ started' = [started EXCEPT ![k] = @ + 1]
  /\ UNCHANGED <<world, budget, nodeVars, resolutions, pool, active, toldVars, stopVars, spent, cancelled>>

\* The verdict of one occurrence: a wrong declared type is its own fault only.
Outcome(edge, r) ==
  CASE r # "resolved" -> [outcome |-> "not-expanded", status |-> r]
    [] r = "resolved" /\ Entity(edge.to).type # edge.declared ->
         [outcome |-> "not-expanded", status |-> "invalid"]
    [] OTHER -> [outcome |-> IF edge.expandable THEN "expanded" ELSE "leaf", status |-> "resolved"]


\* A verified occurrence of a target that may be expanded claims it.
Claims(edge, o) == o.outcome = "expanded"

Settled ==
  /\ at = "await" /\ resolutions[Head(todo).to] # None
  /\ LET edge == Head(todo)
         o == Outcome(edge, resolutions[edge.to])
         told(kind) == EdgeEvent(kind, edge, o.outcome, o.status)
     IN  /\ Tells(IF node.depth = 0 THEN <<told("edge"), told("reference")>> ELSE <<told("edge")>>)
         /\ expandedKeys' = IF Claims(edge, o) THEN expandedKeys \cup {edge.to} ELSE expandedKeys
         /\ queue' = Append(queue, [key |-> edge.to, depth |-> node.depth + 1, found |-> discoveryIndex + 1,
                                    expand |-> o.outcome = "expanded", path |-> node.path \cup {node.key}])
         /\ stopReason' = IF o.status = "budget-exhausted" THEN "budget" ELSE stopReason
  /\ discoveryIndex' = discoveryIndex + 1
  /\ todo' = Tail(todo) /\ Onwards
  /\ UNCHANGED <<world, budget, node, plan, page, segment, fetchVars, emittedNodes, incomplete,
                 spent, cancelled>>

-----------------------------------------------------------------------------
(* The collections of a node, and what comes after them.                   *)

\* What ranks before the collections is settled.
SegmentBeforeDone ==
  /\ at = "settle" /\ todo = <<>> /\ segment = "before"
  /\ segment' = "paging" /\ at' = "page"
  /\ UNCHANGED <<world, budget, queue, node, plan, todo, page, fetchVars, toldVars, stopVars, spent, cancelled>>

Collection == plan.collections[page.collection]
Paging == at = "page" /\ page.collection <= Len(plan.collections)

\* The outer loop gives up on the remaining collections after a budget stop;
\* one that is being read goes on.
MorePages == Paging /\ (page.position > 1 \/ stopReason # "budget")

Turn(collection, position, index) ==
  page' = [collection |-> collection, position |-> position, index |-> index]

\* The pager reads the next item; each costs a request.
PageItem ==
  /\ MorePages /\ page.position <= Len(Collection.pages) /\ spent < budget
  /\ spent' = spent + 1
  /\ todo' = <<CollectionEdge(plan.collections, page.collection, page.position, page.index)>>
  /\ Turn(page.collection, page.position + 1, page.index + 1)
  /\ at' = "settle"
  /\ UNCHANGED <<world, budget, segment, queue, node, plan, fetchVars, toldVars, stopVars, cancelled>>

NextCollection == Turn(page.collection + 1, 1, page.index)

PageEnds ==
  /\ MorePages /\ page.position > Len(Collection.pages)
  /\ NextCollection
  /\ UNCHANGED <<world, budget, at, segment, queue, node, plan, todo, fetchVars, toldVars, stopVars,
                 spent, cancelled>>

\* A page of this world cannot be read, or the signal fires while one is asked
\* for: isAbortStop goes by the name of the error, and an AbortedError has the
\* name "AadpClientError", so an abort too is a failure of the collection.
Unreadable == world.pagesFail \/ cancelled

\* The page may fail before or after its request was charged.
MayCharge == spent' = spent \/ (spent < budget /\ spent' = spent + 1)

\* Mutant: a page that cannot be read leaves no mark on the summary.
PageFails_Silent ==
  /\ MorePages /\ Unreadable
  /\ NextCollection /\ MayCharge
  /\ UNCHANGED <<world, budget, at, segment, queue, node, plan, todo, fetchVars, toldVars, stopVars, cancelled>>

\* A page that cannot be read ends its collection, and the graph is partial.
PageFails ==
  /\ MorePages /\ Unreadable
  /\ NextCollection /\ incomplete' = TRUE /\ MayCharge
  /\ UNCHANGED <<world, budget, at, segment, queue, node, plan, todo, fetchVars, toldVars, stopReason, cancelled>>

\* Mutant: the loop over the pages is not left when the budget ends it.
PageStops_NoBreak ==
  /\ MorePages /\ page.position <= Len(Collection.pages) /\ spent >= budget
  /\ stopReason' = "budget"
  /\ UNCHANGED <<world, budget, at, segment, queue, node, plan, todo, page, fetchVars, toldVars, incomplete,
                 spent, cancelled>>

\* The budget ends in the middle of a collection: no page and no collection
\* is asked for any more.
PageStops ==
  /\ MorePages /\ page.position <= Len(Collection.pages) /\ spent >= budget
  /\ stopReason' = "budget"
  /\ Turn(Len(plan.collections) + 1, 1, page.index)
  /\ UNCHANGED <<world, budget, at, segment, queue, node, plan, todo, fetchVars, toldVars, incomplete,
                 spent, cancelled>>

\* What ranks after the collections is prefetched, unless the budget is gone.
StartAfter ==
  /\ at = "page" /\ ~MorePages
  /\ segment' = "after" /\ at' = "settle"
  /\ todo' = plan.after
  /\ IF stopReason = "budget" THEN UNCHANGED fetchVars
     ELSE PrefetchBatch(plan.after)
  /\ UNCHANGED <<world, budget, queue, node, plan, page, toldVars, stopVars, spent, cancelled>>

\* The expansion records close a node; a budget stop closes the walk with it.
Close ==
  /\ at = "settle" /\ todo = <<>> /\ segment = "after"
  /\ Tells([i \in DOMAIN plan.expansions |->
              [told |-> "expansion", key |-> node.key, field |-> i, outcome |-> plan.expansions[i]]])
  /\ at' = IF stopReason = "budget" THEN "done" ELSE "loop"
  /\ UNCHANGED <<world, budget, nodeVars, fetchVars, expandedKeys, emittedNodes, discoveryIndex,
                 stopVars, spent, cancelled>>

-----------------------------------------------------------------------------

Generator == RootResolves \/ Visit \/ Finish \/ StartBefore \/ Blocked \/ LookUp \/ Settled
               \/ SegmentBeforeDone \/ PageItem \/ PageEnds \/ PageFails \/ PageStops
               \/ RootRejected \/ StartAfter \/ Close

Next == Generator \/ Cancel \/ \E k \in Keys : Settle(k) \/ Reject(k)

Spec == Init /\ [][Next]_vars

\* The consumer reads on, and every resolution settles: each of its requests
\* has a timeout.  Nobody has to cancel.
Fairness == WF_vars(Generator) /\ \A k \in Keys : WF_vars(Settle(k) \/ Reject(k))

FairSpec == Spec /\ Fairness

-----------------------------------------------------------------------------
(* Properties.                                                             *)

TypeOK ==
  /\ world \in Worlds /\ budget \in Budgets
  /\ at \in {"root", "loop", "planned", "settle", "await", "page", "done", "failed"}
  /\ segment \in {"before", "paging", "after"}
  /\ inFlight \subseteq Keys /\ active \subseteq Keys /\ expandedKeys \subseteq Keys
  /\ \A k \in Keys : resolutions[k] \in {None, "resolved", "not-found", "budget-exhausted"}
  /\ emittedNodes \subseteq Keys /\ spent \in 0 .. budget

\* The edges of the node that were not told: those of the segment, those of the
\* collections that are still to be read, and those after them.
ItemsLeft == ItemsFrom(plan.collections, page.collection, page.position)
Unnumbered(e) ==
  IF e.of = 0 THEN e
  ELSE [group |-> e.group, index |-> 0, to |-> e.to, declared |-> e.declared, expandable |-> e.expandable, of |-> e.of]
Segment == [i \in DOMAIN todo |-> Unnumbered(todo[i])]
Rest ==
  CASE at = "planned" -> plan.before \o ItemsLeft \o plan.after
    [] at \in {"settle", "await", "page", "failed"} ->
         IF segment = "after" THEN Segment ELSE Segment \o ItemsLeft \o plan.after
    [] OTHER -> <<>>

\* What the consumer sees is a sequential walk in schedule order: neither the
\* order in which targets settle nor the pool nor the paging shows in it.
AsSeen(n) == [key |-> n.key, depth |-> n.depth, expand |-> n.expand, path |-> n.path]
NodeSeen == AsSeen(node)
QueueSeen == [i \in DOMAIN queue |-> AsSeen(queue[i])]
Phase == IF at \in {"root", "done", "failed"} THEN at ELSE IF at = "loop" THEN "idle" ELSE "visiting"
ItemsTold == page.index - (IF segment = "paging" /\ todo # <<>> THEN 2 ELSE 1)
Cut == stopReason = "budget"
Seen == INSTANCE SequentialWalk WITH
  phase <- Phase, queue <- QueueSeen, node <- NodeSeen, rest <- Rest, read <- ItemsTold,
  claimed <- expandedKeys, met <- emittedNodes, cut <- Cut
ImplementsSequentialWalk == Seen!Spec

\* The keys a walk with no limit but its depth expands: breadth-first closure
\* over references that resolve, have the declared type and may be expanded.
GoodEdges(k) ==
  LET found == FoundOn(world, k)
      items == UNION {{CollectionEdge(found.collections, c, i, i) : i \in DOMAIN found.collections[c].pages} :
                        c \in DOMAIN found.collections}
  IN  {e \in {found.edges[i] : i \in DOMAIN found.edges} \cup items :
         e.expandable /\ world.verdict[e.to] = "resolved" /\ Entity(e.to).type = e.declared}
Reach ==
  LET within[d \in 0 .. MaxDepth] ==
        IF d = 0 THEN {Root}
        ELSE within[d - 1] \cup {e.to : e \in UNION {GoodEdges(k) : k \in within[d - 1]}}
  IN  within[MaxDepth]

EdgesTold(k) == Cardinality({i \in DOMAIN events : events[i].told = "edge" /\ events[i].from = k})
EdgesPlanned(k) == Len(FoundOn(world, k).edges) + Cardinality(Places(FoundOn(world, k).collections))

\* A walk that says it is complete is: everything reachable within the depth was
\* expanded, each of its references was told once, and none was cut off by the
\* budget.
CompleteMeansAll ==
  (at = "done" /\ stopReason = "none" /\ ~incomplete /\ resolutions[Root] = "resolved") =>
    /\ expandedKeys = Reach
    /\ \A k \in expandedKeys : EdgesTold(k) = EdgesPlanned(k)
    /\ \A i \in DOMAIN events : events[i].told = "edge" => events[i].outcome # "budget-exhausted"

\* The pool fetches "exactly the set a sequential walk would have fetched": no
\* target twice, never more than the pool holds, and nothing without an edge
\* that was told its outcome.
FetchesAreUsed ==
  ~cancelled =>
    /\ \A k \in Keys : started[k] <= 1
    /\ Cardinality(inFlight) <= FetchConcurrency
    /\ at = "done" /\ stopReason = "none" =>
         \A k \in Keys : started[k] > 0 =>
           \E i \in DOMAIN events : events[i].told = "edge" /\ events[i].to = k /\ events[i].status # "none"

\* A walk whose resolutions settle ends.
WalkEnds == <>(at \in {"done", "failed"})

(* Promised, and not kept; see "Where the code and its words disagree".   *)
\* "nothing else is ever requested" once the budget is gone.
NothingRequestedAfterStop == [][stopReason = "budget" => started' = started]_vars

\* "An abort is the caller's own decision, so both propagate": only a collection
\* that cannot be read makes the graph incomplete.
AbortPropagates == [][incomplete' # incomplete => world.pagesFail]_vars
=============================================================================
