------------------------- MODULE ReferenceResolution -------------------------
(***************************************************************************)
(* resolveAnswerTargets, resolveAnswerEvidenceV1 and resolveClaimEvidence  *)
(* over the canonical resolution layer: the references of one document are *)
(* resolved one after the other, each with a verdict of its own, and each  *)
(* is reported even when the walk has stopped.  The layer is seen from its *)
(* only caller; CanonicalResolution has the shared one.                    *)
(***************************************************************************)
EXTENDS ClientBudget

VARIABLES
  call,     \* number of the call, one after the other on one budget
  stage,    \* "ready", "over", or waiting for a fetch: "await" its answer, for one
            \* of a key that somebody else "met", or for one that is "refused"
  todo,     \* occurrences that are not reported: [from, index, key, declared, depth]
  reports,  \* occurrences with their verdict
  node,     \* verdict of the target on its own, per key
  outcomes, globalStops, \* the canonical layer
  givenAway, \* per key: charges of another client that the layer gave back
  stopped,  \* partial
  signalled \* the signal of this call fired

\* The verdicts of a target that could not be had.
Failures == {"not-found", "forbidden", "invalid", "blocked"}

\* What an entity refers to: a key, and the type it is declared to have.
References == [to : Keys, declared : STRING]

\* Publishers serve an entity or a failure, and its references, if any, have
\* keys; None is none of the verdicts.
ServedAssumption ==
  \A w \in Worlds : \A k \in Keys :
    /\ w.served[k].refs \in Seq(References)
    /\ ~w.served[k].ok => w.served[k].why \in Failures
CallsAssumption ==
  \A w \in Worlds :
    w.calls # <<>> /\ w.calls \in Seq([asks : {"answer", "answer-evidence", "claim"}, generated : BOOLEAN,
                                       related : Seq(References), sources : Seq(References)])
NoneAssumption == None \notin Failures \cup {"ok", "resolved", "budget-exhausted"}
ASSUME ReferencesAssumption == ServedAssumption /\ CallsAssumption /\ NoneAssumption

refVars == <<call, stage, todo, reports, node, outcomes, globalStops, givenAway, stopped, signalled>>

Call == world.calls[call]
Evidence == Call.asks \in {"answer-evidence", "claim"}

Occurrences(from, refs, depth) ==
  [i \in DOMAIN refs |-> [from |-> from, index |-> i, key |-> refs[i].to, declared |-> refs[i].declared,
                          depth |-> depth]]

\* Evidence follows the references to claims and evidence, under their own index.
EvidenceTypes == {"claim", "evidence"}

\* What a call is asked to resolve: the related entities and, for a generated
\* summary, its sources; or what evidence is claimed to support an answer; or
\* the references of one claim.
Asked ==
  CASE Call.asks = "answer" ->
         (Occurrences(<<"related", 0>>, Call.related, 1)
            \o Occurrences(<<"sources", 0>>, IF Call.generated THEN Call.sources ELSE <<>>, 1))
    [] Call.asks = "answer-evidence" ->
         LET related == Occurrences(<<"related", 0>>, Call.related, 1)
         IN  FlattenSeq([i \in DOMAIN related |-> IF related[i].declared \in EvidenceTypes THEN <<related[i]>> ELSE <<>>])
    [] Call.asks = "claim" -> Occurrences(<<"root", 0>>, Call.related, 1)

RefInit ==
  /\ call = 1 /\ stage = "ready" /\ todo = Asked /\ reports = <<>>
  /\ node = [k \in Keys |-> None]
  /\ outcomes = [k \in Keys |-> None] /\ globalStops = {} /\ givenAway = [k \in Keys |-> 0]
  /\ stopped = FALSE /\ signalled = FALSE

Signal ==
  /\ ~signalled /\ stage # "over" /\ signalled' = TRUE
  /\ UNCHANGED <<inputVars, budgetVars, call, stage, todo, reports, node, outcomes, globalStops, givenAway, stopped>>

-----------------------------------------------------------------------------
(* Verdicts.                                                               *)

\* What the layer records of a fetch.
Outcome(k) == IF world.served[k].ok THEN "ok" ELSE world.served[k].why

\* The target on its own.  Access denied by policy is "forbidden" as evidence and
\* plainly invalid for an answer; Evidence wants one of its own entities.
NodeStatus(k, outcome) ==
  CASE outcome = "blocked" -> IF Evidence THEN "forbidden" ELSE "invalid"
    [] outcome = "ok" -> IF Evidence /\ world.served[k].type \notin EvidenceTypes THEN "invalid" ELSE "resolved"
    [] OTHER -> outcome

\* The occurrence: whoever fetched the target, its type is this reference's own.
Verdict(o, status) ==
  IF status = "resolved" /\ world.served[o.key].type # o.declared THEN "invalid" ELSE status

\* A claim that resolved, and that was declared to be one, has its references
\* walked after the direct ones.
ExpandsClaim(o, status) ==
  /\ Call.asks = "answer-evidence" /\ o.from[1] = "related"
  /\ status = "resolved" /\ world.served[o.key].type = "claim"

\* The references that the report of an occurrence adds to the walk.
Expansion(o, status) ==
  IF ExpandsClaim(o, status) THEN Occurrences(<<"claim", o.key>>, world.served[o.key].refs, 2) ELSE <<>>

Report(o, status) ==
  /\ reports' = Append(reports, [from |-> o.from, index |-> o.index, key |-> o.key,
                                 declared |-> o.declared, status |-> status])
  /\ todo' = Tail(todo) \o Expansion(o, status)

\* The node of a key is recorded once.
Ensure(k, status) == node' = IF node[k] = None THEN [node EXCEPT ![k] = status] ELSE node

-----------------------------------------------------------------------------
(* One occurrence.                                                         *)

Current == Head(todo)
Ready == stage = "ready" /\ todo # <<>>

\* After the stop every reference is still reported.
NotAttempted ==
  /\ Ready /\ stopped
  /\ Report(Current, "budget-exhausted") /\ Ensure(Current.key, "budget-exhausted")
  /\ UNCHANGED <<inputVars, call, budgetVars, stage, outcomes, globalStops, givenAway, stopped, signalled>>

\* Mutant: a stop does not make the result partial.
Partial_Not == FALSE
\* A stop is told to the caller.
Partial == TRUE

\* A global stop before anything is awaited: the depth, a stop that was met at
\* this key before, or the signal when there is no outcome to replay.
Stops(k) ==
  \/ Evidence /\ DepthExceeded(Current.depth)
  \/ k \in globalStops
  \/ outcomes[k] = None /\ signalled

KnownNode(k) == Evidence /\ node[k] # None

StopsAtOnce ==
  /\ Ready /\ ~stopped
  /\ ~KnownNode(Current.key) /\ Stops(Current.key)
  /\ Report(Current, "budget-exhausted") /\ Ensure(Current.key, "budget-exhausted")
  /\ stopped' = Partial
  /\ UNCHANGED <<inputVars, call, budgetVars, stage, outcomes, globalStops, givenAway, signalled>>

\* A node of this walk, or an outcome of this budget, is judged again for this
\* occurrence.
Replayed ==
  /\ Ready /\ ~stopped
  /\ LET k == Current.key
         status == IF KnownNode(k) THEN node[k] ELSE NodeStatus(k, outcomes[k])
     IN  /\ KnownNode(k) \/ (~Stops(k) /\ outcomes[k] # None)
         /\ Ensure(k, status)
         /\ Report(Current, Verdict(Current, status))
  /\ UNCHANGED <<inputVars, call, budgetVars, stage, outcomes, globalStops, givenAway, stopped, signalled>>

\* The layer starts a fetch of every key that has no outcome, and awaits it even
\* where it sends nothing: the node is refused, or the key is charged already.
StartFetch ==
  /\ Ready /\ ~stopped
  /\ LET k == Current.key
     IN  /\ ~KnownNode(k) /\ ~Stops(k) /\ outcomes[k] = None
         /\ stage' = IF Duplicate(k) THEN "met" ELSE IF NodesExceeded THEN "refused" ELSE "await"
         /\ ChargeNode(k)
  /\ UNCHANGED <<inputVars, call, expandedTargets, pagesFetched, requestsMade, fetches, todo, reports, node,
                 outcomes, globalStops, givenAway, stopped, signalled>>

Settles(outcome) ==
  /\ stage' = "ready"
  /\ LET k == Current.key
         status == NodeStatus(k, outcome)
     IN  /\ outcomes' = [outcomes EXCEPT ![k] = outcome]
         /\ Ensure(k, status)
         /\ Report(Current, Verdict(Current, status))
  /\ UNCHANGED <<inputVars, call, visitedTargets, nodesVisited, expandedTargets, pagesFetched, globalStops,
                 givenAway, stopped, signalled>>

Arrives ==
  /\ stage = "await" /\ ~RequestsExceeded
  /\ ChargeRequest
  /\ fetches' = [fetches EXCEPT ![Current.key] = @ + 1]
  /\ Settles(Outcome(Current.key))

\* A key that only the raw walk visited has nothing to be judged by.
MetBefore == stage = "met" /\ Settles("invalid") /\ UNCHANGED <<requestsMade, fetches>>

\* The budget refuses the node or ends the fetch, and the key remembers it.
FetchStopped ==
  /\ stage' = "ready"
  /\ \/ stage = "refused" /\ UNCHANGED requestsMade
     \/ stage = "await" /\ RequestsExceeded /\ ChargeRequest
  /\ globalStops' = globalStops \cup {Current.key} /\ stopped' = Partial
  /\ Ensure(Current.key, "budget-exhausted") /\ Report(Current, "budget-exhausted")
  /\ UNCHANGED <<inputVars, call, visitedTargets, nodesVisited, expandedTargets, pagesFetched, fetches, outcomes,
                 givenAway, signalled>>

\* The only waiter leaves: the fetch is cancelled and the charge of its key given
\* back, though it may be another client's.
Leaves ==
  /\ stage \in {"await", "met", "refused"} /\ stage' = "ready" /\ signalled
  /\ ReleaseNode(Current.key) /\ stopped' = Partial
  /\ givenAway' = [givenAway EXCEPT ![Current.key] = @ + (IF stage = "met" THEN 1 ELSE 0)]
  /\ UNCHANGED requestsMade \/ (stage = "await" /\ ChargeRequest)
  /\ Ensure(Current.key, "budget-exhausted") /\ Report(Current, "budget-exhausted")
  /\ UNCHANGED <<inputVars, call, expandedTargets, pagesFetched, fetches, outcomes, globalStops, signalled>>

Over ==
  /\ stage = "ready" /\ todo = <<>> /\ stage' = "over"
  /\ UNCHANGED <<inputVars, budgetVars, call, todo, reports, node, outcomes, globalStops, givenAway, stopped, signalled>>

\* Another call finds what the layer knows of this budget.
NextCall ==
  /\ stage = "over" /\ call < Len(world.calls)
  /\ UNCHANGED <<inputVars, budgetVars, outcomes, globalStops, givenAway>>
  /\ call' = call + 1 /\ stage' = "ready" /\ todo' = Asked' /\ reports' = <<>>
  /\ node' = [k \in Keys |-> None] /\ stopped' = FALSE /\ signalled' = FALSE

RefStep == NotAttempted \/ StopsAtOnce \/ Replayed \/ StartFetch \/ Arrives \/ MetBefore \/ FetchStopped
             \/ Leaves \/ Over \/ NextCall
RefNext == RefStep \/ Signal
=============================================================================
