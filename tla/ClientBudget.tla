---------------------------- MODULE ClientBudget ----------------------------
(***************************************************************************)
(* The budget that a caller hands to every module client of one walk:      *)
(* nodes charged once per canonical key, depth, pages and requests, with   *)
(* one mark per expanded node.                                             *)
(***************************************************************************)
EXTENDS Integers, Sequences, SequencesExt, FiniteSets

CONSTANTS
  Worlds,   \* what the publishers serve and what is asked for
  Keys,     \* canonical keys
  Limits,   \* [nodes, depth, pages, requests]
  None

VARIABLES
  world, limits,
  visitedTargets, nodesVisited, expandedTargets, pagesFetched, requestsMade,
  fetches   \* fetches of a key that were not abandoned

inputVars  == <<world, limits>>
budgetVars == <<visitedTargets, nodesVisited, expandedTargets, pagesFetched, requestsMade, fetches>>

BudgetInit ==
  /\ world \in Worlds /\ limits \in Limits
  /\ visitedTargets = {} /\ nodesVisited = 0 /\ expandedTargets = {}
  /\ pagesFetched = 0 /\ requestsMade = 0 /\ fetches = [k \in Keys |-> 0]

\* Mutant: a node is counted and its key forgotten.
ChargeNode_Unmarked(k) ==
  UNCHANGED visitedTargets /\ nodesVisited' = nodesVisited + (IF k \in visitedTargets THEN 0 ELSE 1)
\* chargeNode: a known key costs nothing; over the limit the key stays marked.
Duplicate(k) == k \in visitedTargets
NodesExceeded == nodesVisited + 1 > limits.nodes
ChargeNode(k) ==
  IF Duplicate(k) THEN UNCHANGED <<visitedTargets, nodesVisited>>
  ELSE visitedTargets' = visitedTargets \cup {k} /\ nodesVisited' = nodesVisited + 1

\* releaseNode gives a charge back, if there is one.
ReleaseNode(k) ==
  /\ visitedTargets' = visitedTargets \ {k}
  /\ nodesVisited' = nodesVisited - (IF k \in visitedTargets THEN 1 ELSE 0)

DepthExceeded(depth) == depth > limits.depth

RequestsExceeded == requestsMade + 1 > limits.requests
ChargeRequest == requestsMade' = requestsMade + 1
\* A request that the signal calls off was charged before, or never is.
CalledOff == UNCHANGED requestsMade \/ (~RequestsExceeded /\ ChargeRequest)

PagesExceeded == pagesFetched + 1 > limits.pages
ChargePage == pagesFetched' = pagesFetched + 1
=============================================================================
