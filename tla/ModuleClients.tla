---------------------------- MODULE ModuleClients ----------------------------
(***************************************************************************)
(* Clients of several modules on one budget: a raw Relations walk and a    *)
(* series of Answer and Evidence resolutions, interleaved at every await.  *)
(***************************************************************************)
EXTENDS RelationsWalk, ReferenceResolution

vars == <<inputVars, budgetVars, walkVars, refVars>>

Init == BudgetInit /\ WalkInit /\ RefInit

Next ==
  \/ WalkNext /\ UNCHANGED refVars
  \/ RefNext /\ UNCHANGED walkVars

Spec == Init /\ [][Next]_vars

\* Each client goes on, because each of its requests ends; nobody has to abort.
FairSpec ==
  /\ Spec
  /\ WF_vars(WalkStep /\ UNCHANGED refVars)
  /\ WF_vars(RefStep /\ UNCHANGED walkVars)

-----------------------------------------------------------------------------

\* The node counter is the number of charged keys, and as long as nothing was
\* refused it is within its limit.
TypeOK ==
  /\ nodesVisited = Cardinality(visitedTargets)
  /\ expandedTargets \subseteq Keys
  /\ at \in {"root", "expand", "hint", "fetch", "page", "paging", "edge", "done", "threw"}
  /\ stage \in {"ready", "await", "met", "refused", "over"}
  /\ \A k \in Keys : fetches[k] \in Nat

\* One budget means one fetch of a target, whichever client asks and however
\* often, and one more only where a call that had met the charge of another
\* client was aborted in that moment and gave it away; and only the root of a
\* walk is read before its key is looked at.
FetchedOncePerCharge == \A k \in Keys \ {world.root} : fetches[k] <= 1 + givenAway[k]

Place(o) == [from |-> o.from, index |-> o.index, key |-> o.key, declared |-> o.declared]
Places(s) == [i \in DOMAIN s |-> Place(s[i])]

\* Every reference is reported in the order of the document, the references of
\* resolved claims after the direct ones, and a result is partial exactly if
\* some reference was cut off, with every later one cut off too.
EachReferenceReported ==
  stage = "over" =>
    /\ Places(reports) =
         Places(Asked) \o
           FlattenSeq([i \in DOMAIN reports |-> Places(Expansion(reports[i], reports[i].status))])
    /\ stopped = (\E i \in DOMAIN reports : reports[i].status = "budget-exhausted")
    /\ \A i, j \in DOMAIN reports :
         i < j /\ reports[i].status = "budget-exhausted" => reports[j].status = "budget-exhausted"

\* A reference is resolved if and only if its target is there and is of the
\* type this very reference declares, whoever fetched it first; "invalid" may
\* also stand for a key that only the raw walk has met.
OwnVerdict ==
  \A i \in DOMAIN reports :
    LET r == reports[i]
        target == world.served[r.key]
        right == target.ok /\ target.type = r.declared /\ (Evidence => target.type \in EvidenceTypes)
    IN  /\ r.status = "resolved" => right
        /\ right => \/ r.status \in {"resolved", "budget-exhausted"}
                    \/ r.status = "invalid" /\ outcomes[r.key] # "ok"
        /\ r.status = "not-found" => target.why = "not-found"

\* A resolution's report is complete, ordered and true of every reference.
ReportsTrue == EachReferenceReported /\ OwnVerdict

\* A target of an item has an edge, or an issue says why it has none.
Traced(k, i, t) ==
  \/ \E n \in DOMAIN edges : edges[n].from = k /\ edges[n].item = i /\ edges[n].to = t
  \/ \E n \in DOMAIN issues : issues[n].key = t /\ issues[n].code = "unresolvable"

Walked == {k \in expandedTargets : world.relations[k].valid}
ItemsOf(k) == world.relations[k].items

\* The lists of targets of an item: the inline one, and those of its pages.
Lists(item) == <<item.targets>> \o [p \in DOMAIN item.pages |-> item.pages[p].targets]

\* An item may list a target in two places.
ListedTwice(item, t) ==
  \E p, q \in DOMAIN Lists(item) : \E m \in DOMAIN Lists(item)[p], n \in DOMAIN Lists(item)[q] :
    (p # q \/ m # n) /\ Lists(item)[p][m] = t /\ Lists(item)[q][n] = t

\* No two edges are the same, unless the item lists the target twice.
OneEdgeEach ==
  \A m, n \in DOMAIN edges :
    edges[m] = edges[n] => m = n \/ ListedTwice(ItemsOf(edges[m].from)[edges[m].item], edges[m].to)

\* However cyclic the graph, no place that lists a target has two edges; and a
\* walk that ends and does not call itself partial has lost no inline target of
\* any item it walked.  (The place of a target that was met before has none in a
\* collection whose targets are not fetched.)
EdgesComplete ==
  /\ OneEdgeEach
  /\ at = "done" /\ ~partial =>
       \A k \in Walked : \A i \in DOMAIN ItemsOf(k) : \A n \in DOMAIN ItemsOf(k)[i].targets :
         Traced(k, i, ItemsOf(k)[i].targets[n])

\* Whatever cycles the graph and the cursors have, both clients come to an end.
ClientsEnd == <>(at \in {"done", "threw"} /\ stage = "over" /\ call = Len(world.calls))

(* Promised, and not kept; see "Where the code and its words disagree".   *)
\* "Exactly once per canonical key for the lifetime of the budget".
FetchedAtMostOnce == \A k \in Keys \ {world.root} : fetches[k] <= 1

\* "issues explains every gap": of the targets of collections as well.
GapsExplained ==
  (at = "done" /\ ~partial) =>
    \A k \in Walked : \A i \in DOMAIN ItemsOf(k) : \A p \in DOMAIN ItemsOf(k)[i].pages :
      \A n \in DOMAIN ItemsOf(k)[i].pages[p].targets : Traced(k, i, ItemsOf(k)[i].pages[p].targets[n])

\* "Never throws for a per-branch issue - only for the global stop conditions".
ThrowsOnlyForStops ==
  at = "threw" => aborted \/ requestsMade > limits.requests \/ nodesVisited > limits.nodes
                    \/ ~world.served[world.root].ok
=============================================================================
