---------------------------- MODULE RelationsWalk ----------------------------
(***************************************************************************)
(* traverseRelations: a depth-first walk over the x_relations of entities, *)
(* item by item.  The targets of an item are resolved one after the other, *)
(* then each gets its edge and, when edges are followed, its own relations *)
(* are walked.  The recursion of the code is the stack of frames.          *)
(***************************************************************************)
EXTENDS ClientBudget

VARIABLES
  at,       \* "root", "expand", "item", "hint", "fetch", "page", "paging", "edge", "done", "threw"
  frames,   \* [key, depth, item, found]: entities being expanded, innermost last
  entering, \* [key, depth]: the entity to expand next
  hints,    \* target hints of the item that are not handled
  cursor, seenCursors,
  edges, issues, partial,
  aborted   \* the signal of the walk fired

Items ==
  [cardinality : {"one", "many", "collection"}, type : STRING, targets : Seq(Keys),
   pages : Seq([targets : Seq(Keys), fault : STRING, next : Nat])]

\* Relations that are valid name their targets inline or by a collection, whose
\* cursors lead to pages; what is named has a key.
ASSUME RelationsAssumption ==
  \A w \in Worlds :
    /\ w.root \in Keys
    /\ \A k \in Keys : w.relations[k].valid => w.relations[k].items \in Seq(Items)
    /\ \A k \in Keys : w.relations[k].valid => \A i \in DOMAIN w.relations[k].items :
         LET item == w.relations[k].items[i]
         IN  item.cardinality = "collection" =>
               /\ item.targets = <<>> /\ item.pages # <<>>
               /\ \A p \in DOMAIN item.pages : item.pages[p].next < Len(item.pages)

walkVars == <<at, frames, entering, hints, cursor, seenCursors, edges, issues, partial, aborted>>

WalkInit ==
  /\ at = "root" /\ frames = <<>> /\ entering = None /\ hints = <<>> /\ cursor = 0 /\ seenCursors = {}
  /\ edges = <<>> /\ issues = <<>> /\ partial = FALSE /\ aborted = FALSE

Frame == Last(frames)
Item == world.relations[Frame.key].items[Frame.item]
Amend(frame) == frames' = Append(Front(frames), frame)

Abort ==
  /\ ~aborted /\ at \notin {"done", "threw"} /\ aborted' = TRUE
  /\ UNCHANGED <<inputVars, budgetVars, at, frames, entering, hints, cursor, seenCursors, edges, issues, partial>>

-----------------------------------------------------------------------------
(* The root, and the recursion.                                            *)

ReadRoot ==
  /\ at = "root"
  /\ IF aborted THEN CalledOff ELSE ChargeRequest
  /\ IF aborted \/ RequestsExceeded \/ ~world.served[world.root].ok
     THEN at' = "threw" /\ UNCHANGED <<entering, visitedTargets, nodesVisited, fetches>>
     ELSE /\ ChargeNode(world.root)
          /\ fetches' = [fetches EXCEPT ![world.root] = @ + 1]
          /\ at' = IF ~Duplicate(world.root) /\ NodesExceeded THEN "threw" ELSE "expand"
          /\ entering' = [key |-> world.root, depth |-> 0]
  /\ UNCHANGED <<inputVars, expandedTargets, pagesFetched, frames, hints, cursor, seenCursors, edges,
                 issues, partial, aborted>>

AlreadyExpanded(k) == k \in expandedTargets

\* Back in the loop over the edges of the frame below, or done.
Resume(stack) == at' = IF stack = <<>> THEN "done" ELSE "edge"

\* expand(): once per canonical key; relations that are not valid are an issue.
Expand ==
  /\ at = "expand"
  /\ LET k == entering.key
         fresh == ~AlreadyExpanded(k)
     IN  /\ expandedTargets' = expandedTargets \cup {k}
         /\ IF fresh /\ world.relations[k].valid
            THEN /\ frames' = Append(frames, [key |-> k, depth |-> entering.depth, item |-> 0, found |-> <<>>])
                 /\ at' = "edge"
                 /\ UNCHANGED <<issues, partial>>
            ELSE /\ Resume(frames) /\ UNCHANGED frames
                 /\ partial' = (partial \/ fresh)
                 /\ issues' = IF fresh THEN Append(issues, [code |-> "invalid", key |-> k]) ELSE issues
  /\ entering' = None
  /\ UNCHANGED <<inputVars, visitedTargets, nodesVisited, pagesFetched, requestsMade, fetches, hints,
                 cursor, seenCursors, edges, aborted>>

\* Each target of the item gets its edge; one that was fetched may be expanded.
Edge ==
  /\ at = "edge" /\ Frame.found # <<>>
  /\ LET target == Head(Frame.found)
     IN  /\ edges' = Append(edges, [from |-> Frame.key, item |-> Frame.item, to |-> target.key,
                                    depth |-> Frame.depth + 1])
         /\ Amend([Frame EXCEPT !.found = Tail(@)])
         /\ IF world.followEdges /\ target.fetched
            THEN at' = "expand" /\ entering' = [key |-> target.key, depth |-> Frame.depth + 1]
            ELSE UNCHANGED <<at, entering>>
  /\ UNCHANGED <<inputVars, budgetVars, hints, cursor, seenCursors, issues, partial, aborted>>

Leave(stack) == frames' = stack /\ Resume(stack)

\* The next item of the entity is dispatched on its cardinality; too deep, and
\* the rest of this entity is given up.
NextItem ==
  /\ at = "edge" /\ Frame.found = <<>> /\ Frame.item < Len(world.relations[Frame.key].items)
  /\ IF DepthExceeded(Frame.depth + 1)
     THEN /\ partial' = TRUE /\ issues' = Append(issues, [code |-> "budget", key |-> Frame.key])
          /\ Leave(Front(frames)) /\ UNCHANGED <<hints, cursor, seenCursors>>
     ELSE LET item == world.relations[Frame.key].items[Frame.item + 1]
          IN  /\ Amend([Frame EXCEPT !.item = @ + 1])
              /\ hints' = item.targets
              /\ at' = IF item.cardinality = "collection" THEN "page" ELSE "hint"
              /\ cursor' = 0 /\ seenCursors' = {}
              /\ UNCHANGED <<issues, partial>>
  /\ UNCHANGED <<inputVars, budgetVars, entering, edges, aborted>>

NoMoreItems ==
  /\ at = "edge" /\ Frame.found = <<>> /\ Frame.item = Len(world.relations[Frame.key].items)
  /\ Leave(Front(frames))
  /\ UNCHANGED <<inputVars, budgetVars, entering, hints, cursor, seenCursors, edges, issues, partial, aborted>>

-----------------------------------------------------------------------------
(* The targets of one item.                                                *)

Found(k, fetched) == Amend([Frame EXCEPT !.found = Append(@, [key |-> k, fetched |-> fetched])])

\* A global stop ends the item and keeps what it found, unless the item is a
\* single target: then it leaves resolveRelationItem, a spent budget ends this
\* entity and a cancelled walk throws.
Stop(why) ==
  IF Item.cardinality # "one"
  THEN /\ partial' = TRUE /\ issues' = Append(issues, [code |-> why, key |-> Frame.key])
       /\ at' = "edge" /\ UNCHANGED frames
  ELSE IF why = "budget"
  THEN /\ partial' = TRUE /\ issues' = Append(issues, [code |-> why, key |-> Frame.key])
       /\ Leave(Front(frames))
  ELSE at' = "threw" /\ UNCHANGED <<frames, issues, partial>>

\* The budget refuses the request, or the signal calls it off; where both are
\* there, either may have come first.
RefusedOrCalledOff ==
  \/ RequestsExceeded /\ Stop("budget") /\ ChargeRequest
  \/ aborted /\ Stop("aborted") /\ CalledOff

NextPage == IF Item.cardinality = "collection" THEN "page" ELSE "edge"

HintsDone ==
  /\ at = "hint" /\ hints = <<>>
  /\ at' = NextPage
  /\ UNCHANGED <<inputVars, budgetVars, frames, entering, hints, cursor, seenCursors, edges, issues, partial, aborted>>

\* The targets of a collection are fetched only on request.
HintOnly == Item.cardinality = "collection" /\ ~world.resolveCollectionTargets

\* Mutant: a target that was met before leaves no edge.
EdgeForDuplicate_No == FALSE
\* A target that was visited before still has its edge, without its entity,
\* but not in a collection whose targets are not fetched.
EdgeForDuplicate == ~HintOnly

ChargeHint ==
  /\ at = "hint" /\ hints # <<>>
  /\ LET k == Head(hints)
     IN  /\ ChargeNode(k)
         /\ IF Duplicate(k)
            THEN /\ IF EdgeForDuplicate THEN Found(k, FALSE) ELSE UNCHANGED frames
                 /\ hints' = Tail(hints) /\ UNCHANGED <<at, issues, partial>>
            ELSE IF NodesExceeded THEN Stop("budget") /\ hints' = <<>>
            ELSE IF HintOnly THEN Found(k, FALSE) /\ hints' = Tail(hints) /\ UNCHANGED <<at, issues, partial>>
            ELSE at' = "fetch" /\ UNCHANGED <<frames, hints, issues, partial>>
  /\ UNCHANGED <<inputVars, expandedTargets, pagesFetched, requestsMade, fetches, entering, cursor,
                 seenCursors, edges, aborted>>

\* The entity arrives, or the target is an issue of its own.
Fetched ==
  /\ at = "fetch" /\ ~RequestsExceeded
  /\ ChargeRequest
  /\ LET k == Head(hints)
         answer == world.served[k]
     IN  /\ fetches' = [fetches EXCEPT ![k] = @ + 1]
         /\ IF answer.ok /\ answer.type = Item.type
            THEN Found(k, TRUE) /\ UNCHANGED issues
            ELSE issues' = Append(issues, [code |-> "unresolvable", key |-> k]) /\ UNCHANGED frames
  /\ hints' = Tail(hints) /\ at' = "hint"
  /\ UNCHANGED <<inputVars, visitedTargets, nodesVisited, expandedTargets, pagesFetched, entering, cursor,
                 seenCursors, edges, partial, aborted>>

\* Mutant: a fetch that the budget refuses is never settled.
FetchStops_OnlyAbort ==
  /\ at = "fetch" /\ aborted
  /\ Stop("aborted") /\ hints' = <<>>
  /\ CalledOff
  /\ UNCHANGED <<inputVars, visitedTargets, nodesVisited, expandedTargets, pagesFetched, fetches, entering,
                 cursor, seenCursors, edges, aborted>>

FetchStops ==
  /\ at = "fetch" /\ hints' = <<>>
  /\ RefusedOrCalledOff
  /\ UNCHANGED <<inputVars, visitedTargets, nodesVisited, expandedTargets, pagesFetched, fetches, entering,
                 cursor, seenCursors, edges, aborted>>

-----------------------------------------------------------------------------
(* The pages of a collection.                                              *)

PageAt(c) == Item.pages[c + 1]
Loops(next) == next \in seenCursors

\* The page that was read is followed by another one, or the collection ends.
TurnPage ==
  /\ at = "page"
  /\ LET first == cursor = 0 /\ seenCursors = {}
         next == IF first THEN 0 ELSE PageAt(cursor).next
         ends == ~first /\ next = 0
     IN  IF ends THEN at' = "edge" /\ UNCHANGED <<frames, cursor, seenCursors, issues, partial, pagesFetched>>
         ELSE IF ~first /\ Loops(next)
         THEN /\ partial' = TRUE /\ issues' = Append(issues, [code |-> "cycle", key |-> Frame.key])
              /\ at' = "edge" /\ UNCHANGED <<frames, cursor, seenCursors, pagesFetched>>
         ELSE /\ ChargePage /\ cursor' = next /\ seenCursors' = seenCursors \cup {next}
              /\ IF PagesExceeded THEN Stop("budget")
                 ELSE at' = "paging" /\ UNCHANGED <<frames, issues, partial>>
  /\ UNCHANGED <<inputVars, visitedTargets, nodesVisited, expandedTargets, requestsMade, fetches, entering,
                 hints, edges, aborted>>

\* The failures of a page that end its collection; any other one is thrown on,
\* a timeout or a malformed response among them.
Contained(fault) == fault \in {"mismatch", "schema", "status", "blocked", "version", "checksum"}

PageArrives ==
  /\ at = "paging" /\ ~RequestsExceeded
  /\ ChargeRequest
  /\ LET fault == PageAt(cursor).fault
     IN  IF fault = "none" THEN hints' = PageAt(cursor).targets /\ at' = "hint" /\ UNCHANGED <<issues, partial>>
         ELSE IF Contained(fault)
         THEN /\ partial' = TRUE /\ issues' = Append(issues, [code |-> fault, key |-> Frame.key])
              /\ at' = "edge" /\ UNCHANGED hints
         ELSE at' = "threw" /\ UNCHANGED <<hints, issues, partial>>
  /\ UNCHANGED <<inputVars, visitedTargets, nodesVisited, expandedTargets, pagesFetched, fetches, frames,
                 entering, cursor, seenCursors, edges, aborted>>

PageStops ==
  /\ at = "paging" /\ RefusedOrCalledOff
  /\ UNCHANGED <<inputVars, visitedTargets, nodesVisited, expandedTargets, pagesFetched, fetches, entering,
                 hints, cursor, seenCursors, edges, aborted>>

WalkStep == ReadRoot \/ Expand \/ Edge \/ NextItem \/ NoMoreItems \/ HintsDone \/ ChargeHint \/ Fetched
              \/ FetchStops \/ TurnPage \/ PageArrives \/ PageStops
WalkNext == WalkStep \/ Abort
=============================================================================
