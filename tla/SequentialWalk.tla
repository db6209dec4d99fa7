--------------------------- MODULE SequentialWalk ---------------------------
(***************************************************************************)
(* What a graph walk promises the consumer, with no pool, no pages and no  *)
(* budget: nodes are visited breadth first, the edges of a node are told   *)
(* in schedule order, the fate of each is decided by what was told before  *)
(* it and by the answer for its target, and a spent budget or a collection *)
(* that cannot be read only ever cuts the story short.                     *)
(***************************************************************************)
EXTENDS Integers, Sequences

CONSTANTS
  Worlds, Keys, Root, MaxDepth, None,
  ScheduleOf(_, _),  \* the edges of a key in a world, in order
  FoundOn(_, _)      \* its collections and the outcomes of its extensions

VARIABLES
  world,
  phase,     \* "root", "idle", "visiting", "done" or "failed"
  queue, node,
  rest,      \* edges of the node that are not told, collection items included
  read,      \* collection items told of this node
  claimed,   \* keys whose own edges are, or will be, told
  met,       \* nodes told
  events, cut, incomplete

vars == <<world, phase, queue, node, rest, read, claimed, met, events, cut, incomplete>>

NoNode == [key |-> None, depth |-> 0, expand |-> FALSE, path |-> {}]

Init ==
  /\ world \in Worlds /\ phase = "root"
  /\ queue = <<>> /\ node = NoNode /\ rest = <<>> /\ read = 0
  /\ claimed = {} /\ met = {} /\ events = <<>> /\ cut = FALSE /\ incomplete = FALSE

\* The root is there, or it is a node like any other.
Begin(answer) ==
  /\ phase = "root" /\ phase' = "idle"
  /\ answer \in IF world.rootGiven THEN {"resolved"} ELSE {world.verdict[Root], "budget-exhausted"}
  /\ queue' = <<[key |-> Root, depth |-> 0, expand |-> answer = "resolved", path |-> {}]>>
  /\ claimed' = IF answer = "resolved" THEN {Root} ELSE {}
  /\ cut' = (answer = "budget-exhausted")
  /\ UNCHANGED <<world, node, rest, read, met, events, incomplete>>

Visit ==
  /\ phase = "idle" /\ queue # <<>>
  /\ node' = Head(queue) /\ queue' = Tail(queue) /\ read' = 0
  /\ events' = events \o (IF node'.key \in met THEN <<>> ELSE <<[told |-> "node", key |-> node'.key]>>)
  /\ met' = met \cup {node'.key}
  /\ IF node'.expand THEN phase' = "visiting" /\ rest' = ScheduleOf(world, node'.key)
                     ELSE phase' = "idle" /\ rest' = <<>>
  /\ UNCHANGED <<world, claimed, cut, incomplete>>

Told(told, e, outcome, status) ==
  [told |-> told, from |-> node.key, to |-> e.to, group |-> e.group,
   index |-> IF e.of = 0 THEN e.index ELSE read + 1, outcome |-> outcome, status |-> status]

NextEdge ==
  /\ phase = "visiting" /\ rest # <<>> /\ rest' = Tail(rest)
  /\ read' = read + (IF Head(rest).of = 0 THEN 0 ELSE 1)
  /\ UNCHANGED <<world, phase, node, met, incomplete>>

\* The occurrence is not tried, because of where it leads or of the budget.
NotTried(outcome) ==
  /\ NextEdge
  /\ LET k == Head(rest).to
         cycle == k \in node.path \cup {node.key}
     IN  \/ outcome = "budget-exhausted" /\ cut
         \/ outcome = "depth-limit" /\ ~cut /\ node.depth >= MaxDepth
         \/ outcome = "cycle" /\ ~cut /\ node.depth < MaxDepth /\ cycle
         \/ outcome = "already-expanded" /\ ~cut /\ node.depth < MaxDepth /\ ~cycle /\ k \in claimed
  /\ events' = events \o <<Told("edge", Head(rest), outcome, "none")>>
  /\ UNCHANGED <<queue, claimed, cut>>

\* The occurrence is tried, and the answer for its target decides.
Tried(answer) ==
  /\ NextEdge /\ ~cut /\ node.depth < MaxDepth
  /\ LET e == Head(rest)
         k == e.to
         right == answer = "resolved" /\ world.entity[k].type = e.declared
         outcome == IF ~right THEN "not-expanded" ELSE IF e.expandable THEN "expanded" ELSE "leaf"
         status == IF right \/ answer # "resolved" THEN answer ELSE "invalid"
         told(kind) == Told(kind, e, outcome, status)
     IN  /\ k \notin node.path \cup {node.key} \cup claimed
         /\ answer \in {world.verdict[k], "budget-exhausted"}
         /\ claimed' = IF outcome = "expanded" THEN claimed \cup {k} ELSE claimed
         /\ queue' = Append(queue, [key |-> k, depth |-> node.depth + 1, expand |-> outcome = "expanded",
                                    path |-> node.path \cup {node.key}])
         /\ events' = events \o (IF node.depth = 0 THEN <<told("edge"), told("reference")>>
                                                   ELSE <<told("edge")>>)
  /\ cut' = (answer = "budget-exhausted")

\* The rest of a collection cannot be read, or the budget ends the reading.
Unread ==
  /\ phase = "visiting" /\ FoundOn(world, node.key).collections # <<>>
  /\ \E n \in 0 .. Len(rest) :
       /\ \A i \in 1 .. n : rest[i].of # 0
       /\ rest' = SubSeq(rest, n + 1, Len(rest))
       /\ \/ incomplete' = TRUE /\ UNCHANGED cut
          \/ cut' = TRUE /\ UNCHANGED incomplete /\ (rest' = <<>> \/ Head(rest').of = 0)
  /\ UNCHANGED <<world, phase, queue, node, read, claimed, met, events>>

Close ==
  /\ phase = "visiting" /\ rest = <<>>
  /\ LET found == FoundOn(world, node.key).expansions
     IN  events' = events \o [i \in DOMAIN found |->
           [told |-> "expansion", key |-> node.key, field |-> i, outcome |-> found[i]]]
  /\ phase' = IF cut THEN "done" ELSE "idle"
  /\ UNCHANGED <<world, queue, node, rest, read, claimed, met, cut, incomplete>>

Finish ==
  /\ phase = "idle" /\ queue = <<>> /\ phase' = "done"
  /\ UNCHANGED <<world, queue, node, rest, read, claimed, met, events, cut, incomplete>>

Fail ==
  /\ phase \in {"root", "visiting"} /\ phase' = "failed"
  /\ UNCHANGED <<world, queue, node, rest, read, claimed, met, events, cut, incomplete>>

Next ==
  \/ \E answer \in {"resolved", "not-found", "budget-exhausted"} : Begin(answer) \/ Tried(answer)
  \/ \E outcome \in {"budget-exhausted", "depth-limit", "cycle", "already-expanded"} : NotTried(outcome)
  \/ Visit \/ Unread \/ Close \/ Finish \/ Fail

Spec == Init /\ [][Next]_vars
=============================================================================
