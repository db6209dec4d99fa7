--------------------------- MODULE MCTraversalWalk ---------------------------
(***************************************************************************)
(* Graphs for TraversalWalk: a diamond with a cycle, a self-reference and  *)
(* a path beyond the depth, a node with every kind of extension, and a wide star.       *)
(***************************************************************************)
EXTENDS TraversalWalk

\* Relation items that each name one list of targets of type "t".
ItemTo(targets) == [targets |-> targets, declared |-> "t", paged |-> FALSE, pages |-> <<>>]
PagedItem(pages) == [targets |-> <<>>, declared |-> "t", paged |-> TRUE, pages |-> pages]
Relations(items) == [module |-> "relations", valid |-> TRUE, doc |-> items]
Node(items) == [type |-> "t", exts |-> <<Relations(items)>>]
Ref(k) == [to |-> k, declared |-> "t"]
Answer(related, sources) ==
  [module |-> "answer", valid |-> TRUE, doc |-> [related |-> related, generated |-> TRUE, sources |-> sources]]
Claim(refs) == [module |-> "evidence", valid |-> TRUE, doc |-> [claim |-> TRUE, refs |-> refs]]
Leaf == [type |-> "t", exts |-> <<>>]
Other == [type |-> "u", exts |-> <<>>]

Diamond == <<Node(<<ItemTo(<<2, 3>>), ItemTo(<<4>>)>>),
             Node(<<ItemTo(<<4, 1, 2>>)>>),
             Node(<<ItemTo(<<4, 2>>)>>),
             Node(<<ItemTo(<<5, 3>>)>>),
             Leaf>>

Wide == <<Node(<<ItemTo(<<2, 3, 4, 5>>)>>), Leaf, Leaf, Leaf, Leaf>>

Mixed == <<[type |-> "t", exts |-> <<Answer(<<Ref(4)>>, <<Ref(2)>>), Claim(<<Ref(5)>>),
                                     Relations(<<ItemTo(<<2>>), PagedItem(<<3, 2>>), PagedItem(<<5>>)>>),
                                     [module |-> "unknown", valid |-> TRUE, doc |-> <<>>]>>],
           Leaf,
           [type |-> "t", exts |-> <<Claim(<<Ref(5), Ref(4)>>), [Relations(<<>>) EXCEPT !.valid = FALSE]>>],
           Other,
           Node(<<ItemTo(<<2>>)>>)>>

World(entity, missing, cached, barred, given, follow, fail) ==
  [entity |-> entity, verdict |-> [k \in 1 .. 5 |-> IF k \in missing THEN "not-found" ELSE "resolved"],
   cached |-> cached, barred |-> barred, rootGiven |-> given, follow |-> follow, sources |-> follow,
   lookup |-> {"relations", "answer", "evidence"}, pagesFail |-> fail]

MCWorlds ==
  {World(Diamond, {}, {}, {}, TRUE, FALSE, FALSE), World(Diamond, {2}, {3}, {}, FALSE, FALSE, FALSE),
   World(Diamond, {}, {}, {2}, TRUE, FALSE, FALSE), World(Diamond, {1}, {}, {}, FALSE, FALSE, FALSE),
   World(Mixed, {}, {}, {}, TRUE, TRUE, TRUE), World(Mixed, {2}, {4}, {}, TRUE, TRUE, FALSE),
   World(Mixed, {}, {}, {2}, FALSE, TRUE, FALSE), World(Mixed, {}, {}, {}, TRUE, FALSE, FALSE),
   World(Wide, {}, {}, {2}, TRUE, FALSE, FALSE)}
=============================================================================
