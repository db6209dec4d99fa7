--------------------------- MODULE TraversalPlan ---------------------------
(***************************************************************************)
(* What a graph walk may follow from one resolved entity: the three        *)
(* built-in adapters and the edge planner of traversal/v1.0.  All of it is *)
(* pure.  A reference is [to, declared]: the canonical key it points at    *)
(* and the target_type it declares.  An entity is [type, exts], its        *)
(* extensions in field-name order.                                         *)
(***************************************************************************)
EXTENDS Integers, Sequences, SequencesExt

\* The order of edge groups is fixed, whatever adapters were registered first.
GroupRank(group) ==
  CASE group = "relations.item" -> 0
    [] group = "relations.collection" -> 1
    [] group = "answer.related_entity" -> 2
    [] group = "answer.source_target" -> 3
    [] group = "evidence.evidence_ref" -> 4

\* One edge per reference, numbered in wire order within its group; of is 0, or
\* the collection of the node that the edge is an item of.
EdgesOf(group, refs, expandable) ==
  [i \in DOMAIN refs |-> [group |-> group, index |-> i, to |-> refs[i].to,
                          declared |-> refs[i].declared, expandable |-> expandable, of |-> 0]]

\* An item of a relation set names targets and possibly a collection to page.
ItemTargets(item) ==
  [i \in DOMAIN item.targets |-> [to |-> item.targets[i], declared |-> item.declared]]

RelationsEdges(doc) ==
  EdgesOf("relations.item", FlattenSeq([i \in DOMAIN doc |-> ItemTargets(doc[i])]), TRUE)

RelationsCollections(doc, follow) ==
  IF follow
  THEN LET paged == SelectSeq(doc, LAMBDA item : item.paged)
       IN  [i \in DOMAIN paged |-> [pages |-> paged[i].pages, declared |-> paged[i].declared]]
  ELSE <<>>

AnswerEdges(doc, sources) ==
  EdgesOf("answer.related_entity", doc.related, TRUE)
    \o EdgesOf("answer.source_target", IF sources /\ doc.generated THEN doc.sources ELSE <<>>, TRUE)

\* Only a claim has edges, and an evidence target is a leaf by definition.
EvidenceEdges(doc) ==
  EdgesOf("evidence.evidence_ref", IF doc.claim THEN doc.refs ELSE <<>>, FALSE)

-----------------------------------------------------------------------------
(* The planner: each extension is judged on its own.                       *)

Usable(ext, lookup) == ext.module \in lookup /\ ext.valid

PlannedEdges(ext, context) ==
  CASE ext.module = "relations" -> RelationsEdges(ext.doc)
    [] ext.module = "answer"    -> AnswerEdges(ext.doc, context.sources)
    [] ext.module = "evidence"  -> EvidenceEdges(ext.doc)

PlannedCollections(ext, context) ==
  IF ext.module = "relations" THEN RelationsCollections(ext.doc, context.follow) ELSE <<>>

ExpansionOutcome(ext, context) ==
  CASE ext.module \notin context.lookup -> "unsupported-module"
    [] ext.module \in context.lookup /\ ~ext.valid -> "invalid-extension"
    [] OTHER -> IF PlannedEdges(ext, context) = <<>> /\ PlannedCollections(ext, context) = <<>>
                THEN "no-edges" ELSE "planned"

PlanNode(entity, context) ==
  LET usable == SelectSeq(entity.exts, LAMBDA ext : Usable(ext, context.lookup))
  IN  [edges |-> FlattenSeq([i \in DOMAIN usable |-> PlannedEdges(usable[i], context)]),
       collections |-> FlattenSeq([i \in DOMAIN usable |-> PlannedCollections(usable[i], context)]),
       expansions |-> [i \in DOMAIN entity.exts |-> ExpansionOutcome(entity.exts[i], context)]]

-----------------------------------------------------------------------------
(* The schedule within one node.                                           *)

ScheduledBefore(a, b) ==
  \/ GroupRank(a.group) < GroupRank(b.group)
  \/ a.group = b.group /\ a.index < b.index

\* What is found at the places I of s, in the order earlier, a set of pairs.
Arranged(s, I, earlier) ==
  [n \in 1 .. Cardinality(I) |-> s[CHOOSE i \in I : Cardinality({j \in I : <<j, i>> \in earlier}) = n - 1]]

\* The order of the places themselves, and that of a stable sort by schedule.
InPlace(s) == {x \in (DOMAIN s) \X (DOMAIN s) : x[1] < x[2]}
InSchedule(s) ==
  {x \in (DOMAIN s) \X (DOMAIN s) :
     \/ ScheduledBefore(s[x[1]], s[x[2]])
     \/ x[1] < x[2] /\ ~ScheduledBefore(s[x[2]], s[x[1]])}

Keep(s, I) == Arranged(s, I, InPlace(s))

\* Collection items rank between the relation items and every later group.
RankBefore(edges) == {i \in DOMAIN edges : GroupRank(edges[i].group) < GroupRank("relations.collection")}
BeforeCollections(edges) == Arranged(edges, RankBefore(edges), InSchedule(edges))
AfterCollections(edges)  == Arranged(edges, DOMAIN edges \ RankBefore(edges), InSchedule(edges))

CollectionEdge(collections, c, i, index) ==
  [group |-> "relations.collection", index |-> index, to |-> collections[c].pages[i],
   declared |-> collections[c].declared, expandable |-> TRUE, of |-> c]

\* The items of the collections from place <<c, i>> on, which are not numbered
\* before they are read.
Places(collections) == UNION {{c} \X (DOMAIN collections[c].pages) : c \in DOMAIN collections}
InReading(places) == {x \in places \X places : x[1][1] < x[2][1] \/ (x[1][1] = x[2][1] /\ x[1][2] < x[2][2])}
From(collections, c, i) == {x \in Places(collections) : x[1] > c \/ (x[1] = c /\ x[2] >= i)}
ItemsFrom(collections, c, i) ==
  Arranged([x \in Places(collections) |-> CollectionEdge(collections, x[1], x[2], 0)],
           From(collections, c, i), InReading(Places(collections)))

-----------------------------------------------------------------------------
(* What is found on a node of a world, and the schedule of its edges.      *)

FoundOn(world, k) ==
  PlanNode(world.entity[k], [follow |-> world.follow, sources |-> world.sources, lookup |-> world.lookup])

ScheduleOf(world, k) ==
  BeforeCollections(FoundOn(world, k).edges) \o ItemsFrom(FoundOn(world, k).collections, 1, 1)
    \o AfterCollections(FoundOn(world, k).edges)
=============================================================================
