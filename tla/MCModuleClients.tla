--------------------------- MODULE MCModuleClients ---------------------------
(***************************************************************************)
(* Worlds for ModuleClients: a relation graph with a cycle, a shared       *)
(* target, a collection in two pages and one that loops; and answers whose *)
(* references overlap with it, with claims that share their evidence.      *)
(***************************************************************************)
EXTENDS ModuleClients

Here(type, refs) == [ok |-> TRUE, type |-> type, why |-> "none", refs |-> refs]
Gone(why) == [ok |-> FALSE, type |-> "none", why |-> why, refs |-> <<>>]
Ref(k, type) == [to |-> k, declared |-> type]

ToMany(targets, type) == [cardinality |-> "many", type |-> type, targets |-> targets, pages |-> <<>>]
ToOne(k, type) == [ToMany(<<k>>, type) EXCEPT !.cardinality = "one"]
ToCollection(pages, type) == [cardinality |-> "collection", type |-> type, targets |-> <<>>, pages |-> pages]
PageOf(targets, fault, next) == [targets |-> targets, fault |-> fault, next |-> next]
Set(items) == [valid |-> TRUE, items |-> items]
None0 == Set(<<>>)

\* Claims 2 and 3 share evidence 4; 5 cannot be resolved.
Served(five) == <<Here("answer", <<>>), Here("claim", <<Ref(4, "evidence"), Ref(5, "evidence")>>),
                  Here("claim", <<Ref(4, "evidence")>>), Here("evidence", <<>>), Gone(five)>>

AnswerCall(related, sources) == [asks |-> "answer", related |-> related, sources |-> sources, generated |-> TRUE]
EvidenceCall(related) == [asks |-> "answer-evidence", related |-> related, sources |-> <<>>, generated |-> TRUE]
ClaimCall(refs) == [asks |-> "claim", related |-> refs, sources |-> <<>>, generated |-> FALSE]

World(root, relations, calls, five, full, follow) ==
  [root |-> root, relations |-> relations, served |-> Served(five), calls |-> calls,
   resolveCollectionTargets |-> full, followEdges |-> follow]

Cyclic == <<Set(<<ToMany(<<2, 3>>, "claim"), ToOne(4, "evidence"), ToOne(5, "evidence")>>),
            Set(<<ToMany(<<3, 1>>, "claim")>>), Set(<<ToOne(2, "claim")>>), None0, None0>>
Paged(fault, next) ==
  <<Set(<<ToMany(<<2, 2>>, "claim"), ToCollection(<<PageOf(<<3>>, "none", 1), PageOf(<<2, 4>>, fault, next)>>, "claim")>>),
    [valid |-> FALSE, items |-> <<>>], None0, None0, None0>>

Overlap == <<AnswerCall(<<Ref(2, "claim"), Ref(4, "claim")>>, <<Ref(4, "evidence"), Ref(5, "evidence")>>),
             EvidenceCall(<<Ref(1, "answer"), Ref(4, "evidence"), Ref(2, "claim"), Ref(3, "claim")>>)>>
JustOne == <<ClaimCall(<<Ref(5, "evidence"), Ref(2, "evidence"), Ref(1, "evidence")>>)>>

MCWorlds ==
  {World(1, Cyclic, Overlap, "not-found", FALSE, TRUE), World(1, Cyclic, JustOne, "blocked", FALSE, TRUE),
   World(1, Paged("none", 1), JustOne, "forbidden", TRUE, TRUE),
   World(1, Paged("none", 0), JustOne, "invalid", FALSE, FALSE),
   World(1, Paged("mismatch", 0), JustOne, "invalid", TRUE, FALSE),
   World(1, Paged("timeout", 0), JustOne, "invalid", TRUE, FALSE),
   World(5, Cyclic, Overlap, "not-found", FALSE, FALSE)}

MCLimits ==
  {[nodes |-> 9, depth |-> 2, pages |-> 9, requests |-> 99], [nodes |-> 3, depth |-> 9, pages |-> 1, requests |-> 99],
   [nodes |-> 9, depth |-> 1, pages |-> 9, requests |-> 3]}
=============================================================================
