----------------------------- MODULE GraphChecks -----------------------------
(***************************************************************************)
(* The checks of the graph traversal suite.  They walk small graphs the    *)
(* package brings along, answered by a resolver in memory: they ask no     *)
(* deployment for anything, depend on no other check and keep nothing for  *)
(* a later one.  What a walk of a graph shows is left open; the walk       *)
(* itself is the module TraversalWalk.                                     *)
(***************************************************************************)
EXTENDS ConformanceSteps

\* A check fails at the first of its n expectations that is not met.
GraphCheck(id, n) == Check(id, {}, [i \in 1 .. n |-> Judges({"failed"})])

CapabilityChecks == <<
  GraphCheck("graph.capability.no_manifest_request", 1),
  GraphCheck("graph.capability.unsupported_is_not_error", 2),
  GraphCheck("graph.capability.exact_match", 1)>>

ExpansionChecks == <<
  GraphCheck("graph.traversal.extension_validated", 3),
  GraphCheck("graph.traversal.extension_scoped", 1),
  GraphCheck("graph.traversal.edge_matrix", 1),
  GraphCheck("graph.traversal.source_targets_opt_in", 2),
  GraphCheck("graph.traversal.metadata_not_fetched", 1)>>

EdgeChecks == <<
  GraphCheck("graph.traversal.cycle_contained", 2),
  GraphCheck("graph.traversal.fanin_not_cycle", 2),
  GraphCheck("graph.traversal.depth_boundary", 2),
  GraphCheck("graph.traversal.edge_outcome_per_occurrence", 2),
  GraphCheck("graph.traversal.blocked_edge_emitted", 3)>>

\* A collection fails in four ways, four things are expected of each, and then
\* pages cleanly.
ScopeChecks == <<
  GraphCheck("graph.traversal.root_identity", 1),
  GraphCheck("graph.traversal.collection_failure_partial", 17),
  GraphCheck("graph.traversal.type_mismatch_scoped", 2)>>

OrderingChecks == <<
  GraphCheck("graph.ordering.property_order_independent", 1),
  GraphCheck("graph.ordering.deterministic", 1),
  GraphCheck("graph.ordering.mixed_order_equivalence", 2)>>

\* The check that aborts a walk does so with a signal of its own.
BudgetChecks == <<
  GraphCheck("graph.budget.walk_local_expansion", 2),
  GraphCheck("graph.budget.no_double_charge", 1),
  GraphCheck("graph.budget.partial_not_complete", 1),
  GraphCheck("graph.budget.no_request_after_abort", 2)>>

StreamingChecks == <<
  GraphCheck("graph.streaming.terminal_event", 2),
  Check("graph.streaming.bounded_memory", {}, <<Judges({"failed", "warning"})>>)>>

CompatChecks == <<GraphCheck("graph.compat.core_only_unchanged", 2)>>

GRAPH_TRAVERSAL_CHECKS ==
  CapabilityChecks \o ExpansionChecks \o EdgeChecks \o ScopeChecks
  \o OrderingChecks \o BudgetChecks \o StreamingChecks \o CompatChecks
=============================================================================
