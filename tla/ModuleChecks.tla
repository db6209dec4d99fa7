---------------------------- MODULE ModuleChecks ----------------------------
(***************************************************************************)
(* The checks of the Relations, Answer and Evidence conformance suites.    *)
(* Their runners are the core runner with other checks.                    *)
(***************************************************************************)
EXTENDS ConformanceSteps

LOCAL Bad == Judges({"failed"})

\* discover, and whether the manifest declares the module.
Discovery(id) ==
  Check(id, {}, <<Needs("baseUrl"), Asks("free"), Judges({"failed", "inconclusive"}), Keeps("moduleDeclaration")>>)

(*************************** Relations *************************************)
\* ensureSample...: each document is asked for once and kept.
SampleSet ==
  UnlessAny({"relationSet"},
    <<Unless({"sampleEntity"}, Needs("sampleEntityUrl")),
      Unless({"sampleEntity"}, Gets("free", "sampleEntity")),
      Given({"sampleEntity"}, [Judges({"inconclusive"}) EXCEPT !.gets = {"relationSet"}])>>)

SampleCollection ==
  UnlessAny({"collection"},
    SampleSet \o <<Judges({"inconclusive"}), Uses("sampleEntity"), Gets("free", "collection")>>)

SampleRegistry ==
  UnlessAny({"registry"}, <<Needs("sampleRegistryUrl"), Gets("free", "registry")>>)

RelationsSchemaChecks == <<
  Discovery("relations.discovery.declared"),
  Check("relations.schema.reachable", {"relations.discovery.declared"},
        <<Uses("moduleDeclaration"), Asks("free"), Judges({"failed", "warning"})>>),
  Check("relations.schema.relation_set", {}, SampleSet \o <<Bad>>),
  Check("relations.schema.collection", {"relations.schema.relation_set"}, SampleCollection \o <<Bad>>),
  Check("relations.schema.registry", {}, SampleRegistry \o <<Bad>>)>>

OfTheSet(id) == Check(id, {"relations.schema.relation_set"}, SampleSet \o <<Bad>>)

RelationsSemanticChecks == <<
  OfTheSet("relations.semantic.cardinality"), OfTheSet("relations.semantic.tokens"),
  OfTheSet("relations.semantic.target_identity"), OfTheSet("relations.semantic.duplicate_target")>>

\* The pagination walk has a budget of its own, and calls every error but its
\* end a failure.
RelationsCollectionChecks == <<
  Check("relations.collection.context", {"relations.schema.collection"}, SampleCollection \o <<Bad>>),
  Check("relations.collection.pagination", {"relations.schema.collection"},
        SampleCollection \o <<[Walks("ownPages") EXCEPT !.abort = "failed"]>>),
  Check("relations.collection.checksum", {"relations.schema.collection"}, SampleCollection \o <<Bad>>),
  Check("relations.registry.unique_token", {"relations.schema.registry"}, SampleRegistry \o <<Bad>>),
  Check("relations.registry.checksum", {"relations.schema.registry"}, SampleRegistry \o <<Bad>>)>>

RelationsHttpChecks == <<
  Check("relations.http.errors", {}, <<Needs("negativeTargetUrl"), Asks("free"), Bad>>),
  Check("relations.http.cache", {},
        <<Unless({"sampleRegistryUrl", "collection"}, Declares("inconclusive")),
          Asks("free"), Judges({"warning"}), Asks("free"), Judges({"warning"})>>)>>

\* Each traversal has a budget of its own as well.  Below its root a failure is
\* an issue of the result, whose `partial` a target that cannot be had leaves as
\* it is; a collection that cannot be had sets it, and so does a stop, but a page
\* that times out is thrown.  An abort is thrown at a single target, and makes the
\* result partial among many.
Target(stop) == Maybe([Asks("own") EXCEPT !.fault = "contained", !.stop = stop])

Many(page, stop, abort) ==
  LET Of(fault) == Maybe([Asks("own") EXCEPT !.fault = fault, !.stop = stop, !.abort = abort])
  IN  <<Of(page), Of("failed")>>

\* The checks look at `partial`, at partial for the budget, and at partial without
\* an issue, which never is.  The budget of the third has room for the root alone.
RelationsTraversalChecks == <<
  Check("relations.traversal.budget", {},
        <<Needs("sampleEntityUrl"), Asks("own"), Target("warning")>>
          \o Many("warning", "warning", "warning") \o <<Judges({"warning"})>>),
  Check("relations.traversal.cycle", {"relations.traversal.budget"},
        <<Needs("sampleEntityUrl"), Asks("own"), Target("inconclusive")>>
          \o Many("contained", "inconclusive", "next") \o <<Judges({"inconclusive"})>>),
  Check("relations.traversal.partial", {"relations.traversal.budget"},
        <<Needs("sampleEntityUrl"), Asks("own")>> \o Many("contained", "next", "next"))>>

RelationsSecurityChecks == <<
  Check("relations.security.url_policy", {}, <<Judges({"warning"})>>),
  Check("relations.security.credentials", {},
        <<Unless({"headers"}, Declares("skipped")), Needs("crossOriginProbeUrl"),
          Unless({"baseUrl", "sampleEntityUrl"}, Declares("inconclusive")), Bad, Asks("free"), Bad>>)>>

\* The privacy scan swallows whatever keeps it from a document.
RelationsPrivacyCheck == <<
  Check("relations.privacy.social_graph", {},
        <<Unless({"sampleEntityUrl", "sampleRegistryUrl"}, Declares("inconclusive"))>>
        \o GivenAll({"sampleEntityUrl"}, Swallowed(SampleSet))
        \o GivenAll({"sampleRegistryUrl"}, Swallowed(SampleRegistry)) \o <<Bad>>)>>

RELATIONS_CHECKS ==
  RelationsSchemaChecks \o RelationsSemanticChecks \o RelationsCollectionChecks
  \o RelationsHttpChecks \o RelationsTraversalChecks \o RelationsSecurityChecks \o RelationsPrivacyCheck

\* The profile relations-core schedules these and no others.
CoreProfile ==
  {"relations.discovery.declared", "relations.schema.reachable", "relations.schema.relation_set",
   "relations.schema.registry", "relations.registry.unique_token", "relations.registry.checksum",
   "relations.security.url_policy", "relations.privacy.social_graph"}
  \cup {RelationsSemanticChecks[i].id : i \in DOMAIN RelationsSemanticChecks}

Scheduled(profile) ==
  IF profile = "relations-core"
  THEN SelectSeq(RELATIONS_CHECKS, LAMBDA c : c.id \in CoreProfile)
  ELSE RELATIONS_CHECKS

(***************************** Answer **************************************)
SampleAnswer ==
  UnlessAny({"sampleEntity"}, <<Needs("sampleEntityUrl"), Gets("free", "sampleEntity")>>)

\* resolveAnswerTargets reports a stop as one more unresolved reference, which
\* the check reports as a warning.
ResolvesTargets ==
  [Asks("free") EXCEPT !.fault = "warning", !.stop = "warning", !.abort = "warning"]

AnswerDocumentChecks == <<
  Discovery("answer.discovery"),
  Check("answer.resource", {}, SampleAnswer),
  Check("answer.schema", {"answer.resource"}, SampleAnswer \o <<Bad>>),
  Check("answer.semantic", {"answer.schema"}, SampleAnswer \o <<Bad>>),
  Check("answer.context", {"answer.resource"}, SampleAnswer \o <<Bad>>),
  Check("answer.authorship", {"answer.schema"}, SampleAnswer \o <<Bad>>)>>

AnswerReferenceChecks == <<
  Check("answer.references", {"answer.schema"},
        SampleAnswer \o <<Judges({"inconclusive"}), Uses("sampleEntity"), ResolvesTargets>>),
  Check("answer.freshness", {"answer.schema"}, SampleAnswer \o <<Bad>>),
  Check("answer.security", {"answer.resource"}, SampleAnswer \o <<Judges({"inconclusive", "warning"})>>)>>

ANSWER_CHECKS == AnswerDocumentChecks \o AnswerReferenceChecks

(**************************** Evidence *************************************)
SampleClaim ==
  UnlessAny({"claimEntity"}, <<Needs("sampleClaimUrl"), Gets("free", "claimEntity")>>)
SampleEvidence ==
  UnlessAny({"evidenceEntity"}, <<Needs("sampleEvidenceUrl"), Gets("free", "evidenceEntity")>>)

\* Each sample that the caller supplied.
Samples == GivenAll({"sampleClaimUrl"}, SampleClaim) \o GivenAll({"sampleEvidenceUrl"}, SampleEvidence)

EvidenceDocumentChecks == <<
  Discovery("evidence.discovery"),
  Check("evidence.resource", {},
        <<Unless({"sampleClaimUrl", "sampleEvidenceUrl"}, Declares("inconclusive"))>> \o Samples),
  Check("evidence.schema", {"evidence.resource"}, Samples \o <<Bad>>),
  Check("evidence.semantic", {"evidence.schema"}, Samples \o <<Bad>>),
  Check("evidence.context", {"evidence.resource"}, Samples \o <<Bad>>)>>

\* References that were not found or are invalid are dangling and fail the check;
\* those that are forbidden are left in the graph and excused.
Expands == <<Maybe([Asks("free") EXCEPT !.fault = "contained"]), Maybe(Asks("free")), Bad>>

EvidenceGraphChecks == <<
  Check("evidence.graph", {"evidence.schema"},
        <<Needs("sampleClaimUrl")>> \o SampleClaim
        \o <<Judges({"inconclusive"}), Uses("claimEntity")>> \o Expands),
  Check("evidence.stance", {"evidence.schema"},
        <<Needs("sampleClaimUrl")>> \o SampleClaim \o <<Uses("claimEntity"), Bad>>),
  Check("evidence.provenance", {"evidence.schema"},
        <<Needs("sampleEvidenceUrl")>> \o SampleEvidence \o <<Uses("evidenceEntity"), Bad>>)>>

EvidenceLinkChecks == <<
  Check("evidence.answer_link", {"evidence.schema"},
        <<Needs("sampleAnswerUrl"), Asks("free"), Judges({"failed", "inconclusive"})>> \o Expands),
  Check("evidence.security", {"evidence.resource"},
        <<Unless({"claimEntity", "evidenceEntity"}, Declares("inconclusive")),
          Judges({"failed", "warning", "inconclusive"})>>)>>

EVIDENCE_CHECKS == EvidenceDocumentChecks \o EvidenceGraphChecks \o EvidenceLinkChecks
=============================================================================
