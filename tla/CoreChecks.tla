---------------------------- MODULE CoreChecks ----------------------------
(***************************************************************************)
(* The checks of the core conformance suite, in the order they run.        *)
(***************************************************************************)
EXTENDS ConformanceSteps

Bad == Judges({"failed"})

ManifestChecks == <<
  Check("manifest.http", {}, <<Asks("free"), Bad, Keeps("manifestRaw")>>),
  Check("manifest.version", {"manifest.http"}, <<Bad>>),
  Check("manifest.schema", {"manifest.version"}, <<Uses("manifestRaw"), Bad, Keeps("manifest")>>),
  Check("manifest.semantic", {"manifest.schema"}, <<Uses("manifest"), Judges({"failed", "warning"})>>),
  Check("manifest.discovery_entry_point", {"manifest.schema"}, <<Uses("manifest"), Bad>>),
  Check("discovery.manifest_usable", {"manifest.discovery_entry_point"}, <<Asks("free")>>)>>

\* A document is kept before it is judged.
TraversalChecks == <<
  Check("traversal.sitemap_index", {"discovery.manifest_usable"},
        <<Uses("manifest"), Gets("free", "index"), Judges({"failed", "skipped"})>>),
  Check("traversal.sitemap", {"traversal.sitemap_index"},
        <<Uses("index"), Gets("page", "firstSitemap"), Judges({"failed", "skipped"})>>),
  Check("traversal.entity", {"traversal.sitemap"},
        <<Uses("firstSitemap"), Gets("entity", "firstEntity"), Bad>>)>>

\* Mutant: pages of the pagination check are not charged.
PaginationCheck_Free == <<
  Check("pagination.contract", {"traversal.sitemap_index"}, <<Uses("index"), Walks("free")>>)>>
PaginationCheck == <<
  Check("pagination.contract", {"traversal.sitemap_index"}, <<Uses("index"), Walks("page")>>)>>

\* One full and two conditional requests.
CacheValidators(b) == <<Asks(b), Bad, Asks(b), Bad, Asks(b), Bad>>

CacheChecks == <<
  Check("http.cache.sitemap_index", {"traversal.sitemap_index"},
        <<Uses("manifest"), Uses("index")>> \o CacheValidators("free")),
  Check("http.cache.sitemap", {"traversal.sitemap"}, <<Uses("firstSitemap")>> \o CacheValidators("page")),
  Check("http.cache.entity", {"traversal.entity"}, <<Uses("firstEntity")>> \o CacheValidators("entity"))>>

\* A URL that cannot be reached is noted and the next one is tried.
Probe == [Asks("free") EXCEPT !.fault = "note"]

LinkCheck == <<
  Check("links.no_dead_urls", {"manifest.schema"},
        <<Uses("manifest"), Judges({"skipped"}), Probe, Probe, Bad,
          Given({"unreachable"}, Declares("warning"))>>)>>

\* assertErrorEnvelope rethrows a budget stop; whatever else is not an
\* answered error, the caller's abort included, fails the check.
ErrorEnvelope(b) == <<[Asks(b) EXCEPT !.abort = "failed"], Bad>>

ErrorChecks == <<
  Check("errors.not_found", {"traversal.entity"}, <<Needs("unknownEntityUrl")>> \o ErrorEnvelope("entity")),
  Check("errors.unsupported_type", {"traversal.sitemap"}, <<Needs("unknownTypeUrl")>> \o ErrorEnvelope("page"))>>

SafetyCheck == <<
  Check("safety.free_text_is_data", {"manifest.semantic"},
        <<Uses("manifest"), Judges({"warning", "skipped"})>>)>>

CHECKS == ManifestChecks \o TraversalChecks \o PaginationCheck \o CacheChecks
          \o LinkCheck \o ErrorChecks \o SafetyCheck
=============================================================================
