-------------------------- MODULE MCConformanceRun --------------------------
(* Every suite, with all options, with none, and with some missing.        *)
EXTENDS ConformanceSchedule

AllOptions ==
  {"baseUrl", "sampleEntityUrl", "sampleRegistryUrl", "negativeTargetUrl", "headers", "crossOriginProbeUrl",
   "sampleClaimUrl", "sampleEvidenceUrl", "sampleAnswerUrl", "unknownEntityUrl", "unknownTypeUrl"}

SomeMissing ==
  {AllOptions, {}, AllOptions \ {"baseUrl", "headers"},
   AllOptions \ {"sampleEntityUrl", "sampleClaimUrl", "unknownEntityUrl"},
   (AllOptions \ {"sampleRegistryUrl", "sampleEvidenceUrl", "unknownTypeUrl"}) \cup {"maxNodes=0"},
   AllOptions \cup {"maxPages=0"}}
=============================================================================
