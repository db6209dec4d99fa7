----------------------------- MODULE RunOptions -----------------------------
(***************************************************************************)
(* Which options a conformance run accepts.  A caller's options are the    *)
(* set of what it supplied; a value that makes no sense is in it under a   *)
(* name of its own.  What is refused here is thrown before the first       *)
(* request and never becomes a verdict on the deployment.                  *)
(***************************************************************************)

\* A limit of 0 under which not even the first request could be made.
ZeroLimits == {"timeoutMs=0", "maxResponseBytes=0", "maxPages=0", "deadlineMs=0", "maxTotalBytes=0"}

\* Limits of 0 that only narrow what is followed, and are accepted:
\* "maxRedirects=0", "maxDepth=0", "maxNodes=0", "maxCrossOriginRequests=0".

CoreOptions(o) ==
  o \cap (ZeroLimits \cup {"maxEntities=0", "maxSitemaps=0", "negativeTargets.x=?"}) = {}

\* The Relations runner leaves the numbers to its budget and to the client.
RelationsOptions(profile, o) ==
  profile = "relations-authenticated" => "headers" \in o

ResolverOptions(o) ==
  o \cap (ZeroLimits \cup {"maxRequests=0", "retry.maxAttempts=0"}) = {}

AnswerOptions(o) == ResolverOptions(o) /\ "now=?" \notin o

EvidenceOptions(o) == ResolverOptions(o) /\ o \cap {"now=?", "freshnessMaxAgeMs=-1"} = {}

GraphOptions(o) ==
  o \cap {"timeoutMs=0", "maxResponseBytes=0", "retry.maxAttempts=0", "sampleRootUrl=?", "headers=?", "onCheck=?"} = {}

Usable(suite, o) ==
  /\ "baseUrl=?" \notin o /\ "profile=?" \notin o
  /\ CASE suite = "core"     -> CoreOptions(o) /\ "baseUrl" \in o
       [] suite = "answer"   -> AnswerOptions(o)
       [] suite = "evidence" -> EvidenceOptions(o)
       [] suite = "graph"    -> GraphOptions(o)
       [] OTHER              -> RelationsOptions(suite, o)
=============================================================================
