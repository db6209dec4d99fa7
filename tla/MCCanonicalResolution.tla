----------------------- MODULE MCCanonicalResolution -----------------------
(* Small instances of CanonicalResolution.  kA and kB are the real targets *)
(* of two URLs; kL names kA's URL under an id the document does not have.  *)
EXTENDS CanonicalResolution, TLC

CONSTANTS kA, kB, kL, urlA, urlB, c1, c2, c3, c4, r1, r2, ctx1, ctx2

OneKey   == {kA}
TwoKeys  == {kA, kB}
LyingKey == {kA, kL}
OneUrl   == {urlA}
TwoUrls  == {urlA, urlB}

MCUrlOf     == [k \in Keys |-> IF k = kB THEN urlB ELSE urlA]
MCServedKey == [u \in Urls |-> IF u = urlB THEN kB ELSE kA]

OneContext  == [p \in Callers \cup Roots |-> ctx1]
\* c3 comes with other credentials.
TwoContexts == [p \in Callers \cup Roots |-> IF p = c3 THEN ctx2 ELSE ctx1]
NoKeys      == {}
RawB        == {kB}

CallerSymmetry == Permutations(Callers)
=============================================================================
