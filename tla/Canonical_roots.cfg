\* Two references and two root walks on one document, one reference lying
\* about its id; a second context.
SPECIFICATION Spec
CONSTANTS
  kA = kA  kB = kB  kL = kL  urlA = urlA  urlB = urlB
  c1 = c1  c2 = c2  c3 = c3  c4 = c4  r1 = r1  r2 = r2  ctx1 = ctx1  ctx2 = ctx2
  None = None
  Keys <- LyingKey
  Urls <- OneUrl
  UrlOf <- MCUrlOf
  ServedKey <- MCServedKey
  RawKeys <- NoKeys
  Callers = {c1, c2, c3}
  Roots = {r1, r2}
  Contexts = {ctx1, ctx2}
  ContextOf <- TwoContexts
  MaxNodes = 1
PROPERTY RootsKeepTheirWord
CHECK_DEADLOCK FALSE
