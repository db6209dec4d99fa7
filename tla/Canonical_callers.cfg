\* Three references, two targets, no root walk: maxNodes admits one of them.
SPECIFICATION FairSpec
CONSTANTS
  kA = kA  kB = kB  kL = kL  urlA = urlA  urlB = urlB
  c1 = c1  c2 = c2  c3 = c3  c4 = c4  r1 = r1  r2 = r2  ctx1 = ctx1  ctx2 = ctx2
  None = None
  Keys <- TwoKeys
  Urls <- TwoUrls
  UrlOf <- MCUrlOf
  ServedKey <- MCServedKey
  RawKeys <- RawB
  Callers = {c1, c2, c4}
  Roots = {}
  Contexts = {ctx1, ctx2}
  ContextOf <- OneContext
  MaxNodes = 1
INVARIANTS TypeOK FetchedOnce AbortIsPrivate AbandonedLeavesNoTrace WaitersExact ChargesExact
PROPERTIES ImplementsResolveOnce EveryCallerAnswered
CHECK_DEADLOCK FALSE
