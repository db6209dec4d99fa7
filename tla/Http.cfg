\* Two calls with a retry and two redirects each on one tight budget.
SPECIFICATION FairSpec
CONSTANTS
  q1 = q1  q2 = q2
  Requests = {q1, q2}
  MaxAttempts = 2
  MaxRedirects = 2
  MaxResponseBytes = 1
  MaxChunk = 1
  MaxDelay = 1
  MaxRequests = 3
  MaxCrossOrigin = 1
  MaxTotalBytes = 1
  Deadline = 1
INVARIANT LimitsHold
PROPERTIES HeadersScoped StopsSending EveryCallSettles
CHECK_DEADLOCK FALSE
