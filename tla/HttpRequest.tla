---------------------------- MODULE HttpRequest ----------------------------
(***************************************************************************)
(* requestWithPolicy (client/http.ts) with the run-wide budget it charges  *)
(* (client/discovery-budget.ts) and the cross-origin hook of the Relations *)
(* budget: several calls that share one budget, each with its retries, its *)
(* redirect hops, its own timeout and the caller's signal.  The steps are  *)
(* the stretches between two awaits.  What a server, a resolver or a       *)
(* caller's hook does is chosen freely.                                    *)
(***************************************************************************)
EXTENDS Integers, FiniteSets

CONSTANTS
  Requests,          \* calls of requestWithPolicy
  MaxAttempts,       \* retry.maxAttempts; 1 is retry omitted
  MaxRedirects,
  MaxResponseBytes,
  MaxChunk,          \* the largest chunk a body arrives in
  MaxDelay,          \* retry.maxDelayMs
  MaxRequests, MaxCrossOrigin, MaxTotalBytes, Deadline  \* the budget's limits

ASSUME HttpAssumption ==
  /\ IsFiniteSet(Requests)
  /\ MaxAttempts \in Nat \ {0} /\ MaxRedirects \in Nat
  /\ MaxResponseBytes \in Nat /\ MaxChunk \in Nat /\ MaxDelay \in Nat
  /\ MaxRequests \in Nat /\ MaxCrossOrigin \in Nat
  /\ MaxTotalBytes \in Nat /\ Deadline \in Nat

VARIABLES
  now,              \* the clock, since the budget's startedAt
  requestsMade, crossOriginRequestsMade, bytesFetched,
  sent, crossSent,  \* requests really sent, and those to a foreign origin
  bytesRead,        \* bytes really received
  at,               \* per call: "hop", "fetch", "redirect", "body", "tooLarge", "overspent",
                    \* "backoff" or "done"
  attempt, hop,
  origin,           \* of the current hop: "home", "foreign" or "blocked"
  headers,          \* "all", or "safe" ones only
  got,              \* bytes of this response so far
  wakeAt,           \* when the backoff timer fires
  cause,            \* why the call was last retried
  aborted,          \* calls whose signal fired
  result

budgetVars == <<requestsMade, crossOriginRequestsMade, bytesFetched, sent, crossSent, bytesRead>>
hopVars    == <<hop, origin, headers, got>>
vars == <<now, budgetVars, at, attempt, hopVars, wakeAt, cause, aborted, result>>

Errors == {"aborted", "budget", "blocked", "veto", "timeout", "network",
           "tooManyRedirects", "badLocation", "tooLarge", "malformed"}

Init ==
  /\ now = 0
  /\ requestsMade = 0 /\ crossOriginRequestsMade = 0 /\ bytesFetched = 0
  /\ sent = 0 /\ crossSent = 0 /\ bytesRead = 0
  /\ at = [r \in Requests |-> "hop"]
  /\ attempt = [r \in Requests |-> 1] /\ hop = [r \in Requests |-> 0]
  /\ origin = [r \in Requests |-> "home"] /\ headers = [r \in Requests |-> "all"]
  /\ got = [r \in Requests |-> 0] /\ wakeAt = [r \in Requests |-> 0]
  /\ cause = [r \in Requests |-> "none"]
  /\ aborted = {} /\ result = [r \in Requests |-> "none"]

-----------------------------------------------------------------------------
(* Ending and retrying.                                                    *)

Ends(r, res) ==
  /\ at' = [at EXCEPT ![r] = "done"]
  /\ result' = [result EXCEPT ![r] = res]
  /\ UNCHANGED <<attempt, wakeAt, cause>>

\* isRetryableError: the module's own timeout, and every error that is none of
\* its named ones, whoever threw it.
IsRetryable(err) == err \in {"timeout", "network", "badLocation", "veto"}

\* assertRetryFitsDeadline
RetryFits(d) == now < Deadline /\ now + d < Deadline

\* The backoff, or the Retry-After value, is any delay up to the cap.
BacksOff(r, why) == \E d \in 0 .. MaxDelay :
  IF RetryFits(d)
  THEN /\ at' = [at EXCEPT ![r] = "backoff"]
       /\ wakeAt' = [wakeAt EXCEPT ![r] = now + d]
       /\ cause' = [cause EXCEPT ![r] = why]
       /\ UNCHANGED <<attempt, result>>
  ELSE Ends(r, "budget")

MayRetry(r) == attempt[r] < MaxAttempts

\* The catch clause around an attempt.
Fails(r, err) == IF MayRetry(r) /\ IsRetryable(err) THEN BacksOff(r, err) ELSE Ends(r, err)

-----------------------------------------------------------------------------
(* One hop.                                                                *)

\* Mutant: one more than the limit passes.
Exceeds_OneMore(n, max) == n > max + 1

Exceeds(n, max) == n > max

\* The synchronous head of a hop up to the fetch call: signal, deadline,
\* policy, hook, request count, in this order.
Refused(r) ==
  /\ UNCHANGED budgetVars
  /\ \/ r \in aborted /\ Fails(r, "aborted")
     \/ r \notin aborted /\ now >= Deadline /\ Fails(r, "budget")
     \/ r \notin aborted /\ now < Deadline /\ origin[r] = "blocked" /\ Fails(r, "blocked")

\* Mutant: the head of a hop forgets the deadline.
Allowed_Late(r) == r \notin aborted /\ origin[r] # "blocked"

Allowed(r) == r \notin aborted /\ now < Deadline /\ origin[r] # "blocked"

Vetoed(r) == Allowed(r) /\ Fails(r, "veto") /\ UNCHANGED budgetVars

\* What the hook and the request count charge, and what is then sent.
Charged(r) ==
  LET cross == IF origin[r] = "foreign" THEN 1 ELSE 0
      over  == cross = 1 /\ Exceeds(crossOriginRequestsMade + 1, MaxCrossOrigin)
      full  == Exceeds(requestsMade + 1, MaxRequests)
  IN /\ Allowed(r)
     /\ crossOriginRequestsMade' = crossOriginRequestsMade + cross
     /\ requestsMade' = IF over THEN requestsMade ELSE requestsMade + 1
     /\ IF over \/ full
        THEN Fails(r, "budget") /\ UNCHANGED <<sent, crossSent>>
        ELSE /\ at' = [at EXCEPT ![r] = "fetch"]
             /\ sent' = sent + 1 /\ crossSent' = crossSent + cross
             /\ UNCHANGED <<attempt, wakeAt, cause, result>>
     /\ UNCHANGED <<bytesFetched, bytesRead>>

Hop(r) ==
  /\ at[r] = "hop"
  /\ Refused(r) \/ Vetoed(r) \/ Charged(r)
  /\ UNCHANGED <<now, hopVars, aborted>>

\* fetch() rejects: the caller's signal explains everything it can.
FetchRejects(r) ==
  /\ at[r] = "fetch"
  /\ IF r \in aborted THEN Fails(r, "aborted")
     ELSE \E err \in {"timeout", "network", "blocked"} : Fails(r, err)
  /\ UNCHANGED <<now, budgetVars, hopVars, aborted>>

\* A response: a redirect or a final one, whose body is read ...
FetchResolves(r) ==
  /\ at[r] = "fetch"
  /\ \E next \in {"redirect", "body"} : at' = [at EXCEPT ![r] = next]
  /\ got' = [got EXCEPT ![r] = 0]
  /\ UNCHANGED <<now, budgetVars, attempt, hop, origin, headers, wakeAt, cause, aborted, result>>

\* ... or 429/503, retried while attempts are left and final after that.
StatusRetried(r) ==
  /\ at[r] = "fetch" /\ MayRetry(r)
  /\ BacksOff(r, "status")
  /\ UNCHANGED <<now, budgetVars, hopVars, aborted>>

\* Mutant: headers dropped on the way out come back on the way home.
ScopedHeaders_ByTarget(r, to) == IF to = "home" THEN "all" ELSE "safe"

\* A hop to another origin keeps the safe headers only, for good.
ScopedHeaders(r, to) == IF to = origin[r] THEN headers[r] ELSE "safe"

\* The redirect's body is drained; its Location may be no URL at all.
Redirected(r) ==
  /\ at[r] = "redirect"
  /\ \/ /\ hop[r] + 1 > MaxRedirects
        /\ Fails(r, "tooManyRedirects") /\ UNCHANGED hopVars
     \/ /\ hop[r] + 1 <= MaxRedirects
        /\ Fails(r, "badLocation") /\ UNCHANGED hopVars
     \/ /\ hop[r] + 1 <= MaxRedirects
        /\ \E to \in {"home", "foreign", "blocked"} :
             /\ origin' = [origin EXCEPT ![r] = to]
             /\ headers' = [headers EXCEPT ![r] = ScopedHeaders(r, to)]
        /\ hop' = [hop EXCEPT ![r] = @ + 1]
        /\ at' = [at EXCEPT ![r] = "hop"]
        /\ UNCHANGED <<got, attempt, wakeAt, cause, result>>
  /\ UNCHANGED <<now, budgetVars, aborted>>

-----------------------------------------------------------------------------
(* The body: readBodyCapped under the call's combined signal.              *)

\* A chunk beyond the response limit is refused before it is charged.
Chunk(r) ==
  /\ at[r] = "body" /\ r \notin aborted
  /\ \E n \in 1 .. MaxChunk :
       /\ bytesRead' = bytesRead + n
       /\ IF got[r] + n > MaxResponseBytes
          THEN at' = [at EXCEPT ![r] = "tooLarge"] /\ UNCHANGED <<bytesFetched, got>>
          ELSE /\ bytesFetched' = bytesFetched + n
               /\ got' = [got EXCEPT ![r] = @ + n]
               /\ IF Exceeds(bytesFetched + n, MaxTotalBytes) THEN at' = [at EXCEPT ![r] = "overspent"]
                  ELSE UNCHANGED at
  /\ UNCHANGED <<now, requestsMade, crossOriginRequestsMade, sent, crossSent, hop, origin, headers>>
  /\ UNCHANGED <<attempt, wakeAt, cause, aborted, result>>

\* The rest of such a body is cancelled, and only then the refusal thrown: a
\* signal that fires in between is what the caller is told.
Discards(r) ==
  /\ \/ r \in aborted /\ at[r] \in {"tooLarge", "overspent"} /\ Fails(r, "aborted")
     \/ r \notin aborted /\ at[r] = "tooLarge" /\ Fails(r, "tooLarge")
     \/ r \notin aborted /\ at[r] = "overspent" /\ Fails(r, "budget")
  /\ UNCHANGED <<now, budgetVars, hopVars, aborted>>

\* The read loop looks at the signal before it believes that the body ended.
BodyEnds(r) ==
  /\ at[r] = "body"
  /\ IF r \in aborted THEN Fails(r, "aborted")
     ELSE \/ Ends(r, "ok")
          \/ \E err \in {"timeout", "network", "malformed"} : Fails(r, err)
  /\ UNCHANGED <<now, budgetVars, hopVars, aborted>>

-----------------------------------------------------------------------------

\* A new attempt starts from the original URL with the original headers.
Wakes(r) ==
  /\ at[r] = "backoff" /\ now >= wakeAt[r]
  /\ at' = [at EXCEPT ![r] = "hop"]
  /\ attempt' = [attempt EXCEPT ![r] = @ + 1]
  /\ hop' = [hop EXCEPT ![r] = 0]
  /\ origin' = [origin EXCEPT ![r] = "home"]
  /\ headers' = [headers EXCEPT ![r] = "all"]
  /\ UNCHANGED <<now, budgetVars, got, wakeAt, cause, aborted, result>>

\* Mutant: the signal clears the timer and rejects nothing.
SleepAborts_Silent(r) ==
  /\ at[r] = "backoff" /\ r \in aborted
  /\ wakeAt' = [wakeAt EXCEPT ![r] = Deadline + 1]
  /\ UNCHANGED <<now, budgetVars, at, attempt, hopVars, cause, aborted, result>>

SleepAborts(r) ==
  /\ at[r] = "backoff" /\ r \in aborted
  /\ Ends(r, "aborted")
  /\ UNCHANGED <<now, budgetVars, hopVars, aborted>>

Abort(r) ==
  /\ at[r] # "done" /\ r \notin aborted
  /\ aborted' = aborted \cup {r}
  /\ UNCHANGED <<now, budgetVars, at, attempt, hopVars, wakeAt, cause, result>>

\* Bounded by the deadline: nothing looks at the clock after that.
Tick ==
  /\ now < Deadline /\ now' = now + 1
  /\ UNCHANGED <<budgetVars, at, attempt, hopVars, wakeAt, cause, aborted, result>>

Step(r) == Hop(r) \/ FetchRejects(r) \/ FetchResolves(r) \/ StatusRetried(r) \/ Redirected(r)
             \/ Chunk(r) \/ Discards(r) \/ BodyEnds(r) \/ Wakes(r) \/ SleepAborts(r)

Next == Tick \/ \E r \in Requests : Step(r) \/ Abort(r)

Spec == Init /\ [][Next]_vars

\* Time passes, and a call goes on: every wait of it is cut by its timeout or
\* by its timer.
Fairness == WF_vars(Tick) /\ \A r \in Requests : WF_vars(Step(r))

FairSpec == Spec /\ Fairness

-----------------------------------------------------------------------------
(* Properties.                                                             *)

TypeOK ==
  /\ now \in 0 .. Deadline
  /\ requestsMade \in Nat /\ crossOriginRequestsMade \in Nat /\ bytesFetched \in Nat
  /\ sent \in Nat /\ crossSent \in Nat /\ bytesRead \in Nat
  /\ at \in [Requests -> {"hop", "fetch", "redirect", "body", "tooLarge", "overspent", "backoff", "done"}]
  /\ attempt \in [Requests -> 1 .. MaxAttempts]
  /\ hop \in [Requests -> 0 .. MaxRedirects]
  /\ origin \in [Requests -> {"home", "foreign", "blocked"}]
  /\ headers \in [Requests -> {"all", "safe"}]
  /\ got \in [Requests -> 0 .. MaxResponseBytes]
  /\ wakeAt \in [Requests -> Nat]
  /\ cause \in [Requests -> Errors \cup {"none", "status"}]
  /\ aborted \subseteq Requests
  /\ result \in [Requests -> Errors \cup {"none", "ok"}]

\* However calls, retries and hops interleave, no more requests go out than
\* maxRequests, nor to foreign origins than maxCrossOriginRequests.
SendsWithinBudget == sent <= MaxRequests /\ crossSent <= MaxCrossOrigin

\* requestsMade counts requests that go out: at most one per call, its last,
\* was refused by the very charge.
RequestsCounted ==
  requestsMade - sent <= Cardinality({r \in Requests : result[r] = "budget"})

\* Calls stopped for the budget, or about to be, or cancelled before they were told.
CutShort == {r \in Requests : at[r] = "overspent" \/ result[r] \in {"budget", "aborted"}}

\* The bytes overshoot the limit by less than a chunk for every call cut short.
BytesBounded == bytesFetched <= MaxTotalBytes + MaxChunk * Cardinality(CutShort)

\* A caller's headers reach a foreign origin only if they are safe there,
\* whatever chain of redirects and retries led to it.
HeadersStayHome ==
  \A r \in Requests : at[r] = "fetch" /\ headers[r] = "all" => origin[r] = "home"

\* Once a chain of redirects has left an origin, nothing but a new attempt
\* brings the other headers back.
HeadersStayDropped ==
  [][\A r \in Requests : headers[r] = "safe" /\ headers'[r] = "all" => attempt'[r] = attempt[r] + 1]_vars

\* No request goes out once the run's deadline has passed.
NoSendAfterDeadline == [][sent' # sent => now < Deadline]_vars

\* Nor for a call that was cancelled; and only such a call says "aborted".
AbortStopsSending ==
  [][/\ \A r \in aborted : at[r] # "fetch" => at'[r] # "fetch"
     /\ \A r \in Requests : result'[r] = "aborted" => r \in aborted]_vars

\* Blocked, cancelled and malformed exchanges and budget stops are not retried.
NeverRetried ==
  \A r \in Requests :
    cause[r] \notin {"aborted", "budget", "blocked", "tooManyRedirects", "tooLarge", "malformed"}

\* The limits of the run hold for all of its calls together, and what must not be
\* retried is not.
LimitsHold == SendsWithinBudget /\ RequestsCounted /\ BytesBounded /\ NeverRetried

\* Neither a chain of redirects nor a retry in the middle of one sends a caller's
\* headers where they do not belong.
HeadersScoped == []HeadersStayHome /\ HeadersStayDropped

\* Once the deadline has passed or the caller has cancelled nothing more is sent,
\* and only who cancelled is told so.
StopsSending == NoSendAfterDeadline /\ AbortStopsSending

\* Every call comes to an end.
EveryCallSettles == \A r \in Requests : <>(at[r] = "done")

(* Promised, and not kept; see "Where the code and its words disagree".   *)
\* "Retries only a fixed, defined set of transient outcomes: a network/
\* connect-level error, this module's own per-hop timeoutMs, and HTTP 429/503".
OnlyTransientRetried ==
  \A r \in Requests : cause[r] \in {"none", "network", "timeout", "status"}
=============================================================================
