------------------------- MODULE HttpRequest_proofs -------------------------
(***************************************************************************)
(* Proofs for the two parts of the client every walk is made of: first     *)
(* HttpRequest, for any finite set of calls on one budget and any limits   *)
(* of it, then MapConcurrent, the ordered map of a source of such calls.   *)
(***************************************************************************)
EXTENDS HttpRequest, MapConcurrent, FiniteSetTheorems, TLAPS

(***************************************************************************)
(* The inductive invariant, in named parts.                                *)
(***************************************************************************)

\* A call has its result when it is done, and waits only for an attempt it has.
Undecided ==
  \A r \in Requests : /\ at[r] # "done" => result[r] = "none"
                      /\ at[r] = "backoff" => attempt[r] < MaxAttempts

\* The calls that were stopped for the budget.
StoppedCalls == {r \in Requests : result[r] = "budget"}

\* What really went out was charged first.
ChargedFirst == sent <= requestsMade /\ crossSent <= crossOriginRequestsMade

\* Only a chain that never left home has all of the caller's headers.
AllMeansHome == \A r \in Requests : headers[r] = "all" => origin[r] = "home"

ToldOwnAbort == \A r \in Requests : result[r] = "aborted" => r \in aborted

IInv == TypeOK /\ Undecided /\ ChargedFirst /\ LimitsHold /\ AllMeansHome /\ ToldOwnAbort

(***************************************************************************)
(* What a step does to the control state of its call.                      *)
(***************************************************************************)

Waits(r, why, d) ==
  /\ at' = [at EXCEPT ![r] = "backoff"] /\ wakeAt' = [wakeAt EXCEPT ![r] = now + d]
  /\ cause' = [cause EXCEPT ![r] = why] /\ UNCHANGED <<attempt, result>>

Retried == {"timeout", "network", "badLocation", "veto", "status"}

EndsSomehow(r)  == \E res \in Errors \cup {"ok"} : Ends(r, res) /\ (res = "aborted" => r \in aborted)
WaitsSomehow(r) == MayRetry(r) /\ \E why \in Retried, d \in 0 .. MaxDelay : Waits(r, why, d)
GoesOn(r) ==
  /\ UNCHANGED <<wakeAt, cause, result>>
  /\ \/ UNCHANGED <<at, attempt>>
     \/ /\ \E next \in {"hop", "fetch", "redirect", "body", "tooLarge", "overspent"} : at' = [at EXCEPT ![r] = next]
        /\ \/ UNCHANGED attempt
           \/ at[r] = "backoff" /\ attempt' = [attempt EXCEPT ![r] = @ + 1]

\* A backoff that fits the deadline, or the end of the call.
LEMMA BacksOffCases ==
  ASSUME NEW r \in Requests, NEW why \in Retried, MayRetry(r), BacksOff(r, why)
  PROVE  Ends(r, "budget") \/ WaitsSomehow(r)
BY DEF BacksOff, WaitsSomehow, Waits

\* The catch clause ends the call with its error, or retries what may be retried.
LEMMA FailsCases ==
  ASSUME NEW r \in Requests, NEW err \in Errors, Fails(r, err)
  PROVE  /\ err \notin Retried => Ends(r, err)
         /\ Ends(r, err) \/ Ends(r, "budget") \/ WaitsSomehow(r)
<1>1. CASE MayRetry(r) /\ IsRetryable(err)
  <2>1. err \in Retried /\ BacksOff(r, err)
    BY <1>1 DEF Fails, IsRetryable, Retried
  <2> QED
    BY <1>1, <2>1, BacksOffCases
<1>2. CASE ~(MayRetry(r) /\ IsRetryable(err))
  BY <1>2 DEF Fails
<1>3. err \notin Retried => ~IsRetryable(err)
  BY DEF IsRetryable, Retried
<1> QED
  BY <1>1, <1>2, <1>3 DEF Fails

\* However a step fails its call, the call ends or waits.
LEMMA FailsSomehow ==
  ASSUME NEW r \in Requests, NEW err \in Errors, Fails(r, err), err = "aborted" => r \in aborted
  PROVE  EndsSomehow(r) \/ WaitsSomehow(r)
<1>1. "budget" \in Errors \cup {"ok"}
  BY DEF Errors
<1> QED
  BY <1>1, FailsCases DEF EndsSomehow

LEMMA StepCall ==
  ASSUME IInv, NEW r \in Requests, Step(r)
  PROVE  /\ at[r] # "done" /\ UNCHANGED <<now, aborted>>
         /\ EndsSomehow(r) \/ WaitsSomehow(r) \/ GoesOn(r)
<1>1. CASE Hop(r)
  <2>1. at[r] = "hop" /\ UNCHANGED <<now, aborted>>
    BY <1>1 DEF Hop
  <2>2. CASE Refused(r)
    BY <2>1, <2>2, FailsSomehow DEF Refused, Errors
  <2>3. CASE Vetoed(r)
    BY <2>1, <2>3, FailsSomehow DEF Vetoed, Errors
  <2>4. CASE Charged(r)
    <3>1. Fails(r, "budget") \/ (at' = [at EXCEPT ![r] = "fetch"] /\ UNCHANGED <<attempt, wakeAt, cause, result>>)
      BY <2>4 DEF Charged
    <3> QED
      BY <2>1, <3>1, FailsSomehow DEF Errors, GoesOn
  <2> QED
    BY <1>1, <2>2, <2>3, <2>4 DEF Hop
<1>2. CASE FetchRejects(r)
  BY <1>2, FailsSomehow DEF FetchRejects, Errors
<1>3. CASE FetchResolves(r)
  BY <1>3 DEF FetchResolves, GoesOn
<1>4. CASE StatusRetried(r)
  <2>1. Ends(r, "budget") \/ WaitsSomehow(r)
    BY <1>4, BacksOffCases DEF StatusRetried, Retried
  <2> QED
    BY <1>4, <2>1 DEF StatusRetried, EndsSomehow, Errors
<1>5. CASE Redirected(r)
  <2>1. at[r] = "redirect" /\ UNCHANGED <<now, aborted>>
    BY <1>5 DEF Redirected
  <2>2. \/ Fails(r, "tooManyRedirects") \/ Fails(r, "badLocation")
        \/ at' = [at EXCEPT ![r] = "hop"] /\ UNCHANGED <<attempt, wakeAt, cause, result>>
    BY <1>5 DEF Redirected
  <2> QED
    BY <2>1, <2>2, FailsSomehow DEF Errors, GoesOn
<1>6. CASE Chunk(r)
  <2>1. at[r] = "body" /\ UNCHANGED <<now, aborted>>
    BY <1>6 DEF Chunk
  <2>2. /\ UNCHANGED <<attempt, wakeAt, cause, result>>
        /\ \/ UNCHANGED at \/ at' = [at EXCEPT ![r] = "tooLarge"] \/ at' = [at EXCEPT ![r] = "overspent"]
    BY <1>6 DEF Chunk
  <2> QED
    BY <2>1, <2>2 DEF GoesOn
<1>7. CASE BodyEnds(r)
  <2>1. at[r] = "body" /\ UNCHANGED <<now, aborted>>
    BY <1>7 DEF BodyEnds
  <2>2. \/ r \in aborted /\ Fails(r, "aborted")
        \/ Ends(r, "ok")
        \/ \E err \in {"timeout", "network", "malformed"} : Fails(r, err)
    BY <1>7 DEF BodyEnds
  <2> QED
    BY <2>1, <2>2, FailsSomehow DEF Errors, EndsSomehow
<1>8. CASE Wakes(r)
  BY <1>8 DEF Wakes, GoesOn
<1>9. CASE SleepAborts(r)
  BY <1>9 DEF SleepAborts, EndsSomehow, Errors
<1>10. CASE Discards(r)
  <2>1. at[r] # "done" /\ UNCHANGED <<now, aborted>>
    BY <1>10 DEF Discards
  <2>2. (r \in aborted /\ Fails(r, "aborted")) \/ Fails(r, "tooLarge") \/ Fails(r, "budget")
    BY <1>10 DEF Discards
  <2> QED
    BY <2>1, <2>2, FailsSomehow DEF Errors
<1> QED
  BY <1>1, <1>2, <1>3, <1>4, <1>5, <1>6, <1>7, <1>8, <1>9, <1>10 DEF Step

(***************************************************************************)
(* What a step does to the budget and to the hop.                          *)
(***************************************************************************)

\* A request is charged, and sent if both counters admit it.
ChargesHop(r) ==
  /\ UNCHANGED <<bytesFetched, bytesRead>>
  /\ r \notin aborted /\ now < Deadline
  /\ crossOriginRequestsMade' \in {crossOriginRequestsMade, crossOriginRequestsMade + 1}
  /\ \/ /\ Ends(r, "budget") /\ UNCHANGED <<sent, crossSent>>
        /\ requestsMade' \in {requestsMade, requestsMade + 1}
     \/ /\ at' = [at EXCEPT ![r] = "fetch"]
        /\ requestsMade' = requestsMade + 1 /\ requestsMade' <= MaxRequests
        /\ sent' = sent + 1
        /\ \/ UNCHANGED crossSent
           \/ /\ crossSent' = crossSent + 1
              /\ crossOriginRequestsMade' = crossOriginRequestsMade + 1
              /\ crossOriginRequestsMade' <= MaxCrossOrigin

\* The call's chunk was one too many for the budget.
Overspends(r) ==
  at[r] = "body" /\ at' = [at EXCEPT ![r] = "overspent"] /\ UNCHANGED result

\* A chunk is read, and charged if it fits the response.
ChargesChunk(r) ==
  /\ UNCHANGED <<requestsMade, crossOriginRequestsMade, sent, crossSent>>
  /\ \E n \in 1 .. MaxChunk :
       /\ bytesRead' = bytesRead + n
       /\ \/ UNCHANGED bytesFetched
          \/ /\ bytesFetched' = bytesFetched + n
             /\ bytesFetched' <= MaxTotalBytes \/ Overspends(r)

LEMMA StepBudget ==
  ASSUME IInv, NEW r \in Requests, Step(r)
  PROVE  UNCHANGED budgetVars \/ ChargesHop(r) \/ ChargesChunk(r)
<1> "budget" \in Errors \ Retried
  BY DEF Errors, Retried
<1>1. CASE Charged(r)
  <2> DEFINE cross == IF origin[r] = "foreign" THEN 1 ELSE 0
             over  == cross = 1 /\ crossOriginRequestsMade + 1 > MaxCrossOrigin
             full  == requestsMade + 1 > MaxRequests
  <2>1. /\ r \notin aborted /\ now < Deadline /\ UNCHANGED <<bytesFetched, bytesRead>>
        /\ crossOriginRequestsMade' = crossOriginRequestsMade + cross
        /\ requestsMade' = IF over THEN requestsMade ELSE requestsMade + 1
        /\ IF over \/ full THEN Fails(r, "budget") /\ UNCHANGED <<sent, crossSent>>
           ELSE at' = [at EXCEPT ![r] = "fetch"] /\ sent' = sent + 1 /\ crossSent' = crossSent + cross
    BY <1>1 DEF Charged, Allowed, Exceeds
  <2>2. /\ crossOriginRequestsMade \in Nat /\ requestsMade \in Nat /\ crossSent \in Nat
        /\ MaxRequests \in Nat /\ MaxCrossOrigin \in Nat
    BY HttpAssumption DEF IInv, TypeOK
  <2>3. CASE over \/ full
    <3>1. Ends(r, "budget")
      BY <2>1, <2>3, FailsCases
    <3> QED
      BY <2>1, <2>2, <2>3, <3>1 DEF ChargesHop
  <2>4. CASE ~(over \/ full)
    BY <2>1, <2>2, <2>4 DEF ChargesHop
  <2> QED
    BY <2>3, <2>4
<1>2. CASE Chunk(r)
  <2>1. PICK n \in 1 .. MaxChunk :
          /\ bytesRead' = bytesRead + n
          /\ \/ UNCHANGED bytesFetched
             \/ /\ bytesFetched' = bytesFetched + n
                /\ bytesFetched + n > MaxTotalBytes => Overspends(r)
    BY <1>2 DEF Chunk, Exceeds, Overspends
  <2>2. bytesFetched \in Nat /\ MaxTotalBytes \in Nat /\ n \in Nat
    BY HttpAssumption DEF IInv, TypeOK
  <2>3. UNCHANGED <<requestsMade, crossOriginRequestsMade, sent, crossSent>>
    BY <1>2 DEF Chunk
  <2> QED
    BY <2>1, <2>2, <2>3 DEF ChargesChunk
<1>3. CASE ~Charged(r) /\ ~Chunk(r)
  BY <1>3 DEF Step, Hop, Refused, Vetoed, FetchRejects, FetchResolves, StatusRetried, Redirected, BodyEnds,
    Discards, Wakes, SleepAborts
<1> QED
  BY <1>1, <1>2, <1>3

\* Where the call may go next, and with which headers.
LEMMA StepHop ==
  ASSUME IInv, NEW r \in Requests, Step(r)
  PROVE  \/ UNCHANGED <<origin, headers>>
         \/ /\ \E to \in {"home", "foreign", "blocked"} :
                 /\ origin' = [origin EXCEPT ![r] = to]
                 /\ headers' = [headers EXCEPT ![r] = IF to = origin[r] THEN headers[r] ELSE "safe"]
            /\ at' = [at EXCEPT ![r] = "hop"]
         \/ /\ origin' = [origin EXCEPT ![r] = "home"] /\ headers' = [headers EXCEPT ![r] = "all"]
            /\ attempt' = [attempt EXCEPT ![r] = @ + 1] /\ at' = [at EXCEPT ![r] = "hop"]
<1>1. CASE Redirected(r)
  BY <1>1 DEF Redirected, ScopedHeaders, hopVars
<1>2. CASE Wakes(r)
  BY <1>2 DEF Wakes
<1>3. CASE ~Redirected(r) /\ ~Wakes(r)
  BY <1>3 DEF Step, Hop, FetchRejects, FetchResolves, StatusRetried, Chunk, Discards, BodyEnds, SleepAborts, hopVars
<1> QED
  BY <1>1, <1>2, <1>3

LEMMA StepBounds ==
  ASSUME IInv, NEW r \in Requests, Step(r)
  PROVE  hop' \in [Requests -> 0 .. MaxRedirects] /\ got' \in [Requests -> 0 .. MaxResponseBytes]
<1>1. hop \in [Requests -> 0 .. MaxRedirects] /\ got \in [Requests -> 0 .. MaxResponseBytes]
      /\ MaxRedirects \in Nat /\ MaxResponseBytes \in Nat /\ MaxChunk \in Nat
  BY HttpAssumption DEF IInv, TypeOK
<1>2. CASE Redirected(r)
  BY <1>1, <1>2 DEF Redirected, hopVars
<1>3. CASE Chunk(r)
  BY <1>1, <1>3 DEF Chunk
<1>4. CASE Wakes(r) \/ FetchResolves(r)
  BY <1>1, <1>4 DEF Wakes, FetchResolves
<1>5. CASE Hop(r) \/ FetchRejects(r) \/ StatusRetried(r) \/ Discards(r) \/ BodyEnds(r) \/ SleepAborts(r)
  BY <1>1, <1>5 DEF Hop, FetchRejects, StatusRetried, Discards, BodyEnds, SleepAborts, hopVars
<1> QED
  BY <1>2, <1>3, <1>4, <1>5 DEF Step

(***************************************************************************)
(* The calls that were stopped for the budget only ever become more.       *)
(***************************************************************************)

LEMMA StoppedFinite == IsFiniteSet(StoppedCalls) /\ Cardinality(StoppedCalls) \in Nat
<1>1. IsFiniteSet(StoppedCalls)
  BY HttpAssumption, FS_Subset DEF StoppedCalls
<1> QED
  BY <1>1, FS_CardinalityType

LEMMA StoppedGrow ==
  ASSUME IInv, NEW r \in Requests, Step(r)
  PROVE  /\ Cardinality(StoppedCalls') \in Nat /\ Cardinality(StoppedCalls') >= Cardinality(StoppedCalls)
         /\ Ends(r, "budget") => Cardinality(StoppedCalls') = Cardinality(StoppedCalls) + 1
<1>1. result \in [Requests -> Errors \cup {"none", "ok"}] /\ result[r] = "none"
  BY StepCall DEF IInv, TypeOK, Undecided
<1>2. CASE \E res \in Errors \cup {"ok"} : result' = [result EXCEPT ![r] = res]
  <2>1. PICK res \in Errors \cup {"ok"} : result' = [result EXCEPT ![r] = res]
    BY <1>2
  <2>2. r \notin StoppedCalls
    BY <1>1 DEF StoppedCalls
  <2>3. CASE res = "budget"
    <3>1. StoppedCalls' = StoppedCalls \cup {r}
      BY <1>1, <2>1, <2>3 DEF StoppedCalls
    <3>2. Cardinality(StoppedCalls \cup {r}) = Cardinality(StoppedCalls) + 1
      BY <2>2, StoppedFinite, FS_AddElement
    <3>3. Cardinality(StoppedCalls') = Cardinality(StoppedCalls) + 1
      BY <3>1, <3>2
    <3> QED
      BY <3>3, StoppedFinite
  <2>4. CASE res # "budget"
    <3>1. StoppedCalls' = StoppedCalls /\ ~Ends(r, "budget")
      BY <1>1, <2>1, <2>4 DEF StoppedCalls, Ends
    <3> QED
      BY <3>1, StoppedFinite
  <2> QED
    BY <2>3, <2>4
<1>3. CASE UNCHANGED result
  <2>1. StoppedCalls' = StoppedCalls /\ ~Ends(r, "budget")
    BY <1>1, <1>3 DEF StoppedCalls, Ends
  <2> QED
    BY <2>1, StoppedFinite
<1> QED
  BY <1>2, <1>3, StepCall DEF EndsSomehow, Ends, WaitsSomehow, Waits, GoesOn

LEMMA CutShortFinite == IsFiniteSet(CutShort) /\ Cardinality(CutShort) \in Nat
<1>1. IsFiniteSet(CutShort)
  BY HttpAssumption, FS_Subset DEF CutShort
<1> QED
  BY <1>1, FS_CardinalityType

\* So do those that were cut short: an overspent call ends for the budget, or is
\* cancelled.
LEMMA CutShortGrow ==
  ASSUME IInv, NEW r \in Requests, Step(r)
  PROVE  /\ Cardinality(CutShort') \in Nat /\ Cardinality(CutShort') >= Cardinality(CutShort)
         /\ Overspends(r) => Cardinality(CutShort') = Cardinality(CutShort) + 1
<1>1. /\ at \in [Requests -> {"hop", "fetch", "redirect", "body", "tooLarge", "overspent", "backoff", "done"}]
      /\ result \in [Requests -> Errors \cup {"none", "ok"}] /\ result[r] = "none"
  BY StepCall DEF IInv, TypeOK, Undecided
<1>2. r \in CutShort <=> at[r] = "overspent"
  BY <1>1 DEF CutShort
<1>3. \A q \in Requests : q # r => (q \in CutShort' <=> q \in CutShort)
  BY <1>1, StepCall DEF EndsSomehow, Ends, WaitsSomehow, Waits, GoesOn, CutShort
<1>4. at[r] = "overspent" => r \in CutShort'
  <2> SUFFICES ASSUME at[r] = "overspent" PROVE r \in CutShort'
    OBVIOUS
  <2>1. Discards(r)
    BY DEF Step, Hop, FetchRejects, FetchResolves, StatusRetried, Redirected, Chunk, BodyEnds, Wakes, SleepAborts
  <2>2. Ends(r, "aborted") \/ Ends(r, "budget")
    BY <2>1, FailsCases DEF Discards, Errors, Retried
  <2> QED
    BY <1>1, <2>2 DEF Ends, CutShort
<1>5. CutShort \subseteq Requests /\ CutShort' \subseteq Requests
  BY DEF CutShort
<1>6. Overspends(r) => r \in CutShort' /\ r \notin CutShort
  BY <1>1, <1>2 DEF Overspends, CutShort
<1>7. CASE r \in CutShort' /\ r \notin CutShort
  <2>1. CutShort' = CutShort \cup {r}
    BY <1>3, <1>5, <1>7
  <2>2. Cardinality(CutShort \cup {r}) = Cardinality(CutShort) + 1
    BY <1>7, CutShortFinite, FS_AddElement
  <2>3. Cardinality(CutShort') = Cardinality(CutShort) + 1
    BY <2>1, <2>2
  <2> QED
    BY <2>3, CutShortFinite
<1>8. CASE ~(r \in CutShort' /\ r \notin CutShort)
  <2>1. CutShort' = CutShort
    BY <1>2, <1>3, <1>4, <1>5, <1>8
  <2> QED
    BY <1>6, <1>8, <2>1, CutShortFinite
<1> QED
  BY <1>7, <1>8

(***************************************************************************)
(* The invariant is inductive.                                             *)
(***************************************************************************)

LEMMA Initial == Init => IInv
<1> SUFFICES ASSUME Init PROVE IInv
  OBVIOUS
<1>1. TypeOK
  BY HttpAssumption DEF Init, TypeOK
<1>2. StoppedCalls = {}
  BY DEF Init, StoppedCalls
<1>3. Cardinality({r \in Requests : result[r] = "budget"}) = 0 /\ Cardinality(CutShort) = 0
  <2>1. CutShort = {}
    BY DEF Init, CutShort
  <2> QED
    BY <1>2, <2>1, FS_EmptySet DEF StoppedCalls
<1>4. SendsWithinBudget /\ RequestsCounted /\ BytesBounded
  BY <1>3, HttpAssumption DEF Init, SendsWithinBudget, RequestsCounted, BytesBounded
<1>5. NeverRetried /\ Undecided /\ ChargedFirst /\ AllMeansHome /\ ToldOwnAbort
  BY DEF Init, NeverRetried, Undecided, ChargedFirst, AllMeansHome, ToldOwnAbort
<1> QED
  BY <1>1, <1>4, <1>5 DEF IInv, LimitsHold

\* The call's own state.
LEMMA CallKept ==
  ASSUME IInv, NEW r \in Requests, Step(r)
  PROVE  /\ now' \in 0 .. Deadline /\ aborted' \subseteq Requests
         /\ at' \in [Requests -> {"hop", "fetch", "redirect", "body", "tooLarge", "overspent", "backoff", "done"}]
         /\ attempt' \in [Requests -> 1 .. MaxAttempts]
         /\ wakeAt' \in [Requests -> Nat]
         /\ cause' \in [Requests -> Errors \cup {"none", "status"}]
         /\ result' \in [Requests -> Errors \cup {"none", "ok"}]
         /\ Undecided' /\ NeverRetried' /\ ToldOwnAbort'
<1> USE DEF IInv, TypeOK, LimitsHold
<1>1. at[r] # "done" /\ UNCHANGED <<now, aborted>> /\ result[r] = "none"
  BY StepCall DEF Undecided
<1>2. CASE EndsSomehow(r)
  <2>1. PICK res \in Errors \cup {"ok"} : Ends(r, res) /\ (res = "aborted" => r \in aborted)
    BY <1>2 DEF EndsSomehow
  <2> QED
    BY <1>1, <2>1 DEF Ends, Undecided, NeverRetried, ToldOwnAbort
<1>3. CASE WaitsSomehow(r)
  <2>1. PICK why \in Retried, d \in 0 .. MaxDelay : Waits(r, why, d)
    BY <1>3 DEF WaitsSomehow
  <2>2. attempt[r] < MaxAttempts /\ now + d \in Nat
    BY <1>3, HttpAssumption DEF WaitsSomehow, MayRetry
  <2>3. why \in Errors \cup {"status"}
        /\ why \notin {"aborted", "budget", "blocked", "tooManyRedirects", "tooLarge", "malformed"}
    BY DEF Retried, Errors
  <2> QED
    BY <1>1, <2>1, <2>2, <2>3 DEF Waits, Undecided, NeverRetried, ToldOwnAbort
<1>4. CASE GoesOn(r)
  <2>1. at[r] = "backoff" => attempt[r] + 1 \in 1 .. MaxAttempts
    BY HttpAssumption DEF Undecided
  <2> QED
    BY <1>1, <1>4, <2>1 DEF GoesOn, Undecided, NeverRetried, ToldOwnAbort
<1> QED
  BY <1>2, <1>3, <1>4, StepCall

\* One more stopped call admits one more chunk.
LEMMA ChunksPerStop ==
  ASSUME NEW m \in Nat, NEW a \in Nat, NEW b \in Nat, b >= a
  PROVE  m * a \in Nat /\ m * b \in Nat /\ m * b >= m * a /\ (b = a + 1 => m * b = m * a + m)
<1>1. m * a \in Nat /\ m * b \in Nat /\ m * (b - a) \in Nat
  <2>1. b - a \in Nat
    OBVIOUS
  <2>2. \A x, y \in Nat : x * y \in Nat
    OBVIOUS
  <2> QED
    BY <2>1, <2>2
<1>2. m * b = m * a + m * (b - a)
  OBVIOUS
<1>3. b = a + 1 => m * (b - a) = m
  OBVIOUS
<1> QED
  BY <1>1, <1>2, <1>3

\* The budget.
LEMMA BudgetKept ==
  ASSUME IInv, NEW r \in Requests, Step(r)
  PROVE  /\ requestsMade' \in Nat /\ crossOriginRequestsMade' \in Nat /\ bytesFetched' \in Nat
         /\ sent' \in Nat /\ crossSent' \in Nat /\ bytesRead' \in Nat
         /\ ChargedFirst' /\ SendsWithinBudget' /\ RequestsCounted' /\ BytesBounded'
<1> DEFINE stopped == Cardinality(StoppedCalls)
           short   == Cardinality(CutShort)
<1>1. /\ requestsMade \in Nat /\ crossOriginRequestsMade \in Nat /\ bytesFetched \in Nat
      /\ sent \in Nat /\ crossSent \in Nat /\ bytesRead \in Nat
      /\ ChargedFirst /\ SendsWithinBudget
      /\ requestsMade - sent <= stopped
  BY DEF IInv, TypeOK, LimitsHold, RequestsCounted, StoppedCalls
<1>2. /\ stopped \in Nat /\ stopped' \in Nat /\ stopped' >= stopped
      /\ Ends(r, "budget") => stopped' = stopped + 1
  BY StoppedFinite, StoppedGrow
<1>8. short \in Nat /\ short' \in Nat /\ short' >= short /\ (Overspends(r) => short' = short + 1)
  BY CutShortFinite, CutShortGrow
<1>3. /\ MaxRequests \in Nat /\ MaxCrossOrigin \in Nat /\ MaxTotalBytes \in Nat /\ MaxChunk \in Nat
  BY HttpAssumption
<1> HIDE DEF stopped, short
<1> DEFINE slack == MaxChunk * short
<1>4. slack \in Nat /\ slack' \in Nat /\ slack' >= slack /\ (Overspends(r) => slack' = slack + MaxChunk)
  BY <1>3, <1>8, ChunksPerStop
<1>6. bytesFetched <= MaxTotalBytes + slack
  BY DEF IInv, LimitsHold, BytesBounded, short
<1>7. bytesFetched <= MaxTotalBytes + slack'
  <2>1. ASSUME NEW s \in Nat, NEW t \in Nat, t >= s, bytesFetched <= MaxTotalBytes + s
        PROVE  bytesFetched <= MaxTotalBytes + t
    BY <1>1, <1>3, <2>1
  <2> QED
    BY <1>4, <1>6, <2>1
<1> HIDE DEF slack
<1>5. /\ requestsMade' \in Nat /\ crossOriginRequestsMade' \in Nat /\ bytesFetched' \in Nat
      /\ sent' \in Nat /\ crossSent' \in Nat /\ bytesRead' \in Nat
      /\ ChargedFirst' /\ SendsWithinBudget'
      /\ requestsMade' - sent' <= stopped' /\ bytesFetched' <= MaxTotalBytes + slack'
  <2>1. CASE UNCHANGED budgetVars
    <3>1. UNCHANGED <<requestsMade, crossOriginRequestsMade, bytesFetched, sent, crossSent, bytesRead>>
      BY <2>1 DEF budgetVars
    <3> QED
      BY <1>1, <1>2, <1>7, <3>1 DEF ChargedFirst, SendsWithinBudget
  <2>2. CASE ChargesHop(r)
    <3>0. bytesFetched' = bytesFetched
      BY <2>2 DEF ChargesHop
    <3>1. bytesFetched' <= MaxTotalBytes + slack'
      BY <1>7, <3>0
    <3>2. requestsMade' \in Nat /\ sent' \in Nat /\ requestsMade' - sent' <= stopped'
      BY <1>1, <1>2, <2>2 DEF ChargesHop
    <3> QED
      BY <1>1, <1>3, <2>2, <3>1, <3>2 DEF ChargesHop, ChargedFirst, SendsWithinBudget
  <2>3. CASE ChargesChunk(r)
    <3>1. PICK n \in 1 .. MaxChunk :
            /\ bytesRead' = bytesRead + n
            /\ \/ UNCHANGED bytesFetched
               \/ /\ bytesFetched' = bytesFetched + n
                  /\ bytesFetched' <= MaxTotalBytes \/ Overspends(r)
      BY <2>3 DEF ChargesChunk
    <3>2. n \in Nat /\ n <= MaxChunk
      BY <1>3
    <3>3. bytesFetched' \in Nat /\ bytesRead' \in Nat
      BY <1>1, <3>1, <3>2
    <3>4. bytesFetched' <= MaxTotalBytes + slack'
      BY <1>1, <1>3, <1>4, <1>6, <3>1, <3>2
    <3> QED
      BY <1>1, <1>2, <2>3, <3>3, <3>4 DEF ChargesChunk, ChargedFirst, SendsWithinBudget
  <2> QED
    BY <2>1, <2>2, <2>3, StepBudget
<1> QED
  BY <1>5 DEF stopped, short, slack, StoppedCalls, RequestsCounted, BytesBounded

LEMMA HopKept ==
  ASSUME IInv, NEW r \in Requests, Step(r)
  PROVE  /\ origin' \in [Requests -> {"home", "foreign", "blocked"}]
         /\ headers' \in [Requests -> {"all", "safe"}] /\ AllMeansHome'
BY StepHop DEF IInv, TypeOK, AllMeansHome

\* The strengthened invariant holds however calls, hops, retries, signals and
\* the clock interleave (requestWithPolicy).
THEOREM Inductive == Spec => []IInv
<1>1. ASSUME IInv, [Next]_vars PROVE IInv'
  <2>1. CASE Tick
    <3>1. now' \in 0 .. Deadline
      BY <1>1, <2>1, HttpAssumption DEF Tick, IInv, TypeOK
    <3> QED
      BY <1>1, <2>1, <3>1 DEF Tick, IInv, TypeOK, Undecided, ChargedFirst, LimitsHold, SendsWithinBudget,
        RequestsCounted, BytesBounded, CutShort, NeverRetried, AllMeansHome, ToldOwnAbort, budgetVars, hopVars
  <2>2. ASSUME NEW r \in Requests, Abort(r) PROVE IInv'
    BY <1>1, <2>2 DEF Abort, IInv, TypeOK, Undecided, ChargedFirst, LimitsHold, SendsWithinBudget,
      RequestsCounted, BytesBounded, CutShort, NeverRetried, AllMeansHome, ToldOwnAbort, budgetVars, hopVars
  <2>3. ASSUME NEW r \in Requests, Step(r) PROVE IInv'
    <3>1. TypeOK'
      BY <1>1, <2>3, CallKept, BudgetKept, HopKept, StepBounds DEF TypeOK
    <3> QED
      BY <1>1, <2>3, <3>1, CallKept, BudgetKept, HopKept DEF IInv, LimitsHold
  <2>4. CASE UNCHANGED vars
    BY <1>1, <2>4 DEF vars, IInv, TypeOK, Undecided, ChargedFirst, LimitsHold, SendsWithinBudget,
      RequestsCounted, BytesBounded, CutShort, NeverRetried, AllMeansHome, ToldOwnAbort, budgetVars, hopVars
  <2> QED
    BY <1>1, <2>1, <2>2, <2>3, <2>4 DEF Next
<1> QED
  BY <1>1, Initial, PTL DEF Spec

\* Every variable of a call and of the budget keeps its type.
THEOREM TypeCorrect == Spec => []TypeOK
<1>1. IInv => TypeOK
  BY DEF IInv
<1> QED
  BY <1>1, Inductive, PTL

\* All calls of a run together stay within its limits: no request too many goes
\* out, each stopped call costs one refused request and one chunk at most, and
\* what must not be retried is not.
THEOREM LimitsHoldAlways == Spec => []LimitsHold
<1>1. IInv => LimitsHold
  BY DEF IInv
<1> QED
  BY <1>1, Inductive, PTL

\* A caller's headers never reach a foreign origin unless they are safe there,
\* and nothing but a new attempt brings the others back (the redirect loop).
THEOREM HeadersScopedAlways == Spec => HeadersScoped
<1>1. IInv => HeadersStayHome
  BY DEF IInv, AllMeansHome, HeadersStayHome
<1>2. ASSUME IInv, [Next]_vars, NEW r \in Requests, headers[r] = "safe", headers'[r] = "all"
      PROVE  attempt'[r] = attempt[r] + 1
  <2>1. PICK q \in Requests : Step(q)
    BY <1>2 DEF vars, hopVars, Next, Tick, Abort
  <2> QED
    BY <1>2, <2>1, StepHop DEF IInv, TypeOK
<1>3. IInv /\ [Next]_vars =>
        [\A r \in Requests : headers[r] = "safe" /\ headers'[r] = "all" => attempt'[r] = attempt[r] + 1]_vars
  BY <1>2
<1> QED
  BY <1>1, <1>3, Inductive, PTL DEF Spec, HeadersScoped, HeadersStayDropped

\* After the deadline nothing is sent, for a cancelled call neither, and only who
\* cancelled is told so (the head of each hop, the catch clause).
THEOREM StopsSendingAlways == Spec => StopsSending
<1>1. IInv /\ [Next]_vars => \A r \in Requests : result'[r] = "aborted" => r \in aborted
  <2> SUFFICES ASSUME IInv, [Next]_vars, NEW r \in Requests, result'[r] = "aborted" PROVE r \in aborted
    OBVIOUS
  <2>1. result[r] = "aborted" => r \in aborted
    BY DEF IInv, ToldOwnAbort
  <2>2. CASE UNCHANGED result
    BY <2>1, <2>2
  <2>3. ASSUME NEW q \in Requests, Step(q) PROVE r \in aborted
    BY <2>1, <2>3, StepCall DEF IInv, TypeOK, EndsSomehow, Ends, WaitsSomehow, Waits, GoesOn
  <2> QED
    BY <2>2, <2>3 DEF vars, Next, Tick, Abort
<1>2. ASSUME IInv, [Next]_vars, sent' # sent PROVE now < Deadline
  <2>1. PICK r \in Requests : Step(r)
    BY <1>2 DEF vars, budgetVars, Next, Tick, Abort
  <2> QED
    BY <1>2, <2>1, StepBudget DEF budgetVars, ChargesHop, ChargesChunk
<1>3. ASSUME IInv, [Next]_vars, NEW r \in aborted, at[r] # "fetch" PROVE at'[r] # "fetch"
  <2>1. r \in Requests
    BY <1>3 DEF IInv, TypeOK
  <2>2. CASE UNCHANGED at
    BY <1>3, <2>2
  <2>3. ASSUME NEW q \in Requests, Step(q) PROVE at'[r] # "fetch"
    <3>1. CASE q # r
      BY <1>3, <2>1, <2>3, <3>1, StepCall DEF IInv, TypeOK, EndsSomehow, Ends, WaitsSomehow, Waits, GoesOn
    <3>2. CASE q = r
      <4>1. CASE Hop(r)
        <5>1. Refused(r)
          BY <1>3, <4>1 DEF Hop, Vetoed, Charged, Allowed
        <5>2. EndsSomehow(r)
          BY <1>3, <2>1, <5>1, FailsCases DEF Refused, Errors, Retried, EndsSomehow
        <5> QED
          BY <2>1, <5>2, <1>3 DEF EndsSomehow, Ends, IInv, TypeOK
      <4>2. CASE ~Hop(r)
        <5>1. EndsSomehow(r) \/ WaitsSomehow(r) => at'[r] # "fetch"
          BY <1>3, <2>1 DEF EndsSomehow, Ends, WaitsSomehow, Waits, IInv, TypeOK
        <5>2. CASE Redirected(r) \/ Wakes(r) \/ FetchResolves(r) \/ Chunk(r)
          <6>1. \/ EndsSomehow(r) \/ WaitsSomehow(r) \/ UNCHANGED at
                \/ \E next \in {"hop", "redirect", "body", "tooLarge", "overspent"} :
                     at' = [at EXCEPT ![r] = next]
            BY <2>1, <5>2, FailsSomehow DEF Redirected, Wakes, FetchResolves, Chunk, Errors
          <6> QED
            BY <1>3, <2>1, <5>1, <6>1 DEF IInv, TypeOK
        <5>3. CASE ~(Redirected(r) \/ Wakes(r) \/ FetchResolves(r) \/ Chunk(r))
          <6>1. EndsSomehow(r) \/ WaitsSomehow(r) \/ UNCHANGED at
            <7>1. CASE FetchRejects(r)
              BY <2>1, <7>1, FailsSomehow DEF FetchRejects, Errors
            <7>2. CASE BodyEnds(r)
              <8>1. \/ r \in aborted /\ Fails(r, "aborted")
                    \/ Ends(r, "ok")
                    \/ \E err \in {"timeout", "network", "malformed"} : Fails(r, err)
                BY <7>2 DEF BodyEnds
              <8> QED
                BY <2>1, <8>1, FailsSomehow DEF Errors, EndsSomehow
            <7>3. CASE StatusRetried(r)
              BY <2>1, <7>3, BacksOffCases DEF StatusRetried, Retried, EndsSomehow, Errors
            <7>4. CASE SleepAborts(r)
              BY <7>4 DEF SleepAborts, EndsSomehow, Errors
            <7>5. CASE Discards(r)
              BY <2>1, <7>5, FailsSomehow DEF Discards, Errors
            <7> QED
              BY <2>3, <3>2, <4>2, <5>3, <7>1, <7>2, <7>3, <7>4, <7>5 DEF Step
          <6> QED
            BY <1>3, <5>1, <6>1
        <5> QED
          BY <5>2, <5>3
      <4> QED
        BY <4>1, <4>2
    <3> QED
      BY <3>1, <3>2
  <2> QED
    BY <1>3, <2>2, <2>3 DEF vars, Next, Tick, Abort
<1>4. IInv /\ [Next]_vars => [sent' # sent => now < Deadline]_vars
  BY <1>2
<1>5. IInv /\ [Next]_vars =>
        [/\ \A r \in aborted : at[r] # "fetch" => at'[r] # "fetch"
         /\ \A r \in Requests : result'[r] = "aborted" => r \in aborted]_vars
  BY <1>1, <1>3
<1> QED
  BY <1>4, <1>5, Inductive, PTL DEF Spec, StopsSending, NoSendAfterDeadline, AbortStopsSending

-----------------------------------------------------------------------------
(***************************************************************************)
(* The ordered concurrent map: invariance and refinement, for any window   *)
(* size and any length of the source.                                      *)
(***************************************************************************)
(***************************************************************************)
(* The inductive invariant, in named parts.                                *)
(***************************************************************************)

\* A mapper call exists exactly for the items the source gave.
CallPerItem == \A i \in Item : task[i] = "none" <=> started <= i

\* The window is an interval that starts at the next index to yield and never
\* has more than `concurrency` places, one of them free while an item is awaited.
WindowIsInterval ==
  /\ yieldIndex <= started
  /\ inFlight = yieldIndex .. started - 1
  /\ started <= yieldIndex + concurrency
  /\ pc = "pulling" => started < yieldIndex + concurrency

\* What lies behind the window has settled, and well, but for a fatal item, and
\* that one had at most a window started behind it.
BehindIsDone ==
  \A i \in Item :
    /\ task[i] = "running" => yieldIndex <= i
    /\ task[i] = "err" => /\ yieldIndex <= i \/ (pc = "failed" /\ i = yieldIndex - 1)
                         /\ started <= i + concurrency

\* What was taken from the window was delivered or is held, until the end.
HeldOrDelivered ==
  /\ held => /\ pc \in {"filling", "pulling"}
             /\ yieldIndex = delivered + 1 /\ task[delivered] = "ok"
  /\ ~held => yieldIndex = delivered \/ (pc = "failed" /\ yieldIndex = delivered + 1)

Windowed ==
  /\ pc # "mapping" /\ pc # "internalError"
  /\ WindowIsInterval /\ BehindIsDone /\ HeldOrDelivered
  /\ sawError => \E i \in Item : task[i] = "err"
  /\ pc = "yielded" /\ inFlight = {} => source = "ended"

\* With concurrency 1 there is one call at most, for the item given last.
OneByOne ==
  /\ inFlight = {} /\ yieldIndex = 0 /\ ~held /\ ~sawError
  /\ pc \notin {"filling", "waiting", "internalError"}
  /\ \A i \in Item :
       /\ task[i] = "running" <=> pc = "mapping" /\ i = started - 1
       /\ task[i] = "err" => pc = "failed" /\ i = started - 1
  /\ started = delivered \/ (pc \in {"mapping", "failed"} /\ started = delivered + 1)
  /\ pc = "mapping" => started = delivered + 1
  /\ source = "ended" => pc = "returned"

SourceInTime == (source = "broken" => pc = "failed") /\ (pc = "pulling" => source = "open")

MapInvariant ==
  /\ MapTypeOK /\ CallPerItem /\ SourceInTime
  /\ ~Serial => Windowed
  /\ Serial => OneByOne

-----------------------------------------------------------------------------

\* The window holds as many calls as lie between the two indices.
LEMMA WindowSize ==
  ASSUME MapTypeOK, WindowIsInterval
  PROVE  IsFiniteSet(inFlight) /\ Cardinality(inFlight) = started - yieldIndex
<1>1. yieldIndex \in Int /\ started - 1 \in Int
  BY MapAssumption DEF MapTypeOK
<1>2. /\ IsFiniteSet(yieldIndex .. started - 1)
      /\ Cardinality(yieldIndex .. started - 1)
           = IF yieldIndex > started - 1 THEN 0 ELSE started - 1 - yieldIndex + 1
  BY <1>1, FS_Interval
<1> QED
  BY <1>2, MapAssumption DEF MapTypeOK, WindowIsInterval

\* The index to yield next is in flight unless nothing is.
LEMMA LoopHeadSafe ==
  ASSUME MapTypeOK, WindowIsInterval
  PROVE  /\ LoopHead \in {"returned", "waiting"}
         /\ LoopHead = "returned" => yieldIndex = started
         /\ LoopHead = "returned" <=> inFlight = {}
<1>1. started \in Nat /\ yieldIndex \in Nat
  BY MapAssumption DEF MapTypeOK
<1>2. CASE yieldIndex = started
  <2>1. inFlight = {}
    BY <1>1, <1>2 DEF WindowIsInterval
  <2> QED
    BY <1>2, <2>1 DEF LoopHead
<1>3. CASE yieldIndex < started
  <2>1. yieldIndex \in inFlight
    BY <1>1, <1>3 DEF WindowIsInterval
  <2> QED
    BY <2>1 DEF LoopHead
<1> QED
  BY <1>1, <1>2, <1>3 DEF WindowIsInterval

\* A window that may not grow although nothing is in flight has seen the end
\* of its source.
LEMMA NothingLeft ==
  ASSUME MapInvariant, ~Serial, pc = "filling", ~MayStart, inFlight = {}
  PROVE  source = "ended" /\ yieldIndex = started
<1>1. yieldIndex = started
  BY LoopHeadSafe DEF MapInvariant, Windowed, LoopHead
<1>2. Cardinality(inFlight) < concurrency
  BY FS_EmptySet, MapAssumption DEF MapInvariant, MapTypeOK
<1>3. ~sawError
  BY <1>1, MapAssumption DEF MapInvariant, MapTypeOK, Item, Windowed, BehindIsDone, CallPerItem
<1> QED
  BY <1>1, <1>2, <1>3 DEF MayStart, MapInvariant, MapTypeOK, SourceInTime

\* A new map satisfies the invariant.
LEMMA MapInitInvariant == MapInit => MapInvariant
<1> SUFFICES ASSUME MapInit PROVE MapInvariant
  OBVIOUS
<1>1. /\ concurrency \in Nat \ {0} /\ \A i \in Item : task[i] = "none" /\ i \in Nat
      /\ 0 .. 0 - 1 = {}
  BY MapAssumption DEF MapInit, Item
<1>2. MapTypeOK
  <2>1. held \in BOOLEAN /\ sawError \in BOOLEAN
    BY Zenon DEF MapInit
  <2>2. task \in [Item -> {"none", "running", "ok", "err"}]
    BY DEF MapInit
  <2> QED
    BY <2>1, <2>2, MapAssumption DEF MapInit, MapTypeOK
<1>3. CallPerItem /\ SourceInTime /\ OneByOne
  BY <1>1 DEF MapInit, CallPerItem, SourceInTime, OneByOne
<1>4. WindowIsInterval /\ BehindIsDone /\ HeldOrDelivered
  BY <1>1 DEF MapInit, WindowIsInterval, BehindIsDone, HeldOrDelivered
<1> QED
  BY <1>2, <1>3, <1>4 DEF MapInit, MapInvariant, Windowed

\* The consumer asks, or the generator goes on to pull.
LEMMA MapResume == MapInvariant /\ (Resume \/ Pull) => MapInvariant'
<1> SUFFICES ASSUME MapInvariant, Resume \/ Pull PROVE MapInvariant'
  OBVIOUS
<1> USE DEF Serial
<1>1. ~Serial
  BY DEF Resume, Pull, MapInvariant, OneByOne
<1>2. MapTypeOK /\ WindowIsInterval /\ Windowed
  BY <1>1 DEF MapInvariant, Windowed
<1>3. UNCHANGED <<concurrency, source, started, task, inFlight, yieldIndex, held, sawError, delivered>>
  BY DEF Resume, Pull
<1>4. /\ pc' \in {"filling", "waiting", "returned", "pulling"}
      /\ pc \in {"start", "yielded", "filling"}
      /\ held => pc = "filling" /\ pc' = "pulling"
      /\ pc' = "pulling" => MayStart
  BY <1>2, LoopHeadSafe DEF Resume, Pull, Windowed, HeldOrDelivered
<1>5. MayStart => started < yieldIndex + concurrency
  BY <1>2, WindowSize, MapAssumption DEF MayStart, MapTypeOK
<1>6. MapTypeOK' /\ CallPerItem' /\ SourceInTime'
  BY <1>3, <1>4 DEF MapInvariant, MapTypeOK, Ended, CallPerItem, SourceInTime, MayStart
<1>7. Windowed'
  <2>1. WindowIsInterval'
    BY <1>2, <1>3, <1>4, <1>5 DEF WindowIsInterval
  <2>2. BehindIsDone' /\ HeldOrDelivered'
    BY <1>2, <1>3, <1>4 DEF Windowed, BehindIsDone, HeldOrDelivered
  <2> QED
    BY <1>2, <1>3, <1>4, <2>1, <2>2 DEF Windowed
<1> QED
  BY <1>1, <1>3, <1>6, <1>7 DEF MapInvariant

\* An item arrives and its call starts at the end of the window.
LEMMA MapPulled == MapInvariant /\ Pulled => MapInvariant'
<1> SUFFICES ASSUME MapInvariant, Pulled PROVE MapInvariant'
  OBVIOUS
<1> USE DEF Serial, Item
<1>1. MapTypeOK /\ ~Serial /\ Windowed /\ started < MaxItems /\ pc = "pulling" /\ pc' = "filling"
  BY DEF MapInvariant, Pulled
<1>2. /\ started' = started + 1 /\ inFlight' = inFlight \cup {started}
      /\ UNCHANGED <<concurrency, source, yieldIndex, held, sawError, delivered>>
      /\ started \in Nat /\ yieldIndex \in Nat /\ delivered \in Nat
      /\ started \in Item /\ concurrency \in Nat
  BY <1>1, MapAssumption DEF Pulled, MapTypeOK
<1>3. /\ task'[started] = "running" /\ task[started] = "none"
      /\ \A i \in Item \ {started} : task'[i] = task[i]
  BY <1>1, <1>2 DEF Pulled, MapTypeOK, MapInvariant, CallPerItem
<1>4. MapTypeOK' /\ SourceInTime'
  BY <1>1, <1>2, MapAssumption DEF Pulled, MapTypeOK, Ended, MapInvariant, SourceInTime
<1>5. CallPerItem'
  BY <1>2, <1>3, MapAssumption DEF MapInvariant, CallPerItem
<1>6. WindowIsInterval'
  BY <1>1, <1>2 DEF Windowed, WindowIsInterval
<1>7. BehindIsDone'
  BY <1>1, <1>2, <1>3 DEF Windowed, WindowIsInterval, BehindIsDone
<1>8. HeldOrDelivered'
  <2>1. held => delivered \in Item \ {started}
    BY <1>1, <1>2, MapAssumption DEF Windowed, WindowIsInterval, HeldOrDelivered
  <2> QED
    BY <1>1, <1>2, <1>3, <2>1 DEF Windowed, HeldOrDelivered
<1>9. sawError' => \E i \in Item : task'[i] = "err"
  BY <1>1, <1>2, <1>3 DEF Windowed
<1> QED
  BY <1>1, <1>2, <1>4, <1>5, <1>6, <1>7, <1>8, <1>9 DEF MapInvariant, Windowed

\* The source ends or fails: the window stays as it is.
LEMMA MapSource == MapInvariant /\ (SourceEnds \/ SourceFails) => MapInvariant'
<1> SUFFICES ASSUME MapInvariant, SourceEnds \/ SourceFails PROVE MapInvariant'
  OBVIOUS
<1> USE DEF Serial
<1>1. /\ MapTypeOK /\ pc = "pulling" /\ pc' \in {"filling", "failed"}
      /\ UNCHANGED <<concurrency, started, task, inFlight, yieldIndex, sawError, delivered>>
      /\ pc' = "filling" => held' = held /\ ~Serial /\ source' = "ended"
      /\ pc' = "failed" => held' = FALSE /\ source' = "broken"
  BY DEF MapInvariant, SourceEnds, SourceFails
<1>2. MapTypeOK' /\ CallPerItem' /\ SourceInTime'
  BY <1>1 DEF MapInvariant, MapTypeOK, Ended, CallPerItem, SourceInTime
<1>3. CASE ~Serial
  <2>1. WindowIsInterval' /\ BehindIsDone' /\ HeldOrDelivered'
    BY <1>1, <1>3 DEF MapInvariant, Windowed, WindowIsInterval, BehindIsDone, HeldOrDelivered
  <2> QED
    BY <1>1, <1>2, <1>3, <2>1 DEF MapInvariant, Windowed
<1>4. CASE Serial
  BY <1>1, <1>2, <1>4 DEF MapInvariant, OneByOne
<1> QED
  BY <1>3, <1>4

\* The held result is yielded, or the loop is entered for the first time.
LEMMA MapFilled == MapInvariant /\ Filled => MapInvariant'
<1> SUFFICES ASSUME MapInvariant, Filled PROVE MapInvariant'
  OBVIOUS
<1> USE DEF Serial
<1>1. /\ MapTypeOK /\ ~Serial /\ Windowed /\ WindowIsInterval /\ pc = "filling" /\ ~MayStart
      /\ UNCHANGED <<concurrency, source, started, task, inFlight, yieldIndex, sawError>>
      /\ held' = FALSE
  BY DEF MapInvariant, Filled, OneByOne, Windowed
<1>2. \/ held /\ pc' = "yielded" /\ delivered' = delivered + 1
      \/ ~held /\ pc' \in {"returned", "waiting"} /\ delivered' = delivered
  BY <1>1, LoopHeadSafe DEF Filled
<1>3. MapTypeOK' /\ CallPerItem' /\ SourceInTime'
  <2>1. delivered' \in 0 .. MaxItems
    BY <1>1, <1>2, MapAssumption DEF MapTypeOK, Windowed, HeldOrDelivered
  <2> QED
    BY <1>1, <1>2, <2>1 DEF MapInvariant, MapTypeOK, Ended, CallPerItem, SourceInTime
<1>4. WindowIsInterval' /\ BehindIsDone'
  BY <1>1, <1>2 DEF Windowed, WindowIsInterval, BehindIsDone
<1>5. HeldOrDelivered'
  BY <1>1, <1>2 DEF Windowed, HeldOrDelivered
<1>6. inFlight = {} => source = "ended"
  BY <1>1, NothingLeft
<1> QED
  BY <1>1, <1>2, <1>3, <1>4, <1>5, <1>6 DEF MapInvariant, Windowed

\* A call settles: what it leaves in the window is decided, not moved.
LEMMA MapSettle == ASSUME NEW i \in Item, MapInvariant, Settle(i) PROVE MapInvariant'
<1> USE DEF Serial
<1>1. PICK r \in {"ok", "err"} : task[i] = "running" /\ task' = [task EXCEPT ![i] = r]
                                /\ sawError' = (sawError \/ r = "err")
  BY DEF Settle
<1>2. /\ MapTypeOK /\ ~Serial /\ Windowed
      /\ UNCHANGED <<concurrency, pc, source, started, inFlight, yieldIndex, held, delivered>>
  BY DEF MapInvariant, Settle
<1>3. task'[i] = r /\ \A j \in Item \ {i} : task'[j] = task[j]
  BY <1>1, <1>2 DEF MapTypeOK
<1>4. MapTypeOK' /\ CallPerItem' /\ SourceInTime'
  <2>1. MapTypeOK'
    BY <1>1, <1>2 DEF MapTypeOK
  <2> QED
    BY <1>1, <1>2, <1>3, <2>1 DEF MapInvariant, CallPerItem, SourceInTime
<1>5. WindowIsInterval' /\ BehindIsDone'
  <2>1. WindowIsInterval /\ BehindIsDone /\ yieldIndex <= i /\ i \in Nat
    BY <1>1, <1>2, MapAssumption DEF Windowed, BehindIsDone, Item
  <2>2. started <= i + concurrency
    BY <1>2, <2>1, MapAssumption DEF WindowIsInterval, MapTypeOK
  <2> QED
    BY <1>2, <1>3, <2>1, <2>2 DEF WindowIsInterval, BehindIsDone
<1>6. HeldOrDelivered'
  <2>1. held => task'[delivered] = "ok"
    BY <1>1, <1>2 DEF Windowed, HeldOrDelivered, MapTypeOK
  <2> QED
    BY <1>2, <2>1 DEF Windowed, HeldOrDelivered
<1>7. sawError' => \E j \in Item : task'[j] = "err"
  <2>1. CASE r = "err"
    BY <1>3, <2>1
  <2>2. CASE r # "err"
    BY <1>1, <1>2, <1>3, <2>2 DEF Windowed
  <2> QED
    BY <2>1, <2>2
<1> QED
  BY <1>2, <1>4, <1>5, <1>6, <1>7 DEF MapInvariant, Windowed

\* The next result leaves the window in front.
LEMMA MapTake == MapInvariant /\ Take => MapInvariant'
<1> SUFFICES ASSUME MapInvariant, Take PROVE MapInvariant'
  OBVIOUS
<1> USE DEF Serial, Item
<1>1. PICK i \in Item : /\ i = yieldIndex /\ task[i] \in {"ok", "err"}
                        /\ inFlight' = inFlight \ {i} /\ yieldIndex' = yieldIndex + 1
                        /\ \/ task[i] = "ok" /\ pc' = "filling" /\ held' = TRUE
                           \/ task[i] = "err" /\ pc' = "failed" /\ held' = held
  BY DEF Take, Takes
<1>2. /\ MapTypeOK /\ ~Serial /\ Windowed /\ pc = "waiting" /\ ~held
      /\ UNCHANGED <<concurrency, source, started, task, sawError, delivered>>
  BY DEF MapInvariant, Take, OneByOne, Windowed, HeldOrDelivered
<1>3. /\ started \in Nat /\ yieldIndex \in Nat /\ delivered \in Nat /\ concurrency \in Nat
      /\ yieldIndex < started /\ yieldIndex = delivered
  BY <1>1, <1>2, MapAssumption DEF MapInvariant, MapTypeOK, CallPerItem, Windowed, HeldOrDelivered
<1>4. MapTypeOK' /\ CallPerItem' /\ SourceInTime'
  <2>1. yieldIndex' \in 0 .. MaxItems
    BY <1>1, <1>3, MapAssumption
  <2>2. held \in BOOLEAN
    BY <1>2 DEF MapTypeOK
  <2>3. held' \in BOOLEAN
    BY <1>1, <2>2, Zenon
  <2> QED
    BY <1>1, <1>2, <2>1, <2>3 DEF MapInvariant, MapTypeOK, Ended, CallPerItem, SourceInTime
<1>5. WindowIsInterval'
  BY <1>1, <1>2, <1>3 DEF Windowed, WindowIsInterval
<1>6. BehindIsDone'
  BY <1>1, <1>2, <1>3 DEF Windowed, BehindIsDone
<1>7. HeldOrDelivered'
  BY <1>1, <1>2, <1>3 DEF HeldOrDelivered
<1> QED
  BY <1>1, <1>2, <1>4, <1>5, <1>6, <1>7 DEF MapInvariant, Windowed

\* The serial path and a consumer that breaks out.
LEMMA MapSerial ==
  MapInvariant /\ (SerialResume \/ SerialPulled \/ SerialEnds \/ SerialMapped \/ Close) => MapInvariant'
<1> SUFFICES ASSUME MapInvariant, SerialResume \/ SerialPulled \/ SerialEnds \/ SerialMapped \/ Close
             PROVE MapInvariant'
  OBVIOUS
<1> USE DEF Serial, Item
<1>1. MapTypeOK /\ started \in Nat /\ delivered \in Nat
  BY MapAssumption DEF MapInvariant, MapTypeOK
<1>2. CASE SerialResume \/ SerialEnds
  <2>1. /\ UNCHANGED <<concurrency, started, task, inFlight, yieldIndex, held, sawError, delivered>>
        /\ Serial /\ OneByOne /\ pc \in {"start", "yielded", "pulling"}
        /\ \/ pc' = "pulling" /\ source' = source
           \/ pc' = "returned" /\ source' = "ended"
    BY <1>2 DEF SerialResume, SerialEnds, MapInvariant
  <2>2. MapTypeOK' /\ CallPerItem' /\ SourceInTime'
    BY <1>1, <2>1 DEF MapInvariant, MapTypeOK, Ended, CallPerItem, SourceInTime, OneByOne
  <2>3. OneByOne'
    BY <2>1 DEF OneByOne
  <2> QED
    BY <2>1, <2>2, <2>3 DEF MapInvariant
<1>3. CASE SerialPulled
  <2>1. /\ task'[started] = "running" /\ task[started] = "none"
        /\ \A i \in Item \ {started} : task'[i] = task[i]
        /\ started' = started + 1 /\ started \in Item
    BY <1>1, <1>3, MapAssumption DEF SerialPulled, MapTypeOK, MapInvariant, CallPerItem
  <2>2. MapTypeOK' /\ CallPerItem' /\ SourceInTime'
    BY <1>1, <1>3, <2>1, MapAssumption DEF SerialPulled, MapInvariant, MapTypeOK, CallPerItem, SourceInTime
  <2>3. OneByOne'
    BY <1>1, <1>3, <2>1 DEF SerialPulled, MapInvariant, OneByOne, SourceInTime
  <2> QED
    BY <1>3, <2>2, <2>3 DEF SerialPulled, MapInvariant
<1>4. CASE SerialMapped
  <2>1. PICK r \in {"ok", "err"} :
          /\ task' = [task EXCEPT ![started - 1] = r]
          /\ \/ r = "ok" /\ pc' = "yielded" /\ delivered' = delivered + 1
             \/ r = "err" /\ pc' = "failed" /\ delivered' = delivered
    BY <1>4 DEF SerialMapped
  <2>2. /\ Serial /\ OneByOne /\ pc = "mapping" /\ started = delivered + 1
        /\ UNCHANGED <<concurrency, source, started, inFlight, yieldIndex, held, sawError>>
    BY <1>4 DEF SerialMapped, MapInvariant, Windowed, OneByOne
  <2>3. /\ started - 1 \in Item /\ task'[started - 1] = r
        /\ \A i \in Item \ {started - 1} : task'[i] = task[i]
    BY <1>1, <2>1, <2>2, MapAssumption DEF MapTypeOK
  <2>4. MapTypeOK' /\ CallPerItem' /\ SourceInTime'
    BY <1>1, <2>1, <2>2, <2>3, MapAssumption DEF MapInvariant, MapTypeOK, Ended, CallPerItem, SourceInTime
  <2>5. OneByOne'
    BY <1>1, <2>1, <2>2, <2>3 DEF MapInvariant, SourceInTime, OneByOne
  <2> QED
    BY <2>2, <2>4, <2>5 DEF MapInvariant
<1>5. CASE Close
  <2>1. MapTypeOK' /\ CallPerItem' /\ SourceInTime'
    BY <1>5 DEF Close, MapInvariant, MapTypeOK, Ended, CallPerItem, SourceInTime
  <2>2. Serial => OneByOne'
    BY <1>5 DEF Close, MapInvariant, OneByOne
  <2>3. ~Serial => Windowed'
    BY <1>5 DEF Close, MapInvariant, Windowed, WindowIsInterval, BehindIsDone, HeldOrDelivered
  <2> QED
    BY <1>5, <2>1, <2>2, <2>3 DEF Close, MapInvariant
<1> QED
  BY <1>2, <1>3, <1>4, <1>5

\* Every step keeps the inductive invariant.
LEMMA MapNextInvariant == MapInvariant /\ [MapNext]_mapVars => MapInvariant'
<1>1. MapInvariant /\ UNCHANGED mapVars => MapInvariant'
  BY DEF mapVars, MapInvariant, MapTypeOK, CallPerItem, SourceInTime, Windowed, WindowIsInterval,
    BehindIsDone, HeldOrDelivered, OneByOne, Serial
<1> QED
  BY <1>1, MapResume, MapPulled, MapSource, MapFilled, MapSettle, MapTake, MapSerial
  DEF MapNext, Generator

\* The inductive invariant holds in every reachable state.
THEOREM MapInductive == MapSpec => []MapInvariant
BY MapInitInvariant, MapNextInvariant, PTL DEF MapSpec

\* The generator's variables keep their types, whatever the window and the
\* length of the source.
THEOREM MapTypes == MapSpec => []MapTypeOK
<1>1. MapInvariant => MapTypeOK
  BY DEF MapInvariant
<1> QED
  BY <1>1, MapInductive, PTL

\* Never more than `concurrency` mapper calls run at once, not even calls that
\* a failed or abandoned map left behind.
THEOREM WindowBoundedAlways == MapSpec => []WindowBounded
<1>1. ASSUME MapInvariant PROVE WindowBounded
  <2> DEFINE running == {i \in Item : task[i] = "running"}
  <2> USE <1>1
  <2>1. CASE Serial
    <3>1. running \subseteq {started - 1}
      BY <2>1 DEF MapInvariant, OneByOne
    <3>2. IsFiniteSet({started - 1}) /\ Cardinality({started - 1}) = 1
      BY FS_Singleton
    <3> QED
      BY <2>1, <3>1, <3>2, FS_Subset DEF Serial, WindowBounded
  <2>2. CASE ~Serial
    <3>1. /\ MapTypeOK /\ WindowIsInterval /\ started \in Nat /\ yieldIndex \in Nat
          /\ concurrency \in Nat
      BY <2>2, MapAssumption DEF MapInvariant, Windowed, MapTypeOK
    <3>2. running \subseteq inFlight
      BY <2>2, <3>1, MapAssumption DEF MapInvariant, Windowed, WindowIsInterval, BehindIsDone, CallPerItem, Item
    <3>3. IsFiniteSet(running) /\ Cardinality(running) <= started - yieldIndex
      BY <3>1, <3>2, WindowSize, FS_Subset
    <3> QED
      BY <3>1, <3>3, FS_CardinalityType DEF WindowIsInterval, WindowBounded
  <2> QED
    BY <2>1, <2>2
<1> QED
  BY <1>1, MapInductive, PTL

\* The scheduler's own assertion ("was not in flight") never fires.
THEOREM NoSchedulerErrorAlways == MapSpec => []NoSchedulerError
<1>1. MapInvariant => NoSchedulerError
  BY DEF MapInvariant, Windowed, OneByOne, NoSchedulerError
<1> QED
  BY <1>1, MapInductive, PTL

\* A failing item costs at most one window of requests.
THEOREM BlastRadiusAlways == MapSpec => []BlastRadius
<1>1. ASSUME MapInvariant, NEW i \in Item, task[i] = "err" PROVE started <= i + concurrency
  <2>1. /\ started \in Nat /\ yieldIndex \in Nat /\ concurrency \in Nat \ {0}
        /\ i \in Nat
    BY <1>1, MapAssumption DEF MapInvariant, MapTypeOK, Item
  <2>2. CASE Serial
    BY <1>1, <2>1, <2>2 DEF MapInvariant, OneByOne, Serial
  <2>3. CASE ~Serial
    BY <1>1, <2>3 DEF MapInvariant, Windowed, BehindIsDone
  <2> QED
    BY <2>2, <2>3
<1>2. MapInvariant => BlastRadius
  BY <1>1 DEF BlastRadius
<1> QED
  BY <1>2, MapInductive, PTL

\* The map never runs more than a window and one result ahead of its consumer.
THEOREM ReadAheadBoundedAlways == MapSpec => []ReadAheadBounded
<1>1. ASSUME MapInvariant PROVE ReadAheadBounded
  <2>1. /\ started \in Nat /\ yieldIndex \in Nat /\ delivered \in Nat
        /\ concurrency \in Nat \ {0}
    BY <1>1, MapAssumption DEF MapInvariant, MapTypeOK
  <2>2. CASE Serial
    BY <1>1, <2>1, <2>2 DEF MapInvariant, OneByOne, ReadAheadBounded
  <2>3. CASE ~Serial
    BY <1>1, <2>1, <2>3 DEF MapInvariant, Windowed, WindowIsInterval, HeldOrDelivered, ReadAheadBounded
  <2> QED
    BY <2>2, <2>3
<1> QED
  BY <1>1, MapInductive, PTL

\* Once a call has rejected nothing more is asked of the source.
THEOREM NoPullAfterErrorAlways == MapSpec => NoPullAfterError
<1>1. ASSUME MapInvariant, [MapNext]_mapVars, sawError PROVE pc' # "pulling" \/ pc = "pulling"
  <2>1. ~Serial
    BY <1>1 DEF MapInvariant, OneByOne
  <2> QED
    BY <1>1, <2>1, LoopHeadSafe
    DEF MapInvariant, Windowed, MapNext, Generator, Resume, Pull, MayStart, Pulled, SourceEnds, SourceFails,
      Filled, Take, Settle, SerialResume, SerialPulled, SerialEnds, SerialMapped, Close, mapVars
<1>2. MapInvariant /\ [MapNext]_mapVars => [sawError => pc' # "pulling" \/ pc = "pulling"]_mapVars
  BY <1>1
<1> QED
  BY <1>2, MapInductive, PTL DEF MapSpec, NoPullAfterError

-----------------------------------------------------------------------------
(***************************************************************************)
(* Refinement: what the consumer sees is an ordered map of the source.     *)
(***************************************************************************)

\* The refinement mapping, named.
Verdict == [i \in Item |-> IF task[i] = "running" THEN "none" ELSE task[i]]
Stream  == IF pc = "returned" THEN "done" ELSE IF pc \in Ended THEN pc ELSE "open"

\* An ordered map is in its initial state when the generator is created.
LEMMA OrderedInit == MapInit => Ordered!Init
BY DEF MapInit, Ordered!Init, Ordered!Item, Item, Ended

\* Steps the consumer cannot see.
LEMMA OrderedStutter ==
  ASSUME UNCHANGED <<started, source, task, delivered>>, Stream' = Stream
  PROVE  UNCHANGED Ordered!vars
BY DEF Ordered!vars, Stream, Item

\* The steps of the source are steps of the source.
LEMMA OrderedSource ==
  ASSUME MapInvariant, Pulled \/ SerialPulled \/ SourceEnds \/ SerialEnds \/ SourceFails
  PROVE  Ordered!Next
<1>1. /\ MapTypeOK /\ pc = "pulling" /\ source = "open" /\ Stream = "open"
      /\ UNCHANGED delivered
  BY DEF MapInvariant, SourceInTime, Stream, Ended, Pulled, SerialPulled, SourceEnds, SerialEnds, SourceFails
<1>2. CASE Pulled \/ SerialPulled
  <2>1. /\ task[started] = "none" /\ task' = [task EXCEPT ![started] = "running"]
        /\ started < MaxItems /\ started' = started + 1 /\ source' = source
        /\ pc' \in {"filling", "mapping"}
    BY <1>1, <1>2, MapAssumption DEF Pulled, SerialPulled, MapInvariant, MapTypeOK, Item, CallPerItem
  <2>2. Verdict' = Verdict
    BY <1>1, <2>1 DEF Verdict, MapTypeOK
  <2> QED
    BY <1>1, <2>1, <2>2 DEF Ordered!Next, Ordered!Give, Verdict, Stream, Ended
<1>3. CASE SourceEnds
  BY <1>1, <1>3 DEF SourceEnds, Ordered!Next, Ordered!End, Stream, Ended, Item
<1>4. CASE SerialEnds
  <2>1. delivered = started
    BY <1>1, <1>4 DEF SerialEnds, MapInvariant, OneByOne
  <2> QED
    BY <1>1, <1>4, <2>1 DEF SerialEnds, Ordered!Next, Ordered!End, Stream, Ended, Item
<1>5. CASE SourceFails
  BY <1>1, <1>5 DEF SourceFails, Ordered!Next, Ordered!Break, Stream, Ended, Item
<1> QED
  BY <1>2, <1>3, <1>4, <1>5

\* A settled call decides its item, and nothing else.
LEMMA OrderedSettle ==
  ASSUME MapInvariant, NEW i \in Item, Settle(i) PROVE Ordered!Next
<1>1. PICK r \in {"ok", "err"} : task[i] = "running" /\ task' = [task EXCEPT ![i] = r]
  BY DEF Settle
<1>2. /\ i < started /\ UNCHANGED <<started, source, delivered>> /\ Stream' = Stream
  BY <1>1, MapAssumption DEF MapInvariant, MapTypeOK, CallPerItem, Item, Settle, Stream
<1>3. Verdict[i] = "none" /\ Verdict' = [Verdict EXCEPT ![i] = r]
  BY <1>1 DEF Verdict, MapInvariant, MapTypeOK
<1> QED
  BY <1>1, <1>2, <1>3
  DEF Ordered!Next, Ordered!DecideItem, Ordered!Decide, Ordered!Item, Item, Verdict, Stream

\* A result that is taken is not seen yet; a failure that is taken is.
LEMMA OrderedTake ==
  ASSUME MapInvariant, Take PROVE Ordered!Next \/ UNCHANGED Ordered!vars
<1>1. PICK i \in Item : /\ i = yieldIndex /\ task[i] \in {"ok", "err"}
                        /\ \/ task[i] = "ok" /\ pc' = "filling"
                           \/ task[i] = "err" /\ pc' = "failed"
  BY DEF Take, Takes
<1>2. /\ UNCHANGED <<started, source, task, delivered>>
      /\ pc = "waiting" /\ Stream = "open" /\ yieldIndex = delivered
      /\ delivered < started /\ Verdict[delivered] = task[i]
  BY <1>1, MapAssumption
  DEF Take, MapInvariant, OneByOne, Windowed, HeldOrDelivered, CallPerItem, MapTypeOK, Stream, Ended, Item, Verdict
<1>3. CASE task[i] = "ok"
  <2>1. Stream' = Stream
    BY <1>1, <1>2, <1>3 DEF Stream, Ended
  <2> QED
    BY <1>2, <2>1, OrderedStutter
<1>4. CASE task[i] = "err"
  <2>1. Stream' = "failed" /\ Verdict' = Verdict
    BY <1>1, <1>2, <1>4 DEF Stream, Ended, Verdict
  <2> QED
    BY <1>2, <1>4, <2>1 DEF Ordered!Next, Ordered!Fail, Verdict, Stream
<1> QED
  BY <1>1, <1>3, <1>4

\* Yielding delivers the next result; a map that has nothing left is done.
LEMMA OrderedFilled ==
  ASSUME MapInvariant, Filled PROVE Ordered!Next \/ UNCHANGED Ordered!vars
<1>1. /\ MapTypeOK /\ ~Serial /\ WindowIsInterval /\ HeldOrDelivered /\ BehindIsDone
      /\ pc = "filling" /\ ~MayStart /\ UNCHANGED <<started, source, task>>
      /\ Stream = "open"
  BY DEF MapInvariant, Filled, OneByOne, Windowed, Stream, Ended
<1>2. Verdict' = Verdict
  BY <1>1 DEF Verdict
<1>3. CASE held
  <2>1. /\ delivered < started /\ delivered \in Item /\ task[delivered] = "ok"
        /\ Verdict[delivered] = "ok"
    BY <1>1, <1>3, MapAssumption DEF HeldOrDelivered, WindowIsInterval, MapTypeOK, Item, Verdict
  <2>2. delivered' = delivered + 1 /\ Stream' = Stream
    BY <1>1, <1>3 DEF Filled, Stream, Ended
  <2> QED
    BY <1>1, <1>2, <2>1, <2>2 DEF Ordered!Next, Ordered!Deliver, Verdict, Stream
<1>4. CASE ~held
  <2>1. pc' = LoopHead /\ delivered' = delivered /\ yieldIndex = delivered
    BY <1>1, <1>4 DEF Filled, HeldOrDelivered
  <2>2. CASE LoopHead = "returned"
    <3>1. source = "ended" /\ delivered = started
      BY <1>1, <2>1, <2>2, LoopHeadSafe, NothingLeft
    <3>2. Stream' = "done"
      BY <2>1, <2>2 DEF Stream
    <3> QED
      BY <1>1, <1>2, <2>1, <3>1, <3>2 DEF Ordered!Next, Ordered!Finish, Verdict, Stream
  <2>3. CASE LoopHead = "waiting"
    <3>1. Stream' = Stream
      BY <1>1, <2>1, <2>3 DEF Stream, Ended
    <3> QED
      BY <1>1, <2>1, <3>1, OrderedStutter
  <2> QED
    BY <1>1, <2>2, <2>3, LoopHeadSafe
<1> QED
  BY <1>3, <1>4

\* Asking changes nothing the consumer sees, unless there is nothing left.
LEMMA OrderedResume ==
  ASSUME MapInvariant, Resume PROVE Ordered!Next \/ UNCHANGED Ordered!vars
<1>1. /\ MapTypeOK /\ ~Serial /\ Windowed /\ UNCHANGED <<started, source, task, delivered>>
      /\ Stream = "open"
      /\ \/ pc = "start" /\ pc' = "filling"
         \/ pc = "yielded" /\ pc' = LoopHead
  BY DEF MapInvariant, Resume, Stream, Ended
<1>2. CASE pc = "yielded" /\ LoopHead = "returned"
  <2>1. source = "ended" /\ delivered = started
    BY <1>1, <1>2, LoopHeadSafe DEF Windowed, HeldOrDelivered
  <2>2. Stream' = "done" /\ Verdict' = Verdict
    BY <1>1, <1>2 DEF Stream, Verdict
  <2> QED
    BY <1>1, <2>1, <2>2 DEF Ordered!Next, Ordered!Finish, Verdict, Stream
<1>3. CASE ~(pc = "yielded" /\ LoopHead = "returned")
  <2>1. pc' \in {"filling", "waiting"}
    BY <1>1, <1>3, LoopHeadSafe DEF Windowed
  <2>2. Stream' = Stream
    BY <1>1, <2>1 DEF Stream, Ended
  <2> QED
    BY <1>1, <2>2, OrderedStutter
<1> QED
  BY <1>2, <1>3

\* On the serial path an item is decided and delivered in one step.
LEMMA OrderedMapped ==
  ASSUME MapInvariant, SerialMapped PROVE Ordered!Next
<1>1. PICK r \in {"ok", "err"} :
        /\ task' = [task EXCEPT ![started - 1] = r]
        /\ \/ r = "ok" /\ pc' = "yielded" /\ delivered' = delivered + 1
           \/ r = "err" /\ pc' = "failed" /\ delivered' = delivered
  BY DEF SerialMapped
<1>2. /\ MapTypeOK /\ OneByOne /\ pc = "mapping" /\ started = delivered + 1 /\ Stream = "open"
      /\ UNCHANGED <<started, source>>
  BY DEF SerialMapped, MapInvariant, Windowed, OneByOne, Stream, Ended
<1>3. /\ delivered \in Item /\ delivered < started /\ started - 1 = delivered
      /\ task[delivered] = "running"
  BY <1>2, MapAssumption DEF OneByOne, MapTypeOK, Item
<1>4. Verdict[delivered] = "none" /\ Verdict' = [Verdict EXCEPT ![delivered] = r]
  BY <1>1, <1>2, <1>3 DEF Verdict, MapTypeOK
<1>5. r = "ok" => Stream' = Stream
  BY <1>1, <1>2 DEF Stream, Ended
<1>6. r = "err" => Stream' = "failed"
  BY <1>1 DEF Stream, Ended
<1> QED
  BY <1>1, <1>2, <1>3, <1>4, <1>5, <1>6
  DEF Ordered!Next, Ordered!DecideItem, Ordered!Decide, Ordered!Item, Item, Verdict, Stream

\* Every step of the generator is a step of an ordered map, or none.
LEMMA OrderedNext ==
  ASSUME MapInvariant, [MapNext]_mapVars PROVE Ordered!Next \/ UNCHANGED Ordered!vars
<1>1. CASE Close
  <2>1. Stream = "open" /\ Stream' = "closed" /\ UNCHANGED <<started, source, task, delivered>>
    BY <1>1 DEF Close, Stream, Ended
  <2> QED
    BY <2>1 DEF Ordered!Next, Ordered!Close, Stream, Item
<1>2. CASE Pull \/ SerialResume \/ UNCHANGED mapVars
  <2>1. UNCHANGED <<started, source, task, delivered>> /\ Stream' = Stream
    BY <1>2 DEF Pull, SerialResume, mapVars, Stream, Ended
  <2> QED
    BY <2>1, OrderedStutter
<1> QED
  BY <1>1, <1>2, OrderedSource, OrderedSettle, OrderedTake, OrderedFilled, OrderedResume,
    OrderedMapped
  DEF MapNext, Generator

\* Whatever the window and the order in which calls settle, the consumer sees
\* the results one by one in source order, a failure at its own position, and
\* the end exactly when everything the source gave was delivered.
THEOREM ImplementsOrderedMapAlways == MapSpec => ImplementsOrderedMap
<1>1. MapInvariant /\ [MapNext]_mapVars => [Ordered!Next]_(Ordered!vars)
  BY OrderedNext
<1> QED
  BY <1>1, OrderedInit, MapInductive, PTL DEF MapSpec, ImplementsOrderedMap, Ordered!Spec
=============================================================================
