--------------------- MODULE CanonicalResolution_proofs ---------------------
(***************************************************************************)
(* Invariance proofs for CanonicalResolution, for any number of callers,   *)
(* root walks, keys, URLs and contexts and any node limit.                 *)
(***************************************************************************)
EXTENDS CanonicalResolution, FiniteSetTheorems, TLAPS

(***************************************************************************)
(* Every variable keeps its type.  What a later step reads through another *)
(* variable (the URL of a root walk, the key and the fetch of a caller)    *)
(* must be there by then.                                                  *)
(***************************************************************************)
RootHasUrl == \A r \in Roots : rootPhase[r] \in {"entered", "fetching"} => rootUrl[r] \in Urls

CallerHasKey ==
  \A c \in Callers : /\ fetch[c] # None => key[c] \in Keys
                     /\ InFlight(c) => key[c] \in Keys /\ entry[c] \in Callers

Typed == TypeOK /\ RootHasUrl /\ CallerHasKey

\* A new budget is well typed.
LEMMA InitTyped == Init => Typed
BY DEF Init, Typed, TypeOK, RootHasUrl, CallerHasKey, InFlight, Answers

\* Nothing a caller does breaks a type: it waits only after it named a key.
LEMMA TypedCallerStep ==
  ASSUME Typed, NEW c \in Callers, CallerStep(c) PROVE Typed'
<1> USE ConstantsAssumption DEF Typed, TypeOK, RootHasUrl, CallerHasKey, InFlight,
      Outcome, Answers, Stop, OutcomeKinds, StopKinds, Running, Settled,
      budgetVars, storeVars, fetchVars, callerVars, rootVars, ChargeNode
<1>1. CASE Enter(c) \/ RejectContext(c)
  BY <1>1 DEF Enter, RejectContext, BindContext
<1>2. ASSUME NEW k \in Keys, NEW a \in Answers, Answered(c, k, a) PROVE Typed'
  BY <1>2 DEF Answered
<1>3. ASSUME NEW k \in Keys,
             ReplayStop(c, k) \/ ReplayOutcome(c, k) \/ StopBeforeStart(c, k)
      PROVE Typed'
  <2>1. \E a \in Answers : Answered(c, k, a)
    BY <1>3 DEF ReplayStop, ReplayOutcome, StopBeforeStart
  <2> QED BY <2>1, <1>2
<1>4. ASSUME NEW k \in Keys, Join(c, k) PROVE Typed'
  BY <1>4 DEF Join, Wait
<1>5. ASSUME NEW k \in Keys, Start(c, k) PROVE Typed'
  BY <1>5 DEF Start, Wait
<1>6. CASE Deliver(c)
  BY <1>6 DEF Deliver, Deliverable
<1>7. CASE SignalAbort(c)
  BY <1>7 DEF SignalAbort
<1>8. CASE Leave(c)
  BY <1>8 DEF Leave, ReleaseNode
<1> QED
  BY <1>1, <1>3, <1>4, <1>5, <1>6, <1>7, <1>8 DEF CallerStep

\* A settling fetch keeps the types: it commits under the key it was started for.
LEMMA TypedSettle ==
  ASSUME Typed, NEW f \in Callers, Settle(f) PROVE Typed'
BY ConstantsAssumption, NoneAssumption
DEF Typed, TypeOK, RootHasUrl, CallerHasKey, InFlight, Outcome, OutcomeKinds, StopKinds,
  Running, Settled, budgetVars, callerVars, rootVars, Settle, MayEnd, Commit,
  RecordsOutcome, RecordsStop

\* A root walk keeps the types: it records under the URL it entered with.
LEMMA TypedRootStep ==
  ASSUME Typed, NEW r \in Roots, RootStep(r) PROVE Typed'
<1> USE ConstantsAssumption DEF Typed, TypeOK, RootHasUrl, CallerHasKey, InFlight,
      Outcome, Answers, Stop, OutcomeKinds, StopKinds,
      budgetVars, storeVars, fetchVars, callerVars, rootVars, ChargeNode
<1>1. CASE (\E u \in Urls : RootEnter(r, u)) \/ RootReject(r) \/ RootFetch(r)
  BY <1>1 DEF RootEnter, RootReject, RootFetch, BindContext
<1>2. CASE RootReplay(r)
  BY <1>2 DEF RootReplay, RootEnds, Replayable
<1>3. CASE RootResolved(r) \/ RootFailed(r)
  <2>1. PICK kind \in {"ok", "failed"} :
          /\ RootEnds(r, "fetching", [kind |-> kind, from |-> r])
          /\ RecordRoot(rootUrl[r], [kind |-> kind, from |-> r])
    BY <1>3 DEF RootResolved, RootFailed
  <2>2. [kind |-> kind, from |-> r] \in Outcome /\ rootUrl[r] \in Urls
    BY <2>1 DEF RootEnds
  <2>3. /\ visited' \subseteq Keys
        /\ nodesVisited' \in Int
    BY <1>3, <2>2 DEF RootResolved, RootFailed
  <2>4. /\ outcomes' \in [Keys -> Outcome \cup {None}]
        /\ rootOutcomes' \in [Urls -> Outcome \cup {None}]
    BY <2>1, <2>2 DEF RecordRoot
  <2>5. /\ rootPhase' \in [Roots -> {"idle", "entered", "rejected", "fetching", "done"}]
        /\ rootAnswer' \in [Roots -> Answers]
        /\ RootHasUrl'
    BY <2>1, <2>2 DEF RootEnds
  <2> QED
    BY <2>1, <2>3, <2>4, <2>5 DEF RootEnds
<1>4. CASE RootOverBudget(r) \/ (\E stop \in StopKinds : RootStopped(r, stop))
  BY <1>4 DEF RootOverBudget, RootStopped, RootEnds
<1> QED
  BY <1>1, <1>2, <1>3, <1>4 DEF RootStep

\* Every step keeps the types.
LEMMA TypedNext == Typed /\ [Next]_vars => Typed'
<1> SUFFICES ASSUME Typed, [Next]_vars PROVE Typed'
  OBVIOUS
<1>1. ASSUME NEW k \in Keys, RawCharge(k) PROVE Typed'
  BY <1>1 DEF RawCharge, ChargeNode, Typed, TypeOK, RootHasUrl, CallerHasKey, InFlight,
    storeVars, fetchVars, callerVars, rootVars
<1>2. CASE UNCHANGED vars
  BY <1>2 DEF vars, budgetVars, storeVars, fetchVars, callerVars, rootVars,
    Typed, TypeOK, RootHasUrl, CallerHasKey, InFlight
<1> QED
  BY <1>1, <1>2, TypedCallerStep, TypedSettle, TypedRootStep DEF Next

\* The type invariant of the whole layer.
THEOREM TypeCorrect == Spec => []TypeOK
<1>1. Typed => TypeOK
  BY DEF Typed
<1> QED
  BY <1>1, InitTyped, TypedNext, PTL DEF Spec

-----------------------------------------------------------------------------
(***************************************************************************)
(* The inductive invariant.                                                *)
(***************************************************************************)
Waiting(f) == {c \in Callers : InFlight(c) /\ entry[c] = f}

\* A caller that has not asked yet has started nothing.
NotAsked ==
  \A c \in Callers : phase[c] \in {"idle", "entered", "rejected"} => fetch[c] = None

\* The pending fetch of a key runs, is of that key, and is not cancelled.
PendingCurrent ==
  \A k \in Keys : pending[k] # None =>
    /\ fetch[pending[k]] \in Running
    /\ key[pending[k]] = k
    /\ pending[k] \notin cancelled

\* A caller that waits does so on a fetch of its own key that is not
\* cancelled, and on the pending one for as long as it runs.
WaitsOnCurrent ==
  \A c \in Callers : InFlight(c) =>
    /\ fetch[entry[c]] # None
    /\ key[entry[c]] = key[c]
    /\ entry[c] \notin cancelled
    /\ fetch[entry[c]] \in Running => pending[key[c]] = entry[c]

WaiterCount == \A f \in Callers : waiters[f] = Cardinality(Waiting(f))

PendingAwaited == \A k \in Keys : pending[k] # None => waiters[pending[k]] > 0

\* A fetch that nobody abandoned is pending, or left its key decided.
AttemptAccounted ==
  \A f \in Callers : (fetch[f] # None /\ f \notin cancelled) =>
    pending[key[f]] = f \/ outcomes[key[f]] # None \/ key[f] \in globalStops

\* Only a cancelled fetch ends aborted, and only a started one is cancelled.
AbortedIsCancelled ==
  \A f \in Callers : /\ fetch[f] = "aborted" => f \in cancelled
                     /\ f \in cancelled => fetch[f] # None

\* A cached outcome comes from a root walk or from a fetch that settled and was
\* not abandoned before it did.
OutcomeSource ==
  \A k \in Keys : outcomes[k] # None =>
    /\ outcomes[k].from \notin cancelled
    /\ outcomes[k].from \in Callers => fetch[outcomes[k].from] \in Settled

IInv ==
  /\ Typed /\ NotAsked /\ PendingCurrent /\ WaitsOnCurrent
  /\ WaiterCount /\ PendingAwaited /\ AttemptAccounted /\ AbortedIsCancelled
  /\ OutcomeSource /\ FetchedOnce /\ AbortIsPrivate

-----------------------------------------------------------------------------

\* The inductive invariant holds of a new budget.
LEMMA InitIInv == Init => IInv
<1> SUFFICES ASSUME Init PROVE IInv
  OBVIOUS
<1>1. \A f \in Callers : Waiting(f) = {}
  BY DEF Init, Waiting, InFlight
<1>2. WaiterCount
  BY <1>1, FS_EmptySet DEF WaiterCount, Init
<1> QED
  BY <1>2, InitTyped, NoneAssumption
  DEF Init, IInv, NotAsked, PendingCurrent, WaitsOnCurrent, InFlight, PendingAwaited,
    AttemptAccounted, AbortedIsCancelled, OutcomeSource, FetchedOnce, AbortIsPrivate,
    StopKinds, Settled

\* The set of callers waiting on a fetch is finite: it can be counted.
LEMMA WaitingFinite == \A f \in Callers : IsFiniteSet(Waiting(f))
BY ConstantsAssumption, FS_Subset DEF Waiting

\* A caller that starts to wait is counted once.
LEMMA WaitCounted ==
  ASSUME IInv, NEW c \in Callers, NEW k \in Keys, NEW f \in Callers, Wait(c, k, f)
  PROVE  WaiterCount'
<1>1. /\ c \notin Waiting(f)
      /\ Waiting(f)' = Waiting(f) \cup {c}
      /\ \A g \in Callers \ {f} : Waiting(g)' = Waiting(g)
  BY DEF Wait, Waiting, InFlight, IInv, Typed, TypeOK
<1>2. Cardinality(Waiting(f)') = Cardinality(Waiting(f)) + 1
  BY <1>1, WaitingFinite, FS_AddElement
<1> QED
  BY <1>1, <1>2 DEF Wait, WaiterCount, IInv, Typed, TypeOK

\* A root walk adds at most an outcome of its own.
LEMMA RootFrame ==
  ASSUME IInv, NEW r \in Roots, RootStep(r)
  PROVE  /\ UNCHANGED <<pending, globalStops, fetchVars, callerVars>>
         /\ \A k \in Keys : outcomes'[k] = outcomes[k]
                              \/ (outcomes'[k] # None /\ outcomes'[k].from = r)
<1>1. CASE (\E u \in Urls : RootEnter(r, u)) \/ RootReject(r) \/ RootFetch(r)
  <2>1. UNCHANGED <<storeVars, fetchVars, callerVars>>
    BY <1>1 DEF RootEnter, RootReject, RootFetch
  <2> QED BY <2>1 DEF storeVars
<1>2. CASE RootReplay(r) \/ RootOverBudget(r) \/ (\E stop \in StopKinds : RootStopped(r, stop))
  <2>1. UNCHANGED <<outcomes, pending, globalStops, fetchVars, callerVars>>
    <3>1. CASE RootReplay(r)
      BY <3>1 DEF RootReplay, RootEnds
    <3>2. CASE RootOverBudget(r)
      BY <3>2 DEF RootOverBudget, RootEnds
    <3>3. CASE \E stop \in StopKinds : RootStopped(r, stop)
      BY <3>3 DEF RootStopped, RootEnds
    <3> QED BY <1>2, <3>1, <3>2, <3>3
  <2> QED BY <2>1
<1>3. CASE RootResolved(r) \/ RootFailed(r)
  <2>1. PICK kind \in {"ok", "failed"} :
          /\ RootEnds(r, "fetching", [kind |-> kind, from |-> r])
          /\ RecordRoot(rootUrl[r], [kind |-> kind, from |-> r])
    BY <1>3 DEF RootResolved, RootFailed
  <2>2. [kind |-> kind, from |-> r] # None
    BY NoneAssumption DEF Outcome, OutcomeKinds
  <2>3. UNCHANGED <<pending, globalStops, fetchVars, callerVars>>
    BY <2>1 DEF RootEnds
  <2>4. \A k \in Keys : outcomes'[k] = outcomes[k]
                          \/ outcomes'[k] = [kind |-> kind, from |-> r]
    BY <2>1 DEF RecordRoot, IInv, Typed, TypeOK
  <2> QED
    BY <2>2, <2>3, <2>4
<1> QED
  BY <1>1, <1>2, <1>3 DEF RootStep

\* Root walks keep the inductive invariant: they touch no fetch and no waiter.
LEMMA IInvRootStep ==
  ASSUME IInv, NEW r \in Roots, RootStep(r) PROVE IInv'
<1>1. Typed'
  BY TypedRootStep DEF IInv
<1>2. /\ UNCHANGED <<pending, globalStops, fetchVars, callerVars>>
      /\ \A k \in Keys : outcomes'[k] = outcomes[k]
                           \/ (outcomes'[k] # None /\ outcomes'[k].from = r)
  BY RootFrame
<1>3. r \notin Callers
  BY ConstantsAssumption
<1>4. OutcomeSource'
  BY <1>2, <1>3 DEF IInv, OutcomeSource, fetchVars, Typed, TypeOK
<1>5. AttemptAccounted'
  BY <1>1, <1>2 DEF IInv, AttemptAccounted, fetchVars, callerVars, Typed, CallerHasKey
<1>6. WaiterCount'
  BY <1>2 DEF IInv, WaiterCount, Waiting, InFlight, fetchVars, callerVars
<1> QED
  BY <1>1, <1>2, <1>4, <1>5, <1>6
  DEF IInv, NotAsked, PendingCurrent, WaitsOnCurrent, InFlight, PendingAwaited,
    AbortedIsCancelled, FetchedOnce, AbortIsPrivate, fetchVars, callerVars

\* Steps that touch no fetch, no pending entry and no waiter.
LEMMA IInvQuietStep ==
  ASSUME IInv, Typed', NEW c \in Callers, phase[c] \in {"idle", "entered"},
         UNCHANGED <<outcomes, pending, globalStops, fetchVars, aborted, entry>>,
         \A d \in Callers \ {c} : UNCHANGED <<phase[d], key[d], answer[d]>>,
         phase[c]' \in {"entered", "rejected", "done"},
         answer[c]' = Stop("aborted") => c \in aborted
  PROVE  IInv'
<1> USE DEF fetchVars
<1>1. fetch[c] = None
  BY DEF IInv, NotAsked
<1>2. \A d \in Callers : InFlight(d)' <=> InFlight(d)
  BY DEF InFlight
<1>3. WaiterCount'
  <2>1. \A f \in Callers : Waiting(f)' = Waiting(f)
    BY <1>2 DEF Waiting
  <2> QED BY <2>1 DEF IInv, WaiterCount
<1>4. NotAsked' /\ PendingAwaited' /\ AbortedIsCancelled' /\ OutcomeSource' /\ AbortIsPrivate'
  BY <1>1 DEF IInv, NotAsked, PendingAwaited, AbortedIsCancelled, OutcomeSource, AbortIsPrivate
<1>5. PendingCurrent' /\ AttemptAccounted' /\ FetchedOnce'
  BY <1>1, NoneAssumption
  DEF IInv, PendingCurrent, AttemptAccounted, FetchedOnce, Typed, TypeOK
<1>6. WaitsOnCurrent'
  BY <1>1, <1>2 DEF IInv, WaitsOnCurrent, Typed, CallerHasKey, InFlight
<1> QED
  BY <1>3, <1>4, <1>5, <1>6 DEF IInv

\* Binding the context, or being refused, keeps the inductive invariant.
LEMMA IInvEnter ==
  ASSUME IInv, Typed', NEW c \in Callers, Enter(c) \/ RejectContext(c) PROVE IInv'
<1>1. phase[c] = "idle" /\ phase'[c] \in {"entered", "rejected"}
  BY DEF Enter, RejectContext, IInv, Typed, TypeOK
<1>2. UNCHANGED <<outcomes, pending, globalStops, fetchVars, aborted, entry, key, answer>>
  BY DEF Enter, RejectContext, storeVars
<1>3. \A d \in Callers \ {c} : phase'[d] = phase[d]
  BY DEF Enter, RejectContext, IInv, Typed, TypeOK
<1> QED
  BY <1>1, <1>2, <1>3, IInvQuietStep DEF IInv, AbortIsPrivate

\* So does an answer given without waiting, from the cache or to a cancelled caller.
LEMMA IInvAnswered ==
  ASSUME IInv, Typed', NEW c \in Callers, NEW k \in Keys,
         ReplayStop(c, k) \/ ReplayOutcome(c, k) \/ StopBeforeStart(c, k)
  PROVE  IInv'
<1>1. PICK a : Answered(c, k, a) /\ (a = Stop("aborted") => c \in aborted)
  <2>1. CASE ReplayStop(c, k)
    BY <2>1 DEF ReplayStop, Stop
  <2>2. CASE ReplayOutcome(c, k)
    <3>1. outcomes[k] # Stop("aborted")
      BY <2>2 DEF ReplayOutcome, IInv, Typed, TypeOK, Outcome, OutcomeKinds, Stop
    <3> QED BY <2>2, <3>1 DEF ReplayOutcome
  <2>3. CASE StopBeforeStart(c, k)
    BY <2>3 DEF StopBeforeStart
  <2> QED BY <2>1, <2>2, <2>3
<1>2. UNCHANGED <<outcomes, pending, globalStops, fetchVars, aborted, entry>>
  BY <1>1 DEF Answered, storeVars
<1>3. phase[c] = "entered" /\ phase'[c] = "done" /\ answer'[c] = a
  BY <1>1 DEF Answered, IInv, Typed, TypeOK
<1>4. \A d \in Callers \ {c} : UNCHANGED <<phase[d], key[d], answer[d]>>
  BY <1>1 DEF Answered, IInv, Typed, TypeOK
<1> QED
  BY <1>1, <1>2, <1>3, <1>4, IInvQuietStep

\* A wait is decided: by the fetch or by the caller's own signal.
LEMMA IInvRaced ==
  ASSUME IInv, Typed', NEW c \in Callers, Deliver(c) \/ SignalAbort(c) PROVE IInv'
<1>1. UNCHANGED <<outcomes, pending, globalStops, fetchVars, key, entry>>
  BY DEF Deliver, SignalAbort, storeVars
<1>2. /\ \A d \in Callers : InFlight(d)' <=> InFlight(d)
      /\ \A d \in Callers : phase'[d] \in {"idle", "entered", "rejected"}
                              => phase[d] \in {"idle", "entered", "rejected"}
      /\ aborted \subseteq aborted'
  BY DEF Deliver, SignalAbort, InFlight, IInv, Typed, TypeOK
<1>3. AbortIsPrivate'
  <2>1. CASE SignalAbort(c)
    BY <2>1 DEF SignalAbort, IInv, AbortIsPrivate, Typed, TypeOK
  <2>2. CASE Deliver(c)
    <3>1. fetch[entry[c]] # "aborted"
      BY <2>2 DEF Deliver, IInv, WaitsOnCurrent, AbortedIsCancelled, InFlight, Typed, CallerHasKey
    <3>2. answer'[c] # Stop("aborted")
      BY <2>2, <3>1, NoneAssumption
      DEF Deliver, IInv, Typed, TypeOK, Stop, StopKinds, CallerHasKey, InFlight
    <3> QED BY <2>2, <3>2 DEF Deliver, IInv, AbortIsPrivate, Typed, TypeOK
  <2> QED BY <2>1, <2>2
<1>4. WaiterCount'
  <2>1. \A f \in Callers : Waiting(f)' = Waiting(f)
    BY <1>1, <1>2 DEF Waiting
  <2> QED BY <1>1, <2>1 DEF IInv, WaiterCount, fetchVars
<1> QED
  BY <1>1, <1>2, <1>3, <1>4
  DEF IInv, NotAsked, PendingCurrent, WaitsOnCurrent, PendingAwaited, AttemptAccounted,
    AbortedIsCancelled, OutcomeSource, FetchedOnce, fetchVars

\* A caller that joins the fetch in flight waits on an uncancelled one and is
\* counted there.
LEMMA IInvJoin ==
  ASSUME IInv, Typed', NEW c \in Callers, NEW k \in Keys, Join(c, k) PROVE IInv'
<1> DEFINE f == pending[k]
<1> USE DEF Typed, TypeOK
<1>1. f \in Callers /\ Wait(c, k, f)
  BY DEF Join, IInv
<1>2. UNCHANGED <<outcomes, pending, globalStops, fetch, cancelled, aborted>>
  BY DEF Join, storeVars
<1>3. phase[c] = "entered" /\ fetch[c] = None
  BY <1>1 DEF Wait, IInv, NotAsked
<1>4. /\ key'[c] = k /\ entry'[c] = f /\ phase'[c] \in {"waiting", "raced"}
      /\ answer'[c] = Stop("aborted") => c \in aborted
      /\ waiters'[f] = waiters[f] + 1
      /\ \A d \in Callers \ {c} : UNCHANGED <<key[d], entry[d], phase[d], answer[d]>>
      /\ \A g \in Callers \ {f} : waiters'[g] = waiters[g]
  BY <1>1, NoneAssumption DEF Wait, IInv, StopKinds
<1>5. fetch[f] \in Running /\ key[f] = k /\ f \notin cancelled /\ f # c
  BY <1>1, <1>3, NoneAssumption DEF IInv, PendingCurrent, Join
<1>6. WaitsOnCurrent'
  BY <1>2, <1>3, <1>4, <1>5, NoneAssumption DEF IInv, WaitsOnCurrent, CallerHasKey, InFlight
<1>7. WaiterCount'
  BY <1>1, WaitCounted
<1>8. PendingAwaited'
  BY <1>2, <1>4 DEF IInv, PendingAwaited
<1>9. NotAsked' /\ AbortIsPrivate'
  BY <1>2, <1>3, <1>4 DEF IInv, NotAsked, AbortIsPrivate
<1>10. PendingCurrent' /\ AttemptAccounted' /\ FetchedOnce'
  BY <1>2, <1>3, <1>4, NoneAssumption DEF IInv, PendingCurrent, AttemptAccounted, FetchedOnce
<1> QED
  BY <1>2, <1>6, <1>7, <1>8, <1>9, <1>10 DEF IInv, AbortedIsCancelled, OutcomeSource

\* A fetch starts only for a key with no outcome and none in flight, so every
\* earlier fetch of the key was cancelled.
LEMMA IInvStart ==
  ASSUME IInv, Typed', NEW c \in Callers, NEW k \in Keys, Start(c, k) PROVE IInv'
<1> USE DEF Typed, TypeOK
<1>1. Wait(c, k, c)
  BY DEF Start
<1>2. UNCHANGED <<outcomes, globalStops, cancelled, aborted>>
  BY DEF Start
<1>3. phase[c] = "entered" /\ fetch[c] = None /\ c \notin cancelled /\ c \notin aborted
  BY <1>1 DEF Start, Wait, IInv, NotAsked, AbortedIsCancelled
<1>4. /\ key'[c] = k /\ entry'[c] = c /\ phase'[c] = "waiting" /\ answer'[c] = None
      /\ fetch'[c] \in Running /\ waiters'[c] = waiters[c] + 1
      /\ \A d \in Callers \ {c} :
           UNCHANGED <<key[d], entry[d], phase[d], answer[d], fetch[d], waiters[d]>>
  BY <1>1, <1>3 DEF Start, Wait, IInv, Running
<1>5. /\ pending'[k] = c
      /\ \A kk \in Keys \ {k} : pending'[kk] = pending[kk]
  BY DEF Start, IInv
<1>6. Undecided(k) /\ pending[k] = None
  BY DEF Start
<1>7. \A f \in Callers : (fetch[f] # None /\ key[f] = k) => f \in cancelled
  BY <1>6, ConstantsAssumption DEF IInv, AttemptAccounted, Undecided
<1>8. \A d \in Callers : InFlight(d) => entry[d] # c
  BY <1>3 DEF IInv, WaitsOnCurrent
<1>9. WaitsOnCurrent'
  <2>1. \A d \in Callers \ {c} : (InFlight(d) /\ fetch[entry[d]] \in Running) => key[d] # k
    BY <1>6, ConstantsAssumption DEF IInv, WaitsOnCurrent, CallerHasKey
  <2> QED
    BY <1>2, <1>3, <1>4, <1>5, <1>8, <2>1, NoneAssumption
    DEF IInv, WaitsOnCurrent, CallerHasKey, InFlight
<1>10. WaiterCount'
  BY <1>1, WaitCounted
<1>11. PendingAwaited'
  <2>1. waiters[c] \in Nat
    BY WaitingFinite, FS_CardinalityType DEF IInv, WaiterCount
  <2>2. \A kk \in Keys : pending[kk] # c
    BY <1>3, NoneAssumption, ConstantsAssumption DEF IInv, PendingCurrent
  <2> QED
    BY <1>4, <1>5, <2>1, <2>2 DEF IInv, PendingAwaited
<1>12. PendingCurrent'
  <2>1. \A kk \in Keys : pending[kk] # c
    BY <1>3, NoneAssumption, ConstantsAssumption DEF IInv, PendingCurrent
  <2> QED
    BY <1>2, <1>3, <1>4, <1>5, <2>1 DEF IInv, PendingCurrent
<1>13. AttemptAccounted'
  <2>1. \A f \in Callers \ {c} : (fetch[f] # None /\ f \notin cancelled) => key[f] # k
    BY <1>7
  <2> QED
    BY <1>2, <1>4, <1>5, <2>1 DEF IInv, AttemptAccounted, CallerHasKey
<1>14. FetchedOnce'
  BY <1>2, <1>4, <1>7 DEF IInv, FetchedOnce
<1>15. AbortedIsCancelled' /\ OutcomeSource'
  BY <1>2, <1>3, <1>4, NoneAssumption DEF IInv, AbortedIsCancelled, OutcomeSource, Running, Settled
<1>16. NotAsked' /\ AbortIsPrivate'
  BY <1>2, <1>4, NoneAssumption DEF IInv, NotAsked, AbortIsPrivate, StopKinds
<1> QED
  BY <1>9, <1>10, <1>11, <1>12, <1>13, <1>14, <1>15, <1>16 DEF IInv

\* The last waiter to leave a running fetch was the only one: nobody is left
\* holding a fetch that was cancelled.
LEMMA IInvLeave ==
  ASSUME IInv, Typed', NEW c \in Callers, Leave(c) PROVE IInv'
<1> DEFINE k == key[c]
<1>0. PICK f \in Callers : f = entry[c]
  BY DEF Leave, IInv, Typed, CallerHasKey, InFlight
<1> USE DEF Typed, TypeOK
<1>1. /\ phase[c] = "raced" /\ InFlight(c) /\ f \in Callers /\ k \in Keys
      /\ fetch[f] # None /\ key[f] = k /\ f \notin cancelled
  BY <1>0 DEF Leave, IInv, CallerHasKey, WaitsOnCurrent, InFlight
<1>2. /\ UNCHANGED <<outcomes, globalStops, fetch, aborted, key, entry, answer>>
      /\ phase'[c] = "done"
      /\ \A d \in Callers \ {c} : phase'[d] = phase[d]
      /\ waiters'[f] = waiters[f] - 1
      /\ \A g \in Callers \ {f} : waiters'[g] = waiters[g]
  BY <1>0, <1>1 DEF Leave, IInv
<1>3. /\ c \in Waiting(f)
      /\ Waiting(f)' = Waiting(f) \ {c}
      /\ \A g \in Callers \ {f} : Waiting(g)' = Waiting(g)
  BY <1>0, <1>1, <1>2 DEF Waiting, InFlight
<1>4. WaiterCount'
  <2>1. Cardinality(Waiting(f)') = Cardinality(Waiting(f)) - 1
    BY <1>1, <1>3, WaitingFinite, FS_RemoveElement
  <2>2. waiters[f] = Cardinality(Waiting(f)) /\ waiters'[f] = Cardinality(Waiting(f)')
    BY <1>1, <1>2, <2>1 DEF IInv, WaiterCount
  <2>3. \A g \in Callers \ {f} : waiters'[g] = Cardinality(Waiting(g)')
    BY <1>2, <1>3 DEF IInv, WaiterCount
  <2> QED
    BY <2>2, <2>3 DEF WaiterCount
<1>5. NotAsked' /\ AbortIsPrivate'
  BY <1>2 DEF IInv, NotAsked, AbortIsPrivate
<1>6. CASE Abandons(c)
  <2>1. /\ pending[k] = f
        /\ pending'[k] = None
        /\ \A kk \in Keys \ {k} : pending'[kk] = pending[kk]
        /\ cancelled' = cancelled \cup {f}
    BY <1>0, <1>1, <1>6 DEF Leave, Abandons, IInv
  <2>2. fetch[f] \in Running
    BY <1>1, <2>1, ConstantsAssumption DEF IInv, PendingCurrent
  <2>3. Waiting(f) = {c}
    <3>1. Cardinality(Waiting(f)) = 1
      BY <1>0, <1>1, <1>6 DEF Abandons, IInv, WaiterCount
    <3> QED
      BY <1>1, <1>3, <3>1, WaitingFinite, FS_Singleton
  <2>4. \A d \in Callers : InFlight(d)' => (InFlight(d) /\ entry[d] # f)
    BY <1>0, <1>2, <2>3 DEF Waiting, InFlight
  <2>5. WaitsOnCurrent'
    <3>1. \A d \in Callers : (InFlight(d) /\ entry[d] # f /\ fetch[entry[d]] \in Running)
                               => key[d] # k
      BY <2>1 DEF IInv, WaitsOnCurrent
    <3> QED
      BY <1>2, <2>1, <2>4, <3>1 DEF IInv, WaitsOnCurrent, CallerHasKey
  <2>6. PendingCurrent' /\ PendingAwaited'
    <3>1. \A kk \in Keys \ {k} : pending[kk] # f
      BY <1>1, ConstantsAssumption DEF IInv, PendingCurrent
    <3> QED
      BY <1>2, <2>1, <3>1 DEF IInv, PendingCurrent, PendingAwaited
  <2>7. AttemptAccounted'
    BY <1>1, <1>2, <2>1 DEF IInv, AttemptAccounted, CallerHasKey
  <2>8. OutcomeSource'
    BY <1>1, <1>2, <2>1, <2>2, NoneAssumption
    DEF IInv, OutcomeSource, Running, Settled, OutcomeKinds, StopKinds
  <2>9. AbortedIsCancelled' /\ FetchedOnce'
    BY <1>1, <1>2, <2>1 DEF IInv, AbortedIsCancelled, FetchedOnce
  <2> QED
    BY <1>4, <1>5, <2>5, <2>6, <2>7, <2>8, <2>9 DEF IInv
<1>7. CASE ~Abandons(c)
  <2>1. UNCHANGED <<pending, cancelled>>
    BY <1>7 DEF Leave
  <2>2. PendingAwaited'
    <3>1. \A kk \in Keys : pending[kk] = f => kk = k
      BY <1>1, ConstantsAssumption DEF IInv, PendingCurrent
    <3>2. pending[k] = f => waiters[f] # 1
      BY <1>0, <1>7 DEF Abandons
    <3> QED
      BY <1>1, <1>2, <2>1, <3>1, <3>2, ConstantsAssumption DEF IInv, PendingAwaited
  <2>3. \A d \in Callers : InFlight(d)' => InFlight(d)
    BY <1>2 DEF InFlight
  <2> QED
    BY <1>2, <1>4, <1>5, <2>1, <2>2, <2>3
    DEF IInv, PendingCurrent, WaitsOnCurrent, AttemptAccounted, AbortedIsCancelled,
      OutcomeSource, FetchedOnce
<1> QED
  BY <1>6, <1>7

\* Only the pending fetch of a key commits; an abandoned one changes nothing
\* but its own state.
LEMMA IInvSettle ==
  ASSUME IInv, Typed', NEW f \in Callers, Settle(f) PROVE IInv'
<1> DEFINE k == key[f]
<1> USE DEF Typed, TypeOK
<1>1. PICK res \in Settled : MayEnd(f, res) /\ fetch' = [fetch EXCEPT ![f] = res]
                             /\ (IF IsCurrent(f) THEN Commit(f, k, res)
                                 ELSE UNCHANGED <<pending, outcomes, globalStops>>)
  BY DEF Settle
<1>2. /\ fetch[f] \in Running /\ fetch[f] # None /\ k \in Keys
      /\ res = "aborted" => f \in cancelled
  BY <1>1, NoneAssumption DEF MayEnd, Running, IInv, CallerHasKey
<1>3. /\ UNCHANGED <<waiters, cancelled, callerVars>>
      /\ fetch'[f] = res /\ res # None /\ res \notin Running
      /\ \A g \in Callers \ {f} : fetch'[g] = fetch[g]
  BY <1>1, NoneAssumption DEF Settle, IInv, Running, Settled, OutcomeKinds, StopKinds
<1>4. UNCHANGED <<aborted, phase, key, entry, answer>>
  BY <1>3 DEF callerVars
<1>5. WaiterCount' /\ AbortIsPrivate' /\ AbortedIsCancelled' /\ FetchedOnce' /\ NotAsked'
  <2>1. \A g \in Callers : Waiting(g)' = Waiting(g)
    BY <1>4 DEF Waiting, InFlight
  <2> QED
    BY <1>2, <1>3, <1>4, <2>1
    DEF IInv, WaiterCount, AbortIsPrivate, AbortedIsCancelled, FetchedOnce, NotAsked
<1>6. CASE IsCurrent(f)
  <2>1. /\ pending[k] = f
        /\ pending'[k] = None
        /\ \A kk \in Keys \ {k} : pending'[kk] = pending[kk] /\ outcomes'[kk] = outcomes[kk]
        /\ f \notin cancelled
    BY <1>1, <1>2, <1>6, ConstantsAssumption DEF IsCurrent, Commit, IInv, PendingCurrent
  <2>2. res \in OutcomeKinds \/ res = "budget"
    BY <1>2, <2>1 DEF Settled, StopKinds
  <2>3. \/ /\ outcomes'[k] = [kind |-> res, from |-> f]
           /\ outcomes'[k] # None
           /\ globalStops \subseteq globalStops'
        \/ /\ outcomes'[k] = outcomes[k]
           /\ globalStops' = globalStops \cup {k}
    BY <1>1, <1>2, <1>6, <2>2, NoneAssumption
    DEF Commit, RecordsOutcome, RecordsStop, IInv, Outcome, OutcomeKinds
  <2>4. \A kk \in Keys \ {k} : pending[kk] # f
    BY <1>2, ConstantsAssumption DEF IInv, PendingCurrent
  <2>5. PendingCurrent' /\ PendingAwaited'
    BY <1>2, <1>3, <1>4, <2>1, <2>4 DEF IInv, PendingCurrent, PendingAwaited
  <2>6. WaitsOnCurrent'
    <3>1. \A c \in Callers : (InFlight(c) /\ key[c] = k /\ fetch[entry[c]] \in Running)
                               => entry[c] = f
      BY <2>1 DEF IInv, WaitsOnCurrent
    <3> QED
      BY <1>2, <1>3, <1>4, <2>1, <3>1 DEF IInv, WaitsOnCurrent, CallerHasKey, InFlight
  <2>7. AttemptAccounted'
    <3>1. \A g \in Callers : (fetch'[g] # None /\ g \notin cancelled) => fetch[g] # None
      BY <1>2, <1>3
    <3>2. \A g \in Callers : (fetch[g] # None /\ key[g] = k) =>
             (outcomes'[k] # None \/ k \in globalStops')
      BY <2>3
    <3>3. \A g \in Callers : (fetch[g] # None /\ g \notin cancelled /\ key[g] # k) =>
             (pending'[key[g]] = g \/ outcomes'[key[g]] # None \/ key[g] \in globalStops')
      BY <2>1, <2>3 DEF IInv, AttemptAccounted, CallerHasKey
    <3> QED
      BY <1>3, <1>4, <3>1, <3>2, <3>3 DEF AttemptAccounted
  <2>8. OutcomeSource'
    <3>1. OutcomeSource /\ cancelled' = cancelled
      BY <1>3 DEF IInv
    <3>2. \A g \in Callers : fetch[g] \in Settled => fetch'[g] \in Settled
      BY <1>1, <1>3
    <3> SUFFICES ASSUME NEW kk \in Keys, outcomes'[kk] # None
                 PROVE  /\ outcomes'[kk].from \notin cancelled
                        /\ outcomes'[kk].from \in Callers => fetch'[outcomes'[kk].from] \in Settled
      BY <3>1 DEF OutcomeSource
    <3>3. CASE outcomes'[kk] = outcomes[kk]
      BY <3>1, <3>2, <3>3 DEF OutcomeSource
    <3>4. CASE kk = k /\ outcomes'[k] = [kind |-> res, from |-> f]
      <4>1. outcomes'[kk].from = f
        BY <3>4
      <4> QED
        BY <1>1, <1>3, <2>1, <4>1
    <3> QED
      BY <2>1, <2>3, <3>3, <3>4
  <2> QED
    BY <1>5, <2>5, <2>6, <2>7, <2>8 DEF IInv
<1>7. CASE ~IsCurrent(f)
  <2>1. UNCHANGED <<pending, outcomes, globalStops>>
    BY <1>1, <1>7
  <2>2. \A kk \in Keys : pending[kk] # f
    BY <1>2, <1>7, ConstantsAssumption DEF IInv, PendingCurrent, IsCurrent
  <2> QED
    BY <1>2, <1>3, <1>4, <1>5, <2>1, <2>2
    DEF IInv, PendingCurrent, PendingAwaited, WaitsOnCurrent, AttemptAccounted,
      OutcomeSource, CallerHasKey, InFlight
<1> QED
  BY <1>6, <1>7

\* Every step keeps the inductive invariant.
LEMMA IInvNext == IInv /\ [Next]_vars => IInv'
<1> SUFFICES ASSUME IInv, [Next]_vars PROVE IInv'
  OBVIOUS
<1>1. Typed'
  BY TypedNext DEF IInv
<1>2. ASSUME NEW c \in Callers, CallerStep(c) PROVE IInv'
  BY <1>1, <1>2, IInvEnter, IInvAnswered, IInvJoin, IInvStart, IInvRaced, IInvLeave DEF CallerStep
<1>3. CASE (\E k \in Keys : RawCharge(k)) \/ UNCHANGED vars
  <2>1. UNCHANGED <<storeVars, fetchVars, callerVars>>
    BY <1>3 DEF RawCharge, vars
  <2>2. WaiterCount'
    <3>1. \A f \in Callers : Waiting(f)' = Waiting(f)
      BY <2>1 DEF Waiting, InFlight, callerVars
    <3> QED BY <2>1, <3>1 DEF IInv, WaiterCount, fetchVars
  <2> QED
    BY <1>1, <2>1, <2>2 DEF IInv, NotAsked, PendingCurrent, WaitsOnCurrent, InFlight,
      PendingAwaited, AttemptAccounted, AbortedIsCancelled, OutcomeSource, FetchedOnce,
      AbortIsPrivate, storeVars, fetchVars, callerVars
<1> QED
  BY <1>2, <1>3, IInvSettle, <1>1, IInvRootStep DEF Next

\* The inductive invariant holds in every reachable state.
THEOREM Inductive == Spec => []IInv
BY InitIInv, IInvNext, PTL DEF Spec

\* Whatever callers, walks and cancellations do, no key is fetched twice
\* unless everybody who waited for the first fetch had given up on it.
THEOREM FetchedOnceAlways == Spec => []FetchedOnce
<1>1. IInv => FetchedOnce
  BY DEF IInv
<1> QED BY <1>1, Inductive, PTL

\* No caller is ever told of a cancellation that was not its own.
THEOREM AbortIsPrivateAlways == Spec => []AbortIsPrivate
<1>1. IInv => AbortIsPrivate
  BY DEF IInv
<1> QED BY <1>1, Inductive, PTL

\* An abandoned fetch never reaches the cache, and nobody waits on it.
THEOREM AbandonedLeavesNoTraceAlways == Spec => []AbandonedLeavesNoTrace
<1>1. IInv => AbandonedLeavesNoTrace
  BY DEF IInv, AbandonedLeavesNoTrace, OutcomeSource, WaitsOnCurrent
<1> QED BY <1>1, Inductive, PTL

\* The waiter count that decides about abandonment is exact.
THEOREM WaitersExactAlways == Spec => []WaitersExact
<1>1. IInv => WaitersExact
  BY DEF IInv, WaitersExact, WaiterCount, Waiting, PendingAwaited
<1> QED BY <1>1, Inductive, PTL

-----------------------------------------------------------------------------
(***************************************************************************)
(* One budget, one context.  Whoever came past the door is of the context  *)
(* that is bound, so everything that is ever stored or told is of it too.  *)
(***************************************************************************)
InContext(o) == (o # None /\ o.from # None) => ContextOf[o.from] = bound

Admitted ==
  /\ \A c \in Callers : phase[c] \notin {"idle", "rejected"} => bound = ContextOf[c]
  /\ \A r \in Roots : rootPhase[r] \notin {"idle", "rejected"} => bound = ContextOf[r]

ToldAfterAsking ==
  /\ \A c \in Callers : answer[c] # None => phase[c] \in {"raced", "done"}
  /\ \A r \in Roots : rootAnswer[r] # None => rootPhase[r] = "done"

AllInContext ==
  /\ \A k \in Keys : InContext(outcomes[k])
  /\ \A u \in Urls : InContext(rootOutcomes[u])
  /\ \A c \in Callers : InContext(answer[c])
  /\ \A r \in Roots : InContext(rootAnswer[r])

ContextInv == Admitted /\ ToldAfterAsking /\ AllInContext

LEMMA InitContext == Init => ContextInv
BY DEF Init, ContextInv, Admitted, ToldAfterAsking, AllInContext, InContext

\* At the door the context is bound, and as long as none is nothing is stored or told.
LEMMA ContextEnter ==
  ASSUME Typed, ContextInv, NEW c \in Callers, Enter(c) \/ RejectContext(c) PROVE ContextInv'
<1>1. UNCHANGED <<outcomes, rootOutcomes, answer, rootAnswer, rootPhase>> /\ phase[c] = "idle"
  BY DEF Enter, RejectContext, storeVars, rootVars
<1>2. \A d \in Callers \ {c} : phase'[d] = phase[d]
  BY DEF Enter, RejectContext, Typed, TypeOK
<1>3. (bound' = bound /\ phase'[c] = "rejected") \/ (bound \in {None, bound'} /\ bound' = ContextOf[c])
  BY DEF Enter, RejectContext, BindContext, Typed, TypeOK
<1>4. ContextOf \in [Callers \cup Roots -> Contexts] /\ None \notin Contexts
  BY ConstantsAssumption
<1>5. AllInContext'
  BY <1>1, <1>3, <1>4 DEF ContextInv, AllInContext, InContext, Typed, TypeOK, Outcome, Answers, Stop
<1>6. Admitted'
  BY <1>1, <1>2, <1>3, <1>4 DEF ContextInv, Admitted
<1>7. ToldAfterAsking'
  BY <1>1, <1>2 DEF ContextInv, ToldAfterAsking
<1> QED
  BY <1>5, <1>6, <1>7 DEF ContextInv

\* What a caller does behind the door: it is told something of its own context.
CallerTold(c) ==
  /\ UNCHANGED <<bound, outcomes, rootOutcomes, rootVars>>
  /\ \A d \in Callers \ {c} : UNCHANGED <<phase[d], answer[d]>>
  /\ phase[c] \notin {"idle", "rejected"} \/ phase'[c] = phase[c]
  /\ answer'[c] # None => phase'[c] \in {"raced", "done"}
  /\ InContext(answer'[c])

LEMMA ContextTold ==
  ASSUME IInv, ContextInv, NEW c \in Callers, CallerStep(c), ~Enter(c), ~RejectContext(c)
  PROVE  CallerTold(c)
<1> USE DEF IInv, Typed, TypeOK
<1>1. ASSUME NEW k \in Keys, ReplayStop(c, k) \/ ReplayOutcome(c, k) \/ StopBeforeStart(c, k)
      PROVE  CallerTold(c)
  <2>1. PICK a : Answered(c, k, a) /\ (a = outcomes[k] \/ \E kind : a = Stop(kind))
    BY <1>1 DEF ReplayStop, ReplayOutcome, StopBeforeStart
  <2>2. InContext(a)
    BY <2>1 DEF ContextInv, AllInContext, InContext, Stop
  <2> QED
    BY <2>1, <2>2 DEF Answered, CallerTold, storeVars
<1>2. ASSUME NEW k \in Keys, Join(c, k) \/ Start(c, k) PROVE CallerTold(c)
  <2>1. PICK f : Wait(c, k, f)
    BY <1>2 DEF Join, Start
  <2>2. UNCHANGED <<bound, outcomes, rootOutcomes, rootVars>>
    BY <1>2 DEF Join, Start, storeVars
  <2>3. answer'[c] \in {None, Stop("aborted")} /\ (answer'[c] # None => phase'[c] = "raced")
    BY <2>1 DEF Wait
  <2> QED
    BY <2>1, <2>2, <2>3 DEF Wait, CallerTold, InContext, Stop
<1>3. CASE Deliver(c)
  <2>1. entry[c] \in Callers /\ fetch[entry[c]] # None /\ phase[c] = "waiting"
    BY <1>3 DEF Deliver, InFlight, CallerHasKey, WaitsOnCurrent
  <2>2. ContextOf[entry[c]] = bound
    BY <2>1 DEF NotAsked, ContextInv, Admitted
  <2>3. /\ phase'[c] = "raced"
        /\ answer'[c].from \in {None, entry[c]}
    BY <1>3 DEF Deliver, Stop
  <2>4. InContext(answer'[c])
    BY <2>2, <2>3 DEF InContext
  <2> QED
    BY <1>3, <2>1, <2>3, <2>4 DEF Deliver, CallerTold, storeVars
<1>4. CASE SignalAbort(c)
  BY <1>4 DEF SignalAbort, CallerTold, storeVars, ContextInv, ToldAfterAsking, AllInContext, InContext, Stop
<1>5. CASE Leave(c)
  BY <1>5 DEF Leave, CallerTold, ContextInv, ToldAfterAsking, AllInContext, InContext
<1> QED
  BY <1>1, <1>2, <1>3, <1>4, <1>5 DEF CallerStep

LEMMA ContextCaller ==
  ASSUME IInv, ContextInv, NEW c \in Callers, CallerTold(c) PROVE ContextInv'
<1>1. UNCHANGED <<bound, outcomes, rootOutcomes, rootPhase, rootAnswer>>
  BY DEF CallerTold, rootVars
<1>2. Admitted'
  BY <1>1 DEF CallerTold, ContextInv, Admitted
<1>3. ToldAfterAsking'
  BY <1>1 DEF CallerTold, ContextInv, ToldAfterAsking
<1>4. AllInContext'
  BY <1>1 DEF CallerTold, ContextInv, AllInContext, InContext
<1> QED
  BY <1>2, <1>3, <1>4 DEF ContextInv

\* A fetch commits under the context it was started in.
LEMMA ContextSettle ==
  ASSUME IInv, ContextInv, NEW f \in Callers, Settle(f) PROVE ContextInv'
<1>1. UNCHANGED <<bound, rootOutcomes, phase, answer, rootPhase, rootAnswer>>
  BY DEF Settle, callerVars, rootVars
<1>2. fetch[f] # None
  BY NoneAssumption DEF Settle, MayEnd, Running
<1>3. ContextOf[f] = bound
  BY <1>2 DEF IInv, NotAsked, ContextInv, Admitted
<1>4. \A k \in Keys : outcomes'[k] = outcomes[k] \/ outcomes'[k].from = f
  BY DEF Settle, Commit, IInv, Typed, TypeOK
<1>5. \A k \in Keys : InContext(outcomes[k])'
  BY <1>1, <1>3, <1>4 DEF ContextInv, AllInContext, InContext
<1> QED
  BY <1>1, <1>5 DEF ContextInv, Admitted, ToldAfterAsking, AllInContext, InContext

\* A root walk binds the context as a caller does, and records under its own.
LEMMA ContextRoot ==
  ASSUME IInv, ContextInv, NEW r \in Roots, RootStep(r) PROVE ContextInv'
<1> USE DEF IInv, Typed, TypeOK
<1>1. ContextOf \in [Callers \cup Roots -> Contexts] /\ None \notin Contexts
  BY ConstantsAssumption
<1>2. UNCHANGED <<phase, answer>>
  BY RootFrame DEF callerVars
<1>3. CASE (\E u \in Urls : RootEnter(r, u)) \/ RootReject(r)
  <2>1. UNCHANGED <<outcomes, rootOutcomes, rootAnswer>> /\ rootPhase[r] = "idle"
    BY <1>3 DEF RootEnter, RootReject, storeVars
  <2>2. \A q \in Roots \ {r} : rootPhase'[q] = rootPhase[q]
    BY <1>3 DEF RootEnter, RootReject
  <2>3. (bound' = bound /\ rootPhase'[r] = "rejected") \/ (bound \in {None, bound'} /\ bound' = ContextOf[r])
    BY <1>3 DEF RootEnter, RootReject, BindContext
  <2>4. AllInContext'
    BY <1>1, <1>2, <2>1, <2>3 DEF ContextInv, AllInContext, InContext, Outcome, Answers, Stop
  <2>5. Admitted'
    BY <1>1, <1>2, <2>1, <2>2, <2>3 DEF ContextInv, Admitted
  <2>6. ToldAfterAsking'
    BY <1>2, <2>1, <2>2 DEF ContextInv, ToldAfterAsking
  <2> QED
    BY <2>4, <2>5, <2>6 DEF ContextInv
<1>4. ASSUME NEW from \in {"entered", "fetching"}, NEW a, RootEnds(r, from, a), InContext(a),
             \A k \in Keys : outcomes'[k] \in {outcomes[k], a},
             \A u \in Urls : rootOutcomes'[u] \in {rootOutcomes[u], a}
      PROVE  ContextInv'
  <2>1. UNCHANGED bound
    BY <1>4 DEF RootEnds
  <2>2. rootPhase[r] = from /\ rootPhase'[r] = "done" /\ rootAnswer'[r] = a
    BY <1>4 DEF RootEnds
  <2>3. \A q \in Roots \ {r} : UNCHANGED <<rootPhase[q], rootAnswer[q]>>
    BY <1>4 DEF RootEnds
  <2>4. Admitted' /\ ToldAfterAsking'
    BY <1>2, <2>1, <2>2, <2>3 DEF ContextInv, Admitted, ToldAfterAsking
  <2>5. AllInContext'
    BY <1>2, <1>4, <2>1, <2>2, <2>3 DEF ContextInv, AllInContext, InContext
  <2> QED
    BY <2>4, <2>5 DEF ContextInv
<1>5. CASE RootReplay(r)
  <2>1. PICK o \in Replayable(rootUrl[r]) : RootEnds(r, "entered", o) /\ UNCHANGED <<outcomes, rootOutcomes>>
    BY <1>5 DEF RootReplay
  <2>2. rootUrl[r] \in Urls
    BY <2>1 DEF RootHasUrl, RootEnds
  <2>3. InContext(o)
    BY <2>1, <2>2 DEF Replayable, ContextInv, AllInContext
  <2> QED
    BY <1>4, <2>1, <2>3
<1>6. CASE RootFetch(r)
  BY <1>2, <1>6 DEF RootFetch, storeVars, ContextInv, Admitted, ToldAfterAsking, AllInContext, InContext
<1>7. CASE RootResolved(r) \/ RootFailed(r)
  <2>1. PICK kind \in {"ok", "failed"} :
          /\ RootEnds(r, "fetching", [kind |-> kind, from |-> r])
          /\ RecordRoot(rootUrl[r], [kind |-> kind, from |-> r])
    BY <1>7 DEF RootResolved, RootFailed
  <2> DEFINE o == [kind |-> kind, from |-> r]
  <2>2. InContext(o)
    BY <2>1 DEF RootEnds, ContextInv, Admitted, InContext
  <2>3. /\ \A k \in Keys : outcomes'[k] \in {outcomes[k], o}
        /\ \A u \in Urls : rootOutcomes'[u] \in {rootOutcomes[u], o}
    BY <2>1 DEF RecordRoot
  <2> HIDE DEF o
  <2>4. RootEnds(r, "fetching", o)
    BY <2>1 DEF o
  <2> QED
    BY <1>4, <2>2, <2>3, <2>4
<1>8. CASE RootOverBudget(r) \/ (\E stop \in StopKinds : RootStopped(r, stop))
  <2>1. PICK stop : RootEnds(r, "fetching", Stop(stop)) /\ UNCHANGED <<outcomes, rootOutcomes>>
    BY <1>8 DEF RootOverBudget, RootStopped
  <2>2. InContext(Stop(stop))
    BY DEF InContext, Stop
  <2> QED
    BY <1>4, <2>1, <2>2
<1> QED
  BY <1>3, <1>5, <1>6, <1>7, <1>8 DEF RootStep

LEMMA ContextNext == IInv /\ ContextInv /\ [Next]_vars => ContextInv'
<1> SUFFICES ASSUME IInv, ContextInv, [Next]_vars PROVE ContextInv'
  OBVIOUS
<1>1. ASSUME NEW c \in Callers, CallerStep(c) PROVE ContextInv'
  BY <1>1, ContextEnter, ContextTold, ContextCaller DEF IInv
<1>2. CASE (\E k \in Keys : RawCharge(k)) \/ UNCHANGED vars
  <2>1. UNCHANGED <<bound, outcomes, rootOutcomes, phase, answer, rootPhase, rootAnswer>>
    BY <1>2 DEF RawCharge, vars, storeVars, callerVars, rootVars
  <2> QED
    BY <2>1 DEF ContextInv, Admitted, ToldAfterAsking, AllInContext, InContext
<1> QED
  BY <1>1, <1>2, ContextSettle, ContextRoot DEF Next

\* Nothing replaces what a root URL has settled to.
LEMMA RootOutcomesStay == IInv /\ [Next]_vars => RootOutcomesKept
<1> SUFFICES ASSUME IInv, [Next]_vars PROVE RootOutcomesKept
  OBVIOUS
<1>1. CASE UNCHANGED rootOutcomes
  BY <1>1 DEF RootOutcomesKept
<1>2. ASSUME NEW r \in Roots, NEW o, RecordRoot(rootUrl[r], o) PROVE RootOutcomesKept
  BY <1>2 DEF RecordRoot, RootOutcomesKept, IInv, Typed, TypeOK
<1>3. ASSUME NEW r \in Roots, RootStep(r) PROVE RootOutcomesKept
  BY <1>1, <1>2, <1>3 DEF RootStep, RootEnter, RootReject, RootReplay, RootFetch, RootResolved,
    RootOverBudget, RootFailed, RootStopped, storeVars
<1>4. ASSUME NEW c \in Callers, CallerStep(c) \/ Settle(c) PROVE UNCHANGED rootOutcomes
  BY <1>4 DEF CallerStep, Enter, RejectContext, ReplayStop, ReplayOutcome, StopBeforeStart, Answered, Join,
    Start, Deliver, SignalAbort, Leave, Settle, storeVars
<1> QED
  BY <1>1, <1>3, <1>4 DEF Next, RawCharge, vars, storeVars

\* An answer always comes from a fetch made with the asker's own context, and a
\* root URL keeps what it settled to, with any callers and root walks racing.
THEOREM RootsKeepTheirWordAlways == Spec => RootsKeepTheirWord
<1>1. IInv /\ ContextInv /\ [Next]_vars => ContextIsolation'
  <2> SUFFICES ASSUME ContextInv' PROVE ContextIsolation'
    BY ContextNext
  <2> QED
    BY DEF ContextInv, Admitted, ToldAfterAsking, AllInContext, InContext, ContextIsolation
<1>2. IInv /\ ContextInv /\ [Next]_vars => [ContextIsolation' /\ RootOutcomesKept]_vars
  BY <1>1, RootOutcomesStay
<1> QED
  BY <1>2, InitContext, ContextNext, Inductive, PTL DEF Spec, RootsKeepTheirWord

-----------------------------------------------------------------------------
(***************************************************************************)
(* The layer as references alone use it, with no root walk: what the cache *)
(* holds, what is charged and what callers were told.                      *)
(***************************************************************************)

\* What is in flight is not decided yet, and charged.
PendingOpen == \A k \in Keys : pending[k] # None => Undecided(k) /\ k \in visited

\* A fetch that nobody abandoned runs as the pending one of its key.
RunsPending == \A f \in Callers : (fetch[f] \in Running /\ f \notin cancelled) => pending[key[f]] = f

\* A fetch that settled, and that nobody abandoned, is what its key is decided by.
Committed ==
  \A f \in Callers : f \notin cancelled =>
    /\ fetch[f] \in OutcomeKinds => outcomes[key[f]] = [kind |-> fetch[f], from |-> f]
    /\ fetch[f] = "budget" => key[f] \in globalStops

\* A caller has asked for a key when it has an answer or waits for one, and what
\* it was told is what its key was decided by.
ToldTruth ==
  \A c \in Callers :
    /\ phase[c] \in {"idle", "entered", "rejected"} => key[c] = None /\ answer[c] = None
    /\ phase[c] = "waiting" => answer[c] = None
    /\ answer[c] \in Outcome => key[c] \in Keys /\ outcomes[key[c]] = answer[c]

\* A key that is charged, and neither in flight nor decided, was charged by a raw step.
RawExplains ==
  /\ \A k \in visited : pending[k] # None \/ ~Undecided(k) \/ k \in RawKeys
  /\ \A f \in Callers : fetch[f] \in {"duplicateRunning", "duplicate"} => key[f] \in RawKeys
  /\ NoFalseDuplicate

\* The keys that were requested: one request each, in flight or answered.
Held == {k \in Keys : \/ pending[k] # None /\ fetch[pending[k]] = "http"
                      \/ outcomes[k] # None /\ outcomes[k].kind # "duplicate"}

ChargedFirst == Held \subseteq visited /\ nodesVisited = Cardinality(visited)

AloneInv ==
  /\ PendingOpen /\ RunsPending /\ Committed /\ ToldTruth /\ RawExplains /\ ChargedFirst
  /\ NodesWithinBudget

LEMMA InitAlone == Init => AloneInv
<1> SUFFICES ASSUME Init PROVE AloneInv
  OBVIOUS
<1>1. Held = {} /\ visited = {}
  BY DEF Init, Held
<1>2. Cardinality({}) = 0
  BY FS_EmptySet
<1>3. ChargedFirst /\ NodesWithinBudget
  <2>1. Cardinality(Held) <= MaxNodes
    BY <1>1, <1>2, ConstantsAssumption
  <2>2. ChargedFirst
    BY <1>1, <1>2 DEF Init, ChargedFirst
  <2> QED
    BY <2>1, <2>2 DEF NodesWithinBudget, Held
<1>4. None \notin Running \cup Settled /\ None \notin Outcome
  BY NoneAssumption
<1> QED
  BY <1>3, <1>4 DEF Init, AloneInv, PendingOpen, RunsPending, Committed, ToldTruth, RawExplains, NoFalseDuplicate,
    Running, Settled, OutcomeKinds, StopKinds

\* Charging and releasing count exactly the keys that are charged.
LEMMA ChargeCounted ==
  ASSUME Typed, nodesVisited = Cardinality(visited), NEW k \in Keys
  PROVE  /\ IsFiniteSet(visited) /\ nodesVisited \in Nat
         /\ ChargeNode(k) => nodesVisited' = Cardinality(visited')
         /\ ReleaseNode(k) => nodesVisited' = Cardinality(visited')
<1>1. IsFiniteSet(visited) /\ nodesVisited \in Nat
  BY ConstantsAssumption, FS_Subset, FS_CardinalityType DEF Typed, TypeOK
<1>2. CASE k \in visited
  <2>1. visited \cup {k} = visited /\ Cardinality(visited \ {k}) = Cardinality(visited) - 1
    BY <1>1, <1>2, FS_RemoveElement
  <2> QED
    BY <1>1, <1>2, <2>1 DEF ChargeNode, ReleaseNode
<1>3. CASE k \notin visited
  <2>1. visited \ {k} = visited /\ Cardinality(visited \cup {k}) = Cardinality(visited) + 1
    BY <1>1, <1>3, FS_AddElement
  <2> QED
    BY <1>1, <1>3, <2>1 DEF ChargeNode, ReleaseNode
<1> QED
  BY <1>2, <1>3

\* Fewer keys are held, and the limit still admits them.
LEMMA HeldShrinks ==
  ASSUME Typed, AloneInv, Held' \subseteq Held PROVE NodesWithinBudget'
<1>1. IsFiniteSet(Held) /\ Held \subseteq Keys
  BY ConstantsAssumption, FS_Subset DEF Held
<1>2. Cardinality(Held') <= Cardinality(Held) /\ Cardinality(Held) \in Nat /\ Cardinality(Held') \in Nat
  BY <1>1, FS_Subset, FS_CardinalityType
<1>3. Cardinality(Held) <= MaxNodes
  BY DEF AloneInv, NodesWithinBudget, Held
<1>4. Cardinality(Held') <= MaxNodes
  BY <1>2, <1>3, ConstantsAssumption
<1> QED
  BY <1>4 DEF NodesWithinBudget, Held

\* Steps that leave the budget, the cache and the fetches alone.
LEMMA AloneQuiet ==
  ASSUME IInv, AloneInv, ToldTruth',
         UNCHANGED <<visited, nodesVisited, outcomes, pending, globalStops, fetch, cancelled>>,
         \A f \in Callers : fetch[f] # None => key'[f] = key[f]
  PROVE  AloneInv'
<1>1. None \notin Running \cup Settled
  BY NoneAssumption
<1>2. RunsPending' /\ Committed'
  BY <1>1 DEF AloneInv, RunsPending, Committed, Running, Settled, StopKinds
<1>3. RawExplains'
  BY <1>1 DEF AloneInv, RawExplains, NoFalseDuplicate, Undecided, Running, Settled, OutcomeKinds
<1>4. Held' = Held
  BY DEF Held
<1>5. NodesWithinBudget'
  BY <1>4, HeldShrinks DEF IInv
<1> QED
  BY <1>2, <1>3, <1>4, <1>5 DEF AloneInv, PendingOpen, Undecided, ChargedFirst

LEMMA AloneAnswered ==
  ASSUME IInv, AloneInv, NEW c \in Callers, NEW k \in Keys,
         ReplayStop(c, k) \/ ReplayOutcome(c, k) \/ StopBeforeStart(c, k)
  PROVE  AloneInv'
<1> USE DEF IInv, Typed, TypeOK
<1>1. PICK a : Answered(c, k, a) /\ (a = outcomes[k] \/ a \notin Outcome)
  <2>1. Stop("budget") \notin Outcome /\ Stop("aborted") \notin Outcome
    BY DEF Stop, Outcome, OutcomeKinds
  <2> QED
    BY <2>1 DEF ReplayStop, ReplayOutcome, StopBeforeStart
<1>2. phase[c] = "entered" /\ phase'[c] = "done" /\ answer'[c] = a /\ key'[c] = k
      /\ \A d \in Callers \ {c} : UNCHANGED <<phase[d], answer[d], key[d]>>
  BY <1>1 DEF Answered
<1>3. UNCHANGED <<visited, nodesVisited, outcomes, pending, globalStops, fetch, cancelled>>
  BY <1>1 DEF Answered, budgetVars, storeVars, fetchVars
<1>4. ToldTruth'
  BY <1>1, <1>2, <1>3 DEF AloneInv, ToldTruth
<1>5. fetch[c] = None
  BY <1>2 DEF NotAsked
<1> QED
  BY <1>2, <1>3, <1>4, <1>5, AloneQuiet

LEMMA AloneJoin ==
  ASSUME IInv, AloneInv, NEW c \in Callers, NEW k \in Keys, Join(c, k) PROVE AloneInv'
<1> USE DEF IInv, Typed, TypeOK
<1>1. Wait(c, k, pending[k])
  BY DEF Join
<1>2. phase[c] = "entered" /\ phase'[c] \in {"waiting", "raced"} /\ key'[c] = k
      /\ answer'[c] \in {None, Stop("aborted")} /\ (phase'[c] = "waiting" => answer'[c] = None)
      /\ \A d \in Callers \ {c} : UNCHANGED <<phase[d], answer[d], key[d]>>
  BY <1>1 DEF Wait
<1>3. UNCHANGED <<visited, nodesVisited, outcomes, pending, globalStops, fetch, cancelled>>
  BY DEF Join, budgetVars, storeVars
<1>4. answer'[c] \notin Outcome
  BY <1>2, NoneAssumption DEF Stop, Outcome, OutcomeKinds
<1>5. ToldTruth'
  BY <1>2, <1>3, <1>4 DEF AloneInv, ToldTruth
<1>6. fetch[c] = None
  BY <1>2 DEF NotAsked
<1> QED
  BY <1>2, <1>3, <1>5, <1>6, AloneQuiet

\* What the race decides for a caller is its own signal or what its key was decided by.
LEMMA AloneRaced ==
  ASSUME IInv, AloneInv, NEW c \in Callers, Deliver(c) \/ SignalAbort(c) PROVE AloneInv'
<1> USE DEF IInv, Typed, TypeOK
<1>1. UNCHANGED <<visited, nodesVisited, outcomes, pending, globalStops, fetch, cancelled, key>>
  BY DEF Deliver, SignalAbort, budgetVars, storeVars, fetchVars
<1>2. \A d \in Callers \ {c} : UNCHANGED <<phase[d], answer[d]>>
  BY DEF Deliver, SignalAbort
<1>3. Stop("budget") \notin Outcome /\ Stop("aborted") \notin Outcome /\ None \notin Outcome
  BY NoneAssumption DEF Stop, Outcome, OutcomeKinds
<1>4. CASE SignalAbort(c)
  <2>1. \/ UNCHANGED <<phase[c], answer[c]>>
        \/ phase'[c] = "raced" /\ answer'[c] = Stop("aborted")
    BY <1>4 DEF SignalAbort
  <2>2. ToldTruth'
    BY <1>1, <1>2, <1>3, <2>1 DEF AloneInv, ToldTruth
  <2> QED
    BY <1>1, <2>2, AloneQuiet
<1>5. CASE Deliver(c)
  <2>1. /\ entry[c] \in Callers /\ key[entry[c]] = key[c] /\ entry[c] \notin cancelled /\ key[c] \in Keys
        /\ phase[c] = "waiting" /\ phase'[c] = "raced"
        /\ answer'[c] = IF fetch[entry[c]] \in StopKinds THEN Stop(fetch[entry[c]])
                        ELSE [kind |-> fetch[entry[c]], from |-> entry[c]]
        /\ fetch[entry[c]] \in Settled
    BY <1>5 DEF Deliver, Deliverable, CallerHasKey, WaitsOnCurrent, InFlight
  <2>2. answer'[c] \in Outcome => outcomes[key[c]] = answer'[c]
    <3>1. CASE fetch[entry[c]] \in StopKinds
      BY <1>3, <2>1, <3>1 DEF StopKinds
    <3>2. CASE fetch[entry[c]] \notin StopKinds
      BY <2>1, <3>2 DEF Settled, AloneInv, Committed
    <3> QED
      BY <3>1, <3>2
  <2>3. ToldTruth'
    BY <1>1, <1>2, <2>1, <2>2 DEF AloneInv, ToldTruth
  <2> QED
    BY <1>1, <2>3, AloneQuiet
<1> QED
  BY <1>4, <1>5

\* A fetch starts for an open key: charged, held if a node was left, raw if it
\* was charged already.
LEMMA AloneStart ==
  ASSUME IInv, IInv', AloneInv, NEW c \in Callers, NEW k \in Keys, Start(c, k) PROVE AloneInv'
<1> USE DEF IInv, Typed, TypeOK
<1>1. /\ Undecided(k) /\ pending[k] = None /\ phase[c] = "entered" /\ fetch[c] = None
      /\ UNCHANGED <<outcomes, globalStops, cancelled>> /\ c \notin cancelled
  BY DEF Start, Wait, NotAsked, AbortedIsCancelled
<1>2. /\ key'[c] = k /\ phase'[c] = "waiting" /\ answer'[c] = None
      /\ \A d \in Callers \ {c} : UNCHANGED <<key[d], phase[d], answer[d], fetch[d]>>
  BY DEF Start, Wait
<1>3. pending'[k] = c /\ \A kk \in Keys \ {k} : pending'[kk] = pending[kk] /\ pending[kk] # c
  <2>1. None \notin Running
    BY NoneAssumption
  <2> QED
    BY <1>1, <2>1, ConstantsAssumption DEF Start, PendingCurrent
<1>4. fetch'[c] = IF k \in visited THEN "duplicateRunning"
                  ELSE IF ChargeThrows(k) THEN "overBudgetRunning" ELSE "http"
  BY DEF Start
<1>5. ChargeNode(k) /\ visited' = visited \cup {k}
  BY DEF Start, ChargeNode
<1>6. c # None /\ None \notin Running \cup Settled /\ None \notin Outcome
  BY ConstantsAssumption, NoneAssumption
<1>7. PendingOpen'
  BY <1>1, <1>3, <1>5 DEF AloneInv, PendingOpen, Undecided
<1>8. RunsPending'
  <2>1. ASSUME NEW f \in Callers, f # c, fetch[f] \in Running, f \notin cancelled PROVE key[f] # k
    BY <1>1, <2>1, ConstantsAssumption DEF AloneInv, RunsPending
  <2> QED
    BY <1>1, <1>2, <1>3, <1>6, <2>1 DEF AloneInv, RunsPending, CallerHasKey
<1>9. Committed'
  BY <1>1, <1>2, <1>4 DEF AloneInv, Committed, OutcomeKinds
<1>10. ToldTruth'
  BY <1>1, <1>2, <1>6 DEF AloneInv, ToldTruth
<1>11. RawExplains'
  <2>1. NoFalseDuplicate' /\ \A kk \in visited' : pending'[kk] # None \/ ~Undecided(kk)' \/ kk \in RawKeys
    BY <1>1, <1>3, <1>5, <1>6 DEF AloneInv, RawExplains, NoFalseDuplicate, Undecided
  <2>2. fetch'[c] = "duplicateRunning" => k \in RawKeys
    BY <1>1, <1>4 DEF AloneInv, RawExplains
  <2>3. fetch'[c] # "duplicate"
    BY <1>4
  <2> QED
    BY <1>2, <2>1, <2>2, <2>3 DEF AloneInv, RawExplains
<1>12. ChargedFirst'
  <2>1. Held' \subseteq Held \cup {k}
    BY <1>1, <1>2, <1>3, <1>6 DEF Held
  <2>2. nodesVisited' = Cardinality(visited')
    BY <1>5, ChargeCounted DEF AloneInv, ChargedFirst
  <2> QED
    BY <1>5, <2>1, <2>2 DEF AloneInv, ChargedFirst
<1>13. NodesWithinBudget'
  <2>1. CASE fetch'[c] = "http"
    <3>1. k \notin visited /\ nodesVisited + 1 <= MaxNodes
      BY <1>4, <2>1, ConstantsAssumption DEF ChargeThrows
    <3>2. nodesVisited' = nodesVisited + 1 /\ nodesVisited' = Cardinality(visited')
      BY <1>5, <3>1, <1>12 DEF ChargeNode, ChargedFirst
    <3>3. IsFiniteSet(visited') /\ Held' \subseteq visited'
      BY <1>12, ConstantsAssumption, FS_Subset DEF ChargedFirst
    <3>4. Cardinality(Held') <= Cardinality(visited') /\ Cardinality(Held') \in Nat
      BY <3>3, FS_Subset, FS_CardinalityType
    <3>5. Cardinality(Held') <= MaxNodes
      BY <3>1, <3>2, <3>4, ConstantsAssumption
    <3> QED
      BY <3>5 DEF Held, NodesWithinBudget
  <2>2. CASE fetch'[c] # "http"
    <3>1. Held' \subseteq Held
      BY <1>1, <1>2, <1>3, <1>6, <2>2 DEF Held, Undecided
    <3> QED
      BY <3>1, HeldShrinks
  <2> QED
    BY <2>1, <2>2
<1> QED
  BY <1>7, <1>8, <1>9, <1>10, <1>11, <1>12, <1>13 DEF AloneInv

\* Who abandons a fetch gives back a charge that nothing in the cache rests on.
LEMMA AloneLeave ==
  ASSUME IInv, AloneInv, NEW c \in Callers, Leave(c) PROVE AloneInv'
<1> USE DEF IInv, Typed, TypeOK
<1>1. /\ UNCHANGED <<outcomes, globalStops, fetch, key, answer>>
      /\ phase[c] = "raced" /\ phase'[c] = "done"
      /\ \A d \in Callers \ {c} : phase'[d] = phase[d]
      /\ entry[c] \in Callers /\ key[c] \in Keys /\ key[entry[c]] = key[c]
  BY DEF Leave, CallerHasKey, InFlight, WaitsOnCurrent
<1>2. ToldTruth'
  BY <1>1 DEF AloneInv, ToldTruth
<1>3. CASE ~Abandons(c)
  BY <1>1, <1>2, <1>3, AloneQuiet DEF Leave, budgetVars
<1>4. CASE Abandons(c)
  <2> DEFINE k == key[c]
  <2>1. /\ pending[k] = entry[c] /\ pending[k] # None
        /\ pending'[k] = None /\ \A kk \in Keys \ {k} : pending'[kk] = pending[kk]
        /\ cancelled' = cancelled \cup {entry[c]} /\ ReleaseNode(k) /\ visited' = visited \ {k}
    BY <1>1, <1>4, ConstantsAssumption DEF Leave, Abandons, ReleaseNode
  <2>2. Undecided(k)
    BY <1>1, <2>1 DEF AloneInv, PendingOpen
  <2>3. PendingOpen'
    BY <1>1, <2>1 DEF AloneInv, PendingOpen, Undecided
  <2>4. RunsPending' /\ Committed'
    BY <1>1, <2>1, NoneAssumption DEF AloneInv, RunsPending, Committed, CallerHasKey
  <2>5. RawExplains'
    BY <1>1, <2>1 DEF AloneInv, RawExplains, NoFalseDuplicate, Undecided
  <2>6. Held' \subseteq Held \ {k}
    BY <1>1, <2>1, <2>2 DEF Held, Undecided
  <2>7. ChargedFirst'
    BY <2>1, <2>6, <1>1, ChargeCounted DEF AloneInv, ChargedFirst
  <2>8. NodesWithinBudget'
    BY <2>6, HeldShrinks
  <2> QED
    BY <1>2, <2>3, <2>4, <2>5, <2>7, <2>8 DEF AloneInv
<1> QED
  BY <1>3, <1>4

\* The pending fetch of an open key decides it, and an abandoned one nothing.
LEMMA AloneSettle ==
  ASSUME IInv, AloneInv, NEW f \in Callers, Settle(f) PROVE AloneInv'
<1> DEFINE k == key[f]
<1> USE DEF IInv, Typed, TypeOK
<1>1. PICK res \in Settled : MayEnd(f, res) /\ fetch' = [fetch EXCEPT ![f] = res]
                             /\ (IF IsCurrent(f) THEN Commit(f, k, res)
                                 ELSE UNCHANGED <<pending, outcomes, globalStops>>)
  BY DEF Settle
<1>2. /\ fetch[f] \in Running /\ k \in Keys /\ fetch'[f] = res /\ res \notin Running
      /\ \A g \in Callers \ {f} : fetch'[g] = fetch[g]
      /\ UNCHANGED <<visited, nodesVisited, cancelled, phase, key, answer>>
  BY <1>1, NoneAssumption DEF Settle, MayEnd, Running, Settled, OutcomeKinds, StopKinds, CallerHasKey, budgetVars,
    fetchVars, callerVars
<1>3. res = "duplicate" => fetch[f] = "duplicateRunning"
  BY <1>1 DEF MayEnd
<1>4. CASE ~IsCurrent(f)
  <2>1. UNCHANGED <<pending, outcomes, globalStops>> /\ f \in cancelled
    BY <1>1, <1>2, <1>4 DEF IsCurrent, AloneInv, RunsPending
  <2>2. \A kk \in Keys : pending[kk] # f
    BY <1>2, <1>4, ConstantsAssumption DEF PendingCurrent, IsCurrent
  <2>3. PendingOpen' /\ RunsPending' /\ Committed' /\ ToldTruth'
    BY <1>2, <2>1 DEF AloneInv, PendingOpen, RunsPending, Committed, ToldTruth, Undecided
  <2>4. RawExplains'
    <3>1. ASSUME NEW g \in Callers, fetch'[g] \in {"duplicateRunning", "duplicate"} PROVE key'[g] \in RawKeys
      BY <1>2, <1>3, <3>1 DEF AloneInv, RawExplains, Running
    <3> QED
      BY <1>2, <2>1, <3>1 DEF AloneInv, RawExplains, NoFalseDuplicate, Undecided
  <2>5. Held' = Held
    BY <1>2, <2>1, <2>2 DEF Held
  <2> QED
    BY <1>2, <2>3, <2>4, <2>5, HeldShrinks DEF AloneInv, ChargedFirst
<1>5. CASE IsCurrent(f)
  <2>1. /\ pending[k] = f /\ pending'[k] = None /\ f \notin cancelled /\ f # None
        /\ \A kk \in Keys \ {k} : pending'[kk] = pending[kk] /\ outcomes'[kk] = outcomes[kk] /\ pending[kk] # f
    BY <1>1, <1>2, <1>5, ConstantsAssumption DEF IsCurrent, Commit, PendingCurrent
  <2>2. Undecided(k) /\ k \in visited
    BY <1>2, <2>1 DEF AloneInv, PendingOpen
  <2>3. res # "aborted"
    BY <1>1, <2>1 DEF MayEnd
  <2>4. \/ /\ res \in OutcomeKinds /\ outcomes'[k] = [kind |-> res, from |-> f] /\ outcomes'[k] # None
           /\ globalStops' = globalStops
        \/ res = "budget" /\ outcomes' = outcomes /\ globalStops' = globalStops \cup {k}
    BY <1>1, <1>2, <1>5, <2>3, NoneAssumption
    DEF Commit, RecordsOutcome, RecordsStop, Settled, StopKinds, Outcome, OutcomeKinds
  <2>5. ~Undecided(k)' /\ \A kk \in Keys \ {k} : Undecided(kk)' = Undecided(kk)
    BY <1>2, <2>1, <2>4 DEF Undecided
  <2>6. PendingOpen'
    BY <1>2, <2>1, <2>5 DEF AloneInv, PendingOpen
  <2>7. RunsPending'
    BY <1>2, <2>1, NoneAssumption DEF AloneInv, RunsPending, CallerHasKey
  <2>8. Committed'
    <3>1. ASSUME NEW g \in Callers \ {f}, g \notin cancelled, fetch[g] \in OutcomeKinds \cup {"budget"} PROVE key[g] # k
      <4>1. fetch[g] \in OutcomeKinds => [kind |-> fetch[g], from |-> g] # None
        BY NoneAssumption DEF Outcome
      <4> QED
        BY <2>2, <3>1, <4>1 DEF AloneInv, Committed, Undecided
    <3>2. ASSUME NEW g \in Callers \ {f}, g \notin cancelled
          PROVE  /\ fetch'[g] \in OutcomeKinds => outcomes'[key[g]] = [kind |-> fetch[g], from |-> g]
                 /\ fetch'[g] = "budget" => key[g] \in globalStops'
      BY <1>2, <2>1, <2>4, <3>1, <3>2, NoneAssumption DEF AloneInv, Committed, Settled, StopKinds, CallerHasKey
    <3>3. res = "budget" => res \notin OutcomeKinds
      BY DEF OutcomeKinds
    <3> QED
      BY <1>2, <2>4, <3>2, <3>3 DEF Committed
  <2>9. ToldTruth'
    BY <1>2, <2>1, <2>2, NoneAssumption DEF AloneInv, ToldTruth, Undecided
  <2>10. RawExplains'
    <3>1. NoFalseDuplicate'
      BY <1>2, <1>3, <2>1, <2>4 DEF AloneInv, RawExplains, NoFalseDuplicate
    <3>2. ASSUME NEW g \in Callers, fetch'[g] \in {"duplicateRunning", "duplicate"} PROVE key'[g] \in RawKeys
      BY <1>2, <1>3, <3>2 DEF AloneInv, RawExplains, Running
    <3> QED
      BY <1>2, <2>1, <2>5, <3>1, <3>2 DEF AloneInv, RawExplains
  <2>11. Held' \subseteq Held
    <3>1. k \in Held' => k \in Held
      <4>1. outcomes'[k] # None /\ outcomes'[k].kind # "duplicate" => fetch[f] = "http"
        <5>1. res \in OutcomeKinds \ {"duplicate"} => fetch[f] = "http"
          BY <1>1 DEF MayEnd, OutcomeKinds
        <5> QED
          BY <2>2, <2>4, <5>1 DEF Undecided
      <4> QED
        BY <1>2, <2>1, <4>1 DEF Held
    <3> QED
      BY <1>2, <2>1, <3>1 DEF Held
  <2> QED
    BY <1>2, <2>6, <2>7, <2>8, <2>9, <2>10, <2>11, HeldShrinks DEF AloneInv, ChargedFirst
<1> QED
  BY <1>4, <1>5

\* Without root walks every step keeps the cache and the budget in step.
LEMMA AloneNext ==
  ASSUME Roots = {}, IInv, AloneInv, [Next]_vars PROVE AloneInv'
<1>1. ASSUME NEW c \in Callers, Enter(c) \/ RejectContext(c) PROVE AloneInv'
  <2>1. UNCHANGED <<visited, nodesVisited, outcomes, pending, globalStops, fetch, cancelled, key, answer>>
    BY <1>1 DEF Enter, RejectContext, budgetVars, storeVars, fetchVars
  <2>2. phase[c] = "idle" /\ phase'[c] \in {"entered", "rejected"} /\ \A d \in Callers \ {c} : phase'[d] = phase[d]
    BY <1>1 DEF Enter, RejectContext, IInv, Typed, TypeOK
  <2>3. ToldTruth'
    BY <2>1, <2>2 DEF AloneInv, ToldTruth
  <2> QED
    BY <2>1, <2>3, AloneQuiet
<1>2. ASSUME NEW c \in Callers, CallerStep(c) PROVE AloneInv'
  BY <1>1, <1>2, IInvNext, AloneAnswered, AloneJoin, AloneStart, AloneRaced, AloneLeave DEF CallerStep
<1>3. ASSUME NEW k \in Keys, RawCharge(k) PROVE AloneInv'
  <2>1. /\ k \in RawKeys /\ ChargeNode(k) /\ visited' = visited \cup {k}
        /\ UNCHANGED <<outcomes, pending, globalStops, fetch, cancelled, phase, key, answer>>
    BY <1>3 DEF RawCharge, ChargeNode, storeVars, fetchVars, callerVars
  <2>2. Held' = Held
    BY <2>1 DEF Held
  <2>3. nodesVisited' = Cardinality(visited')
    BY <2>1, ChargeCounted DEF IInv, AloneInv, ChargedFirst
  <2>4. RawExplains'
    BY <2>1 DEF AloneInv, RawExplains, NoFalseDuplicate, Undecided
  <2>5. ChargedFirst' /\ NodesWithinBudget'
    BY <2>1, <2>2, <2>3, HeldShrinks DEF IInv, AloneInv, ChargedFirst
  <2>6. PendingOpen' /\ RunsPending' /\ Committed' /\ ToldTruth'
    BY <2>1 DEF AloneInv, PendingOpen, RunsPending, Committed, ToldTruth, Undecided
  <2> QED
    BY <2>4, <2>5, <2>6 DEF AloneInv
<1>4. CASE UNCHANGED vars
  <2>1. UNCHANGED <<visited, nodesVisited, outcomes, pending, globalStops, fetch, cancelled, phase, key, answer>>
    BY <1>4 DEF vars, budgetVars, storeVars, fetchVars, callerVars
  <2>2. ToldTruth'
    BY <2>1 DEF AloneInv, ToldTruth
  <2> QED
    BY <2>1, <2>2, AloneQuiet
<1> QED
  BY <1>2, <1>3, <1>4, AloneSettle DEF Next

LEMMA AloneAlways == ASSUME Roots = {} PROVE Spec => []AloneInv
<1>1. IInv /\ AloneInv /\ [Next]_vars => AloneInv'
  BY AloneNext
<1> QED
  BY <1>1, InitAlone, Inductive, PTL DEF Spec

\* Without root walks, whatever references do: callers of a key agree on it, a
\* duplicate is a raw step's, and what resolved stays charged, within maxNodes.
THEOREM ChargesExactAlways == ASSUME Roots = {} PROVE Spec => []ChargesExact
<1>1. IInv /\ AloneInv => ChargesExact
  <2> SUFFICES ASSUME IInv, AloneInv PROVE ChargesExact
    OBVIOUS
  <2>1. CallersAgree
    BY DEF AloneInv, ToldTruth, CallersAgree
  <2>2. ResolvedStaysCharged
    BY DEF AloneInv, ChargedFirst, Held, ResolvedStaysCharged
  <2> QED
    BY <2>1, <2>2 DEF AloneInv, RawExplains, ChargesExact
<1> QED
  BY <1>1, AloneAlways, Inductive, PTL

-----------------------------------------------------------------------------
(***************************************************************************)
(* The layer implements ResolveOnce: a step settles an open key, lets a    *)
(* caller ask, hear or give up, or cannot be seen.                         *)
(***************************************************************************)

LEMMA OnceInit == Init => Once!Init
BY DEF Init, Once!Init

\* Whoever is answered from the cache, or at once for his own signal, hears the truth.
LEMMA OnceAnswered ==
  ASSUME IInv, AloneInv, NEW c \in Callers, NEW k \in Keys,
         ReplayStop(c, k) \/ ReplayOutcome(c, k) \/ StopBeforeStart(c, k)
  PROVE  Once!Ask(c, k)
<1>1. PICK a \in Once!Truth(c, k) : Answered(c, k, a)
  BY DEF ReplayStop, ReplayOutcome, StopBeforeStart, Once!Truth
<1>2. key[c] = None
  BY <1>1 DEF Answered, AloneInv, ToldTruth
<1> QED
  BY <1>1, <1>2 DEF Answered, storeVars, Once!Ask

\* Who waits has asked, and hears nothing yet but his own signal.
LEMMA OnceWaits ==
  ASSUME IInv, AloneInv, NEW c \in Callers, NEW k \in Keys, Join(c, k) \/ Start(c, k)
  PROVE  Once!Ask(c, k)
<1>1. PICK f : Wait(c, k, f)
  BY DEF Join, Start
<1>2. key[c] = None
  BY <1>1 DEF Wait, AloneInv, ToldTruth
<1>3. PICK a \in Once!Truth(c, k) \cup {None} : answer' = [answer EXCEPT ![c] = a]
  BY <1>1 DEF Wait, Once!Truth
<1>4. UNCHANGED <<outcomes, globalStops, aborted>>
  BY DEF Join, Start, storeVars
<1> QED
  BY <1>1, <1>2, <1>3, <1>4 DEF Wait, Once!Ask

\* The fetch that decides a wait has decided the key, the same way.
LEMMA OnceTold ==
  ASSUME IInv, AloneInv, NEW c \in Callers, Deliver(c)
  PROVE  Once!Tell(c)
<1> USE DEF IInv, Typed, TypeOK
<1>1. /\ entry[c] \in Callers /\ key[entry[c]] = key[c] /\ entry[c] \notin cancelled /\ key[c] \in Keys
      /\ phase[c] = "waiting" /\ fetch[entry[c]] \in Settled /\ fetch[entry[c]] # "aborted"
  BY DEF Deliver, Deliverable, CallerHasKey, WaitsOnCurrent, InFlight, AbortedIsCancelled
<1>2. key[c] # None /\ answer[c] = None
  BY <1>1, ConstantsAssumption DEF AloneInv, ToldTruth
<1>3. \E a \in Once!Truth(c, key[c]) : answer' = [answer EXCEPT ![c] = a]
  <2>1. CASE fetch[entry[c]] = "budget"
    <3>1. key[c] \in globalStops
      BY <1>1, <2>1 DEF AloneInv, Committed
    <3>2. answer' = [answer EXCEPT ![c] = Stop("budget")]
      BY <2>1 DEF Deliver, StopKinds
    <3> QED
      BY <3>1, <3>2 DEF Once!Truth
  <2>2. CASE fetch[entry[c]] \in OutcomeKinds
    <3>1. outcomes[key[c]] = [kind |-> fetch[entry[c]], from |-> entry[c]]
      BY <1>1, <2>2 DEF AloneInv, Committed
    <3>2. outcomes[key[c]] # None
      BY <1>1, <2>2, <3>1, NoneAssumption DEF Outcome
    <3>3. answer' = [answer EXCEPT ![c] = outcomes[key[c]]]
      BY <2>2, <3>1 DEF Deliver, StopKinds, OutcomeKinds
    <3> QED
      BY <3>2, <3>3 DEF Once!Truth
  <2> QED
    BY <1>1, <2>1, <2>2 DEF Settled, StopKinds
<1>4. UNCHANGED <<outcomes, globalStops, aborted, key>>
  BY DEF Deliver, storeVars
<1> QED
  BY <1>2, <1>3, <1>4 DEF Once!Tell

LEMMA OnceCancels ==
  ASSUME IInv, AloneInv, NEW c \in Callers, SignalAbort(c)
  PROVE  Once!Cancel(c)
<1>1. c \notin aborted /\ aborted' = aborted \cup {c} /\ UNCHANGED <<outcomes, globalStops, key>>
  BY DEF SignalAbort, storeVars
<1>2. CASE phase[c] = "waiting"
  <2>1. key[c] # None /\ answer[c] = None
    BY <1>2, ConstantsAssumption DEF IInv, Typed, CallerHasKey, InFlight, AloneInv, ToldTruth
  <2>2. answer' = [answer EXCEPT ![c] = Stop("aborted")]
    BY <1>2 DEF SignalAbort
  <2> QED
    BY <1>1, <2>1, <2>2 DEF Once!Cancel
<1>3. CASE phase[c] # "waiting"
  BY <1>1, <1>3 DEF SignalAbort, Once!Cancel
<1> QED
  BY <1>2, <1>3

\* Only an open key settles; an abandoned fetch is not seen.
LEMMA OnceSettles ==
  ASSUME IInv, AloneInv, NEW f \in Callers, Settle(f)
  PROVE  (\E k \in Keys : Once!Settle(k)) \/ UNCHANGED Once!vars
<1> DEFINE k == key[f]
<1> USE DEF IInv, Typed, TypeOK
<1>1. PICK res \in Settled : MayEnd(f, res) /\ (IF IsCurrent(f) THEN Commit(f, k, res)
                                                ELSE UNCHANGED <<pending, outcomes, globalStops>>)
  BY DEF Settle
<1>2. k \in Keys /\ UNCHANGED <<aborted, key, answer>>
  BY <1>1, NoneAssumption DEF Settle, MayEnd, Running, CallerHasKey, callerVars
<1>3. CASE IsCurrent(f)
  <2>1. Once!Open(k)
    BY <1>2, <1>3, ConstantsAssumption DEF IsCurrent, AloneInv, PendingOpen, Undecided, Once!Open
  <2>2. CASE res \in OutcomeKinds
    <3>1. [kind |-> res, from |-> f] \in Outcome
      BY <2>2 DEF Outcome
    <3>2. outcomes' = [outcomes EXCEPT ![k] = [kind |-> res, from |-> f]] /\ UNCHANGED globalStops
      BY <1>1, <1>3, <2>2 DEF Commit, RecordsOutcome, RecordsStop, OutcomeKinds
    <3> QED
      BY <1>2, <2>1, <3>1, <3>2 DEF Once!Settle
  <2>3. CASE res = "budget"
    BY <1>1, <1>2, <1>3, <2>1, <2>3 DEF Commit, RecordsOutcome, RecordsStop, OutcomeKinds, Once!Settle
  <2>4. CASE res = "aborted"
    BY <1>1, <1>2, <1>3, <2>4 DEF Commit, RecordsOutcome, RecordsStop, OutcomeKinds, Once!vars
  <2> QED
    BY <2>2, <2>3, <2>4 DEF Settled, StopKinds
<1>4. CASE ~IsCurrent(f)
  BY <1>1, <1>2, <1>4 DEF Once!vars
<1> QED
  BY <1>3, <1>4

LEMMA OnceNext ==
  ASSUME Roots = {}, IInv, AloneInv, [Next]_vars PROVE [Once!Next]_Once!vars
<1>1. ASSUME NEW c \in Callers, Enter(c) \/ RejectContext(c) \/ Leave(c) PROVE UNCHANGED Once!vars
  BY <1>1 DEF Enter, RejectContext, Leave, storeVars, Once!vars
<1>2. ASSUME NEW c \in Callers, CallerStep(c) PROVE [Once!Next]_Once!vars
  BY <1>1, <1>2, OnceAnswered, OnceWaits, OnceTold, OnceCancels DEF CallerStep, Once!Next
<1>3. ASSUME NEW c \in Callers, Settle(c) PROVE [Once!Next]_Once!vars
  BY <1>3, OnceSettles DEF Once!Next
<1>4. CASE (\E k \in Keys : RawCharge(k)) \/ UNCHANGED vars
  BY <1>4 DEF RawCharge, vars, storeVars, callerVars, Once!vars
<1> QED
  BY <1>2, <1>3, <1>4 DEF Next

\* Without root walks the layer is the promise that a key settles at most once
\* and everyone who asks for it hears exactly that, unless he gives up himself.
THEOREM ImplementsResolveOnceAlways == ASSUME Roots = {} PROVE Spec => ImplementsResolveOnce
<1>1. IInv /\ AloneInv /\ [Next]_vars => [Once!Next]_Once!vars
  BY OnceNext
<1> QED
  BY <1>1, OnceInit, AloneAlways, Inductive, PTL DEF Spec, ImplementsResolveOnce, Once!Spec

\* Without root walks a key settles once per budget: what overwrites an outcome
\* is only ever a fetch that was in flight when a root walk recorded its own.
THEOREM SettledIsFinalAlone == ASSUME Roots = {} PROVE Spec => SettledIsFinal
<1>1. IInv /\ AloneInv /\ [Next]_vars => [\A k \in Keys : outcomes[k] # None => outcomes'[k] = outcomes[k]]_outcomes
  <2> SUFFICES ASSUME IInv, AloneInv, [Next]_vars, NEW k \in Keys, outcomes[k] # None
               PROVE  outcomes'[k] = outcomes[k]
    OBVIOUS
  <2>1. [Once!Next]_Once!vars
    BY OnceNext
  <2> QED
    BY <2>1 DEF Once!Next, Once!Settle, Once!Open, Once!Ask, Once!Tell, Once!Cancel, Once!vars, IInv, Typed, TypeOK
<1> QED
  BY <1>1, AloneAlways, Inductive, PTL DEF Spec, SettledIsFinal
=============================================================================
