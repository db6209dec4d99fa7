------------------------ MODULE ModuleClients_proofs ------------------------
(***************************************************************************)
(* Invariance proofs for ModuleClients, for any worlds, keys and limits.   *)
(***************************************************************************)
EXTENDS ModuleClients, FiniteSetTheorems, SequenceTheorems, TLAPS

(***************************************************************************)
(* One fetch of a target.  Whoever fetched it, or is about to, charged its *)
(* key, and the charge is still there or was given away by another.        *)
(***************************************************************************)
Shared == Keys \ {world.root}

\* The fetches of a key that its charge is spoken for: the walk's and the
\* references', the refused one included, which gives the charge back itself.
OfWalk(k) == IF at = "fetch" /\ Head(hints) = k THEN 1 ELSE 0
OfRefs(k) == IF stage \in {"await", "refused"} /\ Current.key = k THEN 1 ELSE 0
Held(k)   == IF k \in visitedTargets THEN 1 ELSE 0

Covered(k) == fetches[k] + OfWalk(k) + OfRefs(k) <= givenAway[k] + Held(k)

IInv ==
  /\ fetches \in [Keys -> Nat] /\ givenAway \in [Keys -> Nat]
  /\ \A k \in Shared : Covered(k)

LEMMA InitOnce == Init => IInv
BY DEF Init, BudgetInit, WalkInit, RefInit, IInv, Shared, Covered, OfWalk, OfRefs, Held

\* A function that counts is increased at one key alone.
LEMMA Counted ==
  ASSUME NEW f \in [Keys -> Nat], NEW k, NEW n \in Nat
  PROVE  /\ [f EXCEPT ![k] = @ + n] \in [Keys -> Nat]
         /\ \A j \in Keys : [f EXCEPT ![k] = @ + n][j] = IF j = k THEN f[j] + n ELSE f[j]
<1> DEFINE g == [f EXCEPT ![k] = @ + n]
<1>1. \A j \in Keys : g[j] = IF j = k THEN f[j] + n ELSE f[j]
  OBVIOUS
<1>2. g = [j \in Keys |-> g[j]]
  OBVIOUS
<1> HIDE DEF g
<1>3. \A j \in Keys : g[j] \in Nat
  BY <1>1
<1>4. g \in [Keys -> Nat]
  BY <1>2, <1>3
<1> QED
  BY <1>1, <1>4 DEF g

\* What one step has to leave of a key: its charge covers no more than before.
LEMMA CoverKept ==
  ASSUME IInv, world' = world, fetches' \in [Keys -> Nat], givenAway' \in [Keys -> Nat],
         \A k \in Shared : (fetches'[k] + OfWalk(k)' + OfRefs(k)') - (givenAway'[k] + Held(k)')
                             <= (fetches[k] + OfWalk(k) + OfRefs(k)) - (givenAway[k] + Held(k))
  PROVE  IInv'
<1>1. ASSUME NEW k \in Shared PROVE Covered(k)'
  <2>1. /\ fetches[k] \in Nat /\ fetches'[k] \in Nat /\ givenAway[k] \in Nat /\ givenAway'[k] \in Nat
    BY DEF IInv, Shared
  <2>2. /\ OfWalk(k) \in Int /\ OfWalk(k)' \in Int /\ OfRefs(k) \in Int /\ OfRefs(k)' \in Int
        /\ Held(k) \in Int /\ Held(k)' \in Int
    BY DEF OfWalk, OfRefs, Held
  <2>3. fetches[k] + OfWalk(k) + OfRefs(k) <= givenAway[k] + Held(k)
    BY DEF IInv, Covered
  <2>4. (fetches'[k] + OfWalk(k)' + OfRefs(k)') - (givenAway'[k] + Held(k)')
          <= (fetches[k] + OfWalk(k) + OfRefs(k)) - (givenAway[k] + Held(k))
    OBVIOUS
  <2> QED
    BY <2>1, <2>2, <2>3, <2>4 DEF Covered
<1> QED
  BY <1>1 DEF IInv, Shared

\* Steps of the walk that fetch nothing: a key they charge is not known yet.
LEMMA WalkCharges ==
  ASSUME IInv, UNCHANGED <<world, fetches, givenAway, stage, todo>>, visitedTargets \subseteq visitedTargets',
         at' = "fetch" => hints' = hints /\ at = "hint" /\ Head(hints) \notin visitedTargets
                          /\ Head(hints) \in visitedTargets'
  PROVE  IInv'
<1>1. ASSUME NEW k \in Shared
      PROVE  (fetches'[k] + OfWalk(k)' + OfRefs(k)') - (givenAway'[k] + Held(k)')
               <= (fetches[k] + OfWalk(k) + OfRefs(k)) - (givenAway[k] + Held(k))
  <2>1. fetches[k] \in Nat /\ givenAway[k] \in Nat /\ fetches'[k] = fetches[k] /\ givenAway'[k] = givenAway[k]
    BY DEF IInv, Shared
  <2>2. OfRefs(k)' = OfRefs(k) /\ OfRefs(k) \in {0, 1}
    BY DEF OfRefs, Current
  <2>3. OfWalk(k)' - Held(k)' <= OfWalk(k) - Held(k)
    BY DEF OfWalk, Held
  <2>4. /\ OfWalk(k) \in Int /\ OfWalk(k)' \in Int /\ Held(k) \in Int /\ Held(k)' \in Int
    BY DEF OfWalk, Held
  <2> QED
    BY <2>1, <2>2, <2>3, <2>4
<1> QED
  BY <1>1, CoverKept DEF IInv

LEMMA StopLeaves == ASSUME NEW why, Stop(why) PROVE at' \in {"edge", "done", "threw"}
BY DEF Stop, Leave, Resume

LEMMA RefusedLeaves == RefusedOrCalledOff => at' \in {"edge", "done", "threw"}
BY StopLeaves DEF RefusedOrCalledOff

LEMMA WalkOnce == ASSUME IInv, WalkNext, UNCHANGED refVars PROVE IInv'
<1>1. UNCHANGED <<stage, todo, givenAway>> /\ world' = world
  BY DEF refVars, WalkNext, WalkStep, Abort, ReadRoot, Expand, Edge, NextItem, NoMoreItems, HintsDone, ChargeHint,
    Fetched, FetchStops, TurnPage, PageArrives, PageStops, inputVars
<1>2. CASE ReadRoot
  <2>1. /\ at = "root" /\ at' # "fetch" /\ visitedTargets \subseteq visitedTargets'
        /\ \/ UNCHANGED fetches
           \/ fetches' = [fetches EXCEPT ![world.root] = @ + 1]
    BY <1>2 DEF ReadRoot, ChargeNode
  <2>2. fetches' \in [Keys -> Nat] /\ \A j \in Shared : fetches'[j] = fetches[j]
    <3>1. fetches \in [Keys -> Nat]
      BY DEF IInv
    <3>2. CASE UNCHANGED fetches
      BY <3>1, <3>2
    <3>3. CASE fetches' = [fetches EXCEPT ![world.root] = @ + 1]
      <4> DEFINE r == world.root
      <4>1. fetches' = [fetches EXCEPT ![r] = @ + 1]
        BY <3>3
      <4>2. Shared = Keys \ {r}
        BY DEF Shared
      <4> HIDE DEF r
      <4>3. fetches' \in [Keys -> Nat]
            /\ \A j \in Keys : fetches'[j] = IF j = r THEN fetches[j] + 1 ELSE fetches[j]
        BY <3>1, <4>1, Counted
      <4> QED
        BY <4>2, <4>3
    <3> QED
      BY <2>1, <3>2, <3>3
  <2>3. ASSUME NEW k \in Shared
        PROVE  (fetches'[k] + OfWalk(k)' + OfRefs(k)') - (givenAway'[k] + Held(k)')
                 <= (fetches[k] + OfWalk(k) + OfRefs(k)) - (givenAway[k] + Held(k))
    <3>1. fetches'[k] = fetches[k] /\ givenAway'[k] = givenAway[k] /\ fetches[k] \in Nat /\ givenAway[k] \in Nat
      BY <1>1, <2>2 DEF IInv, Shared
    <3>2. OfRefs(k)' = OfRefs(k) /\ OfRefs(k) \in {0, 1}
      BY <1>1 DEF OfRefs, Current
    <3> QED
      BY <2>1, <3>1, <3>2 DEF OfWalk, Held
  <2> QED
    BY <1>1, <2>2, <2>3, CoverKept DEF IInv
<1>3. CASE ChargeHint
  <2> DEFINE k == Head(hints)
  <2>1. UNCHANGED fetches /\ visitedTargets \subseteq visitedTargets' /\ at = "hint"
    BY <1>3 DEF ChargeHint, ChargeNode
  <2>2. at' = "fetch" => hints' = hints /\ k \notin visitedTargets /\ k \in visitedTargets'
    BY <1>3, StopLeaves DEF ChargeHint, ChargeNode, Duplicate
  <2> QED
    BY <1>1, <2>1, <2>2, WalkCharges
<1>4. CASE Fetched
  <2>1. at = "fetch" /\ at' = "hint" /\ UNCHANGED visitedTargets
        /\ fetches' = [fetches EXCEPT ![Head(hints)] = @ + 1]
    BY <1>4 DEF Fetched
  <2>2. fetches' \in [Keys -> Nat]
        /\ \A j \in Keys : fetches'[j] = IF j = Head(hints) THEN fetches[j] + 1 ELSE fetches[j]
    BY <2>1, Counted DEF IInv
  <2>3. ASSUME NEW k \in Shared
        PROVE  (fetches'[k] + OfWalk(k)' + OfRefs(k)') - (givenAway'[k] + Held(k)')
                 <= (fetches[k] + OfWalk(k) + OfRefs(k)) - (givenAway[k] + Held(k))
    <3>1. /\ fetches'[k] = (IF k = Head(hints) THEN fetches[k] + 1 ELSE fetches[k])
          /\ givenAway'[k] = givenAway[k] /\ fetches[k] \in Nat /\ givenAway[k] \in Nat
      BY <1>1, <2>2 DEF IInv, Shared
    <3>2. OfRefs(k)' = OfRefs(k) /\ OfRefs(k) \in {0, 1} /\ Held(k)' = Held(k) /\ Held(k) \in {0, 1}
      BY <1>1, <2>1 DEF OfRefs, Current, Held
    <3>3. OfWalk(k) = (IF k = Head(hints) THEN 1 ELSE 0) /\ OfWalk(k)' = 0
      BY <2>1 DEF OfWalk
    <3> QED
      BY <3>1, <3>2, <3>3
  <2> QED
    BY <1>1, <2>2, <2>3, CoverKept DEF IInv
<1>5. CASE FetchStops \/ PageStops
  <2>1. UNCHANGED <<visitedTargets, fetches>> /\ at' # "fetch"
    BY <1>5, RefusedLeaves DEF FetchStops, PageStops
  <2> QED
    BY <1>1, <2>1, WalkCharges
<1>6. CASE TurnPage
  <2>1. UNCHANGED <<visitedTargets, fetches>> /\ at' # "fetch"
    BY <1>6, StopLeaves DEF TurnPage
  <2> QED
    BY <1>1, <2>1, WalkCharges
<1>7. CASE Expand \/ Edge \/ NextItem \/ NoMoreItems \/ HintsDone \/ PageArrives
  <2>1. UNCHANGED <<visitedTargets, fetches>> /\ at' # "fetch"
    BY <1>7 DEF Expand, Edge, NextItem, NoMoreItems, HintsDone, PageArrives, Resume, Leave, NextPage, budgetVars
  <2> QED
    BY <1>1, <2>1, WalkCharges
<1>8. CASE Abort
  BY <1>1, <1>8 DEF Abort, budgetVars, IInv, Shared, Covered, OfWalk, OfRefs, Held, Current
<1> QED
  BY <1>2, <1>3, <1>4, <1>5, <1>6, <1>7, <1>8 DEF WalkNext, WalkStep

\* A step of the references that starts nothing: it charges no key, and covers
\* no more than before.
LEMMA RefQuiet ==
  ASSUME IInv, UNCHANGED <<world, at, hints, fetches, givenAway, visitedTargets>>,
         stage' \notin {"await", "refused"}
  PROVE  IInv'
<1>1. ASSUME NEW k \in Shared
      PROVE  (fetches'[k] + OfWalk(k)' + OfRefs(k)') - (givenAway'[k] + Held(k)')
               <= (fetches[k] + OfWalk(k) + OfRefs(k)) - (givenAway[k] + Held(k))
  <2>1. fetches[k] \in Nat /\ givenAway[k] \in Nat /\ fetches'[k] = fetches[k] /\ givenAway'[k] = givenAway[k]
    BY DEF IInv, Shared
  <2> QED
    BY <2>1 DEF OfWalk, OfRefs, Held
<1> QED
  BY <1>1, CoverKept DEF IInv

LEMMA RefOnce == ASSUME IInv, RefNext, UNCHANGED walkVars PROVE IInv'
<1>1. UNCHANGED <<at, hints>> /\ world' = world
  BY DEF walkVars, RefNext, RefStep, Signal, NotAttempted, StopsAtOnce, Replayed, StartFetch, Arrives, MetBefore,
    Settles, FetchStopped, Leaves, Over, NextCall, inputVars
<1>2. CASE StartFetch
  <2>1. /\ UNCHANGED <<fetches, givenAway, todo>> /\ stage = "ready"
        /\ \/ stage' = "met" /\ UNCHANGED visitedTargets
           \/ /\ Current.key \notin visitedTargets
              /\ visitedTargets' = visitedTargets \cup {Current.key}
    BY <1>2 DEF StartFetch, Ready, ChargeNode, Duplicate
  <2>2. Current' = Current
    BY <2>1 DEF Current
  <2>3. ASSUME NEW k \in Shared
        PROVE  (fetches'[k] + OfWalk(k)' + OfRefs(k)') - (givenAway'[k] + Held(k)')
                 <= (fetches[k] + OfWalk(k) + OfRefs(k)) - (givenAway[k] + Held(k))
    <3>1. fetches[k] \in Nat /\ givenAway[k] \in Nat /\ fetches'[k] = fetches[k] /\ givenAway'[k] = givenAway[k]
      BY <2>1 DEF IInv, Shared
    <3>2. OfWalk(k)' = OfWalk(k) /\ OfWalk(k) \in {0, 1}
      BY <1>1 DEF OfWalk
    <3>3. OfRefs(k)' - Held(k)' <= OfRefs(k) - Held(k)
      BY <2>1, <2>2 DEF OfRefs, Held
    <3>4. /\ OfRefs(k) \in Int /\ OfRefs(k)' \in Int /\ Held(k) \in Int /\ Held(k)' \in Int
      BY DEF OfRefs, Held
    <3> QED
      BY <3>1, <3>2, <3>3, <3>4
  <2> QED
    BY <1>1, <2>1, <2>3, CoverKept DEF IInv
<1>3. CASE Arrives
  <2>1. stage = "await" /\ stage' = "ready" /\ UNCHANGED <<visitedTargets, givenAway>>
        /\ fetches' = [fetches EXCEPT ![Current.key] = @ + 1]
    BY <1>3 DEF Arrives, Settles
  <2>2. fetches' \in [Keys -> Nat]
        /\ \A j \in Keys : fetches'[j] = IF j = Current.key THEN fetches[j] + 1 ELSE fetches[j]
    BY <2>1, Counted DEF IInv
  <2>3. ASSUME NEW k \in Shared
        PROVE  (fetches'[k] + OfWalk(k)' + OfRefs(k)') - (givenAway'[k] + Held(k)')
                 <= (fetches[k] + OfWalk(k) + OfRefs(k)) - (givenAway[k] + Held(k))
    <3>1. /\ fetches'[k] = (IF k = Current.key THEN fetches[k] + 1 ELSE fetches[k])
          /\ givenAway'[k] = givenAway[k] /\ fetches[k] \in Nat /\ givenAway[k] \in Nat
      BY <2>1, <2>2 DEF IInv, Shared
    <3>2. OfWalk(k)' = OfWalk(k) /\ OfWalk(k) \in {0, 1} /\ Held(k)' = Held(k) /\ Held(k) \in {0, 1}
      BY <1>1, <2>1 DEF OfWalk, Held
    <3>3. OfRefs(k) = (IF k = Current.key THEN 1 ELSE 0) /\ OfRefs(k)' = 0
      BY <2>1 DEF OfRefs
    <3> QED
      BY <3>1, <3>2, <3>3
  <2> QED
    BY <1>1, <2>1, <2>2, <2>3, CoverKept DEF IInv
<1>4. CASE Leaves
  <2> DEFINE n == IF stage = "met" THEN 1 ELSE 0
  <2>1. /\ stage \in {"await", "met", "refused"} /\ stage' = "ready" /\ UNCHANGED fetches
        /\ visitedTargets' = visitedTargets \ {Current.key}
        /\ givenAway' = [givenAway EXCEPT ![Current.key] = @ + n]
    BY <1>4 DEF Leaves, ReleaseNode
  <2>2. n \in Nat
    OBVIOUS
  <2>3. givenAway' \in [Keys -> Nat]
        /\ \A j \in Keys : givenAway'[j] = IF j = Current.key THEN givenAway[j] + n ELSE givenAway[j]
    <3> HIDE DEF n
    <3> QED
      BY <2>1, <2>2, Counted DEF IInv
  <2>4. ASSUME NEW k \in Shared
        PROVE  (fetches'[k] + OfWalk(k)' + OfRefs(k)') - (givenAway'[k] + Held(k)')
                 <= (fetches[k] + OfWalk(k) + OfRefs(k)) - (givenAway[k] + Held(k))
    <3>1. /\ givenAway'[k] = (IF k = Current.key THEN givenAway[k] + n ELSE givenAway[k])
          /\ fetches'[k] = fetches[k] /\ fetches[k] \in Nat /\ givenAway[k] \in Nat
      BY <2>1, <2>3 DEF IInv, Shared
    <3>2. OfWalk(k)' = OfWalk(k) /\ OfWalk(k) \in {0, 1} /\ OfRefs(k)' = 0
      BY <1>1, <2>1 DEF OfWalk, OfRefs
    <3>3. CASE k = Current.key
      <4>1. OfRefs(k) + n = 1 /\ Held(k)' = 0 /\ Held(k) \in {0, 1} /\ OfRefs(k) \in {0, 1}
        BY <2>1, <3>3 DEF OfRefs, Held
      <4> HIDE DEF n
      <4> QED
        BY <2>2, <3>1, <3>2, <3>3, <4>1
    <3>4. CASE k # Current.key
      <4>1. OfRefs(k) = 0 /\ Held(k)' = Held(k) /\ Held(k) \in {0, 1}
        BY <2>1, <3>4 DEF OfRefs, Held
      <4> QED
        BY <3>1, <3>2, <3>4, <4>1
    <3> QED
      BY <3>3, <3>4
  <2> QED
    BY <1>1, <2>1, <2>3, <2>4, CoverKept DEF IInv
<1>5. CASE NotAttempted \/ StopsAtOnce \/ Replayed \/ MetBefore \/ FetchStopped \/ Over \/ NextCall
  <2>1. stage' \notin {"await", "refused"} /\ UNCHANGED <<fetches, givenAway, visitedTargets>>
    BY <1>5 DEF NotAttempted, StopsAtOnce, Replayed, MetBefore, Settles, FetchStopped, Over, NextCall, Ready, budgetVars
  <2> QED
    BY <1>1, <2>1, RefQuiet
<1>6. CASE Signal
  BY <1>1, <1>6 DEF Signal, budgetVars, IInv, Shared, Covered, OfWalk, OfRefs, Held, Current
<1> QED
  BY <1>2, <1>3, <1>4, <1>5, <1>6 DEF RefNext, RefStep

LEMMA OnceNext == IInv /\ [Next]_vars => IInv'
<1> SUFFICES ASSUME IInv, [Next]_vars PROVE IInv'
  OBVIOUS
<1>1. CASE UNCHANGED vars
  BY <1>1 DEF vars, inputVars, budgetVars, walkVars, refVars, IInv, Shared, Covered, OfWalk, OfRefs, Held, Current
<1> QED
  BY <1>1, WalkOnce, RefOnce DEF Next

\* One budget means one fetch of a target, whichever client asks, however often
\* and whoever gives up in the middle, and one more for each time its charge was
\* given away by a call that had only met it.
THEOREM FetchedOncePerChargeAlways == Spec => []FetchedOncePerCharge
<1>1. ASSUME IInv, NEW k \in Keys \ {world.root} PROVE fetches[k] <= 1 + givenAway[k]
  <2>1. fetches[k] \in Nat /\ givenAway[k] \in Nat /\ Covered(k)
    BY <1>1 DEF IInv, Shared
  <2> QED
    BY <2>1 DEF Covered, OfWalk, OfRefs, Held
<1>2. IInv => FetchedOncePerCharge
  BY <1>1 DEF FetchedOncePerCharge
<1> QED
  BY <1>2, InitOnce, OnceNext, PTL DEF Spec

-----------------------------------------------------------------------------
\* Induction over the natural numbers, for a property that is a set.
LEMMA SetInduction ==
  ASSUME NEW S, 0 \in S, \A k \in Nat : k \in S => k + 1 \in S
  PROVE  \A n \in Nat : n \in S
<1>1. SUFFICES ASSUME NEW n \in Nat, n \notin S PROVE FALSE
  OBVIOUS
<1> DEFINE A == {k \in 0 .. n : k \in S}
           f == [k \in A |-> k + 1]
<1>2. \A k \in A : k + 1 \in A \ {0}
  BY <1>1
<1>3. f \in Injection(A, A \ {0})
  BY <1>2 DEF Injection, IsInjective
<1>4. IsFiniteSet(A) /\ Cardinality(A) \in Nat
  <2>1. IsFiniteSet(0 .. n)
    BY FS_Interval
  <2>2. A \in SUBSET (0 .. n)
    OBVIOUS
  <2>3. IsFiniteSet(A)
    BY <2>1, <2>2, FS_Subset
  <2> QED BY <2>3, FS_CardinalityType
<1>5. IsFiniteSet(A \ {0}) /\ Cardinality(A \ {0}) = Cardinality(A) - 1
  <2>1. 0 \in A
    BY <1>1
  <2> QED BY <2>1, <1>4, FS_RemoveElement
<1>6. Cardinality(A) <= Cardinality(A \ {0})
  BY <1>3, <1>5, FS_Injection
<1> QED BY <1>4, <1>5, <1>6

-----------------------------------------------------------------------------
(* A sequence of lists, one after the other.                               *)

\* flat[i] is what the first i lists hold.
FlatUpto(k, seqs, flat) ==
  flat = [i \in 1 .. k |-> IF i = 1 THEN seqs[i] ELSE flat[i - 1] \o seqs[i]]
Flat(seqs, flat) == FlatUpto(Len(seqs), seqs, flat)

\* What one step of the flattening does.
LEMMA FlatAt ==
  ASSUME NEW k \in Nat, NEW seqs, NEW flat, FlatUpto(k, seqs, flat), NEW i \in 1 .. k
  PROVE  flat[i] = IF i = 1 THEN seqs[i] ELSE flat[i - 1] \o seqs[i]
<1>1. \A h : h = [j \in 1 .. k |-> IF j = 1 THEN seqs[j] ELSE flat[j - 1] \o seqs[j]]
        => h[i] = IF i = 1 THEN seqs[i] ELSE flat[i - 1] \o seqs[i]
  OBVIOUS
<1> QED BY <1>1, Zenon DEF FlatUpto

\* The recursion of FlattenSeq has a solution.
LEMMA FlatExists ==
  ASSUME NEW S, NEW seqs \in Seq(Seq(S))
  PROVE  \E flat : Flat(seqs, flat)
<1> DEFINE K == {k \in Nat : \E flat : FlatUpto(k, seqs, flat)}
<1>1. 0 \in K
  <2>1. <<>> = [i \in 1 .. 0 |-> IF i = 1 THEN seqs[i] ELSE <<>>[i - 1] \o seqs[i]]
    OBVIOUS
  <2> QED BY <2>1 DEF FlatUpto
<1>2. ASSUME NEW k \in Nat, k \in K PROVE k + 1 \in K
  <2>1. PICK flat : FlatUpto(k, seqs, flat)
    BY <1>2
  <2> DEFINE step(i) == IF i = 1 THEN seqs[i] ELSE flat[i - 1] \o seqs[i]
             next == [i \in 1 .. (k + 1) |-> step(i)]
  <2>2. \A i \in 1 .. k : next[i] = flat[i]
    BY <2>1, FlatAt
  <2>3. \A i \in 1 .. (k + 1) : next[i] = IF i = 1 THEN seqs[i] ELSE next[i - 1] \o seqs[i]
    <3>1. ASSUME NEW i \in 1 .. (k + 1) PROVE next[i] = IF i = 1 THEN seqs[i] ELSE next[i - 1] \o seqs[i]
      <4>1. next[i] = step(i)
        OBVIOUS
      <4>2. i # 1 => next[i - 1] = flat[i - 1]
        <5>1. i # 1 => i - 1 \in 1 .. k
          OBVIOUS
        <5> HIDE DEF next
        <5> QED BY <2>2, <5>1
      <4> HIDE DEF next
      <4> QED BY <4>1, <4>2
    <3> QED BY <3>1
  <2>4. next = [i \in 1 .. (k + 1) |-> next[i]]
    OBVIOUS
  <2> HIDE DEF next
  <2>5. FlatUpto(k + 1, seqs, next)
    BY <2>3, <2>4 DEF FlatUpto
  <2>6. k + 1 \in Nat /\ \E h : FlatUpto(k + 1, seqs, h)
    BY <2>5
  <2> QED BY <2>6
<1>3. Len(seqs) \in K
  <2> HIDE DEF K
  <2>1. \A n \in Nat : n \in K
    BY <1>1, <1>2, SetInduction
  <2>2. Len(seqs) \in Nat
    OBVIOUS
  <2> QED BY <2>1, <2>2
<1> QED BY <1>3 DEF Flat

LEMMA FlatType ==
  ASSUME NEW S, NEW seqs \in Seq(Seq(S)), NEW flat, Flat(seqs, flat)
  PROVE  \A i \in 1 .. Len(seqs) : flat[i] \in Seq(S)
<1> DEFINE K == {k \in Nat : k \in 1 .. Len(seqs) => flat[k] \in Seq(S)}
<1>1. 0 \in K
  OBVIOUS
<1>2. ASSUME NEW k \in Nat, k \in K PROVE k + 1 \in K
  <2>1. SUFFICES ASSUME k + 1 \in 1 .. Len(seqs) PROVE flat[k + 1] \in Seq(S)
    OBVIOUS
  <2>2. flat[k + 1] = IF k + 1 = 1 THEN seqs[k + 1] ELSE flat[k] \o seqs[k + 1]
    BY <2>1, FlatAt DEF Flat
  <2>3. seqs[k + 1] \in Seq(S)
    BY <2>1
  <2>4. CASE k = 0
    BY <2>2, <2>3, <2>4
  <2>5. CASE k # 0
    <3>1. flat[k] \in Seq(S)
      BY <1>2, <2>1, <2>5
    <3> QED BY <2>2, <2>3, <2>5, <3>1
  <2> QED BY <2>4, <2>5
<1>3. \A n \in Nat : n \in K
  <2> HIDE DEF K
  <2> QED BY <1>1, <1>2, SetInduction
<1> QED BY <1>3

AgreesUpto(k, f, g) == \A i \in 1 .. k : f[i] = g[i]
Begins(a, b) == Len(a) \in Nat /\ Len(b) \in Nat /\ Len(a) <= Len(b) /\ AgreesUpto(Len(a), a, b)

\* What the first lists hold does not depend on how many more there are.
LEMMA FlatAgree ==
  ASSUME NEW a, NEW b, NEW f, NEW g, Flat(a, f), Flat(b, g), Begins(a, b)
  PROVE  AgreesUpto(Len(a), f, g)
<1>0. Len(a) \in Nat /\ Len(b) \in Nat /\ Len(a) <= Len(b)
  BY DEF Begins
<1> DEFINE K == {k \in Nat : k \in 1 .. Len(a) => f[k] = g[k]}
<1>1. 0 \in K
  OBVIOUS
<1>2. ASSUME NEW k \in Nat, k \in K PROVE k + 1 \in K
  <2>1. SUFFICES ASSUME k + 1 \in 1 .. Len(a) PROVE f[k + 1] = g[k + 1]
    OBVIOUS
  <2>2. f[k + 1] = IF k + 1 = 1 THEN a[k + 1] ELSE f[k] \o a[k + 1]
    BY <2>1, <1>0, FlatAt DEF Flat
  <2>3. g[k + 1] = IF k + 1 = 1 THEN b[k + 1] ELSE g[k] \o b[k + 1]
    BY <2>1, <1>0, FlatAt DEF Flat
  <2>4. k # 0 => f[k] = g[k]
    BY <1>2, <2>1
  <2> QED BY <2>1, <2>2, <2>3, <2>4 DEF Begins, AgreesUpto
<1>3. \A n \in Nat : n \in K
  <2> HIDE DEF K
  <2> QED BY <1>1, <1>2, SetInduction
<1> QED BY <1>3, <1>0 DEF AgreesUpto

\* FlattenSeq is the last step of the flattening.
LEMMA FlattenIs ==
  ASSUME NEW S, NEW seqs \in Seq(Seq(S))
  PROVE  \E flat : /\ Flat(seqs, flat)
                   /\ FlattenSeq(seqs) = IF Len(seqs) = 0 THEN <<>> ELSE flat[Len(seqs)]
<1> DEFINE f == CHOOSE flat : flat = [i \in 1 .. Len(seqs) |-> IF i = 1 THEN seqs[i] ELSE flat[i - 1] \o seqs[i]]
<1>1. FlattenSeq(seqs) = IF Len(seqs) = 0 THEN seqs ELSE f[Len(seqs)]
  BY DEF FlattenSeq
<1>2. Flat(seqs, f)
  BY FlatExists, Zenon DEF Flat, FlatUpto
<1>3. Len(seqs) = 0 => seqs = <<>>
  OBVIOUS
<1> HIDE DEF f
<1> QED BY <1>1, <1>2, <1>3

LEMMA FlattenType ==
  ASSUME NEW S, NEW seqs \in Seq(Seq(S))
  PROVE  FlattenSeq(seqs) \in Seq(S)
<1>1. PICK flat : /\ Flat(seqs, flat)
                  /\ FlattenSeq(seqs) = IF Len(seqs) = 0 THEN <<>> ELSE flat[Len(seqs)]
  BY FlattenIs
<1>2. \A i \in 1 .. Len(seqs) : flat[i] \in Seq(S)
  BY <1>1, FlatType
<1>3. Len(seqs) \in Nat
  OBVIOUS
<1> QED BY <1>1, <1>2, <1>3

LEMMA FlattenEmpty == FlattenSeq(<<>>) = <<>>
BY DEF FlattenSeq

\* One more list at the end is appended at the end.
LEMMA FlattenGrows ==
  ASSUME NEW S, NEW seqs \in Seq(Seq(S)), NEW more \in Seq(Seq(S)),
         Len(more) = Len(seqs) + 1, \A i \in 1 .. Len(seqs) : seqs[i] = more[i]
  PROVE  FlattenSeq(more) = FlattenSeq(seqs) \o more[Len(more)]
<1>1. PICK flat : /\ Flat(seqs, flat)
                  /\ FlattenSeq(seqs) = IF Len(seqs) = 0 THEN <<>> ELSE flat[Len(seqs)]
  BY FlattenIs
<1>2. PICK wide : /\ Flat(more, wide)
                  /\ FlattenSeq(more) = IF Len(more) = 0 THEN <<>> ELSE wide[Len(more)]
  BY FlattenIs
<1>3. Len(seqs) \in Nat /\ Len(more) \in Nat /\ Len(seqs) <= Len(more)
  OBVIOUS
<1>4. \A i \in 1 .. Len(seqs) : flat[i] = wide[i]
  <2>1. AgreesUpto(Len(seqs), seqs, more)
    BY Zenon DEF AgreesUpto
  <2>2. Begins(seqs, more)
    BY <1>3, <2>1, Zenon DEF Begins
  <2>3. Flat(seqs, flat) /\ Flat(more, wide)
    BY <1>1, <1>2
  <2>4. AgreesUpto(Len(seqs), flat, wide)
    BY <2>2, <2>3, FlatAgree, Zenon
  <2> QED BY <2>4, Zenon DEF AgreesUpto
<1>5. wide[Len(more)] = IF Len(more) = 1 THEN more[Len(more)] ELSE wide[Len(seqs)] \o more[Len(more)]
  BY <1>2, <1>3, FlatAt DEF Flat
<1>6. more[Len(more)] \in Seq(S)
  BY <1>3
<1>7. CASE Len(seqs) = 0
  <2>1. FlattenSeq(more) = more[Len(more)] /\ FlattenSeq(seqs) = <<>>
    BY <1>1, <1>2, <1>5, <1>7
  <2> QED BY <1>6, <2>1
<1>8. CASE Len(seqs) # 0
  <2>1. Len(seqs) \in 1 .. Len(seqs) /\ Len(more) # 0 /\ Len(more) # 1
    BY <1>3, <1>8
  <2> QED BY <2>1, <1>1, <1>2, <1>4, <1>5, <1>8
<1> QED BY <1>7, <1>8

-----------------------------------------------------------------------------
(***************************************************************************)
(* One true verdict for each reference.  An outcome stays once it is there *)
(* and a node once it is judged; what is reported, and what is left, are   *)
(* the places of the document with those of the claims that resolved.      *)
(***************************************************************************)
Origins == {"related", "sources", "root", "claim"} \X (Keys \cup {0})
Verdicts == Failures \cup {"resolved", "budget-exhausted"}
Occs == [from : Origins, index : Nat, key : Keys, declared : STRING, depth : Nat]
Reported == [from : Origins, index : Nat, key : Keys, declared : STRING, status : Verdicts]
Spots == [from : Origins, index : Nat, key : Keys, declared : STRING]

RefType ==
  /\ world \in Worlds /\ call \in DOMAIN world.calls
  /\ todo \in Seq(Occs) /\ reports \in Seq(Reported)
  /\ outcomes \in [Keys -> Failures \cup {"ok", None}]
  /\ node \in [Keys -> Verdicts \cup {None}]
  /\ stopped \in BOOLEAN

\* What a call asks for has its types.
LEMMA CallType ==
  ASSUME world \in Worlds, call \in DOMAIN world.calls
  PROVE  /\ Call.asks \in {"answer", "answer-evidence", "claim"}
         /\ Call.related \in Seq(References) /\ Call.sources \in Seq(References)
<1>1. world.calls \in Seq([asks : {"answer", "answer-evidence", "claim"}, generated : BOOLEAN,
                           related : Seq(References), sources : Seq(References)])
  BY ReferencesAssumption DEF CallsAssumption
<1>0. \A T, s : s \in Seq(T) /\ call \in DOMAIN s => s[call] \in T
  OBVIOUS
<1>2. world.calls[call] \in [asks : {"answer", "answer-evidence", "claim"}, generated : BOOLEAN,
                             related : Seq(References), sources : Seq(References)]
  BY <1>0, <1>1, Zenon
<1> QED
  BY <1>2 DEF Call

LEMMA OccurrencesType ==
  ASSUME NEW from \in Origins, NEW refs \in Seq(References), NEW depth \in Nat
  PROVE  Occurrences(from, refs, depth) \in Seq(Occs)
<1>0. \A i \in DOMAIN refs : refs[i] \in References
  OBVIOUS
<1>1. \A i \in DOMAIN refs : [from |-> from, index |-> i, key |-> refs[i].to, declared |-> refs[i].declared,
                              depth |-> depth] \in Occs
  <2>1. SUFFICES ASSUME NEW i \in DOMAIN refs
        PROVE  [from |-> from, index |-> i, key |-> refs[i].to, declared |-> refs[i].declared, depth |-> depth] \in Occs
    OBVIOUS
  <2>2. i \in Nat /\ refs[i].to \in Keys /\ refs[i].declared \in STRING
    BY <1>0 DEF References
  <2> QED
    BY <2>2 DEF Occs
<1> DEFINE occ(i) == [from |-> from, index |-> i, key |-> refs[i].to, declared |-> refs[i].declared, depth |-> depth]
<1>2. \A i \in 1 .. Len(refs) : occ(i) \in Occs
  BY <1>1
<1> HIDE DEF occ
<1>3. [i \in 1 .. Len(refs) |-> occ(i)] \in Seq(Occs)
  BY <1>2
<1>4. DOMAIN refs = 1 .. Len(refs)
  OBVIOUS
<1> QED
  BY <1>3, <1>4 DEF Occurrences, occ

LEMMA AskedType ==
  ASSUME world \in Worlds, call \in DOMAIN world.calls
  PROVE  Asked \in Seq(Occs)
<1>0. /\ <<"related", 0>> \in Origins /\ <<"sources", 0>> \in Origins /\ <<"root", 0>> \in Origins
      /\ <<>> \in Seq(References) /\ 1 \in Nat
  BY DEF Origins
<1> DEFINE related == Occurrences(<<"related", 0>>, Call.related, 1)
           sources == Occurrences(<<"sources", 0>>, IF Call.generated THEN Call.sources ELSE <<>>, 1)
           only == [i \in DOMAIN related |-> IF related[i].declared \in EvidenceTypes THEN <<related[i]>> ELSE <<>>]
<1>1. related \in Seq(Occs)
  BY <1>0, CallType, OccurrencesType
<1>2. sources \in Seq(Occs)
  <2>1. (IF Call.generated THEN Call.sources ELSE <<>>) \in Seq(References)
    BY <1>0, CallType
  <2> QED
    BY <1>0, <2>1, OccurrencesType
<1>3. Occurrences(<<"root", 0>>, Call.related, 1) \in Seq(Occs)
  BY <1>0, CallType, OccurrencesType
<1>4. only \in Seq(Seq(Occs))
  <2> HIDE DEF related
  <2>1. \A i \in 1 .. Len(related) : (IF related[i].declared \in EvidenceTypes THEN <<related[i]>> ELSE <<>>) \in Seq(Occs)
    BY <1>1
  <2>2. DOMAIN related = 1 .. Len(related) /\ Len(related) \in Nat
    BY <1>1
  <2> QED
    BY <2>1, <2>2
<1>5. CASE Call.asks = "answer"
  <2>1. Asked = related \o sources
    BY <1>5, Zenon DEF Asked
  <2> HIDE DEF related, sources
  <2> QED
    BY <1>1, <1>2, <2>1
<1>6. CASE Call.asks = "answer-evidence"
  <2>1. Asked = FlattenSeq(only)
    BY <1>6, Zenon DEF Asked
  <2> HIDE DEF only
  <2> QED
    BY <1>4, <2>1, FlattenType
<1>7. CASE Call.asks = "claim"
  <2>1. Asked = Occurrences(<<"root", 0>>, Call.related, 1)
    BY <1>7, Zenon DEF Asked
  <2> QED
    BY <1>3, <2>1
<1> QED
  BY <1>5, <1>6, <1>7, CallType

LEMMA ExpansionType ==
  ASSUME RefType, NEW o, o.key \in Keys, NEW status
  PROVE  Expansion(o, status) \in Seq(Occs)
<1>1. /\ world.served[o.key].refs \in Seq(References)
      /\ <<"claim", o.key>> \in Origins /\ 2 \in Nat
  BY ReferencesAssumption DEF RefType, ServedAssumption, Origins
<1>2. Occurrences(<<"claim", o.key>>, world.served[o.key].refs, 2) \in Seq(Occs)
  BY <1>1, OccurrencesType
<1>3. <<>> \in Seq(Occs)
  OBVIOUS
<1> QED
  BY <1>2, <1>3 DEF Expansion

-----------------------------------------------------------------------------
(* Where the occurrences of a sequence are.                                *)

LEMMA PlaceType == \A o : o \in Occs \cup Reported => Place(o) \in Spots
BY DEF Occs, Reported, Place, Spots

LEMMA PlacesType ==
  ASSUME NEW S, S \subseteq Occs \cup Reported, NEW s \in Seq(S)
  PROVE  Places(s) \in Seq(Spots)
<1>1. \A i \in 1 .. Len(s) : Place(s[i]) \in Spots
  BY PlaceType
<1>2. DOMAIN s = 1 .. Len(s) /\ Len(s) \in Nat
  OBVIOUS
<1> QED
  BY <1>1, <1>2 DEF Places

LEMMA PlacesAt ==
  ASSUME NEW S, NEW s \in Seq(S)
  PROVE  DOMAIN Places(s) = 1 .. Len(s) /\ \A i \in 1 .. Len(s) : Places(s)[i] = Place(s[i])
BY DEF Places

LEMMA PlacesLen ==
  ASSUME NEW S, S \subseteq Occs \cup Reported, NEW s \in Seq(S)
  PROVE  Len(Places(s)) = Len(s)
<1>1. DOMAIN Places(s) = 1 .. Len(s) /\ Len(s) \in Nat
  BY PlacesAt
<1> QED
  BY <1>1, PlacesType

LEMMA PlacesJoin ==
  ASSUME NEW S, S \subseteq Occs \cup Reported, NEW s \in Seq(S), NEW t \in Seq(S)
  PROVE  Places(s \o t) = Places(s) \o Places(t)
<1>1. s \o t \in Seq(S) /\ Len(s \o t) = Len(s) + Len(t) /\ Len(s) \in Nat /\ Len(t) \in Nat
  OBVIOUS
<1>2. Places(s) \in Seq(Spots) /\ Places(t) \in Seq(Spots) /\ Places(s \o t) \in Seq(Spots)
  BY <1>1, PlacesType
<1>3. Len(Places(s)) = Len(s) /\ Len(Places(t)) = Len(t) /\ Len(Places(s \o t)) = Len(s) + Len(t)
  BY <1>1, PlacesLen
<1>4. \A i \in 1 .. (Len(s) + Len(t)) : Places(s \o t)[i] = (Places(s) \o Places(t))[i]
  <2>1. SUFFICES ASSUME NEW i \in 1 .. (Len(s) + Len(t)) PROVE Places(s \o t)[i] = (Places(s) \o Places(t))[i]
    OBVIOUS
  <2>2. Places(s \o t)[i] = Place((s \o t)[i])
    BY <1>1, PlacesAt
  <2>3. CASE i <= Len(s)
    <3>1. Places(s)[i] = Place(s[i]) /\ (s \o t)[i] = s[i]
      BY <2>3, PlacesAt
    <3>2. (Places(s) \o Places(t))[i] = Places(s)[i]
      BY <1>2, <1>3, <2>3
    <3> QED
      BY <2>2, <3>1, <3>2
  <2>4. CASE i > Len(s)
    <3>1. i - Len(s) \in 1 .. Len(t)
      BY <1>1, <2>4
    <3>2. Places(t)[i - Len(s)] = Place(t[i - Len(s)]) /\ (s \o t)[i] = t[i - Len(s)]
      BY <2>4, <3>1, PlacesAt
    <3>3. (Places(s) \o Places(t))[i] = Places(t)[i - Len(s)]
      BY <1>2, <1>3, <2>4, <3>1
    <3> QED
      BY <2>2, <3>2, <3>3
  <2>5. i <= Len(s) \/ i > Len(s)
    BY <1>1
  <2> QED
    BY <2>3, <2>4, <2>5
<1>5. \A a, b : a \in Seq(Spots) /\ b \in Seq(Spots) /\ Len(a) = Len(b) /\ (\A i \in 1 .. Len(a) : a[i] = b[i]) => a = b
  OBVIOUS
<1>6. Places(s) \o Places(t) \in Seq(Spots) /\ Len(Places(s) \o Places(t)) = Len(s) + Len(t)
  BY <1>2, <1>3, ConcatProperties
<1> QED
  BY <1>2, <1>3, <1>4, <1>5, <1>6

LEMMA PlacesOne ==
  ASSUME NEW S, NEW o \in S
  PROVE  Places(<<o>>) = <<Place(o)>>
<1>1. DOMAIN <<o>> = 1 .. 1 /\ <<o>>[1] = o
  OBVIOUS
<1>2. \A i \in 1 .. 1 : Place(<<o>>[i]) = Place(o)
  BY <1>1
<1>3. Places(<<o>>) = [i \in 1 .. 1 |-> Place(o)]
  BY <1>1, <1>2 DEF Places
<1> QED
  BY <1>3

LEMMA PlacesAppend ==
  ASSUME NEW S, S \subseteq Occs \cup Reported, NEW s \in Seq(S), NEW o \in S
  PROVE  Places(Append(s, o)) = Places(s) \o <<Place(o)>>
<1>1. Append(s, o) = s \o <<o>> /\ <<o>> \in Seq(S)
  OBVIOUS
<1> QED
  BY <1>1, PlacesJoin, PlacesOne

LEMMA PlacesHead ==
  ASSUME NEW S, S \subseteq Occs \cup Reported, NEW s \in Seq(S), s # <<>>
  PROVE  Places(s) = <<Place(Head(s))>> \o Places(Tail(s))
<1>1. s = <<Head(s)>> \o Tail(s) /\ Head(s) \in S /\ <<Head(s)>> \in Seq(S) /\ Tail(s) \in Seq(S)
  OBVIOUS
<1> QED
  BY <1>1, PlacesJoin, PlacesOne

\* What moves from the front of the one list to the end of the other.
Splits(a, p, rest, x, y) == a \o (<<p>> \o rest) = x \o y
Shifted(a, p, rest, more, x, y) == (a \o <<p>>) \o (rest \o more) = x \o (y \o more)
LEMMA Moved ==
  ASSUME NEW S, NEW a \in Seq(S), NEW rest \in Seq(S), NEW more \in Seq(S), NEW x \in Seq(S), NEW y \in Seq(S),
         NEW p \in S, Splits(a, p, rest, x, y)
  PROVE  Shifted(a, p, rest, more, x, y)
<1>1. <<p>> \in Seq(S)
  OBVIOUS
<1>2. (a \o <<p>>) \o (rest \o more) = ((a \o <<p>>) \o rest) \o more
  BY <1>1
<1>3. (a \o <<p>>) \o rest = a \o (<<p>> \o rest)
  BY <1>1
<1>4. (x \o y) \o more = x \o (y \o more)
  OBVIOUS
<1> QED
  BY <1>2, <1>3, <1>4 DEF Splits, Shifted

-----------------------------------------------------------------------------
(* Every step that reports an occurrence keeps the order.                  *)

Added == [i \in DOMAIN reports |-> Places(Expansion(reports[i], reports[i].status))]
InOrder == Places(reports) \o Places(todo) = Places(Asked) \o FlattenSeq(Added)

LEMMA AddedType == RefType => Added \in Seq(Seq(Spots)) /\ Len(Added) = Len(reports)
<1> SUFFICES ASSUME RefType PROVE Added \in Seq(Seq(Spots)) /\ Len(Added) = Len(reports)
  OBVIOUS
<1>1. \A i \in 1 .. Len(reports) : Places(Expansion(reports[i], reports[i].status)) \in Seq(Spots)
  <2>1. SUFFICES ASSUME NEW i \in 1 .. Len(reports)
        PROVE  Places(Expansion(reports[i], reports[i].status)) \in Seq(Spots)
    OBVIOUS
  <2>2. reports[i] \in Reported
    BY DEF RefType
  <2>3. reports[i].key \in Keys
    BY <2>2 DEF Reported
  <2> QED
    BY <2>3, ExpansionType, PlacesType
<1>2. DOMAIN reports = 1 .. Len(reports) /\ Len(reports) \in Nat
  BY DEF RefType
<1> DEFINE added(i) == Places(Expansion(reports[i], reports[i].status))
<1>3. Added = [i \in 1 .. Len(reports) |-> added(i)]
  BY <1>2 DEF Added
<1> HIDE DEF added
<1> QED
  BY <1>1, <1>2, <1>3 DEF added

\* Nothing of the world or of the call changes while a call runs.
LEMMA SameCall ==
  ASSUME world' = world, call' = call
  PROVE  /\ Call' = Call /\ Asked' = Asked
         /\ Added' = [i \in DOMAIN reports' |-> Places(Expansion(reports'[i], reports'[i].status))]
<1>1. Call' = Call
  BY DEF Call
<1>2. Asked' = Asked
  BY <1>1, Zenon DEF Asked, Occurrences, EvidenceTypes
<1>3. Added' = [i \in DOMAIN reports' |-> Places(Expansion(reports'[i], reports'[i].status))]
  BY <1>1 DEF Added, Places, Place, Expansion, ExpandsClaim, Occurrences
<1> QED
  BY <1>1, <1>2, <1>3

\* A report moves an occurrence from what is left to what is done.
LEMMA ReportMoves ==
  ASSUME RefType, todo # <<>>, NEW status \in Verdicts, Report(Current, status)
  PROVE  /\ Current \in Occs /\ todo' \in Seq(Occs) /\ reports' \in Seq(Reported)
         /\ Len(reports') = Len(reports) + 1
         /\ \A i \in 1 .. Len(reports) : reports'[i] = reports[i]
         /\ \E r \in Reported : /\ reports' = Append(reports, r) /\ reports'[Len(reports')] = r
                                /\ r.key = Current.key /\ r.declared = Current.declared /\ r.from = Current.from
                                /\ r.status = status /\ Place(r) = Place(Current)
<1>1. Current \in Occs /\ Tail(todo) \in Seq(Occs) /\ Len(reports) \in Nat
  BY DEF RefType, Current
<1>2. PICK r : r = [from |-> Current.from, index |-> Current.index, key |-> Current.key,
                    declared |-> Current.declared, status |-> status]
  OBVIOUS
<1>3. /\ r \in Reported /\ r.key = Current.key /\ r.declared = Current.declared /\ r.from = Current.from
      /\ r.status = status /\ Place(r) = Place(Current)
  BY <1>1, <1>2 DEF Occs, Reported, Place
<1>4. reports' = Append(reports, r)
  BY <1>2, Zenon DEF Report
<1>5. /\ reports' \in Seq(Reported) /\ Len(reports') = Len(reports) + 1 /\ reports'[Len(reports')] = r
      /\ \A i \in 1 .. Len(reports) : reports'[i] = reports[i]
  BY <1>3, <1>4 DEF RefType
<1>6. Expansion(Current, status) \in Seq(Occs)
  <2>1. Current.key \in Keys
    BY <1>1 DEF Occs
  <2> QED
    BY <2>1, ExpansionType
<1>7. todo' \in Seq(Occs)
  <2>1. todo' = Tail(todo) \o Expansion(Current, status)
    BY Zenon DEF Report
  <2> QED
    BY <1>1, <1>6, <2>1
<1> QED
  BY <1>1, <1>3, <1>4, <1>5, <1>7

LEMMA ReportOrdered ==
  ASSUME RefType, InOrder, todo # <<>>, world' = world, call' = call, RefType',
         NEW status \in Verdicts, Report(Current, status)
  PROVE  InOrder'
<1>1. PICK r \in Reported : /\ reports' = Append(reports, r) /\ reports'[Len(reports')] = r
                            /\ r.key = Current.key /\ r.declared = Current.declared /\ r.from = Current.from
                            /\ r.status = status /\ Place(r) = Place(Current)
  BY ReportMoves
<1> DEFINE more == Expansion(Current, status)
<1>2. /\ Current \in Occs /\ Tail(todo) \in Seq(Occs) /\ more \in Seq(Occs) /\ reports \in Seq(Reported)
      /\ todo' = Tail(todo) \o more /\ todo \in Seq(Occs)
  <2>1. Current \in Occs /\ Tail(todo) \in Seq(Occs) /\ reports \in Seq(Reported) /\ todo \in Seq(Occs)
    BY DEF RefType, Current
  <2>2. Current.key \in Keys
    BY <2>1 DEF Occs
  <2>3. more \in Seq(Occs)
    BY <2>2, ExpansionType
  <2>4. todo' = Tail(todo) \o more
    BY Zenon DEF Report
  <2> QED
    BY <2>1, <2>3, <2>4
<1>3. Places(reports') = Places(reports) \o <<Place(Current)>>
  BY <1>1, <1>2, PlacesAppend
<1>4. Places(todo') = Places(Tail(todo)) \o Places(more)
  BY <1>2, PlacesJoin
<1>5. Places(todo) = <<Place(Current)>> \o Places(Tail(todo))
  BY <1>2, PlacesHead DEF Current
<1>6. /\ Places(reports) \in Seq(Spots) /\ Places(Tail(todo)) \in Seq(Spots) /\ Places(more) \in Seq(Spots)
      /\ Place(Current) \in Spots /\ Places(Asked) \in Seq(Spots)
  BY <1>2, PlacesType, PlaceType, AskedType DEF RefType
<1>7. FlattenSeq(Added) \in Seq(Spots)
  BY AddedType, FlattenType
<1>8. FlattenSeq(Added') = FlattenSeq(Added) \o Places(more)
  <2>1. Added \in Seq(Seq(Spots)) /\ Len(Added) = Len(reports) /\ Len(reports) \in Nat
    BY AddedType, <1>2
  <2>2. Added' \in Seq(Seq(Spots)) /\ Len(Added') = Len(reports) + 1
    <3>1. (Added \in Seq(Seq(Spots)) /\ Len(Added) = Len(reports))'
      BY AddedType, PTL
    <3> QED
      BY <3>1, ReportMoves
  <2>3. Expansion(r, status) = more
    BY <1>1 DEF Expansion, ExpandsClaim
  <2>4. \A i \in DOMAIN reports' : Added'[i] = Places(Expansion(reports'[i], reports'[i].status))
    BY SameCall
  <2>5. \A i \in DOMAIN reports : Added[i] = Places(Expansion(reports[i], reports[i].status))
    BY DEF Added
  <2>6. /\ DOMAIN reports = 1 .. Len(reports) /\ DOMAIN reports' = 1 .. (Len(reports) + 1)
        /\ Len(reports') = Len(reports) + 1
    BY <1>2, ReportMoves
  <2>7. \A i \in 1 .. Len(Added) : Added[i] = Added'[i]
    <3>1. SUFFICES ASSUME NEW i \in 1 .. Len(Added) PROVE Added[i] = Added'[i]
      OBVIOUS
    <3>2. i \in DOMAIN reports /\ i \in DOMAIN reports' /\ reports'[i] = reports[i]
      BY <2>1, <2>6, ReportMoves
    <3> QED
      BY <2>4, <2>5, <3>2
  <2>8. Added'[Len(Added')] = Places(more)
    BY <1>1, <2>1, <2>2, <2>3, <2>4, <2>6
  <2>9. Len(Added') = Len(Added) + 1
    BY <2>1, <2>2
  <2>10. FlattenSeq(Added') = FlattenSeq(Added) \o Added'[Len(Added')]
    BY <2>1, <2>2, <2>7, <2>9, FlattenGrows
  <2> QED
    BY <2>8, <2>10
<1>9. Places(reports) \o (<<Place(Current)>> \o Places(Tail(todo))) = Places(Asked) \o FlattenSeq(Added)
  BY <1>5 DEF InOrder
<1>10. (Places(reports) \o <<Place(Current)>>) \o (Places(Tail(todo)) \o Places(more))
         = Places(Asked) \o (FlattenSeq(Added) \o Places(more))
  <2>1. Splits(Places(reports), Place(Current), Places(Tail(todo)), Places(Asked), FlattenSeq(Added))
    BY <1>9 DEF Splits
  <2> HIDE DEF more
  <2>2. Shifted(Places(reports), Place(Current), Places(Tail(todo)), Places(more), Places(Asked), FlattenSeq(Added))
    BY <1>6, <1>7, <2>1, Moved, Zenon
  <2> QED
    BY <2>2, Zenon DEF Shifted
<1>11. Places(reports') \o Places(todo') = Places(Asked) \o FlattenSeq(Added')
  BY <1>3, <1>4, <1>8, <1>10
<1>12. Asked' = Asked
  BY SameCall
<1>13. /\ Places(reports)' = Places(reports') /\ Places(todo)' = Places(todo') /\ Places(Asked)' = Places(Asked')
       /\ FlattenSeq(Added)' = FlattenSeq(Added')
  OBVIOUS
<1> QED
  BY <1>11, <1>12, <1>13 DEF InOrder

-----------------------------------------------------------------------------
(* What a target, and an occurrence of it, is judged by.                   *)

OutcomeFits(k, outcome) == outcome \in {None, "invalid", Outcome(k)}
NodeFits(k, status, outcome, cut) ==
  \/ status = None
  \/ status = "budget-exhausted" /\ cut
  \/ outcome # None /\ status = NodeStatus(k, outcome)
Judged(r, outcome) ==
  \/ r.status = "budget-exhausted"
  \/ outcome # None /\ r.status = Verdict(r, NodeStatus(r.key, outcome))

OutcomesTrue == \A k \in Keys : OutcomeFits(k, outcomes[k])
NodesTrue == \A k \in Keys : NodeFits(k, node[k], outcomes[k], stopped)
AllJudged == \A i \in DOMAIN reports : Judged(reports[i], outcomes[reports[i].key])

LEMMA SameVerdicts ==
  ASSUME world' = world, call' = call
  PROVE  /\ OutcomesTrue' = (\A k \in Keys : OutcomeFits(k, outcomes'[k]))
         /\ NodesTrue' = (\A k \in Keys : NodeFits(k, node'[k], outcomes'[k], stopped'))
         /\ AllJudged' = (\A i \in DOMAIN reports' : Judged(reports'[i], outcomes'[reports'[i].key]))
<1>1. OutcomesTrue' = (\A k \in Keys : OutcomeFits(k, outcomes'[k]))
  BY Zenon DEF OutcomesTrue, OutcomeFits, Outcome
<1>2. NodesTrue' = (\A k \in Keys : NodeFits(k, node'[k], outcomes'[k], stopped'))
  BY Zenon DEF NodesTrue, NodeFits, NodeStatus, Evidence, Call, EvidenceTypes
<1>3. AllJudged' = (\A i \in DOMAIN reports' : Judged(reports'[i], outcomes'[reports'[i].key]))
  BY Zenon DEF AllJudged, Judged, Verdict, NodeStatus, Evidence, Call, EvidenceTypes
<1> QED
  BY <1>1, <1>2, <1>3

LEMMA NodeStatusIs ==
  \A k, outcome :
    NodeStatus(k, outcome) =
      IF outcome = "blocked" THEN IF Evidence THEN "forbidden" ELSE "invalid"
      ELSE IF outcome = "ok" THEN IF Evidence /\ world.served[k].type \notin EvidenceTypes THEN "invalid" ELSE "resolved"
      ELSE outcome
BY Zenon DEF NodeStatus

LEMMA NodeStatusType ==
  ASSUME NEW k, NEW outcome \in Failures \cup {"ok"}
  PROVE  NodeStatus(k, outcome) \in Failures \cup {"resolved"}
BY NodeStatusIs DEF Failures

LEMMA VerdictType ==
  ASSUME NEW o, NEW status \in Failures \cup {"resolved"}
  PROVE  Verdict(o, status) \in Failures \cup {"resolved"}
BY DEF Verdict, Failures

LEMMA NoneApart == None \notin Verdicts \cup Failures \cup {"ok"}
BY ReferencesAssumption DEF NoneAssumption, Verdicts

LEMMA OutcomeType ==
  ASSUME RefType, NEW k \in Keys
  PROVE  Outcome(k) \in Failures \cup {"ok"}
BY ReferencesAssumption DEF RefType, Outcome, ServedAssumption

LEMMA CutApart == "budget-exhausted" \notin Failures \cup {"resolved", "ok"}
BY DEF Failures

-----------------------------------------------------------------------------
(* The invariant.                                                          *)

CutOff(i) == reports[i].status = "budget-exhausted"
CutShort ==
  /\ stopped = (\E i \in DOMAIN reports : CutOff(i))
  /\ \A i, j \in DOMAIN reports : i < j /\ CutOff(i) => CutOff(j)

Awaiting ==
  stage \in {"await", "met", "refused"} =>
    todo # <<>> /\ ~stopped /\ outcomes[Current.key] = None /\ node[Current.key] = None

ReportInv ==
  /\ RefType /\ InOrder
  /\ OutcomesTrue /\ NodesTrue /\ AllJudged
  /\ CutShort /\ Awaiting
  /\ stage = "over" => todo = <<>>

\* Outcomes that are there stay.
Stays == \A k \in Keys : outcomes[k] # None => outcomes'[k] = outcomes[k]

\* A reference that is reported as cut off, or by the outcome of its target.
CutNow(status) == status = "budget-exhausted" /\ stopped'
JudgedNow(status) ==
  /\ ~stopped /\ ~stopped' /\ outcomes'[Current.key] # None /\ status \in Failures \cup {"resolved"}
  /\ status = Verdict(Current, NodeStatus(Current.key, outcomes'[Current.key]))

LEMMA ReportJudges ==
  ASSUME ReportInv, todo # <<>>, world' = world, call' = call, NEW status \in Verdicts, Report(Current, status),
         RefType', Stays, CutNow(status) \/ JudgedNow(status)
  PROVE  AllJudged' /\ CutShort'
<1>1. PICK r \in Reported : /\ reports' = Append(reports, r) /\ reports'[Len(reports')] = r
                            /\ r.key = Current.key /\ r.declared = Current.declared /\ r.from = Current.from
                            /\ r.status = status /\ Place(r) = Place(Current)
  BY ReportMoves DEF ReportInv
<1>2. /\ reports \in Seq(Reported) /\ reports' \in Seq(Reported) /\ Len(reports) \in Nat
      /\ Len(reports') = Len(reports) + 1 /\ \A i \in 1 .. Len(reports) : reports'[i] = reports[i]
      /\ DOMAIN reports = 1 .. Len(reports) /\ DOMAIN reports' = 1 .. (Len(reports) + 1)
  <2>1. /\ reports' \in Seq(Reported) /\ Len(reports') = Len(reports) + 1
        /\ \A i \in 1 .. Len(reports) : reports'[i] = reports[i]
    BY ReportMoves DEF ReportInv
  <2>2. reports \in Seq(Reported)
    BY DEF ReportInv, RefType
  <2> QED
    BY <2>1, <2>2
<1>3. ASSUME NEW i \in DOMAIN reports' PROVE Judged(reports'[i], outcomes'[reports'[i].key])
  <2>1. CASE i \in 1 .. Len(reports)
    <3>1. /\ Judged(reports[i], outcomes[reports[i].key]) /\ reports'[i] = reports[i]
          /\ reports[i].key \in Keys
      <4>1. reports[i] \in Reported
        BY <1>2, <2>1
      <4> QED
        BY <1>2, <2>1, <4>1 DEF ReportInv, AllJudged, Reported
    <3> QED
      BY <3>1 DEF Judged, Stays
  <2>2. CASE i \notin 1 .. Len(reports)
    <3>1. reports'[i] = r
      BY <1>1, <1>2, <2>2
    <3>2. CASE CutNow(status)
      BY <1>1, <3>1, <3>2 DEF CutNow, Judged
    <3>3. CASE JudgedNow(status)
      BY <1>1, <3>1, <3>3 DEF JudgedNow, Judged, Verdict
    <3> QED
      BY <3>2, <3>3
  <2> QED
    BY <2>1, <2>2
<1>4. AllJudged'
  BY <1>3, SameVerdicts
<1>5. /\ \A i \in 1 .. Len(reports) : (CutOff(i)' <=> CutOff(i))
      /\ \A i : i = Len(reports) + 1 => (CutOff(i)' <=> status = "budget-exhausted")
  BY <1>1, <1>2 DEF CutOff
<1>6. /\ stopped = (\E i \in 1 .. Len(reports) : CutOff(i))
      /\ \A i, j \in 1 .. Len(reports) : i < j /\ CutOff(i) => CutOff(j)
  BY <1>2 DEF ReportInv, CutShort
<1>7. /\ stopped' = (\E i \in 1 .. (Len(reports) + 1) : CutOff(i)')
      /\ \A i, j \in 1 .. (Len(reports) + 1) : i < j /\ CutOff(i)' => CutOff(j)'
  <2> DEFINE n == Len(reports)
             Was == {i \in 1 .. n : CutOff(i)}
             Is == {i \in 1 .. (n + 1) : CutOff(i)'}
  <2>1. n \in Nat /\ Was \subseteq 1 .. n /\ Is \subseteq 1 .. (n + 1)
    BY <1>2
  <2>2. \A i \in 1 .. n : i \in Is <=> i \in Was
    BY <1>2, <1>5
  <2>3. n + 1 \in Is <=> status = "budget-exhausted"
    BY <1>2, <1>5
  <2>4. (stopped <=> Was # {}) /\ \A i, j \in 1 .. n : i < j /\ i \in Was => j \in Was
    BY <1>6
  <2>5. stopped' \in BOOLEAN /\ stopped \in BOOLEAN
    BY DEF RefType, ReportInv
  <2>6. /\ \A i \in 1 .. (n + 1) : i \in Is <=> CutOff(i)'
    OBVIOUS
  <2> HIDE DEF n, Was, Is
  <2>7. CASE CutNow(status)
    <3>1. n + 1 \in Is /\ stopped'
      BY <2>3, <2>7 DEF CutNow
    <3>2. \A i, j \in 1 .. (n + 1) : i < j /\ i \in Is => j \in Is
      BY <2>1, <2>2, <2>4, <3>1
    <3> QED
      BY <2>1, <2>5, <2>6, <3>1, <3>2 DEF n
  <2>8. CASE JudgedNow(status)
    <3>1. status # "budget-exhausted" /\ ~stopped /\ ~stopped'
      BY <2>8, CutApart DEF JudgedNow
    <3>2. Is = {}
      BY <2>1, <2>2, <2>3, <2>4, <3>1
    <3> QED
      BY <2>1, <2>5, <2>6, <3>1, <3>2 DEF n
  <2> QED
    BY <2>7, <2>8
<1>8. CutShort'
  BY <1>2, <1>7 DEF CutShort
<1> QED
  BY <1>4, <1>8

LEMMA EnsureKeeps ==
  ASSUME RefType, NodesTrue, NEW k \in Keys, NEW status \in Verdicts, Ensure(k, status),
         outcomes' \in [Keys -> Failures \cup {"ok", None}], stopped => stopped', Stays,
         NodeFits(k, status, outcomes'[k], stopped')
  PROVE  /\ node' \in [Keys -> Verdicts \cup {None}]
         /\ \A j \in Keys : NodeFits(j, node'[j], outcomes'[j], stopped')
<1>1. node' \in [Keys -> Verdicts \cup {None}] /\ \A j \in Keys : node'[j] = node[j] \/ (j = k /\ node'[j] = status)
  <2>1. node \in [Keys -> Verdicts \cup {None}]
    BY DEF RefType
  <2>2. CASE node' = node
    BY <2>1, <2>2
  <2>3. CASE node' = [node EXCEPT ![k] = status]
    BY <2>1, <2>3
  <2> QED
    BY <2>2, <2>3 DEF Ensure
<1>2. ASSUME NEW j \in Keys PROVE NodeFits(j, node'[j], outcomes'[j], stopped')
  <2>1. CASE node'[j] = node[j]
    BY <2>1 DEF NodesTrue, NodeFits, Stays
  <2>2. CASE j = k /\ node'[j] = status
    BY <2>2
  <2> QED
    BY <1>1, <2>1, <2>2
<1> QED
  BY <1>1, <1>2

LEMMA ReportStep ==
  ASSUME ReportInv, todo # <<>>, world' = world, call' = call, stage' = "ready",
         stopped' \in BOOLEAN, stopped => stopped',
         outcomes' \in [Keys -> Failures \cup {"ok", None}], Stays, \A k \in Keys : OutcomeFits(k, outcomes'[k]),
         NEW status \in Verdicts, Ensure(Current.key, status),
         NodeFits(Current.key, status, outcomes'[Current.key], stopped'),
         NEW verdict \in Verdicts, Report(Current, verdict), CutNow(verdict) \/ JudgedNow(verdict)
  PROVE  ReportInv'
<1>1. RefType /\ NodesTrue /\ Current.key \in Keys /\ todo' \in Seq(Occs) /\ reports' \in Seq(Reported)
  <2>1. Current \in Occs /\ todo' \in Seq(Occs) /\ reports' \in Seq(Reported)
    BY ReportMoves DEF ReportInv
  <2> QED
    BY <2>1 DEF ReportInv, Occs
<1>2. /\ node' \in [Keys -> Verdicts \cup {None}]
      /\ \A k \in Keys : NodeFits(k, node'[k], outcomes'[k], stopped')
  BY <1>1, EnsureKeeps
<1>3. RefType'
  BY <1>1, <1>2 DEF RefType
<1>4. OutcomesTrue' /\ NodesTrue'
  BY <1>2, SameVerdicts
<1>5. AllJudged' /\ CutShort'
  BY <1>3, ReportJudges
<1>6. InOrder'
  BY <1>3, ReportOrdered DEF ReportInv
<1> QED
  BY <1>3, <1>4, <1>5, <1>6 DEF ReportInv, Awaiting

-----------------------------------------------------------------------------
(* The steps of a call.                                                    *)

LEMMA CurrentKey == ReportInv /\ todo # <<>> => Current.key \in Keys
<1> SUFFICES ASSUME ReportInv, todo # <<>> PROVE Current.key \in Keys
  OBVIOUS
<1>1. Current \in Occs
  BY DEF ReportInv, RefType, Current
<1> QED
  BY <1>1 DEF Occs

\* The steps that cut a reference off.
LEMMA CutStep ==
  ASSUME ReportInv, todo # <<>>, world' = world, call' = call, Report(Current, "budget-exhausted"),
         Ensure(Current.key, "budget-exhausted"), stopped' = TRUE, stage' = "ready", outcomes' = outcomes
  PROVE  ReportInv'
<1>1. "budget-exhausted" \in Verdicts /\ RefType /\ OutcomesTrue
  BY DEF Verdicts, ReportInv
<1>2. outcomes' \in [Keys -> Failures \cup {"ok", None}] /\ Stays /\ \A k \in Keys : OutcomeFits(k, outcomes'[k])
  BY <1>1 DEF RefType, Stays, OutcomesTrue
<1>3. CutNow("budget-exhausted") /\ NodeFits(Current.key, "budget-exhausted", outcomes'[Current.key], stopped')
  BY DEF CutNow, NodeFits
<1> QED
  BY <1>1, <1>2, <1>3, ReportStep

\* The steps that judge one, by an outcome that was there or comes in.
LEMMA JudgeStep ==
  ASSUME ReportInv, todo # <<>>, world' = world, call' = call, ~stopped, stopped' = stopped, stage' = "ready",
         NEW outcome \in Failures \cup {"ok"}, OutcomeFits(Current.key, outcome),
         outcomes[Current.key] \in {None, outcome}, outcomes' = [outcomes EXCEPT ![Current.key] = outcome],
         NEW status, status = NodeStatus(Current.key, outcome), Ensure(Current.key, status),
         Report(Current, Verdict(Current, status))
  PROVE  ReportInv'
<1> DEFINE k == Current.key
           verdict == Verdict(Current, status)
<1>1. k \in Keys /\ RefType /\ OutcomesTrue /\ NodesTrue
  BY CurrentKey DEF ReportInv
<1>2. /\ status \in Failures \cup {"resolved"} /\ verdict \in Failures \cup {"resolved"}
      /\ status \in Verdicts /\ verdict \in Verdicts
  BY NodeStatusType, VerdictType DEF Verdicts
<1>3. outcomes'[k] = outcome /\ \A j \in Keys : j # k => outcomes'[j] = outcomes[j]
  BY <1>1 DEF RefType
<1>4. outcomes' \in [Keys -> Failures \cup {"ok", None}] /\ Stays /\ \A j \in Keys : OutcomeFits(j, outcomes'[j])
  BY <1>1, <1>3 DEF RefType, Stays, OutcomesTrue
<1>5. outcome # None
  BY NoneApart
<1>6. JudgedNow(verdict)
  BY <1>2, <1>3, <1>5 DEF JudgedNow
<1>7. NodeFits(k, status, outcomes'[k], stopped')
  BY <1>3, <1>5 DEF NodeFits
<1>8. stopped' \in BOOLEAN /\ (stopped => stopped')
  BY <1>1 DEF RefType
<1> QED
  BY <1>2, <1>4, <1>6, <1>7, <1>8, ReportStep

-----------------------------------------------------------------------------
\* Before the first report, everything asked for is left.
LEMMA StartOrdered == RefType /\ todo = Asked /\ reports = <<>> => InOrder
<1> SUFFICES ASSUME RefType, todo = Asked, reports = <<>> PROVE InOrder
  OBVIOUS
<1>1. Places(reports) = <<>> /\ Added = <<>>
  BY DEF Places, Added
<1>2. Places(Asked) \in Seq(Spots)
  BY AskedType, PlacesType DEF RefType
<1>3. Places(reports) \o Places(todo) = Places(Asked)
  BY <1>1, <1>2
<1>4. FlattenSeq(Added) = <<>>
  BY <1>1, FlattenEmpty
<1>5. Places(Asked) \o FlattenSeq(Added) = Places(Asked)
  BY <1>2, <1>4
<1> QED
  BY <1>3, <1>5 DEF InOrder

LEMMA InitReports == Init => ReportInv
<1> SUFFICES ASSUME Init PROVE ReportInv
  OBVIOUS
<1>1. /\ world \in Worlds /\ call = 1 /\ stage = "ready" /\ todo = Asked /\ reports = <<>> /\ stopped = FALSE
      /\ node = [k \in Keys |-> None] /\ outcomes = [k \in Keys |-> None]
  BY DEF Init, BudgetInit, RefInit
<1>2. call \in DOMAIN world.calls
  <2>1. \A S, s : s \in Seq(S) /\ s # <<>> => 1 \in DOMAIN s
    OBVIOUS
  <2> QED
    BY <1>1, <2>1, ReferencesAssumption, Zenon DEF CallsAssumption
<1>3. RefType
  <2>1. todo \in Seq(Occs) /\ reports \in Seq(Reported)
    BY <1>1, <1>2, AskedType
  <2>2. outcomes \in [Keys -> Failures \cup {"ok", None}] /\ node \in [Keys -> Verdicts \cup {None}]
    BY <1>1
  <2> QED
    BY <1>1, <1>2, <2>1, <2>2 DEF RefType
<1>4. InOrder
  BY <1>1, <1>3, StartOrdered
<1>5. OutcomesTrue /\ NodesTrue /\ AllJudged
  BY <1>1 DEF OutcomesTrue, OutcomeFits, NodesTrue, NodeFits, AllJudged
<1>6. CutShort
  <2>0. DOMAIN reports = {}
    BY <1>1
  <2>1. ~stopped /\ stopped \in BOOLEAN /\ ~(\E i \in DOMAIN reports : CutOff(i))
    BY <1>1, <2>0
  <2>2. stopped = (\E i \in DOMAIN reports : CutOff(i))
    BY <2>1, Zenon
  <2> QED
    BY <2>1, <2>2 DEF CutShort
<1>7. Awaiting
  BY <1>1 DEF Awaiting
<1> QED
  BY <1>1, <1>7, <1>3, <1>4, <1>5, <1>6 DEF ReportInv

\* The layer and the budget are left alone, and so is what was reported.
LEMMA QuietStep ==
  ASSUME ReportInv, UNCHANGED <<world, call, todo, reports, node, outcomes, stopped>>, Awaiting',
         stage' = "over" => todo = <<>>
  PROVE  ReportInv'
<1>1. RefType' /\ CutShort'
  BY DEF ReportInv, RefType, CutShort, CutOff
<1>2. OutcomesTrue' /\ NodesTrue' /\ AllJudged'
  <2>1. OutcomesTrue /\ NodesTrue /\ AllJudged
    BY DEF ReportInv
  <2> QED
    BY <2>1, SameVerdicts, Zenon DEF OutcomesTrue, NodesTrue, AllJudged
<1>3. InOrder'
  <2>1. Asked' = Asked
    BY SameCall
  <2>2. Added' = Added
    BY SameCall DEF Added
  <2>3. Places(reports)' = Places(reports) /\ Places(todo)' = Places(todo) /\ Places(Asked)' = Places(Asked)
        /\ FlattenSeq(Added)' = FlattenSeq(Added)
    BY <2>1, <2>2
  <2>4. InOrder
    BY DEF ReportInv
  <2> QED
    BY <2>3, <2>4 DEF InOrder
<1> QED
  BY <1>1, <1>2, <1>3 DEF ReportInv

LEMMA ReplayedKeeps == ASSUME ReportInv, Replayed PROVE ReportInv'
<1> DEFINE k == Current.key
           outcome == outcomes[k]
           status == IF KnownNode(k) THEN node[k] ELSE NodeStatus(k, outcome)
<1>1. /\ todo # <<>> /\ ~stopped /\ UNCHANGED <<world, call, stage, outcomes, stopped>> /\ stage = "ready"
      /\ KnownNode(k) \/ outcome # None
      /\ Ensure(k, status) /\ Report(Current, Verdict(Current, status))
  BY DEF Replayed, Ready, inputVars
<1>2. k \in Keys /\ RefType /\ OutcomesTrue /\ NodesTrue
  BY <1>1, CurrentKey DEF ReportInv
<1>3. outcomes[k] \in Failures \cup {"ok", None} /\ OutcomeFits(k, outcomes[k]) /\ NodeFits(k, node[k], outcomes[k], stopped)
  BY <1>2 DEF RefType, OutcomesTrue, NodesTrue
<1>4. KnownNode(k) => outcomes[k] # None /\ node[k] = NodeStatus(k, outcomes[k])
  BY <1>1, <1>3 DEF KnownNode, NodeFits
<1>5. outcome \in Failures \cup {"ok"} /\ OutcomeFits(k, outcome) /\ status = NodeStatus(k, outcome)
  BY <1>1, <1>3, <1>4
<1>6. outcomes' = [outcomes EXCEPT ![k] = outcome]
  BY <1>1, <1>2 DEF RefType
<1> HIDE DEF outcome, status
<1>7. outcomes[k] \in {None, outcome}
  BY DEF outcome
<1> QED
  BY <1>1, <1>5, <1>6, <1>7, JudgeStep

\* A fetch that is awaited settles with an outcome that fits.
LEMMA SettlesKeeps ==
  ASSUME ReportInv, stage \in {"await", "met"}, NEW outcome \in Failures \cup {"ok"},
         OutcomeFits(Current.key, outcome), Settles(outcome)
  PROVE  ReportInv'
<1> DEFINE k == Current.key
           status == NodeStatus(k, outcome)
<1>1. /\ stage' = "ready" /\ UNCHANGED <<world, call, stopped>>
      /\ outcomes' = [outcomes EXCEPT ![k] = outcome]
      /\ Ensure(k, status) /\ Report(Current, Verdict(Current, status))
  BY DEF Settles, inputVars
<1>2. todo # <<>> /\ ~stopped /\ outcomes[k] = None
  BY DEF ReportInv, Awaiting
<1> QED
  BY <1>1, <1>2, JudgeStep

LEMMA ArrivesKeeps == ASSUME ReportInv, Arrives PROVE ReportInv'
<1>1. stage = "await" /\ Settles(Outcome(Current.key))
  BY DEF Arrives
<1>2. todo # <<>>
  BY <1>1 DEF ReportInv, Awaiting
<1>3. Outcome(Current.key) \in Failures \cup {"ok"} /\ OutcomeFits(Current.key, Outcome(Current.key))
  BY <1>2, CurrentKey, OutcomeType DEF ReportInv, OutcomeFits
<1> QED
  BY <1>1, <1>3, SettlesKeeps

LEMMA MetBeforeKeeps == ASSUME ReportInv, MetBefore PROVE ReportInv'
<1>1. stage = "met" /\ Settles("invalid")
  BY DEF MetBefore
<1>2. "invalid" \in Failures \cup {"ok"} /\ OutcomeFits(Current.key, "invalid")
  BY DEF Failures, OutcomeFits
<1> QED
  BY <1>1, <1>2, SettlesKeeps

LEMMA NextCallKeeps == ASSUME ReportInv, NextCall PROVE ReportInv'
<1>1. /\ world' = world /\ outcomes' = outcomes /\ call' = call + 1 /\ stage' = "ready" /\ call < Len(world.calls)
      /\ todo' = Asked' /\ reports' = <<>> /\ node' = [k \in Keys |-> None] /\ stopped' = FALSE
  BY DEF NextCall, inputVars
<1>2. world \in Worlds /\ RefType /\ OutcomesTrue
  BY DEF ReportInv, RefType
<1>3. call' \in DOMAIN world'.calls
  <2>1. \A S, s : s \in Seq(S) /\ call \in DOMAIN s /\ call < Len(s) => call + 1 \in DOMAIN s
    OBVIOUS
  <2>2. call \in DOMAIN world.calls
    BY <1>2 DEF RefType
  <2>3. call + 1 \in DOMAIN world.calls
    BY <1>1, <1>2, <2>1, <2>2, ReferencesAssumption, Zenon DEF CallsAssumption
  <2> QED
    BY <1>1, <2>3
<1>4. Asked' \in Seq(Occs)
  <2>1. (world \in Worlds /\ call \in DOMAIN world.calls => Asked \in Seq(Occs))'
    BY AskedType, PTL
  <2> QED
    BY <1>1, <1>2, <1>3, <2>1
<1>5. RefType'
  <2>1. todo' \in Seq(Occs) /\ reports' \in Seq(Reported)
    BY <1>1, <1>4
  <2>2. outcomes' \in [Keys -> Failures \cup {"ok", None}] /\ node' \in [Keys -> Verdicts \cup {None}]
    BY <1>1, <1>2 DEF RefType
  <2> QED
    BY <1>1, <1>2, <1>3, <2>1, <2>2 DEF RefType
<1>6. InOrder'
  <2>1. (RefType /\ todo = Asked /\ reports = <<>> => InOrder)'
    BY StartOrdered, PTL
  <2> QED
    BY <1>1, <1>5, <2>1
<1>7. OutcomesTrue'
  BY <1>1, <1>2, Zenon DEF OutcomesTrue, OutcomeFits, Outcome
<1>8. NodesTrue' /\ AllJudged'
  BY <1>1 DEF NodesTrue, NodeFits, AllJudged
<1>9. CutShort'
  <2>1. DOMAIN reports' = {}
    BY <1>1
  <2>2. ~stopped' /\ stopped' \in BOOLEAN /\ ~(\E i \in DOMAIN reports' : CutOff(i)')
    BY <1>1, <2>1
  <2>3. stopped' = (\E i \in DOMAIN reports' : CutOff(i)')
    BY <2>2, Zenon
  <2> QED
    BY <2>1, <2>3 DEF CutShort
<1>10. Awaiting' /\ stage' # "over"
  BY <1>1 DEF Awaiting
<1> QED
  BY <1>5, <1>6, <1>7, <1>8, <1>9, <1>10 DEF ReportInv

LEMMA ReportNext == ReportInv /\ [Next]_vars => ReportInv'
<1> SUFFICES ASSUME ReportInv, [Next]_vars PROVE ReportInv'
  OBVIOUS
<1>1. CASE UNCHANGED vars \/ (WalkNext /\ UNCHANGED refVars) \/ Signal
  <2>1. UNCHANGED <<world, call, stage, todo, reports, node, outcomes, stopped>>
    BY <1>1 DEF vars, inputVars, refVars, Signal, WalkNext, WalkStep, Abort, ReadRoot, Expand, Edge, NextItem,
      NoMoreItems, HintsDone, ChargeHint, Fetched, FetchStops, TurnPage, PageArrives, PageStops
  <2>2. Awaiting' /\ (stage' = "over" => todo = <<>>)
    BY <2>1 DEF ReportInv, Awaiting, Current
  <2> QED
    BY <2>1, <2>2, QuietStep
<1>2. CASE NotAttempted
  <2>1. /\ todo # <<>> /\ stage' = "ready" /\ stopped' = TRUE /\ UNCHANGED <<world, call, outcomes>>
        /\ Report(Current, "budget-exhausted") /\ Ensure(Current.key, "budget-exhausted")
    BY <1>2 DEF NotAttempted, Ready, inputVars, ReportInv, RefType
  <2> QED
    BY <2>1, CutStep
<1>3. CASE StopsAtOnce
  <2>1. /\ todo # <<>> /\ stage' = "ready" /\ stopped' = TRUE /\ UNCHANGED <<world, call, outcomes>>
        /\ Report(Current, "budget-exhausted") /\ Ensure(Current.key, "budget-exhausted")
    BY <1>3 DEF StopsAtOnce, Ready, inputVars, Partial
  <2> QED
    BY <2>1, CutStep
<1>4. CASE FetchStopped \/ Leaves
  <2>1. /\ stage \in {"await", "met", "refused"} /\ stage' = "ready" /\ stopped' = TRUE
        /\ UNCHANGED <<world, call, outcomes>>
        /\ Report(Current, "budget-exhausted") /\ Ensure(Current.key, "budget-exhausted")
    BY <1>4 DEF FetchStopped, Leaves, inputVars, Partial
  <2>2. todo # <<>>
    BY <2>1 DEF ReportInv, Awaiting
  <2> QED
    BY <2>1, <2>2, CutStep
<1>5. CASE StartFetch
  <2>1. /\ UNCHANGED <<world, call, todo, reports, node, outcomes, stopped>>
        /\ todo # <<>> /\ ~stopped /\ outcomes[Current.key] = None
        /\ stage' \in {"await", "met", "refused"}
    BY <1>5 DEF StartFetch, Ready, inputVars
  <2>2. node[Current.key] = None
    BY <2>1, CurrentKey DEF ReportInv, NodesTrue, NodeFits
  <2>3. Awaiting'
    BY <2>1, <2>2 DEF Awaiting, Current
  <2> QED
    BY <2>1, <2>3, QuietStep
<1>6. CASE Over
  <2>1. /\ UNCHANGED <<world, call, todo, reports, node, outcomes, stopped>> /\ todo = <<>> /\ stage' = "over"
    BY <1>6 DEF Over, inputVars
  <2> QED
    BY <2>1, QuietStep DEF Awaiting
<1> QED
  BY <1>1, <1>2, <1>3, <1>4, <1>5, <1>6, ReplayedKeeps, ArrivesKeeps, MetBeforeKeeps, NextCallKeeps DEF Next, RefNext, RefStep

-----------------------------------------------------------------------------
LEMMA OrderOver == ReportInv => EachReferenceReported
<1> SUFFICES ASSUME ReportInv, stage = "over"
    PROVE  /\ Places(reports) = Places(Asked) \o FlattenSeq(Added)
           /\ stopped = (\E i \in DOMAIN reports : reports[i].status = "budget-exhausted")
           /\ \A i, j \in DOMAIN reports :
                i < j /\ reports[i].status = "budget-exhausted" => reports[j].status = "budget-exhausted"
  BY DEF EachReferenceReported, Added
<1>1. Places(reports) \o Places(todo) = Places(Asked) \o FlattenSeq(Added) /\ todo = <<>>
  BY DEF ReportInv, InOrder
<1>2. Places(reports) \in Seq(Spots)
  BY PlacesType DEF ReportInv, RefType
<1>3. Places(todo) = <<>>
  BY <1>1 DEF Places
<1>4. Places(reports) = Places(Asked) \o FlattenSeq(Added)
  BY <1>1, <1>2, <1>3
<1> QED
  BY <1>4, Zenon DEF ReportInv, CutShort, CutOff

LEMMA OwnVerdicts == ReportInv => OwnVerdict
<1> SUFFICES ASSUME ReportInv, NEW i \in DOMAIN reports
    PROVE  LET r == reports[i]
               target == world.served[r.key]
               right == target.ok /\ target.type = r.declared /\ (Evidence => target.type \in EvidenceTypes)
           IN  /\ r.status = "resolved" => right
               /\ right => \/ r.status \in {"resolved", "budget-exhausted"}
                           \/ r.status = "invalid" /\ outcomes[r.key] # "ok"
               /\ r.status = "not-found" => target.why = "not-found"
  BY DEF OwnVerdict
<1> DEFINE r == reports[i]
           outcome == outcomes[r.key]
<1>1. r \in Reported
  BY DEF ReportInv, RefType
<1>2. r.key \in Keys
  BY <1>1 DEF Reported
<1>3. Judged(r, outcome) /\ OutcomeFits(r.key, outcome)
  BY <1>2 DEF ReportInv, AllJudged, OutcomesTrue
<1>4. /\ world.served[r.key].ok => Outcome(r.key) = "ok"
      /\ ~world.served[r.key].ok => Outcome(r.key) = world.served[r.key].why /\ world.served[r.key].why \in Failures
  BY <1>2, ReferencesAssumption DEF Outcome, ServedAssumption, ReportInv, RefType
<1>5. CASE r.status = "budget-exhausted"
  BY <1>5
<1>6. CASE outcome # None /\ r.status = Verdict(r, NodeStatus(r.key, outcome))
  <2>1. outcome \in {"invalid", Outcome(r.key)}
    BY <1>3, <1>6 DEF OutcomeFits
  <2> HIDE DEF r, outcome
  <2>2. CASE outcome = "invalid"
    <3>1. NodeStatus(r.key, outcome) = "invalid"
      BY <2>2, NodeStatusIs
    <3>2. r.status = "invalid"
      BY <1>6, <3>1 DEF Verdict
    <3> QED
      BY <2>2, <3>2 DEF r, outcome
  <2>3. CASE outcome = "ok" /\ outcome = Outcome(r.key)
    <3>1. world.served[r.key].ok
      BY <1>4, <2>3 DEF Failures
    <3>2. r.status = IF Evidence /\ world.served[r.key].type \notin EvidenceTypes THEN "invalid"
                     ELSE IF world.served[r.key].type # r.declared THEN "invalid" ELSE "resolved"
      BY <1>6, <2>3, NodeStatusIs DEF Verdict
    <3> QED
      BY <3>1, <3>2 DEF r
  <2>4. CASE outcome # "invalid" /\ outcome # "ok" /\ outcome = Outcome(r.key)
    <3>1. ~world.served[r.key].ok /\ outcome = world.served[r.key].why /\ outcome \in Failures
      BY <1>4, <2>4
    <3>2. NodeStatus(r.key, outcome) \in Failures /\ (NodeStatus(r.key, outcome) = "not-found" => outcome = "not-found")
      BY <3>1, NodeStatusIs DEF Failures
    <3>3. r.status = NodeStatus(r.key, outcome)
      BY <1>6, <3>2 DEF Verdict, Failures
    <3> QED
      BY <3>1, <3>2, <3>3 DEF r, Failures
  <2> QED
    BY <2>1, <2>2, <2>3, <2>4
<1> QED
  BY <1>3, <1>5, <1>6 DEF Judged

\* Every reference of a call is reported in its place and with a verdict that is
\* true of it, whoever fetched its target, and what was cut off is told.
THEOREM ReportsTrueAlways == Spec => []ReportsTrue
<1>1. ReportInv => ReportsTrue
  BY OrderOver, OwnVerdicts DEF ReportsTrue
<1> QED
  BY <1>1, InitReports, ReportNext, PTL DEF Spec

-----------------------------------------------------------------------------
(***************************************************************************)
(* One edge for each place.  The frames are entities of their own, each    *)
(* with the items that are handled and what the last one found; while an   *)
(* item is gathered its edges are still to come, and what it has found so  *)
(* far stands at places that were consumed.                                *)
(***************************************************************************)
Gathering == at \in {"hint", "fetch", "page", "paging"}

Founds == [key : Keys, fetched : BOOLEAN]
Frames == [key : Keys, depth : Nat, item : Nat, found : Seq(Founds)]
Edges == [from : Keys, item : Nat, to : Keys, depth : Nat]
Codes == {"budget", "aborted", "cycle", "invalid", "unresolvable"} \cup STRING
Issues == [code : Codes, key : Keys]

WalkType ==
  /\ world \in Worlds
  /\ frames \in Seq(Frames) /\ hints \in Seq(Keys) /\ cursor \in Nat /\ seenCursors \subseteq Nat
  /\ edges \in Seq(Edges) /\ issues \in Seq(Issues)
  /\ partial \in BOOLEAN /\ expandedTargets \subseteq Keys
  /\ at = "expand" => entering \in [key : Keys, depth : Nat]
  /\ Gathering \/ at = "edge" => frames # <<>>
  /\ at \in {"root", "done"} => frames = <<>>

\* An entity has one frame, and no more items than it has.
FrameOpen(f, walked) ==
  /\ f.key \in walked /\ f.item <= Len(ItemsOf(f.key))
  /\ f.found # <<>> => f.item >= 1
OpenFrames ==
  /\ \A i \in DOMAIN frames : FrameOpen(frames[i], Walked)
  /\ \A i, j \in DOMAIN frames : frames[i].key = frames[j].key => i = j

\* The list that is read, and the hints that are left of it.
Part == IF seenCursors = {} THEN 1 ELSE cursor + 2
ListNow == Lists(Item)[Part]
Gathers ==
  Gathering =>
    /\ Frame.item >= 1
    /\ seenCursors = {} => cursor = 0
    /\ seenCursors # {} => Item.cardinality = "collection" /\ cursor \in seenCursors
    /\ at \in {"page", "paging"} => hints = <<>> /\ Item.cardinality = "collection"
    /\ at = "paging" => seenCursors # {}
    /\ at = "fetch" => hints # <<>>
    /\ Part \in DOMAIN Lists(Item)
    /\ Len(hints) <= Len(ListNow)
    /\ \A n \in DOMAIN hints : hints[n] = ListNow[Len(ListNow) - Len(hints) + n]

\* What was found stands at a place of a list that was read so far.
Consumed(p, m) ==
  /\ p = 1 \/ p - 2 \in seenCursors
  /\ p = Part => at # "paging" /\ m <= Len(ListNow) - Len(hints)
StandsAt(item, t, p, m) == p \in DOMAIN Lists(item) /\ m \in DOMAIN Lists(item)[p] /\ Lists(item)[p][m] = t
PlacedAt(t) == \E p, m \in Nat : StandsAt(Item, t, p, m) /\ Consumed(p, m)
Placed == Gathering => \A n \in DOMAIN Frame.found : PlacedAt(Frame.found[n].key)

\* Edges are of entities that were expanded, and of items before the one at hand.
Twice(k, i, t) == ListedTwice(ItemsOf(k)[i], t)
EdgeBelow(e, f, open) == e.from = f.key => e.item <= f.item /\ (open => e.item < f.item)
EdgesBelow ==
  /\ \A n \in DOMAIN edges : edges[n].from \in expandedTargets /\ edges[n].item >= 1
  /\ \A n \in DOMAIN edges : \A f \in DOMAIN frames :
       EdgeBelow(edges[n], frames[f], f = Len(frames) /\ Gathering)

\* A target is found once, and before it has its edge.
FoundOnceIn(f) ==
  \A m, n \in DOMAIN f.found :
    f.found[m].key = f.found[n].key => m = n \/ Twice(f.key, f.item, f.found[m].key)
FoundNewIn(f, e) ==
  \A n \in DOMAIN f.found :
    e.from = f.key /\ e.item = f.item /\ e.to = f.found[n].key => Twice(f.key, f.item, e.to)
FoundOnce == \A i \in DOMAIN frames : FoundOnceIn(frames[i])
FoundNew == \A i \in DOMAIN frames : \A n \in DOMAIN edges : FoundNewIn(frames[i], edges[n])

OnceInv ==
  /\ WalkType /\ OpenFrames /\ Gathers /\ Placed
  /\ EdgesBelow /\ FoundOnce /\ FoundNew /\ OneEdgeEach

-----------------------------------------------------------------------------
(* The stack of frames.                                                    *)

LEMMA TopFrame ==
  ASSUME WalkType, frames # <<>>
  PROVE  /\ Len(frames) \in Nat /\ Len(frames) >= 1 /\ DOMAIN frames = 1 .. Len(frames)
         /\ Frame = frames[Len(frames)] /\ Frame \in Frames /\ Len(frames) \in DOMAIN frames
BY DEF WalkType, Frame, Last

LEMMA Amended ==
  ASSUME WalkType, frames # <<>>, NEW f \in Frames, Amend(f)
  PROVE  /\ frames' \in Seq(Frames) /\ Len(frames') = Len(frames) /\ frames' # <<>>
         /\ DOMAIN frames' = DOMAIN frames
         /\ \A i \in DOMAIN frames : frames'[i] = IF i = Len(frames) THEN f ELSE frames[i]
         /\ Frame' = f
<1>1. frames \in Seq(Frames) /\ Len(frames) \in Nat /\ Len(frames) >= 1 /\ DOMAIN frames = 1 .. Len(frames)
  BY TopFrame DEF WalkType
<1>2. PICK front : front = Front(frames)
  OBVIOUS
<1>3. /\ front \in Seq(Frames) /\ Len(front) = Len(frames) - 1
      /\ \A i \in 1 .. (Len(frames) - 1) : front[i] = frames[i]
  BY <1>1, <1>2 DEF Front
<1>4. frames' = Append(front, f)
  BY <1>2 DEF Amend
<1>5. /\ frames' \in Seq(Frames) /\ Len(frames') = Len(front) + 1
      /\ \A i \in 1 .. (Len(front) + 1) : frames'[i] = IF i = Len(front) + 1 THEN f ELSE front[i]
  <2> HIDE DEF Frames
  <2> QED
    BY <1>3, <1>4, AppendProperties
<1>9. Len(front) + 1 = Len(frames)
  BY <1>1, <1>3
<1>6. \A i \in DOMAIN frames : frames'[i] = IF i = Len(frames) THEN f ELSE frames[i]
  <2>1. SUFFICES ASSUME NEW i \in 1 .. Len(frames) PROVE frames'[i] = IF i = Len(frames) THEN f ELSE frames[i]
    BY <1>1
  <2>2. frames'[i] = IF i = Len(frames) THEN f ELSE front[i]
    BY <1>5, <1>9
  <2>3. i # Len(frames) => i \in 1 .. (Len(frames) - 1)
    <3>1. \A n \in Nat : \A j \in 1 .. n : j # n => j \in 1 .. (n - 1)
      OBVIOUS
    <3> QED
      BY <1>1, <3>1, Zenon
  <2> QED
    BY <1>3, <2>2, <2>3
<1>7. Len(frames') = Len(frames) /\ DOMAIN frames' = DOMAIN frames /\ frames' # <<>>
  <2>1. Len(frames') = Len(frames)
    BY <1>5, <1>9
  <2>2. DOMAIN frames' = 1 .. Len(frames')
    BY <1>5
  <2> QED
    BY <1>1, <2>1, <2>2
<1>8. Frame' = f
  BY <1>1, <1>5, <1>6, <1>7 DEF Frame, Last
<1> QED
  BY <1>5, <1>6, <1>7, <1>8

LEMMA Popped ==
  ASSUME WalkType, frames # <<>>, Leave(Front(frames))
  PROVE  /\ frames' \in Seq(Frames) /\ Len(frames') = Len(frames) - 1
         /\ DOMAIN frames' = 1 .. (Len(frames) - 1)
         /\ \A i \in 1 .. (Len(frames) - 1) : frames'[i] = frames[i]
         /\ at' \in {"done", "edge"} /\ (at' = "done" <=> frames' = <<>>)
<1>1. frames \in Seq(Frames) /\ Len(frames) \in Nat /\ Len(frames) >= 1
  BY TopFrame DEF WalkType
<1>2. frames' = Front(frames) /\ at' = IF frames' = <<>> THEN "done" ELSE "edge"
  BY DEF Leave, Resume
<1>3. PICK n : n = Len(frames) - 1
  OBVIOUS
<1>5. n \in 0 .. Len(frames) /\ frames' = SubSeq(frames, 1, n)
  BY <1>1, <1>2, <1>3 DEF Front
<1>6. /\ frames' \in Seq(Frames) /\ Len(frames') = n /\ \A i \in 1 .. n : frames'[i] = frames[i]
  BY <1>1, <1>5
<1> QED
  BY <1>1, <1>2, <1>3, <1>6

LEMMA Pushed ==
  ASSUME WalkType, NEW f \in Frames, frames' = Append(frames, f)
  PROVE  /\ frames' \in Seq(Frames) /\ Len(frames') = Len(frames) + 1 /\ Len(frames) \in Nat
         /\ DOMAIN frames' = 1 .. (Len(frames) + 1) /\ DOMAIN frames = 1 .. Len(frames)
         /\ \A i \in 1 .. Len(frames) : frames'[i] = frames[i]
         /\ frames'[Len(frames) + 1] = f /\ frames' # <<>>
<1>1. frames \in Seq(Frames) /\ Len(frames) \in Nat /\ DOMAIN frames = 1 .. Len(frames)
  BY DEF WalkType
<1>2. /\ frames' \in Seq(Frames) /\ Len(frames') = Len(frames) + 1
      /\ \A i \in 1 .. (Len(frames) + 1) : frames'[i] = IF i = Len(frames) + 1 THEN f ELSE frames[i]
  BY <1>1, AppendProperties
<1> QED
  BY <1>1, <1>2

-----------------------------------------------------------------------------
(* What a publisher lists does not change.                                 *)

LEMMA SameLists ==
  ASSUME world' = world
  PROVE  /\ FoundOnce' = (\A i \in DOMAIN frames' : FoundOnceIn(frames'[i]))
         /\ FoundNew' = (\A i \in DOMAIN frames' : \A n \in DOMAIN edges' : FoundNewIn(frames'[i], edges'[n]))
         /\ OpenFrames' = (/\ \A i \in DOMAIN frames' : FrameOpen(frames'[i], Walked')
                           /\ \A i, j \in DOMAIN frames' : frames'[i].key = frames'[j].key => i = j)
         /\ OneEdgeEach' = (\A m, n \in DOMAIN edges' :
                              edges'[m] = edges'[n] => m = n \/ Twice(edges'[m].from, edges'[m].item, edges'[m].to))
         /\ OneEdgeEach = (\A m, n \in DOMAIN edges :
                             edges[m] = edges[n] => m = n \/ Twice(edges[m].from, edges[m].item, edges[m].to))
<1>1. FoundOnce' = (\A i \in DOMAIN frames' : FoundOnceIn(frames'[i]))
  BY Zenon DEF FoundOnce, FoundOnceIn, Twice, ItemsOf
<1>2. FoundNew' = (\A i \in DOMAIN frames' : \A n \in DOMAIN edges' : FoundNewIn(frames'[i], edges'[n]))
  BY Zenon DEF FoundNew, FoundNewIn, Twice, ItemsOf
<1>3. OneEdgeEach' = (\A m, n \in DOMAIN edges' :
                        edges'[m] = edges'[n] => m = n \/ Twice(edges'[m].from, edges'[m].item, edges'[m].to))
  BY Zenon DEF OneEdgeEach, Twice, ItemsOf
<1>4. OneEdgeEach = (\A m, n \in DOMAIN edges :
                       edges[m] = edges[n] => m = n \/ Twice(edges[m].from, edges[m].item, edges[m].to))
  BY Zenon DEF OneEdgeEach, Twice
<1>5. OpenFrames' = (/\ \A i \in DOMAIN frames' : FrameOpen(frames'[i], Walked')
                     /\ \A i, j \in DOMAIN frames' : frames'[i].key = frames'[j].key => i = j)
  BY Zenon DEF OpenFrames, FrameOpen, ItemsOf
<1> QED
  BY <1>1, <1>2, <1>3, <1>4, <1>5

LEMMA ItemType ==
  ASSUME WalkType, NEW k \in Walked
  PROVE  /\ ItemsOf(k) \in Seq(Items)
         /\ \A i \in DOMAIN ItemsOf(k) :
              LET item == ItemsOf(k)[i]
              IN  /\ item \in Items
                  /\ item.cardinality = "collection" =>
                       /\ item.targets = <<>> /\ item.pages # <<>>
                       /\ \A p \in DOMAIN item.pages : item.pages[p].next < Len(item.pages)
<1>1. k \in Keys /\ world.relations[k].valid
  BY DEF WalkType, Walked
<1>2. ItemsOf(k) \in Seq(Items)
  BY <1>1, RelationsAssumption DEF WalkType, ItemsOf
<1> QED
  BY <1>1, <1>2, RelationsAssumption DEF WalkType, ItemsOf

Pages == [targets : Seq(Keys), fault : STRING, next : Nat]

Leads(whole, first, rest) == whole = <<first>> \o rest
Led(S, whole, first, rest) ==
  /\ whole \in Seq(S) /\ Len(whole) = Len(rest) + 1 /\ whole[1] = first
  /\ \A p \in 1 .. Len(rest) : whole[p + 1] = rest[p]
LEMMA LeadsAt ==
  ASSUME NEW S, NEW whole, NEW first \in S, NEW rest \in Seq(S), Leads(whole, first, rest)
  PROVE  Led(S, whole, first, rest)
BY DEF Leads, Led

LEMMA ListsType ==
  ASSUME NEW item \in Items
  PROVE  /\ Lists(item) \in Seq(Seq(Keys)) /\ Len(Lists(item)) = Len(item.pages) + 1 /\ Len(item.pages) \in Nat
         /\ DOMAIN Lists(item) = 1 .. (Len(item.pages) + 1)
         /\ Lists(item)[1] = item.targets
         /\ \A p \in 1 .. Len(item.pages) : Lists(item)[p + 1] = item.pages[p].targets
<1>1. item.targets \in Seq(Keys) /\ item.pages \in Seq(Pages)
  BY DEF Items, Pages
<1>2. PICK rest : rest = [p \in DOMAIN item.pages |-> item.pages[p].targets]
  OBVIOUS
<1>3. \A p \in DOMAIN item.pages : item.pages[p].targets \in Seq(Keys)
  <2>1. SUFFICES ASSUME NEW p \in DOMAIN item.pages PROVE item.pages[p].targets \in Seq(Keys)
    OBVIOUS
  <2>2. item.pages[p] \in Pages
    BY <1>1
  <2> QED
    BY <2>2 DEF Pages
<1>4. /\ rest \in Seq(Seq(Keys)) /\ Len(rest) = Len(item.pages) /\ Len(item.pages) \in Nat
      /\ \A p \in 1 .. Len(item.pages) : rest[p] = item.pages[p].targets
  <2>1. DOMAIN item.pages = 1 .. Len(item.pages) /\ Len(item.pages) \in Nat
    BY <1>1
  <2> HIDE DEF Pages
  <2> QED
    BY <1>2, <1>3, <2>1
<1>5. Leads(Lists(item), item.targets, rest)
  BY <1>2 DEF Lists, Leads
<1>6. /\ Lists(item) \in Seq(Seq(Keys)) /\ Len(Lists(item)) = Len(rest) + 1 /\ Lists(item)[1] = item.targets
      /\ \A p \in 1 .. Len(rest) : Lists(item)[p + 1] = rest[p]
  <2>1. rest \in Seq(Seq(Keys)) /\ item.targets \in Seq(Keys)
    BY <1>1, <1>4
  <2>2. Led(Seq(Keys), Lists(item), item.targets, rest)
    BY <1>5, <2>1, LeadsAt, Zenon
  <2> QED
    BY <2>2, Zenon DEF Led
<1> QED
  BY <1>4, <1>6

-----------------------------------------------------------------------------
(* Kinds of steps.                                                         *)

\* Nothing is gathered any more, and some frames may be left.
LEMMA SettleStep ==
  ASSUME OnceInv, world' = world, edges' = edges, expandedTargets \subseteq expandedTargets', WalkType', ~Gathering',
         \A i \in DOMAIN frames' : i \in DOMAIN frames /\ frames'[i] = frames[i]
  PROVE  OnceInv'
<1>2. Walked \subseteq Walked'
  BY DEF Walked
<1>3. OpenFrames'
  BY <1>2, SameLists DEF OnceInv, OpenFrames, FrameOpen
<1>4. Gathers' /\ Placed'
  BY DEF Gathers, Placed
<1>5. EdgesBelow'
  BY DEF OnceInv, EdgesBelow, EdgeBelow
<1>6. FoundOnce' /\ FoundNew' /\ OneEdgeEach'
  BY SameLists DEF OnceInv, FoundOnce, FoundNew
<1> QED
  BY <1>3, <1>4, <1>5, <1>6 DEF OnceInv

\* An entity that was never expanded gets its frame, before its first item.
LEMMA PushStep ==
  ASSUME OnceInv, world' = world, edges' = edges, NEW k \in Keys, k \notin expandedTargets,
         expandedTargets' = expandedTargets \cup {k}, world.relations[k].valid, WalkType', at' = "edge",
         NEW f \in Frames, f.key = k, f.item = 0, f.found = <<>>, frames' = Append(frames, f)
  PROVE  OnceInv'
<1>0. WalkType /\ OpenFrames /\ EdgesBelow /\ FoundOnce /\ FoundNew
  BY DEF OnceInv
<1>1. /\ DOMAIN frames' = 1 .. (Len(frames) + 1) /\ DOMAIN frames = 1 .. Len(frames) /\ Len(frames) \in Nat
      /\ \A i \in DOMAIN frames : frames'[i] = frames[i]
      /\ \A i \in DOMAIN frames' : i \notin DOMAIN frames => frames'[i] = f
      /\ \A i, j \in DOMAIN frames' : i \notin DOMAIN frames /\ j \notin DOMAIN frames => i = j
  BY <1>0, Pushed
<1>2. Walked \subseteq Walked' /\ k \in Walked'
  BY DEF Walked
<1>3. \A i \in DOMAIN frames : frames[i].key # k
  BY <1>0 DEF OpenFrames, FrameOpen, Walked
<1>4. OpenFrames'
  <2>1. ASSUME NEW i \in DOMAIN frames' PROVE FrameOpen(frames'[i], Walked')
    <3>1. CASE i \in DOMAIN frames
      BY <1>0, <1>1, <1>2, <3>1 DEF OpenFrames, FrameOpen
    <3>2. CASE i \notin DOMAIN frames
      <4>1. ItemsOf(k) \in Seq(Items)
        <5>1. k \in Keys /\ world \in Worlds
          BY <1>0 DEF WalkType
        <5> QED
          BY <5>1, RelationsAssumption DEF ItemsOf
      <4>2. 0 <= Len(ItemsOf(k))
        BY <4>1
      <4> QED
        BY <1>1, <1>2, <3>2, <4>2 DEF FrameOpen
    <3> QED
      BY <3>1, <3>2
  <2>2. ASSUME NEW i \in DOMAIN frames', NEW j \in DOMAIN frames', frames'[i].key = frames'[j].key PROVE i = j
    BY <1>0, <1>1, <1>3, <2>2 DEF OpenFrames
  <2> QED
    BY <2>1, <2>2, SameLists
<1>5. Gathers' /\ Placed' /\ ~Gathering'
  BY DEF Gathers, Placed, Gathering
<1>6. EdgesBelow'
  BY <1>0, <1>1, <1>5 DEF EdgesBelow, EdgeBelow
<1>7. FoundOnceIn(f) /\ \A e : FoundNewIn(f, e)
  BY DEF FoundOnceIn, FoundNewIn
<1>8. FoundOnce' /\ FoundNew' /\ OneEdgeEach'
  BY <1>0, <1>1, <1>7, SameLists DEF OnceInv, FoundOnce, FoundNew
<1> QED
  BY <1>4, <1>5, <1>6, <1>8 DEF OnceInv

\* The frame on top goes on to its next item.
LEMMA ItemStep ==
  ASSUME OnceInv, world' = world, edges' = edges, expandedTargets' = expandedTargets, WalkType', frames # <<>>,
         Frame.found = <<>>, Frame.item < Len(ItemsOf(Frame.key)),
         NEW f \in Frames, f.key = Frame.key, f.item = Frame.item + 1, f.found = <<>>,
         Amend(f), Gathers', Placed'
  PROVE  OnceInv'
<1>0. WalkType /\ OpenFrames /\ EdgesBelow /\ FoundOnce /\ FoundNew
  BY DEF OnceInv
<1> DEFINE top == Len(frames)
<1>1. /\ DOMAIN frames' = DOMAIN frames /\ top \in DOMAIN frames /\ Len(frames') = top
      /\ \A i \in DOMAIN frames : frames'[i] = IF i = top THEN f ELSE frames[i]
      /\ frames[top] = Frame /\ Frame \in Frames
  BY <1>0, Amended, TopFrame
<1>2. Walked' = Walked
  BY DEF Walked
<1>3. OpenFrames'
  <2>1. Frame.key \in Walked /\ Len(ItemsOf(Frame.key)) \in Nat /\ Frame.item \in Nat
    <3>1. Frame.key \in Walked /\ Frame.item \in Nat
      BY <1>0, <1>1 DEF OpenFrames, FrameOpen, Frames
    <3>2. ItemsOf(Frame.key) \in Seq(Items)
      BY <1>0, <3>1, ItemType
    <3> QED
      BY <3>1, <3>2
  <2>2. FrameOpen(f, Walked)
    BY <2>1 DEF FrameOpen
  <2>5. ASSUME NEW i \in DOMAIN frames' PROVE FrameOpen(frames'[i], Walked')
    BY <1>0, <1>1, <1>2, <2>2 DEF OpenFrames
  <2>6. \A i, j \in DOMAIN frames' : frames'[i].key = frames'[j].key => i = j
    BY <1>0, <1>1 DEF OpenFrames
  <2> QED
    BY <2>5, <2>6, SameLists
<1>4. EdgesBelow'
  <2>1. ASSUME NEW n \in DOMAIN edges, NEW i \in DOMAIN frames, NEW open \in BOOLEAN, open => i = top
        PROVE  EdgeBelow(edges[n], frames'[i], open)
    <3>1. EdgeBelow(edges[n], frames[i], FALSE) /\ edges[n].item \in Nat /\ Frame.item \in Nat
      <4>1. edges[n] \in Edges
        BY <1>0 DEF WalkType
      <4> QED
        BY <1>0, <1>1, <4>1 DEF EdgesBelow, EdgeBelow, Edges, Frames
    <3> QED
      BY <1>1, <2>1, <3>1 DEF EdgeBelow
  <2>2. \A n \in DOMAIN edges : edges[n].from \in expandedTargets' /\ edges[n].item >= 1
    BY <1>0 DEF EdgesBelow
  <2>3. \A n \in DOMAIN edges' : \A i \in DOMAIN frames' : EdgeBelow(edges'[n], frames'[i], i = Len(frames') /\ Gathering')
    BY <1>1, <2>1
  <2> QED
    BY <2>2, <2>3 DEF EdgesBelow, EdgeBelow
<1>5. FoundOnceIn(f) /\ \A e : FoundNewIn(f, e)
  BY DEF FoundOnceIn, FoundNewIn
<1>6. FoundOnce' /\ FoundNew' /\ OneEdgeEach'
  BY <1>0, <1>1, <1>5, SameLists DEF OnceInv, FoundOnce, FoundNew
<1> QED
  BY <1>3, <1>4, <1>6 DEF OnceInv

\* The frame on top gathers; its edges are still to come.
LEMMA GatherStep ==
  ASSUME OnceInv, world' = world, edges' = edges, expandedTargets' = expandedTargets, WalkType', Gathering, Gathering',
         NEW f \in Frames, f.key = Frame.key, f.item = Frame.item, FoundOnceIn(f),
         DOMAIN frames' = DOMAIN frames, Len(frames') = Len(frames),
         \A i \in DOMAIN frames : frames'[i] = IF i = Len(frames) THEN f ELSE frames[i],
         Gathers', Placed'
  PROVE  OnceInv'
<1>0. WalkType /\ OpenFrames /\ EdgesBelow /\ FoundOnce /\ FoundNew /\ Gathers
  BY DEF OnceInv
<1> DEFINE top == Len(frames)
<1>1. /\ frames # <<>> /\ top \in DOMAIN frames /\ frames[top] = Frame /\ Frame \in Frames
  BY <1>0, TopFrame DEF WalkType
<1>2. Walked' = Walked
  BY DEF Walked
<1>3. OpenFrames'
  <2>1. Frame.item >= 1
    BY <1>0 DEF Gathers
  <2>2. ASSUME NEW i \in DOMAIN frames' PROVE FrameOpen(frames'[i], Walked')
    BY <1>0, <1>1, <1>2, <2>1 DEF OpenFrames, FrameOpen
  <2>3. \A i, j \in DOMAIN frames' : frames'[i].key = frames'[j].key => i = j
    BY <1>0, <1>1 DEF OpenFrames
  <2> QED
    BY <2>2, <2>3, SameLists
<1>4. EdgesBelow'
  BY <1>0, <1>1 DEF EdgesBelow, EdgeBelow
<1>5. ASSUME NEW n \in DOMAIN edges PROVE FoundNewIn(f, edges[n])
  <2>1. edges[n].from = Frame.key => edges[n].item < Frame.item
    BY <1>0, <1>1 DEF EdgesBelow, EdgeBelow
  <2>2. edges[n].item \in Nat /\ Frame.item \in Nat
    <3>1. edges[n] \in Edges
      BY <1>0 DEF WalkType
    <3> QED
      BY <1>1, <3>1 DEF Edges, Frames
  <2> QED
    BY <2>1, <2>2 DEF FoundNewIn
<1>6. FoundOnce' /\ FoundNew' /\ OneEdgeEach'
  BY <1>0, <1>1, <1>5, SameLists DEF OnceInv, FoundOnce, FoundNew
<1> QED
  BY <1>3, <1>4, <1>6 DEF OnceInv

\* The first target that was found gets its edge.
LEMMA EdgeMakes ==
  ASSUME WalkType, frames # <<>>, Edge
  PROVE  \E f \in Frames, e \in Edges :
           /\ f.key = Frame.key /\ f.item = Frame.item /\ f.found = Tail(Frame.found) /\ Amend(f)
           /\ e.from = Frame.key /\ e.item = Frame.item /\ e.to = Head(Frame.found).key /\ edges' \in Seq(Edges)
           /\ \A n \in DOMAIN edges : n \in DOMAIN edges' /\ edges'[n] = edges[n]
           /\ \E n \in DOMAIN edges' : edges'[n] = e
           /\ \A n \in DOMAIN edges' : n \notin DOMAIN edges => edges'[n] = e
           /\ \A m, n \in DOMAIN edges' : m \notin DOMAIN edges /\ n \notin DOMAIN edges => m = n
<1>1. Frame \in Frames /\ Frame.found \in Seq(Founds) /\ Frame.found # <<>>
  BY TopFrame DEF Frames, Edge
<1>2. PICK f : f = [Frame EXCEPT !.found = Tail(@)]
  OBVIOUS
<1>3. f \in Frames /\ f.key = Frame.key /\ f.item = Frame.item /\ f.found = Tail(Frame.found)
  <2>1. Tail(Frame.found) \in Seq(Founds)
    BY <1>1
  <2> QED
    BY <1>1, <1>2, <2>1 DEF Frames
<1>4. Amend(f)
  BY <1>2 DEF Edge
<1>5. PICK e : e = [from |-> Frame.key, item |-> Frame.item, to |-> Head(Frame.found).key, depth |-> Frame.depth + 1]
  OBVIOUS
<1>6. e \in Edges /\ e.from = Frame.key /\ e.item = Frame.item /\ e.to = Head(Frame.found).key
  <2>1. Head(Frame.found) \in Founds
    BY <1>1
  <2>2. Head(Frame.found).key \in Keys
    BY <2>1 DEF Founds
  <2> QED
    BY <1>1, <1>5, <2>2 DEF Edges, Frames
<1>7. edges' = Append(edges, e)
  BY <1>5 DEF Edge
<1>8. edges \in Seq(Edges) /\ Len(edges) \in Nat /\ DOMAIN edges = 1 .. Len(edges)
  BY DEF WalkType
<1>9. /\ edges' \in Seq(Edges) /\ DOMAIN edges' = 1 .. (Len(edges) + 1)
      /\ \A i \in 1 .. (Len(edges) + 1) : edges'[i] = IF i = Len(edges) + 1 THEN e ELSE edges[i]
  BY <1>6, <1>7, <1>8, AppendProperties
<1>10. /\ \A n \in DOMAIN edges : n \in DOMAIN edges' /\ edges'[n] = edges[n]
       /\ Len(edges) + 1 \in DOMAIN edges' /\ edges'[Len(edges) + 1] = e
       /\ \A n \in DOMAIN edges' : n \notin DOMAIN edges => n = Len(edges) + 1
  BY <1>8, <1>9
<1> QED
  BY <1>3, <1>4, <1>6, <1>9, <1>10

LEMMA EdgeStep ==
  ASSUME OnceInv, at = "edge", Edge, WalkType'
  PROVE  OnceInv'
<1> DEFINE top == Len(frames)
           target == Head(Frame.found)
<1>0. WalkType /\ OpenFrames /\ EdgesBelow /\ FoundOnce /\ FoundNew /\ OneEdgeEach /\ frames # <<>>
  BY DEF OnceInv, WalkType
<1>1. /\ world' = world /\ expandedTargets' = expandedTargets /\ at' \in {"edge", "expand"} /\ Frame.found # <<>>
  BY DEF Edge, inputVars, budgetVars
<1>2. /\ top \in DOMAIN frames /\ frames[top] = Frame /\ Frame \in Frames /\ Frame.found \in Seq(Founds)
  BY <1>0, TopFrame DEF Frames
<1>3. PICK f \in Frames, e \in Edges :
        /\ f.key = Frame.key /\ f.item = Frame.item /\ f.found = Tail(Frame.found) /\ Amend(f)
        /\ e.from = Frame.key /\ e.item = Frame.item /\ e.to = target.key
        /\ \A n \in DOMAIN edges : n \in DOMAIN edges' /\ edges'[n] = edges[n]
        /\ \A n \in DOMAIN edges' : n \notin DOMAIN edges => edges'[n] = e
        /\ \A m, n \in DOMAIN edges' : m \notin DOMAIN edges /\ n \notin DOMAIN edges => m = n
  BY <1>0, EdgeMakes
<1>5. /\ DOMAIN frames' = DOMAIN frames /\ Len(frames') = top
      /\ \A i \in DOMAIN frames : frames'[i] = IF i = top THEN f ELSE frames[i]
  BY <1>0, <1>3, Amended
<1>4. /\ e.from = Frame.key /\ e.item = Frame.item /\ e.to = target.key
      /\ f.key = Frame.key /\ f.item = Frame.item /\ f.found = Tail(Frame.found)
  BY <1>3
<1>6. /\ DOMAIN edges \subseteq DOMAIN edges' /\ \A n \in DOMAIN edges : edges'[n] = edges[n]
      /\ \A n \in DOMAIN edges' : n \notin DOMAIN edges => edges'[n] = e
      /\ \A m, n \in DOMAIN edges' : m \notin DOMAIN edges /\ n \notin DOMAIN edges => m = n
  BY <1>3
<1>7. \A n \in DOMAIN f.found : /\ n + 1 \in DOMAIN Frame.found /\ n + 1 # 1
                               /\ f.found[n] = Frame.found[n + 1]
  BY <1>1, <1>2, <1>3
<1>8. 1 \in DOMAIN Frame.found /\ Frame.found[1] = target
  BY <1>1, <1>2
<1>9. Walked' = Walked
  BY <1>1 DEF Walked
<1>10. OpenFrames'
  <2>1. FrameOpen(Frame, Walked)
    BY <1>0, <1>2 DEF OpenFrames
  <2>2. FrameOpen(f, Walked)
    BY <1>1, <1>3, <2>1 DEF FrameOpen
  <2>3. \A i \in DOMAIN frames' : FrameOpen(frames'[i], Walked')
    BY <1>0, <1>5, <1>9, <2>2 DEF OpenFrames
  <2>4. \A i, j \in DOMAIN frames' : frames'[i].key = frames'[j].key => i = j
    BY <1>0, <1>2, <1>3, <1>5 DEF OpenFrames
  <2> QED
    BY <1>1, <2>3, <2>4, SameLists
<1>11. Gathers' /\ Placed' /\ ~Gathering'
  BY <1>1 DEF Gathers, Placed, Gathering
<1>12. EdgesBelow'
  <2>1. Frame.key \in Walked /\ Frame.item >= 1 /\ Frame.item \in Nat
    BY <1>0, <1>1, <1>2 DEF OpenFrames, FrameOpen, Frames
  <2>2. \A n \in DOMAIN edges' : edges'[n].from \in expandedTargets' /\ edges'[n].item >= 1
    BY <1>0, <1>1, <1>4, <1>6, <2>1 DEF EdgesBelow, Walked
  <2>3. ASSUME NEW n \in DOMAIN edges', NEW i \in DOMAIN frames' PROVE EdgeBelow(edges'[n], frames'[i], FALSE)
    <3>1. EdgeBelow(e, frames[i], FALSE)
      <4>1. frames[i].key = Frame.key => i = top
        BY <1>0, <1>2, <1>5 DEF OpenFrames
      <4>2. e.from = frames[i].key => e.item <= frames[i].item
        BY <1>2, <1>4, <2>1, <4>1
      <4> QED
        BY <4>2 DEF EdgeBelow
    <3>2. n \in DOMAIN edges => EdgeBelow(edges[n], frames[i], FALSE)
      BY <1>0, <1>5 DEF EdgesBelow, EdgeBelow
    <3>3. EdgeBelow(edges'[n], frames[i], FALSE)
      BY <1>6, <3>1, <3>2
    <3> QED
      BY <1>2, <1>3, <1>5, <3>3 DEF EdgeBelow
  <2> QED
    BY <1>11, <2>2, <2>3 DEF EdgesBelow, EdgeBelow
<1>13. FoundOnceIn(Frame) /\ \A n \in DOMAIN edges : FoundNewIn(Frame, edges[n])
  BY <1>0, <1>2 DEF FoundOnce, FoundNew
<1>14. FoundOnceIn(f)
  <2>1. SUFFICES ASSUME NEW m \in DOMAIN f.found, NEW n \in DOMAIN f.found, f.found[m].key = f.found[n].key
        PROVE  m = n \/ Twice(f.key, f.item, f.found[m].key)
    BY DEF FoundOnceIn
  <2>2. m + 1 = n + 1 \/ Twice(f.key, f.item, f.found[m].key)
    BY <1>4, <1>7, <1>13, <2>1 DEF FoundOnceIn
  <2>3. m \in Nat /\ n \in Nat
    <3>1. f.found \in Seq(Founds)
      BY <1>3 DEF Frames
    <3> QED
      BY <2>1, <3>1
  <2> QED
    BY <2>2, <2>3
<1>15. FoundOnce'
  BY <1>0, <1>1, <1>5, <1>14, SameLists DEF FoundOnce
<1>16. FoundNew'
  <2>1. ASSUME NEW i \in DOMAIN frames', NEW n \in DOMAIN edges' PROVE FoundNewIn(frames'[i], edges'[n])
    <3>1. CASE i # top
      <4>1. FoundNewIn(frames[i], e)
        BY <1>0, <1>2, <1>4, <1>5, <3>1 DEF OpenFrames, FoundNewIn
      <4>2. n \in DOMAIN edges => FoundNewIn(frames[i], edges[n])
        BY <1>0, <1>5 DEF FoundNew
      <4> QED
        BY <1>5, <1>6, <3>1, <4>1, <4>2
    <3>2. CASE i = top
      <4>1. FoundNewIn(f, e)
        BY <1>3, <1>4, <1>7, <1>8, <1>13 DEF FoundNewIn, FoundOnceIn
      <4>2. n \in DOMAIN edges => FoundNewIn(f, edges[n])
        BY <1>3, <1>7, <1>13 DEF FoundNewIn
      <4> QED
        BY <1>5, <1>6, <3>2, <4>1, <4>2
    <3> QED
      BY <3>1, <3>2
  <2> QED
    BY <1>1, <2>1, SameLists
<1>17. OneEdgeEach'
  <2>1. \A m, n \in DOMAIN edges : edges[m] = edges[n] => m = n \/ Twice(edges[m].from, edges[m].item, edges[m].to)
    BY <1>0, <1>1, SameLists
  <2>2. ASSUME NEW n \in DOMAIN edges, edges[n] = e PROVE Twice(e.from, e.item, e.to)
    BY <1>4, <1>8, <1>13, <2>2 DEF FoundNewIn
  <2>3. ASSUME NEW m \in DOMAIN edges', NEW n \in DOMAIN edges', edges'[m] = edges'[n]
        PROVE  m = n \/ Twice(edges'[m].from, edges'[m].item, edges'[m].to)
    BY <1>6, <2>1, <2>2, <2>3
  <2> QED
    BY <1>1, <2>3, SameLists
<1> QED
  BY <1>10, <1>11, <1>12, <1>15, <1>16, <1>17 DEF OnceInv

-----------------------------------------------------------------------------
(* What an item gathers.                                                   *)

LEMMA ItemNow ==
  ASSUME WalkType, OpenFrames, frames # <<>>, Frame.item >= 1
  PROVE  /\ Item = ItemsOf(Frame.key)[Frame.item] /\ Item \in Items /\ Lists(Item) \in Seq(Seq(Keys))
         /\ Item.cardinality = "collection" =>
              /\ Item.targets = <<>> /\ Item.pages # <<>>
              /\ \A p \in DOMAIN Item.pages : Item.pages[p].next < Len(Item.pages)
<1>1. Frame.key \in Walked /\ Frame.item <= Len(ItemsOf(Frame.key)) /\ Frame.item \in Nat
  BY TopFrame DEF OpenFrames, FrameOpen, Frames
<1>2. Item = ItemsOf(Frame.key)[Frame.item]
  BY DEF Item, ItemsOf
<1>3. Frame.item \in DOMAIN ItemsOf(Frame.key)
  <2>1. ItemsOf(Frame.key) \in Seq(Items)
    BY <1>1, ItemType
  <2> QED
    BY <1>1, <2>1
<1>4. Item \in Items
  BY <1>1, <1>2, <1>3, ItemType
<1> QED
  BY <1>1, <1>2, <1>3, <1>4, ItemType, ListsType

LEMMA PlacedNext ==
  ASSUME Item' = Item
  PROVE  Placed' = (Gathering' => \A n \in DOMAIN Frame'.found :
                                    \E p, m \in Nat : StandsAt(Item, Frame'.found[n].key, p, m) /\ Consumed(p, m)')
BY Zenon DEF Placed, PlacedAt

\* The first hint is handled, and may be found.
LEMMA HintPlaced ==
  ASSUME WalkType, OpenFrames, Gathers, Gathering, at \in {"hint", "fetch"}, hints # <<>>, at' = "hint",
         hints' = Tail(hints), UNCHANGED <<world, cursor, seenCursors>>, Item' = Item,
         Frame'.item = Frame.item
  PROVE  /\ Gathers'
         /\ \A p, m \in Nat : Consumed(p, m) => Consumed(p, m)'
         /\ \E p, m \in Nat : StandsAt(Item, Head(hints), p, m) /\ Consumed(p, m)' /\ ~Consumed(p, m)
<1>1. frames # <<>> /\ Frame.item >= 1 /\ hints \in Seq(Keys)
  BY DEF WalkType, Gathers
<1>2. Part \in DOMAIN Lists(Item) /\ Lists(Item) \in Seq(Seq(Keys))
  BY <1>1, ItemNow DEF Gathers
<1>3. ListNow \in Seq(Keys)
  BY <1>2 DEF ListNow
<1>4. PICK size, left : size = Len(ListNow) /\ left = Len(hints)
  OBVIOUS
<1>5. /\ size \in Nat /\ left \in Nat /\ left >= 1 /\ left <= size /\ Len(hints') = left - 1
      /\ DOMAIN ListNow = 1 .. size /\ DOMAIN hints = 1 .. left /\ DOMAIN hints' = 1 .. (left - 1)
      /\ \A n \in 1 .. (left - 1) : hints'[n] = hints[n + 1]
      /\ Head(hints) = hints[1]
  BY <1>1, <1>3, <1>4 DEF Gathers
<1>6. \A n \in 1 .. left : hints[n] = ListNow[size - left + n]
  BY <1>4, <1>5 DEF Gathers
<1>7. Part' = Part /\ ListNow' = ListNow
  BY DEF Part, ListNow
<1>8. Gathers'
  <2>1. \A n \in DOMAIN hints' : hints'[n] = ListNow[size - (left - 1) + n]
    <3>1. SUFFICES ASSUME NEW n \in 1 .. (left - 1) PROVE hints'[n] = ListNow[size - (left - 1) + n]
      BY <1>5
    <3>2. n + 1 \in 1 .. left /\ size - left + (n + 1) = size - (left - 1) + n
      BY <1>5, <3>1
    <3> QED
      BY <1>5, <1>6, <3>2
  <2>2. Len(hints') <= Len(ListNow)
    BY <1>4, <1>5
  <2>3. /\ Frame.item >= 1
        /\ seenCursors = {} => cursor = 0
        /\ seenCursors # {} => Item.cardinality = "collection" /\ cursor \in seenCursors
        /\ Part \in DOMAIN Lists(Item)
    BY DEF Gathers
  <2> QED
    BY <1>4, <1>5, <1>7, <2>1, <2>2, <2>3 DEF Gathers
<1>9. \A p, m \in Nat : Consumed(p, m) <=> (p = 1 \/ p - 2 \in seenCursors) /\ (p = Part => m <= size - left)
  BY <1>4 DEF Consumed
<1>10. \A p, m \in Nat : Consumed(p, m)' <=> (p = 1 \/ p - 2 \in seenCursors) /\ (p = Part => m <= size - (left - 1))
  BY <1>4, <1>5, <1>7 DEF Consumed
<1>11. PICK m : m = size - left + 1
  OBVIOUS
<1>12. m \in 1 .. size /\ ListNow[m] = Head(hints) /\ ~(m <= size - left) /\ m <= size - (left - 1)
  BY <1>5, <1>6, <1>11
<1>13. Part = 1 \/ Part - 2 \in seenCursors
  <2>1. seenCursors # {} => cursor \in seenCursors /\ Part = cursor + 2 /\ cursor \in Nat
    BY DEF Gathers, Part, WalkType
  <2> QED
    BY <2>1 DEF Part
<1>16. PICK p : p = Part
  OBVIOUS
<1>17. p \in Nat
  BY <1>16 DEF Part, WalkType
<1>14. StandsAt(Item, Head(hints), p, m) /\ Consumed(p, m)' /\ ~Consumed(p, m) /\ m \in Nat
  BY <1>16, <1>17, <1>5, <1>2, <1>5, <1>9, <1>10, <1>12, <1>13 DEF StandsAt, ListNow
<1>15. ASSUME NEW q \in Nat, NEW k \in Nat, Consumed(q, k) PROVE Consumed(q, k)'
  BY <1>5, <1>9, <1>10, <1>15
<1> QED
  BY <1>8, <1>14, <1>15, <1>17

LEMMA FoundFrame ==
  ASSUME WalkType, frames # <<>>, NEW k \in Keys, NEW fetched \in BOOLEAN, Found(k, fetched)
  PROVE  \E f \in Frames :
           /\ f.key = Frame.key /\ f.item = Frame.item /\ Amend(f)
           /\ f.found \in Seq(Founds) /\ Frame.found \in Seq(Founds)
           /\ Len(f.found) = Len(Frame.found) + 1 /\ Len(Frame.found) \in Nat
           /\ \A n \in 1 .. Len(Frame.found) : f.found[n] = Frame.found[n]
           /\ f.found[Len(Frame.found) + 1].key = k
<1>1. Frame \in Frames /\ Frame.found \in Seq(Founds)
  BY TopFrame DEF Frames
<1>2. PICK r : r = [key |-> k, fetched |-> fetched]
  OBVIOUS
<1>3. r \in Founds /\ r.key = k
  BY <1>2 DEF Founds
<1>4. PICK more : more = Append(Frame.found, r)
  OBVIOUS
<1>5. /\ more \in Seq(Founds) /\ Len(more) = Len(Frame.found) + 1 /\ Len(Frame.found) \in Nat
      /\ \A n \in 1 .. Len(Frame.found) : more[n] = Frame.found[n]
      /\ more[Len(Frame.found) + 1] = r
  BY <1>1, <1>3, <1>4
<1>6. PICK f : f = [Frame EXCEPT !.found = more]
  OBVIOUS
<1>7. f \in Frames /\ f.key = Frame.key /\ f.item = Frame.item /\ f.found = more
  BY <1>1, <1>5, <1>6 DEF Frames
<1>8. Amend(f)
  BY <1>2, <1>4, <1>6 DEF Found
<1> QED
  BY <1>1, <1>3, <1>5, <1>7, <1>8

\* The hint is found, and one that was found before is listed twice.
LEMMA TakeStep ==
  ASSUME OnceInv, at \in {"hint", "fetch"}, hints # <<>>, at' = "hint", hints' = Tail(hints),
         UNCHANGED <<world, cursor, seenCursors, edges, expandedTargets>>, WalkType',
         NEW fetched \in BOOLEAN, Found(Head(hints), fetched)
  PROVE  OnceInv'
<1> DEFINE k == Head(hints)
<1>0. /\ WalkType /\ OpenFrames /\ Gathers /\ Placed /\ FoundOnce /\ Gathering /\ Gathering' /\ frames # <<>>
      /\ k \in Keys /\ Frame.item >= 1
  <2>1. WalkType /\ OpenFrames /\ Gathers /\ Placed /\ FoundOnce /\ Gathering /\ Gathering'
    BY DEF OnceInv, Gathering
  <2> QED
    BY <2>1 DEF WalkType, Gathers
<1>1. PICK f \in Frames :
        /\ f.key = Frame.key /\ f.item = Frame.item /\ Amend(f)
        /\ f.found \in Seq(Founds) /\ Frame.found \in Seq(Founds)
        /\ Len(f.found) = Len(Frame.found) + 1 /\ Len(Frame.found) \in Nat
        /\ \A n \in 1 .. Len(Frame.found) : f.found[n] = Frame.found[n]
        /\ f.found[Len(Frame.found) + 1].key = k
  BY <1>0, FoundFrame
<1>2. /\ DOMAIN frames' = DOMAIN frames /\ Len(frames') = Len(frames) /\ Frame' = f
      /\ \A i \in DOMAIN frames : frames'[i] = IF i = Len(frames) THEN f ELSE frames[i]
  BY <1>0, <1>1, Amended
<1>3. Item' = Item
  BY <1>1, <1>2 DEF Item
<1>4. /\ Gathers'
      /\ \A p, m \in Nat : Consumed(p, m) => Consumed(p, m)'
      /\ \E p, m \in Nat : StandsAt(Item, k, p, m) /\ Consumed(p, m)' /\ ~Consumed(p, m)
  BY <1>0, <1>1, <1>2, <1>3, HintPlaced
<1>5. \A n \in DOMAIN Frame.found : \E p, m \in Nat : StandsAt(Item, Frame.found[n].key, p, m) /\ Consumed(p, m)
  BY <1>0 DEF Placed, PlacedAt
<1>6. /\ DOMAIN Frame.found = 1 .. Len(Frame.found) /\ DOMAIN f.found = 1 .. (Len(Frame.found) + 1)
      /\ \A n \in DOMAIN Frame.found : n \in DOMAIN f.found /\ f.found[n] = Frame.found[n]
      /\ \A n \in DOMAIN f.found : n \notin DOMAIN Frame.found => n = Len(Frame.found) + 1 /\ f.found[n].key = k
  <2>1. PICK len : len = Len(Frame.found)
    OBVIOUS
  <2>2. len \in Nat /\ DOMAIN Frame.found = 1 .. len /\ DOMAIN f.found = 1 .. (len + 1)
    BY <1>1, <2>1
  <2>3. \A n \in 1 .. (len + 1) : n \notin 1 .. len => n = len + 1
    BY <2>2
  <2> QED
    BY <1>1, <2>1, <2>2, <2>3
<1>7. Placed'
  <2>1. \A n \in DOMAIN f.found : \E p, m \in Nat : StandsAt(Item, f.found[n].key, p, m) /\ Consumed(p, m)'
    BY <1>4, <1>5, <1>6
  <2> QED
    BY <1>2, <1>3, <2>1, PlacedNext
<1>8. ASSUME NEW n \in DOMAIN Frame.found, Frame.found[n].key = k PROVE Twice(Frame.key, Frame.item, k)
  <2>1. PICK p \in Nat, m \in Nat : StandsAt(Item, k, p, m) /\ Consumed(p, m)
    BY <1>5, <1>8
  <2>2. PICK q \in Nat, j \in Nat : StandsAt(Item, k, q, j) /\ ~Consumed(q, j)
    BY <1>4
  <2>3. p # q \/ m # j
    BY <2>1, <2>2
  <2>4. ListedTwice(Item, k)
    BY <2>1, <2>2, <2>3 DEF ListedTwice, StandsAt
  <2>5. Item = ItemsOf(Frame.key)[Frame.item]
    BY <1>0, ItemNow
  <2> QED
    BY <2>4, <2>5 DEF Twice
<1>9. FoundOnceIn(f)
  <2>1. FoundOnceIn(Frame)
    BY <1>0, TopFrame DEF FoundOnce
  <2>2. SUFFICES ASSUME NEW m \in DOMAIN f.found, NEW n \in DOMAIN f.found, f.found[m].key = f.found[n].key
        PROVE  m = n \/ Twice(Frame.key, Frame.item, f.found[m].key)
    BY <1>1 DEF FoundOnceIn
  <2>3. CASE m \in DOMAIN Frame.found /\ n \in DOMAIN Frame.found
    BY <1>6, <2>1, <2>2, <2>3 DEF FoundOnceIn
  <2>4. CASE m \notin DOMAIN Frame.found \/ n \notin DOMAIN Frame.found
    BY <1>6, <1>8, <2>2, <2>4
  <2> QED
    BY <2>3, <2>4
<1> QED
  BY <1>0, <1>1, <1>2, <1>4, <1>7, <1>9, GatherStep

\* The hint leaves no edge.
LEMMA DropStep ==
  ASSUME OnceInv, at \in {"hint", "fetch"}, hints # <<>>, at' = "hint", hints' = Tail(hints), frames' = frames,
         UNCHANGED <<world, cursor, seenCursors, edges, expandedTargets>>, WalkType'
  PROVE  OnceInv'
<1>0. WalkType /\ OpenFrames /\ Gathers /\ Placed /\ FoundOnce /\ Gathering /\ Gathering' /\ frames # <<>>
  <2>1. WalkType /\ OpenFrames /\ Gathers /\ Placed /\ FoundOnce /\ Gathering /\ Gathering'
    BY DEF OnceInv, Gathering
  <2> QED
    BY <2>1 DEF WalkType
<1>1. Frame' = Frame /\ Item' = Item
  BY DEF Frame, Item
<1>2. Gathers' /\ \A p, m \in Nat : Consumed(p, m) => Consumed(p, m)'
  BY <1>0, <1>1, HintPlaced
<1>3. Placed'
  <2>1. \A n \in DOMAIN Frame.found : \E p, m \in Nat : StandsAt(Item, Frame.found[n].key, p, m) /\ Consumed(p, m)'
    BY <1>0, <1>2 DEF Placed, PlacedAt
  <2> QED
    BY <1>1, <2>1, PlacedNext
<1>4. Frame \in Frames /\ FoundOnceIn(Frame) /\ Frame = frames[Len(frames)]
  BY <1>0, TopFrame DEF FoundOnce
<1>5. \A i \in DOMAIN frames : frames'[i] = IF i = Len(frames) THEN Frame ELSE frames[i]
  BY <1>4
<1> QED
  BY <1>0, <1>2, <1>3, <1>4, <1>5, GatherStep

\* Another list of the item, or the hints of the page at hand.
LEMMA TurnStep ==
  ASSUME OnceInv, Gathering, Gathering', frames' = frames, UNCHANGED <<world, edges, expandedTargets>>, WalkType',
         Gathers', \A p, m \in Nat : Consumed(p, m) => Consumed(p, m)'
  PROVE  OnceInv'
<1>0. WalkType /\ OpenFrames /\ Placed /\ FoundOnce /\ frames # <<>>
  <2>1. WalkType /\ OpenFrames /\ Placed /\ FoundOnce
    BY DEF OnceInv
  <2> QED
    BY <2>1 DEF WalkType
<1>1. Frame' = Frame /\ Item' = Item
  BY DEF Frame, Item
<1>2. Placed'
  <2>1. \A n \in DOMAIN Frame.found : \E p, m \in Nat : StandsAt(Item, Frame.found[n].key, p, m) /\ Consumed(p, m)'
    BY <1>0 DEF Placed, PlacedAt
  <2> QED
    BY <1>1, <2>1, PlacedNext
<1>3. Frame \in Frames /\ FoundOnceIn(Frame) /\ Frame = frames[Len(frames)]
  BY <1>0, TopFrame DEF FoundOnce
<1>4. \A i \in DOMAIN frames : frames'[i] = IF i = Len(frames) THEN Frame ELSE frames[i]
  BY <1>3
<1> QED
  BY <1>2, <1>3, <1>4, GatherStep

LEMMA LeaveBelow ==
  ASSUME WalkType, frames # <<>>, Leave(Front(frames))
  PROVE  at' \in {"edge", "done"} /\ \A i \in DOMAIN frames' : i \in DOMAIN frames /\ frames'[i] = frames[i]
<1>1. /\ DOMAIN frames' = 1 .. (Len(frames) - 1) /\ DOMAIN frames = 1 .. Len(frames) /\ Len(frames) \in Nat
      /\ \A i \in 1 .. (Len(frames) - 1) : frames'[i] = frames[i]
  BY Popped, TopFrame
<1> QED
  BY <1>1, Popped

\* A stop gathers nothing more.
LEMMA StopBelow ==
  ASSUME WalkType, frames # <<>>, NEW why, Stop(why)
  PROVE  at' \in {"edge", "done", "threw"} /\ \A i \in DOMAIN frames' : i \in DOMAIN frames /\ frames'[i] = frames[i]
BY LeaveBelow DEF Stop

LEMMA HintsDoneOnce ==
  ASSUME OnceInv, HintsDone, WalkType'
  PROVE  OnceInv'
<1>1. /\ at = "hint" /\ hints = <<>> /\ at' = IF Item.cardinality = "collection" THEN "page" ELSE "edge"
      /\ UNCHANGED <<world, frames, hints, cursor, seenCursors, edges, expandedTargets>>
  BY DEF HintsDone, NextPage, inputVars, budgetVars
<1>2. CASE at' = "edge"
  BY <1>1, <1>2, SettleStep DEF Gathering
<1>3. CASE at' = "page" /\ Item.cardinality = "collection"
  <2>1. Gathering /\ Gathering' /\ Gathers
    BY <1>1, <1>3 DEF Gathering, OnceInv
  <2>2. Frame' = Frame /\ Item' = Item /\ Part' = Part
    BY <1>1 DEF Frame, Item, Part
  <2>3. ListNow' = ListNow
    BY <2>2 DEF ListNow
  <2>4. Gathers'
    BY <1>1, <1>3, <2>1, <2>2, <2>3 DEF Gathers
  <2>5. \A p, m \in Nat : Consumed(p, m) => Consumed(p, m)'
    BY <1>1, <1>3, <2>2, <2>3 DEF Consumed
  <2> QED
    BY <1>1, <2>1, <2>4, <2>5, TurnStep
<1> QED
  BY <1>1, <1>2, <1>3

\* The page at hand is one of the collection.
LEMMA PageNow ==
  ASSUME WalkType, OpenFrames, Gathers, at \in {"page", "paging"}, seenCursors # {}
  PROVE  /\ cursor + 1 \in DOMAIN Item.pages /\ PageAt(cursor) \in Pages /\ PageAt(cursor).next < Len(Item.pages)
         /\ PageAt(cursor).targets = ListNow
<1>1. /\ frames # <<>> /\ Frame.item >= 1 /\ Item.cardinality = "collection" /\ cursor \in Nat
      /\ Part \in DOMAIN Lists(Item) /\ Part = cursor + 2
  BY DEF Gathers, Gathering, WalkType, Part
<1>2. Item \in Items /\ \A p \in DOMAIN Item.pages : Item.pages[p].next < Len(Item.pages)
  BY <1>1, ItemNow
<1>3. /\ DOMAIN Lists(Item) = 1 .. (Len(Item.pages) + 1) /\ Len(Item.pages) \in Nat
      /\ \A p \in 1 .. Len(Item.pages) : Lists(Item)[p + 1] = Item.pages[p].targets
  BY <1>2, ListsType
<1>4. Item.pages \in Seq(Pages)
  BY <1>2 DEF Items, Pages
<1>5. cursor + 1 \in 1 .. Len(Item.pages) /\ DOMAIN Item.pages = 1 .. Len(Item.pages)
  BY <1>1, <1>3, <1>4
<1>6. Lists(Item)[(cursor + 1) + 1] = Item.pages[cursor + 1].targets
  BY <1>3, <1>5
<1>7. (cursor + 1) + 1 = Part
  BY <1>1
<1> QED
  BY <1>2, <1>4, <1>5, <1>6, <1>7 DEF PageAt, ListNow

LEMMA TurnPageOnce ==
  ASSUME OnceInv, TurnPage, WalkType'
  PROVE  OnceInv'
<1> DEFINE next == IF cursor = 0 /\ seenCursors = {} THEN 0 ELSE PageAt(cursor).next
<1>0. /\ WalkType /\ OpenFrames /\ Gathers /\ Gathering /\ frames # <<>> /\ at = "page"
      /\ Item.cardinality = "collection" /\ hints = <<>> /\ Frame.item >= 1
      /\ UNCHANGED <<world, edges, expandedTargets, hints>>
  <2>1. WalkType /\ OpenFrames /\ Gathers /\ at = "page"
    BY DEF OnceInv, TurnPage
  <2> QED
    BY <2>1 DEF TurnPage, inputVars, Gathering, WalkType, Gathers
<1>1. CASE ~Gathering'
  <2>1. frames' = frames \/ \E why : Stop(why)
    BY DEF TurnPage
  <2>2. \A i \in DOMAIN frames' : i \in DOMAIN frames /\ frames'[i] = frames[i]
    BY <1>0, <2>1, StopBelow
  <2> QED
    BY <1>0, <1>1, <2>2, SettleStep
<1>2. CASE Gathering'
  <2>1. /\ at' = "paging" /\ frames' = frames /\ cursor' = next /\ seenCursors' = seenCursors \cup {next}
        /\ next \notin seenCursors
    <3>1. at' \notin {"edge", "done", "threw"}
      BY <1>2 DEF Gathering
    <3>2. ~(\E why : Stop(why))
      BY <1>0, <3>1, StopBelow
    <3> QED
      BY <3>1, <3>2 DEF TurnPage, Loops
  <2>2. next \in Nat /\ next < Len(Item.pages) /\ Item \in Items
    <3>1. Item \in Items /\ Item.pages # <<>> /\ Item.pages \in Seq(Pages)
      BY <1>0, ItemNow DEF Items, Pages
    <3>2. CASE seenCursors = {}
      <4>1. next = 0
        BY <1>0, <3>2 DEF Gathers
      <4>2. 0 < Len(Item.pages)
        BY <3>1
      <4> QED
        BY <3>1, <4>1, <4>2
    <3>3. CASE seenCursors # {}
      <4>1. next = PageAt(cursor).next
        BY <3>3
      <4>2. PageAt(cursor) \in Pages /\ PageAt(cursor).next < Len(Item.pages)
        BY <1>0, <3>3, PageNow
      <4> QED
        BY <3>1, <4>1, <4>2 DEF Pages
    <3> QED
      BY <3>2, <3>3
  <2>3. Frame' = Frame /\ Item' = Item
    BY <2>1, <1>0 DEF Frame, Item
  <2>4. Part' = next + 2
    BY <2>1 DEF Part
  <2>5. Part' \in DOMAIN Lists(Item) /\ ListNow' \in Seq(Keys)
    <3> HIDE DEF next
    <3>1. DOMAIN Lists(Item) = 1 .. (Len(Item.pages) + 1) /\ Len(Item.pages) \in Nat /\ Lists(Item) \in Seq(Seq(Keys))
      BY <2>2, ListsType
    <3>2. next + 2 \in DOMAIN Lists(Item)
      BY <2>2, <3>1
    <3>3. Lists(Item)[next + 2] \in Seq(Keys)
      BY <3>1, <3>2
    <3> QED
      BY <2>3, <2>4, <3>2, <3>3 DEF ListNow
  <2>6. Gathers'
    BY <1>0, <2>1, <2>3, <2>5 DEF Gathers
  <2>7. \A p, m \in Nat : Consumed(p, m) => Consumed(p, m)'
    <3>1. SUFFICES ASSUME NEW p \in Nat, NEW m \in Nat, Consumed(p, m) PROVE Consumed(p, m)'
      OBVIOUS
    <3>2. p # next + 2
      BY <2>1, <2>2, <3>1 DEF Consumed
    <3> QED
      BY <2>1, <2>4, <3>1, <3>2 DEF Consumed
  <2> QED
    BY <1>0, <1>2, <2>1, <2>6, <2>7, TurnStep
<1> QED
  BY <1>1, <1>2

LEMMA PageArrivesOnce ==
  ASSUME OnceInv, PageArrives, WalkType'
  PROVE  OnceInv'
<1>1. /\ at = "paging" /\ UNCHANGED <<world, frames, cursor, seenCursors, edges, expandedTargets>>
      /\ at' \in {"hint", "edge", "threw"} /\ (at' = "hint" => hints' = PageAt(cursor).targets)
  BY DEF PageArrives, inputVars
<1>2. CASE at' # "hint"
  BY <1>1, <1>2, SettleStep DEF Gathering
<1>3. CASE at' = "hint"
  <2>1. WalkType /\ OpenFrames /\ Gathers /\ Gathering /\ Gathering'
    BY <1>1, <1>3 DEF Gathering, OnceInv
  <2>2. seenCursors # {} /\ Part \in DOMAIN Lists(Item)
    BY <1>1, <2>1 DEF Gathers
  <2>3. hints' = ListNow
    BY <1>1, <1>3, <2>1, <2>2, PageNow
  <2>4. Frame' = Frame /\ Item' = Item /\ Part' = Part
    BY <1>1 DEF Frame, Item, Part
  <2>5. ListNow' = ListNow /\ hints' \in Seq(Keys)
    BY <2>4 DEF ListNow, WalkType
  <2>6. Gathers'
    <3>1. \A n \in DOMAIN hints' : hints'[n] = ListNow[Len(ListNow) - Len(hints') + n]
      <4>1. DOMAIN ListNow = 1 .. Len(ListNow) /\ Len(ListNow) \in Nat
        BY <2>3, <2>5
      <4>2. \A n \in 1 .. Len(ListNow) : Len(ListNow) - Len(ListNow) + n = n
        BY <4>1
      <4> QED
        BY <2>3, <4>1, <4>2
    <3>2. Len(hints') <= Len(ListNow)
      BY <2>3, <2>5
    <3> QED
      BY <1>1, <1>3, <2>1, <2>2, <2>4, <2>5, <3>1, <3>2 DEF Gathers
  <2>7. \A p, m \in Nat : Consumed(p, m) => Consumed(p, m)'
    BY <1>1, <2>4 DEF Consumed
  <2> QED
    BY <1>1, <2>1, <2>6, <2>7, TurnStep
<1> QED
  BY <1>1, <1>2, <1>3

LEMMA NextItemOnce ==
  ASSUME OnceInv, NextItem, WalkType'
  PROVE  OnceInv'
<1>0. /\ WalkType /\ OpenFrames /\ frames # <<>> /\ at = "edge" /\ Frame.found = <<>>
      /\ Frame.item < Len(ItemsOf(Frame.key)) /\ UNCHANGED <<world, edges, expandedTargets>>
  BY DEF OnceInv, NextItem, WalkType, inputVars, budgetVars, ItemsOf
<1>1. CASE DepthExceeded(Frame.depth + 1)
  <2>1. Leave(Front(frames))
    BY <1>1 DEF NextItem
  <2>2. ~Gathering' /\ \A i \in DOMAIN frames' : i \in DOMAIN frames /\ frames'[i] = frames[i]
    BY <1>0, <2>1, LeaveBelow DEF Gathering
  <2> QED
    BY <1>0, <2>2, SettleStep
<1>2. CASE ~DepthExceeded(Frame.depth + 1)
  <2>1. PICK f : f = [Frame EXCEPT !.item = @ + 1]
    OBVIOUS
  <2>2. f \in Frames /\ f.key = Frame.key /\ f.item = Frame.item + 1 /\ f.found = <<>>
    <3>1. Frame \in Frames
      BY <1>0, TopFrame
    <3> QED
      BY <1>0, <2>1, <3>1 DEF Frames
  <2>3. Amend(f) /\ Frame' = f
    <3>1. Amend(f)
      BY <1>2, <2>1 DEF NextItem
    <3> QED
      BY <1>0, <2>2, <3>1, Amended
  <2>4. Item' = ItemsOf(Frame.key)[Frame.item + 1]
    BY <1>0, <2>2, <2>3 DEF Item, ItemsOf
  <2>5. /\ hints' = Item'.targets /\ at' = (IF Item'.cardinality = "collection" THEN "page" ELSE "hint")
        /\ cursor' = 0 /\ seenCursors' = {}
    BY <1>0, <1>2, <2>4 DEF NextItem, ItemsOf
  <2>6. Item' \in Items /\ (Item'.cardinality = "collection" => Item'.targets = <<>>)
    <3>1. Frame.key \in Walked /\ Frame.item \in Nat
      BY <1>0, TopFrame DEF OpenFrames, FrameOpen, Frames
    <3>2. Frame.item + 1 \in DOMAIN ItemsOf(Frame.key)
      <4>1. ItemsOf(Frame.key) \in Seq(Items)
        BY <1>0, <3>1, ItemType
      <4> QED
        BY <1>0, <3>1, <4>1
    <3> QED
      BY <1>0, <2>4, <3>1, <3>2, ItemType
  <2>7. Gathers'
    <3>1. /\ Part' = 1 /\ Frame'.item >= 1
      <4>1. Frame \in Frames
        BY <1>0, TopFrame
      <4> QED
        BY <2>2, <2>3, <2>5, <4>1 DEF Part, Frames
    <3>2. 1 \in DOMAIN Lists(Item') /\ Lists(Item')[1] = Item'.targets
      BY <2>6, ListsType
    <3>3. Item'.targets \in Seq(Keys)
      BY <2>6 DEF Items
    <3>4. ListNow' = hints' /\ Part' \in DOMAIN Lists(Item')
      BY <2>5, <3>1, <3>2 DEF ListNow
    <3>5. Len(hints') \in Nat /\ DOMAIN hints' = 1 .. Len(hints')
      BY <2>5, <3>3
    <3>6. \A n \in DOMAIN hints' : hints'[n] = hints'[Len(hints') - Len(hints') + n]
      <4>1. \A n \in 1 .. Len(hints') : Len(hints') - Len(hints') + n = n
        BY <3>5
      <4> QED
        BY <3>5, <4>1
    <3> QED
      BY <2>5, <2>6, <3>1, <3>4, <3>5, <3>6 DEF Gathers
  <2>8. Placed'
    BY <2>2, <2>3 DEF Placed
  <2> QED
    BY <1>0, <2>2, <2>3, <2>7, <2>8, ItemStep
<1> QED
  BY <1>1, <1>2

LEMMA ChargeHintOnce ==
  ASSUME OnceInv, ChargeHint, WalkType'
  PROVE  OnceInv'
<1>0. /\ WalkType /\ Gathering /\ frames # <<>> /\ at = "hint" /\ hints # <<>>
      /\ UNCHANGED <<world, edges, expandedTargets, cursor, seenCursors>>
  BY DEF OnceInv, ChargeHint, WalkType, inputVars, Gathering
<1>1. \/ at' = "hint" /\ hints' = Tail(hints) /\ (frames' = frames \/ Found(Head(hints), FALSE))
      \/ Stop("budget")
      \/ at' = "fetch" /\ UNCHANGED <<frames, hints>>
  BY DEF ChargeHint
<1>2. CASE at' = "hint" /\ hints' = Tail(hints) /\ frames' = frames
  BY <1>0, <1>2, DropStep
<1>3. CASE at' = "hint" /\ hints' = Tail(hints) /\ Found(Head(hints), FALSE)
  BY <1>0, <1>3, TakeStep
<1>4. CASE Stop("budget")
  BY <1>0, <1>4, StopBelow, SettleStep DEF Gathering
<1>5. CASE at' = "fetch" /\ UNCHANGED <<frames, hints>>
  <2>1. Frame' = Frame /\ Item' = Item /\ Part' = Part
    BY <1>0, <1>5 DEF Frame, Item, Part
  <2>2. ListNow' = ListNow
    BY <2>1 DEF ListNow
  <2>3. Gathers'
    BY <1>0, <1>5, <2>1, <2>2 DEF OnceInv, Gathers
  <2>4. \A p, m \in Nat : Consumed(p, m) => Consumed(p, m)'
    BY <1>0, <1>5, <2>1, <2>2 DEF Consumed
  <2>5. Gathering'
    BY <1>5 DEF Gathering
  <2> QED
    BY <1>0, <1>5, <2>3, <2>4, <2>5, TurnStep
<1> QED
  BY <1>1, <1>2, <1>3, <1>4, <1>5

LEMMA FetchedOnce ==
  ASSUME OnceInv, Fetched, WalkType'
  PROVE  OnceInv'
<1>0. /\ at = "fetch" /\ hints # <<>> /\ at' = "hint" /\ hints' = Tail(hints)
      /\ UNCHANGED <<world, edges, expandedTargets, cursor, seenCursors>>
  BY DEF OnceInv, Fetched, inputVars, Gathers, Gathering
<1>1. frames' = frames \/ Found(Head(hints), TRUE)
  BY DEF Fetched
<1> QED
  BY <1>0, <1>1, DropStep, TakeStep
-----------------------------------------------------------------------------
(* The types of the walk.                                                  *)

LEMMA IssueAdded ==
  ASSUME issues \in Seq(Issues), NEW c \in Codes, NEW k \in Keys, issues' = Append(issues, [code |-> c, key |-> k])
  PROVE  /\ issues' \in Seq(Issues)
         /\ \A n \in DOMAIN issues : n \in DOMAIN issues' /\ issues'[n] = issues[n]
         /\ \E n \in DOMAIN issues' : issues'[n].code = c /\ issues'[n].key = k
<1>1. PICK r : r = [code |-> c, key |-> k]
  OBVIOUS
<1>2. r \in Issues /\ r.code = c /\ r.key = k
  BY <1>1 DEF Issues
<1>3. issues' = Append(issues, r)
  BY <1>1
<1> HIDE DEF Issues
<1>4. /\ issues' \in Seq(Issues) /\ Len(issues) \in Nat /\ DOMAIN issues = 1 .. Len(issues)
      /\ DOMAIN issues' = 1 .. (Len(issues) + 1)
      /\ \A i \in 1 .. (Len(issues) + 1) : issues'[i] = IF i = Len(issues) + 1 THEN r ELSE issues[i]
  BY <1>2, <1>3, AppendProperties
<1> QED
  BY <1>2, <1>4

LEMMA KnownCodes == {"budget", "aborted", "cycle", "invalid", "unresolvable"} \subseteq Codes
BY DEF Codes

LEMMA FrameKey == ASSUME WalkType, frames # <<>> PROVE Frame \in Frames /\ Frame.key \in Keys /\ Frame.depth \in Nat
BY TopFrame DEF Frames

LEMMA StopType ==
  ASSUME WalkType, frames # <<>>, NEW why \in Codes, Stop(why)
  PROVE  /\ frames' \in Seq(Frames) /\ issues' \in Seq(Issues) /\ partial' \in BOOLEAN
         /\ at' \in {"edge", "done", "threw"}
         /\ (at' = "edge" => frames' # <<>>) /\ (at' = "done" => frames' = <<>>)
         /\ partial' \/ at' = "threw"
<1>1. CASE Item.cardinality # "one"
  BY <1>1, FrameKey, KnownCodes, IssueAdded DEF Stop, WalkType
<1>2. CASE Item.cardinality = "one" /\ why = "budget"
  <2>1. Leave(Front(frames)) /\ issues' = Append(issues, [code |-> why, key |-> Frame.key]) /\ partial' = TRUE
    BY <1>2 DEF Stop
  <2>2. issues' \in Seq(Issues)
    BY <2>1, FrameKey, KnownCodes, IssueAdded DEF WalkType
  <2> QED
    BY <2>1, <2>2, Popped
<1>3. CASE Item.cardinality = "one" /\ why # "budget"
  BY <1>3 DEF Stop, WalkType
<1> QED
  BY <1>1, <1>2, <1>3

LEMMA HintsType ==
  ASSUME WalkType, hints # <<>>
  PROVE  Head(hints) \in Keys /\ Tail(hints) \in Seq(Keys)
BY DEF WalkType

LEMMA ReadRootTypes == ASSUME OnceInv, ReadRoot PROVE WalkType'
<1>1. WalkType /\ world.root \in Keys
  BY RelationsAssumption DEF OnceInv, WalkType
<1>2. /\ UNCHANGED <<world, frames, hints, cursor, seenCursors, edges, issues, partial, expandedTargets>>
      /\ at = "root" /\ at' \in {"threw", "expand"}
      /\ at' = "expand" => entering' = [key |-> world.root, depth |-> 0]
  BY DEF ReadRoot, inputVars
<1>3. at' = "expand" => entering' \in [key : Keys, depth : Nat]
  BY <1>1, <1>2
<1> QED
  BY <1>1, <1>2, <1>3 DEF WalkType, Gathering

LEMMA ExpandTypes == ASSUME OnceInv, Expand PROVE WalkType'
<1>1. WalkType /\ entering \in [key : Keys, depth : Nat]
  BY DEF OnceInv, WalkType, Expand
<1>2. /\ UNCHANGED <<world, hints, cursor, seenCursors, edges>>
      /\ expandedTargets' = expandedTargets \cup {entering.key}
  BY DEF Expand, inputVars
<1>3. PICK f : f = [key |-> entering.key, depth |-> entering.depth, item |-> 0, found |-> <<>>]
  OBVIOUS
<1>4. f \in Frames
  BY <1>1, <1>3 DEF Frames
<1>5. CASE frames' = Append(frames, f) /\ at' = "edge" /\ UNCHANGED <<issues, partial>>
  <2>1. frames' \in Seq(Frames) /\ frames' # <<>>
    BY <1>1, <1>4, <1>5, Pushed
  <2> QED
    BY <1>1, <1>2, <1>5, <2>1 DEF WalkType, Gathering
<1>6. CASE /\ Resume(frames) /\ UNCHANGED frames /\ partial' = (partial \/ ~AlreadyExpanded(entering.key))
           /\ issues' = IF ~AlreadyExpanded(entering.key)
                        THEN Append(issues, [code |-> "invalid", key |-> entering.key]) ELSE issues
  <2>1. issues' \in Seq(Issues)
    BY <1>1, <1>6, KnownCodes, IssueAdded DEF WalkType
  <2>2. partial' \in BOOLEAN
    BY <1>1, <1>6 DEF WalkType
  <2>3. at' = (IF frames = <<>> THEN "done" ELSE "edge") /\ frames' = frames
    BY <1>6 DEF Resume
  <2> QED
    BY <1>1, <1>2, <2>1, <2>2, <2>3 DEF WalkType, Gathering
<1> QED
  BY <1>3, <1>5, <1>6 DEF Expand

LEMMA EdgeTypes == ASSUME OnceInv, Edge PROVE WalkType'
<1>1. WalkType /\ frames # <<>>
  BY DEF OnceInv, WalkType, Edge
<1>2. /\ UNCHANGED <<world, expandedTargets, hints, cursor, seenCursors, issues, partial>>
      /\ at = "edge" /\ at' \in {"edge", "expand"} /\ Frame.found # <<>>
      /\ at' = "expand" => entering' = [key |-> Head(Frame.found).key, depth |-> Frame.depth + 1]
  BY DEF Edge, inputVars, budgetVars
<1>3. Frame \in Frames /\ Frame.found \in Seq(Founds) /\ Frame.depth + 1 \in Nat /\ Frame.key \in Keys
  BY <1>1, FrameKey DEF Frames
<1>4. Head(Frame.found).key \in Keys
  <2>1. Head(Frame.found) \in Founds
    BY <1>2, <1>3
  <2> QED
    BY <2>1 DEF Founds
<1>5. at' = "expand" => entering' \in [key : Keys, depth : Nat]
  BY <1>2, <1>3, <1>4
<1>6. (\E f \in Frames : Amend(f)) /\ edges' \in Seq(Edges)
  BY <1>1, EdgeMakes
<1>7. frames' \in Seq(Frames) /\ frames' # <<>>
  BY <1>1, <1>6, Amended
<1> QED
  BY <1>1, <1>2, <1>5, <1>6, <1>7 DEF WalkType, Gathering

LEMMA NextItemTypes == ASSUME OnceInv, NextItem PROVE WalkType'
<1>0. WalkType /\ OpenFrames /\ frames # <<>> /\ UNCHANGED <<world, edges, expandedTargets>>
  BY DEF OnceInv, NextItem, WalkType, inputVars, budgetVars
<1>1. CASE DepthExceeded(Frame.depth + 1)
  <2>1. /\ Leave(Front(frames)) /\ UNCHANGED <<hints, cursor, seenCursors>> /\ partial' = TRUE
        /\ issues' = Append(issues, [code |-> "budget", key |-> Frame.key])
    BY <1>1 DEF NextItem
  <2>2. issues' \in Seq(Issues)
    BY <1>0, <2>1, FrameKey, KnownCodes, IssueAdded DEF WalkType
  <2>3. frames' \in Seq(Frames) /\ at' \in {"done", "edge"} /\ (at' = "done" <=> frames' = <<>>)
    BY <1>0, <2>1, Popped
  <2> QED
    BY <1>0, <2>1, <2>2, <2>3 DEF WalkType, Gathering
<1>2. CASE ~DepthExceeded(Frame.depth + 1)
  <2>1. /\ hints' = ItemsOf(Frame.key)[Frame.item + 1].targets /\ cursor' = 0 /\ seenCursors' = {}
        /\ at' \in {"page", "hint"} /\ UNCHANGED <<issues, partial>>
        /\ Amend([Frame EXCEPT !.item = @ + 1]) /\ Frame.item < Len(ItemsOf(Frame.key))
    BY <1>2 DEF NextItem, ItemsOf
  <2>2. Frame \in Frames /\ Frame.item \in Nat /\ Frame.key \in Walked
    BY <1>0, TopFrame DEF OpenFrames, FrameOpen, Frames
  <2>3. hints' \in Seq(Keys)
    <3>1. ItemsOf(Frame.key) \in Seq(Items)
      BY <1>0, <2>2, ItemType
    <3>2. Frame.item + 1 \in DOMAIN ItemsOf(Frame.key)
      BY <2>1, <2>2, <3>1
    <3>3. ItemsOf(Frame.key)[Frame.item + 1] \in Items
      BY <1>0, <2>2, <3>2, ItemType
    <3> QED
      BY <2>1, <3>3 DEF Items
  <2>4. frames' \in Seq(Frames) /\ frames' # <<>>
    <3>1. PICK f : f = [Frame EXCEPT !.item = @ + 1]
      OBVIOUS
    <3>2. f \in Frames
      BY <2>2, <3>1 DEF Frames
    <3> QED
      BY <1>0, <2>1, <3>1, <3>2, Amended
  <2> QED
    BY <1>0, <2>1, <2>3, <2>4 DEF WalkType, Gathering
<1> QED
  BY <1>1, <1>2

LEMMA NoMoreItemsTypes == ASSUME OnceInv, NoMoreItems PROVE WalkType'
<1>1. WalkType /\ frames # <<>> /\ Leave(Front(frames))
      /\ UNCHANGED <<world, edges, expandedTargets, hints, cursor, seenCursors, issues, partial>>
  BY DEF OnceInv, NoMoreItems, WalkType, inputVars, budgetVars
<1>2. frames' \in Seq(Frames) /\ at' \in {"done", "edge"} /\ (at' = "done" <=> frames' = <<>>)
  BY <1>1, Popped
<1> QED
  BY <1>1, <1>2 DEF WalkType, Gathering

LEMMA HintsDoneTypes == ASSUME OnceInv, HintsDone PROVE WalkType'
BY DEF OnceInv, HintsDone, NextPage, WalkType, Gathering, inputVars, budgetVars

LEMMA ChargeHintTypes == ASSUME OnceInv, ChargeHint PROVE WalkType'
<1>1. /\ WalkType /\ frames # <<>> /\ hints # <<>> /\ at = "hint"
      /\ UNCHANGED <<world, edges, expandedTargets, cursor, seenCursors>>
  BY DEF OnceInv, ChargeHint, WalkType, Gathering, inputVars
<1>2. Head(hints) \in Keys /\ Tail(hints) \in Seq(Keys)
  BY <1>1, HintsType
<1>3. /\ hints' \in {hints, Tail(hints), <<>>}
      /\ \/ Stop("budget")
         \/ at' \in {"hint", "fetch"} /\ (frames' = frames \/ Found(Head(hints), FALSE)) /\ UNCHANGED <<issues, partial>>
  BY DEF ChargeHint
<1>4. hints' \in Seq(Keys)
  <2>1. hints \in Seq(Keys) /\ <<>> \in Seq(Keys)
    BY <1>1 DEF WalkType
  <2> QED
    BY <1>2, <1>3, <2>1, Zenon
<1>5. CASE Stop("budget")
  BY <1>1, <1>4, <1>5, KnownCodes, StopType DEF WalkType, Gathering
<1>6. CASE at' \in {"hint", "fetch"} /\ (frames' = frames \/ Found(Head(hints), FALSE)) /\ UNCHANGED <<issues, partial>>
  <2>1. frames' \in Seq(Frames) /\ frames' # <<>>
    <3>1. Found(Head(hints), FALSE) => \E f \in Frames : Amend(f)
      BY <1>1, <1>2, FoundFrame
    <3> QED
      BY <1>1, <1>6, <3>1, Amended DEF WalkType
  <2> QED
    BY <1>1, <1>4, <1>6, <2>1 DEF WalkType, Gathering
<1> QED
  BY <1>3, <1>5, <1>6

LEMMA FetchedTypes == ASSUME OnceInv, Fetched PROVE WalkType'
<1>1. /\ WalkType /\ frames # <<>> /\ hints # <<>> /\ at = "fetch" /\ at' = "hint" /\ hints' = Tail(hints)
      /\ UNCHANGED <<world, edges, expandedTargets, cursor, seenCursors, partial>>
  BY DEF OnceInv, Fetched, WalkType, Gathers, Gathering, inputVars
<1>2. Head(hints) \in Keys /\ Tail(hints) \in Seq(Keys)
  BY <1>1, HintsType
<1>3. \/ Found(Head(hints), TRUE) /\ UNCHANGED issues
      \/ issues' = Append(issues, [code |-> "unresolvable", key |-> Head(hints)]) /\ UNCHANGED frames
  BY DEF Fetched
<1>4. frames' \in Seq(Frames) /\ frames' # <<>>
  <2>1. Found(Head(hints), TRUE) => \E f \in Frames : Amend(f)
    BY <1>1, <1>2, FoundFrame
  <2> QED
    BY <1>1, <1>3, <2>1, Amended DEF WalkType
<1>5. issues' \in Seq(Issues)
  BY <1>1, <1>2, <1>3, KnownCodes, IssueAdded DEF WalkType
<1> QED
  BY <1>1, <1>2, <1>4, <1>5 DEF WalkType, Gathering

LEMMA FetchStopsTypes == ASSUME OnceInv, FetchStops PROVE WalkType'
<1>1. /\ WalkType /\ frames # <<>> /\ hints' = <<>>
      /\ UNCHANGED <<world, edges, expandedTargets, cursor, seenCursors>>
  BY DEF OnceInv, FetchStops, WalkType, Gathering, inputVars
<1>2. Stop("budget") \/ Stop("aborted")
  BY DEF FetchStops, RefusedOrCalledOff
<1> QED
  BY <1>1, <1>2, KnownCodes, StopType DEF WalkType, Gathering

LEMMA PageStopsTypes == ASSUME OnceInv, PageStops PROVE WalkType'
<1>1. /\ WalkType /\ frames # <<>> /\ UNCHANGED <<world, edges, expandedTargets, cursor, seenCursors, hints>>
  BY DEF OnceInv, PageStops, WalkType, Gathering, inputVars
<1>2. Stop("budget") \/ Stop("aborted")
  BY DEF PageStops, RefusedOrCalledOff
<1> QED
  BY <1>1, <1>2, KnownCodes, StopType DEF WalkType, Gathering

LEMMA TurnPageTypes == ASSUME OnceInv, TurnPage PROVE WalkType'
<1> DEFINE next == IF cursor = 0 /\ seenCursors = {} THEN 0 ELSE PageAt(cursor).next
<1>1. /\ WalkType /\ OpenFrames /\ Gathers /\ at = "page" /\ frames # <<>>
      /\ UNCHANGED <<world, edges, expandedTargets, hints>>
  BY DEF OnceInv, TurnPage, WalkType, Gathering, inputVars
<1>2. next \in Nat
  <2>1. CASE seenCursors = {}
    BY <1>1, <2>1 DEF Gathers, Gathering
  <2>2. CASE seenCursors # {}
    <3>1. PageAt(cursor) \in Pages
      BY <1>1, <2>2, PageNow
    <3> QED
      BY <3>1 DEF Pages
  <2> QED
    BY <2>1, <2>2
<1>3. \/ at' = "edge" /\ UNCHANGED <<frames, cursor, seenCursors, issues, partial>>
      \/ /\ at' = "edge" /\ UNCHANGED <<frames, cursor, seenCursors>> /\ partial' = TRUE
         /\ issues' = Append(issues, [code |-> "cycle", key |-> Frame.key])
      \/ /\ cursor' = next /\ seenCursors' = seenCursors \cup {next}
         /\ Stop("budget") \/ (at' = "paging" /\ UNCHANGED <<frames, issues, partial>>)
  BY DEF TurnPage
<1> HIDE DEF next
<1>4. CASE at' = "edge" /\ UNCHANGED <<frames, cursor, seenCursors, issues, partial>>
  BY <1>1, <1>4 DEF WalkType, Gathering
<1>5. CASE /\ at' = "edge" /\ UNCHANGED <<frames, cursor, seenCursors>> /\ partial' = TRUE
           /\ issues' = Append(issues, [code |-> "cycle", key |-> Frame.key])
  <2>1. issues' \in Seq(Issues)
    BY <1>1, <1>5, FrameKey, KnownCodes, IssueAdded DEF WalkType
  <2> QED
    BY <1>1, <1>5, <2>1 DEF WalkType, Gathering
<1>6. CASE /\ cursor' = next /\ seenCursors' = seenCursors \cup {next}
           /\ Stop("budget") \/ (at' = "paging" /\ UNCHANGED <<frames, issues, partial>>)
  <2>1. /\ frames' \in Seq(Frames) /\ issues' \in Seq(Issues) /\ partial' \in BOOLEAN
        /\ at' \in {"edge", "done", "threw", "paging"}
        /\ (at' \in {"edge", "paging"} => frames' # <<>>) /\ (at' = "done" => frames' = <<>>)
    BY <1>1, <1>6, KnownCodes, StopType DEF WalkType
  <2> QED
    BY <1>1, <1>2, <1>6, <2>1 DEF WalkType, Gathering
<1> QED
  BY <1>3, <1>4, <1>5, <1>6

LEMMA PageArrivesTypes == ASSUME OnceInv, PageArrives PROVE WalkType'
<1>1. /\ WalkType /\ OpenFrames /\ Gathers /\ at = "paging" /\ frames # <<>>
      /\ UNCHANGED <<world, edges, expandedTargets, frames, cursor, seenCursors>>
  BY DEF OnceInv, PageArrives, WalkType, Gathering, inputVars
<1>2. seenCursors # {}
  BY <1>1 DEF Gathers, Gathering
<1>3. PageAt(cursor).targets \in Seq(Keys) /\ PageAt(cursor).fault \in STRING
  <2>1. PageAt(cursor) \in Pages
    BY <1>1, <1>2, PageNow
  <2> QED
    BY <2>1 DEF Pages
<1>4. PICK fault \in Codes : fault = PageAt(cursor).fault
  BY <1>3 DEF Codes
<1>5. \/ hints' = PageAt(cursor).targets /\ at' = "hint" /\ UNCHANGED <<issues, partial>>
      \/ /\ partial' = TRUE /\ issues' = Append(issues, [code |-> fault, key |-> Frame.key])
         /\ at' = "edge" /\ UNCHANGED hints
      \/ at' = "threw" /\ UNCHANGED <<hints, issues, partial>>
  BY <1>4 DEF PageArrives
<1>6. hints' \in Seq(Keys) /\ at' \in {"hint", "edge", "threw"} /\ partial' \in BOOLEAN
  BY <1>1, <1>3, <1>5 DEF WalkType
<1>7. issues' \in Seq(Issues)
  <2>1. issues' = issues \/ issues' = Append(issues, [code |-> fault, key |-> Frame.key])
    BY <1>5
  <2>2. issues \in Seq(Issues) /\ Frame.key \in Keys
    BY <1>1, FrameKey DEF WalkType
  <2> QED
    BY <2>1, <2>2, IssueAdded
<1> QED
  BY <1>1, <1>6, <1>7 DEF WalkType, Gathering

-----------------------------------------------------------------------------
(* Every step keeps one edge for each place.                               *)

LEMMA ReadRootOnce == ASSUME OnceInv, ReadRoot PROVE OnceInv'
<1>1. WalkType' /\ UNCHANGED <<world, frames, edges, expandedTargets>> /\ ~Gathering'
  BY ReadRootTypes DEF ReadRoot, inputVars, Gathering
<1> QED
  BY <1>1, SettleStep

LEMMA ExpandOnce == ASSUME OnceInv, Expand PROVE OnceInv'
<1>1. /\ WalkType' /\ world' = world /\ edges' = edges /\ at' \in {"edge", "done"}
      /\ entering.key \in Keys /\ expandedTargets' = expandedTargets \cup {entering.key}
  <2>1. WalkType /\ entering \in [key : Keys, depth : Nat]
    BY DEF OnceInv, WalkType, Expand
  <2> QED
    BY <2>1, ExpandTypes DEF Expand, inputVars, Resume
<1>2. CASE ~AlreadyExpanded(entering.key) /\ world.relations[entering.key].valid
  <2>1. PICK f : f = [key |-> entering.key, depth |-> entering.depth, item |-> 0, found |-> <<>>]
    OBVIOUS
  <2>2. f \in Frames /\ f.key = entering.key /\ f.item = 0 /\ f.found = <<>>
    <3>1. entering \in [key : Keys, depth : Nat]
      BY DEF OnceInv, WalkType, Expand
    <3> QED
      BY <2>1, <3>1 DEF Frames
  <2>3. frames' = Append(frames, f) /\ at' = "edge"
    BY <1>2, <2>1 DEF Expand
  <2> QED
    BY <1>1, <1>2, <2>2, <2>3, PushStep DEF AlreadyExpanded
<1>3. CASE AlreadyExpanded(entering.key) \/ ~world.relations[entering.key].valid
  <2>1. frames' = frames
    BY <1>3 DEF Expand
  <2>2. ~Gathering'
    BY <1>1 DEF Gathering
  <2> QED
    BY <1>1, <2>1, <2>2, SettleStep
<1> QED
  BY <1>2, <1>3

LEMMA NoMoreItemsOnce == ASSUME OnceInv, NoMoreItems PROVE OnceInv'
<1>1. /\ WalkType /\ frames # <<>> /\ Leave(Front(frames)) /\ UNCHANGED <<world, edges, expandedTargets>>
  BY DEF OnceInv, NoMoreItems, WalkType, inputVars, budgetVars
<1>2. ~Gathering' /\ \A i \in DOMAIN frames' : i \in DOMAIN frames /\ frames'[i] = frames[i]
  BY <1>1, LeaveBelow DEF Gathering
<1> QED
  BY <1>1, <1>2, NoMoreItemsTypes, SettleStep

LEMMA StopsOnce == ASSUME OnceInv, FetchStops \/ PageStops PROVE OnceInv'
<1>1. /\ WalkType /\ frames # <<>> /\ (\E why : Stop(why)) /\ UNCHANGED <<world, edges, expandedTargets>>
  BY DEF OnceInv, FetchStops, PageStops, RefusedOrCalledOff, WalkType, inputVars, Gathering
<1>2. ~Gathering' /\ \A i \in DOMAIN frames' : i \in DOMAIN frames /\ frames'[i] = frames[i]
  BY <1>1, StopBelow DEF Gathering
<1> QED
  BY <1>1, <1>2, FetchStopsTypes, PageStopsTypes, SettleStep

\* The walk does not move.
Still ==
  UNCHANGED <<world, expandedTargets, at, frames, entering, hints, cursor, seenCursors, edges, issues, partial>>

LEMMA StillOnce == ASSUME OnceInv, Still PROVE OnceInv'
<1>1. WalkType'
  BY DEF Still, OnceInv, WalkType, Gathering
<1>2. CASE ~Gathering
  BY <1>1, <1>2, SettleStep DEF Still, Gathering
<1>3. CASE Gathering
  <2>1. Frame' = Frame /\ Item' = Item /\ Part' = Part /\ Gathering'
    BY <1>3 DEF Still, Frame, Item, Part, Gathering
  <2>2. ListNow' = ListNow
    BY <2>1 DEF ListNow
  <2>3. Gathers'
    <3>1. Gathers /\ UNCHANGED <<at, hints, cursor, seenCursors>>
      BY DEF Still, OnceInv
    <3> QED
      BY <1>3, <2>1, <2>2, <3>1 DEF Gathers
  <2>4. \A p, m \in Nat : Consumed(p, m) => Consumed(p, m)'
    BY <2>1, <2>2 DEF Still, Consumed
  <2> QED
    BY <1>1, <1>3, <2>1, <2>3, <2>4, TurnStep DEF Still
<1> QED
  BY <1>2, <1>3

LEMMA StillSteps == ASSUME Abort \/ (RefNext /\ UNCHANGED walkVars) \/ UNCHANGED vars PROVE Still
BY DEF Still, Abort, RefNext, RefStep, Signal, NotAttempted, StopsAtOnce, Replayed, StartFetch, Arrives, MetBefore,
  Settles, FetchStopped, Leaves, Over, NextCall, inputVars, budgetVars, walkVars, vars

LEMMA OnceInit == Init => OnceInv
<1>1. ASSUME Init PROVE OnceInv
  <2>1. /\ world \in Worlds /\ frames = <<>> /\ hints = <<>> /\ cursor = 0 /\ seenCursors = {} /\ edges = <<>>
        /\ issues = <<>> /\ partial = FALSE /\ expandedTargets = {} /\ at = "root"
    BY <1>1 DEF Init, BudgetInit, WalkInit
  <2>2. WalkType
    <3>1. frames \in Seq(Frames) /\ hints \in Seq(Keys) /\ edges \in Seq(Edges) /\ issues \in Seq(Issues)
      BY <2>1
    <3>2. cursor \in Nat /\ seenCursors \subseteq Nat /\ partial \in BOOLEAN /\ expandedTargets \subseteq Keys
      BY <2>1
    <3> QED
      BY <2>1, <3>1, <3>2 DEF WalkType, Gathering
  <2>3. Gathers /\ Placed
    BY <2>1 DEF Gathers, Placed, Gathering
  <2>4. OpenFrames /\ EdgesBelow /\ FoundOnce /\ FoundNew /\ OneEdgeEach
    BY <2>1 DEF OpenFrames, EdgesBelow, FoundOnce, FoundNew, OneEdgeEach
  <2> QED
    BY <2>2, <2>3, <2>4 DEF OnceInv
<1> QED
  BY <1>1

LEMMA OnceStep == OnceInv /\ [Next]_vars => OnceInv'
<1>1. SUFFICES ASSUME OnceInv, [Next]_vars PROVE OnceInv'
  OBVIOUS
<1>2. CASE ReadRoot
  BY <1>1, <1>2, ReadRootOnce
<1>3. CASE Expand
  BY <1>1, <1>3, ExpandOnce
<1>4. CASE Edge
  BY <1>1, <1>4, EdgeTypes, EdgeStep DEF Edge
<1>5. CASE NextItem
  BY <1>1, <1>5, NextItemTypes, NextItemOnce
<1>6. CASE NoMoreItems
  BY <1>1, <1>6, NoMoreItemsOnce
<1>7. CASE HintsDone
  BY <1>1, <1>7, HintsDoneTypes, HintsDoneOnce
<1>8. CASE ChargeHint
  BY <1>1, <1>8, ChargeHintTypes, ChargeHintOnce
<1>9. CASE Fetched
  BY <1>1, <1>9, FetchedTypes, FetchedOnce
<1>10. CASE FetchStops \/ PageStops
  BY <1>1, <1>10, StopsOnce
<1>11. CASE TurnPage
  BY <1>1, <1>11, TurnPageTypes, TurnPageOnce
<1>12. CASE PageArrives
  BY <1>1, <1>12, PageArrivesTypes, PageArrivesOnce
<1>13. CASE Abort \/ (RefNext /\ UNCHANGED walkVars) \/ UNCHANGED vars
  BY <1>1, <1>13, StillSteps, StillOnce
<1> QED
  BY <1>1, <1>2, <1>3, <1>4, <1>5, <1>6, <1>7, <1>8, <1>9, <1>10, <1>11, <1>12, <1>13 DEF Next, WalkNext, WalkStep

-----------------------------------------------------------------------------
(***************************************************************************)
(* No inline target is lost.  Unless the walk calls itself partial, each   *)
(* one of an entity that was expanded is traced already or is still to     *)
(* come: it is found, or among the hints, or of an item further on.        *)
(***************************************************************************)
Inline(k, i, t) == \E n \in DOMAIN ItemsOf(k)[i].targets : ItemsOf(k)[i].targets[n] = t

Ahead(f, k, i, t) ==
  /\ f.key = k
  /\ i > f.item \/ (i = f.item /\ \E m \in DOMAIN f.found : f.found[m].key = t)
Hinted(k, i, t) == Gathering /\ Frame.key = k /\ Frame.item = i /\ \E m \in DOMAIN hints : hints[m] = t
Pending(k, i, t) == (\E n \in DOMAIN frames : Ahead(frames[n], k, i, t)) \/ Hinted(k, i, t)

NothingLost ==
  at # "threw" /\ ~partial =>
    \A k \in Walked : \A i \in DOMAIN ItemsOf(k) : \A t \in Keys :
      Inline(k, i, t) => Traced(k, i, t) \/ Pending(k, i, t)

Grows ==
  /\ \A n \in DOMAIN edges : n \in DOMAIN edges' /\ edges'[n] = edges[n]
  /\ \A n \in DOMAIN issues : n \in DOMAIN issues' /\ issues'[n] = issues[n]

LEMMA StaysTraced ==
  ASSUME Grows, NEW k, NEW i, NEW t, Traced(k, i, t)
  PROVE  Traced(k, i, t)'
BY DEF Grows, Traced

\* A step that gives up says so.
LEMMA GivesUp == ASSUME partial' \/ at' = "threw" PROVE NothingLost'
BY DEF NothingLost

Accounts(k, i, t) == Pending(k, i, t) => Traced(k, i, t)' \/ Pending(k, i, t)'

LEMMA AccountStep ==
  ASSUME NothingLost, at # "threw", partial' = partial, world' = world, expandedTargets' = expandedTargets, Grows,
         \A k \in Walked : \A i \in DOMAIN ItemsOf(k) : \A t \in Keys : Inline(k, i, t) => Accounts(k, i, t)
  PROVE  NothingLost'
<1>1. SUFFICES ASSUME ~partial PROVE NothingLost'
  BY GivesUp DEF NothingLost
<1>2. Walked' = Walked /\ \A k : ItemsOf(k)' = ItemsOf(k)
  BY DEF Walked, ItemsOf
<1>3. ASSUME NEW k \in Walked, NEW i \in DOMAIN ItemsOf(k), NEW t \in Keys, Inline(k, i, t)
      PROVE  Traced(k, i, t)' \/ Pending(k, i, t)'
  BY <1>1, <1>3, StaysTraced DEF NothingLost, Accounts
<1>4. \A k, i, t : Inline(k, i, t)' = Inline(k, i, t)
  BY <1>2, Zenon DEF Inline, ItemsOf
<1> QED
  BY <1>2, <1>3, <1>4, Zenon DEF NothingLost
\* The frames stay, and nothing was hinted, or the hints stay too.
LEMMA QuietAccounts ==
  ASSUME frames' = frames, world' = world, ~Gathering \/ hints = <<>> \/ (Gathering' /\ hints' = hints)
  PROVE  \A k, i, t : Accounts(k, i, t)
<1>1. SUFFICES ASSUME NEW k, NEW i, NEW t, Pending(k, i, t) PROVE Pending(k, i, t)'
  BY DEF Accounts
<1>2. CASE \E n \in DOMAIN frames : Ahead(frames[n], k, i, t)
  BY <1>2 DEF Pending, Ahead
<1>3. CASE Hinted(k, i, t)
  <2>1. Gathering' /\ hints' = hints /\ Frame' = Frame
    BY <1>3 DEF Hinted, Frame
  <2> QED
    BY <1>3, <2>1 DEF Hinted, Pending
<1> QED
  BY <1>1, <1>2, <1>3 DEF Pending

LEMMA SameGrows == ASSUME UNCHANGED <<edges, issues>> PROVE Grows
BY DEF Grows

LEMMA ReadRootLoses == ASSUME OnceInv, NothingLost, ReadRoot PROVE NothingLost'
<1>1. /\ at = "root" /\ UNCHANGED <<world, frames, edges, issues, partial, expandedTargets>> /\ ~Gathering
  BY DEF ReadRoot, inputVars, Gathering
<1> QED
  BY <1>1, QuietAccounts, SameGrows, AccountStep

LEMMA ExpandLoses == ASSUME OnceInv, NothingLost, Expand PROVE NothingLost'
<1>1. /\ at = "expand" /\ ~Gathering /\ world' = world /\ edges' = edges
      /\ expandedTargets' = expandedTargets \cup {entering.key}
  BY DEF Expand, inputVars, Gathering
<1>2. CASE ~AlreadyExpanded(entering.key) /\ ~world.relations[entering.key].valid
  BY <1>2, GivesUp DEF Expand
<1>3. CASE AlreadyExpanded(entering.key)
  <2>1. UNCHANGED <<frames, issues>> /\ partial' = (partial \/ FALSE) /\ expandedTargets' = expandedTargets
    BY <1>1, <1>3 DEF Expand, AlreadyExpanded
  <2>2. partial' = partial
    BY <2>1 DEF OnceInv, WalkType
  <2> QED
    BY <1>1, <2>1, <2>2, QuietAccounts, SameGrows, AccountStep
<1>4. CASE ~AlreadyExpanded(entering.key) /\ world.relations[entering.key].valid
  <2>1. PICK f : f = [key |-> entering.key, depth |-> entering.depth, item |-> 0, found |-> <<>>]
    OBVIOUS
  <2>2. frames' = Append(frames, f) /\ UNCHANGED <<issues, partial>>
    BY <1>4, <2>1 DEF Expand
  <2>3. /\ \A n \in DOMAIN frames : n \in DOMAIN frames' /\ frames'[n] = frames[n]
        /\ \E n \in DOMAIN frames' : frames'[n] = f
    <3>1. entering \in [key : Keys, depth : Nat] /\ WalkType
      BY <1>1 DEF OnceInv, WalkType
    <3>2. f \in Frames
      BY <2>1, <3>1 DEF Frames
    <3> QED
      BY <2>2, <3>1, <3>2, Pushed
  <2>4. SUFFICES ASSUME ~partial, NEW k \in Walked', NEW i \in DOMAIN ItemsOf(k), NEW t \in Keys, Inline(k, i, t)
        PROVE  Traced(k, i, t)' \/ Pending(k, i, t)'
    <3>1. \A k, i, t : Inline(k, i, t)' = Inline(k, i, t) /\ ItemsOf(k)' = ItemsOf(k)
      BY <1>1, Zenon DEF Inline, ItemsOf
    <3> QED
      BY <2>2, <3>1, Zenon DEF NothingLost
  <2>5. CASE k = entering.key
    <3>1. ItemsOf(k) \in Seq(Items)
      BY <1>1, <2>4, RelationsAssumption DEF OnceInv, WalkType, Walked, ItemsOf
    <3>2. i > 0
      BY <2>4, <3>1
    <3>3. Ahead(f, k, i, t)
      BY <2>1, <2>5, <3>2 DEF Ahead
    <3> QED
      BY <2>3, <3>3 DEF Pending, Ahead
  <2>6. CASE k # entering.key
    <3>1. k \in Walked
      BY <1>1, <2>4, <2>6 DEF Walked
    <3>2. Traced(k, i, t) \/ Pending(k, i, t)
      BY <1>1, <2>4, <3>1 DEF NothingLost
    <3>3. Grows
      BY <1>1, <2>2, SameGrows
    <3>4. ~Hinted(k, i, t)
      BY <1>1 DEF Hinted
    <3> QED
      BY <2>3, <3>2, <3>3, <3>4, StaysTraced DEF Pending, Ahead
  <2> QED
    BY <2>5, <2>6
<1> QED
  BY <1>2, <1>3, <1>4

LEMMA EdgeLoses == ASSUME OnceInv, NothingLost, Edge PROVE NothingLost'
<1> DEFINE top == Len(frames)
           target == Head(Frame.found)
<1>0. WalkType /\ frames # <<>>
  BY DEF OnceInv, WalkType, Edge
<1>1. /\ UNCHANGED <<world, expandedTargets, issues, partial>> /\ at = "edge" /\ Frame.found # <<>> /\ ~Gathering
  BY DEF Edge, inputVars, budgetVars, Gathering
<1>2. /\ top \in DOMAIN frames /\ frames[top] = Frame /\ Frame \in Frames /\ Frame.found \in Seq(Founds)
  BY <1>0, TopFrame DEF Frames
<1>3. PICK f \in Frames, e \in Edges :
        /\ f.key = Frame.key /\ f.item = Frame.item /\ f.found = Tail(Frame.found) /\ Amend(f)
        /\ e.from = Frame.key /\ e.item = Frame.item /\ e.to = target.key
        /\ \A n \in DOMAIN edges : n \in DOMAIN edges' /\ edges'[n] = edges[n]
        /\ \E n \in DOMAIN edges' : edges'[n] = e
  BY <1>0, EdgeMakes
<1>4. e.from = Frame.key /\ e.item = Frame.item /\ e.to = target.key
  BY <1>3
<1>5. /\ DOMAIN frames' = DOMAIN frames
      /\ \A i \in DOMAIN frames : frames'[i] = IF i = top THEN f ELSE frames[i]
  BY <1>0, <1>3, Amended
<1>6. /\ \A n \in DOMAIN edges : n \in DOMAIN edges' /\ edges'[n] = edges[n]
      /\ \E n \in DOMAIN edges' : edges'[n] = e
  BY <1>3
<1>7. \A m \in DOMAIN Frame.found : m = 1 \/ (m - 1 \in DOMAIN f.found /\ f.found[m - 1] = Frame.found[m])
  BY <1>1, <1>2, <1>3
<1>8. Frame.found[1] = target
  BY <1>1, <1>2
<1>9. Grows
  BY <1>1, <1>6 DEF Grows
<1>10. ASSUME NEW k, NEW i, NEW t, Pending(k, i, t) PROVE Traced(k, i, t)' \/ Pending(k, i, t)'
  <2>1. PICK n \in DOMAIN frames : Ahead(frames[n], k, i, t)
    BY <1>1, <1>10 DEF Pending, Hinted
  <2>2. Ahead(frames'[n], k, i, t) \/ Traced(k, i, t)'
    <3>1. CASE n # top \/ i > frames[n].item
      BY <1>2, <1>3, <1>5, <2>1, <3>1 DEF Ahead
    <3>2. CASE n = top /\ ~(i > frames[n].item)
      <4>1. PICK m \in DOMAIN Frame.found : Frame.found[m].key = t /\ i = Frame.item /\ k = Frame.key
        BY <1>2, <2>1, <3>2 DEF Ahead
      <4>2. CASE m = 1
        BY <1>4, <1>6, <1>8, <4>1, <4>2 DEF Traced
      <4>3. CASE m # 1
        BY <1>3, <1>5, <1>7, <3>2, <4>1, <4>3 DEF Ahead
      <4> QED
        BY <4>2, <4>3
    <3> QED
      BY <3>1, <3>2
  <2> QED
    BY <1>5, <2>1, <2>2 DEF Pending, Ahead
<1> QED
  BY <1>1, <1>9, <1>10, AccountStep DEF Accounts

LEMMA NextItemLoses == ASSUME OnceInv, NothingLost, NextItem PROVE NothingLost'
<1> DEFINE top == Len(frames)
<1>0. /\ WalkType /\ OpenFrames /\ frames # <<>> /\ at = "edge" /\ Frame.found = <<>> /\ ~Gathering
      /\ Frame.item < Len(ItemsOf(Frame.key)) /\ UNCHANGED <<world, edges, expandedTargets>>
  BY DEF OnceInv, NextItem, WalkType, inputVars, budgetVars, ItemsOf, Gathering
<1>1. CASE DepthExceeded(Frame.depth + 1)
  BY <1>1, GivesUp DEF NextItem
<1>2. CASE ~DepthExceeded(Frame.depth + 1)
  <2>1. PICK f : f = [Frame EXCEPT !.item = @ + 1]
    OBVIOUS
  <2>2. top \in DOMAIN frames /\ frames[top] = Frame /\ Frame \in Frames
    BY <1>0, TopFrame
  <2>3. f \in Frames /\ f.key = Frame.key /\ f.item = Frame.item + 1 /\ f.found = <<>> /\ Frame.item \in Nat
    BY <1>0, <2>1, <2>2 DEF Frames
  <2>4. /\ Amend(f) /\ UNCHANGED <<issues, partial>> /\ at' \in {"page", "hint"}
        /\ hints' = ItemsOf(Frame.key)[Frame.item + 1].targets
    BY <1>2, <2>1 DEF NextItem, ItemsOf
  <2>5. /\ DOMAIN frames' = DOMAIN frames /\ Frame' = f
        /\ \A i \in DOMAIN frames : frames'[i] = IF i = top THEN f ELSE frames[i]
    BY <1>0, <2>3, <2>4, Amended
  <2>6. ASSUME NEW k \in Walked, NEW i \in DOMAIN ItemsOf(k), NEW t \in Keys, Inline(k, i, t), Pending(k, i, t)
        PROVE  Pending(k, i, t)'
    <3>1. PICK n \in DOMAIN frames : Ahead(frames[n], k, i, t)
      BY <1>0, <2>6 DEF Pending, Hinted
    <3>2. CASE n # top
      BY <2>5, <3>1, <3>2 DEF Ahead, Pending
    <3>3. CASE n = top
      <4>1. k = Frame.key /\ i > Frame.item
        BY <1>0, <2>2, <3>1, <3>3 DEF Ahead
      <4>2. i \in Nat
        <5>1. ItemsOf(k) \in Seq(Items)
          BY <1>0, ItemType
        <5> QED
          BY <5>1
      <4>3. CASE i = Frame.item + 1
        <5>1. \E m \in DOMAIN hints' : hints'[m] = t
          BY <2>4, <2>6, <4>1, <4>3 DEF Inline
        <5>2. Hinted(k, i, t)'
          BY <2>3, <2>4, <2>5, <4>1, <4>3, <5>1 DEF Hinted, Gathering
        <5> QED
          BY <5>2 DEF Pending
      <4>4. CASE i # Frame.item + 1
        <5>1. i > f.item
          BY <2>3, <4>1, <4>2, <4>4
        <5> QED
          BY <2>2, <2>3, <2>5, <4>1, <5>1 DEF Pending, Ahead
      <4> QED
        BY <4>3, <4>4
    <3> QED
      BY <3>2, <3>3
  <2> QED
    BY <1>0, <2>4, <2>6, SameGrows, AccountStep DEF Accounts
<1> QED
  BY <1>1, <1>2

LEMMA NoMoreItemsLoses == ASSUME OnceInv, NothingLost, NoMoreItems PROVE NothingLost'
<1>1. /\ WalkType /\ frames # <<>> /\ Leave(Front(frames)) /\ at = "edge" /\ ~Gathering
      /\ UNCHANGED <<world, edges, issues, partial, expandedTargets>>
      /\ Frame.found = <<>> /\ Frame.item = Len(ItemsOf(Frame.key))
  BY DEF OnceInv, NoMoreItems, WalkType, inputVars, budgetVars, Gathering, ItemsOf
<1>2. /\ DOMAIN frames' = 1 .. (Len(frames) - 1) /\ DOMAIN frames = 1 .. Len(frames) /\ Len(frames) \in Nat
      /\ \A i \in 1 .. (Len(frames) - 1) : frames'[i] = frames[i]
      /\ Frame = frames[Len(frames)]
  BY <1>1, Popped, TopFrame
<1>3. \A n \in DOMAIN frames : n = Len(frames) \/ (n \in DOMAIN frames' /\ frames'[n] = frames[n])
  BY <1>2
<1>4. ASSUME NEW k \in Walked, NEW i \in DOMAIN ItemsOf(k), NEW t, Pending(k, i, t) PROVE Pending(k, i, t)'
  <2>1. PICK n \in DOMAIN frames : Ahead(frames[n], k, i, t)
    BY <1>1, <1>4 DEF Pending, Hinted
  <2>2. n # Len(frames)
    <3>1. SUFFICES ASSUME n = Len(frames) PROVE FALSE
      OBVIOUS
    <3>2. k = Frame.key /\ i > Frame.item
      BY <1>1, <1>2, <2>1, <3>1 DEF Ahead
    <3>3. ItemsOf(k) \in Seq(Items)
      BY <1>1, ItemType
    <3> QED
      BY <1>1, <3>2, <3>3
  <2> QED
    BY <1>3, <2>1, <2>2 DEF Pending, Ahead
<1> QED
  BY <1>1, <1>4, SameGrows, AccountStep DEF Accounts

LEMMA HintsDoneLoses == ASSUME OnceInv, NothingLost, HintsDone PROVE NothingLost'
<1>1. /\ at = "hint" /\ hints = <<>>
      /\ UNCHANGED <<world, frames, edges, issues, partial, expandedTargets>>
  BY DEF HintsDone, inputVars, budgetVars
<1> QED
  BY <1>1, QuietAccounts, SameGrows, AccountStep
\* The first hint is handled: found, traced, or no inline target.
LEMMA HintAccounts ==
  ASSUME OnceInv, Gathering, at' = "hint", world' = world, hints # <<>>, hints' = Tail(hints),
         NEW k, NEW i, NEW t, Pending(k, i, t),
         \/ /\ frames' = frames
            /\ k = Frame.key /\ i = Frame.item /\ t = Head(hints) => Traced(k, i, t)'
         \/ \E fetched \in BOOLEAN : Found(Head(hints), fetched)
  PROVE  Traced(k, i, t)' \/ Pending(k, i, t)'
<1> DEFINE top == Len(frames)
<1>1. WalkType /\ frames # <<>> /\ Gathering' /\ hints \in Seq(Keys) /\ Head(hints) \in Keys
  BY HintsType DEF OnceInv, WalkType, Gathering
<1>2. top \in DOMAIN frames /\ frames[top] = Frame
  BY <1>1, TopFrame
<1>3. /\ Frame'.key = Frame.key /\ Frame'.item = Frame.item
      /\ \A n \in DOMAIN frames : Ahead(frames[n], k, i, t) => Pending(k, i, t)'
      /\ \/ k = Frame.key /\ i = Frame.item /\ t = Head(hints) => Traced(k, i, t)'
         \/ k = Frame.key /\ i = Frame.item /\ t = Head(hints) => Pending(k, i, t)'
  <2>1. CASE /\ frames' = frames
             /\ k = Frame.key /\ i = Frame.item /\ t = Head(hints) => Traced(k, i, t)'
    BY <2>1 DEF Frame, Pending, Ahead
  <2>2. CASE \E fetched \in BOOLEAN : Found(Head(hints), fetched)
    <3>1. PICK f \in Frames :
            /\ f.key = Frame.key /\ f.item = Frame.item /\ Amend(f)
            /\ f.found \in Seq(Founds) /\ Frame.found \in Seq(Founds)
            /\ Len(f.found) = Len(Frame.found) + 1 /\ Len(Frame.found) \in Nat
            /\ \A n \in 1 .. Len(Frame.found) : f.found[n] = Frame.found[n]
            /\ f.found[Len(Frame.found) + 1].key = Head(hints)
      BY <1>1, <2>2, FoundFrame
    <3>2. /\ DOMAIN frames' = DOMAIN frames /\ Frame' = f
          /\ \A n \in DOMAIN frames : frames'[n] = IF n = top THEN f ELSE frames[n]
      BY <1>1, <3>1, Amended
    <3>3. /\ \A m \in DOMAIN Frame.found : m \in DOMAIN f.found /\ f.found[m] = Frame.found[m]
          /\ \E m \in DOMAIN f.found : f.found[m].key = Head(hints)
      <4>1. PICK len : len = Len(Frame.found)
        OBVIOUS
      <4>2. len \in Nat /\ DOMAIN Frame.found = 1 .. len /\ DOMAIN f.found = 1 .. (len + 1)
        BY <3>1, <4>1
      <4>3. len + 1 \in DOMAIN f.found /\ f.found[len + 1].key = Head(hints)
        BY <3>1, <4>1, <4>2
      <4>4. \A m \in DOMAIN Frame.found : m \in DOMAIN f.found /\ f.found[m] = Frame.found[m]
        BY <3>1, <4>1, <4>2
      <4> QED
        BY <4>3, <4>4
    <3>4. \A n \in DOMAIN frames : Ahead(frames[n], k, i, t) => Pending(k, i, t)'
      <4>1. SUFFICES ASSUME NEW n \in DOMAIN frames, Ahead(frames[n], k, i, t) PROVE Ahead(frames'[n], k, i, t)
        BY <3>2 DEF Pending, Ahead
      <4> QED
        BY <1>2, <3>1, <3>2, <3>3, <4>1 DEF Ahead
    <3>5. k = Frame.key /\ i = Frame.item /\ t = Head(hints) => Pending(k, i, t)'
      BY <1>2, <3>1, <3>2, <3>3 DEF Pending, Ahead
    <3> QED
      BY <3>1, <3>2, <3>4, <3>5
  <2> QED
    BY <2>1, <2>2
<1>4. CASE \E n \in DOMAIN frames : Ahead(frames[n], k, i, t)
  BY <1>3, <1>4
<1>5. CASE Hinted(k, i, t)
  <2>1. PICK m \in DOMAIN hints : hints[m] = t
    BY <1>5 DEF Hinted
  <2>2. k = Frame.key /\ i = Frame.item
    BY <1>5 DEF Hinted
  <2>3. CASE m = 1
    BY <1>1, <1>3, <2>1, <2>2, <2>3
  <2>4. CASE m # 1
    <3>1. m - 1 \in DOMAIN hints' /\ hints'[m - 1] = t
      BY <1>1, <2>1, <2>4
    <3>2. Hinted(k, i, t)'
      BY <1>1, <1>3, <2>2, <3>1 DEF Hinted
    <3> QED
      BY <3>2 DEF Pending
  <2> QED
    BY <2>3, <2>4
<1> QED
  BY <1>4, <1>5 DEF Pending

\* A collection lists no target inline.
LEMMA NoneInline ==
  ASSUME OnceInv, Gathering, Item.cardinality = "collection", NEW t
  PROVE  ~Inline(Frame.key, Frame.item, t)
<1>1. WalkType /\ OpenFrames /\ frames # <<>> /\ Frame.item >= 1
  BY DEF OnceInv, WalkType, Gathers
<1> QED
  BY <1>1, ItemNow DEF Inline

LEMMA ChargeHintLoses == ASSUME OnceInv, NothingLost, ChargeHint PROVE NothingLost'
<1>1. /\ at = "hint" /\ hints # <<>> /\ Gathering /\ WalkType /\ frames # <<>>
      /\ UNCHANGED <<world, edges, expandedTargets>>
  BY DEF ChargeHint, inputVars, Gathering, OnceInv, WalkType
<1>2. \/ /\ at' = "hint" /\ hints' = Tail(hints) /\ UNCHANGED <<issues, partial>>
         /\ Found(Head(hints), FALSE) \/ (HintOnly /\ frames' = frames)
      \/ Stop("budget")
      \/ at' = "fetch" /\ UNCHANGED <<frames, hints, issues, partial>>
  BY <1>1 DEF ChargeHint, EdgeForDuplicate
<1>3. CASE /\ at' = "hint" /\ hints' = Tail(hints) /\ UNCHANGED <<issues, partial>>
           /\ Found(Head(hints), FALSE) \/ (HintOnly /\ frames' = frames)
  <2>1. ASSUME NEW k, NEW i, NEW t, Inline(k, i, t), Pending(k, i, t) PROVE Traced(k, i, t)' \/ Pending(k, i, t)'
    <3>1. HintOnly => ~(k = Frame.key /\ i = Frame.item)
      BY <1>1, <2>1, NoneInline DEF HintOnly
    <3> QED
      BY <1>1, <1>3, <2>1, <3>1, HintAccounts
  <2> QED
    BY <1>1, <1>3, <2>1, SameGrows, AccountStep DEF Accounts
<1>4. CASE Stop("budget")
  BY <1>1, <1>4, KnownCodes, StopType, GivesUp
<1>5. CASE at' = "fetch" /\ UNCHANGED <<frames, hints, issues, partial>>
  <2>1. Gathering'
    BY <1>5 DEF Gathering
  <2> QED
    BY <1>1, <1>5, <2>1, QuietAccounts, SameGrows, AccountStep
<1> QED
  BY <1>2, <1>3, <1>4, <1>5

LEMMA FetchedLoses == ASSUME OnceInv, NothingLost, Fetched PROVE NothingLost'
<1>1. /\ at = "fetch" /\ at' = "hint" /\ hints # <<>> /\ hints' = Tail(hints) /\ Gathering /\ WalkType
      /\ UNCHANGED <<world, edges, expandedTargets, partial>> /\ Head(hints) \in Keys
  BY HintsType DEF Fetched, inputVars, Gathering, Gathers, OnceInv
<1>2. CASE Found(Head(hints), TRUE) /\ UNCHANGED issues
  <2>1. ASSUME NEW k, NEW i, NEW t, Pending(k, i, t) PROVE Traced(k, i, t)' \/ Pending(k, i, t)'
    BY <1>1, <1>2, <2>1, HintAccounts
  <2> QED
    BY <1>1, <1>2, <2>1, SameGrows, AccountStep DEF Accounts
<1>3. CASE issues' = Append(issues, [code |-> "unresolvable", key |-> Head(hints)]) /\ UNCHANGED frames
  <2>1. /\ \A n \in DOMAIN issues : n \in DOMAIN issues' /\ issues'[n] = issues[n]
        /\ \E n \in DOMAIN issues' : issues'[n].code = "unresolvable" /\ issues'[n].key = Head(hints)
    <3>1. issues \in Seq(Issues)
      BY <1>1 DEF WalkType
    <3> QED
      BY <1>1, <1>3, <3>1, KnownCodes, IssueAdded
  <2>2. Grows
    BY <1>1, <2>1 DEF Grows
  <2>3. ASSUME NEW k, NEW i, NEW t, Pending(k, i, t) PROVE Traced(k, i, t)' \/ Pending(k, i, t)'
    <3>1. t = Head(hints) => Traced(k, i, t)'
      BY <2>1 DEF Traced
    <3> QED
      BY <1>1, <1>3, <2>3, <3>1, HintAccounts
  <2> QED
    BY <1>1, <2>2, <2>3, AccountStep DEF Accounts
<1> QED
  BY <1>2, <1>3 DEF Fetched

LEMMA StopsLose == ASSUME OnceInv, FetchStops \/ PageStops PROVE NothingLost'
<1>1. WalkType /\ frames # <<>> /\ (Stop("budget") \/ Stop("aborted"))
  BY DEF OnceInv, FetchStops, PageStops, RefusedOrCalledOff, WalkType, Gathering
<1> QED
  BY <1>1, KnownCodes, StopType, GivesUp

LEMMA TurnPageLoses == ASSUME OnceInv, NothingLost, TurnPage PROVE NothingLost'
<1>1. /\ at = "page" /\ hints = <<>> /\ WalkType /\ frames # <<>> /\ UNCHANGED <<world, edges, expandedTargets>>
  BY DEF TurnPage, inputVars, OnceInv, Gathers, Gathering, WalkType
<1>2. UNCHANGED <<frames, issues, partial>> \/ partial' = TRUE \/ Stop("budget")
  BY DEF TurnPage
<1>3. CASE UNCHANGED <<frames, issues, partial>>
  BY <1>1, <1>3, QuietAccounts, SameGrows, AccountStep
<1> QED
  BY <1>1, <1>2, <1>3, KnownCodes, StopType, GivesUp

LEMMA PageArrivesLoses == ASSUME OnceInv, NothingLost, PageArrives PROVE NothingLost'
<1>1. /\ at = "paging" /\ hints = <<>> /\ UNCHANGED <<world, frames, edges, expandedTargets>>
  BY DEF PageArrives, inputVars, OnceInv, Gathers, Gathering
<1>2. UNCHANGED <<issues, partial>> \/ partial' = TRUE
  BY DEF PageArrives
<1>3. CASE UNCHANGED <<issues, partial>>
  BY <1>1, <1>3, QuietAccounts, SameGrows, AccountStep
<1> QED
  BY <1>2, <1>3, GivesUp

LEMMA StillLoses == ASSUME NothingLost, Still PROVE NothingLost'
<1>1. /\ UNCHANGED <<world, frames, hints, edges, issues, partial, expandedTargets, at>>
      /\ (Gathering => Gathering')
  BY DEF Still, Gathering
<1>2. CASE at = "threw"
  BY <1>1, <1>2, GivesUp
<1>3. CASE at # "threw"
  BY <1>1, <1>3, QuietAccounts, SameGrows, AccountStep
<1> QED
  BY <1>2, <1>3

LEMMA LostStep == OnceInv /\ NothingLost /\ [Next]_vars => NothingLost'
<1>1. SUFFICES ASSUME OnceInv, NothingLost, [Next]_vars PROVE NothingLost'
  OBVIOUS
<1>2. CASE ReadRoot
  BY <1>1, <1>2, ReadRootLoses
<1>3. CASE Expand
  BY <1>1, <1>3, ExpandLoses
<1>4. CASE Edge
  BY <1>1, <1>4, EdgeLoses
<1>5. CASE NextItem
  BY <1>1, <1>5, NextItemLoses
<1>6. CASE NoMoreItems
  BY <1>1, <1>6, NoMoreItemsLoses
<1>7. CASE HintsDone
  BY <1>1, <1>7, HintsDoneLoses
<1>8. CASE ChargeHint
  BY <1>1, <1>8, ChargeHintLoses
<1>9. CASE Fetched
  BY <1>1, <1>9, FetchedLoses
<1>10. CASE FetchStops \/ PageStops
  BY <1>1, <1>10, StopsLose
<1>11. CASE TurnPage
  BY <1>1, <1>11, TurnPageLoses
<1>12. CASE PageArrives
  BY <1>1, <1>12, PageArrivesLoses
<1>13. CASE Abort \/ (RefNext /\ UNCHANGED walkVars) \/ UNCHANGED vars
  BY <1>1, <1>13, StillSteps, StillLoses
<1> QED
  BY <1>1, <1>2, <1>3, <1>4, <1>5, <1>6, <1>7, <1>8, <1>9, <1>10, <1>11, <1>12, <1>13 DEF Next, WalkNext, WalkStep

LEMMA LostInit == Init => NothingLost
BY DEF Init, BudgetInit, NothingLost, Walked

\* A walk has one edge for each place that lists a target, however cyclic the
\* graph and however the clients interleave; and one that ends and does not
\* call itself partial has an edge or an issue for every inline target.
THEOREM EdgesCompleteAlways == Spec => []EdgesComplete
<1> DEFINE Inv == OnceInv /\ NothingLost
<1>1. Init => Inv
  BY OnceInit, LostInit
<1>2. Inv /\ [Next]_vars => Inv'
  BY OnceStep, LostStep
<1>3. Inv => EdgesComplete
  <2>1. SUFFICES ASSUME OnceInv, NothingLost, at = "done", ~partial, NEW k \in Walked, NEW i \in DOMAIN ItemsOf(k),
                        NEW n \in DOMAIN ItemsOf(k)[i].targets
        PROVE  Traced(k, i, ItemsOf(k)[i].targets[n])
    BY DEF OnceInv, EdgesComplete
  <2>2. PICK t : t = ItemsOf(k)[i].targets[n]
    OBVIOUS
  <2>3. t \in Keys
    <3>1. ItemsOf(k)[i] \in Items
      BY <2>1, ItemType DEF OnceInv
    <3> QED
      BY <2>2, <3>1 DEF Items
  <2>4. frames = <<>> /\ ~Gathering
    BY <2>1 DEF OnceInv, WalkType, Gathering
  <2>5. ~Pending(k, i, t)
    BY <2>4 DEF Pending, Hinted
  <2> QED
    BY <2>1, <2>2, <2>3, <2>5 DEF NothingLost, Inline
<1> QED
  BY <1>1, <1>2, <1>3, PTL DEF Spec
=============================================================================
