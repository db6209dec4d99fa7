------------------------- MODULE DiscoverAll_proofs -------------------------
(***************************************************************************)
(* Invariance proofs for DiscoverAll: what the consumer gets is what the   *)
(* publisher lists, in order, and all of it when the walk ends well, for   *)
(* any publisher, limits and size of the window.                           *)
(***************************************************************************)
EXTENDS DiscoverAll, FiniteSetTheorems, SequenceTheorems, TLAPS

\* Induction over the natural numbers, for a property that is a set.
LEMMA SetInduction ==
  ASSUME NEW S, 0 \in S, \A k \in Nat : k \in S => k + 1 \in S
  PROVE  \A n \in Nat : n \in S
<1>1. SUFFICES ASSUME NEW n \in Nat, n \notin S PROVE FALSE
  OBVIOUS
<1> DEFINE A == {k \in 0 .. n : k \in S}
           f == [k \in A |-> k + 1]
<1>2. \A k \in A : k + 1 \in A \ {0}
  BY <1>1
<1>3. f \in Injection(A, A \ {0})
  BY <1>2 DEF Injection, IsInjective
<1>4. IsFiniteSet(A) /\ Cardinality(A) \in Nat
  <2>1. IsFiniteSet(0 .. n)
    BY FS_Interval
  <2>2. A \in SUBSET (0 .. n)
    OBVIOUS
  <2>3. IsFiniteSet(A)
    BY <2>1, <2>2, FS_Subset
  <2> QED BY <2>3, FS_CardinalityType
<1>5. IsFiniteSet(A \ {0}) /\ Cardinality(A \ {0}) = Cardinality(A) - 1
  <2>1. 0 \in A
    BY <1>1
  <2> QED BY <2>1, <1>4, FS_RemoveElement
<1>6. Cardinality(A) <= Cardinality(A \ {0})
  BY <1>3, <1>5, FS_Injection
<1> QED BY <1>4, <1>5, <1>6

-----------------------------------------------------------------------------
(* A sequence of lists, one after the other.                               *)

\* flat[i] is what the first i lists hold.
FlatUpto(k, seqs, flat) ==
  flat = [i \in 1 .. k |-> IF i = 1 THEN seqs[i] ELSE flat[i - 1] \o seqs[i]]
Flat(seqs, flat) == FlatUpto(Len(seqs), seqs, flat)

\* What one step of the flattening does.
LEMMA FlatAt ==
  ASSUME NEW k \in Nat, NEW seqs, NEW flat, FlatUpto(k, seqs, flat), NEW i \in 1 .. k
  PROVE  flat[i] = IF i = 1 THEN seqs[i] ELSE flat[i - 1] \o seqs[i]
<1>1. \A h : h = [j \in 1 .. k |-> IF j = 1 THEN seqs[j] ELSE flat[j - 1] \o seqs[j]]
        => h[i] = IF i = 1 THEN seqs[i] ELSE flat[i - 1] \o seqs[i]
  OBVIOUS
<1> QED BY <1>1, Zenon DEF FlatUpto

\* The recursion of FlattenSeq has a solution.
LEMMA FlatExists ==
  ASSUME NEW S, NEW seqs \in Seq(Seq(S))
  PROVE  \E flat : Flat(seqs, flat)
<1> DEFINE K == {k \in Nat : \E flat : FlatUpto(k, seqs, flat)}
<1>1. 0 \in K
  <2>1. <<>> = [i \in 1 .. 0 |-> IF i = 1 THEN seqs[i] ELSE <<>>[i - 1] \o seqs[i]]
    OBVIOUS
  <2> QED BY <2>1 DEF FlatUpto
<1>2. ASSUME NEW k \in Nat, k \in K PROVE k + 1 \in K
  <2>1. PICK flat : FlatUpto(k, seqs, flat)
    BY <1>2
  <2> DEFINE step(i) == IF i = 1 THEN seqs[i] ELSE flat[i - 1] \o seqs[i]
             next == [i \in 1 .. (k + 1) |-> step(i)]
  <2>2. \A i \in 1 .. k : next[i] = flat[i]
    BY <2>1, FlatAt
  <2>3. \A i \in 1 .. (k + 1) : next[i] = IF i = 1 THEN seqs[i] ELSE next[i - 1] \o seqs[i]
    <3>1. ASSUME NEW i \in 1 .. (k + 1) PROVE next[i] = IF i = 1 THEN seqs[i] ELSE next[i - 1] \o seqs[i]
      <4>1. next[i] = step(i)
        OBVIOUS
      <4>2. i # 1 => next[i - 1] = flat[i - 1]
        <5>1. i # 1 => i - 1 \in 1 .. k
          OBVIOUS
        <5> HIDE DEF next
        <5> QED BY <2>2, <5>1
      <4> HIDE DEF next
      <4> QED BY <4>1, <4>2
    <3> QED BY <3>1
  <2>4. next = [i \in 1 .. (k + 1) |-> next[i]]
    OBVIOUS
  <2> HIDE DEF next
  <2>5. FlatUpto(k + 1, seqs, next)
    BY <2>3, <2>4 DEF FlatUpto
  <2>6. k + 1 \in Nat /\ \E h : FlatUpto(k + 1, seqs, h)
    BY <2>5
  <2> QED BY <2>6
<1>3. Len(seqs) \in K
  <2> HIDE DEF K
  <2>1. \A n \in Nat : n \in K
    BY <1>1, <1>2, SetInduction
  <2>2. Len(seqs) \in Nat
    OBVIOUS
  <2> QED BY <2>1, <2>2
<1> QED BY <1>3 DEF Flat

LEMMA FlatType ==
  ASSUME NEW S, NEW seqs \in Seq(Seq(S)), NEW flat, Flat(seqs, flat)
  PROVE  \A i \in 1 .. Len(seqs) : flat[i] \in Seq(S)
<1> DEFINE K == {k \in Nat : k \in 1 .. Len(seqs) => flat[k] \in Seq(S)}
<1>1. 0 \in K
  OBVIOUS
<1>2. ASSUME NEW k \in Nat, k \in K PROVE k + 1 \in K
  <2>1. SUFFICES ASSUME k + 1 \in 1 .. Len(seqs) PROVE flat[k + 1] \in Seq(S)
    OBVIOUS
  <2>2. flat[k + 1] = IF k + 1 = 1 THEN seqs[k + 1] ELSE flat[k] \o seqs[k + 1]
    BY <2>1, FlatAt DEF Flat
  <2>3. seqs[k + 1] \in Seq(S)
    BY <2>1
  <2>4. CASE k = 0
    BY <2>2, <2>3, <2>4
  <2>5. CASE k # 0
    <3>1. flat[k] \in Seq(S)
      BY <1>2, <2>1, <2>5
    <3> QED BY <2>2, <2>3, <2>5, <3>1
  <2> QED BY <2>4, <2>5
<1>3. \A n \in Nat : n \in K
  <2> HIDE DEF K
  <2> QED BY <1>1, <1>2, SetInduction
<1> QED BY <1>3

AgreesUpto(k, f, g) == \A i \in 1 .. k : f[i] = g[i]
Begins(a, b) == Len(a) \in Nat /\ Len(b) \in Nat /\ Len(a) <= Len(b) /\ AgreesUpto(Len(a), a, b)

\* What the first lists hold does not depend on how many more there are.
LEMMA FlatAgree ==
  ASSUME NEW a, NEW b, NEW f, NEW g, Flat(a, f), Flat(b, g), Begins(a, b)
  PROVE  AgreesUpto(Len(a), f, g)
<1>0. Len(a) \in Nat /\ Len(b) \in Nat /\ Len(a) <= Len(b)
  BY DEF Begins
<1> DEFINE K == {k \in Nat : k \in 1 .. Len(a) => f[k] = g[k]}
<1>1. 0 \in K
  OBVIOUS
<1>2. ASSUME NEW k \in Nat, k \in K PROVE k + 1 \in K
  <2>1. SUFFICES ASSUME k + 1 \in 1 .. Len(a) PROVE f[k + 1] = g[k + 1]
    OBVIOUS
  <2>2. f[k + 1] = IF k + 1 = 1 THEN a[k + 1] ELSE f[k] \o a[k + 1]
    BY <2>1, <1>0, FlatAt DEF Flat
  <2>3. g[k + 1] = IF k + 1 = 1 THEN b[k + 1] ELSE g[k] \o b[k + 1]
    BY <2>1, <1>0, FlatAt DEF Flat
  <2>4. k # 0 => f[k] = g[k]
    BY <1>2, <2>1
  <2> QED BY <2>1, <2>2, <2>3, <2>4 DEF Begins, AgreesUpto
<1>3. \A n \in Nat : n \in K
  <2> HIDE DEF K
  <2> QED BY <1>1, <1>2, SetInduction
<1> QED BY <1>3, <1>0 DEF AgreesUpto

\* FlattenSeq is the last step of the flattening.
LEMMA FlattenIs ==
  ASSUME NEW S, NEW seqs \in Seq(Seq(S))
  PROVE  \E flat : /\ Flat(seqs, flat)
                   /\ FlattenSeq(seqs) = IF Len(seqs) = 0 THEN <<>> ELSE flat[Len(seqs)]
<1> DEFINE f == CHOOSE flat : flat = [i \in 1 .. Len(seqs) |-> IF i = 1 THEN seqs[i] ELSE flat[i - 1] \o seqs[i]]
<1>1. FlattenSeq(seqs) = IF Len(seqs) = 0 THEN seqs ELSE f[Len(seqs)]
  BY DEF FlattenSeq
<1>2. Flat(seqs, f)
  BY FlatExists, Zenon DEF Flat, FlatUpto
<1>3. Len(seqs) = 0 => seqs = <<>>
  OBVIOUS
<1> HIDE DEF f
<1> QED BY <1>1, <1>2, <1>3

LEMMA FlattenType ==
  ASSUME NEW S, NEW seqs \in Seq(Seq(S))
  PROVE  FlattenSeq(seqs) \in Seq(S)
<1>1. PICK flat : /\ Flat(seqs, flat)
                  /\ FlattenSeq(seqs) = IF Len(seqs) = 0 THEN <<>> ELSE flat[Len(seqs)]
  BY FlattenIs
<1>2. \A i \in 1 .. Len(seqs) : flat[i] \in Seq(S)
  BY <1>1, FlatType
<1>3. Len(seqs) \in Nat
  OBVIOUS
<1> QED BY <1>1, <1>2, <1>3

LEMMA FlattenEmpty == FlattenSeq(<<>>) = <<>>
BY DEF FlattenSeq

\* One more list at the end is appended at the end.
LEMMA FlattenGrows ==
  ASSUME NEW S, NEW seqs \in Seq(Seq(S)), NEW more \in Seq(Seq(S)),
         Len(more) = Len(seqs) + 1, \A i \in 1 .. Len(seqs) : seqs[i] = more[i]
  PROVE  FlattenSeq(more) = FlattenSeq(seqs) \o more[Len(more)]
<1>1. PICK flat : /\ Flat(seqs, flat)
                  /\ FlattenSeq(seqs) = IF Len(seqs) = 0 THEN <<>> ELSE flat[Len(seqs)]
  BY FlattenIs
<1>2. PICK wide : /\ Flat(more, wide)
                  /\ FlattenSeq(more) = IF Len(more) = 0 THEN <<>> ELSE wide[Len(more)]
  BY FlattenIs
<1>3. Len(seqs) \in Nat /\ Len(more) \in Nat /\ Len(seqs) <= Len(more)
  OBVIOUS
<1>4. \A i \in 1 .. Len(seqs) : flat[i] = wide[i]
  <2>1. AgreesUpto(Len(seqs), seqs, more)
    BY Zenon DEF AgreesUpto
  <2>2. Begins(seqs, more)
    BY <1>3, <2>1, Zenon DEF Begins
  <2>3. Flat(seqs, flat) /\ Flat(more, wide)
    BY <1>1, <1>2
  <2>4. AgreesUpto(Len(seqs), flat, wide)
    BY <2>2, <2>3, FlatAgree, Zenon
  <2> QED BY <2>4, Zenon DEF AgreesUpto
<1>5. wide[Len(more)] = IF Len(more) = 1 THEN more[Len(more)] ELSE wide[Len(seqs)] \o more[Len(more)]
  BY <1>2, <1>3, FlatAt DEF Flat
<1>6. more[Len(more)] \in Seq(S)
  BY <1>3
<1>7. CASE Len(seqs) = 0
  <2>1. FlattenSeq(more) = more[Len(more)] /\ FlattenSeq(seqs) = <<>>
    BY <1>1, <1>2, <1>5, <1>7
  <2> QED BY <1>6, <2>1
<1>8. CASE Len(seqs) # 0
  <2>1. Len(seqs) \in 1 .. Len(seqs) /\ Len(more) # 0 /\ Len(more) # 1
    BY <1>3, <1>8
  <2> QED BY <2>1, <1>1, <1>2, <1>4, <1>5, <1>8
<1> QED BY <1>7, <1>8

Joins(whole, front, back) == whole = front \o back
Starts(S, whole, front) == \E back \in Seq(S) : whole = front \o back

\* What comes after a sequence leaves its start as it is.
LEMMA StartsFurther ==
  ASSUME NEW S, NEW whole, NEW front \in Seq(S), NEW back \in Seq(S), NEW start \in Seq(S),
         Joins(whole, front, back), Starts(S, front, start)
  PROVE  Starts(S, whole, start)
<1>1. PICK rest \in Seq(S) : front = start \o rest
  BY DEF Starts
<1>2. (start \o rest) \o back = start \o (rest \o back)
  BY ConcatAssociative
<1>3. whole = start \o (rest \o back)
  <2>1. whole = front \o back
    BY DEF Joins
  <2> QED BY <2>1, <1>1, <1>2
<1>4. rest \o back \in Seq(S)
  OBVIOUS
<1> QED BY <1>3, <1>4 DEF Starts

\* A longer list of lists holds what a shorter one holds, and more after it.
LEMMA FlattenPrefix ==
  ASSUME NEW S, NEW seqs \in Seq(Seq(S)), NEW more \in Seq(Seq(S)), Begins(seqs, more)
  PROVE  Starts(S, FlattenSeq(more), FlattenSeq(seqs))
<1> DEFINE Grows(k) == Len(seqs) <= k /\ k <= Len(more) => Starts(S, FlattenSeq(SubSeq(more, 1, k)), FlattenSeq(seqs))
           K == {k \in Nat : Grows(k)}
<1>0. FlattenSeq(seqs) \in Seq(S) /\ Len(seqs) \in Nat /\ Len(more) \in Nat
  BY FlattenType
<1>1. Starts(S, FlattenSeq(seqs), FlattenSeq(seqs))
  <2>1. FlattenSeq(seqs) = FlattenSeq(seqs) \o <<>> /\ <<>> \in Seq(S)
    BY <1>0
  <2> QED BY <2>1 DEF Starts
<1>2. \A i \in 1 .. Len(seqs) : seqs[i] = more[i]
  BY DEF Begins, AgreesUpto
<1>3. \A k \in Nat : k = Len(seqs) /\ k <= Len(more) => SubSeq(more, 1, k) = seqs
  BY <1>2
<1>4. 0 \in K
  <2>1. Len(seqs) <= 0 => SubSeq(more, 1, 0) = seqs
    BY <1>0, <1>3
  <2> QED BY <1>1, <2>1
<1>5. ASSUME NEW k \in Nat, k \in K PROVE k + 1 \in K
  <2>1. SUFFICES ASSUME Len(seqs) <= k + 1, k + 1 <= Len(more)
                 PROVE  Starts(S, FlattenSeq(SubSeq(more, 1, k + 1)), FlattenSeq(seqs))
    <3>1. Grows(k + 1) => k + 1 \in K
      <4> HIDE DEF Grows
      <4> QED OBVIOUS
    <3> QED BY <3>1
  <2>2. CASE k + 1 = Len(seqs)
    <3>1. SubSeq(more, 1, k + 1) = seqs
      BY <2>1, <2>2, <1>3
    <3> QED BY <3>1, <1>1
  <2>3. CASE k + 1 # Len(seqs)
    <3> DEFINE a == SubSeq(more, 1, k)
               b == SubSeq(more, 1, k + 1)
    <3>1. Len(seqs) <= k /\ k <= Len(more)
      BY <2>1, <2>3
    <3>2. Starts(S, FlattenSeq(a), FlattenSeq(seqs))
      BY <3>1, <1>5
    <3>3. /\ a \in Seq(Seq(S)) /\ b \in Seq(Seq(S)) /\ Len(b) = Len(a) + 1 /\ Len(b) = k + 1
          /\ (\A i \in 1 .. Len(a) : a[i] = b[i]) /\ b[k + 1] = more[k + 1] /\ more[k + 1] \in Seq(S)
      BY <2>1
    <3> HIDE DEF a, b
    <3>4. Joins(FlattenSeq(b), FlattenSeq(a), more[k + 1])
      BY <3>3, FlattenGrows DEF Joins
    <3>5. FlattenSeq(a) \in Seq(S)
      BY <3>3, FlattenType
    <3>6. Starts(S, FlattenSeq(b), FlattenSeq(seqs))
      BY <1>0, <3>2, <3>3, <3>4, <3>5, StartsFurther
    <3> QED BY <3>6 DEF b
  <2> QED BY <2>2, <2>3
<1>6. Len(more) \in K
  <2> HIDE DEF K
  <2> QED BY <1>4, <1>5, <1>0, SetInduction
<1>7. SubSeq(more, 1, Len(more)) = more /\ Len(seqs) <= Len(more)
  BY DEF Begins
<1>8. Grows(Len(more))
  <2> HIDE DEF Grows
  <2> QED BY <1>6
<1>9. Len(more) <= Len(more)
  BY <1>0
<1> QED BY <1>7, <1>8, <1>9

\* The first k lists are the first k - 1 and the next one.
LEMMA FlattenCut ==
  ASSUME NEW S, NEW seqs \in Seq(Seq(S)), NEW k \in 1 .. Len(seqs)
  PROVE  FlattenSeq(SubSeq(seqs, 1, k)) = FlattenSeq(SubSeq(seqs, 1, k - 1)) \o seqs[k]
<1> DEFINE a == SubSeq(seqs, 1, k - 1)
           b == SubSeq(seqs, 1, k)
<1>1. /\ a \in Seq(Seq(S)) /\ b \in Seq(Seq(S)) /\ Len(b) = Len(a) + 1 /\ Len(b) = k
      /\ (\A i \in 1 .. Len(a) : a[i] = b[i]) /\ b[k] = seqs[k]
  <2>1. a \in Seq(Seq(S)) /\ Len(a) = k - 1 /\ \A i \in 1 .. k - 1 : a[i] = seqs[i]
    OBVIOUS
  <2>2. b \in Seq(Seq(S)) /\ Len(b) = k /\ \A i \in 1 .. k : b[i] = seqs[i]
    OBVIOUS
  <2> HIDE DEF a, b
  <2>3. Len(b) = Len(a) + 1
    BY <2>1, <2>2
  <2>4. \A i \in 1 .. Len(a) : a[i] = b[i]
    <3>1. ASSUME NEW i \in 1 .. k - 1 PROVE a[i] = b[i]
      <4>1. i \in 1 .. k
        OBVIOUS
      <4>2. a[i] = seqs[i] /\ b[i] = seqs[i]
        BY <2>1, <2>2, <4>1
      <4> QED BY <4>2
    <3> QED BY <2>1, <3>1
  <2>5. b[k] = seqs[k]
    BY <2>2
  <2> QED BY <2>1, <2>2, <2>3, <2>4, <2>5
<1> HIDE DEF a, b
<1>2. FlattenSeq(b) = FlattenSeq(a) \o b[Len(b)]
  BY <1>1, FlattenGrows
<1> QED BY <1>1, <1>2 DEF a, b

-----------------------------------------------------------------------------
(* The trail of a walk through a sitemap, and the chain of its cursors.    *)

\* The pages of a trail were read one after the other, each by the cursor the
\* one before it gave, and none twice.
Trail(ref, trail) ==
  /\ trail \in Seq(DOMAIN ref.pages)
  /\ trail # <<>> => trail[1] = "first"
  /\ \A i \in 1 .. Len(trail) : Readable(ref, trail[i])
  /\ \A i \in 2 .. Len(trail) : ref.pages[trail[i - 1]].next = trail[i]
  /\ \A i, j \in 1 .. Len(trail) : trail[i] = trail[j] => i = j

ChainUpto(k, ref, chain) ==
  chain = [n \in 1 .. k |-> IF n = 1 THEN <<"first">> ELSE Onward(ref, chain[n - 1])]

\* What one step along the cursors does.
LEMMA ChainAt ==
  ASSUME NEW k \in Nat, NEW ref, NEW chain, ChainUpto(k, ref, chain), NEW i \in 1 .. k
  PROVE  chain[i] = IF i = 1 THEN <<"first">> ELSE Onward(ref, chain[i - 1])
<1>1. \A h : h = [n \in 1 .. k |-> IF n = 1 THEN <<"first">> ELSE Onward(ref, chain[n - 1])]
        => h[i] = IF i = 1 THEN <<"first">> ELSE Onward(ref, chain[i - 1])
  OBVIOUS
<1> QED BY <1>1, Zenon DEF ChainUpto

\* The recursion of Chain has a solution, and Chain is its last step.
LEMMA ChainExists ==
  ASSUME NEW ref, NEW n \in Nat
  PROVE  \E chain : ChainUpto(n, ref, chain)
<1> DEFINE K == {k \in Nat : \E chain : ChainUpto(k, ref, chain)}
<1>1. 0 \in K
  <2>1. <<>> = [i \in 1 .. 0 |-> IF i = 1 THEN <<"first">> ELSE Onward(ref, <<>>[i - 1])]
    OBVIOUS
  <2> QED BY <2>1 DEF ChainUpto
<1>2. ASSUME NEW k \in Nat, k \in K PROVE k + 1 \in K
  <2>1. PICK chain : ChainUpto(k, ref, chain)
    BY <1>2
  <2> DEFINE step(i) == IF i = 1 THEN <<"first">> ELSE Onward(ref, chain[i - 1])
             next == [i \in 1 .. (k + 1) |-> step(i)]
  <2>2. \A i \in 1 .. k : next[i] = chain[i]
    BY <2>1, ChainAt
  <2>3. \A i \in 1 .. (k + 1) : next[i] = IF i = 1 THEN <<"first">> ELSE Onward(ref, next[i - 1])
    <3>1. ASSUME NEW i \in 1 .. (k + 1) PROVE next[i] = IF i = 1 THEN <<"first">> ELSE Onward(ref, next[i - 1])
      <4>1. next[i] = step(i)
        OBVIOUS
      <4>2. i # 1 => next[i - 1] = chain[i - 1]
        <5>1. i # 1 => i - 1 \in 1 .. k
          OBVIOUS
        <5> HIDE DEF next
        <5> QED BY <2>2, <5>1
      <4> HIDE DEF next
      <4> QED BY <4>1, <4>2
    <3> QED BY <3>1
  <2>4. next = [i \in 1 .. (k + 1) |-> next[i]]
    OBVIOUS
  <2> HIDE DEF next
  <2>5. ChainUpto(k + 1, ref, next)
    BY <2>3, <2>4 DEF ChainUpto
  <2>6. k + 1 \in Nat /\ \E h : ChainUpto(k + 1, ref, h)
    BY <2>5
  <2> QED BY <2>6
<1>3. n \in K
  <2> HIDE DEF K
  <2> QED BY <1>1, <1>2, SetInduction
<1> QED BY <1>3

LEMMA PagesCounted ==
  ASSUME NEW ref, ServesPages(ref)
  PROVE  Cardinality(DOMAIN ref.pages) \in Nat \ {0}
<1>1. IsFiniteSet(DOMAIN ref.pages) /\ DOMAIN ref.pages # {}
  BY DEF ServesPages
<1> QED BY <1>1, FS_CardinalityType, FS_EmptySet

LEMMA ChainIs ==
  ASSUME NEW ref, ServesPages(ref)
  PROVE  \E chain : /\ ChainUpto(Cardinality(DOMAIN ref.pages), ref, chain)
                    /\ Chain(ref) = chain[Cardinality(DOMAIN ref.pages)]
<1> DEFINE N == Cardinality(DOMAIN ref.pages)
           f == CHOOSE chain : chain = [n \in 1 .. N |-> IF n = 1 THEN <<"first">> ELSE Onward(ref, chain[n - 1])]
<1>1. Chain(ref) = f[N]
  BY DEF Chain
<1>2. N \in Nat
  BY PagesCounted
<1>3. ChainUpto(N, ref, f)
  <2> HIDE DEF N
  <2>1. \E chain : ChainUpto(N, ref, chain)
    BY <1>2, ChainExists
  <2> QED BY <2>1, Zenon DEF ChainUpto
<1> HIDE DEF f
<1> QED BY <1>1, <1>3

\* A cursor leads to one a page is served for, and never back to the start.
LEMMA OnwardType ==
  ASSUME NEW ref, ServesPages(ref), NEW trail \in Seq(DOMAIN ref.pages), Len(trail) >= 1
  PROVE  \/ Onward(ref, trail) = trail
         \/ \E c \in DOMAIN ref.pages : Onward(ref, trail) = Append(trail, c)
<1>1. Last(trail) \in DOMAIN ref.pages
  BY DEF Last
<1>2. ref.pages[Last(trail)].next \in (DOMAIN ref.pages \ {"first"}) \cup {None}
  BY <1>1, Zenon DEF ServesPages
<1> QED BY <1>2, Zenon DEF Onward

LEMMA ChainTypes ==
  ASSUME NEW ref, ServesPages(ref), NEW n \in Nat, NEW chain, ChainUpto(n, ref, chain)
  PROVE  \A k \in 1 .. n : chain[k] \in Seq(DOMAIN ref.pages) /\ Len(chain[k]) >= 1
<1> DEFINE K == {k \in Nat : k \in 1 .. n => chain[k] \in Seq(DOMAIN ref.pages) /\ Len(chain[k]) >= 1}
<1>1. 0 \in K
  OBVIOUS
<1>2. ASSUME NEW k \in Nat, k \in K PROVE k + 1 \in K
  <2>1. SUFFICES ASSUME k + 1 \in 1 .. n
                 PROVE  chain[k + 1] \in Seq(DOMAIN ref.pages) /\ Len(chain[k + 1]) >= 1
    OBVIOUS
  <2>2. chain[k + 1] = IF k + 1 = 1 THEN <<"first">> ELSE Onward(ref, chain[k])
    BY <2>1, ChainAt
  <2>3. CASE k = 0
    <3>1. "first" \in DOMAIN ref.pages
      BY DEF ServesPages
    <3>2. <<"first">> \in Seq(DOMAIN ref.pages) /\ Len(<<"first">>) = 1
      <4>1. \A D : \A e \in D : <<e>> \in Seq(D) /\ Len(<<e>>) = 1
        OBVIOUS
      <4> QED BY <3>1, <4>1, Zenon
    <3>3. chain[k + 1] = <<"first">>
      BY <2>2, <2>3
    <3> QED BY <3>2, <3>3
  <2>4. CASE k # 0
    <3>1. chain[k] \in Seq(DOMAIN ref.pages) /\ Len(chain[k]) >= 1
      BY <1>2, <2>1, <2>4
    <3>2. \/ Onward(ref, chain[k]) = chain[k]
          \/ \E c \in DOMAIN ref.pages : Onward(ref, chain[k]) = Append(chain[k], c)
      BY <3>1, OnwardType
    <3>3. chain[k + 1] = Onward(ref, chain[k])
      BY <2>2, <2>4
    <3>4. \A c \in DOMAIN ref.pages : /\ Append(chain[k], c) \in Seq(DOMAIN ref.pages)
                                      /\ Len(Append(chain[k], c)) >= 1
      <4>1. \A D : \A t \in Seq(D) : \A c \in D : Append(t, c) \in Seq(D) /\ Len(Append(t, c)) = Len(t) + 1
        OBVIOUS
      <4>2. \A t \in Seq(DOMAIN ref.pages) : Len(t) \in Nat
        OBVIOUS
      <4>3. ASSUME NEW c \in DOMAIN ref.pages
            PROVE  Append(chain[k], c) \in Seq(DOMAIN ref.pages) /\ Len(Append(chain[k], c)) = Len(chain[k]) + 1
        BY <3>1, <4>1, Zenon
      <4>4. Len(chain[k]) \in Nat
        BY <3>1, <4>2, Zenon
      <4> QED BY <3>1, <4>3, <4>4
    <3> QED BY <3>1, <3>2, <3>3, <3>4
  <2> QED BY <2>3, <2>4
<1>3. \A k \in Nat : k \in K
  <2> HIDE DEF K
  <2> QED BY <1>1, <1>2, SetInduction
<1> QED BY <1>3

\* No trail is longer than there are pages.
LEMMA TrailFits ==
  ASSUME NEW ref, ServesPages(ref), NEW trail, Trail(ref, trail)
  PROVE  Len(trail) <= Cardinality(DOMAIN ref.pages)
<1>1. trail \in Injection(1 .. Len(trail), DOMAIN ref.pages)
  <2>1. trail \in [1 .. Len(trail) -> DOMAIN ref.pages]
    BY DEF Trail
  <2> QED BY <2>1 DEF Trail, Injection, IsInjective
<1>2. IsFiniteSet(DOMAIN ref.pages)
  BY DEF ServesPages
<1>3. Cardinality(1 .. Len(trail)) <= Cardinality(DOMAIN ref.pages)
  BY <1>1, <1>2, FS_Injection
<1>4. Len(trail) \in Nat
  BY DEF Trail
<1>5. Cardinality(1 .. Len(trail)) = Len(trail)
  <2>1. \A n \in Nat : Cardinality(1 .. n) = n
    BY FS_Interval
  <2> QED BY <1>4, <2>1
<1> QED BY <1>3, <1>5

LEMMA FirstOnly ==
  ASSUME NEW D, NEW t \in Seq(D), Len(t) >= 1
  PROVE  SubSeq(t, 1, 1) = <<t[1]>>
<1>1. t[1] \in D
  OBVIOUS
<1>2. SubSeq(t, 1, 1) \in Seq(D) /\ Len(SubSeq(t, 1, 1)) = 1 /\ SubSeq(t, 1, 1)[1] = t[1]
  OBVIOUS
<1>3. <<t[1]>> \in Seq(D) /\ Len(<<t[1]>>) = 1 /\ <<t[1]>>[1] = t[1]
  BY <1>1
<1>4. \A s, u \in Seq(D) : Len(s) = 1 /\ Len(u) = 1 /\ s[1] = u[1] => s = u
  OBVIOUS
<1> QED BY <1>2, <1>3, <1>4

LEMMA CutIs ==
  ASSUME NEW D, NEW t \in Seq(D), NEW k \in 0 .. Len(t)
  PROVE  /\ SubSeq(t, 1, k) \in Seq(D) /\ Len(SubSeq(t, 1, k)) = k
         /\ \A i \in 1 .. k : SubSeq(t, 1, k)[i] = t[i]
OBVIOUS

\* The chain follows a trail from each page to the next.
LEMMA OnwardFollows ==
  ASSUME NEW ref, ServesPages(ref), NEW trail, Trail(ref, trail), NEW k \in 1 .. Len(trail) - 1
  PROVE  Onward(ref, SubSeq(trail, 1, k)) = SubSeq(trail, 1, k + 1)
<1> DEFINE read == SubSeq(trail, 1, k)
<1>0. trail \in Seq(DOMAIN ref.pages) /\ Len(trail) \in Nat /\ k \in Nat
  BY DEF Trail
<1>1. /\ read \in Seq(DOMAIN ref.pages) /\ Len(read) = k /\ \A i \in 1 .. k : read[i] = trail[i]
  <2>1. k \in 0 .. Len(trail)
    BY <1>0
  <2> QED BY <1>0, <2>1, CutIs
<1>2. Append(read, trail[k + 1]) = SubSeq(trail, 1, k + 1)
  BY <1>0
<1> HIDE DEF read
<1>3. Last(read) = trail[k]
  BY <1>1 DEF Last
<1>4. Readable(ref, trail[k]) /\ ref.pages[trail[k]].next = trail[k + 1] /\ trail[k + 1] \in DOMAIN ref.pages
  <2>1. k \in 1 .. Len(trail) /\ k + 1 \in 2 .. Len(trail) /\ k + 1 \in 1 .. Len(trail) /\ (k + 1) - 1 = k
    BY <1>0
  <2> QED BY <1>0, <2>1 DEF Trail
<1>5. ~Contains(read, trail[k + 1])
  <2>1. \A i \in 1 .. k : i \in 1 .. Len(trail) /\ k + 1 \in 1 .. Len(trail) /\ i # k + 1
    BY <1>0
  <2>2. \A i \in 1 .. k : trail[i] # trail[k + 1]
    BY <2>1 DEF Trail
  <2> QED BY <2>2, <1>1 DEF Contains
<1>6. None \notin DOMAIN ref.pages
  BY DEF ServesPages
<1>7. Onward(ref, read) = Append(read, trail[k + 1])
  BY <1>3, <1>4, <1>5, <1>6, Zenon DEF Onward
<1> QED BY <1>2, <1>7 DEF read

LEMMA ChainReaches ==
  ASSUME NEW ref, ServesPages(ref), NEW trail, Trail(ref, trail),
         NEW n \in Nat, NEW chain, ChainUpto(n, ref, chain), Len(trail) <= n
  PROVE  \A k \in 1 .. Len(trail) : chain[k] = SubSeq(trail, 1, k)
<1> DEFINE Reached(k) == k \in 1 .. Len(trail) => chain[k] = SubSeq(trail, 1, k)
           K == {k \in Nat : Reached(k)}
<1>0. trail \in Seq(DOMAIN ref.pages) /\ Len(trail) \in Nat
  BY DEF Trail
<1>1. 0 \in K
  OBVIOUS
<1>2. ASSUME NEW k \in Nat, k \in K PROVE k + 1 \in K
  <2>1. SUFFICES ASSUME k + 1 \in 1 .. Len(trail) PROVE chain[k + 1] = SubSeq(trail, 1, k + 1)
    OBVIOUS
  <2>2. k + 1 \in 1 .. n
    BY <1>0, <2>1
  <2>3. chain[k + 1] = IF k + 1 = 1 THEN <<"first">> ELSE Onward(ref, chain[k])
    BY <2>2, ChainAt
  <2>4. CASE k = 0
    <3>1. chain[k + 1] = <<"first">>
      BY <2>3, <2>4
    <3>2. trail[1] = "first"
      <4>1. trail # <<>>
        BY <1>0, <2>1
      <4> QED BY <4>1 DEF Trail
    <3>3. SubSeq(trail, 1, 1) = <<trail[1]>>
      <4>1. Len(trail) >= 1
        BY <1>0, <2>1
      <4> QED BY <1>0, <4>1, FirstOnly
    <3> QED BY <3>1, <3>2, <3>3, <2>4
  <2>5. CASE k # 0
    <3>1. k \in 1 .. Len(trail) - 1 /\ k \in 1 .. Len(trail)
      BY <1>0, <2>1, <2>5
    <3>2. chain[k] = SubSeq(trail, 1, k)
      BY <1>2, <3>1
    <3>3. Onward(ref, SubSeq(trail, 1, k)) = SubSeq(trail, 1, k + 1)
      BY <3>1, OnwardFollows
    <3>4. chain[k + 1] = Onward(ref, chain[k])
      BY <2>3, <2>5
    <3> QED BY <3>2, <3>3, <3>4
  <2> QED BY <2>4, <2>5
<1>3. \A k \in Nat : k \in K
  <2> HIDE DEF K
  <2> QED BY <1>1, <1>2, SetInduction
<1> QED BY <1>0, <1>3

\* Whatever was read of a sitemap, its chain of cursors begins with that.
LEMMA TrailBegins ==
  ASSUME NEW ref, ServesPages(ref), NEW trail, Trail(ref, trail)
  PROVE  /\ Chain(ref) \in Seq(DOMAIN ref.pages)
         /\ Begins(trail, Chain(ref))
         /\ trail # <<>> /\ ref.pages[Last(trail)].next = None => Chain(ref) = trail
<1> DEFINE N == Cardinality(DOMAIN ref.pages)
<1>0. /\ trail \in Seq(DOMAIN ref.pages) /\ Len(trail) \in Nat /\ Len(trail) <= N
      /\ N \in Nat /\ N >= 1
  BY TrailFits, PagesCounted DEF Trail
<1>1. PICK chain : ChainUpto(N, ref, chain) /\ Chain(ref) = chain[N]
  BY ChainIs
<1> HIDE DEF N
<1>2. \A k \in 1 .. N : chain[k] \in Seq(DOMAIN ref.pages) /\ Len(chain[k]) >= 1
  BY <1>0, <1>1, ChainTypes
<1>3. N \in 1 .. N
  BY <1>0
<1>4. CASE trail = <<>>
  <2>1. Len(trail) = 0
    BY <1>4
  <2>2. Chain(ref) \in Seq(DOMAIN ref.pages)
    BY <1>1, <1>2, <1>3
  <2>3. Len(Chain(ref)) \in Nat
    BY <2>2
  <2> QED BY <1>4, <2>1, <2>2, <2>3 DEF Begins, AgreesUpto
<1>5. CASE trail # <<>>
  <2>0. Len(trail) >= 1
    BY <1>0, <1>5
  <2>1. chain[Len(trail)] = trail
    <3>1. Len(trail) \in 1 .. Len(trail) /\ SubSeq(trail, 1, Len(trail)) = trail
      BY <1>0, <2>0
    <3> QED BY <1>0, <1>1, <3>1, ChainReaches
  <2> DEFINE Further(k) == Len(trail) <= k /\ k <= N =>
               /\ Begins(trail, chain[k])
               /\ ref.pages[Last(trail)].next = None => chain[k] = trail
             K == {k \in Nat : Further(k)}
  <2>2. Begins(trail, trail)
    BY <1>0 DEF Begins, AgreesUpto
  <2>3. 0 \in K
    BY <1>0, <2>0
  <2>4. ASSUME NEW k \in Nat, k \in K PROVE k + 1 \in K
    <3> DEFINE a == chain[k]
               b == chain[k + 1]
    <3>1. SUFFICES ASSUME Len(trail) <= k + 1, k + 1 <= N
                   PROVE  /\ Begins(trail, b)
                          /\ ref.pages[Last(trail)].next = None => b = trail
      <4>1. Further(k + 1) => k + 1 \in K
        <5> HIDE DEF Further
        <5> QED OBVIOUS
      <4> QED BY <4>1
    <3>2. CASE k + 1 = Len(trail)
      BY <3>2, <2>1, <2>2
    <3>3. CASE k + 1 # Len(trail)
      <4>1. Len(trail) <= k /\ k <= N /\ k \in 1 .. N /\ k + 1 \in 1 .. N /\ k + 1 # 1
        BY <1>0, <2>0, <3>1, <3>3
      <4>2. Begins(trail, a) /\ (ref.pages[Last(trail)].next = None => a = trail)
        BY <4>1, <2>4
      <4>3. b = Onward(ref, a)
        BY <1>0, <1>1, <4>1, ChainAt
      <4>4. a \in Seq(DOMAIN ref.pages) /\ Len(a) >= 1
        BY <4>1, <1>2
      <4> HIDE DEF a, b
      <4>5. \/ b = a
            \/ \E c \in DOMAIN ref.pages : b = Append(a, c)
        BY <4>3, <4>4, OnwardType
      <4>6. Begins(trail, b)
        <5>1. CASE b = a
          BY <5>1, <4>2
        <5>2. ASSUME NEW c \in DOMAIN ref.pages, b = Append(a, c) PROVE Begins(trail, b)
          <6>1. Len(b) = Len(a) + 1 /\ Len(a) \in Nat /\ \A i \in 1 .. Len(a) : b[i] = a[i]
            BY <4>4, <5>2
          <6> QED BY <6>1, <4>2, <1>0 DEF Begins, AgreesUpto
        <5> QED BY <4>5, <5>1, <5>2
      <4>7. ASSUME ref.pages[Last(trail)].next = None PROVE b = trail
        BY <4>2, <4>3, <4>7, Zenon DEF Onward
      <4> QED BY <4>6, <4>7
    <3> QED BY <3>2, <3>3
  <2>5. N \in K
    <3> HIDE DEF K
    <3> QED BY <1>0, <2>3, <2>4, SetInduction
  <2>6. Further(N)
    <3> HIDE DEF Further
    <3> QED BY <2>5
  <2>7. Len(trail) <= N /\ N <= N
    BY <1>0
  <2> QED BY <1>1, <1>2, <1>3, <2>6, <2>7
<1> QED BY <1>4, <1>5

LEMMA StartsOn ==
  ASSUME NEW S, NEW whole, NEW front, NEW start \in Seq(S), Starts(S, whole, front), Starts(S, front, start)
  PROVE  Starts(S, whole, start)
<1>1. PICK a \in Seq(S) : whole = front \o a
  BY DEF Starts
<1>2. PICK b \in Seq(S) : front = start \o b
  BY DEF Starts
<1>3. (start \o b) \o a = start \o (b \o a)
  BY ConcatAssociative
<1>4. whole = start \o (b \o a)
  BY <1>1, <1>2, <1>3
<1>5. b \o a \in Seq(S)
  OBVIOUS
<1> QED BY <1>4, <1>5 DEF Starts

LEMMA StartsAfter ==
  ASSUME NEW S, NEW whole, NEW part, NEW front \in Seq(S), NEW back, NEW start \in Seq(S),
         Joins(whole, front, back), Joins(part, front, start), Starts(S, back, start)
  PROVE  Starts(S, whole, part)
<1>1. PICK a \in Seq(S) : back = start \o a
  BY DEF Starts
<1>2. (front \o start) \o a = front \o (start \o a)
  BY ConcatAssociative
<1>3. whole = part \o a
  <2>1. whole = front \o back /\ part = front \o start
    BY DEF Joins
  <2> QED BY <1>1, <1>2, <2>1
<1> QED BY <1>3 DEF Starts

LEMMA StartsPrefix ==
  ASSUME NEW S, NEW whole, NEW start \in Seq(S), Starts(S, whole, start)
  PROVE  IsPrefix(start, whole)
<1>1. PICK a \in Seq(S) : whole = start \o a
  BY DEF Starts
<1>2. Len(start) <= Len(start \o a) /\ SubSeq(start, 1, Len(start)) = SubSeq(start \o a, 1, Len(start))
  OBVIOUS
<1> QED BY <1>1, <1>2 DEF IsPrefix

-----------------------------------------------------------------------------
(* What the pages of a trail list, and what the sitemaps list.             *)

ItemsOf(ref, trail) == FlattenSeq([n \in DOMAIN trail |-> ref.pages[trail[n]].items])

ItemSet(ref) == UNION {ToSet(ref.pages[c].items) : c \in DOMAIN ref.pages}
AllItems(p)  == UNION {ItemSet(p.sitemaps[s]) : s \in DOMAIN p.sitemaps}

Lists(p)     == [s \in DOMAIN p.sitemaps |-> Listed(p.sitemaps[s])]
Before(p, n) == FlattenSeq(SubSeq(Lists(p), 1, n))

LEMMA Widen ==
  ASSUME NEW S, NEW T, T \subseteq S, NEW t, t \in Seq(T)
  PROVE  t \in Seq(S)
OBVIOUS

LEMMA PageItemsType ==
  ASSUME NEW ref, ServesPages(ref), NEW S, ItemSet(ref) \subseteq S, NEW c \in DOMAIN ref.pages
  PROVE  ref.pages[c].items \in Seq(S)
<1>1. ref.pages[c].items \in Seq(ToSet(ref.pages[c].items))
  BY Zenon DEF ServesPages
<1>2. ToSet(ref.pages[c].items) \subseteq S
  BY Zenon DEF ItemSet
<1> QED BY <1>1, <1>2, Widen

LEMMA TrailListsType ==
  ASSUME NEW ref, ServesPages(ref), NEW S, ItemSet(ref) \subseteq S, NEW trail \in Seq(DOMAIN ref.pages)
  PROVE  /\ [n \in DOMAIN trail |-> ref.pages[trail[n]].items] \in Seq(Seq(S))
         /\ Len([n \in DOMAIN trail |-> ref.pages[trail[n]].items]) = Len(trail)
<1>1. \A c \in DOMAIN ref.pages : ref.pages[c].items \in Seq(S)
  BY PageItemsType
<1>2. DOMAIN trail = 1 .. Len(trail) /\ Len(trail) \in Nat /\ \A n \in 1 .. Len(trail) : trail[n] \in DOMAIN ref.pages
  OBVIOUS
<1>3. \A n \in 1 .. Len(trail) : ref.pages[trail[n]].items \in Seq(S)
  BY <1>1, <1>2, Zenon
<1> QED BY <1>2, <1>3

LEMMA ItemsType ==
  ASSUME NEW ref, ServesPages(ref), NEW S, ItemSet(ref) \subseteq S, NEW trail \in Seq(DOMAIN ref.pages)
  PROVE  ItemsOf(ref, trail) \in Seq(S)
BY TrailListsType, FlattenType, Zenon DEF ItemsOf

LEMMA ItemsNone == \A ref : ItemsOf(ref, <<>>) = <<>>
<1>1. \A ref : [n \in DOMAIN <<>> |-> ref.pages[<<>>[n]].items] = <<>>
  OBVIOUS
<1> QED BY <1>1, FlattenEmpty, Zenon DEF ItemsOf

\* The page of the next cursor adds its items at the end.
LEMMA ItemsGrow ==
  ASSUME NEW ref, ServesPages(ref), NEW trail \in Seq(DOMAIN ref.pages), NEW c \in DOMAIN ref.pages
  PROVE  Joins(ItemsOf(ref, Append(trail, c)), ItemsOf(ref, trail), ref.pages[c].items)
<1> DEFINE S == ItemSet(ref)
           next == Append(trail, c)
           a == [n \in DOMAIN trail |-> ref.pages[trail[n]].items]
           b == [n \in DOMAIN next |-> ref.pages[next[n]].items]
<1>1. next \in Seq(DOMAIN ref.pages)
  OBVIOUS
<1>2. a \in Seq(Seq(S)) /\ Len(a) = Len(trail)
  BY TrailListsType, Zenon
<1>3. b \in Seq(Seq(S)) /\ Len(b) = Len(next)
  <2> HIDE DEF next
  <2> QED BY <1>1, TrailListsType, Zenon
<1>4. /\ Len(next) = Len(trail) + 1 /\ next[Len(next)] = c /\ Len(trail) \in Nat
      /\ DOMAIN trail = 1 .. Len(trail) /\ DOMAIN next = 1 .. Len(next)
      /\ \A n \in 1 .. Len(trail) : next[n] = trail[n] /\ n \in 1 .. Len(next)
  OBVIOUS
<1> HIDE DEF next
<1>5. \A n \in 1 .. Len(a) : a[n] = b[n]
  BY <1>2, <1>4
<1>6. b[Len(b)] = ref.pages[c].items
  BY <1>3, <1>4
<1>7. Len(b) = Len(a) + 1
  BY <1>2, <1>3, <1>4
<1> HIDE DEF a, b, S
<1>8. FlattenSeq(b) = FlattenSeq(a) \o b[Len(b)]
  BY <1>2, <1>3, <1>5, <1>7, FlattenGrows
<1> QED BY <1>6, <1>8, Zenon DEF Joins, ItemsOf, a, b, next

\* What was read of a sitemap is where its listing begins, and all of it once
\* no cursor is left.
LEMMA ItemsStart ==
  ASSUME NEW ref, ServesPages(ref), NEW S, ItemSet(ref) \subseteq S, NEW trail, Trail(ref, trail)
  PROVE  /\ Listed(ref) \in Seq(S)
         /\ Starts(S, Listed(ref), ItemsOf(ref, trail))
         /\ trail # <<>> /\ ref.pages[Last(trail)].next = None => Listed(ref) = ItemsOf(ref, trail)
<1> DEFINE chain == Chain(ref)
           a == [n \in DOMAIN trail |-> ref.pages[trail[n]].items]
           b == [n \in DOMAIN chain |-> ref.pages[chain[n]].items]
<1>0. trail \in Seq(DOMAIN ref.pages)
  BY DEF Trail
<1>1. /\ chain \in Seq(DOMAIN ref.pages) /\ Begins(trail, chain)
      /\ trail # <<>> /\ ref.pages[Last(trail)].next = None => chain = trail
  BY TrailBegins, Zenon
<1> HIDE DEF chain
<1>2. a \in Seq(Seq(S)) /\ Len(a) = Len(trail)
  BY <1>0, TrailListsType, Zenon
<1>3. b \in Seq(Seq(S)) /\ Len(b) = Len(chain)
  BY <1>1, TrailListsType, Zenon
<1>4. DOMAIN trail = 1 .. Len(trail) /\ DOMAIN chain = 1 .. Len(chain)
  BY <1>0, <1>1
<1>5. Begins(a, b)
  <2>1. Len(trail) \in Nat /\ Len(chain) \in Nat /\ Len(trail) <= Len(chain)
        /\ \A i \in 1 .. Len(trail) : trail[i] = chain[i]
    BY <1>1 DEF Begins, AgreesUpto
  <2>2. \A i \in 1 .. Len(trail) : a[i] = b[i]
    BY <2>1, <1>4
  <2> HIDE DEF a, b
  <2> QED BY <1>2, <1>3, <2>1, <2>2 DEF Begins, AgreesUpto
<1>6. Listed(ref) = FlattenSeq(b)
  BY Zenon DEF Listed, chain
<1>7. ItemsOf(ref, trail) = FlattenSeq(a)
  BY Zenon DEF ItemsOf
<1>8. chain = trail => a = b
  OBVIOUS
<1> HIDE DEF a, b
<1>9. Starts(S, FlattenSeq(b), FlattenSeq(a)) /\ FlattenSeq(b) \in Seq(S)
  BY <1>2, <1>3, <1>5, FlattenPrefix, FlattenType
<1> QED BY <1>1, <1>6, <1>7, <1>8, <1>9

\* What the publishers serve, sitemap by sitemap.
LEMMA ServesAll ==
  ASSUME NEW p \in Publishers, NEW s \in 1 .. Len(p.sitemaps)
  PROVE  ServesPages(p.sitemaps[s]) /\ ItemSet(p.sitemaps[s]) \subseteq AllItems(p)
<1>1. p.sitemaps \in Seq(ToSet(p.sitemaps))
  BY PublishersAssumption, Zenon
<1>2. s \in DOMAIN p.sitemaps
  BY <1>1
<1> QED BY <1>2, PublishersAssumption, Zenon DEF AllItems

LEMMA TrailNone == \A ref : Trail(ref, <<>>)
BY DEF Trail

\* The lists of the sitemaps, and what comes before each of them.
LEMMA ListsType ==
  ASSUME NEW p \in Publishers
  PROVE  /\ Lists(p) \in Seq(Seq(AllItems(p))) /\ Len(Lists(p)) = Len(p.sitemaps)
         /\ Len(p.sitemaps) \in Nat
         /\ \A s \in 1 .. Len(p.sitemaps) : Lists(p)[s] = Listed(p.sitemaps[s])
<1>1. p.sitemaps \in Seq(ToSet(p.sitemaps))
  BY PublishersAssumption, Zenon
<1>2. DOMAIN p.sitemaps = 1 .. Len(p.sitemaps) /\ Len(p.sitemaps) \in Nat
  BY <1>1
<1>3. \A s \in 1 .. Len(p.sitemaps) : Listed(p.sitemaps[s]) \in Seq(AllItems(p))
  BY ServesAll, TrailNone, ItemsStart
<1> QED BY <1>2, <1>3 DEF Lists

LEMMA BeforeType ==
  ASSUME NEW p \in Publishers, NEW n \in 0 .. Len(p.sitemaps)
  PROVE  /\ Before(p, n) \in Seq(AllItems(p))
         /\ Starts(AllItems(p), FlattenSeq(Lists(p)), Before(p, n))
         /\ n = Len(p.sitemaps) => Before(p, n) = FlattenSeq(Lists(p))
<1> DEFINE a == SubSeq(Lists(p), 1, n)
           S == AllItems(p)
<1>1. Lists(p) \in Seq(Seq(S)) /\ Len(Lists(p)) = Len(p.sitemaps) /\ Len(p.sitemaps) \in Nat
  BY ListsType
<1> HIDE DEF S
<1>2. a \in Seq(Seq(S)) /\ Len(a) = n /\ \A i \in 1 .. n : a[i] = Lists(p)[i]
  BY <1>1, CutIs
<1>3. n = Len(p.sitemaps) => a = Lists(p)
  BY <1>1
<1> HIDE DEF a
<1>4. Begins(a, Lists(p))
  BY <1>1, <1>2 DEF Begins, AgreesUpto
<1>5. Starts(S, FlattenSeq(Lists(p)), FlattenSeq(a)) /\ FlattenSeq(a) \in Seq(S)
  BY <1>1, <1>2, <1>4, FlattenPrefix, FlattenType
<1> QED BY <1>3, <1>5, Zenon DEF Before, a, S

LEMMA BeforeNone ==
  ASSUME NEW p \in Publishers
  PROVE  Before(p, 0) = <<>>
<1>1. \A D : \A t \in Seq(D) : SubSeq(t, 1, 0) = <<>>
  OBVIOUS
<1>2. SubSeq(Lists(p), 1, 0) = <<>>
  BY <1>1, ListsType, Zenon
<1> QED BY <1>2, FlattenEmpty, Zenon DEF Before

LEMMA BeforeNext ==
  ASSUME NEW p \in Publishers, NEW n \in 1 .. Len(p.sitemaps)
  PROVE  Joins(Before(p, n), Before(p, n - 1), Listed(p.sitemaps[n]))
<1>1. Lists(p) \in Seq(Seq(AllItems(p))) /\ n \in 1 .. Len(Lists(p)) /\ Lists(p)[n] = Listed(p.sitemaps[n])
  BY ListsType
<1>2. FlattenSeq(SubSeq(Lists(p), 1, n)) = FlattenSeq(SubSeq(Lists(p), 1, n - 1)) \o Lists(p)[n]
  BY <1>1, FlattenCut
<1> QED BY <1>1, <1>2, Zenon DEF Joins, Before

\* Where a walk stands in a sitemap is a place in the listing.
LEMMA PlaceInListing ==
  ASSUME NEW p \in Publishers, NEW n \in 1 .. Len(p.sitemaps), NEW trail, Trail(p.sitemaps[n], trail),
         NEW part, Joins(part, Before(p, n - 1), ItemsOf(p.sitemaps[n], trail)),
         NEW story \in Seq(AllItems(p)), Starts(AllItems(p), part, story)
  PROVE  IsPrefix(story, FlattenSeq(Lists(p)))
<1> DEFINE S == AllItems(p)
           ref == p.sitemaps[n]
<1>0. n \in 0 .. Len(p.sitemaps) /\ n - 1 \in 0 .. Len(p.sitemaps)
  BY ListsType
<1>1. ServesPages(ref) /\ ItemSet(ref) \subseteq S
  BY ServesAll
<1>2. trail \in Seq(DOMAIN ref.pages)
  BY DEF Trail
<1>3. Listed(ref) \in Seq(S) /\ Starts(S, Listed(ref), ItemsOf(ref, trail)) /\ ItemsOf(ref, trail) \in Seq(S)
  BY <1>1, <1>2, ItemsStart, ItemsType
<1>4. Before(p, n - 1) \in Seq(S) /\ Before(p, n) \in Seq(S) /\ Starts(S, FlattenSeq(Lists(p)), Before(p, n))
  BY <1>0, BeforeType
<1>5. Joins(Before(p, n), Before(p, n - 1), Listed(ref))
  BY BeforeNext
<1> HIDE DEF S, ref
<1>6. Starts(S, Before(p, n), part)
  BY <1>3, <1>4, <1>5, StartsAfter DEF ref
<1>7. part \in Seq(S)
  BY <1>3, <1>4 DEF Joins, ref
<1>8. Starts(S, FlattenSeq(Lists(p)), story)
  BY <1>4, <1>6, <1>7, StartsOn DEF S
<1> QED BY <1>8, StartsPrefix DEF S

-----------------------------------------------------------------------------
(* What is delivered, held, in flight and not pulled yet, in that order.   *)

DoneOf(out, one)            == out \o (IF one = None THEN <<>> ELSE <<one>>)
PulledOf(list)              == [i \in DOMAIN list |-> list[i].item]
PlaceOf(out, one, list, its) == DoneOf(out, one) \o (PulledOf(list) \o its)
Outcomes == {"new", "sent", "ok", "budget", "integrity", "status", "version", "schema", "checksum", "semantics"}
Call(S) == [item : S, state : Outcomes]

SettlesTo(list, i, state, next) == next = [list EXCEPT ![i].state = state]
SettledTo(list, i, state, next) ==
  \A j \in DOMAIN next : /\ j \in DOMAIN list /\ next[j].item = list[j].item
                        /\ next[j].state = IF j = i THEN state ELSE list[j].state

LEMMA PulledType ==
  ASSUME NEW S, NEW list \in Seq(Call(S))
  PROVE  /\ PulledOf(list) \in Seq(S) /\ Len(PulledOf(list)) = Len(list)
         /\ \A i \in 1 .. Len(list) : PulledOf(list)[i] = list[i].item
<1>1. \A i \in 1 .. Len(list) : list[i] \in Call(S)
  OBVIOUS
<1>2. \A r \in Call(S) : r.item \in S
  BY DEF Call
<1>3. \A i \in 1 .. Len(list) : list[i].item \in S
  BY <1>1, <1>2
<1> QED BY <1>3 DEF PulledOf

LEMMA DoneType ==
  ASSUME NEW S, NEW out \in Seq(S), NEW one \in S \cup {None}
  PROVE  DoneOf(out, one) \in Seq(S)
BY DEF DoneOf

LEMMA PlaceType ==
  ASSUME NEW S, NEW out \in Seq(S), NEW one \in S \cup {None}, NEW list \in Seq(Call(S)), NEW its \in Seq(S)
  PROVE  /\ PlaceOf(out, one, list, its) \in Seq(S)
         /\ Starts(S, PlaceOf(out, one, list, its), DoneOf(out, one))
         /\ DoneOf(out, one) \o PulledOf(list) \in Seq(S)
         /\ Starts(S, PlaceOf(out, one, list, its), DoneOf(out, one) \o PulledOf(list))
<1> DEFINE d == DoneOf(out, one)
           c == PulledOf(list)
<1>1. d \in Seq(S) /\ c \in Seq(S)
  BY DoneType, PulledType
<1> HIDE DEF d, c
<1>2. c \o its \in Seq(S) /\ d \o c \in Seq(S) /\ d \o (c \o its) \in Seq(S)
  BY <1>1
<1>3. d \o (c \o its) = (d \o c) \o its
  BY <1>1, ConcatAssociative
<1>4. Starts(S, d \o (c \o its), d) /\ Starts(S, d \o (c \o its), d \o c)
  BY <1>2, <1>3 DEF Starts
<1> QED BY <1>2, <1>4, Zenon DEF PlaceOf, d, c

PullsTo(list, its, state, next) == next = Append(list, [item |-> Head(its), state |-> state])

LEMMA PullMoves ==
  ASSUME NEW S, NEW a \in Seq(S), NEW its \in Seq(S), its # <<>>, NEW b, b = Append(a, Head(its)),
         NEW whole, Joins(whole, a, its)
  PROVE  Joins(whole, b, Tail(its))
<1>1. Append(a, Head(its)) \o Tail(its) = a \o its
  OBVIOUS
<1> QED BY <1>1 DEF Joins

\* An item that is pulled goes from the page to the end of the calls.
LEMMA PullKeepsPlace ==
  ASSUME NEW S, NEW out \in Seq(S), NEW one \in S \cup {None}, NEW list \in Seq(Call(S)), NEW its \in Seq(S),
         NEW state \in Outcomes, its # <<>>, NEW next, PullsTo(list, its, state, next)
  PROVE  /\ next \in Seq(Call(S))
         /\ PlaceOf(out, one, next, Tail(its)) = PlaceOf(out, one, list, its)
<1> DEFINE call == [item |-> Head(its), state |-> state]
           more == Append(list, call)
<1>1. Head(its) \in S /\ Tail(its) \in Seq(S)
  OBVIOUS
<1>2. call \in Call(S) /\ call.item = Head(its)
  BY <1>1 DEF Call
<1> HIDE DEF call
<1>3. more \in Seq(Call(S)) /\ Len(more) = Len(list) + 1 /\ more[Len(list) + 1] = call
      /\ \A i \in 1 .. Len(list) : more[i] = list[i]
  BY <1>2
<1> HIDE DEF more
<1>4. PulledOf(list) \in Seq(S) /\ Len(PulledOf(list)) = Len(list) /\ Len(list) \in Nat
      /\ \A i \in 1 .. Len(list) : PulledOf(list)[i] = list[i].item
  BY PulledType
<1>5. PulledOf(more) \in Seq(S) /\ Len(PulledOf(more)) = Len(more)
      /\ \A i \in 1 .. Len(more) : PulledOf(more)[i] = more[i].item
  BY <1>3, PulledType
<1> DEFINE a == PulledOf(list)
           b == PulledOf(more)
<1>6. /\ Len(b) = Len(a) + 1 /\ b[Len(a) + 1] = Head(its) /\ \A i \in 1 .. Len(a) : b[i] = a[i]
  BY <1>2, <1>3, <1>4, <1>5
<1>7. a \in Seq(S) /\ b \in Seq(S)
  BY <1>4, <1>5
<1> HIDE DEF a, b
<1>8. b = Append(a, Head(its))
  BY <1>1, <1>6, <1>7
<1>9. PICK whole : Joins(whole, a, its)
  BY DEF Joins
<1>10. b \o Tail(its) = a \o its
  <2>1. Joins(whole, b, Tail(its))
    BY <1>7, <1>8, <1>9, PullMoves
  <2> QED BY <2>1, <1>9 DEF Joins
<1>11. PlaceOf(out, one, more, Tail(its)) = PlaceOf(out, one, list, its)
  BY <1>10, Zenon DEF PlaceOf, a, b
<1>12. next = more
  BY DEF PullsTo, more, call
<1> QED BY <1>3, <1>11, <1>12

\* A call that settles stays where it is.
LEMMA SettleKeepsPlace ==
  ASSUME NEW S, NEW out, NEW one, NEW list \in Seq(Call(S)), NEW its, NEW i \in 1 .. Len(list), NEW state \in Outcomes,
         NEW next, SettlesTo(list, i, state, next)
  PROVE  /\ next \in Seq(Call(S))
         /\ SettledTo(list, i, state, next)
         /\ PlaceOf(out, one, next, its) = PlaceOf(out, one, list, its)
<1>0. next = [list EXCEPT ![i].state = state]
  BY DEF SettlesTo
<1>1. \A j \in 1 .. Len(list) : list[j] \in Call(S)
  OBVIOUS
<1>2. \A j \in 1 .. Len(list) : next[j] = IF j = i THEN [list[j] EXCEPT !.state = state] ELSE list[j]
  BY <1>0
<1>3. \A r \in Call(S) : /\ [r EXCEPT !.state = state] \in Call(S)
                         /\ [r EXCEPT !.state = state].item = r.item /\ [r EXCEPT !.state = state].state = state
  BY DEF Call
<1>4. \A j \in 1 .. Len(list) : /\ next[j] \in Call(S) /\ next[j].item = list[j].item
                               /\ next[j].state = IF j = i THEN state ELSE list[j].state
  BY <1>1, <1>2, <1>3
<1>5. next = [j \in 1 .. Len(list) |-> next[j]] /\ Len(list) \in Nat /\ DOMAIN list = 1 .. Len(list)
  <2>1. Len(list) \in Nat /\ DOMAIN list = 1 .. Len(list)
    OBVIOUS
  <2>2. next = [j \in DOMAIN list |-> next[j]]
    BY <1>0
  <2> QED BY <2>1, <2>2
<1>6. next \in Seq(Call(S)) /\ DOMAIN next = DOMAIN list
  BY <1>4, <1>5
<1>7. PulledOf(next) = PulledOf(list)
  BY <1>4, <1>5, <1>6 DEF PulledOf
<1>8. PlaceOf(out, one, next, its) = PlaceOf(out, one, list, its)
  BY <1>7, Zenon DEF PlaceOf
<1> QED BY <1>4, <1>5, <1>6, <1>8 DEF SettledTo

FirstRemoved(D, t, rest) ==
  /\ rest \in Seq(D) /\ Len(rest) = Len(t) - 1 /\ Len(t) \in Nat /\ Len(t) >= 1
  /\ \A i \in 1 .. Len(rest) : i + 1 \in 1 .. Len(t) /\ rest[i] = t[i + 1]

WithoutFirst(t) == RemoveAt(t, 1)

LEMMA WithoutFirstIs ==
  ASSUME NEW D, NEW t \in Seq(D), Len(t) >= 1
  PROVE  FirstRemoved(D, t, WithoutFirst(t))
<1>1. ASSUME NEW rest, rest = Tail(t) PROVE FirstRemoved(D, t, rest)
  BY <1>1 DEF FirstRemoved
<1>2. SubSeq(t, 1, 0) = <<>> /\ SubSeq(t, 2, Len(t)) = Tail(t) /\ <<>> \o Tail(t) = Tail(t)
  OBVIOUS
<1>3. RemoveAt(t, 1) = SubSeq(t, 1, 0) \o SubSeq(t, 2, Len(t))
  BY DEF RemoveAt
<1>4. WithoutFirst(t) = Tail(t)
  BY <1>2, <1>3 DEF WithoutFirst
<1> QED BY <1>1, <1>4, Zenon

\* The first call gives up its item to be held.
LEMMA TakeKeepsPlace ==
  ASSUME NEW S, NEW out \in Seq(S), NEW list \in Seq(Call(S)), NEW its \in Seq(S), list # <<>>, None \notin S
  PROVE  /\ WithoutFirst(list) \in Seq(Call(S)) /\ list[1].item \in S
         /\ \A i \in 1 .. Len(WithoutFirst(list)) : i + 1 \in 1 .. Len(list) /\ WithoutFirst(list)[i] = list[i + 1]
         /\ PlaceOf(out, list[1].item, WithoutFirst(list), its) = PlaceOf(out, None, list, its)
<1> DEFINE rest == WithoutFirst(list)
           one == list[1].item
<1>1. /\ rest \in Seq(Call(S)) /\ Len(rest) = Len(list) - 1 /\ Len(list) \in Nat
      /\ \A i \in 1 .. Len(rest) : i + 1 \in 1 .. Len(list) /\ rest[i] = list[i + 1]
  <2>1. FirstRemoved(Call(S), list, WithoutFirst(list))
    <3>1. Len(list) >= 1
      OBVIOUS
    <3> QED BY <3>1, WithoutFirstIs
  <2> HIDE DEF rest
  <2>2. FirstRemoved(Call(S), list, rest)
    BY <2>1, Zenon DEF rest
  <2> QED BY <2>2 DEF FirstRemoved
<1>2. one \in S /\ one # None
  <2>1. list[1] \in Call(S)
    OBVIOUS
  <2>2. \A r \in Call(S) : r.item \in S
    BY DEF Call
  <2> QED BY <2>1, <2>2
<1> HIDE DEF rest, one
<1> DEFINE a == PulledOf(list)
           b == PulledOf(rest)
<1>3. a \in Seq(S) /\ Len(a) = Len(list) /\ \A i \in 1 .. Len(list) : a[i] = list[i].item
  BY PulledType
<1>4. b \in Seq(S) /\ Len(b) = Len(rest) /\ \A i \in 1 .. Len(rest) : b[i] = rest[i].item
  BY <1>1, PulledType
<1>5. Len(list) >= 1 /\ a[1] = one
  <2>1. Len(list) >= 1
    OBVIOUS
  <2> QED BY <2>1, <1>3 DEF one
<1>6. \A i \in 1 .. Len(b) : b[i] = a[i + 1]
  BY <1>1, <1>3, <1>4
<1>7. Len(a) = Len(b) + 1
  BY <1>1, <1>3, <1>4
<1> HIDE DEF a, b
<1>8. a = <<one>> \o b
  <2> DEFINE e == <<one>> \o b
  <2>1. e \in Seq(S) /\ Len(e) = Len(b) + 1 /\ e[1] = one /\ \A i \in 1 .. Len(b) : e[i + 1] = b[i]
    BY <1>2, <1>4
  <2> HIDE DEF e
  <2>2. a \in Seq(S) /\ Len(a) = Len(e) /\ Len(b) \in Nat
    BY <1>3, <1>4, <1>7, <2>1
  <2>3. ASSUME NEW i \in 1 .. Len(a) PROVE a[i] = e[i]
    <3>1. CASE i = 1
      BY <3>1, <1>5, <2>1
    <3>2. CASE i # 1
      <4>1. i - 1 \in 1 .. Len(b) /\ (i - 1) + 1 = i
        BY <3>2, <1>7, <2>2
      <4> QED BY <4>1, <1>6, <2>1
    <3> QED BY <3>1, <3>2
  <2>4. a = e
    BY <2>1, <2>2, <2>3
  <2> QED BY <2>4 DEF e
<1>9. DoneOf(out, one) = out \o <<one>> /\ DoneOf(out, None) = out
  BY <1>2 DEF DoneOf
<1>10. (out \o <<one>>) \o (b \o its) = out \o ((<<one>> \o b) \o its)
  BY <1>2, <1>4
<1>11. PlaceOf(out, one, rest, its) = PlaceOf(out, None, list, its)
  BY <1>8, <1>9, <1>10, Zenon DEF PlaceOf, a, b
<1> QED BY <1>1, <1>2, <1>11 DEF rest, one

\* What was held is delivered.
LEMMA YieldKeepsPlace ==
  ASSUME NEW S, NEW out \in Seq(S), NEW one \in S, NEW list, NEW its, None \notin S
  PROVE  /\ DoneOf(Append(out, one), None) = DoneOf(out, one)
         /\ PlaceOf(Append(out, one), None, list, its) = PlaceOf(out, one, list, its)
<1>1. Append(out, one) \o <<>> = out \o <<one>> /\ one # None
  OBVIOUS
<1>2. DoneOf(Append(out, one), None) = DoneOf(out, one)
  BY <1>1 DEF DoneOf
<1> QED BY <1>2, Zenon DEF PlaceOf

Three(d, c, its) == d \o (c \o its)

LEMMA ThreeSplit ==
  ASSUME NEW S, NEW d \in Seq(S), NEW c \in Seq(S), NEW its \in Seq(S), NEW both, Joins(both, d, c)
  PROVE  both \in Seq(S) /\ Joins(Three(d, c, its), both, its)
<1>1. c \o its \in Seq(S) /\ d \o c \in Seq(S)
  OBVIOUS
<1>2. d \o (c \o its) = (d \o c) \o its
  BY <1>1, ConcatAssociative
<1> QED BY <1>1, <1>2 DEF Three, Joins

LEMMA JoinNothing ==
  ASSUME NEW S, NEW both \in Seq(S), NEW none \in Seq(S), Len(none) = 0, NEW whole, Joins(whole, both, none)
  PROVE  whole = both
<1>1. both \o none = both
  OBVIOUS
<1> QED BY <1>1 DEF Joins

LEMMA JoinOn ==
  ASSUME NEW S, NEW both, NEW front \in Seq(S), NEW read \in Seq(S), NEW its \in Seq(S), NEW whole, NEW further,
         Joins(both, front, read), Joins(further, read, its), Joins(whole, both, its)
  PROVE  Joins(whole, front, further)
<1>1. (front \o read) \o its = front \o (read \o its)
  BY ConcatAssociative
<1> QED BY <1>1 DEF Joins

LEMMA Regroup ==
  ASSUME NEW S, NEW d \in Seq(S), NEW c \in Seq(S), NEW its \in Seq(S), NEW front \in Seq(S), NEW read \in Seq(S),
         NEW none \in Seq(S), Len(none) = 0, NEW further,
         Joins(Three(d, c, none), front, read), Joins(further, read, its)
  PROVE  Joins(Three(d, c, its), front, further)
<1>1. PICK both : Joins(both, d, c)
  BY DEF Joins
<1>2. both \in Seq(S) /\ Joins(Three(d, c, its), both, its) /\ Joins(Three(d, c, none), both, none)
  BY <1>1, ThreeSplit
<1>3. Three(d, c, none) = both
  BY <1>2, JoinNothing
<1> QED BY <1>2, <1>3, JoinOn

\* A page that was read adds its items to what is not pulled yet.
LEMMA PageAddsItems ==
  ASSUME NEW S, NEW out \in Seq(S), NEW one \in S \cup {None}, NEW list \in Seq(Call(S)), NEW its \in Seq(S),
         NEW front \in Seq(S), NEW read \in Seq(S), NEW none \in Seq(S), Len(none) = 0, NEW further,
         Joins(PlaceOf(out, one, list, none), front, read), Joins(further, read, its)
  PROVE  Joins(PlaceOf(out, one, list, its), front, further)
<1> DEFINE d == DoneOf(out, one)
           c == PulledOf(list)
<1>1. d \in Seq(S) /\ c \in Seq(S)
  BY DoneType, PulledType
<1>2. Joins(Three(d, c, none), front, read)
  BY Zenon DEF PlaceOf, Three
<1> HIDE DEF d, c
<1>3. Joins(Three(d, c, its), front, further)
  BY <1>1, <1>2, Regroup
<1> QED BY <1>3, Zenon DEF PlaceOf, Three, d, c

-----------------------------------------------------------------------------
(* The inductive invariant.                                                *)

Items   == AllItems(publisher)
Done    == DoneOf(delivered, held)
Walking == at \in {"pull", "item", "page", "yield"}

Types ==
  /\ publisher \in Publishers
  /\ at \in {"manifest", "index", "sitemaps", "pull", "item", "page", "yield", "done", "failed"}
  /\ sitemap \in 0 .. Len(publisher.sitemaps)
  /\ delivered \in Seq(Items) /\ items \in Seq(Items) /\ held \in Items \cup {None}
  /\ calls \in Seq(Call(Items))

\* Where the walk stands in a sitemap: which pages were read, that no cursor of
\* theirs was forgotten, and that what was delivered, is held, is in flight and
\* is not pulled yet are what those pages list, after what came before.
InSitemap(trail) ==
  /\ Trail(Ref, trail)
  /\ seen = (ToSet(trail) \cup {cursor}) \ {None, "first"}
  /\ at = "page" =>
       /\ items = <<>> /\ cursor \in DOMAIN Ref.pages \ ToSet(trail)
       /\ cursor = IF trail = <<>> THEN "first" ELSE Ref.pages[Last(trail)].next
  /\ at # "page" => cursor = IF trail = <<>> THEN None ELSE Last(trail)
  /\ inputDone =>
       at \notin {"page", "item"} /\ items = <<>> /\ trail # <<>> /\ Ref.pages[Last(trail)].next = None
  /\ Joins(PlaceOf(delivered, held, calls, items), Before(publisher, sitemap - 1), ItemsOf(Ref, trail))

\* What came out of the sitemap at hand is what its listing says.
GoodFrom(n, done, ref) == \A i \in n + 1 .. Len(done) : Good(done[i], ref)
GoodCalls(list, ref)   == \A i \in DOMAIN list : list[i].state = "ok" => Good(list[i].item, ref)
SoFarGood ==
  GoodFrom(Len(Before(publisher, sitemap - 1)), Done, Ref) /\ GoodCalls(calls, Ref)

Complete(ref) ==
  /\ \A n \in DOMAIN Chain(ref) : Readable(ref, Chain(ref)[n])
  /\ ref.pages[Last(Chain(ref))].next = None
  /\ \A i \in DOMAIN Listed(ref) : Good(Listed(ref)[i], ref)
Walked == IF Walking THEN sitemap - 1 ELSE sitemap

\* Between two sitemaps nothing is under way.
Between == calls = <<>> /\ held = None /\ delivered = Before(publisher, sitemap)

IInv ==
  /\ Types
  /\ at \in {"manifest", "index", "sitemaps", "done"} => Between
  /\ at = "done" => sitemap = Len(publisher.sitemaps)
  /\ at = "failed" => IsPrefix(Done, Listing)
  /\ at # "failed" => \A s \in 1 .. Walked : Complete(publisher.sitemaps[s])
  /\ Walking => sitemap >= 1 /\ SoFarGood /\ \E trail : InSitemap(trail)

-----------------------------------------------------------------------------

LEMMA FaultNames ==
  /\ DOMAIN FaultOrder = 1 .. 5
  /\ ToSet(FaultOrder) = {FaultOrder[i] : i \in 1 .. 5}
  /\ \A i \in 1 .. 5 : FaultOrder[i] \in {"status", "version", "schema", "checksum", "semantics"}
<1>1. DOMAIN FaultOrder = 1 .. 5
  BY DEF FaultOrder
<1>2. \A i \in 1 .. 5 : FaultOrder[i] \in {"status", "version", "schema", "checksum", "semantics"}
  BY DEF FaultOrder
<1> QED BY <1>1, <1>2, Zenon DEF ToSet

\* A document that is refused is refused for a fault, so never as "ok".
LEMMA RejectionNames ==
  ASSUME NEW doc, ~Accepted(doc)
  PROVE  Rejection(doc) \in {"status", "version", "schema", "checksum", "semantics"}
<1> DEFINE Least(i) == FaultOrder[i] \in doc.faults /\ \A j \in 1 .. i - 1 : FaultOrder[j] \notin doc.faults
<1>1. PICK k \in 1 .. 5 : FaultOrder[k] \in doc.faults
  BY FaultNames DEF Accepted
<1>2. \E i \in 1 .. 5 : Least(i)
  <2>1. CASE FaultOrder[1] \in doc.faults
    BY <2>1
  <2>2. CASE FaultOrder[1] \notin doc.faults /\ FaultOrder[2] \in doc.faults
    BY <2>2
  <2>3. CASE FaultOrder[1] \notin doc.faults /\ FaultOrder[2] \notin doc.faults /\ FaultOrder[3] \in doc.faults
    BY <2>3
  <2>4. CASE /\ FaultOrder[1] \notin doc.faults /\ FaultOrder[2] \notin doc.faults /\ FaultOrder[3] \notin doc.faults
             /\ FaultOrder[4] \in doc.faults
    BY <2>4
  <2>5. CASE /\ FaultOrder[1] \notin doc.faults /\ FaultOrder[2] \notin doc.faults /\ FaultOrder[3] \notin doc.faults
             /\ FaultOrder[4] \notin doc.faults
    <3>1. k = 5
      BY <2>5, <1>1
    <3> QED BY <3>1, <2>5, <1>1
  <2> QED BY <2>1, <2>2, <2>3, <2>4, <2>5
<1> HIDE DEF Least
<1>3. (CHOOSE i \in 1 .. 5 : Least(i)) \in 1 .. 5
  BY <1>2
<1>4. Rejection(doc) = FaultOrder[CHOOSE i \in 1 .. 5 : Least(i)]
  BY FaultNames, Zenon DEF Rejection, Least
<1> QED BY <1>3, <1>4, FaultNames

\* An item a publisher lists is a proper one, and its entity has known faults only.
LEMMA ListedItems ==
  ASSUME NEW p \in Publishers, NEW item \in AllItems(p)
  PROVE  item # None /\ item.served.faults \subseteq ToSet(FaultOrder)
<1>1. PICK s \in DOMAIN p.sitemaps : item \in ItemSet(p.sitemaps[s])
  BY Zenon DEF AllItems
<1>2. PICK c \in DOMAIN p.sitemaps[s].pages : item \in ToSet(p.sitemaps[s].pages[c].items)
  BY <1>1, Zenon DEF ItemSet
<1>3. ServesPages(p.sitemaps[s])
  BY <1>1, PublishersAssumption, Zenon
<1>4. /\ None \notin ToSet(p.sitemaps[s].pages[c].items)
      /\ \A i \in DOMAIN p.sitemaps[s].pages[c].items :
           p.sitemaps[s].pages[c].items[i].served.faults \subseteq ToSet(FaultOrder)
  BY <1>3, Zenon DEF ServesPages
<1>5. PICK i \in DOMAIN p.sitemaps[s].pages[c].items : item = p.sitemaps[s].pages[c].items[i]
  BY <1>2, Zenon DEF ToSet
<1>6. item # None
  BY <1>2, <1>4, Zenon
<1> QED BY <1>4, <1>5, <1>6, Zenon

LEMMA NoneNotListed ==
  ASSUME NEW p \in Publishers
  PROVE  None \notin AllItems(p)
BY ListedItems

\* An entity found good is what its listing says.
LEMMA VerdictNames ==
  ASSUME NEW item, publisher \in Publishers, item \in AllItems(publisher)
  PROVE  Verdict(item) \in Outcomes /\ (Verdict(item) = "ok" => Good(item, Ref))
<1>1. CASE ~Accepted(item.served)
  <2>1. Verdict(item) = Rejection(item.served)
    BY <1>1 DEF Verdict
  <2>2. Rejection(item.served) \in {"status", "version", "schema", "checksum", "semantics"}
    BY <1>1, RejectionNames
  <2> QED BY <2>1, <2>2 DEF Outcomes
<1>2. CASE Accepted(item.served)
  <2>1. item.served.faults = {}
    <3>1. item.served.faults \subseteq ToSet(FaultOrder)
      BY ListedItems
    <3>2. \A i \in 1 .. 5 : FaultOrder[i] \notin item.served.faults
      BY <1>2, FaultNames DEF Accepted
    <3> QED BY <3>1, <3>2, FaultNames
  <2>2. Verdict(item) = IF Verified(item) THEN "ok" ELSE "integrity"
    BY <1>2 DEF Verdict
  <2>3. Verified(item) => Good(item, Ref)
    BY <2>1 DEF Verified, Good
  <2> QED BY <2>2, <2>3 DEF Outcomes
<1> QED BY <1>1, <1>2

\* The sitemap at hand is one of the publisher's.
LEMMA RefServes ==
  ASSUME Types, sitemap >= 1
  PROVE  /\ sitemap \in 1 .. Len(publisher.sitemaps) /\ Ref = publisher.sitemaps[sitemap]
         /\ ServesPages(Ref) /\ ItemSet(Ref) \subseteq Items /\ None \notin Items
<1>1. publisher \in Publishers /\ Len(publisher.sitemaps) \in Nat
  BY ListsType DEF Types
<1>2. sitemap \in 1 .. Len(publisher.sitemaps)
  BY <1>1 DEF Types
<1>3. Ref = publisher.sitemaps[sitemap]
  BY DEF Ref
<1>4. ServesPages(publisher.sitemaps[sitemap]) /\ ItemSet(publisher.sitemaps[sitemap]) \subseteq AllItems(publisher)
  BY <1>1, <1>2, ServesAll
<1>5. None \notin AllItems(publisher)
  BY <1>1, NoneNotListed
<1> QED BY <1>2, <1>3, <1>4, <1>5 DEF Items

\* What the consumer has, and what is on its way to it, is where the listing begins.
LEMMA InOrder ==
  ASSUME IInv
  PROVE  /\ IsPrefix(Done, Listing)
         /\ at # "failed" => IsPrefix(Done \o PulledOf(calls), Listing)
<1> DEFINE S == AllItems(publisher)
<1>0. /\ publisher \in Publishers /\ delivered \in Seq(S) /\ items \in Seq(S) /\ held \in S \cup {None}
      /\ calls \in Seq(Call(S)) /\ sitemap \in 0 .. Len(publisher.sitemaps)
  BY Zenon DEF IInv, Types, Items
<1>1. Listing = FlattenSeq(Lists(publisher))
  BY Zenon DEF Listing, Lists
<1>2. CASE at = "failed"
  BY <1>2 DEF IInv
<1>3. CASE at \in {"manifest", "index", "sitemaps", "done"}
  <2>1. calls = <<>> /\ held = None /\ delivered = Before(publisher, sitemap)
    BY <1>3, Zenon DEF IInv, Between
  <2>2. Before(publisher, sitemap) \in Seq(S) /\ Starts(S, FlattenSeq(Lists(publisher)), Before(publisher, sitemap))
    BY <1>0, BeforeType, Zenon
  <2>3. IsPrefix(Before(publisher, sitemap), FlattenSeq(Lists(publisher)))
    BY <2>2, StartsPrefix, Zenon
  <2>4. Done = delivered /\ PulledOf(calls) = <<>>
    <3> HIDE DEF S
    <3> QED BY <1>0, <2>1 DEF Done, DoneOf, PulledOf
  <2>5. Done \o PulledOf(calls) = Done
    <3> HIDE DEF S
    <3> QED BY <1>0, <2>4
  <2> QED BY <1>1, <2>1, <2>3, <2>4, <2>5
<1>4. CASE Walking
  <2>1. sitemap >= 1 /\ \E trail : InSitemap(trail)
    BY <1>4 DEF IInv
  <2>2. PICK trail : InSitemap(trail)
    BY <2>1
  <2>3. sitemap \in 1 .. Len(publisher.sitemaps) /\ Ref = publisher.sitemaps[sitemap]
    BY <2>1, RefServes DEF IInv
  <2> DEFINE part == PlaceOf(delivered, held, calls, items)
  <2>4. Trail(publisher.sitemaps[sitemap], trail)
        /\ Joins(part, Before(publisher, sitemap - 1), ItemsOf(publisher.sitemaps[sitemap], trail))
    BY <2>2, <2>3, Zenon DEF InSitemap
  <2>5. /\ Done \in Seq(S) /\ Done \o PulledOf(calls) \in Seq(S)
        /\ Starts(S, part, Done) /\ Starts(S, part, Done \o PulledOf(calls))
    BY <1>0, PlaceType, DoneType, Zenon DEF Done
  <2> HIDE DEF part
  <2>6. IsPrefix(Done, FlattenSeq(Lists(publisher)))
    BY <1>0, <2>3, <2>4, <2>5, PlaceInListing, Zenon
  <2>7. IsPrefix(Done \o PulledOf(calls), FlattenSeq(Lists(publisher)))
    BY <1>0, <2>3, <2>4, <2>5, PlaceInListing, Zenon
  <2> QED BY <1>1, <2>6, <2>7
<1> QED BY <1>2, <1>3, <1>4 DEF IInv, Types, Walking

-----------------------------------------------------------------------------
(* Steps, by what they may do to the invariant.                            *)

\* The walk throws: what the consumer has stays.
LEMMA ThrowKeeps ==
  ASSUME IInv, at' = "failed", publisher' = publisher, Types', Done' = Done
  PROVE  IInv'
<1>1. IsPrefix(Done, Listing)
  BY InOrder
<1>2. Listing' = Listing
  BY DEF Listing
<1>3. IsPrefix(Done, Listing)'
  BY <1>1, <1>2, Zenon
<1>4. ~Walking'
  BY DEF Walking
<1> QED BY <1>3, <1>4 DEF IInv

\* The walk goes on in the same sitemap.
LEMMA WalkKeeps ==
  ASSUME IInv, Walking, Walking', publisher' = publisher, sitemap' = sitemap, Types', SoFarGood',
         NEW trail, InSitemap(trail)'
  PROVE  IInv'
<1>1. sitemap >= 1 /\ \A s \in 1 .. sitemap - 1 : Complete(publisher.sitemaps[s])
  BY DEF IInv, Walking, Walked
<1>2. at' # "failed" /\ at' \notin {"manifest", "index", "sitemaps", "done"}
  BY DEF Walking
<1>3. (\A s \in 1 .. Walked : Complete(publisher.sitemaps[s]))'
  BY <1>1 DEF Walked
<1> QED BY <1>1, <1>2, <1>3, Zenon DEF IInv

\* A call changes its state, and nothing else changes.
LEMMA SettleKeeps ==
  ASSUME IInv, NEW i \in DOMAIN calls, NEW st \in Outcomes, calls' = [calls EXCEPT ![i].state = st],
         UNCHANGED <<publisher, walkVars, held, inputDone, delivered, failure>>,
         Walking /\ st = "ok" => Good(calls[i].item, Ref)
  PROVE  IInv'
<1>0. /\ publisher' = publisher /\ at' = at /\ sitemap' = sitemap /\ cursor' = cursor /\ seen' = seen
      /\ items' = items /\ held' = held /\ inputDone' = inputDone /\ delivered' = delivered
  BY DEF walkVars
<1>1. /\ publisher \in Publishers /\ delivered \in Seq(Items) /\ items \in Seq(Items)
      /\ held \in Items \cup {None} /\ calls \in Seq(Call(Items)) /\ Items' = Items
  BY <1>0, Zenon DEF IInv, Types, Items
<1>2. i \in 1 .. Len(calls) /\ calls # <<>>
  BY <1>1
<1>3. /\ calls' \in Seq(Call(Items)) /\ PlaceOf(delivered, held, calls', items) = PlaceOf(delivered, held, calls, items)
      /\ SettledTo(calls, i, st, calls')
  <2>1. SettlesTo(calls, i, st, calls')
    BY DEF SettlesTo
  <2>2. calls \in Seq(Call(Items)) /\ i \in 1 .. Len(calls) /\ st \in Outcomes
    BY <1>1, <1>2
  <2>3. calls' \in Seq(Call(Items))
    BY <2>1, <2>2, SettleKeepsPlace
  <2>4. SettledTo(calls, i, st, calls')
    BY <2>1, <2>2, SettleKeepsPlace
  <2>5. PlaceOf(delivered, held, calls', items) = PlaceOf(delivered, held, calls, items)
    BY <2>1, <2>2, SettleKeepsPlace
  <2> QED BY <2>3, <2>4, <2>5
<1>4. Types'
  BY <1>0, <1>1, <1>3, Zenon DEF IInv, Types
<1>5. Done' = Done
  BY <1>0, Zenon DEF Done
<1>6. at \notin {"manifest", "index", "sitemaps", "done"}
  BY <1>2 DEF IInv, Between
<1>7. CASE at = "failed"
  BY <1>0, <1>4, <1>5, <1>7, ThrowKeeps
<1>8. CASE Walking
  <2>1. SoFarGood /\ \E trail : InSitemap(trail)
    BY <1>8 DEF IInv
  <2>2. PICK trail : InSitemap(trail)
    BY <2>1
  <2>3. Ref' = Ref
    BY <1>0, Zenon DEF Ref
  <2>4. InSitemap(trail)'
    <3>1. Before(publisher, sitemap - 1)' = Before(publisher, sitemap - 1)
      BY <1>0
    <3>2. Joins(PlaceOf(delivered, held, calls, items), Before(publisher, sitemap - 1), ItemsOf(Ref, trail))'
      BY <2>2, <2>3, <3>1, <1>0, <1>3 DEF InSitemap
    <3> QED BY <2>2, <2>3, <3>2, <1>0 DEF InSitemap
  <2>5. GoodCalls(calls', Ref)
    <3>1. GoodCalls(calls, Ref)
      BY <2>1 DEF SoFarGood
    <3> QED BY <3>1, <1>3, <1>8 DEF GoodCalls, SettledTo
  <2>6. SoFarGood'
    BY <2>1, <2>3, <2>5, <1>0, <1>5, Zenon DEF SoFarGood
  <2>7. Walking'
    BY <1>0, <1>8 DEF Walking
  <2> QED BY <1>0, <1>4, <1>8, <2>4, <2>6, <2>7, WalkKeeps
<1> QED BY <1>6, <1>7, <1>8 DEF IInv, Types, Walking

LEMMA CallsKeep == ASSUME IInv, Calls PROVE IInv'
<1>1. PICK i \in DOMAIN calls : SendCall(i) \/ CallSettles(i)
  BY DEF Calls
<1>2. CASE SendCall(i)
  <2>1. PICK st \in {"budget", "sent"} : calls' = [calls EXCEPT ![i].state = st]
    BY <1>2, Zenon DEF SendCall
  <2>2. st \in Outcomes /\ st # "ok"
    BY <2>1 DEF Outcomes
  <2>3. UNCHANGED <<publisher, walkVars, held, inputDone, delivered, failure>>
    BY <1>2 DEF SendCall, input
  <2> QED BY <2>1, <2>2, <2>3, SettleKeeps
<1>3. CASE CallSettles(i)
  <2>1. PICK st \in Answers(Verdict(calls[i].item)) : calls' = [calls EXCEPT ![i].state = st]
    BY <1>3, Zenon DEF CallSettles
  <2>2. publisher \in Publishers /\ calls[i].item \in AllItems(publisher)
    <3>1. publisher \in Publishers /\ calls \in Seq(Call(Items))
      BY DEF IInv, Types
    <3>2. calls[i] \in Call(Items)
      BY <3>1
    <3>3. \A r \in Call(Items) : r.item \in Items
      BY DEF Call
    <3> QED BY <3>1, <3>2, <3>3, Zenon DEF Items
  <2>3. Verdict(calls[i].item) \in Outcomes /\ (Verdict(calls[i].item) = "ok" => Good(calls[i].item, Ref))
    BY <2>2, VerdictNames
  <2>4. st = Verdict(calls[i].item) \/ st = "budget"
    BY <2>1 DEF Answers
  <2>5. st \in Outcomes
    BY <2>3, <2>4 DEF Outcomes
  <2>6. st = "ok" => Good(calls[i].item, Ref)
    BY <2>3, <2>4
  <2>7. UNCHANGED <<publisher, walkVars, held, inputDone, delivered, failure>>
    BY <1>3 DEF CallSettles, input
  <2> QED BY <2>1, <2>5, <2>6, <2>7, SettleKeeps
<1> QED BY <1>1, <1>2, <1>3

LEMMA ThrowTypes ==
  ASSUME IInv, at' = "failed",
         UNCHANGED <<publisher, sitemap, items, delivered>>, calls' \in Seq(Call(Items)), held' = held
  PROVE  Types' /\ Done' = Done
<1>1. Items' = Items
  BY Zenon DEF Items
<1> QED BY <1>1, Zenon DEF IInv, Types, Done

\* Nothing is under way before the first sitemap and after the last.
LEMMA HeadKeeps ==
  ASSUME IInv, ReadManifest \/ ReadIndex \/ RefuseIndex \/ Finish
  PROVE  IInv'
<1>1. /\ UNCHANGED <<publisher, sitemap, items, callVars, delivered>>
      /\ at \in {"manifest", "index", "sitemaps"}
      /\ at' \in {"index", "sitemaps", "done", "failed"}
      /\ at' = "done" => sitemap = Len(publisher.sitemaps)
  BY DEF ReadManifest, ReadIndex, RefuseIndex, Finish, ReadHead, Throws, input
<1>2. /\ publisher' = publisher /\ sitemap' = sitemap /\ items' = items /\ calls' = calls /\ held' = held
      /\ delivered' = delivered /\ Items' = Items
  BY <1>1, Zenon DEF callVars, Items
<1>3. Types'
  BY <1>1, <1>2 DEF IInv, Types
<1>4. CASE at' = "failed"
  BY <1>2, <1>3, <1>4, ThrowKeeps DEF Done
<1>5. CASE at' # "failed"
  <2>1. Between /\ ~Walking /\ ~Walking' /\ at # "failed"
    BY <1>1 DEF IInv, Walking
  <2>2. Between' /\ Walked' = Walked
    BY <1>2, <2>1 DEF Between, Walked
  <2>3. (\A s \in 1 .. Walked : Complete(publisher.sitemaps[s]))'
    BY <1>2, <2>1, <2>2 DEF IInv
  <2> QED BY <1>1, <1>2, <1>3, <1>5, <2>1, <2>2, <2>3 DEF IInv
<1> QED BY <1>4, <1>5

\* What every step inside a sitemap starts from.
LEMMA Inside ==
  ASSUME IInv, Walking
  PROVE  /\ publisher \in Publishers /\ delivered \in Seq(Items) /\ items \in Seq(Items)
         /\ held \in Items \cup {None} /\ calls \in Seq(Call(Items)) /\ sitemap \in 0 .. Len(publisher.sitemaps)
         /\ sitemap >= 1 /\ SoFarGood /\ at # "failed" /\ ServesPages(Ref) /\ ItemSet(Ref) \subseteq Items
         /\ None \notin Items /\ \E trail : InSitemap(trail)
BY RefServes DEF IInv, Types, Walking

LEMMA NextSitemapKeeps == ASSUME IInv, NextSitemap PROVE IInv'
<1>1. /\ publisher' = publisher /\ sitemap' = sitemap + 1 /\ at' = "pull" /\ cursor' = None /\ seen' = {}
      /\ items' = <<>> /\ calls' = <<>> /\ held' = None /\ inputDone' = FALSE /\ delivered' = delivered
      /\ at = "sitemaps" /\ sitemap < Len(publisher.sitemaps)
  BY DEF NextSitemap, input
<1>2. Items' = Items /\ publisher \in Publishers /\ sitemap \in 0 .. Len(publisher.sitemaps) /\ delivered \in Seq(Items)
  BY <1>1, Zenon DEF Items, IInv, Types
<1>3. Len(publisher.sitemaps) \in Nat
  BY <1>2, ListsType
<1>4. Types'
  <2>1. items' \in Seq(Items) /\ calls' \in Seq(Call(Items)) /\ held' \in Items \cup {None}
    BY <1>1
  <2>2. sitemap' \in 0 .. Len(publisher.sitemaps)
    BY <1>1, <1>2, <1>3
  <2> QED BY <2>1, <2>2, <1>1, <1>2 DEF Types
<1>5. delivered = Before(publisher, sitemap) /\ ~Walking
  BY <1>1 DEF IInv, Between, Walking
<1>6. sitemap' - 1 = sitemap /\ sitemap' >= 1 /\ Before(publisher, sitemap' - 1) = delivered
  BY <1>1, <1>2, <1>5
<1>7. Done' = delivered
  BY <1>1, <1>2 DEF Done, DoneOf
<1>8. SoFarGood'
  <2>1. GoodFrom(Len(delivered), delivered, Ref')
    BY <1>2 DEF GoodFrom
  <2>2. GoodCalls(<<>>, Ref')
    BY DEF GoodCalls
  <2> QED BY <2>1, <2>2, <1>1, <1>6, <1>7, Zenon DEF SoFarGood
<1>9. InSitemap(<<>>)'
  <2>1. Trail(Ref', <<>>)
    BY TrailNone
  <2>2. ToSet(<<>>) = {}
    BY DEF ToSet
  <2>3. Joins(PlaceOf(delivered, None, <<>>, <<>>), delivered, ItemsOf(Ref', <<>>))
    <3>1. ItemsOf(Ref', <<>>) = <<>>
      BY ItemsNone
    <3>2. PlaceOf(delivered, None, <<>>, <<>>) = delivered
      BY <1>2 DEF PlaceOf, DoneOf, PulledOf
    <3>3. delivered = delivered \o <<>>
      BY <1>2
    <3> QED BY <3>1, <3>2, <3>3, Zenon DEF Joins
  <2>4. Joins(PlaceOf(delivered, held, calls, items), Before(publisher, sitemap - 1), ItemsOf(Ref, <<>>))'
    BY <2>3, <1>1, <1>6, Zenon
  <2> QED BY <2>1, <2>2, <2>4, <1>1 DEF InSitemap
<1>10. \A s \in 1 .. Walked' : Complete(publisher.sitemaps[s])
  BY <1>1, <1>5, <1>6 DEF IInv, Walked, Walking
<1>11. Walking' /\ at' # "failed" /\ at' \notin {"manifest", "index", "sitemaps", "done"}
  BY <1>1 DEF Walking
<1>12. (\A s \in 1 .. Walked : Complete(publisher.sitemaps[s]))'
  BY <1>10, <1>1
<1>13. (\E trail : InSitemap(trail))'
  BY <1>9, Zenon
<1> QED BY <1>4, <1>6, <1>8, <1>11, <1>12, <1>13, Zenon DEF IInv

LEMMA SendPageKeeps == ASSUME IInv, SendPage PROVE IInv'
<1>1. /\ UNCHANGED <<publisher, sitemap, cursor, seen, items, calls, held, inputDone, delivered>>
      /\ at = "page" /\ at' \in {"page", "failed"}
  BY DEF SendPage, input, callVars, Throws
<1>2. Types' /\ Done' = Done
  BY <1>1, Zenon DEF IInv, Types, Items, Done
<1>3. CASE at' = "failed"
  BY <1>1, <1>2, <1>3, ThrowKeeps
<1>4. CASE at' = "page"
  <2>1. Walking /\ Walking'
    BY <1>1, <1>4 DEF Walking
  <2>2. PICK trail : InSitemap(trail)
    BY <2>1 DEF IInv
  <2>3. SoFarGood' /\ InSitemap(trail)'
    <3>1. SoFarGood
      BY <2>1, Inside
    <3> QED BY <3>1, <2>2, <1>1, <1>2, <1>4 DEF SoFarGood, InSitemap, Ref
  <2> QED BY <2>1, <2>3, <1>1, <1>2, WalkKeeps
<1> QED BY <1>1, <1>3, <1>4

LEMMA YieldKeeps == ASSUME IInv, Yield PROVE IInv'
<1>1. /\ UNCHANGED <<publisher, sitemap, cursor, seen, items, calls, inputDone>>
      /\ at \in {"pull", "yield"} /\ at' = "pull" /\ held # None /\ held' = None
      /\ delivered' = Append(delivered, held)
  BY DEF Yield, WindowFilled, input
<1>2. Walking /\ Walking'
  BY <1>1 DEF Walking
<1>3. /\ publisher \in Publishers /\ delivered \in Seq(Items) /\ held \in Items /\ None \notin Items /\ SoFarGood
      /\ sitemap \in 0 .. Len(publisher.sitemaps) /\ items \in Seq(Items) /\ calls \in Seq(Call(Items))
  BY <1>1, <1>2, Inside
<1>4. Types'
  <2>1. delivered' \in Seq(Items)
    BY <1>1, <1>3
  <2>2. Items' = Items
    BY <1>1, Zenon DEF Items
  <2> QED BY <2>1, <2>2, <1>1, <1>3 DEF Types
<1>5. /\ Done' = Done
      /\ PlaceOf(delivered, held, calls, items)' = PlaceOf(delivered, held, calls, items)
  <2>1. DoneOf(Append(delivered, held), None) = DoneOf(delivered, held)
    BY <1>3, YieldKeepsPlace
  <2>2. PlaceOf(Append(delivered, held), None, calls, items) = PlaceOf(delivered, held, calls, items)
    BY <1>3, YieldKeepsPlace
  <2> QED BY <2>1, <2>2, <1>1, Zenon DEF Done
<1>6. Ref' = Ref /\ Before(publisher, sitemap - 1)' = Before(publisher, sitemap - 1)
  BY <1>1 DEF Ref
<1>7. PICK trail : InSitemap(trail)
  BY <1>2 DEF IInv
<1>8. InSitemap(trail)'
  <2>1. Joins(PlaceOf(delivered, held, calls, items), Before(publisher, sitemap - 1), ItemsOf(Ref, trail))'
    BY <1>5, <1>6, <1>7 DEF InSitemap
  <2> QED BY <2>1, <1>1, <1>6, <1>7 DEF InSitemap
<1>9. SoFarGood'
  BY <1>1, <1>3, <1>5, <1>6, Zenon DEF SoFarGood
<1> QED BY <1>1, <1>2, <1>4, <1>8, <1>9, WalkKeeps

LEMMA StartCallKeeps == ASSUME IInv, StartCall PROVE IInv'
<1>1. /\ UNCHANGED <<publisher, sitemap, cursor, seen, held, inputDone, delivered>>
      /\ at \in {"pull", "item"} /\ at' = "pull" /\ items # <<>> /\ items' = Tail(items)
  BY DEF StartCall, Pulling, input
<1>2. PICK st \in {"budget", "new"} : calls' = Append(calls, [item |-> Head(items), state |-> st])
  BY Zenon DEF StartCall
<1>3. Walking /\ Walking'
  BY <1>1 DEF Walking
<1>4. /\ publisher \in Publishers /\ delivered \in Seq(Items) /\ held \in Items \cup {None} /\ SoFarGood
      /\ sitemap \in 0 .. Len(publisher.sitemaps) /\ items \in Seq(Items) /\ calls \in Seq(Call(Items))
  BY <1>3, Inside
<1>5. st \in Outcomes /\ st # "ok"
  BY <1>2 DEF Outcomes
<1>6. /\ calls' \in Seq(Call(Items))
      /\ PlaceOf(delivered, held, calls', Tail(items)) = PlaceOf(delivered, held, calls, items)
  <2>1. PullsTo(calls, items, st, calls')
    BY <1>2 DEF PullsTo
  <2>2. calls' \in Seq(Call(Items))
    BY <2>1, <1>1, <1>4, <1>5, PullKeepsPlace
  <2>3. PlaceOf(delivered, held, calls', Tail(items)) = PlaceOf(delivered, held, calls, items)
    BY <2>1, <1>1, <1>4, <1>5, PullKeepsPlace
  <2> QED BY <2>2, <2>3
<1>7. Types' /\ Done' = Done
  <2>1. Tail(items) \in Seq(Items)
    BY <1>1, <1>4
  <2>2. Items' = Items
    BY <1>1, Zenon DEF Items
  <2> QED BY <2>1, <2>2, <1>1, <1>4, <1>6 DEF Types, Done
<1>8. Ref' = Ref /\ Before(publisher, sitemap - 1)' = Before(publisher, sitemap - 1)
  BY <1>1 DEF Ref
<1>9. PICK trail : InSitemap(trail)
  BY <1>3 DEF IInv
<1>10. InSitemap(trail)'
  <2>1. Joins(PlaceOf(delivered, held, calls, items), Before(publisher, sitemap - 1), ItemsOf(Ref, trail))'
    BY <1>1, <1>6, <1>8, <1>9 DEF InSitemap
  <2> QED BY <2>1, <1>1, <1>8, <1>9 DEF InSitemap
<1>11. GoodCalls(calls', Ref)
  <2>1. \A j \in DOMAIN calls' : \/ j \in DOMAIN calls /\ calls'[j] = calls[j]
                                 \/ calls'[j] = [item |-> Head(items), state |-> st]
    BY <1>2, <1>4
  <2> QED BY <2>1, <1>4, <1>5 DEF GoodCalls, SoFarGood
<1>12. SoFarGood'
  BY <1>4, <1>7, <1>8, <1>11, Zenon DEF SoFarGood
<1> QED BY <1>1, <1>3, <1>7, <1>10, <1>12, WalkKeeps

LEMMA TakeResultKeeps == ASSUME IInv, TakeResult PROVE IInv'
<1>1. /\ UNCHANGED <<publisher, sitemap, cursor, seen, items, inputDone, delivered>>
      /\ at = "pull" /\ held = None /\ calls # <<>> /\ calls' = WithoutFirst(calls)
  BY DEF TakeResult, WindowFilled, input, WithoutFirst, Turn
<1>2. Walking
  BY <1>1 DEF Walking
<1>3. /\ publisher \in Publishers /\ delivered \in Seq(Items) /\ held \in Items \cup {None} /\ SoFarGood
      /\ sitemap \in 0 .. Len(publisher.sitemaps) /\ items \in Seq(Items) /\ calls \in Seq(Call(Items))
      /\ None \notin Items
  BY <1>2, Inside
<1>4. /\ calls' \in Seq(Call(Items)) /\ calls[1].item \in Items
      /\ \A i \in 1 .. Len(calls') : i + 1 \in 1 .. Len(calls) /\ calls'[i] = calls[i + 1]
      /\ PlaceOf(delivered, calls[1].item, calls', items) = PlaceOf(delivered, None, calls, items)
  <2>1. FirstRemoved(Call(Items), calls, calls')
    <3>1. Len(calls) >= 1
      BY <1>1, <1>3
    <3> QED BY <1>1, <1>3, <3>1, WithoutFirstIs
  <2>2. calls[1].item \in Items
    BY <1>1, <1>3, TakeKeepsPlace
  <2>3. PlaceOf(delivered, calls[1].item, WithoutFirst(calls), items) = PlaceOf(delivered, None, calls, items)
    BY <1>1, <1>3, TakeKeepsPlace
  <2> QED BY <2>1, <2>2, <2>3, <1>1 DEF FirstRemoved
<1>5. CASE calls[1].state # "ok"
  <2>1. at' = "failed" /\ held' = held
    BY <1>5 DEF TakeResult, Turn, Throws
  <2>2. Types' /\ Done' = Done
    BY <1>1, <1>4, <2>1, ThrowTypes
  <2> QED BY <1>1, <2>1, <2>2, ThrowKeeps
<1>6. CASE calls[1].state = "ok"
  <2>1. at' \in {"yield", "pull"} /\ held' = calls[1].item
    BY <1>6, Zenon DEF TakeResult, Turn
  <2>2. Walking'
    BY <2>1 DEF Walking
  <2>3. Types'
    <3>1. Items' = Items
      BY <1>1, Zenon DEF Items
    <3> QED BY <3>1, <2>1, <1>1, <1>3, <1>4 DEF Types
  <2>4. Ref' = Ref /\ Before(publisher, sitemap - 1)' = Before(publisher, sitemap - 1)
    BY <1>1 DEF Ref
  <2>5. PICK trail : InSitemap(trail)
    BY <1>2 DEF IInv
  <2>6. InSitemap(trail)'
    <3>1. PlaceOf(delivered, held, calls, items)' = PlaceOf(delivered, held, calls, items)
      BY <1>1, <1>4, <2>1
    <3>2. Joins(PlaceOf(delivered, held, calls, items), Before(publisher, sitemap - 1), ItemsOf(Ref, trail))'
      BY <3>1, <2>4, <2>5 DEF InSitemap
    <3> QED BY <3>2, <1>1, <2>1, <2>4, <2>5 DEF InSitemap
  <2>7. GoodCalls(calls', Ref)
    <3>1. DOMAIN calls' = 1 .. Len(calls') /\ DOMAIN calls = 1 .. Len(calls)
      BY <1>3, <1>4
    <3> QED BY <3>1, <1>3, <1>4 DEF GoodCalls, SoFarGood
  <2>8. Good(calls[1].item, Ref)
    <3>1. 1 \in DOMAIN calls
      BY <1>1, <1>3
    <3> QED BY <3>1, <1>3, <1>6 DEF SoFarGood, GoodCalls
  <2>9. \A n \in Nat : GoodFrom(n, Done, Ref) => GoodFrom(n, Done', Ref)
    <3>1. Done = delivered /\ Done' = delivered \o <<calls[1].item>>
      BY <1>1, <1>3, <1>4, <2>1 DEF Done, DoneOf
    <3>2. /\ Len(Done') = Len(delivered) + 1 /\ Done'[Len(delivered) + 1] = calls[1].item
          /\ \A i \in 1 .. Len(delivered) : Done'[i] = delivered[i]
      BY <3>1, <1>3, <1>4
    <3>3. Len(delivered) \in Nat
      BY <1>3
    <3> QED BY <3>1, <3>2, <3>3, <2>8 DEF GoodFrom
  <2>10. SoFarGood'
    <3>1. Len(Before(publisher, sitemap - 1)) \in Nat
      <4>1. sitemap - 1 \in 0 .. Len(publisher.sitemaps)
        BY <1>2, <1>3, Inside, ListsType
      <4>2. Before(publisher, sitemap - 1) \in Seq(AllItems(publisher))
        BY <4>1, <1>3, BeforeType
      <4> QED BY <4>2
    <3>2. GoodFrom(Len(Before(publisher, sitemap - 1)), Done', Ref)
      BY <3>1, <2>9, <1>3 DEF SoFarGood
    <3> QED BY <3>2, <2>4, <2>7 DEF SoFarGood
  <2> QED BY <1>1, <1>2, <2>2, <2>3, <2>6, <2>10, WalkKeeps
<1> QED BY <1>5, <1>6

\* In a sitemap the trail says where its cursor came from.
LEMMA NextCursor ==
  ASSUME IInv, Walking, NEW trail, InSitemap(trail), at # "page"
  PROVE  /\ cursor = None <=> trail = <<>>
         /\ trail # <<>> => Page.next = Ref.pages[Last(trail)].next /\ Last(trail) \in DOMAIN Ref.pages
         /\ trail \in Seq(DOMAIN Ref.pages)
<1>1. trail \in Seq(DOMAIN Ref.pages) /\ cursor = IF trail = <<>> THEN None ELSE Last(trail)
  BY DEF InSitemap, Trail
<1>2. trail # <<>> => Last(trail) \in DOMAIN Ref.pages
  BY <1>1 DEF Last
<1>3. None \notin DOMAIN Ref.pages
  BY Inside DEF ServesPages
<1> QED BY <1>1, <1>2, <1>3 DEF Page

\* The next cursor is new to the trail: the walk's seen cursors are the trail's.
LEMMA TurnPageKeeps == ASSUME IInv, TurnPage PROVE IInv'
<1> DEFINE next == IF cursor = None THEN "first" ELSE Page.next
<1>1. /\ UNCHANGED <<publisher, sitemap, items, calls, held, delivered>>
      /\ at \in {"pull", "item"} /\ items = <<>>
      /\ at = "pull" => ~inputDone
      /\ seen' = seen \cup ({next} \ {None, "first"})
      /\ inputDone' = (next = None)
      /\ \/ next = None /\ at' = "pull" /\ cursor' = cursor
         \/ at' = "failed"
         \/ next # None /\ next \notin seen /\ at' = "page" /\ cursor' = next
  BY DEF TurnPage, Pulling, input, Throws, CursorRepeats
<1> HIDE DEF next
<1>2. Walking
  BY <1>1 DEF Walking
<1>3. calls \in Seq(Call(Items)) /\ SoFarGood /\ ServesPages(Ref)
  BY <1>2, Inside
<1>4. CASE at' = "failed"
  <2>1. Types' /\ Done' = Done
    BY <1>1, <1>3, <1>4, ThrowTypes
  <2> QED BY <1>1, <1>4, <2>1, ThrowKeeps
<1>5. CASE at' # "failed"
  <2>1. at' \in {"pull", "page"}
    BY <1>1, <1>5
  <2>2. Walking'
    BY <2>1 DEF Walking
  <2>3. Types' /\ Done' = Done
    BY <1>1, <2>1, Zenon DEF IInv, Types, Items, Done
  <2>4. Ref' = Ref /\ Before(publisher, sitemap - 1)' = Before(publisher, sitemap - 1)
    BY <1>1 DEF Ref
  <2>5. SoFarGood'
    BY <1>1, <1>3, <2>3, <2>4, Zenon DEF SoFarGood
  <2>6. PICK trail : InSitemap(trail)
    BY <1>2 DEF IInv
  <2>7. /\ cursor = None <=> trail = <<>>
        /\ trail # <<>> => Page.next = Ref.pages[Last(trail)].next /\ Last(trail) \in DOMAIN Ref.pages
        /\ trail \in Seq(DOMAIN Ref.pages)
    BY <1>1, <1>2, <2>6, NextCursor
  <2>8. next = IF trail = <<>> THEN "first" ELSE Ref.pages[Last(trail)].next
    BY <2>7 DEF next
  <2>9. Joins(PlaceOf(delivered, held, calls, items), Before(publisher, sitemap - 1), ItemsOf(Ref, trail))'
    BY <1>1, <2>4, <2>6 DEF InSitemap
  <2>10. seen = (ToSet(trail) \cup {cursor}) \ {None, "first"} /\ cursor = IF trail = <<>> THEN None ELSE Last(trail)
    BY <1>1, <2>6 DEF InSitemap
  <2>11. ToSet(trail) = {trail[i] : i \in 1 .. Len(trail)} /\ (trail # <<>> => Last(trail) \in ToSet(trail))
    BY <2>7 DEF ToSet, Last
  <2>12. "first" \in DOMAIN Ref.pages /\ None \notin DOMAIN Ref.pages
    BY <1>3 DEF ServesPages
  <2>13. CASE next = None
    <3>1. trail # <<>> /\ Ref.pages[Last(trail)].next = None /\ at' = "pull" /\ cursor' = cursor
      BY <2>1, <2>8, <2>12, <2>13, <1>1
    <3>2. seen' = (ToSet(trail) \cup {cursor'}) \ {None, "first"}
      BY <1>1, <2>10, <2>13, <3>1
    <3>3. InSitemap(trail)'
      BY <1>1, <2>4, <2>6, <2>9, <2>10, <3>1, <3>2 DEF InSitemap
    <3> QED BY <1>1, <1>2, <2>2, <2>3, <2>5, <3>3, WalkKeeps
  <2>14. CASE next # None
    <3>1. at' = "page" /\ cursor' = next /\ next \notin seen /\ inputDone' = FALSE
      BY <1>1, <1>5, <2>14
    <3>2. next \in DOMAIN Ref.pages /\ (trail # <<>> => next # "first")
      <4>1. trail # <<>> => Ref.pages[Last(trail)].next \in (DOMAIN Ref.pages \ {"first"}) \cup {None}
        BY <2>7, <1>3, Zenon DEF ServesPages
      <4> QED BY <4>1, <2>8, <2>12, <2>14
    <3>3. next \notin ToSet(trail)
      <4>1. CASE trail = <<>>
        BY <4>1 DEF ToSet
      <4>2. CASE trail # <<>>
        BY <4>2, <2>10, <2>14, <3>1, <3>2
      <4> QED BY <4>1, <4>2
    <3>4. seen' = (ToSet(trail) \cup {cursor'}) \ {None, "first"}
      BY <1>1, <2>10, <2>11, <3>1
    <3>5. InSitemap(trail)'
      BY <1>1, <2>4, <2>6, <2>8, <2>9, <3>1, <3>2, <3>3, <3>4 DEF InSitemap
    <3> QED BY <1>1, <1>2, <2>2, <2>3, <2>5, <3>5, WalkKeeps
  <2> QED BY <2>13, <2>14
<1> QED BY <1>4, <1>5

Lengthens(D, t, c, longer) ==
  /\ longer \in Seq(D) /\ Len(longer) = Len(t) + 1 /\ longer[Len(t) + 1] = c
  /\ \A i \in 1 .. Len(t) : longer[i] = t[i]

LEMMA AppendIs ==
  ASSUME NEW D, NEW t \in Seq(D), NEW c \in D, NEW longer, longer = Append(t, c)
  PROVE  Lengthens(D, t, c, longer)
<1>1. /\ Append(t, c) \in Seq(D) /\ Len(Append(t, c)) = Len(t) + 1 /\ Append(t, c)[Len(t) + 1] = c
      /\ \A i \in 1 .. Len(t) : Append(t, c)[i] = t[i]
  OBVIOUS
<1> QED BY <1>1, Zenon DEF Lengthens

\* The page at hand joins the trail.
LEMMA TrailGrows ==
  ASSUME NEW ref, ServesPages(ref), NEW trail, Trail(ref, trail), NEW c \in DOMAIN ref.pages \ ToSet(trail),
         c = IF trail = <<>> THEN "first" ELSE ref.pages[Last(trail)].next, Readable(ref, c)
  PROVE  Trail(ref, Append(trail, c))
<1>0. PICK longer : longer = Append(trail, c)
  OBVIOUS
<1>1. trail \in Seq(DOMAIN ref.pages) /\ Len(trail) \in Nat
  BY DEF Trail
<1>2. /\ longer \in Seq(DOMAIN ref.pages) /\ Len(longer) = Len(trail) + 1 /\ longer[Len(trail) + 1] = c
      /\ \A i \in 1 .. Len(trail) : longer[i] = trail[i]
  <2>1. c \in DOMAIN ref.pages
    OBVIOUS
  <2>2. Lengthens(DOMAIN ref.pages, trail, c, longer)
    BY <1>0, <1>1, <2>1, AppendIs
  <2> QED BY <2>2 DEF Lengthens
<1>3. \A i \in 1 .. Len(trail) : trail[i] # c
  BY <1>1 DEF ToSet
<1>4. longer[1] = "first"
  <2>1. CASE trail = <<>>
    BY <2>1, <1>2
  <2>2. CASE trail # <<>>
    <3>1. 1 \in 1 .. Len(trail)
      BY <2>2, <1>1
    <3> QED BY <2>2, <3>1, <1>2 DEF Trail
  <2> QED BY <2>1, <2>2
<1>5. \A i \in 1 .. Len(longer) : Readable(ref, longer[i])
  <2>1. \A i \in 1 .. Len(longer) : i \in 1 .. Len(trail) \/ i = Len(trail) + 1
    BY <1>1, <1>2
  <2> QED BY <2>1, <1>2 DEF Trail
<1>6. \A i \in 2 .. Len(longer) : ref.pages[longer[i - 1]].next = longer[i]
  <2>1. ASSUME NEW i \in 2 .. Len(longer) PROVE ref.pages[longer[i - 1]].next = longer[i]
    <3>1. CASE i \in 2 .. Len(trail)
      <4>1. longer[i - 1] = trail[i - 1] /\ longer[i] = trail[i]
        BY <3>1, <1>1, <1>2
      <4> QED BY <4>1, <3>1 DEF Trail
    <3>2. CASE i = Len(trail) + 1
      <4>1. trail # <<>> /\ i - 1 = Len(trail) /\ Len(trail) \in 1 .. Len(trail)
        BY <3>2, <1>1
      <4>2. longer[i - 1] = Last(trail) /\ longer[i] = c
        BY <4>1, <3>2, <1>2 DEF Last
      <4> QED BY <4>1, <4>2
    <3> QED BY <3>1, <3>2, <1>1, <1>2
  <2> QED BY <2>1
<1>7. \A i, j \in 1 .. Len(longer) : longer[i] = longer[j] => i = j
  <2>1. ASSUME NEW i \in 1 .. Len(longer), NEW j \in 1 .. Len(longer), longer[i] = longer[j] PROVE i = j
    <3>1. CASE i \in 1 .. Len(trail) /\ j \in 1 .. Len(trail)
      <4>1. trail[i] = trail[j]
        BY <3>1, <2>1, <1>2
      <4> QED BY <4>1, <3>1 DEF Trail
    <3>2. CASE i = Len(trail) + 1 /\ j \in 1 .. Len(trail)
      BY <3>2, <2>1, <1>2, <1>3
    <3>3. CASE i \in 1 .. Len(trail) /\ j = Len(trail) + 1
      BY <3>3, <2>1, <1>2, <1>3
    <3> QED BY <3>1, <3>2, <3>3, <1>1, <1>2
  <2> QED BY <2>1
<1>8. Trail(ref, longer)
  BY <1>2, <1>4, <1>5, <1>6, <1>7, Zenon DEF Trail
<1> QED BY <1>0, <1>8

LEMMA PageArrivesKeeps == ASSUME IInv, PageArrives PROVE IInv'
<1>1. /\ UNCHANGED <<publisher, sitemap, cursor, seen, calls, held, inputDone, delivered>>
      /\ at = "page"
      /\ \/ at' = "failed" /\ items' = items
         \/ at' = "item" /\ items' = Page.items /\ PageVerdict = "ok"
  <2>1. PICK verdict \in Answers(PageVerdict) :
          IF verdict = "ok" THEN at' = "item" /\ items' = Page.items ELSE at' = "failed" /\ items' = items
    BY Zenon DEF PageArrives, Throws
  <2>2. verdict = "ok" => PageVerdict = "ok"
    BY DEF Answers
  <2> QED BY <2>1, <2>2 DEF PageArrives, input, callVars
<1>2. Walking
  BY <1>1 DEF Walking
<1>3. /\ publisher \in Publishers /\ delivered \in Seq(Items) /\ held \in Items \cup {None} /\ SoFarGood
      /\ sitemap \in 0 .. Len(publisher.sitemaps) /\ items \in Seq(Items) /\ calls \in Seq(Call(Items))
      /\ ServesPages(Ref) /\ ItemSet(Ref) \subseteq Items /\ sitemap >= 1
  BY <1>2, Inside
<1>4. CASE at' = "failed"
  <2>1. items' = items
    BY <1>1, <1>4
  <2>2. Types' /\ Done' = Done
    BY <1>1, <1>3, <1>4, <2>1, ThrowTypes
  <2> QED BY <1>1, <1>4, <2>2, ThrowKeeps
<1>5. CASE at' # "failed"
  <2>0. at' = "item" /\ items' = Page.items /\ PageVerdict = "ok"
    BY <1>1, <1>5
  <2>1. PICK trail : InSitemap(trail)
    BY <1>2 DEF IInv
  <2>2. /\ items = <<>> /\ cursor \in DOMAIN Ref.pages \ ToSet(trail) /\ ~inputDone /\ Trail(Ref, trail)
        /\ cursor = IF trail = <<>> THEN "first" ELSE Ref.pages[Last(trail)].next
        /\ seen = (ToSet(trail) \cup {cursor}) \ {None, "first"}
    BY <1>1, <2>1 DEF InSitemap
  <2>3. Readable(Ref, cursor)
    <3>1. Accepted(Page) \/ PageVerdict = Rejection(Page)
      BY DEF PageVerdict
    <3>2. Accepted(Page)
      <4>1. ~Accepted(Page) => Rejection(Page) # "ok"
        BY RejectionNames
      <4> QED BY <3>1, <4>1, <2>0
    <3>3. Page.type = Ref.type
      BY <2>0, <3>2 DEF PageVerdict
    <3> QED BY <3>2, <3>3 DEF Readable, Page
  <2>4. PICK longer : longer = Append(trail, cursor)
    OBVIOUS
  <2>5. Trail(Ref, longer)
    BY <1>3, <2>2, <2>3, <2>4, TrailGrows
  <2>6. /\ trail \in Seq(DOMAIN Ref.pages) /\ longer # <<>> /\ Last(longer) = cursor
        /\ ToSet(longer) = ToSet(trail) \cup {cursor}
    <3>1. trail \in Seq(DOMAIN Ref.pages) /\ cursor \in DOMAIN Ref.pages
      BY <2>2 DEF Trail
    <3>2. /\ longer \in Seq(DOMAIN Ref.pages) /\ Len(longer) = Len(trail) + 1 /\ longer[Len(trail) + 1] = cursor
          /\ \A i \in 1 .. Len(trail) : longer[i] = trail[i]
      <4>1. Lengthens(DOMAIN Ref.pages, trail, cursor, longer)
        BY <3>1, <2>4, AppendIs
      <4> QED BY <4>1 DEF Lengthens
    <3>3. Len(trail) \in Nat /\ DOMAIN trail = 1 .. Len(trail) /\ DOMAIN longer = 1 .. Len(longer)
      BY <3>1, <3>2
    <3>4. \A i \in 1 .. Len(longer) : i \in 1 .. Len(trail) \/ i = Len(trail) + 1
      BY <3>2, <3>3
    <3>5. longer # <<>> /\ Last(longer) = cursor
      BY <3>2, <3>3 DEF Last
    <3>6. ToSet(longer) = ToSet(trail) \cup {cursor}
      BY <3>2, <3>3, <3>4 DEF ToSet
    <3> QED BY <3>1, <3>5, <3>6
  <2>7. Page.items \in Seq(Items)
    BY <1>3, <2>2, PageItemsType DEF Page
  <2>8. Types' /\ Done' = Done
    <3>1. Items' = Items
      BY <1>1, Zenon DEF Items
    <3> QED BY <3>1, <2>0, <2>7, <1>1, <1>3 DEF Types, Done
  <2>9. Ref' = Ref /\ Before(publisher, sitemap - 1)' = Before(publisher, sitemap - 1)
    BY <1>1 DEF Ref
  <2>10. Joins(PlaceOf(delivered, held, calls, Page.items), Before(publisher, sitemap - 1), ItemsOf(Ref, longer))
    <3>1. Joins(PlaceOf(delivered, held, calls, items), Before(publisher, sitemap - 1), ItemsOf(Ref, trail))
      BY <2>1 DEF InSitemap
    <3>2. Joins(ItemsOf(Ref, longer), ItemsOf(Ref, trail), Page.items)
      BY <1>3, <2>2, <2>4, <2>6, ItemsGrow DEF Page
    <3>3. Before(publisher, sitemap - 1) \in Seq(Items) /\ ItemsOf(Ref, trail) \in Seq(Items)
      <4>1. sitemap - 1 \in 0 .. Len(publisher.sitemaps)
        BY <1>3, ListsType
      <4>2. Before(publisher, sitemap - 1) \in Seq(AllItems(publisher))
        BY <4>1, <1>3, BeforeType
      <4> QED BY <4>2, <1>3, <2>6, ItemsType DEF Items
    <3>4. Len(items) = 0
      BY <2>2
    <3> QED BY <1>3, <2>7, <3>1, <3>2, <3>3, <3>4, PageAddsItems
  <2>11. InSitemap(longer)'
    <3>1. Joins(PlaceOf(delivered, held, calls, items), Before(publisher, sitemap - 1), ItemsOf(Ref, longer))'
      BY <1>1, <2>0, <2>9, <2>10
    <3> QED BY <3>1, <1>1, <2>0, <2>2, <2>5, <2>6, <2>9 DEF InSitemap
  <2>12. SoFarGood'
    BY <1>1, <1>3, <2>8, <2>9, Zenon DEF SoFarGood
  <2>13. Walking'
    BY <2>0 DEF Walking
  <2> QED BY <1>1, <1>2, <2>8, <2>11, <2>12, <2>13, WalkKeeps
<1> QED BY <1>4, <1>5

LEMMA JoinElements ==
  ASSUME NEW S, NEW front \in Seq(S), NEW back \in Seq(S), NEW whole, Joins(whole, front, back)
  PROVE  /\ Len(whole) = Len(front) + Len(back) /\ Len(front) \in Nat /\ DOMAIN back = 1 .. Len(back)
         /\ \A i \in 1 .. Len(back) : whole[Len(front) + i] = back[i]
<1>1. /\ Len(front \o back) = Len(front) + Len(back) /\ Len(front) \in Nat /\ DOMAIN back = 1 .. Len(back)
      /\ \A i \in 1 .. Len(back) : (front \o back)[Len(front) + i] = back[i]
  OBVIOUS
<1> QED BY <1>1, Zenon DEF Joins

\* The walk of a sitemap ends with all of its chain read and all of its items delivered.
LEMMA SitemapEndsKeeps == ASSUME IInv, SitemapEnds PROVE IInv'
<1>1. /\ UNCHANGED <<publisher, sitemap, items, calls, held, delivered>>
      /\ at = "pull" /\ inputDone /\ calls = <<>> /\ held = None /\ at' = "sitemaps"
  BY DEF SitemapEnds, input, callVars
<1>2. Walking /\ ~Walking'
  BY <1>1 DEF Walking
<1>3. /\ publisher \in Publishers /\ delivered \in Seq(Items) /\ SoFarGood /\ sitemap \in 0 .. Len(publisher.sitemaps)
      /\ sitemap >= 1 /\ ServesPages(Ref) /\ ItemSet(Ref) \subseteq Items
  BY <1>2, Inside
<1>4. PICK trail : InSitemap(trail)
  BY <1>2 DEF IInv
<1>5. /\ Trail(Ref, trail) /\ items = <<>> /\ trail # <<>> /\ Ref.pages[Last(trail)].next = None
      /\ Joins(PlaceOf(delivered, held, calls, items), Before(publisher, sitemap - 1), ItemsOf(Ref, trail))
  BY <1>1, <1>4 DEF InSitemap
<1>6. Chain(Ref) = trail /\ Listed(Ref) = ItemsOf(Ref, trail) /\ Listed(Ref) \in Seq(Items)
  BY <1>3, <1>5, TrailBegins, ItemsStart
<1>7. PlaceOf(delivered, held, calls, items) = delivered /\ Done = delivered
  BY <1>1, <1>3, <1>5 DEF PlaceOf, DoneOf, PulledOf, Done
<1>8. Joins(delivered, Before(publisher, sitemap - 1), Listed(Ref))
  BY <1>5, <1>6, <1>7, Zenon
<1>9. Before(publisher, sitemap) = delivered
  <2>1. sitemap \in 1 .. Len(publisher.sitemaps) /\ Ref = publisher.sitemaps[sitemap]
    BY <1>3, RefServes DEF IInv
  <2>2. Joins(Before(publisher, sitemap), Before(publisher, sitemap - 1), Listed(Ref))
    BY <1>3, <2>1, BeforeNext
  <2> QED BY <1>8, <2>2 DEF Joins
<1>10. Before(publisher, sitemap - 1) \in Seq(Items)
  <2>1. sitemap - 1 \in 0 .. Len(publisher.sitemaps)
    BY <1>3, ListsType
  <2> QED BY <2>1, <1>3, BeforeType DEF Items
<1>11. Complete(Ref)
  <2>1. \A i \in DOMAIN Listed(Ref) : Good(Listed(Ref)[i], Ref)
    <3> DEFINE n == Len(Before(publisher, sitemap - 1))
    <3>1. /\ Len(delivered) = n + Len(Listed(Ref)) /\ n \in Nat /\ DOMAIN Listed(Ref) = 1 .. Len(Listed(Ref))
          /\ \A i \in 1 .. Len(Listed(Ref)) : delivered[n + i] = Listed(Ref)[i]
      BY <1>6, <1>8, <1>10, JoinElements
    <3>2. GoodFrom(n, delivered, Ref)
      BY <1>3, <1>7 DEF SoFarGood
    <3>3. Len(Listed(Ref)) \in Nat
      BY <1>6
    <3> HIDE DEF n
    <3> QED BY <3>1, <3>2, <3>3 DEF GoodFrom
  <2>2. \A i \in DOMAIN trail : Readable(Ref, trail[i])
    BY <1>5 DEF Trail
  <2> QED BY <1>5, <1>6, <2>1, <2>2 DEF Complete
<1>12. \A s \in 1 .. sitemap : Complete(publisher.sitemaps[s])
  <2>1. \A s \in 1 .. sitemap - 1 : Complete(publisher.sitemaps[s])
    BY <1>1, <1>2 DEF IInv, Walked
  <2>2. Complete(publisher.sitemaps[sitemap])
    BY <1>11 DEF Ref
  <2> QED BY <2>1, <2>2, <1>3
<1>13. (\A s \in 1 .. Walked : Complete(publisher.sitemaps[s]))'
  BY <1>1, <1>2, <1>12 DEF Walked
<1>14. Types' /\ Between'
  <2>1. Items' = Items
    BY <1>1, Zenon DEF Items
  <2>2. Types'
    BY <2>1, <1>1 DEF IInv, Types
  <2>3. Between'
    BY <1>1, <1>9 DEF Between
  <2> QED BY <2>2, <2>3
<1> QED BY <1>1, <1>2, <1>13, <1>14 DEF IInv

LEMMA InitHolds == Init => IInv
<1>1. SUFFICES ASSUME Init PROVE IInv
  OBVIOUS
<1>2. /\ publisher \in Publishers /\ at = "manifest" /\ sitemap = 0 /\ items = <<>> /\ calls = <<>> /\ held = None
      /\ delivered = <<>>
  BY <1>1 DEF Init
<1>3. Before(publisher, 0) = <<>> /\ Len(publisher.sitemaps) \in Nat
  BY <1>2, BeforeNone, ListsType
<1>4. Types
  BY <1>2, <1>3 DEF Types
<1>5. Between
  BY <1>2, <1>3 DEF Between
<1>6. ~Walking /\ Walked = 0
  BY <1>2 DEF Walking, Walked
<1> QED BY <1>2, <1>4, <1>5, <1>6 DEF IInv

LEMMA NothingMoves ==
  ASSUME IInv, UNCHANGED <<publisher, at, sitemap, cursor, seen, items, calls, held, inputDone, delivered>>
  PROVE  IInv'
<1>1. Items' = Items /\ Done' = Done /\ Walking' = Walking /\ Walked' = Walked /\ Listing' = Listing /\ Ref' = Ref
  BY DEF Items, Done, Walking, Walked, Listing, Ref
<1>2. Types'
  BY <1>1 DEF IInv, Types
<1>3. Between' = Between /\ SoFarGood' = SoFarGood
  BY <1>1 DEF Between, SoFarGood
<1>4. ASSUME NEW trail, InSitemap(trail) PROVE InSitemap(trail)'
  <2>1. Joins(PlaceOf(delivered, held, calls, items), Before(publisher, sitemap - 1), ItemsOf(Ref, trail))'
    BY <1>1, <1>4 DEF InSitemap
  <2> QED BY <2>1, <1>1, <1>4 DEF InSitemap
<1>5. Walking => (\E trail : InSitemap(trail))'
  BY <1>4, Zenon DEF IInv
<1> QED BY <1>1, <1>2, <1>3, <1>5 DEF IInv

\* The invariant is inductive: whatever a publisher serves, whatever settles
\* first and whenever the deadline passes, every step keeps it.
THEOREM Inductive == Spec => []IInv
<1>1. Init => IInv
  BY InitHolds
<1>2. IInv /\ [Next]_vars => IInv'
  <2>1. SUFFICES ASSUME IInv, [Next]_vars PROVE IInv'
    OBVIOUS
  <2>2. CASE Walk
    BY <2>1, <2>2, HeadKeeps, NextSitemapKeeps, TurnPageKeeps, SendPageKeeps, PageArrivesKeeps, StartCallKeeps,
       TakeResultKeeps, YieldKeeps, SitemapEndsKeeps DEF Walk
  <2>3. CASE Calls
    BY <2>1, <2>3, CallsKeep
  <2>4. CASE DeadlinePasses
    BY <2>1, <2>4, NothingMoves DEF DeadlinePasses, input, walkVars, callVars
  <2>5. CASE UNCHANGED vars
    BY <2>1, <2>5, NothingMoves DEF vars, input, walkVars, callVars
  <2> QED BY <2>1, <2>2, <2>3, <2>4, <2>5 DEF Next
<1> QED BY <1>1, <1>2, PTL DEF Spec

\* What the consumer got, what is held for it and what is in flight are always
\* the items of the listing from the first on, whatever order the calls settle in.
THEOREM InListedOrderAlways == Spec => []InListedOrder
<1>1. IInv => InListedOrder
  <2>1. SUFFICES ASSUME IInv PROVE InListedOrder
    OBVIOUS
  <2>2. IsPrefix(Done, Listing) /\ (at # "failed" => IsPrefix(Done \o PulledOf(calls), Listing))
    BY <2>1, InOrder
  <2>3. Done \o <<>> = Done
    <3>1. delivered \in Seq(Items) /\ held \in Items \cup {None}
      BY <2>1 DEF IInv, Types
    <3>2. Done \in Seq(Items)
      BY <3>1, DoneType DEF Done
    <3> QED BY <3>2
  <2> QED BY <2>2, <2>3, Zenon DEF InListedOrder, Done, DoneOf, PulledOf
<1> QED BY <1>1, Inductive, PTL

\* A walk that ends without an error delivered everything the publisher lists,
\* and nothing was wrong with any page or entity of it.
THEOREM CompleteMeansAllAlways == Spec => []CompleteMeansAll
<1>1. IInv => CompleteMeansAll
  <2>1. SUFFICES ASSUME IInv, at = "done" PROVE CompleteMeansAll
    BY DEF CompleteMeansAll
  <2>2. ~Walking /\ Walked = sitemap /\ sitemap = Len(publisher.sitemaps) /\ delivered = Before(publisher, sitemap)
        /\ publisher \in Publishers
    BY <2>1 DEF IInv, Walking, Walked, Between, Types
  <2>3. \A s \in 1 .. Len(publisher.sitemaps) : Complete(publisher.sitemaps[s])
    BY <2>1, <2>2 DEF IInv
  <2>4. delivered = Listing
    <3>1. Listing = FlattenSeq(Lists(publisher))
      BY Zenon DEF Listing, Lists
    <3>2. Len(publisher.sitemaps) \in 0 .. Len(publisher.sitemaps)
      BY <2>2, ListsType
    <3> QED BY <3>1, <3>2, <2>2, BeforeType
  <2>5. DOMAIN publisher.sitemaps = 1 .. Len(publisher.sitemaps)
    <3>1. publisher.sitemaps \in Seq(ToSet(publisher.sitemaps))
      BY <2>2, PublishersAssumption, Zenon
    <3> QED BY <3>1
  <2> QED BY <2>3, <2>4, <2>5, Zenon DEF CompleteMeansAll, Complete
<1> QED BY <1>1, Inductive, PTL
=============================================================================
