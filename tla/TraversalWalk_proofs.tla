------------------------ MODULE TraversalWalk_proofs ------------------------
(***************************************************************************)
(* Proofs for TraversalWalk: its invariants, and that it implements the    *)
(* sequential walk, for any graphs, depth, budgets and size of the pool.   *)
(***************************************************************************)
EXTENDS TraversalWalk, FiniteSetTheorems, SequenceTheorems, TLAPS

-----------------------------------------------------------------------------
(* A sequence arranged by a strict order of finitely many places.          *)

Orders(R, I) ==
  /\ \A x, y \in I : x = y \/ <<x, y>> \in R \/ <<y, x>> \in R
  /\ \A x \in I : <<x, x>> \notin R
  /\ \A x, y, z \in I : <<x, y>> \in R /\ <<y, z>> \in R => <<x, z>> \in R

Earlier(R, I, i) == {j \in I : <<j, i>> \in R}

\* The n-th place of I in the order R.
Place(R, I, n) == CHOOSE i \in I : Cardinality(Earlier(R, I, i)) = n - 1

LEMMA EarlierCount ==
  ASSUME NEW R, NEW I, IsFiniteSet(I), Orders(R, I), NEW i \in I
  PROVE  /\ IsFiniteSet(Earlier(R, I, i))
         /\ Cardinality(Earlier(R, I, i)) \in Nat
         /\ Cardinality(Earlier(R, I, i)) < Cardinality(I)
         /\ Cardinality(I) \in Nat
<1> DEFINE E == Earlier(R, I, i)
<1>1. E \in SUBSET (I \ {i})
  BY DEF Earlier, Orders
<1>2. IsFiniteSet(I \ {i}) /\ Cardinality(I \ {i}) = Cardinality(I) - 1
  BY FS_RemoveElement
<1>3. IsFiniteSet(E) /\ Cardinality(E) <= Cardinality(I \ {i})
  BY <1>1, <1>2, FS_Subset
<1> QED BY <1>2, <1>3, FS_CardinalityType

LEMMA EarlierGrows ==
  ASSUME NEW R, NEW I, IsFiniteSet(I), Orders(R, I), NEW i \in I, NEW j \in I, <<i, j>> \in R
  PROVE  Cardinality(Earlier(R, I, i)) < Cardinality(Earlier(R, I, j))
<1> DEFINE E == Earlier(R, I, i)
<1>1. E \cup {i} \in SUBSET Earlier(R, I, j) /\ i \notin E
  BY DEF Earlier, Orders
<1>2. IsFiniteSet(E) /\ Cardinality(E) \in Nat /\ IsFiniteSet(Earlier(R, I, j))
        /\ Cardinality(Earlier(R, I, j)) \in Nat
  BY EarlierCount
<1>3. Cardinality(E \cup {i}) = Cardinality(E) + 1
  BY <1>1, <1>2, FS_AddElement
<1>4. Cardinality(E \cup {i}) <= Cardinality(Earlier(R, I, j))
  BY <1>1, <1>2, FS_Subset
<1> QED BY <1>2, <1>3, <1>4

\* Every number up to the size of I is the rank of exactly one place.
LEMMA PlaceExists ==
  ASSUME NEW R, NEW I, IsFiniteSet(I), Orders(R, I), NEW n \in 1 .. Cardinality(I)
  PROVE  \E i \in I : Cardinality(Earlier(R, I, i)) = n - 1
<1> DEFINE f == [i \in I |-> Cardinality(Earlier(R, I, i)) + 1]
           N == 1 .. Cardinality(I)
<1>1. Cardinality(I) \in Nat
  BY FS_CardinalityType
<1>2. f \in [I -> N]
  <2>1. ASSUME NEW i \in I PROVE Cardinality(Earlier(R, I, i)) + 1 \in N
    BY <1>1, EarlierCount
  <2> QED BY <2>1
<1>3. ASSUME NEW i \in I, NEW j \in I, i # j PROVE f[i] # f[j]
  <2>1. /\ Cardinality(Earlier(R, I, i)) \in Nat /\ Cardinality(Earlier(R, I, j)) \in Nat
    BY EarlierCount
  <2>2. \/ Cardinality(Earlier(R, I, i)) < Cardinality(Earlier(R, I, j))
        \/ Cardinality(Earlier(R, I, j)) < Cardinality(Earlier(R, I, i))
    <3>1. CASE <<i, j>> \in R
      BY <3>1, EarlierGrows
    <3>2. CASE <<j, i>> \in R
      BY <3>2, EarlierGrows
    <3> QED BY <1>3, <3>1, <3>2 DEF Orders
  <2> QED BY <2>1, <2>2
<1>4. f \in Injection(I, N)
  <2> HIDE DEF f
  <2> QED BY <1>2, <1>3 DEF Injection, IsInjective
<1>5. IsFiniteSet(N) /\ Cardinality(N) = Cardinality(I)
  BY <1>1, FS_Interval
<1>6. f \in Surjection(I, N)
  BY <1>4, <1>5, FS_Injection
<1>7. PICK i \in I : f[i] = n
  BY <1>6 DEF Surjection
<1> QED
  <2>1. Cardinality(Earlier(R, I, i)) \in Nat
    BY EarlierCount
  <2> QED BY <1>7, <2>1

LEMMA PlaceIs ==
  ASSUME NEW R, NEW I, IsFiniteSet(I), Orders(R, I), NEW n \in 1 .. Cardinality(I)
  PROVE  Place(R, I, n) \in I /\ Cardinality(Earlier(R, I, Place(R, I, n))) = n - 1
BY PlaceExists DEF Place

LEMMA PlacesInOrder ==
  ASSUME NEW R, NEW I, IsFiniteSet(I), Orders(R, I),
         NEW m \in 1 .. Cardinality(I), NEW n \in 1 .. Cardinality(I)
  PROVE  /\ m < n <=> <<Place(R, I, m), Place(R, I, n)>> \in R
         /\ Place(R, I, m) = Place(R, I, n) => m = n
<1>0. Cardinality(I) \in Nat
  BY FS_CardinalityType
<1>1. /\ Place(R, I, m) \in I /\ Cardinality(Earlier(R, I, Place(R, I, m))) = m - 1
      /\ Place(R, I, n) \in I /\ Cardinality(Earlier(R, I, Place(R, I, n))) = n - 1
  BY PlaceIs
<1>2. <<Place(R, I, m), Place(R, I, n)>> \in R => m - 1 < n - 1
  BY <1>1, EarlierGrows
<1>3. <<Place(R, I, n), Place(R, I, m)>> \in R => n - 1 < m - 1
  BY <1>1, EarlierGrows
<1>4. \/ Place(R, I, m) = Place(R, I, n)
      \/ <<Place(R, I, m), Place(R, I, n)>> \in R \/ <<Place(R, I, n), Place(R, I, m)>> \in R
  BY <1>1 DEF Orders
<1>5. Place(R, I, m) = Place(R, I, n) => m = n
  BY <1>1, <1>0
<1> QED BY <1>0, <1>1, <1>2, <1>3, <1>4, <1>5

LEMMA PlaceOf ==
  ASSUME NEW R, NEW I, IsFiniteSet(I), Orders(R, I), NEW i \in I
  PROVE  \E n \in 1 .. Cardinality(I) : Place(R, I, n) = i
<1> DEFINE n == Cardinality(Earlier(R, I, i)) + 1
<1>1. n \in 1 .. Cardinality(I)
  BY EarlierCount
<1>2. Place(R, I, n) \in I /\ Cardinality(Earlier(R, I, Place(R, I, n))) = n - 1
  BY <1>1, PlaceIs
<1>3. Cardinality(Earlier(R, I, i)) = n - 1
  BY EarlierCount
<1>4. Place(R, I, n) = i
  <2> DEFINE p == Place(R, I, n)
  <2> HIDE DEF n
  <2>1. Cardinality(Earlier(R, I, p)) = Cardinality(Earlier(R, I, i)) /\ Cardinality(Earlier(R, I, i)) \in Nat
    BY <1>2, <1>3, EarlierCount
  <2>2. <<p, i>> \in R => Cardinality(Earlier(R, I, p)) < Cardinality(Earlier(R, I, i))
    BY <1>2, EarlierGrows
  <2>3. <<i, p>> \in R => Cardinality(Earlier(R, I, i)) < Cardinality(Earlier(R, I, p))
    BY <1>2, EarlierGrows
  <2>4. p = i \/ <<p, i>> \in R \/ <<i, p>> \in R
    BY <1>2 DEF Orders
  <2> QED BY <2>1, <2>2, <2>3, <2>4
<1> QED BY <1>1, <1>4

LEMMA ArrangedIs ==
  ASSUME NEW s, NEW R, NEW I
  PROVE  Arranged(s, I, R) = [n \in 1 .. Cardinality(I) |-> s[Place(R, I, n)]]
BY DEF Arranged, Place, Earlier

\* An arrangement has one element for each place, and no other.
LEMMA ArrangedShape ==
  ASSUME NEW S, NEW s, NEW R, NEW I, IsFiniteSet(I), Orders(R, I), \A i \in I : s[i] \in S
  PROVE  /\ Arranged(s, I, R) \in Seq(S)
         /\ Len(Arranged(s, I, R)) = Cardinality(I)
         /\ \A n \in 1 .. Cardinality(I) : Place(R, I, n) \in I /\ Arranged(s, I, R)[n] = s[Place(R, I, n)]
<1>1. Cardinality(I) \in Nat
  BY FS_CardinalityType
<1>2. \A n \in 1 .. Cardinality(I) : Place(R, I, n) \in I
  BY PlaceIs
<1>3. Arranged(s, I, R) = [n \in 1 .. Cardinality(I) |-> s[Place(R, I, n)]]
  BY ArrangedIs
<1> QED BY <1>1, <1>2, <1>3

\* The elements of a sequence at the places I, and no other, in its order.
IsKept(kept, s, I) ==
  /\ \A n \in 1 .. Len(kept) : \E i \in I : kept[n] = s[i]
  /\ \A i \in I : \E n \in 1 .. Len(kept) : kept[n] = s[i]
  /\ \A m, n \in 1 .. Len(kept) : m < n => \E i, j \in I : i < j /\ kept[m] = s[i] /\ kept[n] = s[j]

LEMMA Kept ==
  ASSUME NEW S, NEW s \in Seq(S), NEW I, I \subseteq DOMAIN s
  PROVE  Keep(s, I) \in Seq(S) /\ IsKept(Keep(s, I), s, I)
<1> DEFINE R == InPlace(s)
<1>0. DOMAIN s = 1 .. Len(s) /\ Len(s) \in Nat /\ I \subseteq Nat
  OBVIOUS
<1>1. IsFiniteSet(I)
  <2>1. IsFiniteSet(1 .. Len(s))
    BY <1>0, FS_Interval
  <2> QED BY <1>0, <2>1, FS_Subset
<1>2. Orders(R, I)
  BY <1>0 DEF Orders, InPlace
<1>3. \A i \in I : s[i] \in S
  BY <1>0
<1>4. /\ Keep(s, I) \in Seq(S)
      /\ Len(Keep(s, I)) = Cardinality(I)
      /\ \A n \in 1 .. Cardinality(I) : Place(R, I, n) \in I /\ Keep(s, I)[n] = s[Place(R, I, n)]
  <2> HIDE DEF R
  <2>1. Keep(s, I) = Arranged(s, I, R)
    BY DEF Keep, R
  <2> QED BY <1>1, <1>2, <1>3, <2>1, ArrangedShape
<1>7. \A n \in 1 .. Len(Keep(s, I)) : \E i \in I : Keep(s, I)[n] = s[i]
  BY <1>4
<1>5. \A i \in I : \E n \in 1 .. Len(Keep(s, I)) : Keep(s, I)[n] = s[i]
  <2>1. ASSUME NEW i \in I PROVE \E n \in 1 .. Cardinality(I) : Place(R, I, n) = i
    <3> HIDE DEF R
    <3> QED BY <1>1, <1>2, PlaceOf
  <2> QED BY <1>4, <2>1
<1>6. ASSUME NEW m \in 1 .. Len(Keep(s, I)), NEW n \in 1 .. Len(Keep(s, I)), m < n
      PROVE  \E i, j \in I : i < j /\ Keep(s, I)[m] = s[i] /\ Keep(s, I)[n] = s[j]
  <2>1. <<Place(R, I, m), Place(R, I, n)>> \in R
    <3> HIDE DEF R
    <3> QED BY <1>1, <1>2, <1>4, <1>6, PlacesInOrder
  <2>2. Place(R, I, m) < Place(R, I, n)
    BY <2>1 DEF InPlace
  <2> QED BY <1>4, <2>2
<1> HIDE DEF R
<1> QED BY <1>4, <1>5, <1>6, <1>7 DEF IsKept

-----------------------------------------------------------------------------
(* What is found on a node, arranged for the walk.                         *)

WalkEdges == [group : Groups, index : Nat, to : Keys, declared : STRING, expandable : BOOLEAN, of : Nat]
Collections == [pages : Seq(Keys), declared : STRING]

LEMMA GroupRanks ==
  /\ \A g \in Groups : GroupRank(g) \in Nat
  /\ \A g, h \in Groups : GroupRank(g) = GroupRank(h) => g = h
<1>1. /\ GroupRank("relations.item") = 0 /\ GroupRank("relations.collection") = 1
      /\ GroupRank("answer.related_entity") = 2 /\ GroupRank("answer.source_target") = 3
      /\ GroupRank("evidence.evidence_ref") = 4
  BY DEF GroupRank
<1> QED BY <1>1 DEF Groups

LEMMA ScheduleOrders ==
  ASSUME NEW edges \in Seq(Edges), NEW I, I \subseteq DOMAIN edges
  PROVE  IsFiniteSet(I) /\ Orders(InSchedule(edges), I)
<1> DEFINE r(i) == GroupRank(edges[i].group)
           x(i) == edges[i].index
<1>0. DOMAIN edges = 1 .. Len(edges) /\ Len(edges) \in Nat /\ I \subseteq Nat
  OBVIOUS
<1>1. IsFiniteSet(I)
  <2>1. IsFiniteSet(1 .. Len(edges))
    BY <1>0, FS_Interval
  <2> QED BY <1>0, <2>1, FS_Subset
<1>2. \A i \in I : r(i) \in Nat /\ x(i) \in Nat /\ edges[i].group \in Groups
  <2>1. \A i \in I : edges[i] \in Edges
    BY <1>0
  <2>2. \A i \in I : edges[i].group \in Groups /\ edges[i].index \in Nat
    BY <2>1 DEF Edges
  <2> QED BY <2>2, GroupRanks
<1>3. \A i, j \in I : edges[i].group = edges[j].group <=> r(i) = r(j)
  BY <1>2, GroupRanks
<1>4. \A i, j \in I : ScheduledBefore(edges[i], edges[j]) <=> (r(i) < r(j) \/ (r(i) = r(j) /\ x(i) < x(j)))
  BY <1>3 DEF ScheduledBefore
<1>5. \A i, j \in I : <<i, j>> \in InSchedule(edges) <=>
         r(i) < r(j) \/ (r(i) = r(j) /\ (x(i) < x(j) \/ (x(i) = x(j) /\ i < j)))
  <2> SUFFICES ASSUME NEW i \in I, NEW j \in I
               PROVE  <<i, j>> \in InSchedule(edges) <=>
                        r(i) < r(j) \/ (r(i) = r(j) /\ (x(i) < x(j) \/ (x(i) = x(j) /\ i < j)))
    OBVIOUS
  <2>1. <<i, j>> \in InSchedule(edges) <=>
          ScheduledBefore(edges[i], edges[j]) \/ (i < j /\ ~ScheduledBefore(edges[j], edges[i]))
    BY DEF InSchedule
  <2> HIDE DEF r, x
  <2> QED BY <1>0, <1>2, <1>4, <2>1
<1>6. Orders(InSchedule(edges), I)
  <2> HIDE DEF r, x
  <2>1. ASSUME NEW i \in I, NEW j \in I, i # j
        PROVE  <<i, j>> \in InSchedule(edges) \/ <<j, i>> \in InSchedule(edges)
    <3>1. r(i) \in Nat /\ r(j) \in Nat /\ x(i) \in Nat /\ x(j) \in Nat /\ i \in Nat /\ j \in Nat
      BY <1>0, <1>2
    <3>2. <<i, j>> \in InSchedule(edges) <=>
            r(i) < r(j) \/ (r(i) = r(j) /\ (x(i) < x(j) \/ (x(i) = x(j) /\ i < j)))
      BY <1>5
    <3>3. <<j, i>> \in InSchedule(edges) <=>
            r(j) < r(i) \/ (r(j) = r(i) /\ (x(j) < x(i) \/ (x(j) = x(i) /\ j < i)))
      BY <1>5
    <3> QED BY <2>1, <3>1, <3>2, <3>3
  <2>2. \A i \in I : <<i, i>> \notin InSchedule(edges)
    BY <1>0, <1>2, <1>5
  <2>3. ASSUME NEW i \in I, NEW j \in I, NEW k \in I, <<i, j>> \in InSchedule(edges),
               <<j, k>> \in InSchedule(edges)
        PROVE  <<i, k>> \in InSchedule(edges)
    BY <1>0, <1>2, <1>5, <2>3
  <2> QED BY <2>1, <2>2, <2>3 DEF Orders
<1> QED BY <1>1, <1>6

LEMMA ReadingOrders ==
  ASSUME NEW cs \in Seq(Collections), NEW I, I \subseteq Places(cs)
  PROVE  IsFiniteSet(I) /\ Orders(InReading(Places(cs)), I)
<1>0. DOMAIN cs = 1 .. Len(cs) /\ Len(cs) \in Nat
  OBVIOUS
<1>1. \A c \in DOMAIN cs : cs[c].pages \in Seq(Keys)
  <2>1. \A c \in DOMAIN cs : cs[c] \in Collections
    BY <1>0
  <2> QED BY <2>1 DEF Collections
<1>2. \A c \in DOMAIN cs : IsFiniteSet({c} \X DOMAIN cs[c].pages)
  <2> SUFFICES ASSUME NEW c \in DOMAIN cs PROVE IsFiniteSet({c} \X DOMAIN cs[c].pages)
    OBVIOUS
  <2>1. DOMAIN cs[c].pages = 1 .. Len(cs[c].pages) /\ Len(cs[c].pages) \in Nat
    BY <1>1
  <2>2. IsFiniteSet(1 .. Len(cs[c].pages))
    BY <2>1, FS_Interval
  <2>4. IsFiniteSet({c})
    BY FS_Singleton
  <2>3. IsFiniteSet({c} \X (1 .. Len(cs[c].pages)))
    BY <2>2, <2>4, FS_Product, Zenon
  <2> QED BY <2>1, <2>3, Zenon
<1>3. IsFiniteSet(Places(cs))
  <2> DEFINE f == [c \in DOMAIN cs |-> {c} \X DOMAIN cs[c].pages]
             T == {f[c] : c \in DOMAIN cs}
  <2>1. IsFiniteSet(DOMAIN cs)
    BY <1>0, FS_Interval
  <2>2. f \in Surjection(DOMAIN cs, T)
    BY DEF Surjection
  <2>3. IsFiniteSet(T)
    <3> HIDE DEF f, T
    <3> QED BY <2>1, <2>2, FS_Surjection
  <2>4. \A t \in T : IsFiniteSet(t)
    BY <1>2
  <2>5. Places(cs) = UNION T
    BY DEF Places
  <2> HIDE DEF T
  <2> QED BY <2>3, <2>4, <2>5, FS_UNION
<1>4. \A x \in I : x = <<x[1], x[2]>> /\ x[1] \in Nat /\ x[2] \in Nat
  <2> SUFFICES ASSUME NEW x \in I PROVE x = <<x[1], x[2]>> /\ x[1] \in Nat /\ x[2] \in Nat
    OBVIOUS
  <2>1. PICK c \in DOMAIN cs : x \in {c} \X DOMAIN cs[c].pages
    BY DEF Places
  <2>2. DOMAIN cs[c].pages = 1 .. Len(cs[c].pages) /\ Len(cs[c].pages) \in Nat
    BY <1>1
  <2> QED BY <1>0, <2>1, <2>2
<1>5. \A x, y \in I : <<x, y>> \in InReading(Places(cs)) <=> x[1] < y[1] \/ (x[1] = y[1] /\ x[2] < y[2])
  BY DEF InReading
<1>6. Orders(InReading(Places(cs)), I)
  <2>1. \A x, y \in I : x = y \/ <<x, y>> \in InReading(Places(cs)) \/ <<y, x>> \in InReading(Places(cs))
    <3> SUFFICES ASSUME NEW x \in I, NEW y \in I
                 PROVE  x = y \/ <<x, y>> \in InReading(Places(cs)) \/ <<y, x>> \in InReading(Places(cs))
      OBVIOUS
    <3>1. x = <<x[1], x[2]>> /\ y = <<y[1], y[2]>> /\ x[1] \in Nat /\ x[2] \in Nat /\ y[1] \in Nat /\ y[2] \in Nat
      BY <1>4
    <3>2. x[1] = y[1] /\ x[2] = y[2] => x = y
      BY <3>1
    <3>3. <<x, y>> \in InReading(Places(cs)) <=> x[1] < y[1] \/ (x[1] = y[1] /\ x[2] < y[2])
      BY <1>5
    <3>4. <<y, x>> \in InReading(Places(cs)) <=> y[1] < x[1] \/ (y[1] = x[1] /\ y[2] < x[2])
      BY <1>5
    <3> QED BY <3>1, <3>2, <3>3, <3>4
  <2>2. \A x \in I : <<x, x>> \notin InReading(Places(cs))
    BY <1>4, <1>5
  <2>3. \A x, y, z \in I : <<x, y>> \in InReading(Places(cs)) /\ <<y, z>> \in InReading(Places(cs))
          => <<x, z>> \in InReading(Places(cs))
    BY <1>4, <1>5
  <2> QED BY <2>1, <2>2, <2>3 DEF Orders
<1>7. IsFiniteSet(I)
  BY <1>3, FS_Subset
<1> QED BY <1>6, <1>7

-----------------------------------------------------------------------------
(* The types of the walk's state.                                          *)

Answers == {"resolved", "not-found", "budget-exhausted"}

Outcomes == {"budget-exhausted", "depth-limit", "cycle", "already-expanded", "not-expanded", "expanded", "leaf"}

Nodes == [key : Keys \cup {None}, depth : Nat, found : Nat, expand : BOOLEAN, path : SUBSET Keys]

Events ==
  [told : {"node"}, key : Keys \cup {None}]
    \cup [told : {"edge", "reference"}, from : Keys \cup {None}, to : Keys, group : Groups, index : Nat,
          outcome : Outcomes, status : Answers \cup {"invalid", "none"}]
    \cup [told : {"expansion"}, key : Keys \cup {None}, field : Nat, outcome : STRING]

InputOK == world \in Worlds /\ budget \in Nat /\ spent \in Nat

PlanOK(p) ==
  /\ p.before \in Seq(WalkEdges) /\ p.after \in Seq(WalkEdges)
  /\ p.collections \in Seq(Collections) /\ p.expansions \in Seq(STRING)

PagingOK ==
  /\ page \in [collection : Nat, position : Nat, index : Nat]
  /\ page.collection > 0 /\ page.position > 0 /\ page.index > 0

NodesOK ==
  /\ queue \in Seq(Nodes) /\ \A i \in 1 .. Len(queue) : queue[i].key \in Keys
  /\ node \in Nodes /\ PlanOK(plan) /\ todo \in Seq(WalkEdges) /\ PagingOK

FetchesOK ==
  /\ resolutions \in [Keys -> Answers \cup {None}]
  /\ inFlight \subseteq Keys /\ active \subseteq Keys
  /\ pool \in Seq(Keys) /\ started \in [Keys -> Nat]

ToldOK ==
  /\ expandedKeys \subseteq Keys /\ emittedNodes \subseteq Keys
  /\ discoveryIndex \in Nat /\ events \in Seq(Events)

ControlOK ==
  /\ at \in {"root", "loop", "planned", "settle", "await", "page", "done", "failed"}
  /\ segment \in {"before", "paging", "after"}
  /\ stopReason \in {"none", "budget"} /\ incomplete \in BOOLEAN /\ cancelled \in BOOLEAN

\* Where the generator may be with which edges in hand.
Position ==
  /\ at \in {"root", "loop", "planned", "page", "done"} => todo = <<>>
  /\ at = "await" => todo # <<>> /\ stopReason # "budget" /\ Fetchable(Head(todo))
  /\ at \in {"planned", "settle", "await", "page"} => node.key \in Keys
  /\ segment = "paging" /\ at \in {"settle", "await"} => Len(todo) = 1
  /\ at = "planned" => segment = "before"
  /\ at = "page" => segment = "paging"
  /\ at = "root" => inFlight = {} /\ active = {} /\ pool = <<>>

IInv == InputOK /\ NodesOK /\ FetchesOK /\ ToldOK /\ ControlOK /\ Position

-----------------------------------------------------------------------------
(* The pieces of the steps have their types.                               *)

LEMMA PlanTyped ==
  ASSUME world \in Worlds, NEW k \in Keys
  PROVE  PlanOK(PlanOf(k))
<1> DEFINE found == FoundOn(world, k)
           I == RankBefore(found.edges)
<1>1. found.edges \in Seq(Edges) /\ found.collections \in Seq(Collections) /\ found.expansions \in Seq(STRING)
  BY WorldsAssumption DEF Collections
<1> HIDE DEF found
<1>2. \A i \in DOMAIN found.edges : found.edges[i] \in WalkEdges
  <2>1. \A i \in DOMAIN found.edges : found.edges[i] \in Edges
    BY <1>1
  <2> QED BY <2>1 DEF Edges, WalkEdges
<1>3. I \subseteq DOMAIN found.edges
  BY DEF RankBefore
<1> HIDE DEF I
<1>4. BeforeCollections(found.edges) \in Seq(WalkEdges)
  <2>1. IsFiniteSet(I) /\ Orders(InSchedule(found.edges), I)
    BY <1>1, <1>3, ScheduleOrders
  <2>2. Arranged(found.edges, I, InSchedule(found.edges)) \in Seq(WalkEdges)
    BY <1>2, <1>3, <2>1, ArrangedShape
  <2> QED BY <2>2 DEF BeforeCollections, I
<1>5. AfterCollections(found.edges) \in Seq(WalkEdges)
  <2>1. IsFiniteSet(DOMAIN found.edges \ I) /\ Orders(InSchedule(found.edges), DOMAIN found.edges \ I)
    BY <1>1, ScheduleOrders
  <2>2. Arranged(found.edges, DOMAIN found.edges \ I, InSchedule(found.edges)) \in Seq(WalkEdges)
    BY <1>2, <2>1, ArrangedShape
  <2> QED BY <2>2 DEF AfterCollections, I
<1>6. PlanOf(k) = [before |-> BeforeCollections(found.edges), collections |-> found.collections,
                   after |-> AfterCollections(found.edges), expansions |-> found.expansions]
  BY DEF PlanOf, found
<1> QED BY <1>1, <1>4, <1>5, <1>6 DEF PlanOK

\* What the pool keeps, and what it starts.
Started(queued, held, fetching, known, now) ==
  /\ now \subseteq Keys
  /\ active' = held \cup now /\ inFlight' = fetching \cup now
  /\ started' = [k \in Keys |-> started[k] + (IF k \in now \ inFlight THEN 1 ELSE 0)]
  /\ pool' \in Seq(Keys)
  /\ Cardinality(active') <= FetchConcurrency
  /\ pool' # <<>> => active' # {}
  /\ \A k \in now : k \notin known /\ \E i \in 1 .. Len(queued) : queued[i] = k
  /\ \A y \in 1 .. Len(pool') : pool'[y] \notin known /\ \E i \in 1 .. Len(queued) : queued[i] = pool'[y]
  /\ \A i \in 1 .. Len(queued) : queued[i] \in known \cup now \/ \E y \in 1 .. Len(pool') : pool'[y] = queued[i]
  /\ \A a \in now : \A y \in 1 .. Len(pool') :
       \E i, j \in 1 .. Len(queued) : i < j /\ queued[i] = a /\ queued[j] = pool'[y]
  /\ \A x, y \in 1 .. Len(pool') : x < y =>
       \E i, j \in 1 .. Len(queued) : i < j /\ queued[i] = pool'[x] /\ queued[j] = pool'[y]

LEMMA PumpedIs ==
  ASSUME NEW queued \in Seq(Keys), NEW held, held \subseteq Keys, Cardinality(held) <= FetchConcurrency,
         NEW fetching, NEW known, Pumped(queued, held, fetching, known)
  PROVE  \E now : Started(queued, held, fetching, known, now)
<1> DEFINE I == {i \in DOMAIN queued : queued[i] \notin known}
           open == Keep(queued, I)
           free == FetchConcurrency - Cardinality(held)
           n == IF Len(open) < free THEN Len(open) ELSE free
           now == {open[i] : i \in 1 .. n}
<1>1. /\ pool' = SubSeq(open, n + 1, Len(open))
      /\ active' = held \cup now /\ inFlight' = fetching \cup now
      /\ started' = [k \in Keys |-> started[k] + (IF k \in now \ inFlight THEN 1 ELSE 0)]
  <2> DEFINE m(o) == IF Len(o) < free THEN Len(o) ELSE free
             these(o) == {o[i] : i \in 1 .. m(o)}
             Body(o) == /\ pool' = SubSeq(o, m(o) + 1, Len(o))
                        /\ active' = held \cup these(o) /\ inFlight' = fetching \cup these(o)
                        /\ started' = [k \in Keys |-> started[k] + (IF k \in these(o) \ inFlight THEN 1 ELSE 0)]
  <2>1. \E o \in {open} : Body(o)
    BY DEF Pumped
  <2>2. Body(open)
    <3> HIDE DEF Body, open
    <3> QED BY <2>1
  <2> QED BY <2>2
<1>2. /\ open \in Seq(Keys)
      /\ \A m \in 1 .. Len(open) : \E i \in I : open[m] = queued[i]
      /\ \A i \in I : \E m \in 1 .. Len(open) : open[m] = queued[i]
      /\ \A l, m \in 1 .. Len(open) : l < m => \E i, j \in I : i < j /\ open[l] = queued[i] /\ open[m] = queued[j]
  <2> HIDE DEF open
  <2>1. I \subseteq DOMAIN queued
    OBVIOUS
  <2> HIDE DEF I
  <2>2. Keep(queued, I) \in Seq(Keys) /\ IsKept(Keep(queued, I), queued, I)
    BY <2>1, Kept
  <2>3. open = Keep(queued, I)
    BY DEF open
  <2> QED BY <2>2, <2>3 DEF IsKept
<1>3. DOMAIN queued = 1 .. Len(queued) /\ Len(queued) \in Nat /\ Len(open) \in Nat
  <2> HIDE DEF open
  <2> QED BY <1>2
<1> HIDE DEF open
<1>4. IsFiniteSet(held) /\ Cardinality(held) \in Nat
  <2>1. IsFiniteSet(held)
    BY WalkAssumption, FS_Subset
  <2> QED BY <2>1, FS_CardinalityType
<1>5. free \in Nat /\ n \in Nat /\ n <= Len(open) /\ n <= free /\ (n = Len(open) \/ n = free)
  BY <1>3, <1>4, WalkAssumption
<1>6. IsFiniteSet(now) /\ Cardinality(now) <= n
  <2> DEFINE f == [i \in 1 .. n |-> open[i]]
  <2>1. IsFiniteSet(1 .. n) /\ Cardinality(1 .. n) = n
    <3> HIDE DEF n
    <3>1. n \in Nat
      BY <1>5
    <3>2. IsFiniteSet(1 .. n) /\ Cardinality(1 .. n) = IF 1 > n THEN 0 ELSE n - 1 + 1
      BY <3>1, FS_Interval
    <3> QED BY <3>1, <3>2
  <2>2. f \in Surjection(1 .. n, now)
    BY DEF Surjection
  <2> HIDE DEF f, n, now
  <2> QED BY <2>1, <2>2, FS_Surjection
<1>7. now \subseteq Keys
  BY <1>2, <1>3, <1>5
<1>8. pool' \in Seq(Keys) /\ Len(pool') = Len(open) - n /\ \A y \in 1 .. Len(pool') : pool'[y] = open[n + y]
  <2> HIDE DEF n, free, now
  <2>1. n \in Nat /\ n <= Len(open) /\ Len(open) \in Nat
    BY <1>3, <1>5
  <2>2. \A i \in n + 1 .. Len(open) : open[i] \in Keys
    BY <1>2, <2>1
  <2>3. /\ SubSeq(open, n + 1, Len(open)) \in Seq(Keys)
        /\ Len(SubSeq(open, n + 1, Len(open))) = IF n + 1 <= Len(open) THEN Len(open) - (n + 1) + 1 ELSE 0
        /\ \A i \in 1 .. Len(open) - (n + 1) + 1 : SubSeq(open, n + 1, Len(open))[i] = open[n + 1 + i - 1]
    BY <2>1, <2>2, SubSeqProperties
  <2>4. Len(pool') = Len(open) - n
    BY <1>1, <2>1, <2>3
  <2>5. \A y \in 1 .. Len(pool') : pool'[y] = open[n + y]
    <3> SUFFICES ASSUME NEW y \in 1 .. Len(pool') PROVE pool'[y] = open[n + y]
      OBVIOUS
    <3>1. y \in 1 .. Len(open) - (n + 1) + 1 /\ n + 1 + y - 1 = n + y
      BY <2>1, <2>4
    <3> QED BY <1>1, <2>3, <3>1
  <2> QED BY <1>1, <2>3, <2>4, <2>5
<1>9. Cardinality(active') <= FetchConcurrency
  <2>1. /\ Cardinality(held \cup now) = Cardinality(held) + Cardinality(now) - Cardinality(held \cap now)
        /\ IsFiniteSet(held \cap now) /\ Cardinality(held \cap now) \in Nat /\ Cardinality(now) \in Nat
    <3> HIDE DEF now
    <3>1. IsFiniteSet(held \cap now)
      BY <1>4, FS_Intersection
    <3> QED BY <1>4, <1>6, <3>1, FS_Union, FS_CardinalityType
  <2> HIDE DEF now, n
  <2> QED BY <1>1, <1>4, <1>5, <1>6, <2>1, WalkAssumption
<1>10. pool' # <<>> => active' # {}
  <2> SUFFICES ASSUME pool' # <<>>, active' = {} PROVE FALSE
    OBVIOUS
  <2>1. held = {} /\ now = {}
    BY <1>1
  <2>2. Cardinality(held) = 0
    BY <2>1, FS_EmptySet
  <2>3. Len(pool') > 0
    BY <1>8
  <2>4. n = free
    <3> HIDE DEF n, free
    <3> QED BY <1>3, <1>5, <1>8, <2>3
  <2>5. free = FetchConcurrency /\ FetchConcurrency \in Nat \ {0}
    BY <2>2, WalkAssumption
  <2>6. 1 \in 1 .. n
    BY <2>4, <2>5
  <2> QED BY <2>1, <2>6
<1>11. \A k \in now : k \notin known /\ \E i \in 1 .. Len(queued) : queued[i] = k
  BY <1>2, <1>3, <1>5
<1>12. \A y \in 1 .. Len(pool') : /\ pool'[y] \notin known
                                  /\ \E i \in 1 .. Len(queued) : queued[i] = pool'[y]
  <2> SUFFICES ASSUME NEW y \in 1 .. Len(pool')
               PROVE  pool'[y] \notin known /\ \E i \in 1 .. Len(queued) : queued[i] = pool'[y]
    OBVIOUS
  <2>1. n + y \in 1 .. Len(open) /\ pool'[y] = open[n + y]
    <3> HIDE DEF n, free
    <3> QED BY <1>3, <1>5, <1>8
  <2>2. PICK i \in I : open[n + y] = queued[i]
    <3> HIDE DEF n
    <3> QED BY <1>2, <2>1
  <2> QED BY <1>3, <2>1, <2>2
<1>13. \A i \in 1 .. Len(queued) : queued[i] \in known \cup now \/ \E y \in 1 .. Len(pool') : pool'[y] = queued[i]
  <2> SUFFICES ASSUME NEW i \in 1 .. Len(queued), queued[i] \notin known, queued[i] \notin now
               PROVE  \E y \in 1 .. Len(pool') : pool'[y] = queued[i]
    OBVIOUS
  <2>1. PICK m \in 1 .. Len(open) : open[m] = queued[i]
    BY <1>2, <1>3
  <2>2. ~(m <= n)
    BY <2>1
  <2>3. m - n \in 1 .. Len(pool') /\ n + (m - n) = m
    <3> HIDE DEF n
    <3> QED BY <1>3, <1>5, <1>8, <2>2
  <2> HIDE DEF n
  <2> QED BY <1>8, <2>1, <2>3
<1>14. ASSUME NEW a \in now, NEW y \in 1 .. Len(pool')
       PROVE  \E i, j \in 1 .. Len(queued) : i < j /\ queued[i] = a /\ queued[j] = pool'[y]
  <2>1. PICK l \in 1 .. n : a = open[l]
    OBVIOUS
  <2> HIDE DEF n, now
  <2>2. l \in 1 .. Len(open) /\ n + y \in 1 .. Len(open) /\ l < n + y /\ pool'[y] = open[n + y]
    BY <1>3, <1>5, <1>8, <2>1
  <2>3. PICK i \in I, j \in I : i < j /\ open[l] = queued[i] /\ open[n + y] = queued[j]
    BY <1>2, <2>2
  <2> QED BY <1>3, <2>1, <2>2, <2>3
<1>15. ASSUME NEW x \in 1 .. Len(pool'), NEW y \in 1 .. Len(pool'), x < y
       PROVE  \E i, j \in 1 .. Len(queued) : i < j /\ queued[i] = pool'[x] /\ queued[j] = pool'[y]
  <2> HIDE DEF n, now
  <2>2. /\ n + x \in 1 .. Len(open) /\ n + y \in 1 .. Len(open) /\ n + x < n + y
        /\ pool'[x] = open[n + x] /\ pool'[y] = open[n + y]
    BY <1>3, <1>5, <1>8, <1>15
  <2>3. PICK i \in I, j \in I : i < j /\ open[n + x] = queued[i] /\ open[n + y] = queued[j]
    BY <1>2, <2>2
  <2> QED BY <1>3, <2>2, <2>3
<1> HIDE DEF now, n
<1>16. Started(queued, held, fetching, known, now)
  BY <1>1, <1>7, <1>8, <1>9, <1>10, <1>11, <1>12, <1>13, <1>14, <1>15 DEF Started
<1> QED BY <1>16

-----------------------------------------------------------------------------
(* Every step keeps the types.                                             *)

LEMMA SameInput == InputOK /\ UNCHANGED <<world, budget, spent>> => InputOK'
BY DEF InputOK

LEMMA SameNodes == NodesOK /\ UNCHANGED nodeVars => NodesOK'
BY DEF NodesOK, PagingOK, PlanOK, nodeVars

LEMMA SameFetches == FetchesOK /\ UNCHANGED fetchVars => FetchesOK'
BY DEF FetchesOK, fetchVars

LEMMA SameTold == ToldOK /\ UNCHANGED toldVars => ToldOK'
BY DEF ToldOK, toldVars

LEMMA SameAncestry ==
  ASSUME UNCHANGED <<node, expandedKeys>> PROVE \A e : Fetchable(e)' <=> Fetchable(e)
BY DEF Fetchable, OnAncestorPath

LEMMA VerdictTyped ==
  ASSUME InputOK, NEW k \in Keys
  PROVE  Verdict(k) \in Answers /\ (Charge(k) => spent' \in Nat)
<1>1. world.verdict[k] \in Answers
  BY WorldsAssumption DEF InputOK, Answers
<1>2. Verdict(k) \in Answers
  BY <1>1 DEF Verdict, Answers
<1>3. Charge(k) => spent' \in Nat
  BY DEF Charge, InputOK
<1> QED BY <1>2, <1>3

LEMMA PoolTyped ==
  ASSUME FetchesOK, NEW queued, NEW held, held \subseteq Keys, NEW fetching, fetching \subseteq Keys,
         NEW known, NEW now, Started(queued, held, fetching, known, now)
  PROVE  inFlight' \subseteq Keys /\ active' \subseteq Keys /\ pool' \in Seq(Keys) /\ started' \in [Keys -> Nat]
BY DEF FetchesOK, Started

LEMMA InitTypes == Init => IInv
<1> SUFFICES ASSUME Init PROVE IInv
  OBVIOUS
<1>1. InputOK
  BY WalkAssumption DEF Init, InputOK
<1>2. NodesOK
  BY DEF Init, NodesOK, PlanOK, PagingOK, NoPage, NoPlan, NoNode, Nodes
<1>3. FetchesOK
  BY DEF Init, FetchesOK
<1>4. ToldOK
  BY DEF Init, ToldOK
<1>5. ControlOK /\ Position
  BY DEF Init, ControlOK, Position
<1> QED BY <1>1, <1>2, <1>3, <1>4, <1>5 DEF IInv

\* The pool fits, at every step: an invariant of its own, used in the others.
PoolFits == Cardinality(active) <= FetchConcurrency /\ (pool # <<>> => active # {})

LEMMA SettleParts ==
  ASSUME IInv, PoolFits, NEW k \in Keys, Settle(k)
  PROVE  \E now : Started(pool, active \ {k}, inFlight \ {k}, Known \cup {k}, now)
<1>1. pool \in Seq(Keys) /\ active \ {k} \subseteq Keys
  BY DEF IInv, FetchesOK
<1>2. Cardinality(active \ {k}) <= FetchConcurrency
  <2>1. IsFiniteSet(active)
    BY WalkAssumption, FS_Subset DEF IInv, FetchesOK
  <2>2. IsFiniteSet(active \ {k}) /\ Cardinality(active \ {k}) <= Cardinality(active)
    BY <2>1, FS_Subset
  <2> QED BY <2>1, <2>2, FS_CardinalityType, WalkAssumption DEF PoolFits
<1>3. Pumped(pool, active \ {k}, inFlight \ {k}, Known \cup {k})
  BY DEF Settle
<1> QED BY <1>1, <1>2, <1>3, PumpedIs

LEMMA RejectParts ==
  ASSUME IInv, PoolFits, NEW k \in Keys, Reject(k)
  PROVE  \E now : Started(pool, active \ {k}, inFlight \ {k}, Known, now)
<1>1. pool \in Seq(Keys) /\ active \ {k} \subseteq Keys
  BY DEF IInv, FetchesOK
<1>2. Cardinality(active \ {k}) <= FetchConcurrency
  <2>1. IsFiniteSet(active)
    BY WalkAssumption, FS_Subset DEF IInv, FetchesOK
  <2>2. IsFiniteSet(active \ {k}) /\ Cardinality(active \ {k}) <= Cardinality(active)
    BY <2>1, FS_Subset
  <2> QED BY <2>1, <2>2, FS_CardinalityType, WalkAssumption DEF PoolFits
<1>3. Pumped(pool, active \ {k}, inFlight \ {k}, Known)
  BY DEF Reject
<1> QED BY <1>1, <1>2, <1>3, PumpedIs

\* The keys that a batch adds to the pool.
LEMMA PrefetchableTyped ==
  ASSUME NEW edges \in Seq(WalkEdges)
  PROVE  Prefetchable(edges) \in Seq(Keys)
<1> DEFINE s == [n \in DOMAIN edges |-> edges[n].to]
           I == {n \in DOMAIN edges :
                   /\ Fetchable(edges[n]) /\ edges[n].to \notin Known \cup inFlight
                   /\ \A m \in 1 .. n - 1 : ~(Fetchable(edges[m]) /\ edges[m].to = edges[n].to)}
<1>1. s \in Seq(Keys)
  <2>1. \A n \in 1 .. Len(edges) : edges[n] \in WalkEdges
    OBVIOUS
  <2>2. \A n \in 1 .. Len(edges) : edges[n].to \in Keys
    BY <2>1 DEF WalkEdges
  <2> QED BY <2>2
<1>2. I \subseteq DOMAIN s
  OBVIOUS
<1>3. Prefetchable(edges) = Keep(s, I)
  BY DEF Prefetchable
<1> HIDE DEF s, I
<1> QED BY <1>1, <1>2, <1>3, Kept

LEMMA PrefetchParts ==
  ASSUME IInv, PoolFits, NEW edges \in Seq(WalkEdges), PrefetchBatch(edges)
  PROVE  \E now : Started(pool \o Prefetchable(edges), active, inFlight, Known, now)
<1>1. pool \o Prefetchable(edges) \in Seq(Keys)
  BY PrefetchableTyped DEF IInv, FetchesOK
<1>2. Pumped(pool \o Prefetchable(edges), active, inFlight, Known)
  <2> DEFINE Body(keys) == Pumped(pool \o keys, active, inFlight, Known)
  <2>1. \E keys \in {Prefetchable(edges)} : Body(keys)
    BY DEF PrefetchBatch
  <2>2. Body(Prefetchable(edges))
    <3> HIDE DEF Body
    <3> QED BY <2>1
  <2> QED BY <2>2
<1> QED BY <1>1, <1>2, PumpedIs DEF IInv, FetchesOK, PoolFits

LEMMA SettleTypes ==
  ASSUME IInv, PoolFits, NEW k \in Keys, Settle(k) PROVE IInv'
<1>1. PICK now : Started(pool, active \ {k}, inFlight \ {k}, Known \cup {k}, now)
  BY SettleParts
<1>2. InputOK'
  BY VerdictTyped DEF IInv, InputOK, Settle
<1>3. NodesOK' /\ ToldOK' /\ ControlOK'
  BY SameNodes, SameTold DEF IInv, Settle, ControlOK, stopVars, nodeVars
<1>4. FetchesOK'
  <2>1. resolutions' \in [Keys -> Answers \cup {None}]
    BY VerdictTyped DEF IInv, FetchesOK, Settle
  <2> QED BY <1>1, <2>1, PoolTyped DEF IInv, FetchesOK
<1>5. Position'
  <2>1. \A e : Fetchable(e)' <=> Fetchable(e)
    BY SameAncestry DEF Settle, nodeVars, toldVars
  <2>2. at # "root"
    BY DEF IInv, Position, Settle
  <2> QED BY <2>1, <2>2 DEF IInv, Position, Settle, nodeVars, stopVars
<1> QED BY <1>2, <1>3, <1>4, <1>5 DEF IInv

LEMMA RejectTypes ==
  ASSUME IInv, PoolFits, NEW k \in Keys, Reject(k) PROVE IInv'
<1>1. PICK now : Started(pool, active \ {k}, inFlight \ {k}, Known, now)
  BY RejectParts
<1>2. InputOK' /\ NodesOK' /\ ToldOK' /\ ControlOK'
  BY SameInput, SameNodes, SameTold DEF IInv, Reject, ControlOK, stopVars, nodeVars
<1>3. FetchesOK'
  BY <1>1, PoolTyped DEF IInv, FetchesOK, Reject
<1>4. Position'
  <2>1. \A e : Fetchable(e)' <=> Fetchable(e)
    BY SameAncestry DEF Reject, nodeVars, toldVars
  <2>2. at # "root"
    BY DEF IInv, Position, Reject
  <2> QED BY <2>1, <2>2 DEF IInv, Position, Reject, nodeVars, stopVars
<1> QED BY <1>2, <1>3, <1>4 DEF IInv

\* The steps that only move the generator, or fire the signal.
LEMMA MoveTypes ==
  ASSUME IInv, RootRejected \/ Finish \/ Cancel PROVE IInv'
<1>1. InputOK' /\ NodesOK' /\ FetchesOK' /\ ToldOK'
  BY SameInput, SameNodes, SameFetches, SameTold DEF IInv, RootRejected, Finish, Cancel
<1>2. ControlOK'
  BY DEF IInv, ControlOK, RootRejected, Finish, Cancel, nodeVars, stopVars
<1>3. Position'
  <2>1. \A e : Fetchable(e)' <=> Fetchable(e)
    BY SameAncestry DEF RootRejected, Finish, Cancel, nodeVars, toldVars
  <2>2. Position /\ UNCHANGED <<todo, stopReason, node, segment, inFlight, active, pool>>
    BY DEF IInv, RootRejected, Finish, Cancel, nodeVars, stopVars, fetchVars
  <2>3. CASE Cancel
    BY <2>1, <2>2, <2>3 DEF Position, Cancel
  <2>4. CASE Finish
    BY <2>2, <2>4 DEF Position, Finish
  <2>5. CASE RootRejected
    BY <2>2, <2>5 DEF Position, RootRejected
  <2> QED BY <2>3, <2>4, <2>5
<1> QED BY <1>1, <1>2, <1>3 DEF IInv

LEMMA RootTypes ==
  ASSUME IInv, RootResolves PROVE IInv'
<1> DEFINE r == IF world.rootGiven THEN "resolved" ELSE Verdict(Root)
<1>0. /\ at = "root" /\ at' = "loop"
      /\ resolutions' = [resolutions EXCEPT ![Root] = r]
      /\ queue' = <<PendingRoot(r = "resolved")>>
      /\ expandedKeys' = IF r = "resolved" THEN {Root} ELSE {}
      /\ stopReason' = IF r = "budget-exhausted" THEN "budget" ELSE stopReason
      /\ IF world.rootGiven THEN UNCHANGED spent ELSE Charge(Root)
      /\ UNCHANGED <<world, budget, segment, node, plan, todo, page, inFlight, pool, active, started,
                     emittedNodes, discoveryIndex, events, incomplete, cancelled>>
  BY DEF RootResolves
<1>1. r \in Answers /\ Root \in Keys
  BY VerdictTyped, WalkAssumption DEF IInv, Answers
<1> HIDE DEF r
<1>2. InputOK'
  BY <1>0, <1>1, VerdictTyped DEF IInv, InputOK
<1>3. NodesOK'
  <2>1. PendingRoot(r = "resolved") \in Nodes /\ PendingRoot(r = "resolved").key = Root
    BY <1>1 DEF PendingRoot, Nodes
  <2>2. queue' \in Seq(Nodes) /\ \A i \in 1 .. Len(queue') : queue'[i].key \in Keys
    BY <1>0, <1>1, <2>1
  <2> QED BY <1>0, <2>2 DEF IInv, NodesOK, PagingOK, PlanOK
<1>4. FetchesOK' /\ ToldOK' /\ ControlOK'
  BY <1>0, <1>1 DEF IInv, FetchesOK, ToldOK, ControlOK
<1>5. Position'
  BY <1>0 DEF IInv, Position
<1> QED BY <1>2, <1>3, <1>4, <1>5 DEF IInv

LEMMA EventsGrow ==
  ASSUME ToldOK, NEW list \in Seq(Events), Tells(list)
  PROVE  events' \in Seq(Events)
BY DEF ToldOK, Tells

LEMMA OneTold ==
  ASSUME NEW e \in Events PROVE <<e>> \in Seq(Events)
OBVIOUS

LEMMA EdgeTyped ==
  ASSUME NodesOK, NEW edge \in WalkEdges, NEW told \in {"edge", "reference"}, NEW outcome \in Outcomes,
         NEW status \in Answers \cup {"invalid", "none"}
  PROVE  EdgeEvent(told, edge, outcome, status) \in Events
<1>1. node.key \in Keys \cup {None} /\ edge.to \in Keys /\ edge.group \in Groups /\ edge.index \in Nat
  BY DEF NodesOK, Nodes, WalkEdges
<1> QED BY <1>1 DEF EdgeEvent, Events

LEMMA HeadOfTodo ==
  ASSUME NodesOK, todo # <<>>
  PROVE  /\ Head(todo) \in WalkEdges /\ Head(todo).to \in Keys /\ Head(todo) = todo[1]
         /\ Tail(todo) \in Seq(WalkEdges) /\ Len(Tail(todo)) = Len(todo) - 1
         /\ \A i \in 1 .. Len(Tail(todo)) : Tail(todo)[i] = todo[i + 1]
         /\ Len(todo) \in Nat \ {0}
<1>1. todo \in Seq(WalkEdges)
  BY DEF NodesOK
<1>2. Head(todo) \in WalkEdges /\ Tail(todo) \in Seq(WalkEdges) /\ Len(Tail(todo)) = Len(todo) - 1
      /\ \A i \in 1 .. Len(Tail(todo)) : Tail(todo)[i] = todo[i + 1]
  BY <1>1, HeadTailProperties
<1>3. Head(todo) = todo[1] /\ Len(todo) \in Nat \ {0}
  BY <1>1
<1>4. Head(todo).to \in Keys
  BY <1>2 DEF WalkEdges
<1> QED BY <1>2, <1>3, <1>4

LEMMA VisitTypes ==
  ASSUME IInv, Visit PROVE IInv'
<1> DEFINE n == Head(queue)
           told == IF n.key \in emittedNodes THEN <<>> ELSE <<[told |-> "node", key |-> n.key]>>
<1>0. /\ at = "loop" /\ queue # <<>> /\ node' = n /\ queue' = Tail(queue)
      /\ (plan' = PlanOf(n.key) /\ at' = "planned") \/ (plan' = NoPlan /\ at' = "loop")
      /\ Tells(told) /\ emittedNodes' = emittedNodes \cup {n.key}
      /\ segment' = "before" /\ todo' = <<>> /\ page' = NoPage
      /\ UNCHANGED <<world, budget, fetchVars, expandedKeys, discoveryIndex, stopVars, spent, cancelled>>
  BY DEF Visit
<1>1. n \in Nodes /\ n.key \in Keys /\ queue' \in Seq(Nodes) /\ \A i \in 1 .. Len(queue') : queue'[i].key \in Keys
  <2>1. queue \in Seq(Nodes) /\ \A i \in 1 .. Len(queue) : queue[i].key \in Keys
    BY DEF IInv, NodesOK
  <2>2. Head(queue) \in Nodes /\ Tail(queue) \in Seq(Nodes) /\ Len(Tail(queue)) = Len(queue) - 1
        /\ \A i \in 1 .. Len(Tail(queue)) : Tail(queue)[i] = queue[i + 1]
    BY <1>0, <2>1, HeadTailProperties
  <2>3. Head(queue) = queue[1] /\ Len(queue) \in Nat \ {0}
    BY <1>0, <2>1
  <2> QED BY <1>0, <2>1, <2>2, <2>3
<1> HIDE DEF n
<1>2. InputOK' /\ FetchesOK'
  BY <1>0, SameInput, SameFetches DEF IInv
<1>3. PlanOK(plan')
  <2>1. PlanOK(PlanOf(n.key))
    BY <1>1, PlanTyped DEF IInv, InputOK
  <2>2. PlanOK(NoPlan)
    BY DEF PlanOK, NoPlan
  <2> QED BY <1>0, <2>1, <2>2
<1>4. NodesOK'
  <2>1. PagingOK'
    BY <1>0 DEF PagingOK, NoPage
  <2> QED BY <1>0, <1>1, <1>3, <2>1 DEF NodesOK
<1>5. ToldOK'
  <2>1. told \in Seq(Events)
    <3>1. [told |-> "node", key |-> n.key] \in Events
      BY <1>1 DEF Events
    <3> QED BY <3>1, OneTold
  <2>2. events' \in Seq(Events)
    BY <1>0, <2>1, EventsGrow DEF IInv
  <2> QED BY <1>0, <1>1, <2>2 DEF IInv, ToldOK
<1>6. ControlOK' /\ Position'
  BY <1>0, <1>1 DEF IInv, ControlOK, Position, stopVars
<1> QED BY <1>2, <1>4, <1>5, <1>6 DEF IInv

\* A batch of edges is put up for settling.
LEMMA BatchTypes ==
  ASSUME IInv, PoolFits, StartBefore \/ StartAfter PROVE IInv'
<1>0. /\ at' = "settle" /\ at \in {"planned", "page"} /\ segment' \in {"before", "after"}
      /\ todo' \in Seq(WalkEdges)
      /\ UNCHANGED <<world, budget, queue, node, plan, page, toldVars, stopVars, spent, cancelled>>
  BY DEF StartBefore, StartAfter, IInv, NodesOK, PlanOK, Position
<1>1. InputOK' /\ ToldOK' /\ ControlOK' /\ NodesOK'
  BY <1>0, SameInput, SameTold DEF IInv, ControlOK, stopVars, NodesOK, PlanOK, PagingOK
<1>2. FetchesOK'
  <2>1. CASE \E edges \in Seq(WalkEdges) : PrefetchBatch(edges)
    <3>1. PICK edges \in Seq(WalkEdges) : PrefetchBatch(edges)
      BY <2>1
    <3>2. PICK now : Started(pool \o Prefetchable(edges), active, inFlight, Known, now)
      BY <3>1, PrefetchParts
    <3> QED BY <3>1, <3>2, PoolTyped DEF IInv, FetchesOK, PrefetchBatch
  <2>2. CASE UNCHANGED fetchVars
    BY <2>2, SameFetches DEF IInv
  <2>3. plan.before \in Seq(WalkEdges) /\ plan.after \in Seq(WalkEdges)
    BY DEF IInv, NodesOK, PlanOK
  <2> QED BY <2>1, <2>2, <2>3 DEF StartBefore, StartAfter
<1>3. Position'
  BY <1>0 DEF IInv, Position
<1> QED BY <1>1, <1>2, <1>3 DEF IInv

LEMMA FateIs ==
  ASSUME NodesOK, NEW edge
  PROVE  /\ Fate(edge) \in {"budget-exhausted", "depth-limit", "cycle", "already-expanded", "lookup"}
         /\ stopReason = "budget" => Fate(edge) = "budget-exhausted"
         /\ stopReason # "budget" => (Fate(edge) = "lookup" <=> Fetchable(edge))
         /\ stopReason # "budget" => Fate(edge) # "budget-exhausted"
<1>1. CASE stopReason = "budget"
  BY <1>1 DEF Fate
<1>2. CASE stopReason # "budget"
  <2>0. node.depth + 1 > MaxDepth <=> ~(node.depth + 1 <= MaxDepth)
    BY WalkAssumption DEF NodesOK, Nodes
  <2>1. CASE ~(node.depth + 1 <= MaxDepth)
    <3>1. Fate(edge) = "depth-limit"
      BY <1>2, <2>0, <2>1 DEF Fate
    <3> QED BY <1>2, <2>1, <3>1 DEF Fetchable
  <2>2. CASE node.depth + 1 <= MaxDepth /\ OnAncestorPath(node, edge.to)
    <3>1. Fate(edge) = "cycle"
      BY <1>2, <2>0, <2>2 DEF Fate
    <3> QED BY <1>2, <2>2, <3>1 DEF Fetchable
  <2>3. CASE node.depth + 1 <= MaxDepth /\ ~OnAncestorPath(node, edge.to)
    <3>1. Fate(edge) = IF edge.to \in expandedKeys THEN "already-expanded" ELSE "lookup"
      BY <1>2, <2>0, <2>3 DEF Fate
    <3> QED BY <1>2, <2>3, <3>1 DEF Fetchable
  <2> QED BY <2>1, <2>2, <2>3
<1> QED BY <1>1, <1>2

\* After an edge is settled the generator goes on with the next.
LEMMA OnwardsPosition ==
  ASSUME IInv, at \in {"settle", "await"}, todo # <<>>, todo' = Tail(todo), Onwards,
         UNCHANGED <<node, segment>>
  PROVE  Position'
<1>1. /\ Len(Tail(todo)) = Len(todo) - 1 /\ Tail(todo) \in Seq(WalkEdges)
  BY HeadOfTodo DEF IInv
<1>2. CASE segment = "paging"
  <2>1. Len(todo) = 1 /\ Len(Tail(todo)) = 0
    BY <1>1, <1>2 DEF IInv, Position
  <2>2. Tail(todo) = <<>>
    BY <1>1, <2>1
  <2> QED BY <1>2, <2>2 DEF IInv, Position, Onwards
<1>3. CASE segment # "paging"
  BY <1>3 DEF IInv, Position, Onwards
<1> QED BY <1>2, <1>3

LEMMA BlockedTypes ==
  ASSUME IInv, Blocked PROVE IInv'
<1> DEFINE e == EdgeEvent("edge", Head(todo), Fate(Head(todo)), "none")
<1>0. /\ at = "settle" /\ todo # <<>> /\ Tells(<<e>>) /\ todo' = Tail(todo) /\ Onwards
      /\ UNCHANGED <<world, budget, queue, node, plan, page, segment, fetchVars, expandedKeys,
                     emittedNodes, discoveryIndex, stopVars, spent, cancelled>>
  BY DEF Blocked
<1>1. Head(todo) \in WalkEdges /\ Tail(todo) \in Seq(WalkEdges)
  BY <1>0, HeadOfTodo DEF IInv
<1>2. e \in Events
  <2>1. todo # <<>> /\ Fate(Head(todo)) # "lookup"
    BY DEF Blocked
  <2>2. Fate(Head(todo)) \in Outcomes
    BY <2>1, FateIs DEF IInv, Outcomes
  <2> QED BY <1>1, <2>2, EdgeTyped DEF IInv
<1> HIDE DEF e
<1>3. ToldOK'
  <2>1. <<e>> \in Seq(Events)
    BY <1>2
  <2>2. events' \in Seq(Events)
    BY <1>0, <2>1, EventsGrow DEF IInv
  <2> QED BY <1>0, <2>2 DEF IInv, ToldOK
<1>4. InputOK' /\ FetchesOK' /\ ControlOK'
  BY <1>0, SameInput, SameFetches DEF IInv, ControlOK, Onwards, stopVars
<1>5. NodesOK'
  BY <1>0, <1>1 DEF IInv, NodesOK, PlanOK, PagingOK
<1>6. Position'
  BY <1>0, OnwardsPosition
<1> QED BY <1>3, <1>4, <1>5, <1>6 DEF IInv

LEMMA LookUpTypes ==
  ASSUME IInv, LookUp PROVE IInv'
<1>0. /\ at = "settle" /\ todo # <<>> /\ Fate(Head(todo)) = "lookup" /\ at' = "await"
      /\ UNCHANGED <<world, budget, nodeVars, resolutions, pool, active, toldVars, stopVars, spent, cancelled>>
  BY DEF LookUp
<1>1. Head(todo).to \in Keys
  BY <1>0, HeadOfTodo DEF IInv
<1>2. inFlight' \subseteq Keys /\ started' \in [Keys -> Nat]
  BY <1>1 DEF LookUp, IInv, FetchesOK
<1>3. InputOK' /\ NodesOK' /\ ToldOK' /\ ControlOK'
  BY <1>0, SameInput, SameNodes, SameTold DEF IInv, ControlOK, nodeVars, stopVars
<1>4. FetchesOK'
  BY <1>0, <1>2 DEF IInv, FetchesOK
<1>5. Position'
  <2>1. \A e : Fetchable(e)' <=> Fetchable(e)
    BY <1>0, SameAncestry DEF nodeVars, toldVars
  <2>2. stopReason # "budget" /\ Fetchable(Head(todo))
    BY <1>0, FateIs DEF IInv, ControlOK
  <2>3. Fetchable(Head(todo))'
    BY <1>0, <2>1, <2>2 DEF nodeVars
  <2>4. UNCHANGED <<todo, segment, node, stopReason>> /\ at' = "await" /\ at = "settle"
    BY <1>0 DEF nodeVars, stopVars
  <2> QED BY <1>0, <2>2, <2>3, <2>4 DEF IInv, Position
<1> QED BY <1>3, <1>4, <1>5 DEF IInv

LEMMA OutcomeTyped ==
  ASSUME NEW edge, NEW r \in Answers
  PROVE  /\ Outcome(edge, r).outcome \in {"not-expanded", "expanded", "leaf"}
         /\ Outcome(edge, r).status \in Answers \cup {"invalid"}
         /\ Outcome(edge, r).status = "budget-exhausted" <=> r = "budget-exhausted"
         /\ Outcome(edge, r).outcome = "expanded" <=>
              r = "resolved" /\ Entity(edge.to).type = edge.declared /\ (IF edge.expandable THEN TRUE ELSE FALSE)
<1>1. CASE r # "resolved"
  BY <1>1 DEF Outcome, Answers
<1>2. CASE r = "resolved" /\ Entity(edge.to).type # edge.declared
  BY <1>2 DEF Outcome, Answers
<1>3. CASE r = "resolved" /\ Entity(edge.to).type = edge.declared
  BY <1>3 DEF Outcome, Answers
<1> QED BY <1>1, <1>2, <1>3

\* One settled edge: what it says, whom it claims, and the node it queues.
SettledParts(edge, o, list, n) ==
  /\ edge = Head(todo) /\ o = Outcome(edge, resolutions[edge.to])
  /\ list = IF node.depth = 0
            THEN <<EdgeEvent("edge", edge, o.outcome, o.status), EdgeEvent("reference", edge, o.outcome, o.status)>>
            ELSE <<EdgeEvent("edge", edge, o.outcome, o.status)>>
  /\ n = [key |-> edge.to, depth |-> node.depth + 1, found |-> discoveryIndex + 1,
          expand |-> o.outcome = "expanded", path |-> node.path \cup {node.key}]
  /\ Tells(list) /\ queue' = Append(queue, n)
  /\ expandedKeys' = IF o.outcome = "expanded" THEN expandedKeys \cup {edge.to} ELSE expandedKeys
  /\ stopReason' = IF o.status = "budget-exhausted" THEN "budget" ELSE stopReason
  /\ edge \in WalkEdges /\ edge.to \in Keys /\ resolutions[edge.to] \in Answers
  /\ o.outcome \in {"not-expanded", "expanded", "leaf"} /\ o.status \in Answers \cup {"invalid"}
  /\ o.status = "budget-exhausted" <=> resolutions[edge.to] = "budget-exhausted"
  /\ list \in Seq(Events) /\ n \in Nodes

LEMMA SettledIs ==
  ASSUME IInv, Settled
  PROVE  \E edge, o, list, n : SettledParts(edge, o, list, n)
<1> DEFINE edge == Head(todo)
           o == Outcome(edge, resolutions[edge.to])
           list == IF node.depth = 0
                   THEN <<EdgeEvent("edge", edge, o.outcome, o.status), EdgeEvent("reference", edge, o.outcome, o.status)>>
                   ELSE <<EdgeEvent("edge", edge, o.outcome, o.status)>>
           n == [key |-> edge.to, depth |-> node.depth + 1, found |-> discoveryIndex + 1,
                 expand |-> o.outcome = "expanded", path |-> node.path \cup {node.key}]
<1>1. /\ at = "await" /\ resolutions[edge.to] # None /\ todo # <<>>
      /\ Tells(list) /\ queue' = Append(queue, n)
      /\ expandedKeys' = IF o.outcome = "expanded" THEN expandedKeys \cup {edge.to} ELSE expandedKeys
      /\ stopReason' = IF o.status = "budget-exhausted" THEN "budget" ELSE stopReason
  BY DEF Settled, Claims, IInv, Position
<1>2. edge \in WalkEdges /\ edge.to \in Keys
  BY <1>1, HeadOfTodo DEF IInv
<1>3. resolutions[edge.to] \in Answers
  BY <1>1, <1>2 DEF IInv, FetchesOK
<1>4. node.key \in Keys /\ node.depth \in Nat /\ node.path \subseteq Keys /\ discoveryIndex \in Nat
  BY <1>1 DEF IInv, Position, NodesOK, Nodes, ToldOK
<1> HIDE DEF edge
<1>5. /\ o.outcome \in {"not-expanded", "expanded", "leaf"} /\ o.status \in Answers \cup {"invalid"}
      /\ o.status = "budget-exhausted" <=> resolutions[edge.to] = "budget-exhausted"
  BY <1>3, OutcomeTyped
<1> HIDE DEF o
<1>6. list \in Seq(Events)
  <2>1. o.outcome \in Outcomes /\ o.status \in Answers \cup {"invalid", "none"}
    BY <1>5 DEF Outcomes
  <2>2. /\ EdgeEvent("edge", edge, o.outcome, o.status) \in Events
        /\ EdgeEvent("reference", edge, o.outcome, o.status) \in Events
    BY <1>2, <2>1, EdgeTyped DEF IInv
  <2> QED BY <2>2
<1>7. n \in Nodes
  BY <1>2, <1>4 DEF Nodes
<1> HIDE DEF list, n
<1>8. SettledParts(edge, o, list, n)
  BY <1>1, <1>2, <1>3, <1>5, <1>6, <1>7 DEF SettledParts, edge, o, list, n
<1> QED BY <1>8

LEMMA SettledTypes ==
  ASSUME IInv, Settled PROVE IInv'
<1>1. PICK edge, o, list, n : SettledParts(edge, o, list, n)
  BY SettledIs
<1>0. /\ at = "await" /\ discoveryIndex' = discoveryIndex + 1 /\ todo' = Tail(todo) /\ Onwards /\ todo # <<>>
      /\ UNCHANGED <<world, budget, node, plan, page, segment, fetchVars, emittedNodes, incomplete, spent, cancelled>>
  BY DEF Settled, IInv, Position
<1>2. InputOK' /\ FetchesOK'
  BY <1>0, SameInput, SameFetches DEF IInv
<1>3. ToldOK'
  <2>1. events' \in Seq(Events)
    BY <1>1, EventsGrow DEF IInv, SettledParts
  <2>2. expandedKeys' \subseteq Keys
    BY <1>1 DEF IInv, ToldOK, SettledParts
  <2>3. emittedNodes' \subseteq Keys /\ discoveryIndex' \in Nat
    BY <1>0 DEF IInv, ToldOK
  <2> QED BY <2>1, <2>2, <2>3 DEF ToldOK
<1>4. NodesOK'
  <2>1. Tail(todo) \in Seq(WalkEdges)
    BY <1>0, HeadOfTodo DEF IInv
  <2>2. queue \in Seq(Nodes) /\ (\A i \in 1 .. Len(queue) : queue[i].key \in Keys) /\ n \in Nodes /\ n.key \in Keys
    BY <1>1 DEF IInv, NodesOK, SettledParts
  <2>3. queue' \in Seq(Nodes) /\ \A i \in 1 .. Len(queue') : queue'[i].key \in Keys
    <3>1. queue' = Append(queue, n)
      BY <1>1 DEF SettledParts
    <3>2. /\ queue' \in Seq(Nodes) /\ Len(queue') = Len(queue) + 1 /\ Len(queue) \in Nat
          /\ \A i \in 1 .. Len(queue) : queue'[i] = queue[i]
          /\ queue'[Len(queue) + 1] = n
      BY <2>2, <3>1
    <3>3. ASSUME NEW i \in 1 .. Len(queue') PROVE queue'[i].key \in Keys
      <4>1. i \in 1 .. Len(queue) \/ i = Len(queue) + 1
        BY <3>2
      <4> QED BY <2>2, <3>2, <4>1
    <3> QED BY <3>2, <3>3
  <2> QED BY <1>0, <2>1, <2>3 DEF IInv, NodesOK, PlanOK, PagingOK
<1>5. ControlOK'
  BY <1>0, <1>1 DEF IInv, ControlOK, Onwards, SettledParts
<1>6. Position'
  BY <1>0, OnwardsPosition
<1> QED BY <1>2, <1>3, <1>4, <1>5, <1>6 DEF IInv

\* The item that the pager reads.
LEMMA ItemTyped ==
  ASSUME NodesOK, PageItem
  PROVE  CollectionEdge(plan.collections, page.collection, page.position, page.index) \in WalkEdges
<1>1. /\ page.collection \in 1 .. Len(plan.collections) /\ plan.collections \in Seq(Collections)
      /\ page.collection \in Nat /\ page.position \in Nat /\ page.index \in Nat /\ page.position > 0
  BY DEF NodesOK, PagingOK, PlanOK, PageItem, MorePages, Paging
<1>2. plan.collections[page.collection] \in Collections
  BY <1>1
<1>3. /\ plan.collections[page.collection].pages \in Seq(Keys) /\ plan.collections[page.collection].declared \in STRING
  BY <1>2 DEF Collections
<1>4. page.position \in 1 .. Len(plan.collections[page.collection].pages)
  BY <1>1, <1>3 DEF PageItem, Collection
<1>5. plan.collections[page.collection].pages[page.position] \in Keys
  BY <1>3, <1>4
<1> QED BY <1>1, <1>3, <1>5 DEF CollectionEdge, WalkEdges, Groups

LEMMA PageItemTypes ==
  ASSUME IInv, PageItem PROVE IInv'
<1> DEFINE e == CollectionEdge(plan.collections, page.collection, page.position, page.index)
<1>0. /\ at = "page" /\ spent' = spent + 1 /\ todo' = <<e>> /\ at' = "settle"
      /\ page' = [collection |-> page.collection, position |-> page.position + 1, index |-> page.index + 1]
      /\ UNCHANGED <<world, budget, segment, queue, node, plan, fetchVars, toldVars, stopVars, cancelled>>
  BY DEF PageItem, MorePages, Paging, Turn
<1>1. e \in WalkEdges
  BY ItemTyped DEF IInv
<1> HIDE DEF e
<1>2. InputOK' /\ FetchesOK' /\ ToldOK' /\ ControlOK'
  BY <1>0, SameFetches, SameTold DEF IInv, InputOK, ControlOK, stopVars
<1>3. PagingOK'
  BY <1>0 DEF IInv, NodesOK, PagingOK
<1>4. todo' \in Seq(WalkEdges) /\ Len(todo') = 1
  BY <1>0, <1>1
<1>5. NodesOK'
  BY <1>0, <1>3, <1>4 DEF IInv, NodesOK, PlanOK
<1>6. Position'
  BY <1>0, <1>4 DEF IInv, Position
<1> QED BY <1>2, <1>5, <1>6 DEF IInv

\* The pager ends a collection, or all of them.
LEMMA PagerTypes ==
  ASSUME IInv, PageEnds \/ PageFails \/ PageStops PROVE IInv'
<1>0. /\ at = "page" /\ stopReason' \in {stopReason, "budget"} /\ incomplete' \in {incomplete, TRUE}
      /\ spent' \in {spent, spent + 1}
      /\ UNCHANGED <<world, budget, at, segment, queue, node, plan, todo, fetchVars, toldVars, cancelled>>
  BY DEF PageEnds, PageFails, MayCharge, PageStops, MorePages, Paging, stopVars
<1>1. InputOK' /\ FetchesOK' /\ ToldOK' /\ ControlOK'
  <2>1. spent' \in Nat
    BY <1>0 DEF IInv, InputOK
  <2>2. InputOK'
    BY <1>0, <2>1 DEF IInv, InputOK
  <2>3. FetchesOK' /\ ToldOK'
    BY <1>0, SameFetches, SameTold DEF IInv
  <2>4. stopReason' \in {"none", "budget"} /\ incomplete' \in BOOLEAN
    BY <1>0, Zenon DEF IInv, ControlOK
  <2>5. ControlOK'
    BY <1>0, <2>4, Zenon DEF IInv, ControlOK
  <2> QED BY <2>2, <2>3, <2>5
<1>2. PagingOK'
  <2>1. plan.collections \in Seq(Collections)
    BY DEF IInv, NodesOK, PlanOK
  <2>2. Len(plan.collections) \in Nat
    BY <2>1
  <2>3. \/ page' = [collection |-> page.collection + 1, position |-> 1, index |-> page.index]
        \/ page' = [collection |-> Len(plan.collections) + 1, position |-> 1, index |-> page.index]
    BY DEF PageEnds, PageFails, PageStops, NextCollection, Turn
  <2> QED BY <2>2, <2>3 DEF IInv, NodesOK, PagingOK
<1>3. NodesOK'
  BY <1>0, <1>2 DEF IInv, NodesOK, PlanOK
<1>4. Position'
  BY <1>0 DEF IInv, Position
<1> QED BY <1>1, <1>3, <1>4 DEF IInv

LEMMA SegmentTypes ==
  ASSUME IInv, SegmentBeforeDone PROVE IInv'
<1>0. /\ at = "settle" /\ todo = <<>> /\ segment' = "paging" /\ at' = "page"
      /\ UNCHANGED <<world, budget, queue, node, plan, todo, page, fetchVars, toldVars, stopVars, spent, cancelled>>
  BY DEF SegmentBeforeDone
<1>1. InputOK' /\ FetchesOK' /\ ToldOK' /\ ControlOK'
  BY <1>0, SameInput, SameFetches, SameTold DEF IInv, ControlOK, stopVars
<1>2. NodesOK'
  BY <1>0 DEF IInv, NodesOK, PlanOK, PagingOK
<1>3. Position'
  BY <1>0 DEF IInv, Position
<1> QED BY <1>1, <1>2, <1>3 DEF IInv

LEMMA CloseTypes ==
  ASSUME IInv, Close PROVE IInv'
<1> DEFINE list == [i \in DOMAIN plan.expansions |->
                     [told |-> "expansion", key |-> node.key, field |-> i, outcome |-> plan.expansions[i]]]
<1>0. /\ at = "settle" /\ todo = <<>> /\ Tells(list) /\ at' \in {"loop", "done"}
      /\ UNCHANGED <<world, budget, nodeVars, fetchVars, expandedKeys, emittedNodes, discoveryIndex,
                     stopVars, spent, cancelled>>
  BY DEF Close
<1>1. list \in Seq(Events)
  <2>1. plan.expansions \in Seq(STRING) /\ node.key \in Keys \cup {None}
    BY DEF IInv, NodesOK, PlanOK, Nodes
  <2>2. DOMAIN plan.expansions = 1 .. Len(plan.expansions) /\ Len(plan.expansions) \in Nat
    BY <2>1
  <2>3. \A i \in 1 .. Len(plan.expansions) : list[i] \in Events
    BY <2>1, <2>2 DEF Events
  <2>4. list = [i \in 1 .. Len(plan.expansions) |-> list[i]]
    BY <2>2
  <2> HIDE DEF list
  <2> QED BY <2>2, <2>3, <2>4
<1> HIDE DEF list
<1>2. ToldOK'
  <2>1. events' \in Seq(Events)
    BY <1>0, <1>1, EventsGrow DEF IInv
  <2> QED BY <1>0, <2>1 DEF IInv, ToldOK
<1>3. InputOK' /\ FetchesOK' /\ NodesOK' /\ ControlOK'
  BY <1>0, SameInput, SameFetches, SameNodes DEF IInv, ControlOK, nodeVars, stopVars
<1>4. Position'
  BY <1>0 DEF IInv, Position, nodeVars
<1> QED BY <1>2, <1>3, <1>4 DEF IInv

-----------------------------------------------------------------------------
(* What is in flight: never a known key, and hardly anything the pool did  *)
(* not start.                                                              *)

Flights ==
  /\ \A k \in inFlight : resolutions[k] = None
  /\ \A k \in active : k \in inFlight
  /\ \A k \in inFlight : k \in active \/ (at = "await" /\ Head(todo).to = k)
  /\ \A y \in 1 .. Len(pool) : resolutions[pool[y]] = None
  /\ PoolFits

\* The steps that neither start nor end a fetch, nor wait for one.
LEMMA SameFlights ==
  ASSUME Flights, UNCHANGED fetchVars, at # "await" \/ UNCHANGED <<at, todo>> PROVE Flights'
BY DEF Flights, PoolFits, fetchVars

LEMMA NotKnown == \A k \in Keys : k \notin Known <=> resolutions[k] = None
BY DEF Known

LEMMA InitFlights == Init => Flights
<1> SUFFICES ASSUME Init PROVE Flights
  OBVIOUS
<1>1. Cardinality({}) = 0
  BY FS_EmptySet
<1> QED BY <1>1, WalkAssumption DEF Init, Flights, PoolFits

\* A pump keeps to unknown keys, whatever settled before it.
LEMMA PumpFlights ==
  ASSUME FetchesOK, Flights, NEW queued \in Seq(Keys), NEW held, held \subseteq active, NEW fetching,
         fetching \subseteq inFlight, \A x \in held : x \in fetching,
         NEW known, NEW now, Started(queued, held, fetching, known, now),
         \A x \in Keys : x \notin known \/ x \in fetching => resolutions'[x] = None,
         \A x \in fetching : x \in held \/ (at' = "await" /\ Head(todo)'.to = x)
  PROVE  Flights'
<1>1. /\ active' = held \cup now /\ inFlight' = fetching \cup now /\ now \subseteq Keys
      /\ \A x \in now : x \notin known
      /\ pool' \in Seq(Keys) /\ \A y \in 1 .. Len(pool') : pool'[y] \notin known
      /\ Cardinality(active') <= FetchConcurrency /\ (pool' # <<>> => active' # {})
  BY DEF Started
<1>2. fetching \subseteq Keys
  BY DEF FetchesOK
<1>3. \A x \in inFlight' : resolutions'[x] = None
  BY <1>1, <1>2
<1>4. \A y \in 1 .. Len(pool') : resolutions'[pool'[y]] = None
  <2>1. \A y \in 1 .. Len(pool') : pool'[y] \in Keys
    BY <1>1
  <2> QED BY <1>1, <2>1
<1>5. (\A x \in active' : x \in inFlight') /\ \A x \in inFlight' : x \in active' \/ (at' = "await" /\ Head(todo)'.to = x)
  BY <1>1
<1> QED BY <1>1, <1>3, <1>4, <1>5 DEF Flights, PoolFits

LEMMA SettleFlights ==
  ASSUME IInv, Flights, NEW k \in Keys, Settle(k) PROVE Flights'
<1>1. PICK now : Started(pool, active \ {k}, inFlight \ {k}, Known \cup {k}, now)
  BY SettleParts DEF Flights
<1>2. /\ resolutions' = [resolutions EXCEPT ![k] = Verdict(k)] /\ UNCHANGED <<at, todo>> /\ k \in inFlight
      /\ resolutions \in [Keys -> Answers \cup {None}]
  BY DEF Settle, nodeVars, IInv, FetchesOK
<1>3. pool \in Seq(Keys) /\ inFlight \subseteq Keys
  BY DEF IInv, FetchesOK
<1>4. \A x \in Keys : x \notin Known \cup {k} \/ x \in inFlight \ {k} => resolutions'[x] = None
  BY <1>2, NotKnown DEF Flights
<1>5. \A x \in inFlight \ {k} : x \in active \ {k} \/ (at' = "await" /\ Head(todo)'.to = x)
  BY <1>2 DEF Flights
<1>6. \A x \in active \ {k} : x \in inFlight \ {k}
  BY DEF Flights
<1> QED BY <1>1, <1>3, <1>4, <1>5, <1>6, PumpFlights DEF IInv

LEMMA RejectFlights ==
  ASSUME IInv, Flights, NEW k \in Keys, Reject(k) PROVE Flights'
<1>1. PICK now : Started(pool, active \ {k}, inFlight \ {k}, Known, now)
  BY RejectParts DEF Flights
<1>2. /\ UNCHANGED <<resolutions, todo>> /\ at' = IF at = "await" /\ Head(todo).to = k THEN "failed" ELSE at
  BY DEF Reject, nodeVars
<1>3. pool \in Seq(Keys) /\ inFlight \subseteq Keys
  BY DEF IInv, FetchesOK
<1>4. \A x \in Keys : x \notin Known \/ x \in inFlight \ {k} => resolutions'[x] = None
  BY <1>2, NotKnown DEF Flights
<1>5. \A x \in inFlight \ {k} : x \in active \ {k} \/ (at' = "await" /\ Head(todo)'.to = x)
  BY <1>2 DEF Flights
<1>6. \A x \in active \ {k} : x \in inFlight \ {k}
  BY DEF Flights
<1> QED BY <1>1, <1>3, <1>4, <1>5, <1>6, PumpFlights DEF IInv

LEMMA BatchFlights ==
  ASSUME IInv, Flights, StartBefore \/ StartAfter PROVE Flights'
<1>0. at # "await"
  BY DEF StartBefore, StartAfter
<1>1. CASE UNCHANGED fetchVars
  BY <1>0, <1>1, SameFlights
<1>2. CASE \E edges \in Seq(WalkEdges) : PrefetchBatch(edges)
  <2>1. PICK edges \in Seq(WalkEdges) : PrefetchBatch(edges)
    BY <1>2
  <2>2. PICK now : Started(pool \o Prefetchable(edges), active, inFlight, Known, now)
    BY <2>1, PrefetchParts DEF Flights
  <2>3. pool \o Prefetchable(edges) \in Seq(Keys) /\ UNCHANGED resolutions
    BY <2>1, PrefetchableTyped DEF IInv, FetchesOK, PrefetchBatch
  <2>4. \A x \in Keys : x \notin Known \/ x \in inFlight => resolutions'[x] = None
    BY <2>3, NotKnown DEF Flights
  <2>5. \A x \in inFlight : x \in active
    BY <1>0 DEF Flights
  <2>6. \A x \in active : x \in inFlight
    BY DEF Flights
  <2> QED BY <2>2, <2>3, <2>4, <2>5, <2>6, PumpFlights DEF IInv
<1>3. plan.before \in Seq(WalkEdges) /\ plan.after \in Seq(WalkEdges)
  BY DEF IInv, NodesOK, PlanOK
<1> QED BY <1>1, <1>2, <1>3 DEF StartBefore, StartAfter

LEMMA LookUpFlights ==
  ASSUME IInv, Flights, LookUp PROVE Flights'
<1> DEFINE k == Head(todo).to
<1>1. k \in Keys /\ at' = "await" /\ at = "settle" /\ UNCHANGED <<todo, resolutions, pool, active>>
  BY HeadOfTodo DEF IInv, LookUp, nodeVars
<1>2. \/ UNCHANGED inFlight
      \/ k \notin Known /\ inFlight' = inFlight \cup {k}
  BY DEF LookUp
<1> HIDE DEF k
<1>3. \A x \in inFlight' : x \in active' \/ k = x
  BY <1>1, <1>2 DEF Flights
<1>4. \A x \in inFlight' : resolutions'[x] = None
  BY <1>1, <1>2, NotKnown DEF Flights
<1>5. Head(todo)'.to = k
  BY <1>1 DEF k
<1> QED BY <1>1, <1>2, <1>3, <1>4, <1>5 DEF Flights, PoolFits

LEMMA SettledFlights ==
  ASSUME IInv, Flights, Settled PROVE Flights'
<1>1. at = "await" /\ resolutions[Head(todo).to] # None /\ UNCHANGED fetchVars
  BY DEF Settled
<1>2. \A k \in inFlight : k \in active
  BY <1>1 DEF Flights
<1> QED BY <1>1, <1>2 DEF Flights, PoolFits, fetchVars

LEMMA RootFlights ==
  ASSUME IInv, Flights, RootResolves PROVE Flights'
<1>1. at = "root" /\ inFlight = {} /\ active = {} /\ pool = <<>> /\ UNCHANGED <<inFlight, active, pool>>
  BY DEF IInv, Position, RootResolves
<1> QED BY <1>1 DEF Flights, PoolFits

\* The types and what is in flight, over every step.
LEMMA StepTypes ==
  ASSUME IInv, Flights, [Next]_vars PROVE IInv' /\ Flights'
<1>0. PoolFits
  BY DEF Flights
<1>1. CASE \E k \in Keys : Settle(k) \/ Reject(k)
  BY <1>0, <1>1, SettleTypes, RejectTypes, SettleFlights, RejectFlights
<1>2. CASE StartBefore \/ StartAfter
  BY <1>0, <1>2, BatchTypes, BatchFlights
<1>3. CASE RootResolves
  BY <1>3, RootTypes, RootFlights
<1>4. CASE LookUp
  BY <1>4, LookUpTypes, LookUpFlights
<1>5. CASE Settled
  BY <1>5, SettledTypes, SettledFlights
<1>6. CASE RootRejected \/ Finish \/ Cancel
  <2>1. UNCHANGED fetchVars /\ (at # "await" \/ UNCHANGED <<at, todo>>)
    BY <1>6 DEF RootRejected, MorePages, Paging, Finish, Cancel, nodeVars
  <2> QED BY <1>6, <2>1, MoveTypes, SameFlights
<1>7. CASE Visit \/ Blocked \/ SegmentBeforeDone \/ PageItem \/ PageEnds \/ PageFails \/ PageStops \/ Close
  <2>1. UNCHANGED fetchVars /\ at # "await"
    BY <1>7 DEF Visit, Blocked, SegmentBeforeDone, PageItem, PageEnds, PageFails, PageStops, MorePages, Paging, Close
  <2>2. Flights'
    BY <2>1, SameFlights
  <2>3. IInv'
    BY <1>7, VisitTypes, BlockedTypes, SegmentTypes, PageItemTypes, PagerTypes, CloseTypes
  <2> QED BY <2>2, <2>3
<1>8. CASE UNCHANGED vars
  <2>1. /\ UNCHANGED <<world, budget, spent, nodeVars, fetchVars, toldVars, stopVars, at, cancelled>>
    BY <1>8 DEF vars
  <2>2. InputOK' /\ NodesOK' /\ FetchesOK' /\ ToldOK' /\ ControlOK'
    BY <2>1, SameInput, SameNodes, SameFetches, SameTold DEF IInv, ControlOK, nodeVars, stopVars
  <2>3. Position'
    <3>1. \A e : Fetchable(e)' <=> Fetchable(e)
      BY <2>1, SameAncestry DEF nodeVars, toldVars
    <3>2. Position /\ UNCHANGED <<todo, stopReason, node, segment, inFlight, active, pool, at>>
      BY <2>1 DEF IInv, nodeVars, stopVars, fetchVars
    <3> QED BY <3>1, <3>2 DEF Position
  <2>4. Flights'
    BY <2>1, SameFlights DEF nodeVars
  <2> QED BY <2>2, <2>3, <2>4 DEF IInv
<1> QED BY <1>1, <1>2, <1>3, <1>4, <1>5, <1>6, <1>7, <1>8 DEF Next, Generator

-----------------------------------------------------------------------------
(* The pool looks ahead of the generator along the edges in hand, and no   *)
(* further: what it holds is due, in the order in which it will be needed. *)

Open == ~cancelled /\ stopReason # "budget"
Settling == at \in {"settle", "await"}
InBatch == Settling /\ segment # "paging"

Due(list, k) == \E i \in 1 .. Len(list) : Fetchable(list[i]) /\ list[i].to = k

\* Whoever needs b has needed a before.
Ahead(list, a, b) ==
  \A i \in 1 .. Len(list) : Fetchable(list[i]) /\ list[i].to = b =>
    \E j \in 1 .. Len(list) : j < i /\ Fetchable(list[j]) /\ list[j].to = a

\* Fetches that are held and keys that are queued, against the edges of a list.
InTurn(list, held, queued) ==
  /\ \A k \in held : Due(list, k)
  /\ \A y \in 1 .. Len(queued) : Due(list, queued[y])
  /\ \A a \in held : \A y \in 1 .. Len(queued) : Ahead(list, a, queued[y])
  /\ \A x, y \in 1 .. Len(queued) : x < y => Ahead(list, queued[x], queued[y])

Covered(list, held, queued) ==
  \A i \in 1 .. Len(list) : Fetchable(list[i]) =>
    \/ list[i].to \in Known \/ list[i].to \in held
    \/ \E y \in 1 .. Len(queued) : queued[y] = list[i].to

LookAhead ==
  Open => /\ ~InBatch => active = {}
          /\ InBatch => InTurn(todo, active, pool) /\ Covered(todo, active, pool)

Answered(k) == \E i \in 1 .. Len(events) : events[i].told = "edge" /\ events[i].to = k /\ events[i].status # "none"

Used == Open => \A k \in Keys : started[k] > 0 => Answered(k) \/ (Settling /\ Due(todo, k))

Once == ~cancelled => \A k \in Keys : started[k] <= 1 /\ (started[k] = 1 => resolutions[k] # None \/ k \in inFlight)

NotFailed == ~cancelled => at # "failed"

FetchInv == LookAhead /\ Used /\ Once /\ NotFailed

LEMMA AnsweredKept ==
  ASSUME ToldOK, NEW k, Answered(k), UNCHANGED events \/ \E list \in Seq(Events) : Tells(list)
  PROVE  Answered(k)'
<1>1. CASE UNCHANGED events
  BY <1>1 DEF Answered
<1>2. CASE \E list \in Seq(Events) : Tells(list)
  <2>1. PICK list \in Seq(Events) : events' = events \o list
    BY <1>2 DEF Tells
  <2>2. Len(events') = Len(events) + Len(list) /\ Len(events) \in Nat /\ Len(list) \in Nat
        /\ \A i \in 1 .. Len(events) : events'[i] = events[i]
    BY <2>1 DEF ToldOK
  <2> QED BY <2>2 DEF Answered
<1> QED BY <1>1, <1>2

LEMMA PumpInTurn ==
  ASSUME NEW list, NEW queued, NEW held, NEW fetching, NEW known, NEW now,
         Started(queued, held, fetching, known, now), InTurn(list, held, queued)
  PROVE  InTurn(list, active', pool')
<1>1. /\ active' = held \cup now
      /\ \A k \in now : \E i \in 1 .. Len(queued) : queued[i] = k
      /\ \A y \in 1 .. Len(pool') : \E i \in 1 .. Len(queued) : queued[i] = pool'[y]
      /\ \A a \in now : \A y \in 1 .. Len(pool') :
           \E i, j \in 1 .. Len(queued) : i < j /\ queued[i] = a /\ queued[j] = pool'[y]
      /\ \A x, y \in 1 .. Len(pool') : x < y =>
           \E i, j \in 1 .. Len(queued) : i < j /\ queued[i] = pool'[x] /\ queued[j] = pool'[y]
  BY DEF Started
<1>2. /\ \A k \in held : Due(list, k)
      /\ \A y \in 1 .. Len(queued) : Due(list, queued[y])
      /\ \A a \in held : \A y \in 1 .. Len(queued) : Ahead(list, a, queued[y])
      /\ \A x, y \in 1 .. Len(queued) : x < y => Ahead(list, queued[x], queued[y])
  BY DEF InTurn
<1>3. (\A k \in active' : Due(list, k)) /\ \A y \in 1 .. Len(pool') : Due(list, pool'[y])
  BY <1>1, <1>2
<1>4. ASSUME NEW a \in active', NEW y \in 1 .. Len(pool') PROVE Ahead(list, a, pool'[y])
  <2>1. CASE a \in held
    BY <1>1, <1>2, <2>1
  <2>2. CASE a \in now
    <3>1. PICK i \in 1 .. Len(queued), j \in 1 .. Len(queued) : i < j /\ queued[i] = a /\ queued[j] = pool'[y]
      BY <1>1, <2>2
    <3>2. Ahead(list, queued[i], queued[j])
      BY <1>2, <3>1
    <3> QED BY <3>1, <3>2
  <2> QED BY <1>1, <2>1, <2>2
<1>5. \A x, y \in 1 .. Len(pool') : x < y => Ahead(list, pool'[x], pool'[y])
  BY <1>1, <1>2
<1> QED BY <1>3, <1>4, <1>5 DEF InTurn

\* A list of edges is looked at in the same way before and after the step.
LEMMA SameTurn ==
  ASSUME UNCHANGED <<node, expandedKeys>>
  PROVE  /\ InTurn(todo', active', pool') => InTurn(todo, active, pool)'
         /\ \A k : Due(todo', k) <=> Due(todo, k)'
<1>1. \A e : Fetchable(e)' <=> Fetchable(e)
  BY SameAncestry
<1>2. \A k : Due(todo', k) <=> Due(todo, k)'
  BY <1>1 DEF Due
<1>3. \A a, b : Ahead(todo', a, b) <=> Ahead(todo, a, b)'
  BY <1>1 DEF Ahead
<1> QED BY <1>2, <1>3 DEF InTurn

LEMMA NothingQueued ==
  ASSUME FetchesOK, Flights, active = {} PROVE pool = <<>> /\ Len(pool) = 0 /\ (at # "await" => inFlight = {})
BY DEF Flights, PoolFits, FetchesOK

LEMMA SettleFetchInv ==
  ASSUME IInv, Flights, FetchInv, NEW k \in Keys, Settle(k) PROVE FetchInv'
<1>1. PICK now : Started(pool, active \ {k}, inFlight \ {k}, Known \cup {k}, now)
  BY SettleParts DEF Flights
<1>2. /\ resolutions' = [resolutions EXCEPT ![k] = Verdict(k)] /\ k \in inFlight
      /\ UNCHANGED <<at, todo, segment, node, expandedKeys, stopReason, cancelled, events>>
      /\ resolutions \in [Keys -> Answers \cup {None}] /\ Verdict(k) # None
  BY VerdictTyped, WalkAssumption DEF Settle, nodeVars, toldVars, stopVars, IInv, FetchesOK, Answers
<1>3. started' = [x \in Keys |-> started[x] + (IF x \in now \ inFlight THEN 1 ELSE 0)]
      /\ inFlight' = (inFlight \ {k}) \cup now /\ active' = (active \ {k}) \cup now
      /\ \A x \in now : x \notin Known \cup {k} /\ \E y \in 1 .. Len(pool) : pool[y] = x
  BY <1>1 DEF Started
<1>4. started \in [Keys -> Nat]
  BY DEF IInv, FetchesOK
<1>5. \A x \in Keys : resolutions'[x] # None <=> (resolutions[x] # None \/ x = k)
  BY <1>2
<1>6. Once'
  <2> SUFFICES ASSUME ~cancelled, NEW x \in Keys
               PROVE  started'[x] <= 1 /\ (started'[x] = 1 => resolutions'[x] # None \/ x \in inFlight')
    BY <1>2 DEF Once
  <2>1. started[x] \in Nat /\ started[x] <= 1 /\ (started[x] = 1 => resolutions[x] # None \/ x \in inFlight)
    BY <1>4 DEF FetchInv, Once
  <2>2. CASE x \in now \ inFlight
    <3>1. resolutions[x] = None
      BY <1>3, <2>2, NotKnown
    <3> QED BY <1>3, <2>1, <2>2, <3>1
  <2>3. CASE x \notin now \ inFlight
    <3>1. started'[x] = started[x]
      BY <1>3, <1>4, <2>3
    <3> QED BY <1>3, <1>5, <2>1, <3>1
  <2> QED BY <2>2, <2>3
<1>7. LookAhead'
  <2> SUFFICES ASSUME Open
               PROVE  /\ ~InBatch => active' = {}
                      /\ InBatch => InTurn(todo, active, pool)' /\ Covered(todo, active, pool)'
    BY <1>2 DEF LookAhead, Open, InBatch, Settling
  <2>1. ASSUME ~InBatch PROVE active' = {}
    <3>1. active = {} /\ Len(pool) = 0
      BY <2>1, NothingQueued DEF FetchInv, LookAhead, IInv
    <3> QED BY <1>3, <3>1
  <2>2. ASSUME InBatch PROVE InTurn(todo, active, pool)'
    <3>1. InTurn(todo, active \ {k}, pool)
      BY <2>2 DEF FetchInv, LookAhead, InTurn
    <3>2. InTurn(todo, active', pool')
      BY <1>1, <3>1, PumpInTurn
    <3> QED BY <1>2, <3>2, SameTurn
  <2>3. ASSUME InBatch PROVE Covered(todo, active, pool)'
    <3>1. Covered(todo, active, pool)
      BY <2>3 DEF FetchInv, LookAhead
    <3>2. \A e : Fetchable(e)' <=> Fetchable(e)
      BY <1>2, SameAncestry
    <3>3. \A x \in Keys : x \in Known' <=> x \in Known \cup {k}
      BY <1>5 DEF Known
    <3>4. \A y \in 1 .. Len(pool) : pool[y] \in Known \cup {k} \cup now \/ \E z \in 1 .. Len(pool') : pool'[z] = pool[y]
      BY <1>1 DEF Started
    <3>5. \A i \in 1 .. Len(todo) : todo[i].to \in Keys
      <4>1. \A i \in 1 .. Len(todo) : todo[i] \in WalkEdges
        BY DEF IInv, NodesOK
      <4> QED BY <4>1 DEF WalkEdges
    <3>6. ASSUME NEW i \in 1 .. Len(todo), Fetchable(todo[i])
          PROVE  \/ todo[i].to \in Known' \/ todo[i].to \in active'
                 \/ \E y \in 1 .. Len(pool') : pool'[y] = todo[i].to
      <4>1. CASE todo[i].to \in Known \/ todo[i].to \in active
        BY <1>3, <3>3, <3>5, <4>1
      <4>2. CASE \E y \in 1 .. Len(pool) : pool[y] = todo[i].to
        BY <1>3, <3>3, <3>4, <3>5, <4>2
      <4> QED BY <3>1, <3>6, <4>1, <4>2 DEF Covered
    <3> QED BY <1>2, <3>2, <3>6 DEF Covered
  <2> QED BY <2>1, <2>2, <2>3
<1>8. Used'
  <2> SUFFICES ASSUME Open, NEW x \in Keys, started'[x] > 0
               PROVE  Answered(x) \/ (Settling /\ Due(todo, x))
    <3>1. \A x \in Keys : (Answered(x)' <=> Answered(x)) /\ (Due(todo, x)' <=> Due(todo, x))
      BY <1>2, SameTurn DEF Answered
    <3> QED BY <1>2, <3>1 DEF Used, Open, Settling
  <2>1. CASE started[x] > 0
    BY <2>1 DEF FetchInv, Used
  <2>2. CASE ~(started[x] > 0)
    <3>1. x \in now
      BY <1>3, <1>4, <2>2
    <3>2. PICK y \in 1 .. Len(pool) : pool[y] = x
      BY <1>3, <3>1
    <3>3. InBatch
      <4>1. Len(pool) # 0
        BY <3>2 DEF IInv, FetchesOK
      <4> QED BY <4>1, NothingQueued DEF FetchInv, LookAhead, IInv
    <3> QED BY <3>2, <3>3 DEF FetchInv, LookAhead, InTurn, InBatch
  <2> QED BY <2>1, <2>2
<1>9. NotFailed'
  BY <1>2 DEF FetchInv, NotFailed
<1> QED BY <1>6, <1>7, <1>8, <1>9 DEF FetchInv

\* Once it is cancelled, the walk promises nothing more about its pool.
LEMMA ClosedFetchInv == cancelled' => FetchInv'
BY DEF FetchInv, LookAhead, Used, Once, NotFailed, Open

\* The steps outside a batch: no fetch is touched, and nothing is due.
LEMMA IdleFetchInv ==
  ASSUME IInv, Flights, FetchInv, ~Settling \/ todo = <<>>, ~InBatch', at' # "failed",
         UNCHANGED <<active, inFlight, started, cancelled>>,
         \A x \in Keys : resolutions[x] # None => resolutions'[x] # None,
         stopReason' \in {stopReason, "budget"}, UNCHANGED events \/ \E list \in Seq(Events) : Tells(list)
  PROVE  FetchInv'
<1>1. Once' /\ NotFailed'
  BY DEF FetchInv, Once, NotFailed
<1>2. CASE ~Open
  <2>1. ~Open'
    BY <1>2 DEF Open
  <2> QED BY <1>1, <2>1 DEF FetchInv, LookAhead, Used
<1>3. CASE Open
  <2>0. ~(Settling /\ \E x : Due(todo, x))
    <3>1. todo = <<>> => Len(todo) = 0
      OBVIOUS
    <3> QED BY <3>1 DEF Due
  <2>1. active = {}
    <3>1. CASE ~InBatch
      BY <1>3, <3>1 DEF FetchInv, LookAhead
    <3>2. CASE InBatch
      BY <1>3, <3>2, <2>0 DEF FetchInv, LookAhead, InTurn, InBatch
    <3> QED BY <3>1, <3>2
  <2>2. LookAhead'
    BY <2>1 DEF LookAhead
  <2>3. Used'
    <3>1. ASSUME NEW x \in Keys, started[x] > 0 PROVE Answered(x)
      BY <1>3, <3>1, <2>0 DEF FetchInv, Used
    <3>2. \A x \in Keys : started[x] > 0 => Answered(x)'
      BY <3>1, AnsweredKept DEF IInv
    <3> QED BY <3>2 DEF Used
  <2> QED BY <1>1, <2>2, <2>3 DEF FetchInv
<1> QED BY <1>2, <1>3

LEMMA RootFetchInv ==
  ASSUME IInv, Flights, FetchInv, RootResolves PROVE FetchInv'
<1>1. /\ at = "root" /\ at' = "loop" /\ stopReason' \in {stopReason, "budget"}
      /\ resolutions' = [resolutions EXCEPT ![Root] = IF world.rootGiven THEN "resolved" ELSE Verdict(Root)]
      /\ UNCHANGED <<active, inFlight, started, cancelled, events>>
  BY DEF RootResolves
<1>2. (IF world.rootGiven THEN "resolved" ELSE Verdict(Root)) # None
  BY VerdictTyped, WalkAssumption DEF IInv, Answers
<1>3. \A x \in Keys : resolutions[x] # None => resolutions'[x] # None
  BY <1>1, <1>2 DEF IInv, FetchesOK
<1>4. ~Settling /\ ~InBatch' /\ at' # "failed"
  BY <1>1 DEF Settling, InBatch
<1> QED BY <1>1, <1>3, <1>4, IdleFetchInv

LEMMA QuietFetchInv ==
  ASSUME IInv, Flights, FetchInv,
         Visit \/ Finish \/ SegmentBeforeDone \/ PageItem \/ PageEnds \/ PageFails \/ PageStops \/ Close
  PROVE  FetchInv'
<1>1. /\ UNCHANGED <<active, inFlight, started, cancelled, resolutions>>
      /\ stopReason' \in {stopReason, "budget"}
  BY DEF Visit, Finish, SegmentBeforeDone, PageItem, PageEnds, PageFails, PageStops, Close, fetchVars, stopVars
<1>2. ~Settling \/ todo = <<>>
  BY DEF Visit, Finish, SegmentBeforeDone, PageItem, PageEnds, PageFails, PageStops, MorePages, Paging, Close, Settling
<1>3. ~InBatch' /\ at' # "failed"
  BY DEF IInv, Position, Visit, Finish, SegmentBeforeDone, PageItem, PageEnds, PageFails, PageStops, MorePages, Paging,
         Close, Settling, InBatch
<1>4. UNCHANGED events \/ \E list \in Seq(Events) : Tells(list)
  <2>1. CASE Visit
    <3>1. Tells(IF Head(queue).key \in emittedNodes THEN <<>> ELSE <<[told |-> "node", key |-> Head(queue).key]>>)
      BY <2>1 DEF Visit
    <3>2. Head(queue).key \in Keys \cup {None}
      <4>1. queue \in Seq(Nodes) /\ queue # <<>>
        BY <2>1 DEF Visit, IInv, NodesOK
      <4>2. Head(queue) \in Nodes
        BY <4>1
      <4> QED BY <4>2 DEF Nodes
    <3>3. [told |-> "node", key |-> Head(queue).key] \in Events
      BY <3>2 DEF Events
    <3>4. (IF Head(queue).key \in emittedNodes THEN <<>> ELSE <<[told |-> "node", key |-> Head(queue).key]>>) \in Seq(Events)
      BY <3>3, OneTold
    <3> QED BY <3>1, <3>4
  <2>2. CASE Close
    <3> DEFINE list == [i \in DOMAIN plan.expansions |->
                         [told |-> "expansion", key |-> node.key, field |-> i, outcome |-> plan.expansions[i]]]
    <3>1. plan.expansions \in Seq(STRING) /\ node.key \in Keys \cup {None}
      BY DEF IInv, NodesOK, PlanOK, Nodes
    <3>2. DOMAIN plan.expansions = 1 .. Len(plan.expansions) /\ Len(plan.expansions) \in Nat
      BY <3>1
    <3>3. \A i \in 1 .. Len(plan.expansions) : list[i] \in Events
      BY <3>1, <3>2 DEF Events
    <3>4. list = [i \in 1 .. Len(plan.expansions) |-> list[i]]
      BY <3>2
    <3>5. Tells(list)
      BY <2>2 DEF Close
    <3> HIDE DEF list
    <3> QED BY <3>2, <3>3, <3>4, <3>5
  <2>3. CASE ~Visit /\ ~Close
    BY <2>3 DEF Finish, SegmentBeforeDone, PageItem, PageEnds, PageFails, PageStops, toldVars
  <2> QED BY <2>1, <2>2, <2>3
<1> QED BY <1>1, <1>2, <1>3, <1>4, IdleFetchInv

\* What a batch prefetches: what is due, once each, in the order of the edges.
LEMMA PrefetchableIs ==
  ASSUME NEW edges \in Seq(WalkEdges)
  PROVE  /\ InTurn(edges, {}, Prefetchable(edges))
         /\ \A i \in 1 .. Len(edges) : Fetchable(edges[i]) =>
              \/ edges[i].to \in Known \cup inFlight
              \/ \E y \in 1 .. Len(Prefetchable(edges)) : Prefetchable(edges)[y] = edges[i].to
<1> DEFINE s == [n \in DOMAIN edges |-> edges[n].to]
           first(n) == \A m \in 1 .. n - 1 : ~(Fetchable(edges[m]) /\ edges[m].to = edges[n].to)
           I == {n \in DOMAIN edges :
                   /\ Fetchable(edges[n]) /\ edges[n].to \notin Known \cup inFlight
                   /\ \A m \in 1 .. n - 1 : ~(Fetchable(edges[m]) /\ edges[m].to = edges[n].to)}
           keys == Prefetchable(edges)
<1>1. DOMAIN edges = 1 .. Len(edges) /\ Len(edges) \in Nat
  OBVIOUS
<1>2. s \in Seq(Keys)
  <2>1. \A n \in 1 .. Len(edges) : edges[n] \in WalkEdges
    OBVIOUS
  <2>2. \A n \in 1 .. Len(edges) : edges[n].to \in Keys
    BY <2>1 DEF WalkEdges
  <2> QED BY <2>2
<1>3. \A n \in I : /\ n \in 1 .. Len(edges) /\ s[n] = edges[n].to /\ Fetchable(edges[n])
                   /\ \A m \in 1 .. n - 1 : ~(Fetchable(edges[m]) /\ edges[m].to = s[n])
  BY <1>1
<1>4. IsKept(keys, s, I)
  <2>1. I \subseteq DOMAIN s
    OBVIOUS
  <2>2. keys = Keep(s, I)
    BY DEF Prefetchable
  <2> HIDE DEF s, I, keys
  <2> QED BY <1>2, <2>1, <2>2, Kept
<1>5. \A y \in 1 .. Len(keys) : Due(edges, keys[y])
  <2> HIDE DEF I, keys, s
  <2>1. ASSUME NEW y \in 1 .. Len(keys) PROVE Due(edges, keys[y])
    <3>1. PICK n \in I : keys[y] = s[n]
      BY <1>4 DEF IsKept
    <3> QED BY <1>3, <3>1 DEF Due
  <2> QED BY <2>1
<1>6. ASSUME NEW x \in 1 .. Len(keys), NEW y \in 1 .. Len(keys), x < y PROVE Ahead(edges, keys[x], keys[y])
  <2> HIDE DEF I, keys, s
  <2>1. PICK i \in I, j \in I : i < j /\ keys[x] = s[i] /\ keys[y] = s[j]
    BY <1>4, <1>6 DEF IsKept
  <2>2. ASSUME NEW n \in 1 .. Len(edges), Fetchable(edges[n]), edges[n].to = keys[y]
        PROVE  \E m \in 1 .. Len(edges) : m < n /\ Fetchable(edges[m]) /\ edges[m].to = keys[x]
    <3>1. ~(n \in 1 .. j - 1)
      BY <1>3, <2>1, <2>2
    <3>2. i < n /\ i \in 1 .. Len(edges)
      BY <1>1, <1>3, <2>1, <3>1
    <3> QED BY <1>3, <2>1, <3>2
  <2> QED BY <2>2 DEF Ahead
<1>7. ASSUME NEW i \in 1 .. Len(edges), Fetchable(edges[i]), edges[i].to \notin Known \cup inFlight
      PROVE  \E y \in 1 .. Len(keys) : keys[y] = edges[i].to
  <2> DEFINE O == {n \in 1 .. Len(edges) : Fetchable(edges[n]) /\ edges[n].to = edges[i].to}
             R == InPlace(edges)
             m == Place(R, O, 1)
  <2>1. IsFiniteSet(O) /\ i \in O
    <3>1. IsFiniteSet(1 .. Len(edges))
      BY <1>1, FS_Interval
    <3> QED BY <1>7, <3>1, FS_Subset
  <2>2. Orders(R, O)
    BY <1>1 DEF Orders, InPlace
  <2>3. 1 \in 1 .. Cardinality(O)
    <3>1. Cardinality(O) \in Nat /\ Cardinality(O) # 0
      BY <2>1, FS_CardinalityType, FS_EmptySet
    <3> QED BY <3>1
  <2>4. m \in O /\ Cardinality(Earlier(R, O, m)) = 0
    <3> HIDE DEF O, R
    <3>1. Place(R, O, 1) \in O /\ Cardinality(Earlier(R, O, Place(R, O, 1))) = 1 - 1
      BY <2>1, <2>2, <2>3, PlaceIs
    <3> QED BY <3>1
  <2> HIDE DEF m
  <2>5. Earlier(R, O, m) = {}
    <3>1. IsFiniteSet(Earlier(R, O, m))
      <4> HIDE DEF O, R
      <4> QED BY <2>1, <2>2, <2>4, EarlierCount
    <3> QED BY <2>4, <3>1, FS_EmptySet
  <2>6. ASSUME NEW n \in 1 .. m - 1 PROVE ~(Fetchable(edges[n]) /\ edges[n].to = edges[m].to)
    <3>1. n \in 1 .. Len(edges) /\ m \in 1 .. Len(edges) /\ n < m
      BY <1>1, <2>4
    <3>2. n \in O => n \in Earlier(R, O, m)
      BY <1>1, <3>1 DEF Earlier, InPlace
    <3> QED BY <2>4, <2>5, <3>1, <3>2
  <2>7. m \in I
    BY <1>1, <1>7, <2>4, <2>6
  <2>8. s[m] = edges[i].to
    BY <1>1, <2>4
  <2>9. \E y \in 1 .. Len(keys) : keys[y] = s[m]
    <3> HIDE DEF I, s, keys
    <3> QED BY <1>4, <2>7 DEF IsKept
  <2> QED BY <2>8, <2>9
<1> HIDE DEF keys
<1> QED BY <1>5, <1>6, <1>7 DEF InTurn, keys

LEMMA BatchFetchInv ==
  ASSUME IInv, Flights, FetchInv, StartBefore \/ StartAfter PROVE FetchInv'
<1>0. /\ at' = "settle" /\ at \in {"planned", "page"} /\ segment' \in {"before", "after"}
      /\ UNCHANGED <<node, expandedKeys, stopReason, cancelled, events, resolutions>>
      /\ todo' \in Seq(WalkEdges) /\ (PrefetchBatch(todo') \/ (~Open /\ UNCHANGED fetchVars))
  BY DEF StartBefore, StartAfter, IInv, NodesOK, PlanOK, Position, toldVars, stopVars, Open, PrefetchBatch, fetchVars
<1>1. CASE ~Open /\ UNCHANGED fetchVars
  BY <1>0, <1>1 DEF FetchInv, LookAhead, Used, Once, NotFailed, Open, fetchVars
<1>2. CASE PrefetchBatch(todo')
  <2> DEFINE edges == todo'
             keys == Prefetchable(edges)
  <2>1. PICK now : Started(pool \o keys, active, inFlight, Known, now)
    BY <1>0, <1>2, PrefetchParts DEF Flights
  <2> HIDE DEF edges
  <2>2. started' = [x \in Keys |-> started[x] + (IF x \in now \ inFlight THEN 1 ELSE 0)]
        /\ inFlight' = inFlight \cup now /\ active' = active \cup now
        /\ \A x \in now : x \notin Known /\ \E y \in 1 .. Len(pool \o keys) : (pool \o keys)[y] = x
    BY <2>1 DEF Started
  <2>3. started \in [Keys -> Nat]
    BY DEF IInv, FetchesOK
  <2>4. Once'
    <3> SUFFICES ASSUME ~cancelled, NEW x \in Keys
                 PROVE  started'[x] <= 1 /\ (started'[x] = 1 => resolutions'[x] # None \/ x \in inFlight')
      BY <1>0 DEF Once
    <3>1. started[x] \in Nat /\ started[x] <= 1 /\ (started[x] = 1 => resolutions[x] # None \/ x \in inFlight)
      BY <2>3 DEF FetchInv, Once
    <3>2. CASE x \in now \ inFlight
      <4>1. resolutions[x] = None
        BY <2>2, <3>2, NotKnown
      <4> QED BY <2>2, <3>1, <3>2, <4>1
    <3>3. CASE x \notin now \ inFlight
      <4>1. started'[x] = started[x]
        BY <2>2, <2>3, <3>3
      <4> QED BY <1>0, <2>2, <3>1, <4>1
    <3> QED BY <3>2, <3>3
  <2>5. ASSUME Open
        PROVE  /\ InTurn(todo', active', pool') /\ Covered(todo, active, pool)'
               /\ \A x \in Keys : started'[x] > 0 => Answered(x) \/ Due(todo', x)
    <3>1. active = {} /\ pool = <<>> /\ inFlight = {}
      BY <1>0, <2>5, NothingQueued DEF FetchInv, LookAhead, InBatch, Settling, IInv
    <3>2. edges \in Seq(WalkEdges)
      BY <1>0 DEF edges
    <3>3. keys \in Seq(Keys) /\ pool \o keys = keys
      <4>1. keys \in Seq(Keys)
        BY <3>2, PrefetchableTyped
      <4> QED BY <3>1, <4>1
    <3>4. /\ InTurn(edges, active, pool \o keys)
          /\ \A i \in 1 .. Len(edges) : Fetchable(edges[i]) =>
               edges[i].to \in Known \/ \E y \in 1 .. Len(pool \o keys) : (pool \o keys)[y] = edges[i].to
      BY <3>1, <3>2, <3>3, PrefetchableIs
    <3> HIDE DEF keys
    <3>5. InTurn(edges, active', pool')
      BY <2>1, <3>4, PumpInTurn
    <3>6. Covered(todo, active, pool)'
      <4>1. \A e : Fetchable(e)' <=> Fetchable(e)
        BY <1>0, SameAncestry
      <4>2. Known' = Known
        BY <1>0 DEF Known
      <4>3. \A y \in 1 .. Len(pool \o keys) :
              (pool \o keys)[y] \in Known \cup now \/ \E z \in 1 .. Len(pool') : pool'[z] = (pool \o keys)[y]
        BY <2>1 DEF Started
      <4>4. ASSUME NEW i \in 1 .. Len(edges), Fetchable(edges[i])
            PROVE  \/ edges[i].to \in Known \/ edges[i].to \in active'
                   \/ \E z \in 1 .. Len(pool') : pool'[z] = edges[i].to
        BY <2>2, <3>4, <4>3, <4>4
      <4> QED BY <4>1, <4>2, <4>4 DEF Covered, edges
    <3>7. ASSUME NEW x \in Keys, started'[x] > 0 PROVE Answered(x) \/ Due(edges, x)
      <4>1. CASE started[x] > 0
        BY <1>0, <2>5, <4>1 DEF FetchInv, Used, Settling
      <4>2. CASE ~(started[x] > 0)
        <5>1. x \in now
          BY <2>2, <2>3, <3>7, <4>2
        <5> QED BY <2>2, <3>4, <5>1 DEF InTurn
      <4> QED BY <4>1, <4>2
    <3> QED BY <3>5, <3>6, <3>7 DEF edges
  <2>6. LookAhead' /\ Used'
    <3> SUFFICES ASSUME Open
                 PROVE  /\ InTurn(todo, active, pool)' /\ Covered(todo, active, pool)'
                        /\ \A x \in Keys : started'[x] > 0 => Answered(x)' \/ (Settling' /\ Due(todo, x)')
      BY <1>0 DEF LookAhead, Used, Open, InBatch, Settling
    <3>1. Settling' /\ \A x \in Keys : (Answered(x)' <=> Answered(x)) /\ (Due(todo, x)' <=> Due(todo', x))
      BY <1>0, SameTurn DEF Answered, Settling
    <3>2. InTurn(todo, active, pool)'
      BY <1>0, <2>5, SameTurn
    <3> QED BY <2>5, <3>1, <3>2
  <2> QED BY <1>0, <2>4, <2>6 DEF FetchInv, NotFailed
<1> QED BY <1>0, <1>1, <1>2

\* In a batch, the edge whose turn it is was started, if it is not known yet.
LEMMA HeadIsStarted ==
  ASSUME IInv, Flights, FetchInv, Open, InBatch, todo # <<>>, Fetchable(Head(todo))
  PROVE  Head(todo).to \in Known \cup active
<1>0. Head(todo) = todo[1] /\ 1 \in 1 .. Len(todo) /\ Len(todo) \in Nat
  BY HeadOfTodo DEF IInv
<1>1. InTurn(todo, active, pool) /\ Covered(todo, active, pool)
  BY DEF FetchInv, LookAhead
<1>2. SUFFICES ASSUME NEW y \in 1 .. Len(pool), pool[y] = Head(todo).to PROVE FALSE
  BY <1>0, <1>1 DEF Covered
<1>3. pool # <<>>
  BY <1>2 DEF IInv, FetchesOK
<1>4. PICK a \in active : TRUE
  BY <1>3 DEF Flights, PoolFits
<1>5. Ahead(todo, a, pool[y])
  BY <1>1 DEF InTurn
<1>6. PICK j \in 1 .. Len(todo) : j < 1
  BY <1>0, <1>2, <1>5 DEF Ahead
<1> QED BY <1>0, <1>6

LEMMA LookUpFetchInv ==
  ASSUME IInv, Flights, FetchInv, LookUp PROVE FetchInv'
<1> DEFINE k == Head(todo).to
<1>0. /\ at = "settle" /\ at' = "await" /\ todo # <<>> /\ Fate(Head(todo)) = "lookup"
      /\ UNCHANGED <<todo, node, segment, expandedKeys, stopReason, cancelled, events, resolutions, pool, active>>
      /\ IF k \in Known \cup inFlight THEN UNCHANGED <<inFlight, started>>
         ELSE inFlight' = inFlight \cup {k} /\ started' = [started EXCEPT ![k] = @ + 1]
  BY DEF LookUp, nodeVars, toldVars, stopVars
<1>1. Head(todo) = todo[1] /\ 1 \in 1 .. Len(todo) /\ k \in Keys
  BY <1>0, HeadOfTodo DEF IInv
<1>2. stopReason # "budget" /\ Fetchable(Head(todo))
  BY <1>0, FateIs DEF IInv
<1>3. Due(todo, k)
  BY <1>1, <1>2 DEF Due
<1>4. started \in [Keys -> Nat]
  BY DEF IInv, FetchesOK
<1> HIDE DEF k
<1>5. \A x \in Keys : x # k => started'[x] = started[x]
  BY <1>0, <1>4
<1>6. Once'
  <2> SUFFICES ASSUME ~cancelled, NEW x \in Keys
               PROVE  started'[x] <= 1 /\ (started'[x] = 1 => resolutions'[x] # None \/ x \in inFlight')
    BY <1>0 DEF Once
  <2>1. started[x] \in Nat /\ started[x] <= 1 /\ (started[x] = 1 => resolutions[x] # None \/ x \in inFlight)
    BY <1>4 DEF FetchInv, Once
  <2>2. CASE k \in Known \cup inFlight
    BY <1>0, <2>1, <2>2
  <2>3. CASE k \notin Known \cup inFlight /\ x = k
    <3>1. resolutions[x] = None
      BY <2>3, NotKnown
    <3> QED BY <1>0, <1>4, <2>1, <2>3, <3>1
  <2>4. CASE k \notin Known \cup inFlight /\ x # k
    BY <1>0, <1>5, <2>1, <2>4
  <2> QED BY <2>2, <2>3, <2>4
<1>7. LookAhead' /\ Used'
  <2>1. \A e : Fetchable(e)' <=> Fetchable(e)
    BY <1>0, SameAncestry
  <2>2. Known' = Known
    BY <1>0 DEF Known
  <2>3. InTurn(todo, active, pool) => InTurn(todo, active, pool)'
    BY <1>0, SameTurn
  <2>4. Covered(todo, active, pool) => Covered(todo, active, pool)'
    BY <1>0, <2>1, <2>2 DEF Covered
  <2>5. \A x : (Answered(x)' <=> Answered(x)) /\ (Due(todo, x)' <=> Due(todo, x))
    BY <1>0, SameTurn DEF Answered
  <2>6. LookAhead'
    BY <1>0, <2>3, <2>4 DEF FetchInv, LookAhead, Open, InBatch, Settling
  <2>7. Used'
    <3> SUFFICES ASSUME Open, NEW x \in Keys, started'[x] > 0 PROVE Answered(x) \/ Due(todo, x)
      BY <1>0, <2>5 DEF Used, Open, Settling
    <3>1. CASE x = k
      BY <1>3, <3>1
    <3>2. CASE x # k
      BY <1>5, <3>2 DEF FetchInv, Used
    <3> QED BY <3>1, <3>2
  <2> QED BY <2>6, <2>7
<1>8. NotFailed'
  BY <1>0 DEF NotFailed
<1> QED BY <1>6, <1>7, <1>8 DEF FetchInv

-----------------------------------------------------------------------------
(* An edge leaves the list: the others keep their turn.                    *)

\* The step drops the head of the list, and no edge that is due to k.
Spared(k) ==
  /\ ~(Fetchable(Head(todo)) /\ Head(todo).to = k)
  /\ \A e : e.to = k => (Fetchable(e)' <=> Fetchable(e))

LEMMA DropDue ==
  ASSUME NodesOK, todo # <<>>, todo' = Tail(todo), NEW k, Spared(k), Due(todo, k) PROVE Due(todo, k)'
<1>0. /\ Head(todo) = todo[1] /\ Len(todo) \in Nat /\ Len(todo') = Len(todo) - 1
      /\ \A i \in 1 .. Len(todo') : todo'[i] = todo[i + 1]
  BY HeadOfTodo
<1>1. PICK i \in 1 .. Len(todo) : Fetchable(todo[i]) /\ todo[i].to = k
  BY DEF Due
<1>2. i # 1
  BY <1>0, <1>1 DEF Spared
<1>3. i - 1 \in 1 .. Len(todo') /\ todo'[i - 1] = todo[i]
  BY <1>0, <1>1, <1>2
<1>4. Fetchable(todo[i - 1])'
  BY <1>1, <1>3 DEF Spared
<1> QED BY <1>1, <1>3, <1>4 DEF Due

LEMMA DropAhead ==
  ASSUME NodesOK, todo # <<>>, todo' = Tail(todo), NEW a, NEW b, Spared(a), Spared(b), Ahead(todo, a, b)
  PROVE  Ahead(todo, a, b)'
<1>0. /\ Head(todo) = todo[1] /\ Len(todo) \in Nat /\ Len(todo') = Len(todo) - 1
      /\ \A i \in 1 .. Len(todo') : todo'[i] = todo[i + 1]
  BY HeadOfTodo
<1>1. ASSUME NEW i \in 1 .. Len(todo'), Fetchable(todo[i])', todo'[i].to = b
      PROVE  \E j \in 1 .. Len(todo') : j < i /\ Fetchable(todo[j])' /\ todo'[j].to = a
  <2>1. i + 1 \in 1 .. Len(todo) /\ todo'[i] = todo[i + 1]
    BY <1>0
  <2>2. Fetchable(todo[i + 1]) /\ todo[i + 1].to = b
    BY <1>1, <2>1 DEF Spared
  <2>3. PICK j \in 1 .. Len(todo) : j < i + 1 /\ Fetchable(todo[j]) /\ todo[j].to = a
    BY <2>1, <2>2 DEF Ahead
  <2>4. j # 1
    BY <1>0, <2>3 DEF Spared
  <2>5. j - 1 \in 1 .. Len(todo') /\ j - 1 < i /\ todo'[j - 1] = todo[j]
    BY <1>0, <2>3, <2>4
  <2>6. Fetchable(todo[j - 1])'
    BY <2>3, <2>5 DEF Spared
  <2> QED BY <2>3, <2>5, <2>6
<1> QED BY <1>1 DEF Ahead

LEMMA DropInTurn ==
  ASSUME NodesOK, todo # <<>>, todo' = Tail(todo), UNCHANGED <<active, pool>>, InTurn(todo, active, pool),
         \A k \in active : Spared(k), \A y \in 1 .. Len(pool) : Spared(pool[y])
  PROVE  InTurn(todo, active, pool)'
<1>1. /\ \A k \in active : Due(todo, k)
      /\ \A y \in 1 .. Len(pool) : Due(todo, pool[y])
      /\ \A a \in active : \A y \in 1 .. Len(pool) : Ahead(todo, a, pool[y])
      /\ \A x, y \in 1 .. Len(pool) : x < y => Ahead(todo, pool[x], pool[y])
  BY DEF InTurn
<1>2. (\A k \in active : Due(todo, k)') /\ \A y \in 1 .. Len(pool) : Due(todo, pool[y])'
  BY <1>1, DropDue
<1>3. \A a \in active : \A y \in 1 .. Len(pool) : Ahead(todo, a, pool[y])'
  BY <1>1, DropAhead
<1>4. \A x, y \in 1 .. Len(pool) : x < y => Ahead(todo, pool[x], pool[y])'
  BY <1>1, DropAhead
<1> QED BY <1>2, <1>3, <1>4 DEF InTurn

\* One edge fewer, whatever became of it: what is left is still covered.
LEMMA DropCovered ==
  ASSUME NodesOK, todo # <<>>, todo' = Tail(todo), UNCHANGED <<resolutions, active, pool>>,
         Covered(todo, active, pool),
         \A e : Fetchable(e)' => Fetchable(e)
  PROVE  Covered(todo, active, pool)'
<1>0. /\ Len(todo) \in Nat /\ Len(todo') = Len(todo) - 1
      /\ \A i \in 1 .. Len(todo') : todo'[i] = todo[i + 1]
  BY HeadOfTodo
<1>1. Known' = Known
  BY DEF Known
<1>2. ASSUME NEW i \in 1 .. Len(todo'), Fetchable(todo[i])'
      PROVE  \/ todo'[i].to \in Known \/ todo'[i].to \in active
             \/ \E y \in 1 .. Len(pool) : pool[y] = todo'[i].to
  <2>1. i + 1 \in 1 .. Len(todo) /\ todo'[i] = todo[i + 1] /\ Fetchable(todo[i + 1])
    BY <1>0, <1>2
  <2> QED BY <2>1 DEF Covered
<1> QED BY <1>1, <1>2 DEF Covered

LEMMA BlockedFetchInv ==
  ASSUME IInv, Flights, FetchInv, Blocked PROVE FetchInv'
<1>0. /\ at = "settle" /\ todo # <<>> /\ todo' = Tail(todo) /\ Onwards /\ Fate(Head(todo)) # "lookup"
      /\ Tells(<<EdgeEvent("edge", Head(todo), Fate(Head(todo)), "none")>>)
      /\ UNCHANGED <<node, segment, expandedKeys, stopReason, cancelled, resolutions, pool, active, inFlight, started>>
  BY DEF Blocked, fetchVars, stopVars
<1>1. Once' /\ NotFailed'
  BY <1>0 DEF FetchInv, Once, NotFailed, Onwards
<1>2. CASE ~Open
  BY <1>0, <1>1, <1>2 DEF FetchInv, LookAhead, Used, Open
<1>3. CASE Open
  <2>0. \A e : Fetchable(e)' <=> Fetchable(e)
    BY <1>0, SameAncestry
  <2>1. \A k : Spared(k)
    BY <1>0, <1>3, <2>0, FateIs DEF Spared, Open, IInv
  <2>2. InBatch => InTurn(todo, active, pool)' /\ Covered(todo, active, pool)'
    BY <1>0, <1>3, <2>0, <2>1, DropInTurn, DropCovered DEF IInv, FetchInv, LookAhead
  <2>3. LookAhead'
    BY <1>0, <1>3, <2>2 DEF FetchInv, LookAhead, InBatch, Settling, Onwards
  <2>4. Used'
    <3>0. <<EdgeEvent("edge", Head(todo), Fate(Head(todo)), "none")>> \in Seq(Events)
      <4>1. Head(todo) \in WalkEdges /\ Fate(Head(todo)) \in Outcomes
        BY <1>0, FateIs, HeadOfTodo DEF IInv, Outcomes
      <4>2. EdgeEvent("edge", Head(todo), Fate(Head(todo)), "none") \in Events
        BY <4>1, EdgeTyped DEF IInv
      <4> QED BY <4>2, OneTold
    <3>1. ASSUME NEW x \in Keys, started[x] > 0 PROVE Answered(x)' \/ (Settling' /\ Due(todo, x)')
      <4>1. CASE Answered(x)
        BY <1>0, <3>0, <4>1, AnsweredKept DEF IInv
      <4>2. CASE ~Answered(x)
        <5>1. Due(todo, x)
          BY <1>3, <3>1, <4>2 DEF FetchInv, Used
        <5>2. Due(todo, x)'
          BY <1>0, <2>1, <5>1, DropDue DEF IInv
        <5>3. segment # "paging"
          <6>1. segment = "paging" => Len(todo') = 0
            BY <1>0, HeadOfTodo DEF IInv, Position
          <6> QED BY <5>2, <6>1 DEF Due
        <5> QED BY <1>0, <5>2, <5>3 DEF Settling, Onwards
      <4> QED BY <4>1, <4>2
    <3> QED BY <1>0, <1>3, <3>1 DEF Used
  <2> QED BY <1>1, <2>3, <2>4 DEF FetchInv
<1> QED BY <1>2, <1>3

LEMMA SettledFetchInv ==
  ASSUME IInv, Flights, FetchInv, Settled PROVE FetchInv'
<1>1. PICK edge, o, list, n : SettledParts(edge, o, list, n)
  BY SettledIs
<1>0. /\ at = "await" /\ todo' = Tail(todo) /\ Onwards /\ todo # <<>>
      /\ UNCHANGED <<node, segment, cancelled, resolutions, pool, active, inFlight, started>>
  BY DEF Settled, IInv, Position, fetchVars
<1>2. /\ edge = Head(todo) /\ edge.to \in Keys /\ resolutions[edge.to] # None
      /\ Tells(list) /\ list \in Seq(Events) /\ o.status \in Answers \cup {"invalid"}
      /\ expandedKeys' = IF o.outcome = "expanded" THEN expandedKeys \cup {edge.to} ELSE expandedKeys
      /\ stopReason' \in {stopReason, "budget"}
  BY <1>1, WalkAssumption DEF SettledParts, Answers
<1>3. Once' /\ NotFailed'
  BY <1>0 DEF FetchInv, Once, NotFailed, Onwards
<1>4. CASE ~Open
  BY <1>0, <1>2, <1>3, <1>4 DEF FetchInv, LookAhead, Used, Open
<1>5. CASE Open
  <2>0. \A e : Fetchable(e)' => Fetchable(e)
    BY <1>0, <1>2 DEF Fetchable, OnAncestorPath
  <2>1. \A k : k # edge.to => Spared(k)
    BY <1>0, <1>2 DEF Spared, Fetchable, OnAncestorPath
  <2>2. (\A k \in active : k # edge.to) /\ \A y \in 1 .. Len(pool) : pool[y] # edge.to
    BY <1>2 DEF Flights
  <2>3. InBatch => InTurn(todo, active, pool)' /\ Covered(todo, active, pool)'
    BY <1>0, <1>5, <2>0, <2>1, <2>2, DropInTurn, DropCovered DEF IInv, FetchInv, LookAhead
  <2>4. LookAhead'
    BY <1>0, <1>2, <1>5, <2>3 DEF FetchInv, LookAhead, InBatch, Settling, Onwards
  <2>5. Answered(edge.to)'
    <3>1. /\ Len(list) \in Nat /\ Len(list) >= 1
          /\ list[1] = EdgeEvent("edge", edge, o.outcome, o.status)
      <4>1. CASE node.depth = 0
        BY <1>1, <4>1 DEF SettledParts
      <4>2. CASE node.depth # 0
        BY <1>1, <4>2 DEF SettledParts
      <4> QED BY <4>1, <4>2
    <3>2. list[1].told = "edge" /\ list[1].to = edge.to /\ list[1].status = o.status
      BY <3>1 DEF EdgeEvent
    <3>3. Len(events) + 1 \in 1 .. Len(events') /\ events'[Len(events) + 1] = list[1]
      BY <1>2, <3>1 DEF Tells, IInv, ToldOK
    <3>4. o.status # "none"
      BY <1>2 DEF Answers
    <3>5. DOMAIN events' = 1 .. Len(events')
      BY <1>2 DEF Tells, IInv, ToldOK
    <3> QED BY <3>2, <3>3, <3>4, <3>5 DEF Answered
  <2>6. Used'
    <3>1. ASSUME NEW x \in Keys, started[x] > 0 PROVE Answered(x)' \/ (Settling' /\ Due(todo, x)')
      <4>1. CASE Answered(x)
        BY <1>2, <4>1, AnsweredKept DEF IInv
      <4>2. CASE ~Answered(x) /\ x # edge.to
        <5>1. Due(todo, x)
          BY <1>5, <3>1, <4>2 DEF FetchInv, Used
        <5>2. Due(todo, x)'
          BY <1>0, <2>1, <4>2, <5>1, DropDue DEF IInv
        <5>3. segment # "paging"
          <6>1. segment = "paging" => Len(todo') = 0
            BY <1>0, HeadOfTodo DEF IInv, Position
          <6> QED BY <5>2, <6>1 DEF Due
        <5> QED BY <1>0, <5>2, <5>3 DEF Settling, Onwards
      <4> QED BY <2>5, <4>1, <4>2
    <3> QED BY <1>0, <3>1 DEF Used
  <2> QED BY <1>3, <2>4, <2>6 DEF FetchInv
<1> QED BY <1>4, <1>5

LEMMA StillFetchInv ==
  ASSUME FetchInv, UNCHANGED vars PROVE FetchInv'
<1>1. UNCHANGED <<at, todo, node, segment, expandedKeys, stopReason, cancelled, events, resolutions, pool, active,
                  inFlight, started>>
  BY DEF vars, nodeVars, fetchVars, toldVars, stopVars
<1>2. \A e : Fetchable(e)' <=> Fetchable(e)
  BY <1>1, SameAncestry
<1>3. (InTurn(todo, active, pool) => InTurn(todo, active, pool)') /\ \A k : Due(todo, k) <=> Due(todo, k)'
  BY <1>1, SameTurn
<1>4. Covered(todo, active, pool) => Covered(todo, active, pool)'
  BY <1>1, <1>2 DEF Covered, Known
<1>5. LookAhead'
  BY <1>1, <1>3, <1>4 DEF FetchInv, LookAhead, Open, InBatch, Settling
<1>6. Used'
  BY <1>1, <1>3 DEF FetchInv, Used, Open, Settling, Answered
<1>7. Once' /\ NotFailed'
  BY <1>1 DEF FetchInv, Once, NotFailed
<1> QED BY <1>5, <1>6, <1>7 DEF FetchInv

LEMMA InitFetchInv == Init => FetchInv
BY DEF Init, FetchInv, LookAhead, Used, Once, NotFailed, Open, InBatch, Settling

LEMMA StepFetchInv ==
  ASSUME IInv, Flights, FetchInv, [Next]_vars PROVE FetchInv'
<1>1. CASE \E k \in Keys : Settle(k)
  BY <1>1, SettleFetchInv
<1>2. CASE (\E k \in Keys : Reject(k)) \/ Cancel \/ RootRejected
  <2>1. cancelled'
    <3>1. CASE Cancel
      BY <3>1 DEF Cancel
    <3>2. CASE RootRejected \/ \E k \in Keys : Reject(k)
      <4>1. cancelled /\ cancelled' = cancelled
        BY <3>2, Zenon DEF Reject, RootRejected
      <4> QED BY <4>1
    <3> QED BY <1>2, <3>1, <3>2
  <2> QED BY <2>1, ClosedFetchInv
<1>3. CASE StartBefore \/ StartAfter
  BY <1>3, BatchFetchInv
<1>4. CASE RootResolves
  BY <1>4, RootFetchInv
<1>5. CASE LookUp
  BY <1>5, LookUpFetchInv
<1>6. CASE Blocked
  BY <1>6, BlockedFetchInv
<1>7. CASE Settled
  BY <1>7, SettledFetchInv
<1>8. CASE Visit \/ Finish \/ SegmentBeforeDone \/ PageItem \/ PageEnds \/ PageFails \/ PageStops \/ Close
  BY <1>8, QuietFetchInv
<1>9. CASE UNCHANGED vars
  BY <1>9, StillFetchInv
<1> QED BY <1>1, <1>2, <1>3, <1>4, <1>5, <1>6, <1>7, <1>8, <1>9 DEF Next, Generator

\* What the generator waits for alone, outside a batch, is all that is in flight.
LEMMA FlightBound ==
  ASSUME IInv, Flights, FetchInv, ~cancelled PROVE Cardinality(inFlight) <= FetchConcurrency
<1>1. Cardinality(active) <= FetchConcurrency /\ IsFiniteSet(active)
  BY WalkAssumption, FS_Subset DEF Flights, PoolFits, IInv, FetchesOK
<1>2. CASE at # "await"
  <2>1. inFlight = active
    BY <1>2 DEF Flights
  <2> QED BY <1>1, <2>1
<1>3. CASE at = "await"
  <2>1. Open /\ todo # <<>> /\ Fetchable(Head(todo))
    BY <1>3 DEF IInv, Position, Open
  <2>2. CASE InBatch
    <3>1. Head(todo).to \in Known \cup active
      BY <2>1, <2>2, HeadIsStarted
    <3>2. Head(todo).to \in inFlight => Head(todo).to \in active
      BY <3>1 DEF Flights, Known
    <3>3. inFlight = active
      BY <3>2 DEF Flights
    <3> QED BY <1>1, <3>3
  <2>3. CASE ~InBatch
    <3>1. active = {}
      BY <2>1, <2>3 DEF FetchInv, LookAhead
    <3>2. inFlight \subseteq {Head(todo).to}
      BY <3>1 DEF Flights
    <3>3. IsFiniteSet({Head(todo).to}) /\ Cardinality({Head(todo).to}) = 1
      BY FS_Singleton
    <3>4. Cardinality(inFlight) <= 1 /\ Cardinality(inFlight) \in Nat
      BY <3>2, <3>3, FS_Subset, FS_CardinalityType
    <3> QED BY <3>4, WalkAssumption
  <2> QED BY <2>2, <2>3
<1> QED BY <1>2, <1>3

LEMMA FetchesFollow ==
  ASSUME IInv, Flights, FetchInv PROVE FetchesAreUsed
<1> SUFFICES ASSUME ~cancelled
             PROVE  /\ \A k \in Keys : started[k] <= 1
                    /\ Cardinality(inFlight) <= FetchConcurrency
                    /\ at = "done" /\ stopReason = "none" =>
                         \A k \in Keys : started[k] > 0 =>
                           \E i \in DOMAIN events :
                             events[i].told = "edge" /\ events[i].to = k /\ events[i].status # "none"
  BY DEF FetchesAreUsed
<1>1. \A k \in Keys : started[k] <= 1
  BY DEF FetchInv, Once
<1>2. ASSUME at = "done", stopReason = "none", NEW k \in Keys, started[k] > 0 PROVE Answered(k)
  BY <1>2 DEF FetchInv, Used, Open, Settling
<1>3. DOMAIN events = 1 .. Len(events)
  BY DEF IInv, ToldOK
<1> QED BY <1>1, <1>2, <1>3, FlightBound DEF Answered

\* The types of the walk's state, and what the generator has in hand where.
THEOREM WalkTypes == Spec => [](IInv /\ Flights)
<1>1. Init => IInv /\ Flights
  BY InitTypes, InitFlights
<1>2. IInv /\ Flights /\ [Next]_vars => IInv' /\ Flights'
  BY StepTypes
<1> QED BY <1>1, <1>2, PTL DEF Spec

\* The pool fetches no target twice, never more of them than it may, and in a
\* walk that was not cut short nothing that no edge was told the answer of.
THEOREM FetchesAreUsedAlways == Spec => []FetchesAreUsed
<1>1. Init => IInv /\ Flights /\ FetchInv
  BY InitTypes, InitFlights, InitFetchInv
<1>2. IInv /\ Flights /\ FetchInv /\ [Next]_vars => IInv' /\ Flights' /\ FetchInv'
  BY StepTypes, StepFetchInv
<1>3. IInv /\ Flights /\ FetchInv => FetchesAreUsed
  BY FetchesFollow
<1> QED BY <1>1, <1>2, <1>3, PTL DEF Spec

-----------------------------------------------------------------------------
(* The end of an arrangement.                                              *)

LEMMA RankUnique ==
  ASSUME NEW R, NEW I, IsFiniteSet(I), Orders(R, I), NEW p \in I, NEW q \in I,
         Cardinality(Earlier(R, I, p)) = Cardinality(Earlier(R, I, q))
  PROVE  p = q
<1>1. Cardinality(Earlier(R, I, p)) \in Nat /\ Cardinality(Earlier(R, I, q)) \in Nat
  BY EarlierCount
<1>2. <<p, q>> \in R => Cardinality(Earlier(R, I, p)) < Cardinality(Earlier(R, I, q))
  BY EarlierGrows
<1>3. <<q, p>> \in R => Cardinality(Earlier(R, I, q)) < Cardinality(Earlier(R, I, p))
  BY EarlierGrows
<1> QED BY <1>1, <1>2, <1>3 DEF Orders

\* J is what comes last in I: everything else of I comes before all of it.
Trails(R, I, J) == J \subseteq I /\ \A i \in I \ J : \A j \in J : <<i, j>> \in R

LEMMA LastOrders ==
  ASSUME NEW R, NEW I, IsFiniteSet(I), Orders(R, I), NEW J, J \subseteq I
  PROVE  /\ IsFiniteSet(J) /\ Orders(R, J) /\ Cardinality(J) \in Nat
         /\ Cardinality(I) \in Nat /\ Cardinality(J) <= Cardinality(I)
         /\ IsFiniteSet(I \ J) /\ Cardinality(I \ J) = Cardinality(I) - Cardinality(J)
<1>1. IsFiniteSet(J) /\ Cardinality(J) <= Cardinality(I)
  BY FS_Subset
<1>2. Cardinality(J) \in Nat /\ Cardinality(I) \in Nat
  BY <1>1, FS_CardinalityType
<1>3. Orders(R, J)
  BY DEF Orders
<1>4. IsFiniteSet(I \ J) /\ Cardinality(I \ J) = Cardinality(I) - Cardinality(I \cap J)
  BY FS_Difference, FS_Subset
<1>5. I \cap J = J
  OBVIOUS
<1> QED BY <1>1, <1>2, <1>3, <1>4, <1>5

LEMMA LastPlaces ==
  ASSUME NEW R, NEW I, IsFiniteSet(I), Orders(R, I), NEW J, Trails(R, I, J),
         NEW n \in 1 .. Cardinality(J)
  PROVE  /\ Cardinality(I) - Cardinality(J) + n \in 1 .. Cardinality(I)
         /\ Place(R, J, n) = Place(R, I, Cardinality(I) - Cardinality(J) + n)
<1> DEFINE D == I \ J
           d == Cardinality(I) - Cardinality(J)
           p == Place(R, J, n)
           q == Place(R, I, d + n)
<1>1. /\ IsFiniteSet(J) /\ Orders(R, J) /\ Cardinality(J) \in Nat
      /\ Cardinality(I) \in Nat /\ Cardinality(J) <= Cardinality(I)
      /\ IsFiniteSet(D) /\ Cardinality(D) = d
  BY LastOrders DEF Trails
<1>2. d + n \in 1 .. Cardinality(I) /\ d \in Nat /\ d + n - 1 = d + (n - 1)
  BY <1>1
<1>3. p \in J /\ Cardinality(Earlier(R, J, p)) = n - 1
  BY <1>1, PlaceIs
<1>4. q \in I /\ Cardinality(Earlier(R, I, q)) = d + n - 1
  <2> HIDE DEF d
  <2> QED BY <1>2, PlaceIs
<1>5. Earlier(R, I, p) = D \cup Earlier(R, J, p) /\ D \cap Earlier(R, J, p) = {}
  <2> HIDE DEF p
  <2> QED BY <1>3 DEF Earlier, Trails
<1>6. Cardinality(Earlier(R, I, p)) = d + (n - 1)
  <2> DEFINE E == Earlier(R, J, p)
  <2>1. IsFiniteSet(E) /\ Cardinality(E) = n - 1
    BY <1>1, <1>3, EarlierCount
  <2> HIDE DEF E, D, p
  <2>2. Cardinality(D \cup E) = Cardinality(D) + Cardinality(E) - Cardinality(D \cap E)
    BY <1>1, <2>1, FS_Union
  <2>3. Cardinality({}) = 0
    BY FS_EmptySet
  <2>4. Cardinality(D \cap E) = 0
    BY <1>5, <2>3 DEF E
  <2>5. Cardinality(Earlier(R, I, p)) = Cardinality(D \cup E)
    BY <1>5 DEF E
  <2> QED BY <1>1, <1>2, <2>1, <2>2, <2>4, <2>5
<1>7. p = q
  <2> HIDE DEF p, q, d
  <2>1. p \in I
    BY <1>3 DEF Trails
  <2> QED BY <1>2, <1>4, <1>6, <2>1, RankUnique
<1> QED BY <1>2, <1>7

Gives(s, I, S) == \A i \in I : s[i] \in S
IsArranged(a, s, R, I) ==
  /\ Len(a) = Cardinality(I)
  /\ \A n \in 1 .. Cardinality(I) : Place(R, I, n) \in I /\ a[n] = s[Place(R, I, n)]

LEMMA ArrangedAre ==
  ASSUME NEW S, NEW s, NEW R, NEW I, IsFiniteSet(I), Orders(R, I), Gives(s, I, S)
  PROVE  Arranged(s, I, R) \in Seq(S) /\ IsArranged(Arranged(s, I, R), s, R, I)
<1>1. \A i \in I : s[i] \in S
  BY DEF Gives
<1>2. \A n \in 1 .. Cardinality(I) : Place(R, I, n) \in I
  BY PlaceIs
<1>3. Cardinality(I) \in Nat
  BY FS_CardinalityType
<1> DEFINE a == [n \in 1 .. Cardinality(I) |-> s[Place(R, I, n)]]
<1>4. a \in Seq(S) /\ Len(a) = Cardinality(I) /\ \A n \in 1 .. Cardinality(I) : a[n] = s[Place(R, I, n)]
  BY <1>1, <1>2, <1>3
<1>5. Arranged(s, I, R) = a
  BY ArrangedIs
<1> HIDE DEF a
<1> QED BY <1>2, <1>4, <1>5 DEF IsArranged

\* What comes last in I, arranged, ends what I is arranged as.
LEMMA LastArranged ==
  ASSUME NEW S, NEW s, NEW R, NEW I, IsFiniteSet(I), Orders(R, I), NEW J, Trails(R, I, J),
         Gives(s, I, S)
  PROVE  Arranged(s, J, R) = SubSeq(Arranged(s, I, R), Cardinality(I) - Cardinality(J) + 1, Cardinality(I))
<1> DEFINE d == Cardinality(I) - Cardinality(J)
           a == Arranged(s, I, R)
           b == Arranged(s, J, R)
           c == SubSeq(a, d + 1, Cardinality(I))
<1>1. /\ IsFiniteSet(J) /\ Orders(R, J) /\ Cardinality(J) \in Nat
      /\ Cardinality(I) \in Nat /\ Cardinality(J) <= Cardinality(I)
  BY LastOrders DEF Trails
<1>2. /\ a \in Seq(S) /\ Len(a) = Cardinality(I)
      /\ \A n \in 1 .. Cardinality(I) : Place(R, I, n) \in I /\ a[n] = s[Place(R, I, n)]
  <2> HIDE DEF a
  <2>1. a \in Seq(S) /\ IsArranged(a, s, R, I)
    BY ArrangedAre DEF a
  <2> QED BY <2>1 DEF IsArranged
<1>3. /\ b \in Seq(S) /\ Len(b) = Cardinality(J)
      /\ \A n \in 1 .. Cardinality(J) : Place(R, J, n) \in J /\ b[n] = s[Place(R, J, n)]
  <2> HIDE DEF b
  <2>1. Gives(s, J, S)
    BY DEF Trails, Gives
  <2>2. b \in Seq(S) /\ IsArranged(b, s, R, J)
    BY <1>1, <2>1, ArrangedAre DEF b
  <2> QED BY <2>2 DEF IsArranged
<1>4. \A n \in 1 .. Cardinality(J) : d + n \in 1 .. Cardinality(I) /\ Place(R, J, n) = Place(R, I, d + n)
  BY LastPlaces
<1> HIDE DEF a, b
<1>5. /\ c \in Seq(S) /\ Len(c) = Cardinality(J)
      /\ \A n \in 1 .. Cardinality(J) : c[n] = a[d + n]
  <2>1. d \in Nat /\ d + 1 \in Nat /\ Cardinality(I) - (d + 1) + 1 = Cardinality(J)
    BY <1>1
  <2> HIDE DEF d
  <2>2. \A i \in d + 1 .. Cardinality(I) : a[i] \in S
    BY <1>1, <1>2, <2>1
  <2>3. /\ c \in Seq(S)
        /\ Len(c) = IF d + 1 <= Cardinality(I) THEN Cardinality(I) - (d + 1) + 1 ELSE 0
        /\ \A i \in 1 .. Cardinality(I) - (d + 1) + 1 : c[i] = a[d + 1 + i - 1]
    BY <1>1, <1>2, <2>1, <2>2, SubSeqProperties
  <2>4. Len(c) = Cardinality(J)
    BY <1>1, <2>1, <2>3
  <2>5. \A n \in 1 .. Cardinality(J) : c[n] = a[d + n]
    <3> SUFFICES ASSUME NEW n \in 1 .. Cardinality(J) PROVE c[n] = a[d + n]
      OBVIOUS
    <3>1. d + 1 + n - 1 = d + n
      BY <2>1
    <3> QED BY <2>1, <2>3, <3>1
  <2> QED BY <2>3, <2>4, <2>5
<1> HIDE DEF c, d
<1>6. \A n \in 1 .. Cardinality(J) : b[n] = c[n]
  BY <1>2, <1>3, <1>4, <1>5
<1>7. b = c
  BY <1>3, <1>5, <1>6
<1> QED BY <1>7 DEF b, c, a, d

-----------------------------------------------------------------------------
(* The items of the collections that are still to be read.                 *)

ItemAt(cs, x) == CollectionEdge(cs, x[1], x[2], 0)

LEMMA PlaceShape ==
  ASSUME NEW cs \in Seq(Collections), NEW x \in Places(cs)
  PROVE  /\ x = <<x[1], x[2]>> /\ x[1] \in 1 .. Len(cs) /\ x[2] \in 1 .. Len(cs[x[1]].pages)
         /\ cs[x[1]].pages \in Seq(Keys)
         /\ ItemAt(cs, x) \in WalkEdges /\ ItemAt(cs, x).of # 0
<1>1. PICK c \in DOMAIN cs : x \in {c} \X DOMAIN cs[c].pages
  BY DEF Places
<1>2. cs[c] \in Collections
  BY <1>1
<1>3. cs[c].pages \in Seq(Keys) /\ cs[c].declared \in STRING
  BY <1>2 DEF Collections
<1>4. x = <<x[1], x[2]>> /\ x[1] = c /\ x[2] \in DOMAIN cs[c].pages
  BY <1>1
<1>5. x[1] \in 1 .. Len(cs) /\ x[2] \in 1 .. Len(cs[x[1]].pages) /\ cs[x[1]].pages \in Seq(Keys)
  BY <1>1, <1>3, <1>4
<1>6. cs[x[1]].pages[x[2]] \in Keys /\ cs[x[1]].declared \in STRING /\ x[1] \in Nat /\ x[1] # 0
  BY <1>3, <1>4, <1>5
<1>7. ItemAt(cs, x) \in WalkEdges /\ ItemAt(cs, x).of # 0
  BY <1>6 DEF ItemAt, CollectionEdge, WalkEdges, Groups
<1> QED BY <1>4, <1>5, <1>7

LEMMA ItemsAre ==
  ASSUME NEW cs \in Seq(Collections), NEW c, NEW i
  PROVE  /\ From(cs, c, i) \subseteq Places(cs)
         /\ IsFiniteSet(From(cs, c, i)) /\ Orders(InReading(Places(cs)), From(cs, c, i))
         /\ Gives([y \in Places(cs) |-> ItemAt(cs, y)], From(cs, c, i), WalkEdges)
         /\ ItemsFrom(cs, c, i) = Arranged([y \in Places(cs) |-> ItemAt(cs, y)], From(cs, c, i), InReading(Places(cs)))
<1>1. From(cs, c, i) \subseteq Places(cs)
  BY DEF From
<1>2. ItemsFrom(cs, c, i) = Arranged([y \in Places(cs) |-> ItemAt(cs, y)], From(cs, c, i), InReading(Places(cs)))
  BY DEF ItemsFrom, ItemAt
<1>3. Gives([y \in Places(cs) |-> ItemAt(cs, y)], From(cs, c, i), WalkEdges)
  BY <1>1, PlaceShape DEF Gives
<1> QED BY <1>1, <1>2, <1>3, ReadingOrders

LEMMA ItemsTyped ==
  ASSUME NEW cs \in Seq(Collections), NEW c, NEW i
  PROVE  /\ ItemsFrom(cs, c, i) \in Seq(WalkEdges)
         /\ Len(ItemsFrom(cs, c, i)) = Cardinality(From(cs, c, i))
         /\ \A n \in 1 .. Len(ItemsFrom(cs, c, i)) : ItemsFrom(cs, c, i)[n].of # 0
<1> DEFINE s == [y \in Places(cs) |-> ItemAt(cs, y)]
           I == From(cs, c, i)
           R == InReading(Places(cs))
<1>1. /\ I \subseteq Places(cs) /\ IsFiniteSet(I) /\ Orders(R, I) /\ Gives(s, I, WalkEdges)
      /\ ItemsFrom(cs, c, i) = Arranged(s, I, R)
  BY ItemsAre
<1>2. \A x \in I : s[x].of # 0
  <2>1. \A x \in I : s[x] = ItemAt(cs, x)
    BY <1>1
  <2> HIDE DEF s, I, R
  <2> QED BY <1>1, <2>1, PlaceShape
<1> HIDE DEF s, I, R
<1>3. /\ Arranged(s, I, R) \in Seq(WalkEdges) /\ Len(Arranged(s, I, R)) = Cardinality(I)
      /\ \A n \in 1 .. Cardinality(I) : Place(R, I, n) \in I /\ Arranged(s, I, R)[n] = s[Place(R, I, n)]
  <2>1. Arranged(s, I, R) \in Seq(WalkEdges) /\ IsArranged(Arranged(s, I, R), s, R, I)
    BY <1>1, ArrangedAre
  <2> QED BY <2>1 DEF IsArranged
<1>4. Cardinality(I) = Cardinality(From(cs, c, i))
  BY DEF I
<1> QED BY <1>1, <1>2, <1>3, <1>4

\* Going on later drops the first items, whatever lies between.
LEMMA ItemsLater ==
  ASSUME NEW cs \in Seq(Collections), NEW c \in Nat, NEW i \in Nat, NEW d \in Nat, NEW j \in Nat,
         c < d \/ (c = d /\ i <= j)
  PROVE  /\ From(cs, d, j) \subseteq From(cs, c, i)
         /\ Cardinality(From(cs, d, j)) \in Nat /\ Cardinality(From(cs, c, i)) \in Nat
         /\ Cardinality(From(cs, d, j)) <= Cardinality(From(cs, c, i))
         /\ ItemsFrom(cs, d, j) =
              SubSeq(ItemsFrom(cs, c, i), Cardinality(From(cs, c, i)) - Cardinality(From(cs, d, j)) + 1,
                     Cardinality(From(cs, c, i)))
<1> DEFINE s == [y \in Places(cs) |-> ItemAt(cs, y)]
           I == From(cs, c, i)
           J == From(cs, d, j)
           R == InReading(Places(cs))
<1>1. /\ I \subseteq Places(cs) /\ IsFiniteSet(I) /\ Orders(R, I) /\ Gives(s, I, WalkEdges)
      /\ ItemsFrom(cs, c, i) = Arranged(s, I, R)
  BY ItemsAre
<1>2. ItemsFrom(cs, d, j) = Arranged(s, J, R)
  BY ItemsAre
<1>3. \A x \in Places(cs) : x[1] \in Nat /\ x[2] \in Nat
  BY PlaceShape
<1>4. \A x \in Places(cs) : (x \in I <=> x[1] > c \/ (x[1] = c /\ x[2] >= i))
                          /\ (x \in J <=> x[1] > d \/ (x[1] = d /\ x[2] >= j))
  BY DEF From
<1>5. J \subseteq Places(cs)
  BY DEF From
<1>6. \A x, y \in Places(cs) : <<x, y>> \in R <=> x[1] < y[1] \/ (x[1] = y[1] /\ x[2] < y[2])
  BY DEF InReading
<1> HIDE DEF s, I, J, R
<1>7. Trails(R, I, J)
  BY <1>1, <1>3, <1>4, <1>5, <1>6 DEF Trails
<1>8. J \subseteq I
  BY <1>7 DEF Trails
<1>9. Cardinality(J) \in Nat /\ Cardinality(I) \in Nat /\ Cardinality(J) <= Cardinality(I)
  BY <1>1, <1>8, LastOrders
<1>10. Arranged(s, J, R) = SubSeq(Arranged(s, I, R), Cardinality(I) - Cardinality(J) + 1, Cardinality(I))
  BY <1>1, <1>7, LastArranged
<1> DEFINE m == Cardinality(I)
           n == Cardinality(J)
<1>11. /\ J \subseteq I /\ n \in Nat /\ m \in Nat /\ n <= m
       /\ ItemsFrom(cs, d, j) = SubSeq(ItemsFrom(cs, c, i), m - n + 1, m)
  BY <1>1, <1>2, <1>8, <1>9, <1>10, Zenon
<1> QED BY <1>11, Zenon DEF I, J, m, n

\* A collection that is read on: its next item, and the others.
LEMMA ItemsNext ==
  ASSUME NEW cs \in Seq(Collections), NEW c \in 1 .. Len(cs), NEW i \in 1 .. Len(cs[c].pages)
  PROVE  ItemsFrom(cs, c, i) = <<CollectionEdge(cs, c, i, 0)>> \o ItemsFrom(cs, c, i + 1)
<1> DEFINE s == [y \in Places(cs) |-> ItemAt(cs, y)]
           x == <<c, i>>
           I == From(cs, c, i)
           J == From(cs, c, i + 1)
           R == InReading(Places(cs))
           a == ItemsFrom(cs, c, i)
           b == ItemsFrom(cs, c, i + 1)
<1>0. cs[c].pages \in Seq(Keys) /\ Len(cs) \in Nat /\ DOMAIN cs = 1 .. Len(cs)
  <2>1. cs[c] \in Collections
    OBVIOUS
  <2> QED BY <2>1 DEF Collections
<1>1. c \in Nat /\ i \in Nat /\ i + 1 \in Nat /\ DOMAIN cs[c].pages = 1 .. Len(cs[c].pages)
  BY <1>0
<1>2. x \in Places(cs) /\ x[1] = c /\ x[2] = i
  BY <1>0, <1>1 DEF Places
<1>3. \A y \in Places(cs) : y = <<y[1], y[2]>> /\ y[1] \in Nat /\ y[2] \in Nat
  BY PlaceShape
<1>4. x \in I /\ x \notin J /\ J = I \ {x}
  <2>1. \A y \in Places(cs) : (y \in I <=> y[1] > c \/ (y[1] = c /\ y[2] >= i))
                            /\ (y \in J <=> y[1] > c \/ (y[1] = c /\ y[2] >= i + 1))
    BY DEF From
  <2>2. I \subseteq Places(cs) /\ J \subseteq Places(cs)
    BY DEF From
  <2>3. \A y \in Places(cs) : y[1] = c /\ y[2] = i => y = x
    BY <1>3
  <2> HIDE DEF I, J, x
  <2>4. x \in I /\ x \notin J
    BY <1>1, <1>2, <2>1
  <2>5. \A y \in Places(cs) : y \in J <=> y \in I /\ y # x
    BY <1>1, <1>2, <1>3, <2>1, <2>3
  <2> QED BY <2>2, <2>4, <2>5
<1>5. /\ I \subseteq Places(cs) /\ IsFiniteSet(I) /\ Orders(R, I) /\ Gives(s, I, WalkEdges)
      /\ a = Arranged(s, I, R)
  BY ItemsAre
<1>6. /\ Cardinality(J) \in Nat /\ Cardinality(I) \in Nat
      /\ b = SubSeq(a, Cardinality(I) - Cardinality(J) + 1, Cardinality(I))
  <2>1. c = c /\ i <= i + 1
    BY <1>1
  <2> HIDE DEF I, J, a, b
  <2>2. /\ Cardinality(From(cs, c, i + 1)) \in Nat /\ Cardinality(From(cs, c, i)) \in Nat
        /\ ItemsFrom(cs, c, i + 1) =
              SubSeq(ItemsFrom(cs, c, i), Cardinality(From(cs, c, i)) - Cardinality(From(cs, c, i + 1)) + 1,
                     Cardinality(From(cs, c, i)))
    BY <1>1, <2>1, ItemsLater
  <2> QED BY <2>2, Zenon DEF I, J, a, b
<1>7. Cardinality(J) = Cardinality(I) - 1
  <2> HIDE DEF I, J, x
  <2> QED BY <1>4, <1>5, FS_RemoveElement
<1>8. /\ a \in Seq(WalkEdges) /\ Len(a) = Cardinality(I)
      /\ \A n \in 1 .. Cardinality(I) : Place(R, I, n) \in I /\ a[n] = s[Place(R, I, n)]
  <2> HIDE DEF s, I, R, a
  <2>1. a \in Seq(WalkEdges) /\ IsArranged(a, s, R, I)
    BY <1>5, ArrangedAre
  <2> QED BY <2>1 DEF IsArranged
<1>9. a[1] = CollectionEdge(cs, c, i, 0)
  <2>1. Earlier(R, I, x) = {}
    <3> SUFFICES ASSUME NEW y \in I, <<y, x>> \in R PROVE FALSE
      BY DEF Earlier
    <3>1. y \in Places(cs) /\ (y[1] > c \/ (y[1] = c /\ y[2] >= i))
      BY DEF From
    <3>2. y[1] < c \/ (y[1] = c /\ y[2] < i)
      BY <1>2 DEF InReading
    <3> QED BY <1>1, <1>3, <3>1, <3>2
  <2>2. Cardinality(Earlier(R, I, x)) = 0
    BY <2>1, FS_EmptySet
  <2>3. 1 \in 1 .. Cardinality(I)
    BY <1>6, <1>7
  <2> HIDE DEF I, R, s, a, x
  <2>4. Place(R, I, 1) \in I /\ Cardinality(Earlier(R, I, Place(R, I, 1))) = 1 - 1
    BY <1>5, <2>3, PlaceIs
  <2>5. Place(R, I, 1) = x
    BY <1>4, <1>5, <2>2, <2>4, RankUnique
  <2>6. a[1] = s[x]
    BY <1>8, <2>3, <2>5
  <2>7. s[x] = ItemAt(cs, x)
    BY <1>2 DEF s
  <2> QED BY <1>2, <2>6, <2>7 DEF ItemAt
<1>10. b = Tail(a)
  <2> HIDE DEF I, J, R, s, a, b
  <2>1. Len(a) \in Nat /\ Len(a) # 0 /\ Cardinality(I) - Cardinality(J) + 1 = 2
    BY <1>6, <1>7, <1>8
  <2>2. b = SubSeq(a, 2, Len(a))
    BY <1>6, <1>8, <2>1
  <2>3. a # <<>>
    BY <1>8, <2>1
  <2> QED BY <1>8, <2>2, <2>3, TailIsSubSeq
<1>11. a # <<>>
  <2> HIDE DEF I, J, R, s, a, b
  <2> QED BY <1>6, <1>7, <1>8
<1> HIDE DEF a, b
<1>12. a = <<a[1]>> \o b
  BY <1>8, <1>10, <1>11
<1> QED BY <1>9, <1>12 DEF a, b

\* A collection that is read to its end: the items of the next one.
LEMMA ItemsOver ==
  ASSUME NEW cs \in Seq(Collections), NEW c \in 1 .. Len(cs), NEW i \in Nat, i > Len(cs[c].pages)
  PROVE  ItemsFrom(cs, c, i) = ItemsFrom(cs, c + 1, 1)
<1>1. \A y \in Places(cs) : y[1] \in Nat /\ y[2] \in Nat /\ (y[1] = c => y[2] <= Len(cs[c].pages))
  <2> SUFFICES ASSUME NEW y \in Places(cs)
               PROVE  y[1] \in Nat /\ y[2] \in Nat /\ (y[1] = c => y[2] <= Len(cs[c].pages))
    OBVIOUS
  <2>1. y[1] \in 1 .. Len(cs) /\ y[2] \in 1 .. Len(cs[y[1]].pages)
    BY PlaceShape
  <2> QED BY <2>1
<1>2. Len(cs[c].pages) \in Nat /\ c \in Nat
  <2>1. cs[c] \in Collections
    OBVIOUS
  <2> QED BY <2>1 DEF Collections
<1>3. \A y \in Places(cs) : (y[1] > c \/ (y[1] = c /\ y[2] >= i)) <=> (y[1] > c + 1 \/ (y[1] = c + 1 /\ y[2] >= 1))
  <2> SUFFICES ASSUME NEW y \in Places(cs)
               PROVE  (y[1] > c \/ (y[1] = c /\ y[2] >= i)) <=> (y[1] > c + 1 \/ (y[1] = c + 1 /\ y[2] >= 1))
    OBVIOUS
  <2>1. y[2] \in 1 .. Len(cs[y[1]].pages)
    BY PlaceShape
  <2>2. y[2] >= 1
    BY <2>1
  <2> QED BY <1>1, <1>2, <2>2
<1>4. From(cs, c, i) = From(cs, c + 1, 1)
  BY <1>3 DEF From
<1> QED BY <1>4 DEF ItemsFrom

\* Behind the last collection nothing is left.
LEMMA NoItems ==
  ASSUME NEW cs \in Seq(Collections), NEW c \in Nat, c > Len(cs), NEW i
  PROVE  ItemsFrom(cs, c, i) = <<>>
<1>1. From(cs, c, i) = {}
  <2> SUFFICES ASSUME NEW y \in From(cs, c, i) PROVE FALSE
    OBVIOUS
  <2>1. y \in Places(cs) /\ y[1] >= c
    BY PlaceShape DEF From
  <2> QED BY <2>1, PlaceShape
<1>2. Len(ItemsFrom(cs, c, i)) = 0 /\ ItemsFrom(cs, c, i) \in Seq(WalkEdges)
  BY <1>1, ItemsTyped, FS_EmptySet
<1> QED BY <1>2

-----------------------------------------------------------------------------
(* Edges that are not told, as the consumer's walk counts them.            *)

LEMMA JoinedEnds ==
  ASSUME NEW S, NEW a \in Seq(S), NEW b \in Seq(S), a # <<>>
  PROVE  /\ a \o b \in Seq(S) /\ a \o b # <<>>
         /\ Head(a \o b) = Head(a) /\ Tail(a \o b) = Tail(a) \o b
<1>1. /\ Len(a) \in Nat /\ Len(b) \in Nat /\ Len(a) > 0
      /\ a \o b \in Seq(S) /\ Len(a \o b) = Len(a) + Len(b)
      /\ \A i \in 1 .. Len(a) + Len(b) : (a \o b)[i] = IF i <= Len(a) THEN a[i] ELSE b[i - Len(a)]
  OBVIOUS
<1>2. /\ Tail(a) \in Seq(S) /\ Len(Tail(a)) = Len(a) - 1
      /\ \A i \in 1 .. Len(Tail(a)) : Tail(a)[i] = a[i + 1]
  BY HeadTailProperties
<1>3. a \o b # <<>>
  BY <1>1
<1>4. /\ Tail(a \o b) \in Seq(S) /\ Len(Tail(a \o b)) = Len(a) + Len(b) - 1
      /\ \A i \in 1 .. Len(Tail(a \o b)) : Tail(a \o b)[i] = (a \o b)[i + 1]
  BY <1>1, <1>3, HeadTailProperties
<1>5. /\ Tail(a) \o b \in Seq(S) /\ Len(Tail(a) \o b) = Len(a) - 1 + Len(b)
      /\ \A i \in 1 .. Len(a) - 1 + Len(b) :
           (Tail(a) \o b)[i] = IF i <= Len(a) - 1 THEN Tail(a)[i] ELSE b[i - (Len(a) - 1)]
  BY <1>1, <1>2
<1>6. \A i \in 1 .. Len(a) + Len(b) - 1 : Tail(a \o b)[i] = (Tail(a) \o b)[i]
  BY <1>1, <1>2, <1>4, <1>5
<1>7. Tail(a \o b) = Tail(a) \o b
  <2> DEFINE u == Tail(a \o b)
             v == Tail(a) \o b
  <2>1. u \in Seq(S) /\ v \in Seq(S) /\ Len(u) = Len(v) /\ \A i \in 1 .. Len(u) : u[i] = v[i]
    BY <1>1, <1>4, <1>5, <1>6
  <2> HIDE DEF u, v
  <2>2. u = v
    BY <2>1
  <2> QED BY <2>2 DEF u, v
<1>8. Head(a \o b) = Head(a)
  BY <1>1, <1>3
<1> QED BY <1>1, <1>3, <1>7, <1>8

\* A sequence from a place on, past what comes in front of it.
LEMMA JoinedFrom ==
  ASSUME NEW S, NEW a \in Seq(S), NEW b \in Seq(S), NEW n \in 0 .. Len(a)
  PROVE  SubSeq(a \o b, n + 1, Len(a \o b)) = SubSeq(a, n + 1, Len(a)) \o b
<1> DEFINE u == SubSeq(a \o b, n + 1, Len(a \o b))
           w == SubSeq(a, n + 1, Len(a))
           v == w \o b
<1>1. /\ Len(a) \in Nat /\ Len(b) \in Nat /\ n \in Nat /\ n <= Len(a)
      /\ a \o b \in Seq(S) /\ Len(a \o b) = Len(a) + Len(b)
      /\ \A i \in 1 .. Len(a) + Len(b) : (a \o b)[i] = IF i <= Len(a) THEN a[i] ELSE b[i - Len(a)]
  OBVIOUS
<1>2. /\ w \in Seq(S) /\ Len(w) = Len(a) - n
      /\ \A i \in 1 .. Len(a) - n : w[i] = a[n + i]
  <2>1. \A i \in n + 1 .. Len(a) : a[i] \in S
    BY <1>1
  <2>2. /\ w \in Seq(S) /\ Len(w) = IF n + 1 <= Len(a) THEN Len(a) - (n + 1) + 1 ELSE 0
        /\ \A i \in 1 .. Len(a) - (n + 1) + 1 : w[i] = a[n + 1 + i - 1]
    BY <1>1, <2>1, SubSeqProperties
  <2>3. Len(a) - (n + 1) + 1 = Len(a) - n
    BY <1>1
  <2>4. \A i \in 1 .. Len(a) - n : n + 1 + i - 1 = n + i
    BY <1>1
  <2> HIDE DEF w
  <2>5. Len(w) = Len(a) - n
    <3>1. Len(a) \in Nat /\ n \in Nat /\ n <= Len(a)
      BY <1>1
    <3>2. Len(w) = IF n + 1 <= Len(a) THEN Len(a) - (n + 1) + 1 ELSE 0
      BY <2>2
    <3> QED BY <3>1, <3>2
  <2> QED BY <2>2, <2>3, <2>4, <2>5
<1>3. /\ u \in Seq(S) /\ Len(u) = Len(a) + Len(b) - n
      /\ \A i \in 1 .. Len(a) + Len(b) - n : u[i] = (a \o b)[n + i]
  <2> DEFINE c == a \o b
  <2>0. c \in Seq(S) /\ Len(c) = Len(a) + Len(b) /\ Len(c) \in Nat /\ n <= Len(c)
    BY <1>1
  <2> HIDE DEF c
  <2>1. \A i \in n + 1 .. Len(c) : c[i] \in S
    BY <1>1, <2>0
  <2>2. /\ SubSeq(c, n + 1, Len(c)) \in Seq(S)
        /\ Len(SubSeq(c, n + 1, Len(c))) = IF n + 1 <= Len(c) THEN Len(c) - (n + 1) + 1 ELSE 0
        /\ \A i \in 1 .. Len(c) - (n + 1) + 1 : SubSeq(c, n + 1, Len(c))[i] = c[n + 1 + i - 1]
    BY <1>1, <2>0, <2>1, SubSeqProperties
  <2>3. u = SubSeq(c, n + 1, Len(c))
    BY DEF c
  <2> HIDE DEF u
  <2>4. Len(u) = Len(c) - n
    BY <1>1, <2>0, <2>2, <2>3
  <2>5. ASSUME NEW i \in 1 .. Len(c) - n PROVE u[i] = c[n + i]
    <3>1. i \in 1 .. Len(c) - (n + 1) + 1 /\ n + 1 + i - 1 = n + i
      BY <1>1, <2>0
    <3> QED BY <2>2, <2>3, <3>1
  <2> QED BY <2>0, <2>2, <2>3, <2>4, <2>5 DEF c
<1> HIDE DEF w
<1>4. /\ v \in Seq(S) /\ Len(v) = Len(a) - n + Len(b)
      /\ \A i \in 1 .. Len(a) - n + Len(b) : v[i] = IF i <= Len(a) - n THEN w[i] ELSE b[i - (Len(a) - n)]
  <2>1. /\ v \in Seq(S) /\ Len(v) = Len(w) + Len(b)
        /\ \A i \in 1 .. Len(w) + Len(b) : v[i] = IF i <= Len(w) THEN w[i] ELSE b[i - Len(w)]
    BY <1>2, ConcatProperties
  <2>2. Len(w) = Len(a) - n
    BY <1>2
  <2> HIDE DEF v
  <2> QED BY <2>1, <2>2
<1> HIDE DEF u, v
<1>5. Len(u) = Len(v)
  BY <1>1, <1>3, <1>4
<1>6. ASSUME NEW i \in 1 .. Len(u) PROVE u[i] = v[i]
  <2>1. n + i \in 1 .. Len(a) + Len(b) /\ i \in 1 .. Len(a) - n + Len(b) /\ u[i] = (a \o b)[n + i]
    BY <1>1, <1>3
  <2>2. CASE i <= Len(a) - n
    BY <1>1, <1>2, <1>4, <2>1, <2>2
  <2>3. CASE ~(i <= Len(a) - n)
    <3>1. n + i - Len(a) = i - (Len(a) - n)
      BY <1>1
    <3> QED BY <1>1, <1>4, <2>1, <2>3, <3>1
  <2> QED BY <2>2, <2>3
<1>7. u = v
  <2>1. u \in Seq(S) /\ v \in Seq(S)
    BY <1>3, <1>4
  <2> QED BY <1>5, <1>6, <2>1
<1> QED BY <1>7 DEF u, v, w

LEMMA EdgesJoined == \A a, b, c \in Seq(WalkEdges) : (a \o b) \o c = a \o (b \o c)
<1> DEFINE S == WalkEdges
<1> HIDE DEF S
<1>1. \A a, b, c \in Seq(S) : (a \o b) \o c = a \o (b \o c)
  BY ConcatAssociative
<1> QED BY <1>1 DEF S

LEMMA UnnumberedIs ==
  ASSUME NEW e \in WalkEdges
  PROVE  /\ Unnumbered(e) \in WalkEdges
         /\ Unnumbered(e).to = e.to /\ Unnumbered(e).group = e.group /\ Unnumbered(e).declared = e.declared
         /\ Unnumbered(e).of = e.of
         /\ (IF Unnumbered(e).expandable THEN TRUE ELSE FALSE) = (IF e.expandable THEN TRUE ELSE FALSE)
         /\ Unnumbered(e).index = IF e.of = 0 THEN e.index ELSE 0
         /\ e.of = 0 => Unnumbered(e) = e
<1>1. CASE e.of = 0
  BY <1>1 DEF Unnumbered
<1>2. CASE e.of # 0
  BY <1>2 DEF Unnumbered, WalkEdges
<1> QED BY <1>1, <1>2

Unnumber(list) == [i \in DOMAIN list |-> Unnumbered(list[i])]

LEMMA UnnumberTyped ==
  ASSUME NEW list \in Seq(WalkEdges)
  PROVE  /\ Unnumber(list) \in Seq(WalkEdges) /\ Len(Unnumber(list)) = Len(list)
         /\ \A i \in 1 .. Len(list) : Unnumber(list)[i] = Unnumbered(list[i])
<1>1. \A i \in 1 .. Len(list) : Unnumbered(list[i]) \in WalkEdges
  BY UnnumberedIs
<1>2. DOMAIN list = 1 .. Len(list) /\ Len(list) \in Nat
  OBVIOUS
<1> QED BY <1>1, <1>2 DEF Unnumber

LEMMA UnnumberPlain ==
  ASSUME NEW list \in Seq(WalkEdges), \A i \in 1 .. Len(list) : list[i].of = 0
  PROVE  Unnumber(list) = list
<1>1. \A i \in 1 .. Len(list) : Unnumber(list)[i] = list[i]
  BY UnnumberTyped, UnnumberedIs
<1> QED BY <1>1, UnnumberTyped

LEMMA UnnumberTail ==
  ASSUME NEW list \in Seq(WalkEdges), list # <<>>
  PROVE  /\ Unnumber(list) # <<>> /\ Head(Unnumber(list)) = Unnumbered(Head(list))
         /\ Tail(Unnumber(list)) = Unnumber(Tail(list))
<1> DEFINE u == Unnumber(list)
           t == Tail(list)
           w == Unnumber(t)
<1>1. /\ u \in Seq(WalkEdges) /\ Len(u) = Len(list) /\ Len(list) \in Nat /\ Len(list) > 0
      /\ \A i \in 1 .. Len(list) : u[i] = Unnumbered(list[i])
  BY UnnumberTyped
<1>2. t \in Seq(WalkEdges) /\ Len(t) = Len(list) - 1 /\ \A i \in 1 .. Len(t) : t[i] = list[i + 1]
  BY HeadTailProperties
<1> HIDE DEF t
<1>3. w \in Seq(WalkEdges) /\ Len(w) = Len(t) /\ \A i \in 1 .. Len(t) : w[i] = Unnumbered(t[i])
  BY <1>2, UnnumberTyped
<1> HIDE DEF u, w
<1>4. u # <<>>
  BY <1>1
<1>5. Tail(u) \in Seq(WalkEdges) /\ Len(Tail(u)) = Len(u) - 1 /\ \A i \in 1 .. Len(Tail(u)) : Tail(u)[i] = u[i + 1]
  BY <1>1, <1>4, HeadTailProperties
<1>6. \A i \in 1 .. Len(w) : Tail(u)[i] = w[i]
  <2> SUFFICES ASSUME NEW i \in 1 .. Len(w) PROVE Tail(u)[i] = w[i]
    OBVIOUS
  <2>1. i \in 1 .. Len(t) /\ i + 1 \in 1 .. Len(list) /\ i \in 1 .. Len(Tail(u))
    BY <1>1, <1>2, <1>3, <1>5
  <2> QED BY <1>1, <1>2, <1>3, <1>5, <2>1
<1>7. Tail(u) = w
  <2>1. Len(Tail(u)) = Len(w)
    BY <1>1, <1>2, <1>3, <1>5
  <2>2. \A i \in 1 .. Len(Tail(u)) : Tail(u)[i] = w[i]
    BY <1>6, <2>1
  <2> QED BY <1>3, <1>5, <2>1, <2>2, SeqEqual
<1>8. Head(u) = Unnumbered(Head(list))
  BY <1>1, <1>4
<1> QED BY <1>4, <1>7, <1>8 DEF u, w, t

\* What is left behind the segment at hand.
Beyond == IF segment = "after" THEN <<>> ELSE ItemsLeft \o plan.after

LEMMA BeyondTyped ==
  ASSUME NodesOK
  PROVE  ItemsLeft \in Seq(WalkEdges) /\ plan.after \in Seq(WalkEdges) /\ Beyond \in Seq(WalkEdges)
<1>1. plan.collections \in Seq(Collections) /\ plan.after \in Seq(WalkEdges)
  BY DEF NodesOK, PlanOK
<1>2. ItemsLeft \in Seq(WalkEdges)
  BY <1>1, ItemsTyped DEF ItemsLeft
<1> QED BY <1>1, <1>2 DEF Beyond

LEMMA SegmentIs == Segment = Unnumber(todo)
BY DEF Segment, Unnumber

LEMMA RestIs ==
  ASSUME NodesOK, at \in {"settle", "await", "page", "failed"}
  PROVE  Rest = Unnumber(todo) \o Beyond
<1>1. Unnumber(todo) \in Seq(WalkEdges)
  BY UnnumberTyped DEF NodesOK
<1>2. ItemsLeft \in Seq(WalkEdges) /\ plan.after \in Seq(WalkEdges)
  BY BeyondTyped
<1>3. Rest = IF segment = "after" THEN Segment ELSE Segment \o ItemsLeft \o plan.after
  BY DEF Rest
<1>4. CASE segment = "after"
  <2>1. Unnumber(todo) \o <<>> = Unnumber(todo)
    BY <1>1
  <2> QED BY <1>3, <1>4, <2>1, SegmentIs DEF Beyond
<1>5. CASE segment # "after"
  <2>1. (Unnumber(todo) \o ItemsLeft) \o plan.after = Unnumber(todo) \o (ItemsLeft \o plan.after)
    BY <1>1, <1>2, EdgesJoined, Zenon
  <2> QED BY <1>3, <1>5, <2>1, SegmentIs DEF Beyond
<1> QED BY <1>4, <1>5

LEMMA RestPlanned ==
  ASSUME NodesOK, at = "planned", segment = "before"
  PROVE  Rest = plan.before \o Beyond
<1>1. plan.before \in Seq(WalkEdges) /\ ItemsLeft \in Seq(WalkEdges) /\ plan.after \in Seq(WalkEdges)
  BY BeyondTyped DEF NodesOK, PlanOK
<1>2. Rest = plan.before \o ItemsLeft \o plan.after
  BY DEF Rest
<1>3. (plan.before \o ItemsLeft) \o plan.after = plan.before \o (ItemsLeft \o plan.after)
  BY <1>1, EdgesJoined, Zenon
<1> QED BY <1>2, <1>3 DEF Beyond

LEMMA RestNone == at \in {"root", "loop", "done"} => Rest = <<>>
BY DEF Rest

-----------------------------------------------------------------------------
(* What the refinement needs to know of the walk.                          *)

\* No edge of the list is an item of a collection.
Plain(list) == \A i \in 1 .. Len(list) : list[i].of = 0

AtRoot ==
  at = "root" => stopReason = "none" /\ plan = NoPlan /\ segment = "before" /\ page = NoPage /\ expandedKeys = {}

PlanInHand == at \in {"planned", "settle", "await", "page"} => plan = PlanOf(node.key)

\* What is numbered, and how: only the item at hand is one of a collection.
Numbered ==
  /\ segment # "paging" => Plain(todo)
  /\ segment = "paging" /\ todo # <<>> => todo[1].of # 0 /\ todo[1].index = page.index - 1
  /\ at = "planned" => page = NoPage

QueueResolved == \A i \in 1 .. Len(queue) : queue[i].expand => resolutions[queue[i].key] = "resolved"

\* What is known of a target that nobody claimed is its verdict, or a limit.
Honest == \A k \in Keys : k \in expandedKeys \/ resolutions[k] \in {None, "budget-exhausted", world.verdict[k]}

SeenInv == AtRoot /\ PlanInHand /\ Numbered /\ QueueResolved /\ Honest

LEMMA PlanPlain ==
  ASSUME world \in Worlds, NEW k \in Keys
  PROVE  Plain(PlanOf(k).before) /\ Plain(PlanOf(k).after)
<1> DEFINE edges == FoundOn(world, k).edges
           I == RankBefore(edges)
           J == DOMAIN edges \ I
           R == InSchedule(edges)
<1>1. edges \in Seq(Edges)
  BY WorldsAssumption
<1>2. PlanOf(k).before = Arranged(edges, I, R) /\ PlanOf(k).after = Arranged(edges, J, R)
  BY DEF PlanOf, BeforeCollections, AfterCollections
<1> HIDE DEF edges
<1>3. I \subseteq DOMAIN edges /\ J \subseteq DOMAIN edges /\ \A i \in DOMAIN edges : edges[i] \in Edges
  BY <1>1 DEF RankBefore
<1>4. \A e \in Edges : e.of = 0
  BY DEF Edges
<1> HIDE DEF I, J
<1>5. IsFiniteSet(I) /\ Orders(R, I) /\ IsFiniteSet(J) /\ Orders(R, J)
  BY <1>1, <1>3, ScheduleOrders
<1> HIDE DEF R
<1>6. Gives(edges, I, Edges) /\ Gives(edges, J, Edges)
  BY <1>3 DEF Gives
<1>7. Arranged(edges, I, R) \in Seq(Edges) /\ Arranged(edges, J, R) \in Seq(Edges)
  BY <1>5, <1>6, ArrangedAre
<1>8. \A s \in Seq(Edges) : Plain(s)
  <2> SUFFICES ASSUME NEW s \in Seq(Edges), NEW i \in 1 .. Len(s) PROVE s[i].of = 0
    BY DEF Plain
  <2>1. s[i] \in Edges
    OBVIOUS
  <2> QED BY <1>4, <2>1
<1> QED BY <1>2, <1>7, <1>8

LEMMA PlainTail ==
  ASSUME NEW list \in Seq(WalkEdges), list # <<>>, Plain(list)
  PROVE  Plain(Tail(list)) /\ Head(list).of = 0
<1>1. Len(Tail(list)) = Len(list) - 1 /\ \A i \in 1 .. Len(Tail(list)) : Tail(list)[i] = list[i + 1]
  BY HeadTailProperties
<1>2. Len(list) \in Nat /\ Len(list) > 0 /\ Head(list) = list[1]
  OBVIOUS
<1>3. \A i \in 1 .. Len(Tail(list)) : i + 1 \in 1 .. Len(list)
  BY <1>1, <1>2
<1> QED BY <1>1, <1>2, <1>3 DEF Plain

LEMMA HonestVerdict ==
  ASSUME NEW k \in Keys PROVE Verdict(k) \in {"budget-exhausted", world.verdict[k]}
BY DEF Verdict

LEMMA InitSeen == Init => SeenInv
<1> SUFFICES ASSUME Init PROVE SeenInv
  OBVIOUS
<1>1. AtRoot /\ PlanInHand /\ Numbered /\ Honest
  BY DEF Init, AtRoot, PlanInHand, Numbered, Plain, Honest
<1>2. QueueResolved
  BY DEF Init, QueueResolved
<1> QED BY <1>1, <1>2 DEF SeenInv

LEMMA SettleSeen ==
  ASSUME IInv, Flights, SeenInv, NEW k \in Keys, Settle(k) PROVE SeenInv'
<1>0. /\ k \in inFlight /\ resolutions[k] = None /\ resolutions' = [resolutions EXCEPT ![k] = Verdict(k)]
      /\ resolutions \in [Keys -> Answers \cup {None}]
      /\ UNCHANGED <<world, at, queue, node, plan, todo, page, segment, expandedKeys, stopReason>>
  BY DEF Settle, Flights, IInv, FetchesOK, nodeVars, toldVars, stopVars
<1>1. AtRoot' /\ PlanInHand' /\ Numbered'
  BY <1>0 DEF SeenInv, AtRoot, PlanInHand, PlanOf, Numbered, Plain
<1>2. Verdict(k) \in {"budget-exhausted", world.verdict[k]}
  BY HonestVerdict
<1>3. Honest'
  BY <1>0, <1>2 DEF SeenInv, Honest
<1>4. None # "resolved"
  BY WalkAssumption
<1>5. QueueResolved'
  <2>1. \A i \in 1 .. Len(queue) : queue[i].key \in Keys
    BY DEF IInv, NodesOK
  <2>2. \A j \in Keys : resolutions[j] = "resolved" => resolutions'[j] = "resolved"
    BY <1>0, <1>4
  <2> QED BY <1>0, <2>1, <2>2 DEF SeenInv, QueueResolved
<1> QED BY <1>1, <1>3, <1>5 DEF SeenInv

\* The steps that leave the plan and what is known alone.
LEMMA StillSeen ==
  ASSUME SeenInv, UNCHANGED <<world, node, plan, resolutions, expandedKeys>>,
         at' = "root" => at = "root" /\ UNCHANGED <<stopReason, segment, page>>,
         at' \in {"planned", "settle", "await", "page"} => at \in {"planned", "settle", "await", "page"},
         queue' = queue, Numbered'
  PROVE  SeenInv'
BY DEF SeenInv, AtRoot, PlanInHand, PlanOf, QueueResolved, Honest

LEMMA MoveSeen ==
  ASSUME IInv, SeenInv,
         Cancel \/ RootRejected \/ Finish \/ LookUp \/ (\E k \in Keys : Reject(k)) \/ UNCHANGED vars
  PROVE  SeenInv'
<1>1. UNCHANGED <<world, node, plan, resolutions, expandedKeys, queue, segment, page, todo, stopReason>>
  BY DEF Cancel, RootRejected, Finish, LookUp, Reject, vars, nodeVars, fetchVars, toldVars, stopVars
<1>2. at' = at \/ at' \in {"failed", "done"} \/ (at' = "await" /\ at = "settle")
  BY DEF Cancel, RootRejected, Finish, LookUp, Reject, vars
<1>3. Numbered'
  BY <1>1, <1>2 DEF SeenInv, Numbered, Plain
<1> QED BY <1>1, <1>2, <1>3, StillSeen

LEMMA PlanIsPlain ==
  ASSUME IInv, SeenInv, at \in {"planned", "settle", "await", "page"}
  PROVE  Plain(plan.before) /\ Plain(plan.after)
BY PlanPlain DEF IInv, InputOK, Position, SeenInv, PlanInHand

LEMMA BatchSeen ==
  ASSUME IInv, SeenInv, StartBefore \/ StartAfter PROVE SeenInv'
<1>1. UNCHANGED <<world, node, plan, resolutions, expandedKeys, queue>> /\ at' = "settle" /\ at \in {"planned", "page"}
  BY DEF StartBefore, StartAfter, PrefetchBatch, fetchVars, toldVars
<1>2. Plain(plan.before) /\ Plain(plan.after)
  BY <1>1, PlanIsPlain
<1>3. segment' # "paging" /\ (todo' = plan.before \/ todo' = plan.after)
  BY DEF StartBefore, StartAfter, IInv, Position
<1>4. Numbered'
  BY <1>1, <1>2, <1>3 DEF Numbered, Plain
<1> QED BY <1>1, <1>4, StillSeen

\* A told edge leaves the segment.
LEMMA ToldNumbered ==
  ASSUME IInv, SeenInv, at \in {"settle", "await"}, todo # <<>>, todo' = Tail(todo), Onwards,
         UNCHANGED <<segment, page>>
  PROVE  Numbered'
<1>1. todo \in Seq(WalkEdges)
  BY DEF IInv, NodesOK
<1>2. CASE segment = "paging"
  <2>1. Len(todo) = 1
    BY <1>2 DEF IInv, Position
  <2>2. Tail(todo) = <<>>
    BY <1>1, <2>1
  <2> QED BY <1>2, <2>2 DEF Numbered, Onwards
<1>3. CASE segment # "paging"
  <2>1. Plain(Tail(todo))
    BY <1>1, <1>3, PlainTail DEF SeenInv, Numbered
  <2> QED BY <1>3, <2>1 DEF Numbered, Onwards, Plain
<1> QED BY <1>2, <1>3

LEMMA BlockedSeen ==
  ASSUME IInv, SeenInv, Blocked PROVE SeenInv'
<1>1. /\ at = "settle" /\ todo # <<>> /\ todo' = Tail(todo) /\ Onwards
      /\ UNCHANGED <<world, node, plan, resolutions, expandedKeys, queue, segment, page, stopReason>>
  BY DEF Blocked, fetchVars, stopVars
<1>2. Numbered'
  BY <1>1, ToldNumbered
<1>3. at' \in {"page", "settle"}
  BY <1>1 DEF Onwards
<1> QED BY <1>1, <1>2, <1>3, StillSeen

LEMMA PagerSeen ==
  ASSUME IInv, SeenInv, SegmentBeforeDone \/ PageItem \/ PageEnds \/ PageFails \/ PageStops \/ Close PROVE SeenInv'
<1>1. /\ at \in {"settle", "page"} /\ todo = <<>>
      /\ UNCHANGED <<world, node, plan, resolutions, expandedKeys, queue>>
  BY DEF SegmentBeforeDone, PageItem, PageEnds, PageFails, PageStops, MorePages, Paging, Close, fetchVars, nodeVars,
         toldVars, IInv, Position
<1>2. at' \in {"settle", "page", "loop", "done"}
  BY DEF SegmentBeforeDone, PageItem, PageEnds, PageFails, PageStops, MorePages, Paging, Close
<1>3. Numbered'
  <2>1. CASE PageItem
    <3> DEFINE e == CollectionEdge(plan.collections, page.collection, page.position, page.index)
    <3>1. /\ todo' = <<e>> /\ segment' = segment /\ segment = "paging"
          /\ page' = [collection |-> page.collection, position |-> page.position + 1, index |-> page.index + 1]
          /\ page.collection > 0 /\ page.collection \in Nat /\ page.index \in Nat
      BY <2>1 DEF PageItem, MorePages, Paging, IInv, Position, NodesOK, PagingOK, Turn
    <3>2. e.of = page.collection /\ e.index = page.index
      BY DEF CollectionEdge
    <3>3. todo'[1] = e /\ page'.index = page.index + 1
      BY <3>1
    <3> HIDE DEF e
    <3> QED BY <1>2, <3>1, <3>2, <3>3 DEF Numbered
  <2>2. CASE ~PageItem
    <3>1. todo' = <<>>
      BY <1>1, <2>2 DEF SegmentBeforeDone, PageEnds, PageFails, PageStops, Close, nodeVars
    <3> QED BY <1>2, <3>1 DEF Numbered, Plain
  <2> QED BY <2>1, <2>2
<1> QED BY <1>1, <1>2, <1>3, StillSeen

LEMMA VisitSeen ==
  ASSUME IInv, SeenInv, Visit PROVE SeenInv'
<1> DEFINE n == Head(queue)
<1>0. /\ at = "loop" /\ queue # <<>> /\ node' = n /\ queue' = Tail(queue)
      /\ (plan' = PlanOf(n.key) /\ at' = "planned") \/ (plan' = NoPlan /\ at' = "loop")
      /\ segment' = "before" /\ todo' = <<>> /\ page' = NoPage
      /\ UNCHANGED <<world, resolutions, expandedKeys>>
  BY DEF Visit, fetchVars
<1>1. AtRoot' /\ Numbered' /\ Honest'
  BY <1>0 DEF SeenInv, AtRoot, Numbered, Plain, Honest
<1>2. PlanInHand'
  BY <1>0 DEF PlanInHand, PlanOf
<1>3. QueueResolved'
  <2>1. queue \in Seq(Nodes)
    BY DEF IInv, NodesOK
  <2>2. Len(Tail(queue)) = Len(queue) - 1 /\ \A i \in 1 .. Len(Tail(queue)) : Tail(queue)[i] = queue[i + 1]
    BY <1>0, <2>1, HeadTailProperties
  <2>3. Len(queue) \in Nat /\ \A i \in 1 .. Len(Tail(queue)) : i + 1 \in 1 .. Len(queue)
    BY <2>1, <2>2
  <2> QED BY <1>0, <2>2, <2>3 DEF SeenInv, QueueResolved
<1> QED BY <1>1, <1>2, <1>3 DEF SeenInv

LEMMA RootSeen ==
  ASSUME IInv, SeenInv, RootResolves PROVE SeenInv'
<1> DEFINE r == IF world.rootGiven THEN "resolved" ELSE Verdict(Root)
<1>0. /\ at = "root" /\ at' = "loop" /\ resolutions' = [resolutions EXCEPT ![Root] = r]
      /\ queue' = <<PendingRoot(r = "resolved")>>
      /\ expandedKeys' = IF r = "resolved" THEN {Root} ELSE {}
      /\ UNCHANGED <<world, segment, node, plan, todo, page>>
      /\ resolutions \in [Keys -> Answers \cup {None}] /\ Root \in Keys
  BY WalkAssumption DEF RootResolves, IInv, FetchesOK
<1>1. r = "resolved" \/ r \in {"budget-exhausted", world.verdict[Root]}
  BY <1>0, HonestVerdict
<1> HIDE DEF r
<1>2. AtRoot' /\ PlanInHand' /\ Numbered'
  BY <1>0 DEF SeenInv, AtRoot, PlanInHand, Numbered, Plain
<1>3. Honest'
  <2>1. todo = <<>> /\ resolutions'[Root] = r /\ \A k \in Keys : k # Root => resolutions'[k] = resolutions[k]
    BY <1>0 DEF IInv, Position
  <2>2. \A k \in Keys : resolutions[k] \in {None, "budget-exhausted", world.verdict[k]}
    BY <1>0 DEF SeenInv, Honest, AtRoot
  <2> QED BY <1>0, <1>1, <2>1, <2>2 DEF Honest
<1>4. QueueResolved'
  <2>1. /\ resolutions'[Root] = r /\ Len(queue') = 1 /\ queue'[1] = PendingRoot(r = "resolved")
    BY <1>0
  <2>2. PendingRoot(r = "resolved").key = Root /\ (PendingRoot(r = "resolved").expand => r = "resolved")
    BY DEF PendingRoot
  <2> QED BY <2>1, <2>2 DEF QueueResolved
<1> QED BY <1>2, <1>3, <1>4 DEF SeenInv

LEMMA SettledSeen ==
  ASSUME IInv, SeenInv, Settled PROVE SeenInv'
<1>1. PICK edge, o, list, n : SettledParts(edge, o, list, n)
  BY SettledIs
<1>0. /\ at = "await" /\ todo' = Tail(todo) /\ Onwards /\ todo # <<>>
      /\ UNCHANGED <<world, node, plan, page, segment, resolutions>>
  BY DEF Settled, IInv, Position, fetchVars
<1>2. Numbered'
  BY <1>0, ToldNumbered
<1>3. AtRoot' /\ PlanInHand'
  BY <1>0 DEF SeenInv, AtRoot, PlanInHand, PlanOf, Onwards
<1>4. Honest'
  <2>1. expandedKeys \subseteq expandedKeys'
    BY <1>1 DEF SettledParts
  <2> QED BY <1>0, <2>1 DEF SeenInv, Honest
<1>5. QueueResolved'
  <2>1. queue \in Seq(Nodes) /\ n \in Nodes /\ queue' = Append(queue, n)
    BY <1>1 DEF IInv, NodesOK, SettledParts
  <2>2. n.key = edge.to /\ (n.expand => o.outcome = "expanded")
    BY <1>1 DEF SettledParts
  <2>3. o.outcome = "expanded" => resolutions[edge.to] = "resolved"
    <3>1. o = Outcome(edge, resolutions[edge.to]) /\ resolutions[edge.to] \in Answers
      BY <1>1 DEF SettledParts
    <3> QED BY <3>1, OutcomeTyped
  <2>4. /\ Len(queue') = Len(queue) + 1 /\ Len(queue) \in Nat
        /\ \A i \in 1 .. Len(queue) : queue'[i] = queue[i]
        /\ queue'[Len(queue) + 1] = n
    BY <2>1
  <2>5. ASSUME NEW i \in 1 .. Len(queue'), queue'[i].expand PROVE resolutions'[queue'[i].key] = "resolved"
    <3>1. i \in 1 .. Len(queue) \/ i = Len(queue) + 1
      BY <2>4
    <3>2. CASE i \in 1 .. Len(queue)
      BY <1>0, <2>4, <2>5, <3>2 DEF SeenInv, QueueResolved
    <3>3. CASE i = Len(queue) + 1
      BY <1>0, <2>2, <2>3, <2>4, <2>5, <3>3
    <3> QED BY <3>1, <3>2, <3>3
  <2> QED BY <2>5 DEF QueueResolved
<1> QED BY <1>2, <1>3, <1>4, <1>5 DEF SeenInv

LEMMA StepSeen ==
  ASSUME IInv, Flights, SeenInv, [Next]_vars PROVE SeenInv'
<1>1. CASE \E k \in Keys : Settle(k)
  BY <1>1, SettleSeen
<1>2. CASE StartBefore \/ StartAfter
  BY <1>2, BatchSeen
<1>3. CASE RootResolves \/ Visit \/ Settled \/ Blocked
  BY <1>3, RootSeen, VisitSeen, SettledSeen, BlockedSeen
<1>4. CASE SegmentBeforeDone \/ PageItem \/ PageEnds \/ PageFails \/ PageStops \/ Close
  BY <1>4, PagerSeen
<1>5. CASE Cancel \/ RootRejected \/ Finish \/ LookUp \/ (\E k \in Keys : Reject(k)) \/ UNCHANGED vars
  BY <1>5, MoveSeen
<1> QED BY <1>1, <1>2, <1>3, <1>4, <1>5 DEF Next, Generator

-----------------------------------------------------------------------------
(* Every step is one of the walk that the consumer sees, or none.          *)

RestShape ==
  /\ NodesOK /\ at \in {"settle", "await", "page", "failed"} => Rest = Unnumber(todo) \o Beyond
  /\ NodesOK /\ at = "planned" /\ segment = "before" => Rest = plan.before \o Beyond
  /\ at \in {"root", "loop", "done"} => Rest = <<>>

LEMMA RestShaped == RestShape
BY RestIs, RestPlanned, RestNone DEF RestShape

LEMMA RestNext ==
  /\ NodesOK' /\ at' \in {"settle", "await", "page", "failed"} => Rest' = (Unnumber(todo) \o Beyond)'
  /\ NodesOK' /\ at' = "planned" /\ segment' = "before" => Rest' = (plan.before \o Beyond)'
  /\ at' \in {"root", "loop", "done"} => Rest' = <<>>
<1>1. RestShape'
  BY RestShaped, PTL
<1> QED BY <1>1 DEF RestShape

LEMMA SeenAs == NodeSeen.key = node.key /\ NodeSeen.depth = node.depth /\ NodeSeen.path = node.path
BY DEF NodeSeen, AsSeen

LEMMA SeenStutter ==
  ASSUME UNCHANGED <<world, queue, node, expandedKeys, emittedNodes, events, stopReason, incomplete>>,
         Phase' = Phase, Rest' = Rest, ItemsTold' = ItemsTold
  PROVE  UNCHANGED Seen!vars
BY DEF Seen!vars, QueueSeen, NodeSeen, AsSeen, Cut

LEMMA SeenInit == ASSUME Init PROVE Seen!Init
<1>1. at = "root" /\ Rest = <<>> /\ world \in Worlds
  BY DEF Init, Rest
<1>2. Phase = "root" /\ QueueSeen = <<>> /\ NodeSeen = Seen!NoNode /\ ItemsTold = 0 /\ ~Cut
  <2>1. QueueSeen = <<>>
    BY DEF Init, QueueSeen
  <2>2. Phase = "root" /\ NodeSeen = Seen!NoNode
    BY DEF Init, Phase, NodeSeen, AsSeen, NoNode, Seen!NoNode
  <2>3. ItemsTold = 0 /\ ~Cut
    BY DEF Init, ItemsTold, NoPage, Cut
  <2> QED BY <2>1, <2>2, <2>3
<1>3. expandedKeys = {} /\ emittedNodes = {} /\ events = <<>> /\ incomplete = FALSE
  BY DEF Init
<1>4. Cut = FALSE
  BY <1>2 DEF Cut
<1> QED BY <1>1, <1>2, <1>3, <1>4 DEF Seen!Init

\* The steps that the consumer sees nothing of because nothing moves.
LEMMA QuietSeen ==
  ASSUME UNCHANGED <<world, at, nodeVars, toldVars, stopVars>> PROVE UNCHANGED Seen!vars
<1>1. Phase' = Phase /\ Rest' = Rest /\ ItemsTold' = ItemsTold
  BY DEF Phase, Rest, ItemsTold, Segment, ItemsLeft, nodeVars
<1> QED BY <1>1, SeenStutter DEF nodeVars, toldVars, stopVars

LEMMA FailSeen ==
  ASSUME IInv, SeenInv, at' = "failed", at \in {"root", "await", "page"},
         UNCHANGED <<world, nodeVars, toldVars, stopVars>>
  PROVE  Seen!Fail
<1>1. Phase \in {"root", "visiting"} /\ Phase' = "failed"
  BY DEF Phase
<1>2. Rest' = Rest
  <2>1. CASE at \in {"await", "page"}
    BY <2>1 DEF Rest, Segment, ItemsLeft, nodeVars
  <2>2. CASE at = "root"
    <3>1. plan = NoPlan /\ todo = <<>> /\ page = NoPage /\ segment = "before"
      BY <2>2 DEF IInv, Position, SeenInv, AtRoot
    <3>2. ItemsFrom(<<>>, 1, 1) = <<>>
      <4> DEFINE cs == <<>>
      <4>1. cs \in Seq(Collections) /\ 1 > Len(cs)
        OBVIOUS
      <4> HIDE DEF cs
      <4>2. ItemsFrom(cs, 1, 1) = <<>>
        BY <4>1, NoItems
      <4> QED BY <4>2 DEF cs
    <3>3. ItemsLeft = <<>>
      BY <3>1, <3>2 DEF ItemsLeft, NoPlan, NoPage
    <3>4. Segment = <<>> /\ Segment' = Segment /\ ItemsLeft' = ItemsLeft /\ plan' = plan /\ segment' = segment
      BY <3>1 DEF Segment, ItemsLeft, nodeVars
    <3>5. <<>> \o <<>> \o plan.after = <<>>
      BY <3>1 DEF NoPlan
    <3>6. Rest' = <<>>
      BY <3>1, <3>3, <3>4, <3>5 DEF Rest
    <3> QED BY <2>2, <3>6 DEF Rest
  <2> QED BY <2>1, <2>2
<1>3. UNCHANGED <<world, QueueSeen, NodeSeen, ItemsTold, expandedKeys, emittedNodes, events, Cut, incomplete>>
  BY DEF QueueSeen, NodeSeen, AsSeen, ItemsTold, Cut, nodeVars, toldVars, stopVars
<1> QED BY <1>1, <1>2, <1>3 DEF Seen!Fail

LEMMA FinishSeen ==
  ASSUME IInv, Finish PROVE Seen!Finish
<1>1. at = "loop" /\ at' = "done" /\ queue = <<>> /\ UNCHANGED <<world, nodeVars, toldVars, stopVars>>
  BY DEF Finish
<1>2. Phase = "idle" /\ Phase' = "done" /\ QueueSeen = <<>>
  BY <1>1 DEF Phase, QueueSeen
<1>3. Rest = <<>> /\ Rest' = <<>>
  BY <1>1, RestNone, RestNext
<1>4. UNCHANGED <<world, QueueSeen, NodeSeen, ItemsTold, expandedKeys, emittedNodes, events, Cut, incomplete>>
  BY <1>1 DEF QueueSeen, NodeSeen, AsSeen, ItemsTold, Cut, nodeVars, toldVars, stopVars
<1> QED BY <1>2, <1>3, <1>4 DEF Seen!Finish

LEMMA CloseSeen ==
  ASSUME IInv, SeenInv, Close PROVE Seen!Close
<1>1. /\ at = "settle" /\ todo = <<>> /\ segment = "after"
      /\ events' = events \o [i \in DOMAIN plan.expansions |->
                     [told |-> "expansion", key |-> node.key, field |-> i, outcome |-> plan.expansions[i]]]
      /\ at' = IF stopReason = "budget" THEN "done" ELSE "loop"
      /\ UNCHANGED <<world, nodeVars, expandedKeys, emittedNodes, stopVars>>
  BY DEF Close, Tells
<1>2. Phase = "visiting" /\ Phase' = IF Cut THEN "done" ELSE "idle"
  BY <1>1 DEF Phase, Cut
<1>3. Rest = <<>> /\ Rest' = <<>>
  <2>1. Rest = <<>>
    BY <1>1 DEF Rest, Segment
  <2> QED BY <1>1, <2>1, RestNext
<1>4. FoundOn(world, NodeSeen.key).expansions = plan.expansions
  BY <1>1, SeenAs DEF SeenInv, PlanInHand, PlanOf
<1>5. events' = events \o [i \in DOMAIN FoundOn(world, NodeSeen.key).expansions |->
                    [told |-> "expansion", key |-> NodeSeen.key, field |-> i,
                     outcome |-> FoundOn(world, NodeSeen.key).expansions[i]]]
  BY <1>1, <1>4, SeenAs, Zenon
<1>6. UNCHANGED <<world, QueueSeen, NodeSeen, ItemsTold, expandedKeys, emittedNodes, Cut, incomplete>>
  BY <1>1 DEF QueueSeen, NodeSeen, AsSeen, ItemsTold, Cut, nodeVars, stopVars
<1> QED BY <1>2, <1>3, <1>5, <1>6, Zenon DEF Seen!Close

LEMMA BeginSeen ==
  ASSUME IInv, SeenInv, RootResolves PROVE \E answer \in Answers : Seen!Begin(answer)
<1> DEFINE r == IF world.rootGiven THEN "resolved" ELSE Verdict(Root)
<1>0. /\ at = "root" /\ at' = "loop" /\ queue' = <<PendingRoot(r = "resolved")>>
      /\ expandedKeys' = IF r = "resolved" THEN {Root} ELSE {}
      /\ stopReason' = IF r = "budget-exhausted" THEN "budget" ELSE stopReason
      /\ UNCHANGED <<world, segment, node, plan, todo, page, emittedNodes, events, incomplete>>
      /\ stopReason = "none"
  BY DEF RootResolves, SeenInv, AtRoot
<1>1. r \in IF world.rootGiven THEN {"resolved"} ELSE {world.verdict[Root], "budget-exhausted"}
  BY HonestVerdict, WalkAssumption
<1>2. r \in Answers
  BY VerdictTyped, WalkAssumption DEF IInv, Answers
<1> HIDE DEF r
<1>3. Phase = "root" /\ Phase' = "idle"
  BY <1>0 DEF Phase
<1>4. QueueSeen' = <<[key |-> Root, depth |-> 0, expand |-> r = "resolved", path |-> {}]>>
  <2> DEFINE p == PendingRoot(r = "resolved")
  <2>1. AsSeen(p) = [key |-> Root, depth |-> 0, expand |-> r = "resolved", path |-> {}]
    BY DEF AsSeen, PendingRoot
  <2>2. queue' = <<p>>
    BY <1>0
  <2> HIDE DEF p
  <2>3. QueueSeen' = [i \in DOMAIN queue' |-> AsSeen(queue'[i])]
    BY DEF QueueSeen, AsSeen
  <2>4. QueueSeen' = <<AsSeen(p)>>
    BY <2>2, <2>3
  <2> QED BY <2>1, <2>4, Zenon
<1>5. Cut' = (r = "budget-exhausted")
  BY <1>0 DEF Cut
<1>6. Rest' = Rest
  BY <1>0, RestNone, RestNext
<1>7. UNCHANGED <<world, NodeSeen, ItemsTold, emittedNodes, events, incomplete>>
  BY <1>0 DEF NodeSeen, AsSeen, ItemsTold
<1>8. Seen!Begin(r)
  BY <1>0, <1>1, <1>3, <1>4, <1>5, <1>6, <1>7, Zenon DEF Seen!Begin
<1> QED BY <1>2, <1>8

LEMMA VisitSeenAs ==
  ASSUME IInv, IInv', SeenInv, Visit PROVE Seen!Visit
<1> DEFINE n == Head(queue)
           expands == n.expand /\ resolutions[n.key] = "resolved"
<1>0. /\ at = "loop" /\ queue # <<>> /\ node' = n /\ queue' = Tail(queue)
      /\ plan' = (IF expands THEN PlanOf(n.key) ELSE NoPlan)
      /\ events' = events \o (IF n.key \in emittedNodes THEN <<>> ELSE <<[told |-> "node", key |-> n.key]>>)
      /\ emittedNodes' = emittedNodes \cup {n.key}
      /\ at' = (IF expands THEN "planned" ELSE "loop")
      /\ segment' = "before" /\ todo' = <<>> /\ page' = NoPage
      /\ UNCHANGED <<world, expandedKeys, stopReason, incomplete>>
  BY DEF Visit, Tells, stopVars
<1>1. /\ n = queue[1] /\ 1 \in 1 .. Len(queue) /\ n \in Nodes /\ queue \in Seq(Nodes)
      /\ n.key \in Keys
  BY <1>0 DEF IInv, NodesOK
<1>2. expands <=> n.expand
  BY <1>1 DEF SeenInv, QueueResolved
<1>3. Phase = "idle" /\ Phase' = IF n.expand THEN "visiting" ELSE "idle"
  BY <1>0, <1>2 DEF Phase
<1>4. /\ QueueSeen # <<>> /\ Head(QueueSeen) = AsSeen(n) /\ QueueSeen' = Tail(QueueSeen)
  <2> DEFINE t == Tail(queue)
             w == [i \in DOMAIN t |-> AsSeen(t[i])]
             S == [key : Keys \cup {None}, depth : Nat, expand : BOOLEAN, path : SUBSET Keys]
  <2>1. t \in Seq(Nodes) /\ Len(t) = Len(queue) - 1 /\ \A i \in 1 .. Len(t) : t[i] = queue[i + 1]
    BY <1>0, <1>1, HeadTailProperties
  <2>2. \A x \in Nodes : AsSeen(x) \in S
    BY DEF AsSeen, Nodes
  <2> HIDE DEF S, t
  <2>3. QueueSeen \in Seq(S) /\ Len(QueueSeen) = Len(queue) /\ Len(queue) \in Nat /\ Len(queue) > 0
        /\ \A i \in 1 .. Len(queue) : QueueSeen[i] = AsSeen(queue[i])
    BY <1>1, <2>2 DEF QueueSeen
  <2>4. w \in Seq(S) /\ Len(w) = Len(t) /\ \A i \in 1 .. Len(t) : w[i] = AsSeen(t[i])
    BY <2>1, <2>2
  <2>5. QueueSeen # <<>>
    BY <2>3
  <2>6. Tail(QueueSeen) \in Seq(S) /\ Len(Tail(QueueSeen)) = Len(QueueSeen) - 1
        /\ \A i \in 1 .. Len(Tail(QueueSeen)) : Tail(QueueSeen)[i] = QueueSeen[i + 1]
    BY <2>3, <2>5, HeadTailProperties
  <2>7. QueueSeen' = w
    <3>1. QueueSeen' = [i \in DOMAIN queue' |-> AsSeen(queue'[i])]
      BY DEF QueueSeen, AsSeen
    <3> QED BY <1>0, <3>1 DEF t
  <2> HIDE DEF w
  <2>8. \A i \in 1 .. Len(w) : w[i] = Tail(QueueSeen)[i]
    <3> SUFFICES ASSUME NEW i \in 1 .. Len(w) PROVE w[i] = Tail(QueueSeen)[i]
      OBVIOUS
    <3>1. i \in 1 .. Len(t) /\ i + 1 \in 1 .. Len(queue) /\ i \in 1 .. Len(Tail(QueueSeen))
      BY <2>1, <2>3, <2>4, <2>6
    <3> QED BY <2>1, <2>3, <2>4, <2>6, <3>1
  <2>9. w = Tail(QueueSeen)
    BY <2>1, <2>3, <2>4, <2>6, <2>8
  <2> QED BY <1>1, <2>3, <2>5, <2>7, <2>9
<1>5. NodeSeen' = AsSeen(n) /\ NodeSeen'.key = n.key /\ (NodeSeen'.expand <=> n.expand)
  <2>1. NodeSeen' = AsSeen(n)
    BY <1>0 DEF NodeSeen, AsSeen
  <2> QED BY <2>1 DEF AsSeen
<1>6. ItemsTold' = 0
  BY <1>0 DEF ItemsTold, NoPage
<1>7. IF n.expand THEN Rest' = ScheduleOf(world, n.key) ELSE Rest' = <<>>
  <2>1. CASE n.expand
    <3>1. at' = "planned" /\ segment' = "before" /\ plan' = PlanOf(n.key) /\ page' = NoPage
      BY <1>0, <1>2, <2>1
    <3>2. Rest' = plan'.before \o ItemsLeft' \o plan'.after
      BY <3>1 DEF Rest
    <3>3. ItemsLeft' = ItemsFrom(FoundOn(world, n.key).collections, 1, 1)
      <4>1. plan'.collections = FoundOn(world, n.key).collections /\ page'.collection = 1 /\ page'.position = 1
        BY <3>1 DEF PlanOf, NoPage
      <4>2. ItemsLeft' = ItemsFrom(plan'.collections, page'.collection, page'.position)
        BY DEF ItemsLeft
      <4> QED BY <4>1, <4>2, Zenon
    <3>4. /\ plan'.before = BeforeCollections(FoundOn(world, n.key).edges)
          /\ plan'.after = AfterCollections(FoundOn(world, n.key).edges)
      BY <3>1 DEF PlanOf
    <3>5. Rest' = ScheduleOf(world, n.key)
      BY <3>2, <3>3, <3>4, Zenon DEF ScheduleOf
    <3> QED BY <2>1, <3>5
  <2>2. CASE ~n.expand
    <3>1. at' = "loop"
      BY <1>0, <1>2, <2>2
    <3> QED BY <2>2, <3>1, RestNext
  <2> QED BY <2>1, <2>2
<1>8. UNCHANGED <<world, expandedKeys, Cut, incomplete>>
  BY <1>0 DEF Cut
<1> HIDE DEF n, expands
<1>9. /\ events' = events \o (IF NodeSeen'.key \in emittedNodes THEN <<>>
                               ELSE <<[told |-> "node", key |-> NodeSeen'.key]>>)
      /\ emittedNodes' = emittedNodes \cup {NodeSeen'.key}
  BY <1>0, <1>5, Zenon
<1>10. IF NodeSeen'.expand THEN Phase' = "visiting" /\ Rest' = ScheduleOf(world, NodeSeen'.key)
                           ELSE Phase' = "idle" /\ Rest' = <<>>
  BY <1>3, <1>5, <1>7, Zenon
<1> QED BY <1>3, <1>4, <1>5, <1>6, <1>8, <1>9, <1>10, Zenon DEF Seen!Visit

\* What is left, where the walk stands between two edges.
LEMMA NextUnnumber == ASSUME NEW list, todo' = list PROVE Unnumber(todo)' = Unnumber(list)
BY DEF Unnumber, Unnumbered

LEMMA NoneUnnumbered == Unnumber(<<>>) = <<>>
BY DEF Unnumber

LEMMA BeyondKept ==
  ASSUME UNCHANGED <<plan, page>>, segment' = "after" <=> segment = "after" PROVE Beyond' = Beyond
BY DEF Beyond, ItemsLeft

\* At the pager nothing is in hand.
LEMMA RestAtPage ==
  ASSUME IInv, at = "page"
  PROVE  todo = <<>> /\ segment = "paging" /\ Rest = ItemsLeft \o plan.after /\ Beyond = ItemsLeft \o plan.after
<1>1. todo = <<>> /\ segment = "paging"
  BY DEF IInv, Position
<1>2. Rest = <<>> \o Beyond /\ Beyond = ItemsLeft \o plan.after
  BY <1>1, RestIs, NoneUnnumbered DEF IInv, Beyond
<1>3. Beyond \in Seq(WalkEdges)
  BY BeyondTyped DEF IInv
<1>4. <<>> \o Beyond = Beyond
  BY <1>3
<1> QED BY <1>1, <1>2, <1>4

LEMMA RestAtPageNext == IInv' /\ at' = "page" => Rest' = ItemsLeft' \o plan'.after
<1>1. IInv /\ at = "page" => Rest = ItemsLeft \o plan.after
  BY RestAtPage
<1>2. (IInv /\ at = "page" => Rest = ItemsLeft \o plan.after)'
  BY <1>1, PTL
<1> QED BY <1>2

\* The batch of the first segment is the head of the schedule.
LEMMA StartSeen ==
  ASSUME IInv, IInv', SeenInv, StartBefore PROVE UNCHANGED Seen!vars
<1>1. /\ at = "planned" /\ at' = "settle" /\ segment = "before" /\ todo = <<>> /\ todo' = plan.before
      /\ UNCHANGED <<world, queue, node, plan, page, segment, toldVars, stopVars>>
  BY DEF StartBefore, IInv, Position
<1>2. Plain(plan.before) /\ plan.before \in Seq(WalkEdges)
  BY <1>1, PlanIsPlain DEF IInv, NodesOK, PlanOK
<1>3. Unnumber(todo)' = plan.before
  BY <1>1, <1>2, NextUnnumber, UnnumberPlain DEF Plain
<1>4. Rest' = Rest
  <2>1. Rest = plan.before \o Beyond
    BY <1>1, RestPlanned DEF IInv
  <2>2. Rest' = (Unnumber(todo) \o Beyond)'
    BY <1>1, RestNext DEF IInv
  <2>3. Beyond' = Beyond
    BY <1>1, BeyondKept
  <2> QED BY <1>3, <2>1, <2>2, <2>3
<1>5. Phase' = Phase /\ ItemsTold' = ItemsTold
  BY <1>1 DEF Phase, ItemsTold
<1> QED BY <1>1, <1>4, <1>5, SeenStutter DEF toldVars, stopVars

LEMMA LookUpSeen ==
  ASSUME LookUp PROVE UNCHANGED Seen!vars
<1>1. at = "settle" /\ at' = "await" /\ UNCHANGED <<world, nodeVars, toldVars, stopVars>>
  BY DEF LookUp
<1>2. Phase' = Phase /\ Rest' = Rest /\ ItemsTold' = ItemsTold
  BY <1>1 DEF Phase, Rest, ItemsTold, Segment, ItemsLeft, nodeVars
<1> QED BY <1>1, <1>2, SeenStutter DEF nodeVars, toldVars, stopVars

LEMMA SegmentSeen ==
  ASSUME IInv, IInv', SegmentBeforeDone PROVE UNCHANGED Seen!vars
<1>1. /\ at = "settle" /\ at' = "page" /\ segment = "before" /\ segment' = "paging" /\ todo = <<>>
      /\ UNCHANGED <<world, queue, node, plan, todo, page, toldVars, stopVars>>
  BY DEF SegmentBeforeDone
<1>2. Phase' = Phase /\ ItemsTold' = ItemsTold
  BY <1>1 DEF Phase, ItemsTold
<1>3. Rest' = Rest
  BY <1>1 DEF Rest, Segment, ItemsLeft
<1> QED BY <1>1, <1>2, <1>3, SeenStutter DEF toldVars, stopVars

\* An item that is read was the next one left.
LEMMA PageItemSeen ==
  ASSUME IInv, IInv', PageItem PROVE UNCHANGED Seen!vars
<1> DEFINE cs == plan.collections
           c == page.collection
           i == page.position
           e == CollectionEdge(cs, c, i, page.index)
<1>1. /\ at = "page" /\ at' = "settle" /\ todo' = <<e>> /\ c <= Len(cs) /\ i <= Len(cs[c].pages)
      /\ page' = [collection |-> c, position |-> i + 1, index |-> page.index + 1]
      /\ UNCHANGED <<world, segment, queue, node, plan, toldVars, stopVars>>
  BY DEF PageItem, MorePages, Paging, Collection, Turn
<1>2. /\ cs \in Seq(Collections) /\ c \in Nat /\ c > 0 /\ i \in Nat /\ i > 0 /\ page.index \in Nat
  BY DEF IInv, NodesOK, PlanOK, PagingOK
<1>3. c \in 1 .. Len(cs) /\ i \in 1 .. Len(cs[c].pages)
  <2>1. c \in 1 .. Len(cs)
    BY <1>1, <1>2
  <2>2. cs[c] \in Collections
    BY <1>2, <2>1
  <2>3. cs[c].pages \in Seq(Keys)
    BY <2>2 DEF Collections
  <2> QED BY <1>1, <1>2, <2>1, <2>3
<1>4. e \in WalkEdges /\ e.of # 0
  <2>1. e \in WalkEdges
    BY ItemTyped DEF IInv
  <2>2. e.of = c
    BY DEF CollectionEdge
  <2> QED BY <1>2, <2>1, <2>2
<1>5. ItemsLeft = <<CollectionEdge(cs, c, i, 0)>> \o ItemsLeft'
  <2>1. ItemsLeft' = ItemsFrom(cs, c, i + 1)
    <3>1. ItemsLeft' = ItemsFrom(plan'.collections, page'.collection, page'.position)
      BY DEF ItemsLeft
    <3>2. plan'.collections = cs /\ page'.collection = c /\ page'.position = i + 1
      BY <1>1
    <3> QED BY <3>1, <3>2, Zenon
  <2>2. ItemsFrom(cs, c, i) = <<CollectionEdge(cs, c, i, 0)>> \o ItemsFrom(cs, c, i + 1)
    BY <1>2, <1>3, ItemsNext
  <2> QED BY <2>1, <2>2, Zenon DEF ItemsLeft
<1>6. Unnumber(todo)' = <<CollectionEdge(cs, c, i, 0)>>
  <2>1. Unnumbered(e) = CollectionEdge(cs, c, i, 0)
    BY <1>4 DEF Unnumbered, CollectionEdge
  <2> HIDE DEF e
  <2>2. Unnumber(<<e>>) = <<Unnumbered(e)>>
    BY DEF Unnumber
  <2>3. Unnumber(todo)' = Unnumber(<<e>>)
    BY <1>1, NextUnnumber
  <2> QED BY <2>1, <2>2, <2>3, Zenon
<1>7. Rest' = Rest
  <2> DEFINE x == CollectionEdge(cs, c, i, 0)
  <2>1. Rest = ItemsLeft \o plan.after /\ segment = "paging"
    BY <1>1, RestAtPage
  <2>2. Rest' = (Unnumber(todo) \o Beyond)'
    BY <1>1, RestNext DEF IInv
  <2>3. Beyond' = ItemsLeft' \o plan.after
    BY <1>1, <2>1 DEF Beyond
  <2>4. ItemsLeft' \in Seq(WalkEdges) /\ plan.after \in Seq(WalkEdges)
    <3>1. (NodesOK => ItemsLeft \in Seq(WalkEdges))'
      BY BeyondTyped, PTL
    <3> QED BY <3>1 DEF IInv, NodesOK, PlanOK
  <2>5. x \in WalkEdges
    <3>1. Unnumbered(e) = x
      BY <1>4 DEF Unnumbered, CollectionEdge
    <3> QED BY <1>4, <3>1, UnnumberedIs
  <2> HIDE DEF x, cs, c, i
  <2>6. <<x>> \in Seq(WalkEdges)
    BY <2>5
  <2>7. (<<x>> \o ItemsLeft') \o plan.after = <<x>> \o (ItemsLeft' \o plan.after)
    BY <2>4, <2>6, EdgesJoined, Zenon
  <2> QED BY <1>5, <1>6, <2>1, <2>2, <2>3, <2>7, Zenon DEF x
<1>8. ItemsTold' = ItemsTold
  <2>1. todo = <<>> /\ segment = "paging"
    BY <1>1, RestAtPage
  <2>2. todo' # <<>> /\ segment' = "paging" /\ page'.index = page.index + 1
    BY <1>1, <2>1
  <2> QED BY <1>2, <2>1, <2>2 DEF ItemsTold
<1>9. Phase' = Phase
  BY <1>1 DEF Phase
<1> QED BY <1>1, <1>7, <1>8, <1>9, SeenStutter DEF toldVars, stopVars

LEMMA PageEndsSeen ==
  ASSUME IInv, IInv', PageEnds PROVE UNCHANGED Seen!vars
<1> DEFINE cs == plan.collections
           c == page.collection
           i == page.position
<1>1. /\ at = "page" /\ at' = "page" /\ c <= Len(cs) /\ i > Len(cs[c].pages)
      /\ page' = [collection |-> c + 1, position |-> 1, index |-> page.index]
      /\ UNCHANGED <<world, segment, queue, node, plan, todo, toldVars, stopVars>>
  BY DEF PageEnds, MorePages, Paging, Collection, NextCollection, Turn
<1>2. cs \in Seq(Collections) /\ c \in Nat /\ c > 0 /\ i \in Nat
  BY DEF IInv, NodesOK, PlanOK, PagingOK
<1>3. c \in 1 .. Len(cs)
  BY <1>1, <1>2
<1>4. ItemsLeft' = ItemsLeft
  <2>1. ItemsLeft' = ItemsFrom(cs, c + 1, 1)
    <3>1. ItemsLeft' = ItemsFrom(plan'.collections, page'.collection, page'.position)
      BY DEF ItemsLeft
    <3>2. plan'.collections = cs /\ page'.collection = c + 1 /\ page'.position = 1
      BY <1>1
    <3> QED BY <3>1, <3>2, Zenon
  <2>2. ItemsFrom(cs, c, i) = ItemsFrom(cs, c + 1, 1)
    BY <1>1, <1>2, <1>3, ItemsOver
  <2> QED BY <2>1, <2>2, Zenon DEF ItemsLeft
<1>5. Rest' = Rest
  BY <1>1, <1>4, RestAtPage, RestAtPageNext
<1>6. Phase' = Phase /\ ItemsTold' = ItemsTold
  BY <1>1 DEF Phase, ItemsTold
<1> QED BY <1>1, <1>5, <1>6, SeenStutter DEF toldVars, stopVars

\* Giving up on items, the first n of those that are left or all of them.
LEMMA UnreadSeen ==
  ASSUME IInv, SeenInv, at = "page", at' \in {"page", "settle"}, plan.collections # <<>>,
         UNCHANGED <<world, queue, node, toldVars>>, ItemsTold' = ItemsTold,
         NEW n \in 0 .. Len(ItemsLeft),
         Rest' = SubSeq(ItemsLeft, n + 1, Len(ItemsLeft)) \o plan.after,
         \/ incomplete' = TRUE /\ stopReason' = stopReason
         \/ stopReason' = "budget" /\ incomplete' = incomplete /\ n = Len(ItemsLeft)
  PROVE  Seen!Unread
<1>1. Rest = ItemsLeft \o plan.after
  BY RestAtPage
<1>2. ItemsLeft \in Seq(WalkEdges) /\ plan.after \in Seq(WalkEdges) /\ Plain(plan.after)
  BY BeyondTyped, PlanIsPlain DEF IInv
<1>3. Len(ItemsLeft) \in Nat /\ \A i \in 1 .. Len(ItemsLeft) : ItemsLeft[i].of # 0
  <2>1. plan.collections \in Seq(Collections)
    BY DEF IInv, NodesOK, PlanOK
  <2> QED BY <1>2, <2>1, ItemsTyped DEF ItemsLeft
<1>4. Rest' = SubSeq(Rest, n + 1, Len(Rest))
  <2> DEFINE a == ItemsLeft
             b == plan.after
  <2>1. a \in Seq(WalkEdges) /\ b \in Seq(WalkEdges) /\ n \in 0 .. Len(a)
    BY <1>2
  <2> HIDE DEF a, b
  <2>2. SubSeq(a \o b, n + 1, Len(a \o b)) = SubSeq(a, n + 1, Len(a)) \o b
    BY <2>1, JoinedFrom
  <2> QED BY <1>1, <2>2, Zenon DEF a, b
<1>5. n \in 0 .. Len(Rest) /\ \A i \in 1 .. n : Rest[i].of # 0
  <2>1. /\ Len(Rest) = Len(ItemsLeft) + Len(plan.after) /\ Len(plan.after) \in Nat
        /\ \A i \in 1 .. Len(ItemsLeft) : Rest[i] = ItemsLeft[i]
    BY <1>1, <1>2, <1>3, ConcatProperties
  <2> QED BY <1>3, <2>1
<1>6. n = Len(ItemsLeft) => Rest' = <<>> \/ Head(Rest').of = 0
  <2> SUFFICES ASSUME n = Len(ItemsLeft) PROVE Rest' = <<>> \/ Head(Rest').of = 0
    OBVIOUS
  <2> DEFINE a == ItemsLeft
  <2>1. SubSeq(a, Len(a) + 1, Len(a)) = <<>>
    <3>1. a \in Seq(WalkEdges) /\ Len(a) \in Nat
      BY <1>2
    <3> HIDE DEF a
    <3> QED BY <3>1
  <2>2. Rest' = <<>> \o plan.after
    BY <2>1
  <2>3. Rest' = plan.after
    BY <1>2, <2>2
  <2>4. plan.after = <<>> \/ (1 \in 1 .. Len(plan.after) /\ Head(plan.after) = plan.after[1])
    BY <1>2
  <2> QED BY <1>2, <2>3, <2>4 DEF Plain
<1>7. Phase = "visiting" /\ Phase' = Phase
  BY DEF Phase
<1>8. FoundOn(world, NodeSeen.key).collections # <<>>
  BY SeenAs DEF SeenInv, PlanInHand, PlanOf
<1>9. /\ UNCHANGED <<world, QueueSeen, NodeSeen, ItemsTold, expandedKeys, emittedNodes, events>>
      /\ (stopReason' = stopReason => Cut' = Cut) /\ (stopReason' = "budget" => Cut' = TRUE)
  BY DEF QueueSeen, NodeSeen, AsSeen, toldVars, Cut
<1> DEFINE Gone(m) ==
      /\ \A i \in 1 .. m : Rest[i].of # 0
      /\ Rest' = SubSeq(Rest, m + 1, Len(Rest))
      /\ \/ incomplete' = TRUE /\ UNCHANGED Cut
         \/ Cut' = TRUE /\ UNCHANGED incomplete /\ (Rest' = <<>> \/ Head(Rest').of = 0)
<1>10. Gone(n)
  BY <1>4, <1>5, <1>6, <1>9
<1>11. \E m \in 0 .. Len(Rest) : Gone(m)
  <2> HIDE DEF Gone
  <2> QED BY <1>5, <1>10
<1> QED BY <1>7, <1>8, <1>9, <1>11, Zenon DEF Seen!Unread

LEMMA MorePagesHave ==
  ASSUME IInv, Paging PROVE plan.collections # <<>> /\ page.collection \in 1 .. Len(plan.collections)
<1>1. plan.collections \in Seq(Collections) /\ page.collection \in Nat /\ page.collection > 0
  BY DEF IInv, NodesOK, PlanOK, PagingOK
<1> QED BY <1>1 DEF Paging

LEMMA PageFailsSeen ==
  ASSUME IInv, IInv', SeenInv, PageFails PROVE Seen!Unread
<1> DEFINE cs == plan.collections
           c == page.collection
           i == page.position
           m == Cardinality(From(cs, c, i))
           k == Cardinality(From(cs, c + 1, 1))
<1>1. /\ at = "page" /\ at' = "page" /\ Paging /\ incomplete' = TRUE /\ stopReason' = stopReason
      /\ page' = [collection |-> c + 1, position |-> 1, index |-> page.index]
      /\ UNCHANGED <<world, segment, queue, node, plan, todo, toldVars>>
  BY DEF PageFails, MorePages, Paging, NextCollection, Turn
<1>2. cs \in Seq(Collections) /\ c \in Nat /\ i \in Nat
  BY DEF IInv, NodesOK, PlanOK, PagingOK
<1>3. ItemsLeft' = ItemsFrom(cs, c + 1, 1) /\ ItemsLeft = ItemsFrom(cs, c, i)
  <2>1. ItemsLeft' = ItemsFrom(plan'.collections, page'.collection, page'.position)
    BY DEF ItemsLeft
  <2>2. plan'.collections = cs /\ page'.collection = c + 1 /\ page'.position = 1
    BY <1>1
  <2> QED BY <2>1, <2>2, Zenon DEF ItemsLeft
<1> HIDE DEF cs, c, i
<1>4. m \in Nat /\ k \in Nat /\ k <= m /\ ItemsFrom(cs, c + 1, 1) = SubSeq(ItemsFrom(cs, c, i), m - k + 1, m)
  <2>1. c + 1 \in Nat /\ c < c + 1
    BY <1>2
  <2> QED BY <1>2, <2>1, ItemsLater
<1>5. Len(ItemsFrom(cs, c, i)) = m
  BY <1>2, ItemsTyped
<1> HIDE DEF m, k
<1>6. m - k \in 0 .. Len(ItemsLeft) /\ ItemsLeft' = SubSeq(ItemsLeft, m - k + 1, Len(ItemsLeft))
  BY <1>3, <1>4, <1>5
<1>7. Rest' = SubSeq(ItemsLeft, m - k + 1, Len(ItemsLeft)) \o plan.after
  BY <1>1, <1>6, RestAtPageNext
<1>8. ItemsTold' = ItemsTold
  BY <1>1 DEF ItemsTold
<1> QED BY <1>1, <1>6, <1>7, <1>8, UnreadSeen, MorePagesHave

\* All the items that are left are given up.
LEMMA NothingLeft ==
  ASSUME IInv, NEW rest, rest = plan.after
  PROVE  /\ Len(ItemsLeft) \in 0 .. Len(ItemsLeft)
         /\ rest = SubSeq(ItemsLeft, Len(ItemsLeft) + 1, Len(ItemsLeft)) \o plan.after
<1> DEFINE a == ItemsLeft
           b == plan.after
<1>1. a \in Seq(WalkEdges) /\ b \in Seq(WalkEdges)
  BY BeyondTyped DEF IInv
<1>2. rest = b
  OBVIOUS
<1> HIDE DEF a, b
<1>3. Len(a) \in Nat /\ SubSeq(a, Len(a) + 1, Len(a)) = <<>>
  BY <1>1
<1>4. <<>> \o b = b
  BY <1>1
<1>5. rest = SubSeq(a, Len(a) + 1, Len(a)) \o b
  BY <1>2, <1>3, <1>4, Zenon
<1>6. Len(a) \in 0 .. Len(a)
  BY <1>3
<1> QED BY <1>5, <1>6 DEF a, b

LEMMA PageStopsSeen ==
  ASSUME IInv, IInv', SeenInv, PageStops PROVE Seen!Unread
<1> DEFINE cs == plan.collections
           c == Len(plan.collections) + 1
<1>1. /\ at = "page" /\ at' = "page" /\ Paging /\ stopReason' = "budget" /\ incomplete' = incomplete
      /\ page' = [collection |-> c, position |-> 1, index |-> page.index]
      /\ UNCHANGED <<world, segment, queue, node, plan, todo, toldVars>>
  BY DEF PageStops, MorePages, Paging, Turn
<1>2. cs \in Seq(Collections) /\ c \in Nat /\ c > Len(cs)
  BY DEF IInv, NodesOK, PlanOK
<1>3. ItemsLeft' = <<>>
  <2>1. ItemsLeft' = ItemsFrom(plan'.collections, page'.collection, page'.position)
    BY DEF ItemsLeft
  <2>2. plan'.collections = cs /\ page'.collection = c /\ page'.position = 1
    BY <1>1
  <2>3. ItemsFrom(cs, c, 1) = <<>>
    BY <1>2, NoItems
  <2> QED BY <2>1, <2>2, <2>3, Zenon
<1>4. Rest' = plan.after
  <2>1. plan.after \in Seq(WalkEdges)
    BY DEF IInv, NodesOK, PlanOK
  <2>2. <<>> \o plan.after = plan.after
    BY <2>1
  <2> QED BY <1>1, <1>3, <2>2, RestAtPageNext
<1>5. /\ Len(ItemsLeft) \in 0 .. Len(ItemsLeft)
      /\ Rest' = SubSeq(ItemsLeft, Len(ItemsLeft) + 1, Len(ItemsLeft)) \o plan.after
  BY <1>4, NothingLeft
<1>6. ItemsTold' = ItemsTold
  BY <1>1 DEF ItemsTold
<1>7. plan.collections # <<>>
  BY <1>1, MorePagesHave
<1> QED BY <1>1, <1>5, <1>6, <1>7, UnreadSeen

\* Past the collections: nothing was left of them, or the budget was gone.
LEMMA StartAfterSeen ==
  ASSUME IInv, IInv', SeenInv, StartAfter PROVE UNCHANGED Seen!vars \/ Seen!Unread
<1>1. /\ at = "page" /\ ~MorePages /\ at' = "settle" /\ segment' = "after" /\ todo' = plan.after
      /\ UNCHANGED <<world, queue, node, plan, page, toldVars, stopVars>>
  BY DEF StartAfter
<1>2. Plain(plan.after) /\ plan.after \in Seq(WalkEdges) /\ todo = <<>> /\ segment = "paging"
  BY <1>1, PlanIsPlain, RestAtPage DEF IInv, NodesOK, PlanOK
<1>3. Rest' = plan.after
  <2>1. Rest' = (Unnumber(todo) \o Beyond)'
    BY <1>1, RestNext DEF IInv
  <2>2. Unnumber(todo)' = plan.after
    BY <1>1, <1>2, NextUnnumber, UnnumberPlain DEF Plain
  <2>3. Beyond' = <<>>
    BY <1>1 DEF Beyond
  <2>4. plan.after \o <<>> = plan.after
    BY <1>2
  <2> QED BY <2>1, <2>2, <2>3, <2>4
<1>4. ItemsTold' = ItemsTold
  BY <1>1, <1>2 DEF ItemsTold
<1>5. CASE ~Paging
  <2>1. ItemsLeft = <<>>
    <3>1. plan.collections \in Seq(Collections) /\ page.collection \in Nat
      BY DEF IInv, NodesOK, PlanOK, PagingOK
    <3>2. page.collection > Len(plan.collections)
      BY <1>1, <1>5, <3>1 DEF Paging
    <3> QED BY <3>1, <3>2, NoItems DEF ItemsLeft
  <2>2. <<>> \o plan.after = plan.after
    BY <1>2
  <2>3. Rest' = Rest
    BY <1>1, <1>3, <2>1, <2>2, RestAtPage
  <2>4. Phase' = Phase
    BY <1>1 DEF Phase
  <2> QED BY <1>1, <1>4, <2>3, <2>4, SeenStutter DEF toldVars, stopVars
<1>6. CASE Paging
  <2>1. stopReason = "budget" /\ stopReason' = "budget" /\ incomplete' = incomplete
    BY <1>1, <1>6 DEF MorePages, stopVars
  <2>2. /\ Len(ItemsLeft) \in 0 .. Len(ItemsLeft)
        /\ Rest' = SubSeq(ItemsLeft, Len(ItemsLeft) + 1, Len(ItemsLeft)) \o plan.after
    BY <1>3, NothingLeft
  <2>3. plan.collections # <<>>
    BY <1>6, MorePagesHave
  <2> QED BY <1>1, <1>4, <2>1, <2>2, <2>3, UnreadSeen
<1> QED BY <1>5, <1>6

\* The edge in hand is the next of the schedule, numbered by what was read.
LEMMA HeadSeen ==
  ASSUME IInv, SeenInv, at \in {"settle", "await"}, todo # <<>>
  PROVE  /\ Rest # <<>> /\ Head(Rest) = Unnumbered(Head(todo))
         /\ Tail(Rest) = Unnumber(Tail(todo)) \o Beyond
         /\ \A told, outcome, status :
              Seen!Told(told, Head(Rest), outcome, status) = EdgeEvent(told, Head(todo), outcome, status)
<1> DEFINE e == Head(todo)
<1>1. todo \in Seq(WalkEdges) /\ e \in WalkEdges /\ e = todo[1] /\ Unnumber(todo) \in Seq(WalkEdges)
      /\ Beyond \in Seq(WalkEdges) /\ Rest = Unnumber(todo) \o Beyond
  BY HeadOfTodo, UnnumberTyped, BeyondTyped, RestIs DEF IInv, NodesOK
<1>2. /\ Unnumber(todo) # <<>> /\ Head(Unnumber(todo)) = Unnumbered(e)
      /\ Tail(Unnumber(todo)) = Unnumber(Tail(todo))
  BY <1>1, UnnumberTail
<1>3. /\ Rest # <<>> /\ Head(Rest) = Unnumbered(e) /\ Tail(Rest) = Unnumber(Tail(todo)) \o Beyond
  <2> DEFINE a == Unnumber(todo)
             b == Beyond
  <2>1. a \in Seq(WalkEdges) /\ b \in Seq(WalkEdges) /\ a # <<>>
    BY <1>1, <1>2
  <2> HIDE DEF a, b
  <2>2. a \o b # <<>> /\ Head(a \o b) = Head(a) /\ Tail(a \o b) = Tail(a) \o b
    BY <2>1, JoinedEnds
  <2> QED BY <1>1, <1>2, <2>2, Zenon DEF a, b
<1>4. /\ Unnumbered(e).to = e.to /\ Unnumbered(e).group = e.group /\ Unnumbered(e).of = e.of
      /\ Unnumbered(e).index = IF e.of = 0 THEN e.index ELSE 0
  BY <1>1, UnnumberedIs
<1>5. (IF Unnumbered(e).of = 0 THEN Unnumbered(e).index ELSE ItemsTold + 1) = e.index
  <2>1. CASE e.of = 0
    BY <1>4, <2>1
  <2>2. CASE e.of # 0
    <3>1. segment = "paging"
      <4>1. segment # "paging" => e.of = 0
        <5>1. 1 \in 1 .. Len(todo)
          BY <1>1
        <5> QED BY <1>1, <5>1 DEF SeenInv, Numbered, Plain
      <4> QED BY <2>2, <4>1
    <3>2. e.index = page.index - 1
      BY <1>1, <3>1 DEF SeenInv, Numbered
    <3>3. ItemsTold = page.index - 2 /\ page.index \in Nat
      BY <3>1 DEF ItemsTold, IInv, NodesOK, PagingOK
    <3> QED BY <1>4, <2>2, <3>2, <3>3
  <2> QED BY <2>1, <2>2
<1> HIDE DEF e
<1>6. ASSUME NEW told, NEW outcome, NEW status
      PROVE  Seen!Told(told, Head(Rest), outcome, status) = EdgeEvent(told, e, outcome, status)
  <2>1. Seen!Told(told, Head(Rest), outcome, status) =
          [told |-> told, from |-> NodeSeen.key, to |-> Unnumbered(e).to, group |-> Unnumbered(e).group,
           index |-> IF Unnumbered(e).of = 0 THEN Unnumbered(e).index ELSE ItemsTold + 1,
           outcome |-> outcome, status |-> status]
    BY <1>3, Zenon DEF Seen!Told
  <2> QED BY <1>4, <1>5, <2>1, SeenAs, Zenon DEF EdgeEvent
<1> QED BY <1>3, <1>6, Zenon DEF e

LEMMA NextEdgeSeen ==
  ASSUME IInv, IInv', SeenInv, at \in {"settle", "await"}, todo # <<>>, todo' = Tail(todo), Onwards,
         UNCHANGED <<world, node, plan, page, segment, emittedNodes, incomplete>>
  PROVE  Seen!NextEdge
<1>1. Rest # <<>> /\ Head(Rest) = Unnumbered(Head(todo)) /\ Tail(Rest) = Unnumber(Tail(todo)) \o Beyond
  BY HeadSeen
<1>2. at' \in {"settle", "page"}
  BY DEF Onwards
<1>3. Rest' = Tail(Rest)
  <2>1. Rest' = (Unnumber(todo) \o Beyond)'
    BY <1>2, RestNext DEF IInv
  <2>2. Unnumber(todo)' = Unnumber(Tail(todo))
    BY NextUnnumber
  <2>3. Beyond' = Beyond
    BY BeyondKept
  <2> QED BY <1>1, <2>1, <2>2, <2>3
<1>4. todo \in Seq(WalkEdges) /\ Head(todo) \in WalkEdges /\ Head(todo) = todo[1] /\ page.index \in Nat
  BY HeadOfTodo DEF IInv, NodesOK, PagingOK
<1>5. Head(Rest).of = Head(todo).of
  BY <1>1, <1>4, UnnumberedIs
<1>6. ItemsTold' = ItemsTold + (IF Head(Rest).of = 0 THEN 0 ELSE 1)
  <2>1. CASE segment = "paging"
    <3>1. Len(todo) = 1
      BY <2>1 DEF IInv, Position
    <3>2. Tail(todo) = <<>>
      BY <1>4, <3>1
    <3>3. Head(Rest).of # 0
      BY <1>4, <1>5, <2>1 DEF SeenInv, Numbered
    <3>4. ItemsTold = page.index - 2 /\ ItemsTold' = page.index - 1
      BY <2>1, <3>2 DEF ItemsTold
    <3> QED BY <1>4, <3>3, <3>4
  <2>2. CASE segment # "paging"
    <3>1. Head(Rest).of = 0
      BY <1>4, <1>5, <2>2, PlainTail DEF SeenInv, Numbered
    <3>2. ItemsTold = page.index - 1 /\ ItemsTold' = page.index - 1
      BY <2>2 DEF ItemsTold
    <3> QED BY <1>4, <3>1, <3>2
  <2> QED BY <2>1, <2>2
<1>7. Phase = "visiting" /\ Phase' = Phase
  BY <1>2 DEF Phase
<1>8. UNCHANGED NodeSeen
  BY DEF NodeSeen, AsSeen
<1> QED BY <1>1, <1>3, <1>6, <1>7, <1>8, Zenon DEF Seen!NextEdge

\* The fates of an edge that is not looked up, one by one.
LEMMA FateSays ==
  ASSUME NodesOK, NEW e
  PROVE  LET cycle == e.to \in node.path \cup {node.key}
         IN  \/ Fate(e) = "lookup"
             \/ Fate(e) = "budget-exhausted" /\ stopReason = "budget"
             \/ Fate(e) = "depth-limit" /\ stopReason # "budget" /\ node.depth >= MaxDepth
             \/ Fate(e) = "cycle" /\ stopReason # "budget" /\ node.depth < MaxDepth /\ cycle
             \/ /\ Fate(e) = "already-expanded" /\ stopReason # "budget" /\ node.depth < MaxDepth
                /\ ~cycle /\ e.to \in expandedKeys
<1>1. node.depth \in Nat /\ MaxDepth \in Nat
  BY WalkAssumption DEF NodesOK, Nodes
<1>2. /\ node.depth + 1 > MaxDepth <=> ~(node.depth + 1 <= MaxDepth)
      /\ node.depth + 1 <= MaxDepth <=> node.depth < MaxDepth
      /\ node.depth >= MaxDepth <=> ~(node.depth + 1 <= MaxDepth)
  BY <1>1
<1>3. OnAncestorPath(node, e.to) <=> e.to \in node.path \cup {node.key}
  BY DEF OnAncestorPath
<1>4. CASE stopReason = "budget"
  BY <1>4 DEF Fate
<1>5. CASE stopReason # "budget" /\ ~(node.depth + 1 <= MaxDepth)
  <2>1. Fate(e) = "depth-limit"
    BY <1>2, <1>5, Zenon DEF Fate
  <2> QED BY <1>2, <1>5, <2>1
<1>6. CASE stopReason # "budget" /\ node.depth + 1 <= MaxDepth /\ OnAncestorPath(node, e.to)
  <2>1. Fate(e) = "cycle"
    BY <1>2, <1>6, Zenon DEF Fate
  <2> QED BY <1>2, <1>3, <1>6, <2>1
<1>7. CASE stopReason # "budget" /\ node.depth + 1 <= MaxDepth /\ ~OnAncestorPath(node, e.to)
  <2>1. Fate(e) = IF e.to \in expandedKeys THEN "already-expanded" ELSE "lookup"
    BY <1>2, <1>7, Zenon DEF Fate
  <2> QED BY <1>2, <1>3, <1>7, <2>1
<1> QED BY <1>4, <1>5, <1>6, <1>7

LEMMA BlockedSeenAs ==
  ASSUME IInv, IInv', SeenInv, Blocked
  PROVE  \E outcome \in {"budget-exhausted", "depth-limit", "cycle", "already-expanded"} : Seen!NotTried(outcome)
<1> DEFINE e == Head(todo)
           f == Fate(e)
<1>1. /\ at = "settle" /\ todo # <<>> /\ f # "lookup" /\ todo' = Tail(todo) /\ Onwards
      /\ events' = events \o <<EdgeEvent("edge", e, f, "none")>>
      /\ UNCHANGED <<world, queue, node, plan, page, segment, expandedKeys, emittedNodes, stopReason, incomplete>>
  BY DEF Blocked, Tells, stopVars
<1>2. Seen!NextEdge
  BY <1>1, NextEdgeSeen
<1>3. /\ Head(Rest) = Unnumbered(e)
      /\ Seen!Told("edge", Head(Rest), f, "none") = EdgeEvent("edge", e, f, "none")
  BY <1>1, HeadSeen, Zenon
<1>4. Head(Rest).to = e.to
  BY <1>1, <1>3, HeadOfTodo, UnnumberedIs DEF IInv
<1>5. /\ f \in {"budget-exhausted", "depth-limit", "cycle", "already-expanded"}
      /\ \/ f = "budget-exhausted" /\ Cut
         \/ f = "depth-limit" /\ ~Cut /\ NodeSeen.depth >= MaxDepth
         \/ f = "cycle" /\ ~Cut /\ NodeSeen.depth < MaxDepth /\ Head(Rest).to \in NodeSeen.path \cup {NodeSeen.key}
         \/ /\ f = "already-expanded" /\ ~Cut /\ NodeSeen.depth < MaxDepth
            /\ ~(Head(Rest).to \in NodeSeen.path \cup {NodeSeen.key}) /\ Head(Rest).to \in expandedKeys
  BY <1>1, <1>4, FateSays, SeenAs DEF IInv, Cut
<1>6. events' = events \o <<Seen!Told("edge", Head(Rest), f, "none")>>
  BY <1>1, <1>3, Zenon
<1>7. UNCHANGED <<QueueSeen, expandedKeys, Cut>>
  BY <1>1 DEF QueueSeen, AsSeen, Cut
<1> HIDE DEF f, e
<1>8. Seen!NotTried(f)
  BY <1>2, <1>5, <1>6, <1>7, Zenon DEF Seen!NotTried
<1> QED BY <1>5, <1>8

LEMMA OutcomeSays ==
  ASSUME NEW e \in WalkEdges, NEW r \in Answers
  PROVE  LET right == r = "resolved" /\ world.entity[Unnumbered(e).to].type = Unnumbered(e).declared
         IN  /\ Outcome(e, r).outcome =
                  IF ~right THEN "not-expanded" ELSE IF Unnumbered(e).expandable THEN "expanded" ELSE "leaf"
             /\ Outcome(e, r).status = IF right \/ r # "resolved" THEN r ELSE "invalid"
<1>1. /\ Unnumbered(e).to = e.to /\ Unnumbered(e).declared = e.declared
      /\ (IF Unnumbered(e).expandable THEN TRUE ELSE FALSE) = (IF e.expandable THEN TRUE ELSE FALSE)
  BY UnnumberedIs
<1>2. CASE r # "resolved"
  BY <1>2 DEF Outcome, Answers
<1>3. CASE r = "resolved" /\ world.entity[e.to].type # e.declared
  BY <1>1, <1>3 DEF Outcome, Answers, Entity
<1>4. CASE r = "resolved" /\ world.entity[e.to].type = e.declared
  BY <1>1, <1>4 DEF Outcome, Answers, Entity
<1> QED BY <1>2, <1>3, <1>4

LEMMA SettledSeenAs ==
  ASSUME IInv, IInv', SeenInv, Settled PROVE \E answer \in Answers : Seen!Tried(answer)
<1>1. PICK edge, o, list, n : SettledParts(edge, o, list, n)
  BY SettledIs
<1> DEFINE r == resolutions[edge.to]
           e == Head(Rest)
           k == e.to
           right == r = "resolved" /\ world.entity[k].type = e.declared
           outcome == IF ~right THEN "not-expanded" ELSE IF e.expandable THEN "expanded" ELSE "leaf"
           status == IF right \/ r # "resolved" THEN r ELSE "invalid"
           told(kind) == Seen!Told(kind, e, outcome, status)
<1>0. /\ at = "await" /\ todo # <<>> /\ todo' = Tail(todo) /\ Onwards
      /\ UNCHANGED <<world, node, plan, page, segment, emittedNodes, incomplete>>
      /\ stopReason # "budget" /\ Fetchable(Head(todo))
  BY DEF Settled, IInv, Position
<1>2. /\ edge = Head(todo) /\ edge \in WalkEdges /\ edge.to \in Keys /\ r \in Answers
      /\ o = Outcome(edge, r)
  BY <1>1 DEF SettledParts
<1>3. Seen!NextEdge
  BY <1>0, NextEdgeSeen
<1>4. e = Unnumbered(edge) /\ k = edge.to
  <2>1. e = Unnumbered(edge)
    BY <1>0, <1>2, HeadSeen
  <2> QED BY <1>2, <2>1, UnnumberedIs
<1>5. o.outcome = outcome /\ o.status = status
  <2> HIDE DEF e, r
  <2> QED BY <1>2, <1>4, OutcomeSays
<1>6. told("edge") = EdgeEvent("edge", edge, o.outcome, o.status)
      /\ told("reference") = EdgeEvent("reference", edge, o.outcome, o.status)
  <2> HIDE DEF outcome, status
  <2> QED BY <1>0, <1>2, <1>5, HeadSeen, Zenon
<1> HIDE DEF told, outcome, status, right, r, e
<1>7. ~Cut /\ NodeSeen.depth < MaxDepth /\ k \notin NodeSeen.path \cup {NodeSeen.key} \cup expandedKeys
  <2>1. node.depth \in Nat /\ MaxDepth \in Nat
    BY WalkAssumption DEF IInv, NodesOK, Nodes
  <2> QED BY <1>0, <1>2, <1>4, <2>1, SeenAs DEF Cut, Fetchable, OnAncestorPath
<1>8. r \in {world.verdict[k], "budget-exhausted"}
  <2>1. k \in Keys /\ k \notin expandedKeys /\ r # None
    BY <1>2, <1>4, <1>7, WalkAssumption DEF Answers
  <2>2. resolutions[k] \in {None, "budget-exhausted", world.verdict[k]}
    BY <2>1 DEF SeenInv, Honest
  <2> QED BY <1>4, <2>1, <2>2 DEF r
<1>9. expandedKeys' = IF outcome = "expanded" THEN expandedKeys \cup {k} ELSE expandedKeys
  <2>1. expandedKeys' = IF o.outcome = "expanded" THEN expandedKeys \cup {edge.to} ELSE expandedKeys
    BY <1>1 DEF SettledParts
  <2> QED BY <1>4, <1>5, <2>1
<1>10. QueueSeen' = Append(QueueSeen, [key |-> k, depth |-> NodeSeen.depth + 1, expand |-> outcome = "expanded",
                                       path |-> NodeSeen.path \cup {NodeSeen.key}])
  <2> DEFINE q == Append(queue, n)
             x == [key |-> k, depth |-> NodeSeen.depth + 1, expand |-> outcome = "expanded",
                   path |-> NodeSeen.path \cup {NodeSeen.key}]
  <2>1. AsSeen(n) = x
    <3>1. n = [key |-> edge.to, depth |-> node.depth + 1, found |-> discoveryIndex + 1,
               expand |-> o.outcome = "expanded", path |-> node.path \cup {node.key}]
      BY <1>1 DEF SettledParts
    <3>2. AsSeen(n) = [key |-> edge.to, depth |-> node.depth + 1, expand |-> o.outcome = "expanded",
                       path |-> node.path \cup {node.key}]
      BY <3>1 DEF AsSeen
    <3> QED BY <1>4, <1>5, <3>2, SeenAs, Zenon
  <2>2. queue \in Seq(Nodes) /\ n \in Nodes /\ queue' = q
    BY <1>1 DEF IInv, NodesOK, SettledParts
  <2> HIDE DEF x
  <2>3. QueueSeen' = [i \in DOMAIN q |-> AsSeen(q[i])]
    <3>1. QueueSeen' = [i \in DOMAIN queue' |-> AsSeen(queue'[i])]
      BY DEF QueueSeen, AsSeen
    <3> QED BY <2>2, <3>1
  <2>4. /\ q \in Seq(Nodes) /\ Len(q) = Len(queue) + 1 /\ Len(queue) \in Nat
        /\ (\A i \in 1 .. Len(queue) : q[i] = queue[i]) /\ q[Len(queue) + 1] = n
    BY <2>2
  <2> HIDE DEF q
  <2> DEFINE S == [key : Keys \cup {None}, depth : Nat, expand : BOOLEAN, path : SUBSET Keys]
  <2>5. \A y \in Nodes : AsSeen(y) \in S
    BY DEF AsSeen, Nodes
  <2> HIDE DEF S
  <2>6. QueueSeen \in Seq(S) /\ Len(QueueSeen) = Len(queue)
        /\ \A i \in 1 .. Len(queue) : QueueSeen[i] = AsSeen(queue[i])
    BY <2>2, <2>5 DEF QueueSeen
  <2> DEFINE u == [i \in DOMAIN q |-> AsSeen(q[i])]
             v == Append(QueueSeen, x)
  <2>7. u \in Seq(S) /\ Len(u) = Len(queue) + 1 /\ \A i \in 1 .. Len(queue) + 1 : u[i] = AsSeen(q[i])
    BY <2>4, <2>5
  <2>8. x \in S
    BY <2>1, <2>2, <2>5
  <2>9. /\ v \in Seq(S) /\ Len(v) = Len(queue) + 1 /\ v[Len(queue) + 1] = x
        /\ \A i \in 1 .. Len(queue) : v[i] = QueueSeen[i]
    BY <2>4, <2>6, <2>8
  <2> HIDE DEF u, v
  <2>10. \A i \in 1 .. Len(u) : u[i] = v[i]
    BY <2>1, <2>4, <2>6, <2>7, <2>9
  <2>11. u = v
    BY <2>7, <2>9, <2>10
  <2> QED BY <2>3, <2>11, Zenon DEF u, v, x
<1>11. events' = events \o (IF NodeSeen.depth = 0 THEN <<told("edge"), told("reference")>> ELSE <<told("edge")>>)
  <2>1. events' = events \o list
    BY <1>1 DEF SettledParts, Tells
  <2>2. list = IF node.depth = 0
               THEN <<EdgeEvent("edge", edge, o.outcome, o.status), EdgeEvent("reference", edge, o.outcome, o.status)>>
               ELSE <<EdgeEvent("edge", edge, o.outcome, o.status)>>
    BY <1>1 DEF SettledParts
  <2> QED BY <1>6, <2>1, <2>2, SeenAs, Zenon
<1>12. Cut' = (r = "budget-exhausted")
  <2>1. stopReason' = IF r = "budget-exhausted" THEN "budget" ELSE stopReason
    BY <1>1 DEF SettledParts, r
  <2> QED BY <1>0, <2>1 DEF Cut
<1>13. Seen!Tried(r)
  BY <1>3, <1>7, <1>8, <1>9, <1>10, <1>11, <1>12, Zenon DEF Seen!Tried, told, outcome, status, right, e
<1> QED BY <1>2, <1>13

LEMMA StepSeenAs ==
  ASSUME IInv, IInv', Flights, SeenInv, [Next]_vars PROVE Seen!Next \/ UNCHANGED Seen!vars
<1>1. CASE \E k \in Keys : Settle(k)
  <2>1. UNCHANGED <<world, at, nodeVars, toldVars, stopVars>>
    BY <1>1 DEF Settle
  <2> QED BY <2>1, QuietSeen
<1>2. CASE \E k \in Keys : Reject(k)
  <2>1. UNCHANGED <<world, nodeVars, toldVars, stopVars>> /\ (at' = at \/ (at = "await" /\ at' = "failed"))
    BY <1>2 DEF Reject
  <2> QED BY <2>1, QuietSeen, FailSeen DEF Seen!Next
<1>3. CASE RootRejected
  <2>1. UNCHANGED <<world, nodeVars, toldVars, stopVars>> /\ at' = "failed" /\ at \in {"root", "page"}
    BY <1>3 DEF RootRejected, MorePages, Paging
  <2> QED BY <2>1, FailSeen DEF Seen!Next
<1>4. CASE Cancel \/ UNCHANGED vars
  <2>1. UNCHANGED <<world, at, nodeVars, toldVars, stopVars>>
    BY <1>4 DEF Cancel, vars
  <2> QED BY <2>1, QuietSeen
<1>5. CASE StartBefore \/ LookUp \/ SegmentBeforeDone \/ PageItem \/ PageEnds
  BY <1>5, StartSeen, LookUpSeen, SegmentSeen, PageItemSeen, PageEndsSeen
<1>6. CASE PageFails \/ PageStops \/ StartAfter
  BY <1>6, PageFailsSeen, PageStopsSeen, StartAfterSeen DEF Seen!Next
<1>7. CASE Visit \/ Finish \/ Close
  BY <1>7, VisitSeenAs, FinishSeen, CloseSeen DEF Seen!Next
<1>8. CASE Blocked
  BY <1>8, BlockedSeenAs DEF Seen!Next
<1>9. CASE Settled
  BY <1>9, SettledSeenAs DEF Seen!Next, Answers
<1>10. CASE RootResolves
  BY <1>10, BeginSeen DEF Seen!Next, Answers
<1> QED BY <1>1, <1>2, <1>3, <1>4, <1>5, <1>6, <1>7, <1>8, <1>9, <1>10 DEF Next, Generator

\* What the consumer is told is a sequential walk in schedule order, whatever
\* the pool prefetches, the order it settles in and the reading of the pages.
THEOREM ImplementsSequentialWalkAlways == Spec => ImplementsSequentialWalk
<1>1. Init => IInv /\ Flights /\ SeenInv
  BY InitTypes, InitFlights, InitSeen
<1>2. IInv /\ Flights /\ SeenInv /\ [Next]_vars => IInv' /\ Flights' /\ SeenInv'
  BY StepTypes, StepSeen
<1>3. Init => Seen!Init
  BY SeenInit
<1>4. IInv /\ Flights /\ SeenInv /\ [Next]_vars => [Seen!Next]_(Seen!vars)
  BY StepTypes, StepSeenAs
<1> QED BY <1>1, <1>2, <1>3, <1>4, PTL DEF Spec, ImplementsSequentialWalk, Seen!Spec

-----------------------------------------------------------------------------
(* A walk that says it is complete is.  What follows is about the mapped   *)
(* state only: a queue q, the node n, whether it is being visited (v), the *)
(* claimed keys, the keys W within each depth and the targets T of a key.  *)

\* A key whose own edges are still to be told, all or some of them.
Waits(q, n, v, k) == (v /\ k = n.key) \/ \E i \in 1 .. Len(q) : q[i].expand /\ q[i].key = k

\* The queue holds what is left of one level, then the next level.
InLevels(q, n) ==
  /\ n.depth \in 0 .. MaxDepth
  /\ \A i \in 1 .. Len(q) : q[i].depth \in {n.depth, n.depth + 1} /\ q[i].depth <= MaxDepth
  /\ \A i, j \in 1 .. Len(q) : i < j => q[i].depth <= q[j].depth

\* A node that waits at a depth is within it, and not within a smaller one.
AtDepth(x, W) == x.key \in W[x.depth] /\ (x.depth > 0 => x.key \notin W[x.depth - 1])
Timely(q, n, v, W) ==
  /\ v => AtDepth(n, W)
  /\ \A i \in 1 .. Len(q) : q[i].expand => AtDepth(q[i], W)

\* A node that waits is claimed along with its ancestors, and waits once.
Owned(q, n, v, claimed) ==
  /\ v => n.key \in claimed /\ n.path \subseteq claimed
  /\ \A i \in 1 .. Len(q) : q[i].expand => q[i].key \in claimed /\ q[i].path \subseteq claimed
  /\ \A i, j \in 1 .. Len(q) : i # j /\ q[i].expand /\ q[j].expand => q[i].key # q[j].key
  /\ v => \A i \in 1 .. Len(q) : q[i].expand => q[i].key # n.key

\* The levels up to that of the node are claimed, nothing beyond the depth is,
\* and a key that does not wait has handed on its claim.
Inner(k, W) == MaxDepth > 0 /\ k \in W[MaxDepth - 1]
Spread(q, n, v, claimed, W, T) ==
  /\ W[n.depth] \subseteq claimed
  /\ claimed \subseteq W[MaxDepth]
  /\ \A k \in claimed : Waits(q, n, v, k) \/ ~Inner(k, W) \/ T[k] \subseteq claimed

\* What the node may claim is claimed, or among the edges that are left.
Aimed(n, v, claimed, aims, T) ==
  v => aims \subseteq T[n.key] /\ (n.depth < MaxDepth => T[n.key] \subseteq claimed \cup aims)

\* Each edge of a key is told once, from when the key is visited.
Counted(q, n, v, claimed, left, tally, planned) ==
  /\ \A k \in Keys \ claimed : tally[k] = 0
  /\ \A i \in 1 .. Len(q) : q[i].expand => tally[q[i].key] = 0
  /\ v => tally[n.key] + left = planned[n.key]
  /\ \A k \in claimed : Waits(q, n, v, k) \/ tally[k] = planned[k]

Good(w, e) == e.expandable /\ w.verdict[e.to] = "resolved" /\ w.entity[e.to].type = e.declared
Aims(w, list) == {list[i].to : i \in {j \in 1 .. Len(list) : Good(w, list[j])}}
Targets == [k \in Keys |-> {e.to : e \in GoodEdges(k)}]
Tally == [k \in Keys |-> EdgesTold(k)]
Planned == [k \in Keys |-> EdgesPlanned(k)]
Wider(s) == s \cup {e.to : e \in UNION {GoodEdges(k) : k \in s}}
Within == CHOOSE w : w = [d \in 0 .. MaxDepth |-> IF d = 0 THEN {Root} ELSE Wider(w[d - 1])]

RootIs == world.rootGiven \/ world.verdict[Root] = "resolved"
Uncut == Phase \notin {"root", "failed"} /\ ~Cut /\ ~incomplete /\ RootIs

Shape(q, n, v, claimed, W, T, aims, left, tally, planned) ==
  /\ InLevels(q, n) /\ Timely(q, n, v, W) /\ Owned(q, n, v, claimed) /\ Spread(q, n, v, claimed, W, T)
  /\ Aimed(n, v, claimed, aims, T) /\ Counted(q, n, v, claimed, left, tally, planned)

Whole ==
  /\ Phase = "visiting" =>
       Shape(QueueSeen, NodeSeen, TRUE, expandedKeys, Within, Targets, Aims(world, Rest), Len(Rest), Tally, Planned)
  /\ Phase # "visiting" =>
       Shape(QueueSeen, NodeSeen, FALSE, expandedKeys, Within, Targets, {}, 0, Tally, Planned)
  /\ Phase = "done" => QueueSeen = <<>>

Unbegun == Phase = "root" => NodeSeen = Seen!NoNode /\ expandedKeys = {} /\ events = <<>>
RootClaimed == Root \in expandedKeys => RootIs
NoneCut == ~Cut => \A i \in 1 .. Len(events) : events[i].told = "edge" => events[i].outcome # "budget-exhausted"
CompleteInv == Unbegun /\ RootClaimed /\ NoneCut /\ (Uncut => Whole)

SeenNodes == [key : Keys \cup {None}, depth : Nat, expand : BOOLEAN, path : SUBSET Keys]

\* The keys within a depth: those within the one before, and their targets.
Widens(W, T) ==
  /\ W[0] = {Root}
  /\ \A d \in Nat : d < MaxDepth => \A x : x \in W[d + 1] <=> (x \in W[d] \/ \E k \in W[d] : x \in T[k])
  /\ \A d, e \in Nat : d <= e /\ e <= MaxDepth => W[d] \subseteq W[e]
  /\ \A d \in Nat : d <= MaxDepth => W[d] \subseteq Keys

\* Taking the head of the queue leaves the others in their order.
LEMMA QueueMoves ==
  ASSUME NEW q \in Seq(SeenNodes), q # <<>>
  PROVE  /\ Len(q) \in Nat \ {0} /\ Len(Tail(q)) = Len(q) - 1 /\ Head(q) = q[1]
         /\ Tail(q) \in Seq(SeenNodes) /\ q[1] \in SeenNodes
         /\ \A i \in 1 .. Len(Tail(q)) : Tail(q)[i] = q[i + 1] /\ i + 1 \in 1 .. Len(q)
         /\ \A i \in 1 .. Len(q) : q[i].expand \in BOOLEAN /\ q[i].depth \in Nat
<1>1. Len(q) \in Nat \ {0}
  OBVIOUS
<1>2. \A i \in 1 .. Len(q) : q[i] \in SeenNodes
  OBVIOUS
<1>3. \A i \in 1 .. Len(q) : q[i].expand \in BOOLEAN /\ q[i].depth \in Nat
  BY <1>2 DEF SeenNodes
<1>4. Len(Tail(q)) = Len(q) - 1 /\ Head(q) = q[1] /\ Tail(q) \in Seq(SeenNodes)
  OBVIOUS
<1>5. \A i \in 1 .. Len(Tail(q)) : Tail(q)[i] = q[i + 1] /\ i + 1 \in 1 .. Len(q)
  BY <1>1, <1>4
<1> QED BY <1>1, <1>2, <1>3, <1>4, <1>5

\* The next node leaves the queue.
LEMMA VisitLevels ==
  ASSUME NEW q \in Seq(SeenNodes), q # <<>>, NEW n, InLevels(q, n)
  PROVE  InLevels(Tail(q), Head(q))
<1>1. /\ Len(q) \in Nat \ {0} /\ Len(Tail(q)) = Len(q) - 1 /\ Head(q) = q[1]
      /\ \A i \in 1 .. Len(Tail(q)) : Tail(q)[i] = q[i + 1] /\ i + 1 \in 1 .. Len(q)
      /\ \A i \in 1 .. Len(q) : q[i].depth \in Nat
  BY QueueMoves
<1>2. 1 \in 1 .. Len(q) /\ MaxDepth \in Nat /\ n.depth \in Nat
  BY <1>1, WalkAssumption DEF InLevels
<1>3. Head(q).depth \in 0 .. MaxDepth /\ Head(q).depth \in {n.depth, n.depth + 1}
  BY <1>1, <1>2 DEF InLevels
<1>4. ASSUME NEW i \in 1 .. Len(Tail(q))
      PROVE  Tail(q)[i].depth \in {Head(q).depth, Head(q).depth + 1} /\ Tail(q)[i].depth <= MaxDepth
  <2>1. Tail(q)[i] = q[i + 1] /\ i + 1 \in 1 .. Len(q) /\ 1 < i + 1
    BY <1>1
  <2>2. q[1].depth <= q[i + 1].depth /\ q[i + 1].depth \in {n.depth, n.depth + 1} /\ q[i + 1].depth <= MaxDepth
    BY <1>2, <2>1 DEF InLevels
  <2> QED BY <1>1, <1>2, <1>3, <2>1, <2>2
<1>5. ASSUME NEW i \in 1 .. Len(Tail(q)), NEW j \in 1 .. Len(Tail(q)), i < j
      PROVE  Tail(q)[i].depth <= Tail(q)[j].depth
  <2>1. /\ Tail(q)[i] = q[i + 1] /\ i + 1 \in 1 .. Len(q)
        /\ Tail(q)[j] = q[j + 1] /\ j + 1 \in 1 .. Len(q) /\ i + 1 < j + 1
    BY <1>1, <1>5
  <2> QED BY <2>1 DEF InLevels
<1> QED BY <1>3, <1>4, <1>5 DEF InLevels

\* The head that is taken goes on waiting, as the visited node; no other key changes.
LEMMA VisitWaits ==
  ASSUME NEW q \in Seq(SeenNodes), q # <<>>, NEW v \in BOOLEAN, v <=> Head(q).expand, NEW n, NEW k
  PROVE  Waits(q, n, FALSE, k) => Waits(Tail(q), Head(q), v, k)
<1>1. SUFFICES ASSUME NEW i \in 1 .. Len(q), q[i].expand, q[i].key = k
               PROVE  Waits(Tail(q), Head(q), v, k)
  BY DEF Waits
<1>2. /\ Len(q) \in Nat \ {0} /\ Len(Tail(q)) = Len(q) - 1 /\ Head(q) = q[1]
      /\ \A j \in 1 .. Len(Tail(q)) : Tail(q)[j] = q[j + 1]
  BY QueueMoves
<1>3. CASE i = 1
  BY <1>1, <1>2, <1>3 DEF Waits
<1>4. CASE i # 1
  <2>1. i - 1 \in 1 .. Len(Tail(q)) /\ (i - 1) + 1 = i
    BY <1>2, <1>4
  <2>2. Tail(q)[i - 1] = q[i]
    BY <1>2, <2>1
  <2> QED BY <1>1, <2>1, <2>2 DEF Waits
<1> QED BY <1>3, <1>4

\* Taking the head keeps every waiting node at its least depth.
LEMMA VisitTimely ==
  ASSUME NEW q \in Seq(SeenNodes), q # <<>>, NEW v \in BOOLEAN, v <=> Head(q).expand, NEW n, NEW W, Timely(q, n, FALSE, W)
  PROVE  Timely(Tail(q), Head(q), v, W)
<1>1. /\ 1 \in 1 .. Len(q) /\ Head(q) = q[1]
      /\ \A j \in 1 .. Len(Tail(q)) : Tail(q)[j] = q[j + 1] /\ j + 1 \in 1 .. Len(q)
  BY QueueMoves
<1> QED BY <1>1 DEF Timely

\* Taking the head keeps what waits claimed, and waiting once.
LEMMA VisitOwned ==
  ASSUME NEW q \in Seq(SeenNodes), q # <<>>, NEW v \in BOOLEAN, v <=> Head(q).expand, NEW n, NEW claimed, Owned(q, n, FALSE, claimed)
  PROVE  Owned(Tail(q), Head(q), v, claimed)
<1>1. /\ 1 \in 1 .. Len(q) /\ Head(q) = q[1]
      /\ \A j \in 1 .. Len(Tail(q)) : Tail(q)[j] = q[j + 1] /\ j + 1 \in 1 .. Len(q) /\ j + 1 # 1
      /\ \A i, j \in 1 .. Len(Tail(q)) : i # j => i + 1 # j + 1
  <2>1. Len(q) \in Nat \ {0} /\ Len(Tail(q)) = Len(q) - 1 /\ Head(q) = q[1]
        /\ \A j \in 1 .. Len(Tail(q)) : Tail(q)[j] = q[j + 1] /\ j + 1 \in 1 .. Len(q)
    BY QueueMoves
  <2> QED BY <2>1
<1> DEFINE t == Tail(q)
           h == Head(q)
<1>2. \A j \in 1 .. Len(t) : t[j] = q[j + 1] /\ j + 1 \in 1 .. Len(q) /\ j + 1 # 1
  BY <1>1
<1>3. \A i, j \in 1 .. Len(t) : i # j => i + 1 # j + 1
  BY <1>1
<1>4. 1 \in 1 .. Len(q) /\ h = q[1] /\ (v => h.expand)
  BY <1>1
<1> HIDE DEF t, h
<1>5. v => h.key \in claimed /\ h.path \subseteq claimed
  BY <1>4 DEF Owned
<1>6. \A i \in 1 .. Len(t) : t[i].expand => t[i].key \in claimed /\ t[i].path \subseteq claimed
  BY <1>2 DEF Owned
<1>7. ASSUME NEW i \in 1 .. Len(t), NEW j \in 1 .. Len(t), i # j, t[i].expand, t[j].expand
      PROVE  t[i].key # t[j].key
  <2>1. i + 1 # j + 1 /\ t[i] = q[i + 1] /\ t[j] = q[j + 1] /\ i + 1 \in 1 .. Len(q) /\ j + 1 \in 1 .. Len(q)
    BY <1>2, <1>3, <1>7
  <2> QED BY <1>7, <2>1 DEF Owned
<1>8. ASSUME v, NEW i \in 1 .. Len(t), t[i].expand PROVE t[i].key # h.key
  <2>1. i + 1 # 1 /\ t[i] = q[i + 1] /\ i + 1 \in 1 .. Len(q)
    BY <1>2
  <2> QED BY <1>4, <1>8, <2>1 DEF Owned
<1>9. Owned(t, h, v, claimed)
  BY <1>5, <1>6, <1>7, <1>8 DEF Owned
<1> QED BY <1>9 DEF t, h

\* Taking the head moves to the next level only when all of it is claimed.
LEMMA VisitSpread ==
  ASSUME NEW q \in Seq(SeenNodes), q # <<>>, NEW v \in BOOLEAN, v <=> Head(q).expand, NEW n, NEW claimed, NEW W, NEW T, Widens(W, T),
         InLevels(q, n), Timely(q, n, FALSE, W), Spread(q, n, FALSE, claimed, W, T)
  PROVE  Spread(Tail(q), Head(q), v, claimed, W, T)
<1>1. /\ Len(q) \in Nat \ {0} /\ Head(q) = q[1] /\ 1 \in 1 .. Len(q)
      /\ \A i \in 1 .. Len(q) : q[i].depth \in Nat
  BY QueueMoves
<1>2. MaxDepth \in Nat /\ n.depth \in Nat /\ Head(q).depth \in {n.depth, n.depth + 1} /\ Head(q).depth <= MaxDepth
  BY <1>1, WalkAssumption DEF InLevels
<1>3. W[Head(q).depth] \subseteq claimed
  <2>1. CASE Head(q).depth = n.depth
    BY <2>1 DEF Spread
  <2>2. CASE Head(q).depth = n.depth + 1
    <3>1. ASSUME NEW i \in 1 .. Len(q) PROVE q[i].depth = n.depth + 1
      <4>1. i = 1 \/ 1 < i
        BY <1>1
      <4>2. 1 < i => q[1].depth <= q[i].depth
        BY <1>1 DEF InLevels
      <4>3. q[i].depth \in {n.depth, n.depth + 1}
        BY DEF InLevels
      <4> QED BY <1>1, <1>2, <2>2, <4>1, <4>2, <4>3
    <3>2. ASSUME NEW k \in W[n.depth] PROVE T[k] \subseteq claimed
      <4>1. k \in claimed
        BY DEF Spread
      <4>2. ~Waits(q, n, FALSE, k)
        <5>1. SUFFICES ASSUME NEW i \in 1 .. Len(q), q[i].expand, q[i].key = k PROVE FALSE
          BY DEF Waits
        <5>2. q[i].key \notin W[q[i].depth - 1]
          BY <1>2, <3>1, <5>1 DEF Timely, AtDepth
        <5> QED BY <1>2, <3>1, <5>1, <5>2
      <4>3. Inner(k, W)
        <5>1. n.depth <= MaxDepth - 1 /\ MaxDepth - 1 \in Nat /\ MaxDepth - 1 <= MaxDepth /\ MaxDepth > 0
          BY <1>2, <2>2
        <5>2. W[n.depth] \subseteq W[MaxDepth - 1]
          BY <1>2, <5>1 DEF Widens
        <5> QED BY <3>2, <5>1, <5>2 DEF Inner
      <4> QED BY <4>1, <4>2, <4>3 DEF Spread
    <3>3. n.depth < MaxDepth
      BY <1>2, <2>2
    <3>4. \A x : x \in W[n.depth + 1] <=> (x \in W[n.depth] \/ \E k \in W[n.depth] : x \in T[k])
      BY <1>2, <3>3 DEF Widens
    <3>5. W[n.depth] \subseteq claimed
      BY DEF Spread
    <3> QED BY <2>2, <3>2, <3>4, <3>5
  <2> QED BY <1>2, <2>1, <2>2
<1>4. \A k \in claimed : Waits(Tail(q), Head(q), v, k) \/ ~Inner(k, W) \/ T[k] \subseteq claimed
  <2>1. \A k \in claimed : Waits(q, n, FALSE, k) \/ ~Inner(k, W) \/ T[k] \subseteq claimed
    BY DEF Spread
  <2> QED BY <2>1, VisitWaits
<1>5. claimed \subseteq W[MaxDepth]
  BY DEF Spread
<1> QED BY <1>3, <1>4, <1>5 DEF Spread

\* Taking the head leaves all of its planned edges to be told.
LEMMA VisitCounted ==
  ASSUME NEW q \in Seq(SeenNodes), q # <<>>, NEW v \in BOOLEAN, v <=> Head(q).expand, NEW n, NEW claimed, NEW tally, NEW planned, NEW some,
         Counted(q, n, FALSE, claimed, some, tally, planned),
         NEW left, v => tally[Head(q).key] + left = planned[Head(q).key]
  PROVE  Counted(Tail(q), Head(q), v, claimed, left, tally, planned)
<1>1. \A j \in 1 .. Len(Tail(q)) : Tail(q)[j] = q[j + 1] /\ j + 1 \in 1 .. Len(q)
  BY QueueMoves
<1>2. \A i \in 1 .. Len(q) : q[i].expand => tally[q[i].key] = 0
  BY DEF Counted
<1>3. \A i \in 1 .. Len(Tail(q)) : Tail(q)[i].expand => tally[Tail(q)[i].key] = 0
  BY <1>1, <1>2
<1>4. \A k \in claimed : Waits(q, n, FALSE, k) \/ tally[k] = planned[k]
  BY DEF Counted
<1>5. \A k \in claimed : Waits(Tail(q), Head(q), v, k) \/ tally[k] = planned[k]
  BY <1>4, VisitWaits
<1>6. \A k \in Keys \ claimed : tally[k] = 0
  BY DEF Counted
<1> QED BY <1>3, <1>5, <1>6 DEF Counted

\* An edge is told, and its target is not followed.
LEMMA PassedSpread ==
  ASSUME NEW n, NEW claimed, NEW aims, NEW left, NEW T, NEW k, Aimed(n, TRUE, claimed, aims, T),
         n.depth = MaxDepth \/ k \in claimed, left \subseteq aims, aims \subseteq left \cup {k},
         n.depth \in 0 .. MaxDepth
  PROVE  Aimed(n, TRUE, claimed, left, T)
<1>1. MaxDepth \in Nat
  BY WalkAssumption
<1> QED BY <1>1 DEF Aimed

\* An edge of the visited node is told.
LEMMA ToldCounted ==
  ASSUME NEW q, NEW n, NEW claimed, NEW tally \in [Keys -> Nat], NEW planned, NEW left \in Nat, left > 0,
         Counted(q, n, TRUE, claimed, left, tally, planned), Owned(q, n, TRUE, claimed), n.key \in Keys,
         \A i \in 1 .. Len(q) : q[i].expand => q[i].key \in Keys, claimed \subseteq Keys,
         NEW after, \A k \in Keys : after[k] = tally[k] + (IF k = n.key THEN 1 ELSE 0)
  PROVE  Counted(q, n, TRUE, claimed, left - 1, after, planned)
<1>1. \A k \in Keys : k # n.key => after[k] = tally[k]
  OBVIOUS
<1>2. \A k \in Keys \ claimed : after[k] = 0
  BY <1>1 DEF Counted, Owned
<1>3. \A i \in 1 .. Len(q) : q[i].expand => after[q[i].key] = 0
  BY <1>1 DEF Counted, Owned
<1>4. after[n.key] + (left - 1) = planned[n.key]
  <2>1. after[n.key] = tally[n.key] + 1 /\ tally[n.key] \in Nat /\ tally[n.key] + left = planned[n.key]
    BY DEF Counted
  <2> QED BY <2>1
<1>5. \A k \in claimed : Waits(q, n, TRUE, k) \/ after[k] = planned[k]
  BY <1>1 DEF Counted, Waits
<1> QED BY <1>2, <1>3, <1>4, <1>5 DEF Counted

\* A queue with one node joined at its end, position by position.
LEMMA Joins ==
  ASSUME NEW q \in Seq(SeenNodes), NEW x \in SeenNodes
  PROVE  /\ Append(q, x) \in Seq(SeenNodes) /\ Len(Append(q, x)) = Len(q) + 1 /\ Len(q) \in Nat
         /\ Append(q, x)[Len(q) + 1] = x
         /\ \A i \in 1 .. Len(q) : Append(q, x)[i] = q[i]
         /\ \A i \in 1 .. Len(Append(q, x)) : i \in 1 .. Len(q) \/ i = Len(q) + 1
OBVIOUS

\* The target of a tried edge joins the queue, one level down.
Child(x, n) == x \in SeenNodes /\ x.depth = n.depth + 1 /\ x.path = n.path \cup {n.key}

\* A node one level below the visited one joins the queue in order.
LEMMA JoinedLevels ==
  ASSUME NEW q \in Seq(SeenNodes), NEW n, NEW x, Child(x, n), InLevels(q, n), n.depth < MaxDepth
  PROVE  InLevels(Append(q, x), n)
<1> DEFINE r == Append(q, x)
           m == Len(q) + 1
<1>1. /\ Len(r) = m /\ Len(q) \in Nat /\ r[m] = x /\ \A i \in 1 .. Len(q) : r[i] = q[i]
      /\ \A i \in 1 .. Len(r) : i \in 1 .. Len(q) \/ i = m
  BY Joins DEF Child
<1>2. MaxDepth \in Nat /\ n.depth \in Nat /\ n.depth \in 0 .. MaxDepth /\ x.depth = n.depth + 1
  BY WalkAssumption DEF InLevels, Child
<1> HIDE DEF r
<1>3. ASSUME NEW i \in 1 .. Len(r) PROVE r[i].depth \in {n.depth, n.depth + 1} /\ r[i].depth <= MaxDepth
  BY <1>1, <1>2 DEF InLevels
<1>4. ASSUME NEW i \in 1 .. Len(r), NEW j \in 1 .. Len(r), i < j PROVE r[i].depth <= r[j].depth
  <2>1. CASE j = m
    <3>1. r[j].depth = n.depth + 1 /\ r[i].depth \in {n.depth, n.depth + 1}
      BY <1>1, <1>2, <1>3, <2>1
    <3> QED BY <1>2, <3>1
  <2>2. CASE j \in 1 .. Len(q)
    <3>1. i \in 1 .. Len(q)
      BY <1>1, <1>4, <2>2
    <3> QED BY <1>1, <1>4, <2>2, <3>1 DEF InLevels
  <2> QED BY <1>1, <2>1, <2>2
<1>5. InLevels(r, n)
  BY <1>2, <1>3, <1>4 DEF InLevels
<1> QED BY <1>5 DEF r

\* An unclaimed target of the visited node is at its least depth.
LEMMA JoinedTimely ==
  ASSUME NEW q \in Seq(SeenNodes), NEW n, NEW x, Child(x, n), NEW W, NEW T, Widens(W, T), NEW claimed, NEW aims,
         InLevels(q, n), Timely(q, n, TRUE, W), Spread(q, n, TRUE, claimed, W, T),
         Aimed(n, TRUE, claimed, aims, T), n.depth < MaxDepth,
         x.expand => x.key \in aims /\ x.key \notin claimed
  PROVE  Timely(Append(q, x), n, TRUE, W)
<1>1. /\ Append(q, x)[Len(q) + 1] = x
      /\ \A i \in 1 .. Len(q) : Append(q, x)[i] = q[i]
      /\ \A i \in 1 .. Len(Append(q, x)) : i \in 1 .. Len(q) \/ i = Len(q) + 1
  BY Joins DEF Child
<1>2. n.depth \in Nat /\ x.depth = n.depth + 1
  BY DEF InLevels, Child
<1>3. ASSUME x.expand PROVE AtDepth(x, W)
  <2>1. x.key \in T[n.key] /\ n.key \in W[n.depth]
    BY <1>3 DEF Aimed, Timely, AtDepth
  <2>2. x.key \in W[n.depth + 1]
    BY <1>2, <2>1 DEF Widens
  <2>3. x.key \notin W[n.depth]
    BY <1>3 DEF Spread
  <2>4. x.depth - 1 = n.depth
    BY <1>2
  <2> QED BY <1>2, <2>2, <2>3, <2>4 DEF AtDepth
<1> QED BY <1>1, <1>3 DEF Timely

\* A key that was not claimed cannot be waiting yet.
LEMMA JoinedOwned ==
  ASSUME NEW q \in Seq(SeenNodes), NEW n, NEW x, Child(x, n), NEW claimed, NEW claims, Owned(q, n, TRUE, claimed),
         x.expand => x.key \notin claimed /\ x.key \in claims, claimed \subseteq claims
  PROVE  Owned(Append(q, x), n, TRUE, claims)
<1> DEFINE r == Append(q, x)
           m == Len(q) + 1
<1>1. /\ Len(q) \in Nat /\ r[m] = x /\ \A i \in 1 .. Len(q) : r[i] = q[i]
      /\ \A i \in 1 .. Len(r) : i \in 1 .. Len(q) \/ i = m
  BY Joins DEF Child
<1> HIDE DEF r, m
<1>2. n.key \in claims /\ n.path \subseteq claims
  BY DEF Owned
<1>3. \A i \in 1 .. Len(r) : r[i].expand => r[i].key \in claims /\ r[i].path \subseteq claims
  <2>1. x.expand => x.path \subseteq claims
    BY <1>2 DEF Child
  <2> QED BY <1>1, <2>1 DEF Owned
<1>4. \A i \in 1 .. Len(q) : q[i].expand => q[i].key \in claimed
  BY DEF Owned
<1>5. ASSUME NEW i \in 1 .. Len(r), NEW j \in 1 .. Len(r), i # j, r[i].expand, r[j].expand
      PROVE  r[i].key # r[j].key
  <2>1. CASE i \in 1 .. Len(q) /\ j \in 1 .. Len(q)
    BY <1>1, <1>5, <2>1 DEF Owned
  <2>2. CASE i = m /\ j \in 1 .. Len(q)
    BY <1>1, <1>4, <1>5, <2>2
  <2>3. CASE i \in 1 .. Len(q) /\ j = m
    BY <1>1, <1>4, <1>5, <2>3
  <2> QED BY <1>1, <1>5, <2>1, <2>2, <2>3
<1>6. ASSUME NEW i \in 1 .. Len(r), r[i].expand PROVE r[i].key # n.key
  BY <1>1, <1>6 DEF Owned
<1>7. Owned(r, n, TRUE, claims)
  BY <1>2, <1>3, <1>5, <1>6 DEF Owned
<1> QED BY <1>7 DEF r

\* What waited waits on, and the joined key does too.
LEMMA JoinedWaits ==
  ASSUME NEW q \in Seq(SeenNodes), NEW n, NEW x \in SeenNodes, NEW v, NEW k
  PROVE  /\ Waits(q, n, v, k) => Waits(Append(q, x), n, v, k)
         /\ x.expand => Waits(Append(q, x), n, v, x.key)
<1>1. /\ Append(q, x)[Len(q) + 1] = x /\ Len(Append(q, x)) = Len(q) + 1 /\ Len(q) \in Nat
      /\ \A i \in 1 .. Len(q) : Append(q, x)[i] = q[i]
  BY Joins
<1>2. Len(q) + 1 \in 1 .. Len(Append(q, x)) /\ \A i \in 1 .. Len(q) : i \in 1 .. Len(Append(q, x))
  BY <1>1
<1> QED BY <1>1, <1>2 DEF Waits

\* Claiming the target of an edge and queueing it keeps the levels closed.
LEMMA JoinedSpread ==
  ASSUME NEW q \in Seq(SeenNodes), NEW n, NEW x, Child(x, n), NEW W, NEW T, Widens(W, T), NEW claimed, NEW aims,
         InLevels(q, n), Timely(q, n, TRUE, W), Spread(q, n, TRUE, claimed, W, T),
         Aimed(n, TRUE, claimed, aims, T), n.depth < MaxDepth, x.expand => x.key \in aims,
         NEW claims, claims = IF x.expand THEN claimed \cup {x.key} ELSE claimed
  PROVE  Spread(Append(q, x), n, TRUE, claims, W, T)
<1>1. n.depth \in Nat /\ MaxDepth \in Nat /\ x \in SeenNodes
  BY WalkAssumption DEF InLevels, Child
<1>2. W[n.depth] \subseteq claims
  BY DEF Spread
<1>3. x.expand => x.key \in W[MaxDepth]
  <2>1. SUFFICES ASSUME x.expand PROVE x.key \in W[MaxDepth]
    OBVIOUS
  <2>2. x.key \in T[n.key] /\ n.key \in W[n.depth]
    BY <2>1 DEF Aimed, Timely, AtDepth
  <2>3. x.key \in W[n.depth + 1]
    BY <1>1, <2>2 DEF Widens
  <2>4. n.depth + 1 \in Nat /\ n.depth + 1 <= MaxDepth /\ MaxDepth <= MaxDepth
    BY <1>1
  <2>5. W[n.depth + 1] \subseteq W[MaxDepth]
    BY <1>1, <2>4 DEF Widens
  <2> QED BY <2>3, <2>5
<1>4. claims \subseteq W[MaxDepth]
  BY <1>3 DEF Spread
<1>5. ASSUME NEW k \in claims
      PROVE  Waits(Append(q, x), n, TRUE, k) \/ ~Inner(k, W) \/ T[k] \subseteq claims
  <2>1. CASE k \in claimed
    BY <1>1, <2>1, JoinedWaits DEF Spread
  <2>2. CASE k \notin claimed
    BY <1>1, <1>5, <2>2, JoinedWaits
  <2> QED BY <2>1, <2>2
<1> QED BY <1>2, <1>4, <1>5 DEF Spread

\* A key that is claimed now was told no edge before.
LEMMA JoinedCounted ==
  ASSUME NEW q \in Seq(SeenNodes), NEW n, NEW x \in SeenNodes, NEW claimed, NEW tally, NEW planned, NEW left,
         Counted(q, n, TRUE, claimed, left, tally, planned),
         x.expand => x.key \in Keys \ claimed,
         NEW claims, claims = IF x.expand THEN claimed \cup {x.key} ELSE claimed
  PROVE  Counted(Append(q, x), n, TRUE, claims, left, tally, planned)
<1>1. /\ Append(q, x)[Len(q) + 1] = x
      /\ \A i \in 1 .. Len(q) : Append(q, x)[i] = q[i]
      /\ \A i \in 1 .. Len(Append(q, x)) : i \in 1 .. Len(q) \/ i = Len(q) + 1
  BY Joins
<1>2. \A k \in Keys \ claims : tally[k] = 0
  BY DEF Counted
<1>3. \A i \in 1 .. Len(Append(q, x)) : Append(q, x)[i].expand => tally[Append(q, x)[i].key] = 0
  BY <1>1 DEF Counted
<1>4. ASSUME NEW k \in claims PROVE Waits(Append(q, x), n, TRUE, k) \/ tally[k] = planned[k]
  <2>1. CASE k \in claimed
    BY <2>1, JoinedWaits DEF Counted
  <2>2. CASE k \notin claimed
    BY <1>4, <2>2, JoinedWaits
  <2> QED BY <2>1, <2>2
<1>5. tally[n.key] + left = planned[n.key]
  BY DEF Counted
<1> QED BY <1>2, <1>3, <1>4, <1>5 DEF Counted

\* The visited node is closed, when none of its edges is left.
LEMMA CloseShape ==
  ASSUME NEW q \in Seq(SeenNodes), NEW n, NEW W, NEW T, Widens(W, T), NEW claimed, NEW tally \in [Keys -> Nat],
         NEW planned, InLevels(q, n), Timely(q, n, TRUE, W), Owned(q, n, TRUE, claimed),
         Spread(q, n, TRUE, claimed, W, T), Aimed(n, TRUE, claimed, {}, T),
         Counted(q, n, TRUE, claimed, 0, tally, planned), n.key \in Keys, NEW left
  PROVE  /\ Timely(q, n, FALSE, W) /\ Owned(q, n, FALSE, claimed) /\ Spread(q, n, FALSE, claimed, W, T)
         /\ Aimed(n, FALSE, claimed, {}, T) /\ Counted(q, n, FALSE, claimed, left, tally, planned)
<1>1. Timely(q, n, FALSE, W) /\ Aimed(n, FALSE, claimed, {}, T)
  BY DEF Timely, Aimed
<1>2. Owned(q, n, FALSE, claimed)
  BY DEF Owned
<1>3. \A k : Waits(q, n, TRUE, k) => Waits(q, n, FALSE, k) \/ k = n.key
  BY DEF Waits
<1>4. Inner(n.key, W) => T[n.key] \subseteq claimed
  <2>1. MaxDepth \in Nat /\ n.depth \in Nat /\ n.depth <= MaxDepth
    BY WalkAssumption DEF InLevels
  <2>2. CASE n.depth < MaxDepth
    BY <2>2 DEF Aimed
  <2>3. CASE n.depth = MaxDepth
    BY <2>1, <2>3 DEF Inner, Timely, AtDepth
  <2> QED BY <2>1, <2>2, <2>3
<1>5. Spread(q, n, FALSE, claimed, W, T)
  BY <1>3, <1>4 DEF Spread
<1>6. tally[n.key] = planned[n.key]
  BY DEF Counted
<1>7. Counted(q, n, FALSE, claimed, left, tally, planned)
  BY <1>3, <1>6 DEF Counted
<1> QED BY <1>1, <1>2, <1>5, <1>7

\* The root is asked for first.
LEMMA BeginShape ==
  ASSUME NEW q, NEW n, n.depth = 0, NEW x, q = <<x>>, x.key = Root, x.depth = 0, x.expand, x.path = {},
         NEW W, NEW T, Widens(W, T), NEW tally, \A k \in Keys : tally[k] = 0, NEW planned
  PROVE  Shape(q, n, FALSE, {Root}, W, T, {}, 0, tally, planned)
<1>1. /\ Len(q) = 1 /\ q[1].depth = 0 /\ q[1].key = Root /\ q[1].path = {} /\ q[1].expand
      /\ \A i \in 1 .. Len(q) : i = 1
  OBVIOUS
<1>2. MaxDepth \in Nat /\ Root \in Keys
  BY WalkAssumption
<1>3. W[0] = {Root} /\ {Root} \subseteq W[MaxDepth]
  <2>1. 0 \in Nat /\ 0 <= MaxDepth /\ MaxDepth <= MaxDepth
    BY <1>2
  <2>2. W[0] \subseteq W[MaxDepth]
    BY <1>2, <2>1 DEF Widens
  <2> QED BY <2>2 DEF Widens
<1>4. InLevels(q, n)
  BY <1>1, <1>2 DEF InLevels
<1>5. Timely(q, n, FALSE, W)
  BY <1>1, <1>3 DEF Timely, AtDepth
<1>6. Owned(q, n, FALSE, {Root})
  BY <1>1 DEF Owned
<1>7. Waits(q, n, FALSE, Root)
  BY <1>1 DEF Waits
<1>8. Spread(q, n, FALSE, {Root}, W, T)
  BY <1>3, <1>7 DEF Spread
<1>9. Counted(q, n, FALSE, {Root}, 0, tally, planned)
  <2>1. \A i \in 1 .. Len(q) : q[i].expand => tally[q[i].key] = 0
    BY <1>1, <1>2
  <2>2. \A k \in {Root} : Waits(q, n, FALSE, k) \/ tally[k] = planned[k]
    BY <1>7
  <2> QED BY <2>1, <2>2 DEF Counted
<1>10. Aimed(n, FALSE, {Root}, {}, T)
  BY DEF Aimed
<1> QED BY <1>4, <1>5, <1>6, <1>8, <1>9, <1>10 DEF Shape

\* Induction over the natural numbers, for a property that is a set.
LEMMA SetInduction ==
  ASSUME NEW S, 0 \in S, \A k \in Nat : k \in S => k + 1 \in S
  PROVE  \A n \in Nat : n \in S
<1>1. SUFFICES ASSUME NEW n \in Nat, n \notin S PROVE FALSE
  OBVIOUS
<1> DEFINE A == {k \in 0 .. n : k \in S}
           f == [k \in A |-> k + 1]
<1>2. \A k \in A : k + 1 \in A \ {0}
  BY <1>1
<1>3. f \in Injection(A, A \ {0})
  BY <1>2 DEF Injection, IsInjective
<1>4. IsFiniteSet(A) /\ Cardinality(A) \in Nat
  <2>1. IsFiniteSet(0 .. n)
    BY FS_Interval
  <2>2. A \in SUBSET (0 .. n)
    OBVIOUS
  <2>3. IsFiniteSet(A)
    BY <2>1, <2>2, FS_Subset
  <2> QED BY <2>3, FS_CardinalityType
<1>5. IsFiniteSet(A \ {0}) /\ Cardinality(A \ {0}) = Cardinality(A) - 1
  <2>1. 0 \in A
    BY <1>1
  <2> QED BY <2>1, <1>4, FS_RemoveElement
<1>6. Cardinality(A) <= Cardinality(A \ {0})
  BY <1>3, <1>5, FS_Injection
<1> QED BY <1>4, <1>5, <1>6

AllTold(W, claimed, tally, planned) == claimed = W[MaxDepth] /\ \A k \in claimed : tally[k] = planned[k]

\* When nothing waits, the claimed keys are those within the depth, and all
\* their edges are told.
LEMMA AllClaimed ==
  ASSUME NEW q, q = <<>>, NEW n, NEW W, NEW T, Widens(W, T), NEW claimed, NEW tally, NEW planned, NEW left, NEW aims,
         Shape(q, n, FALSE, claimed, W, T, aims, left, tally, planned)
  PROVE  AllTold(W, claimed, tally, planned)
<1>0. InLevels(q, n) /\ Spread(q, n, FALSE, claimed, W, T) /\ Counted(q, n, FALSE, claimed, left, tally, planned)
  BY DEF Shape
<1>1. MaxDepth \in Nat /\ n.depth \in Nat /\ n.depth <= MaxDepth
  BY <1>0, WalkAssumption DEF InLevels
<1>2. \A k : ~Waits(q, n, FALSE, k)
  <2>1. \A i \in 1 .. Len(q) : FALSE
    OBVIOUS
  <2> QED BY <2>1 DEF Waits
<1> DEFINE S == {d \in Nat : d <= MaxDepth => W[d] \subseteq claimed}
<1>3. 0 \in S
  <2>1. 0 \in Nat /\ 0 <= n.depth
    BY <1>1
  <2>2. W[0] \subseteq W[n.depth]
    BY <1>1, <2>1 DEF Widens
  <2> QED BY <1>0, <2>2 DEF Spread
<1>4. ASSUME NEW d \in Nat, d \in S PROVE d + 1 \in S
  <2>1. SUFFICES ASSUME d + 1 <= MaxDepth PROVE W[d + 1] \subseteq claimed
    OBVIOUS
  <2>2. d < MaxDepth /\ d <= MaxDepth /\ d <= MaxDepth - 1 /\ MaxDepth - 1 \in Nat /\ MaxDepth - 1 <= MaxDepth /\ MaxDepth > 0
    BY <1>1, <2>1
  <2>3. W[d] \subseteq claimed
    BY <1>4, <2>2
  <2>4. W[d] \subseteq W[MaxDepth - 1]
    BY <2>2 DEF Widens
  <2>5. \A k \in W[d] : T[k] \subseteq claimed
    BY <1>0, <1>2, <2>2, <2>3, <2>4 DEF Spread, Inner
  <2>6. \A x : x \in W[d + 1] <=> (x \in W[d] \/ \E k \in W[d] : x \in T[k])
    BY <2>2 DEF Widens
  <2> QED BY <2>3, <2>5, <2>6
<1>5. \A d \in Nat : d \in S
  <2> HIDE DEF S
  <2> QED BY <1>3, <1>4, SetInduction
<1>6. W[MaxDepth] \subseteq claimed
  BY <1>1, <1>5
<1> QED BY <1>0, <1>2, <1>6 DEF Spread, Counted, AllTold

-----------------------------------------------------------------------------
(* The keys within each depth.                                             *)

WithinUpto(n, w) == w = [d \in 0 .. n |-> IF d = 0 THEN {Root} ELSE Wider(w[d - 1])]

\* The recursion over the depth, read at one depth.
LEMMA WithinAt ==
  ASSUME NEW n \in Nat, NEW w, WithinUpto(n, w), NEW i \in 0 .. n
  PROVE  w[i] = IF i = 0 THEN {Root} ELSE Wider(w[i - 1])
<1>1. \A h : h = [d \in 0 .. n |->
                    IF d = 0 THEN {Root} ELSE Wider(w[d - 1])]
        => h[i] = IF i = 0 THEN {Root} ELSE Wider(w[i - 1])
  OBVIOUS
<1> QED BY <1>1, Zenon DEF WithinUpto

\* The recursion over the depth has a solution.
LEMMA WithinExists ==
  ASSUME NEW n \in Nat
  PROVE  \E w : WithinUpto(n, w)
<1> DEFINE K == {k \in Nat : \E w : WithinUpto(k, w)}
<1>1. 0 \in K
  <2> DEFINE one == [d \in 0 .. 0 |-> {Root}]
  <2>1. one = [d \in 0 .. 0 |->
                 IF d = 0 THEN {Root} ELSE Wider(one[d - 1])]
    OBVIOUS
  <2> QED BY <2>1 DEF WithinUpto
<1>2. ASSUME NEW m \in Nat, m \in K PROVE m + 1 \in K
  <2>1. PICK w : WithinUpto(m, w)
    BY <1>2
  <2> DEFINE step(d) == IF d = 0 THEN {Root} ELSE Wider(w[d - 1])
             u == [d \in 0 .. (m + 1) |-> step(d)]
  <2>2. ASSUME NEW d \in 0 .. m PROVE u[d] = w[d]
    <3>1. w[d] = IF d = 0 THEN {Root} ELSE Wider(w[d - 1])
      BY <2>1, WithinAt, Zenon
    <3>2. w[d] = step(d)
      BY <3>1, Zenon
    <3>3. d \in 0 .. (m + 1)
      OBVIOUS
    <3> HIDE DEF step
    <3> QED BY <3>2, <3>3
  <2>3. \A d \in 0 .. (m + 1) : u[d] = IF d = 0 THEN {Root} ELSE Wider(u[d - 1])
    <3>1. ASSUME NEW d \in 0 .. (m + 1) PROVE u[d] = IF d = 0 THEN {Root} ELSE Wider(u[d - 1])
      <4>1. u[d] = step(d)
        OBVIOUS
      <4>2. d # 0 => u[d - 1] = w[d - 1]
        <5>1. d # 0 => d - 1 \in 0 .. m
          OBVIOUS
        <5> HIDE DEF u
        <5> QED BY <2>2, <5>1
      <4> HIDE DEF u
      <4> QED BY <4>1, <4>2
    <3> QED BY <3>1
  <2>4. u = [d \in 0 .. (m + 1) |-> u[d]]
    OBVIOUS
  <2> HIDE DEF u
  <2>5. WithinUpto(m + 1, u)
    <3>1. u = [d \in 0 .. (m + 1) |-> IF d = 0 THEN {Root} ELSE Wider(u[d - 1])]
      BY <2>3, <2>4
    <3> QED BY <3>1 DEF WithinUpto
  <2>6. m + 1 \in Nat /\ \E h : WithinUpto(m + 1, h)
    BY <2>5
  <2> QED BY <2>6
<1>3. n \in K
  <2> HIDE DEF K
  <2> QED BY <1>1, <1>2, SetInduction
<1> QED BY <1>3

\* The good edges of a key lead to keys.
LEMMA GoodTyped ==
  ASSUME world \in Worlds, NEW k \in Keys, NEW e \in GoodEdges(k)
  PROVE  e.to \in Keys
<1> DEFINE found == FoundOn(world, k)
<1>1. found.edges \in Seq(Edges) /\ found.collections \in Seq(Collections)
  BY WorldsAssumption DEF Collections
<1>2. \/ e \in {found.edges[i] : i \in DOMAIN found.edges}
      \/ e \in UNION {{CollectionEdge(found.collections, c, i, i) : i \in DOMAIN found.collections[c].pages} :
                        c \in DOMAIN found.collections}
  BY DEF GoodEdges
<1> HIDE DEF found
<1>3. CASE e \in {found.edges[i] : i \in DOMAIN found.edges}
  <2>1. e \in Edges
    BY <1>1, <1>3
  <2> QED BY <2>1 DEF Edges
<1>4. CASE e \in UNION {{CollectionEdge(found.collections, c, i, i) : i \in DOMAIN found.collections[c].pages} :
                          c \in DOMAIN found.collections}
  <2>4. PICK c \in DOMAIN found.collections :
          e \in {CollectionEdge(found.collections, c, i, i) : i \in DOMAIN found.collections[c].pages}
    BY <1>4
  <2>1. PICK i \in DOMAIN found.collections[c].pages : e = CollectionEdge(found.collections, c, i, i)
    BY <2>4
  <2>5. found.collections[c] \in Collections
    BY <1>1
  <2>2. found.collections[c].pages \in Seq(Keys)
    BY <2>5 DEF Collections
  <2>3. found.collections[c].pages[i] \in Keys
    BY <2>2
  <2> QED BY <2>1, <2>3 DEF CollectionEdge
<1> QED BY <1>2, <1>3, <1>4

\* A solution of the recursion is a chain of sets of keys, each the last one and its targets.
LEMMA SolutionWidens ==
  ASSUME world \in Worlds, NEW W, WithinUpto(MaxDepth, W)
  PROVE  Widens(W, Targets)
<1>1. MaxDepth \in Nat /\ Root \in Keys
  BY WalkAssumption
<1>3. W[0] = {Root}
  <2>1. 0 \in 0 .. MaxDepth
    BY <1>1
  <2> QED BY <1>1, <2>1, WithinAt, Zenon
<1>4. ASSUME NEW d \in Nat, d < MaxDepth
      PROVE  W[d + 1] = Wider(W[d])
  <2>1. d + 1 \in 0 .. MaxDepth /\ d + 1 # 0 /\ (d + 1) - 1 = d
    BY <1>1, <1>4
  <2>2. W[d + 1] = IF d + 1 = 0 THEN {Root}
                   ELSE Wider(W[(d + 1) - 1])
    BY <1>1, <2>1, WithinAt, Zenon
  <2> QED BY <2>1, <2>2, Zenon
<1> DEFINE S == {d \in Nat : d <= MaxDepth => W[d] \subseteq Keys}
<1>5. 0 \in S
  BY <1>1, <1>3
<1>6. ASSUME NEW d \in Nat, d \in S PROVE d + 1 \in S
  <2>1. SUFFICES ASSUME d + 1 <= MaxDepth PROVE W[d + 1] \subseteq Keys
    OBVIOUS
  <2>2. d < MaxDepth /\ W[d] \subseteq Keys
    BY <1>1, <1>6, <2>1
  <2> QED BY <1>4, <2>2, GoodTyped DEF Wider
<1>7. \A d \in Nat : d \in S
  <2> HIDE DEF S
  <2> QED BY <1>5, <1>6, SetInduction
<1>8. ASSUME NEW d \in Nat, d < MaxDepth
      PROVE  \A x : x \in W[d + 1] <=> (x \in W[d] \/ \E k \in W[d] : x \in Targets[k])
  <2>1. \A k \in W[d] : Targets[k] = {e.to : e \in GoodEdges(k)}
    BY <1>1, <1>7, <1>8 DEF Targets
  <2>2. W[d + 1] = Wider(W[d])
    BY <1>4, <1>8
  <2> QED BY <2>1, <2>2 DEF Wider
<1> DEFINE M(d) == {f \in Nat : d + f <= MaxDepth => W[d] \subseteq W[d + f]}
<1>9. ASSUME NEW d \in Nat PROVE \A f \in Nat : f \in M(d)
  <2>1. 0 \in M(d)
    OBVIOUS
  <2>2. ASSUME NEW f \in Nat, f \in M(d) PROVE f + 1 \in M(d)
    <3>1. SUFFICES ASSUME d + (f + 1) <= MaxDepth PROVE W[d] \subseteq W[d + (f + 1)]
      OBVIOUS
    <3>2. d + f \in Nat /\ d + f < MaxDepth /\ (d + f) + 1 = d + (f + 1)
      BY <1>1, <3>1
    <3>3. W[d + f] \subseteq W[(d + f) + 1]
      BY <1>4, <3>2 DEF Wider
    <3>4. W[d] \subseteq W[d + f]
      BY <2>2, <3>2, <1>1
    <3> QED BY <3>2, <3>3, <3>4
  <2> HIDE DEF M
  <2> QED BY <2>1, <2>2, SetInduction
<1>10. ASSUME NEW d \in Nat, NEW e \in Nat, d <= e, e <= MaxDepth PROVE W[d] \subseteq W[e]
  <2>1. e - d \in Nat /\ d + (e - d) = e
    BY <1>10
  <2>2. e - d \in M(d)
    <3> HIDE DEF M
    <3> QED BY <1>9, <2>1
  <2> QED BY <1>10, <2>1, <2>2
<1>11. \A d \in Nat : d <= MaxDepth => W[d] \subseteq Keys
  BY <1>7
<1> QED BY <1>3, <1>8, <1>10, <1>11 DEF Widens

\* The keys within each depth are such a chain.
LEMMA WithinWidens == ASSUME world \in Worlds PROVE Widens(Within, Targets)
<1>1. MaxDepth \in Nat
  BY WalkAssumption
<1>2. \E w : WithinUpto(MaxDepth, w)
  BY <1>1, WithinExists
<1>3. WithinUpto(MaxDepth, Within)
  BY <1>2, Zenon DEF WithinUpto, Within
<1> QED BY <1>3, SolutionWidens

\* What is reachable is what is within the whole depth.
LEMMA ReachIs == Reach = Within[MaxDepth]
BY DEF Reach, Within, Wider

-----------------------------------------------------------------------------
(* The schedule of a key holds its references, each of them once.          *)

Among(x, list) == \E n \in 1 .. Len(list) : list[n] = x

\* Sorting a finite set into a list loses none of its elements.
LEMMA AmongArranged ==
  ASSUME NEW a, NEW s, NEW R, NEW I, IsFiniteSet(I), Orders(R, I), IsArranged(a, s, R, I)
  PROVE  \A x : Among(x, a) <=> \E i \in I : s[i] = x
<1>1. Len(a) = Cardinality(I) /\ \A n \in 1 .. Cardinality(I) : Place(R, I, n) \in I /\ a[n] = s[Place(R, I, n)]
  BY DEF IsArranged
<1>2. ASSUME NEW i \in I PROVE Among(s[i], a)
  <2>1. PICK n \in 1 .. Cardinality(I) : Place(R, I, n) = i
    BY PlaceOf
  <2> QED BY <1>1, <2>1 DEF Among
<1>3. ASSUME NEW x, Among(x, a) PROVE \E i \in I : s[i] = x
  <2>1. PICK n \in 1 .. Len(a) : a[n] = x
    BY <1>3 DEF Among
  <2> QED BY <1>1, <2>1
<1> QED BY <1>2, <1>3

\* What is in a concatenation is in one of its parts.
LEMMA AmongJoined ==
  ASSUME NEW S, NEW a \in Seq(S), NEW b \in Seq(S)
  PROVE  \A x : Among(x, a \o b) <=> Among(x, a) \/ Among(x, b)
<1> DEFINE c == a \o b
<1>1. /\ Len(c) = Len(a) + Len(b) /\ Len(a) \in Nat /\ Len(b) \in Nat
      /\ \A i \in 1 .. Len(a) : c[i] = a[i]
      /\ \A i \in 1 .. Len(b) : c[Len(a) + i] = b[i]
      /\ \A i \in 1 .. Len(c) : i > Len(a) => c[i] = b[i - Len(a)]
  BY ConcatProperties
<1> HIDE DEF c
<1>2. ASSUME NEW x, NEW n \in 1 .. Len(c), c[n] = x PROVE Among(x, a) \/ Among(x, b)
  <2>1. CASE n <= Len(a)
    <3>1. n \in 1 .. Len(a)
      BY <1>1, <2>1
    <3> QED BY <1>1, <1>2, <3>1 DEF Among
  <2>2. CASE n > Len(a)
    <3>1. n - Len(a) \in 1 .. Len(b)
      BY <1>1, <2>2
    <3>2. c[n] = b[n - Len(a)]
      BY <1>1, <2>2
    <3> QED BY <1>2, <3>1, <3>2 DEF Among
  <2> QED BY <1>1, <2>1, <2>2
<1>3. ASSUME NEW x, NEW n \in 1 .. Len(a), a[n] = x PROVE Among(x, c)
  <2>1. n \in 1 .. Len(c)
    BY <1>1
  <2> QED BY <1>1, <1>3, <2>1 DEF Among
<1>4. ASSUME NEW x, NEW n \in 1 .. Len(b), b[n] = x PROVE Among(x, c)
  <2>1. Len(a) + n \in 1 .. Len(c)
    BY <1>1
  <2> QED BY <1>1, <1>4, <2>1 DEF Among
<1>5. \A x : Among(x, c) <=> Among(x, a) \/ Among(x, b)
  BY <1>2, <1>3, <1>4 DEF Among
<1> QED BY <1>5 DEF c

\* What the schedule of k holds: the edges planned, and the items to be read.
Holds(k, x) ==
  \/ \E i \in DOMAIN FoundOn(world, k).edges : FoundOn(world, k).edges[i] = x
  \/ \E y \in Places(FoundOn(world, k).collections) : ItemAt(FoundOn(world, k).collections, y) = x

\* The schedule of a node holds its planned edges and the items of its collections.
LEMMA ScheduleHolds ==
  ASSUME world \in Worlds, NEW k \in Keys
  PROVE  /\ ScheduleOf(world, k) \in Seq(WalkEdges)
         /\ Len(ScheduleOf(world, k)) = EdgesPlanned(k)
         /\ \A x : Among(x, ScheduleOf(world, k)) <=> Holds(k, x)
<1> DEFINE edges == FoundOn(world, k).edges
           cs == FoundOn(world, k).collections
           I == RankBefore(edges)
           J == DOMAIN edges \ I
           R == InSchedule(edges)
           a == BeforeCollections(edges)
           b == ItemsFrom(cs, 1, 1)
           c == AfterCollections(edges)
           s == [y \in Places(cs) |-> ItemAt(cs, y)]
           Q == InReading(Places(cs))
<1>1. edges \in Seq(Edges) /\ cs \in Seq(Collections)
  BY WorldsAssumption DEF Collections
<1>2. ScheduleOf(world, k) = a \o b \o c /\ EdgesPlanned(k) = Len(edges) + Cardinality(Places(cs))
  BY DEF ScheduleOf, EdgesPlanned
<1>3. \A x : Holds(k, x) <=> (\E i \in DOMAIN edges : edges[i] = x) \/ \E y \in Places(cs) : ItemAt(cs, y) = x
  BY DEF Holds
<1>4. a = Arranged(edges, I, R) /\ c = Arranged(edges, J, R)
  BY DEF BeforeCollections, AfterCollections
<1> HIDE DEF edges, cs
<1>5. DOMAIN edges = 1 .. Len(edges) /\ Len(edges) \in Nat /\ I \subseteq DOMAIN edges /\ J \subseteq DOMAIN edges
  BY <1>1 DEF RankBefore
<1>6. \A i \in DOMAIN edges : edges[i] \in WalkEdges
  <2>1. \A i \in DOMAIN edges : edges[i] \in Edges
    BY <1>1
  <2> QED BY <2>1 DEF Edges, WalkEdges
<1> HIDE DEF I
<1>7. IsFiniteSet(I) /\ Orders(R, I) /\ IsFiniteSet(J) /\ Orders(R, J)
  <2> HIDE DEF J
  <2> QED BY <1>1, <1>5, ScheduleOrders
<1>8. Gives(edges, I, WalkEdges) /\ Gives(edges, J, WalkEdges)
  BY <1>5, <1>6 DEF Gives
<1>9. Cardinality(I) + Cardinality(J) = Len(edges) /\ Cardinality(I) \in Nat /\ Cardinality(J) \in Nat
  <2>1. IsFiniteSet(1 .. Len(edges)) /\ Cardinality(1 .. Len(edges)) = Len(edges)
    <3>1. IsFiniteSet(1 .. Len(edges)) /\
          Cardinality(1 .. Len(edges)) = IF 1 > Len(edges) THEN 0 ELSE Len(edges) - 1 + 1
      BY <1>5, FS_Interval
    <3> QED BY <1>5, <3>1
  <2>2. IsFiniteSet(DOMAIN edges) /\ Cardinality(DOMAIN edges) = Len(edges)
    BY <1>5, <2>1
  <2>3. I \cap J = {} /\ I \cup J = DOMAIN edges
    BY <1>5
  <2> HIDE DEF J
  <2>4. Cardinality(I \cup J) = Cardinality(I) + Cardinality(J) - Cardinality(I \cap J)
    BY <1>7, FS_Union
  <2>5. Cardinality(I) \in Nat /\ Cardinality(J) \in Nat /\ Cardinality({}) = 0
    BY <1>7, FS_CardinalityType, FS_EmptySet
  <2>6. Cardinality(I \cap J) = 0
    BY <2>3, <2>5
  <2>7. Cardinality(I \cup J) = Len(edges)
    BY <2>2, <2>3
  <2> QED BY <2>4, <2>5, <2>6, <2>7
<1> HIDE DEF R, J
<1>10. a \in Seq(WalkEdges) /\ IsArranged(a, edges, R, I) /\ c \in Seq(WalkEdges) /\ IsArranged(c, edges, R, J)
  BY <1>4, <1>7, <1>8, ArrangedAre
<1>11. \A x : (Among(x, a) \/ Among(x, c)) <=> \E i \in DOMAIN edges : edges[i] = x
  <2>1. \A x : Among(x, a) <=> \E i \in I : edges[i] = x
    <3> HIDE DEF a
    <3> QED BY <1>7, <1>10, AmongArranged
  <2>2. \A x : Among(x, c) <=> \E i \in J : edges[i] = x
    <3> HIDE DEF c
    <3> QED BY <1>7, <1>10, AmongArranged
  <2>3. DOMAIN edges = I \cup J
    BY <1>5 DEF J
  <2> HIDE DEF a, c
  <2> QED BY <2>1, <2>2, <2>3
<1>12. /\ From(cs, 1, 1) \subseteq Places(cs) /\ IsFiniteSet(From(cs, 1, 1)) /\ Orders(Q, From(cs, 1, 1))
       /\ Gives(s, From(cs, 1, 1), WalkEdges) /\ b = Arranged(s, From(cs, 1, 1), Q)
  BY <1>1, ItemsAre
<1>13. From(cs, 1, 1) = Places(cs)
  <2>1. ASSUME NEW x \in Places(cs) PROVE x \in From(cs, 1, 1)
    <3>1. x[1] \in 1 .. Len(cs) /\ x[2] \in 1 .. Len(cs[x[1]].pages) /\ cs[x[1]].pages \in Seq(Keys)
      BY <1>1, PlaceShape
    <3>2. x[1] \in Nat /\ x[1] >= 1 /\ x[2] \in Nat /\ x[2] >= 1
      BY <1>1, <3>1
    <3> QED BY <3>2 DEF From
  <2> QED BY <1>12, <2>1
<1>14. \A y \in Places(cs) : s[y] = ItemAt(cs, y)
  OBVIOUS
<1> HIDE DEF s, Q
<1>15. b \in Seq(WalkEdges) /\ IsArranged(b, s, Q, Places(cs))
  <2> HIDE DEF b
  <2> QED BY <1>12, <1>13, ArrangedAre
<1>16. \A x : Among(x, b) <=> \E y \in Places(cs) : ItemAt(cs, y) = x
  <2> HIDE DEF b
  <2>1. \A x : Among(x, b) <=> \E y \in Places(cs) : s[y] = x
    BY <1>12, <1>13, <1>15, AmongArranged
  <2> QED BY <1>14, <2>1
<1> HIDE DEF a, b, c
<1>17. /\ a \o b \in Seq(WalkEdges) /\ (a \o b) \o c \in Seq(WalkEdges)
       /\ Len((a \o b) \o c) = Len(a) + Len(b) + Len(c)
  BY <1>10, <1>15
<1>18. Len(a) = Cardinality(I) /\ Len(c) = Cardinality(J) /\ Len(b) = Cardinality(Places(cs)) /\ Len(b) \in Nat
  BY <1>10, <1>15 DEF IsArranged
<1>19. Len((a \o b) \o c) = Len(edges) + Cardinality(Places(cs))
  BY <1>9, <1>17, <1>18
<1>20. \A x : Among(x, (a \o b) \o c) <=> (Among(x, a) \/ Among(x, b)) \/ Among(x, c)
  <2>1. \A x : Among(x, a \o b) <=> Among(x, a) \/ Among(x, b)
    BY <1>10, <1>15, AmongJoined
  <2>2. \A x : Among(x, (a \o b) \o c) <=> Among(x, a \o b) \/ Among(x, c)
    <3> DEFINE ab == a \o b
    <3>1. ab \in Seq(WalkEdges)
      BY <1>17
    <3> HIDE DEF ab
    <3>2. \A x : Among(x, ab \o c) <=> Among(x, ab) \/ Among(x, c)
      BY <1>10, <3>1, AmongJoined
    <3> QED BY <3>2 DEF ab
  <2> QED BY <2>1, <2>2
<1>21. \A x : Among(x, (a \o b) \o c) <=> Holds(k, x)
  BY <1>3, <1>11, <1>16, <1>20
<1> QED BY <1>2, <1>17, <1>19, <1>21

\* A target is aimed at through a good edge of the list.
LEMMA AimsAre ==
  ASSUME NEW list
  PROVE  \A t : t \in Aims(world, list) <=> \E x : Among(x, list) /\ Good(world, x) /\ x.to = t
BY DEF Aims, Among

\* The good edges of a key, by where they come from.
LEMMA GoodEdgesAre ==
  ASSUME NEW k, NEW x
  PROVE  x \in GoodEdges(k) <=>
           /\ Good(world, x)
           /\ \/ \E i \in DOMAIN FoundOn(world, k).edges : FoundOn(world, k).edges[i] = x
              \/ \E c \in DOMAIN FoundOn(world, k).collections :
                   \E i \in DOMAIN FoundOn(world, k).collections[c].pages :
                     CollectionEdge(FoundOn(world, k).collections, c, i, i) = x
BY DEF GoodEdges, Good, Entity

\* What a node may claim is what the references that are good name.
LEMMA ScheduleAims ==
  ASSUME world \in Worlds, NEW k \in Keys
  PROVE  Aims(world, ScheduleOf(world, k)) = Targets[k]
<1> DEFINE cs == FoundOn(world, k).collections
           edges == FoundOn(world, k).edges
<1>1. cs \in Seq(Collections)
  BY WorldsAssumption DEF Collections
<1>2. Targets[k] = {e.to : e \in GoodEdges(k)}
  BY DEF Targets
<1>3. ASSUME NEW x, Holds(k, x), Good(world, x) PROVE x.to \in Targets[k]
  <2>1. CASE \E i \in DOMAIN edges : edges[i] = x
    BY <1>2, <1>3, <2>1, GoodEdgesAre
  <2>2. CASE \E y \in Places(cs) : ItemAt(cs, y) = x
    <3>1. PICK y \in Places(cs) : ItemAt(cs, y) = x
      BY <2>2
    <3>2. PICK c \in DOMAIN cs : y \in {c} \X DOMAIN cs[c].pages
      BY DEF Places
    <3>3. y[1] = c /\ y[2] \in DOMAIN cs[c].pages
      BY <3>2
    <3> DEFINE z == CollectionEdge(cs, c, y[2], y[2])
    <3>4. z.to = x.to /\ Good(world, z)
      <4>1. z.to = x.to /\ z.declared = x.declared /\ z.expandable = TRUE
        BY <3>1, <3>3 DEF ItemAt, CollectionEdge
      <4> HIDE DEF z
      <4> QED BY <1>3, <4>1 DEF Good
    <3>5. z \in GoodEdges(k)
      BY <3>3, <3>4, GoodEdgesAre
    <3> HIDE DEF z
    <3> QED BY <1>2, <3>4, <3>5
  <2> QED BY <1>3, <2>1, <2>2 DEF Holds
<1>4. ASSUME NEW x \in GoodEdges(k) PROVE \E z : Holds(k, z) /\ Good(world, z) /\ z.to = x.to
  <2>1. CASE \E i \in DOMAIN edges : edges[i] = x
    BY <2>1, GoodEdgesAre DEF Holds
  <2>2. CASE \E c \in DOMAIN cs : \E i \in DOMAIN cs[c].pages : CollectionEdge(cs, c, i, i) = x
    <3>1. PICK c \in DOMAIN cs : \E i \in DOMAIN cs[c].pages : CollectionEdge(cs, c, i, i) = x
      BY <2>2
    <3>2. PICK i \in DOMAIN cs[c].pages : CollectionEdge(cs, c, i, i) = x
      BY <3>1
    <3> DEFINE y == <<c, i>>
               z == ItemAt(cs, y)
    <3>3. y \in Places(cs)
      BY DEF Places
    <3>4. z.to = x.to /\ z.declared = x.declared /\ z.expandable = TRUE
      BY <3>2 DEF ItemAt, CollectionEdge
    <3>5. Holds(k, z)
      BY <3>3 DEF Holds
    <3> HIDE DEF z
    <3>6. Good(world, x)
      BY GoodEdgesAre
    <3> QED BY <3>4, <3>5, <3>6 DEF Good
  <2> QED BY <2>1, <2>2, GoodEdgesAre
<1>5. \A t : t \in Aims(world, ScheduleOf(world, k)) <=> \E x : Among(x, ScheduleOf(world, k)) /\ Good(world, x) /\ x.to = t
  BY AimsAre
<1>6. \A x : Among(x, ScheduleOf(world, k)) <=> Holds(k, x)
  BY ScheduleHolds
<1>7. \A t : t \in Aims(world, ScheduleOf(world, k)) <=> \E x : Holds(k, x) /\ Good(world, x) /\ x.to = t
  BY <1>5, <1>6
<1>8. \A t : t \in Targets[k] <=> \E x \in GoodEdges(k) : x.to = t
  BY <1>2
<1> HIDE DEF cs, edges
<1>9. \A t : t \in Aims(world, ScheduleOf(world, k)) <=> t \in Targets[k]
  BY <1>3, <1>4, <1>7, <1>8
<1> QED BY <1>9

-----------------------------------------------------------------------------
(* What each step of the sequential walk does to the shape of the walk.    *)

\* The shape is kept when the head of the queue is visited.
LEMMA ShapeVisit ==
  ASSUME NEW q \in Seq(SeenNodes), q # <<>>, NEW v \in BOOLEAN, v <=> Head(q).expand,
         NEW n, NEW claimed, NEW W, NEW T, Widens(W, T), NEW tally, NEW planned,
         Shape(q, n, FALSE, claimed, W, T, {}, 0, tally, planned),
         NEW aims, v => aims = T[Head(q).key],
         NEW left, v => left = planned[Head(q).key] /\ planned[Head(q).key] \in Nat
  PROVE  Shape(Tail(q), Head(q), v, claimed, W, T, aims, left, tally, planned)
<1>1. /\ InLevels(q, n) /\ Timely(q, n, FALSE, W) /\ Owned(q, n, FALSE, claimed)
      /\ Spread(q, n, FALSE, claimed, W, T) /\ Counted(q, n, FALSE, claimed, 0, tally, planned)
  BY DEF Shape
<1>2. v => tally[Head(q).key] + left = planned[Head(q).key]
  <2>1. v => tally[Head(q).key] = 0
    <3>1. 1 \in 1 .. Len(q) /\ Head(q) = q[1]
      BY QueueMoves
    <3> QED BY <1>1, <3>1 DEF Counted
  <2> QED BY <2>1
<1>3. InLevels(Tail(q), Head(q)) /\ Timely(Tail(q), Head(q), v, W) /\ Owned(Tail(q), Head(q), v, claimed)
  BY <1>1, VisitLevels, VisitTimely, VisitOwned
<1>4. Spread(Tail(q), Head(q), v, claimed, W, T)
  BY <1>1, VisitSpread
<1>5. Counted(Tail(q), Head(q), v, claimed, left, tally, planned)
  BY <1>1, <1>2, VisitCounted
<1>6. Aimed(Head(q), v, claimed, aims, T)
  BY DEF Aimed
<1> QED BY <1>3, <1>4, <1>5, <1>6 DEF Shape

\* One more edge of the visited node is told.
Tallied(tally, after, n) == \A k \in Keys : after[k] = tally[k] + (IF k = n.key THEN 1 ELSE 0)
Typed(q, n, claimed, tally, left) ==
  /\ q \in Seq(SeenNodes) /\ n.key \in Keys /\ claimed \subseteq Keys /\ tally \in [Keys -> Nat]
  /\ left \in Nat /\ left > 0 /\ \A i \in 1 .. Len(q) : q[i].key \in Keys

\* The shape is kept when an edge is told that claims nothing.
LEMMA ShapePassed ==
  ASSUME NEW q, NEW n, NEW claimed, NEW W, NEW T, NEW aims, NEW left, NEW tally, NEW planned,
         Typed(q, n, claimed, tally, left),
         Shape(q, n, TRUE, claimed, W, T, aims, left, tally, planned),
         NEW k, n.depth = MaxDepth \/ k \in claimed,
         NEW aims2, aims2 \subseteq aims, aims \subseteq aims2 \cup {k},
         NEW after, Tallied(tally, after, n)
  PROVE  Shape(q, n, TRUE, claimed, W, T, aims2, left - 1, after, planned)
<1>1. /\ InLevels(q, n) /\ Timely(q, n, TRUE, W) /\ Owned(q, n, TRUE, claimed) /\ Spread(q, n, TRUE, claimed, W, T)
      /\ Aimed(n, TRUE, claimed, aims, T) /\ Counted(q, n, TRUE, claimed, left, tally, planned)
  BY DEF Shape
<1>2. n.depth \in 0 .. MaxDepth
  BY <1>1 DEF InLevels
<1>3. Aimed(n, TRUE, claimed, aims2, T)
  BY <1>1, <1>2, PassedSpread
<1>4. Counted(q, n, TRUE, claimed, left - 1, after, planned)
  BY <1>1, ToldCounted DEF Typed, Tallied
<1> QED BY <1>1, <1>3, <1>4 DEF Shape

\* The shape is kept when an edge claims its target and queues it.
LEMMA ShapeTried ==
  ASSUME NEW q, NEW n, NEW claimed, NEW W, NEW T, NEW aims, NEW left, NEW tally, NEW planned,
         Typed(q, n, claimed, tally, left), Widens(W, T),
         Shape(q, n, TRUE, claimed, W, T, aims, left, tally, planned),
         NEW x, Child(x, n), x.key \in Keys \ claimed, n.depth < MaxDepth,
         x.expand => x.key \in aims,
         NEW aims2, aims2 \subseteq aims, aims \subseteq aims2 \cup {x.key}, x.expand \/ aims \subseteq aims2,
         NEW after, Tallied(tally, after, n),
         NEW claims, claims = IF x.expand THEN claimed \cup {x.key} ELSE claimed
  PROVE  Shape(Append(q, x), n, TRUE, claims, W, T, aims2, left - 1, after, planned)
<1>1. /\ InLevels(q, n) /\ Timely(q, n, TRUE, W) /\ Owned(q, n, TRUE, claimed) /\ Spread(q, n, TRUE, claimed, W, T)
      /\ Aimed(n, TRUE, claimed, aims, T) /\ Counted(q, n, TRUE, claimed, left, tally, planned)
  BY DEF Shape
<1>2. q \in Seq(SeenNodes) /\ x \in SeenNodes /\ claimed \subseteq claims /\ (x.expand => x.key \in claims)
  BY DEF Typed, Child
<1>3. InLevels(Append(q, x), n)
  BY <1>1, <1>2, JoinedLevels
<1>4. Timely(Append(q, x), n, TRUE, W)
  BY <1>1, <1>2, JoinedTimely
<1>5. Owned(Append(q, x), n, TRUE, claims)
  BY <1>1, <1>2, JoinedOwned
<1>6. Spread(Append(q, x), n, TRUE, claims, W, T)
  BY <1>1, <1>2, JoinedSpread
<1>7. Aimed(n, TRUE, claims, aims2, T)
  BY <1>1 DEF Aimed
<1>8. Counted(q, n, TRUE, claimed, left - 1, after, planned)
  BY <1>1, ToldCounted DEF Typed, Tallied
<1>9. Counted(Append(q, x), n, TRUE, claims, left - 1, after, planned)
  BY <1>2, <1>8, JoinedCounted
<1> QED BY <1>3, <1>4, <1>5, <1>6, <1>7, <1>9 DEF Shape

\* The shape is kept when the visit ends with no edges left.
LEMMA ShapeClosed ==
  ASSUME NEW q \in Seq(SeenNodes), NEW n, n.key \in Keys, NEW claimed, NEW W, NEW T, Widens(W, T),
         NEW tally \in [Keys -> Nat], NEW planned, Shape(q, n, TRUE, claimed, W, T, {}, 0, tally, planned)
  PROVE  Shape(q, n, FALSE, claimed, W, T, {}, 0, tally, planned)
<1>1. /\ InLevels(q, n) /\ Timely(q, n, TRUE, W) /\ Owned(q, n, TRUE, claimed) /\ Spread(q, n, TRUE, claimed, W, T)
      /\ Aimed(n, TRUE, claimed, {}, T) /\ Counted(q, n, TRUE, claimed, 0, tally, planned)
  BY DEF Shape
<1>2. /\ Timely(q, n, FALSE, W) /\ Owned(q, n, FALSE, claimed) /\ Spread(q, n, FALSE, claimed, W, T)
      /\ Aimed(n, FALSE, claimed, {}, T) /\ Counted(q, n, FALSE, claimed, 0, tally, planned)
  BY <1>1, CloseShape
<1> QED BY <1>1, <1>2 DEF Shape

-----------------------------------------------------------------------------
(* Counting the edges that are told.                                       *)

TellsOf(list, k) == {i \in 1 .. Len(list) : list[i].told = "edge" /\ list[i].from = k}

\* The positions of the edges told of a key are finitely many.
LEMMA TellsFinite ==
  ASSUME NEW S, NEW list \in Seq(S), NEW k
  PROVE  IsFiniteSet(TellsOf(list, k)) /\ Cardinality(TellsOf(list, k)) \in Nat /\ Len(list) + 1 \notin TellsOf(list, k)
<1>1. Len(list) \in Nat
  OBVIOUS
<1>2. IsFiniteSet(1 .. Len(list))
  BY <1>1, FS_Interval
<1>3. TellsOf(list, k) \subseteq 1 .. Len(list)
  BY DEF TellsOf
<1>4. IsFiniteSet(TellsOf(list, k))
  BY <1>2, <1>3, FS_Subset
<1>5. Len(list) + 1 \notin 1 .. Len(list)
  BY <1>1
<1> QED BY <1>3, <1>4, <1>5, FS_CardinalityType

\* A list of which only the first may be an edge goes on top of a story.
Leads(list) == \A i \in 1 .. Len(list) : list[i].told = "edge" => i = 1
Leading(list, k) == list # <<>> /\ list[1].told = "edge" /\ list[1].from = k

Grown(old, list, c) ==
  /\ \A i \in 1 .. Len(old) : c[i] = old[i] /\ i \in 1 .. Len(c)
  /\ \A i \in 1 .. Len(list) : c[Len(old) + i] = list[i] /\ Len(old) + i \in 1 .. Len(c)
  /\ \A i \in 1 .. Len(c) : i \in 1 .. Len(old) \/ \E j \in 1 .. Len(list) : i = Len(old) + j

\* One more event leaves the earlier ones where they are.
LEMMA StoryGrows ==
  ASSUME NEW S, NEW old \in Seq(S), NEW list \in Seq(S)
  PROVE  Grown(old, list, old \o list)
<1> DEFINE c == old \o list
<1>1. /\ c \in Seq(S) /\ Len(c) = Len(old) + Len(list) /\ Len(old) \in Nat /\ Len(list) \in Nat
      /\ \A i \in 1 .. Len(old) : c[i] = old[i]
      /\ \A i \in 1 .. Len(list) : c[Len(old) + i] = list[i]
  BY ConcatProperties
<1> HIDE DEF c
<1>2. ASSUME NEW i \in 1 .. Len(c) PROVE i \in 1 .. Len(old) \/ \E j \in 1 .. Len(list) : i = Len(old) + j
  <2>1. CASE i <= Len(old)
    BY <1>1, <2>1
  <2>2. CASE i > Len(old)
    <3>1. i - Len(old) \in 1 .. Len(list) /\ i = Len(old) + (i - Len(old))
      BY <1>1, <2>2
    <3> QED BY <3>1
  <2> QED BY <1>1, <2>1, <2>2
<1>3. (\A i \in 1 .. Len(old) : i \in 1 .. Len(c)) /\ \A i \in 1 .. Len(list) : Len(old) + i \in 1 .. Len(c)
  BY <1>1
<1>4. Grown(old, list, c)
  BY <1>1, <1>2, <1>3 DEF Grown
<1> QED BY <1>4 DEF c

\* The edge that is told is one more of its source, and of no other key.
LEMMA TellsGrow ==
  ASSUME NEW S, NEW old \in Seq(S), NEW list \in Seq(S), Leads(list), NEW k
  PROVE  TellsOf(old \o list, k) = TellsOf(old, k) \cup (IF Leading(list, k) THEN {Len(old) + 1} ELSE {})
<1> DEFINE c == old \o list
<1>1. /\ Len(old) \in Nat /\ Len(list) \in Nat /\ (list # <<>> => 1 \in 1 .. Len(list))
      /\ (list = <<>> => Len(list) = 0)
  OBVIOUS
<1>2. /\ \A i \in 1 .. Len(old) : c[i] = old[i] /\ i \in 1 .. Len(c)
      /\ \A i \in 1 .. Len(list) : c[Len(old) + i] = list[i] /\ Len(old) + i \in 1 .. Len(c)
      /\ \A i \in 1 .. Len(c) : i \in 1 .. Len(old) \/ \E j \in 1 .. Len(list) : i = Len(old) + j
  BY StoryGrows DEF Grown
<1> HIDE DEF c
<1>3. ASSUME NEW i \in TellsOf(c, k)
      PROVE  i \in TellsOf(old, k) \/ (Leading(list, k) /\ i = Len(old) + 1)
  <2>1. i \in 1 .. Len(c) /\ c[i].told = "edge" /\ c[i].from = k
    BY DEF TellsOf
  <2>2. CASE i \in 1 .. Len(old)
    BY <1>2, <2>1, <2>2 DEF TellsOf
  <2>3. CASE \E j \in 1 .. Len(list) : i = Len(old) + j
    <3>1. PICK j \in 1 .. Len(list) : i = Len(old) + j
      BY <2>3
    <3>2. list[j].told = "edge" /\ list[j].from = k
      BY <1>2, <2>1, <3>1
    <3>3. j = 1
      BY <3>2 DEF Leads
    <3>4. list # <<>>
      BY <1>1, <3>1
    <3> QED BY <3>1, <3>2, <3>3, <3>4 DEF Leading
  <2> QED BY <1>2, <2>1, <2>2, <2>3
<1>4. TellsOf(old, k) \subseteq TellsOf(c, k)
  BY <1>2 DEF TellsOf
<1>5. Leading(list, k) => Len(old) + 1 \in TellsOf(c, k)
  BY <1>1, <1>2 DEF TellsOf, Leading
<1>6. TellsOf(c, k) = TellsOf(old, k) \cup (IF Leading(list, k) THEN {Len(old) + 1} ELSE {})
  BY <1>3, <1>4, <1>5
<1> QED BY <1>6 DEF c

\* The tally counts from zero.
LEMMA TallyIs ==
  ToldOK => Tally \in [Keys -> Nat] /\ \A k \in Keys : Tally[k] = Cardinality(TellsOf(events, k))
<1> SUFFICES ASSUME ToldOK
             PROVE  Tally \in [Keys -> Nat] /\ \A k \in Keys : Tally[k] = Cardinality(TellsOf(events, k))
  OBVIOUS
<1>1. events \in Seq(Events) /\ DOMAIN events = 1 .. Len(events)
  BY DEF ToldOK
<1>2. \A k \in Keys : EdgesTold(k) = Cardinality(TellsOf(events, k))
  BY <1>1 DEF EdgesTold, TellsOf
<1>3. \A k \in Keys : Cardinality(TellsOf(events, k)) \in Nat
  BY <1>1, TellsFinite
<1> QED BY <1>2, <1>3 DEF Tally

\* The tally of the next state is the count of the events then.
LEMMA TallyNext ==
  ToldOK' => Tally' \in [Keys -> Nat] /\ \A k \in Keys : Tally'[k] = Cardinality(TellsOf(events', k))
<1>1. (ToldOK => Tally \in [Keys -> Nat] /\ \A k \in Keys : Tally[k] = Cardinality(TellsOf(events, k)))'
  BY TallyIs, PTL
<1> QED BY <1>1 DEF TellsOf

\* What is told raises the tally of the node of its first edge.
LEMMA TallyGrows ==
  ASSUME ToldOK, ToldOK', NEW S, Events \subseteq S, NEW list \in Seq(S), events' = events \o list, Leads(list)
  PROVE  \A k \in Keys : Tally'[k] = Tally[k] + (IF Leading(list, k) THEN 1 ELSE 0)
<1>1. SUFFICES ASSUME NEW k \in Keys PROVE Tally'[k] = Tally[k] + (IF Leading(list, k) THEN 1 ELSE 0)
  OBVIOUS
<1>2. events \in Seq(S)
  <2>1. events \in Seq(Events)
    BY DEF ToldOK
  <2> QED BY <2>1
<1> DEFINE A == TellsOf(events, k)
           x == Len(events) + 1
<1>3. TellsOf(events', k) = A \cup (IF Leading(list, k) THEN {x} ELSE {})
  BY <1>2, TellsGrow
<1>4. Tally[k] = Cardinality(A) /\ Tally'[k] = Cardinality(TellsOf(events', k))
  BY TallyIs, TallyNext
<1>5. IsFiniteSet(A) /\ Cardinality(A) \in Nat /\ x \notin A
  BY <1>2, TellsFinite
<1> HIDE DEF A, x
<1>6. CASE Leading(list, k)
  <2>1. Cardinality(A \cup {x}) = Cardinality(A) + 1
    BY <1>5, FS_AddElement
  <2> QED BY <1>3, <1>4, <1>6, <2>1
<1>7. CASE ~Leading(list, k)
  <2>1. A \cup {} = A
    OBVIOUS
  <2> QED BY <1>3, <1>4, <1>5, <1>7, <2>1
<1> QED BY <1>6, <1>7

\* An event that is no edge changes no tally.
LEMMA TallyStill ==
  ASSUME ToldOK, ToldOK', NEW S, Events \subseteq S, NEW list \in Seq(S), events' = events \o list,
         \A i \in 1 .. Len(list) : list[i].told # "edge"
  PROVE  Tally' = Tally
<1>1. Leads(list)
  BY DEF Leads
<1>2. \A k : ~Leading(list, k)
  <2>1. list # <<>> => 1 \in 1 .. Len(list)
    OBVIOUS
  <2> QED BY <2>1 DEF Leading
<1>3. Tally \in [Keys -> Nat] /\ Tally' \in [Keys -> Nat]
  BY TallyIs, TallyNext
<1>4. \A k \in Keys : Tally'[k] = Tally[k]
  <2>1. \A k \in Keys : Tally'[k] = Tally[k] + (IF Leading(list, k) THEN 1 ELSE 0)
    BY <1>1, TallyGrows
  <2> QED BY <1>2, <1>3, <2>1
<1> QED BY <1>3, <1>4

\* With no event there is no change of the tally.
LEMMA SameTally == ASSUME UNCHANGED events PROVE Tally' = Tally
BY DEF Tally, EdgesTold

\* The world does not change, and with it no plan, target or level.
LEMMA SameWorld ==
  ASSUME UNCHANGED world
  PROVE  Targets' = Targets /\ Planned' = Planned /\ Within' = Within /\ (RootIs' <=> RootIs)
<1>2. Targets' = Targets
  BY DEF Targets, GoodEdges, Entity
<1>3. Planned' = Planned
  BY DEF Planned, EdgesPlanned
<1>4. Within' = Within
  BY DEF Within, Wider, GoodEdges, Entity
<1> QED BY <1>2, <1>3, <1>4 DEF RootIs

-----------------------------------------------------------------------------
(* Every step of the sequential walk keeps the walk whole.                 *)

\* The types of what the argument is about.
LEMMA SeenTyped ==
  ASSUME IInv
  PROVE  /\ QueueSeen \in Seq(SeenNodes) /\ \A i \in 1 .. Len(QueueSeen) : QueueSeen[i].key \in Keys
         /\ NodeSeen \in SeenNodes /\ NodeSeen.depth \in Nat
         /\ Phase = "visiting" => NodeSeen.key \in Keys /\ Rest \in Seq(WalkEdges)
         /\ expandedKeys \subseteq Keys /\ world \in Worlds /\ ToldOK /\ events \in Seq(Events)
<1>1. queue \in Seq(Nodes) /\ (\A i \in 1 .. Len(queue) : queue[i].key \in Keys) /\ node \in Nodes
  BY DEF IInv, NodesOK
<1>2. \A n \in Nodes : AsSeen(n) \in SeenNodes /\ AsSeen(n).key = n.key /\ AsSeen(n).depth \in Nat
  BY DEF AsSeen, Nodes, SeenNodes
<1>3. /\ QueueSeen \in Seq(SeenNodes) /\ Len(QueueSeen) = Len(queue)
      /\ \A i \in 1 .. Len(queue) : QueueSeen[i] = AsSeen(queue[i]) /\ queue[i] \in Nodes
  BY <1>1, <1>2 DEF QueueSeen
<1>4. \A i \in 1 .. Len(QueueSeen) : QueueSeen[i].key \in Keys
  BY <1>1, <1>2, <1>3
<1>5. NodeSeen \in SeenNodes /\ NodeSeen.depth \in Nat /\ NodeSeen.key = node.key
  BY <1>1, <1>2 DEF NodeSeen
<1>6. Phase = "visiting" => NodeSeen.key \in Keys /\ Rest \in Seq(WalkEdges)
  <2>1. SUFFICES ASSUME Phase = "visiting" PROVE NodeSeen.key \in Keys /\ Rest \in Seq(WalkEdges)
    OBVIOUS
  <2>2. at \in {"planned", "settle", "await", "page"}
    BY <2>1 DEF Phase, IInv, ControlOK
  <2>3. node.key \in Keys /\ (at = "planned" => segment = "before") /\ NodesOK
    BY <2>2 DEF IInv, Position
  <2>4. Beyond \in Seq(WalkEdges) /\ todo \in Seq(WalkEdges) /\ plan.before \in Seq(WalkEdges)
    BY <2>3, BeyondTyped DEF NodesOK, PlanOK
  <2>5. Unnumber(todo) \in Seq(WalkEdges)
    BY <2>4, UnnumberTyped
  <2>6. Unnumber(todo) \o Beyond \in Seq(WalkEdges) /\ plan.before \o Beyond \in Seq(WalkEdges)
    BY <2>4, <2>5
  <2>7. Rest = Unnumber(todo) \o Beyond \/ Rest = plan.before \o Beyond
    BY <2>2, <2>3, RestIs, RestPlanned
  <2> QED BY <1>5, <2>3, <2>6, <2>7
<1> QED BY <1>3, <1>4, <1>5, <1>6 DEF IInv, InputOK, ToldOK

\* Before the walk begins nothing is claimed or told.
LEMMA CompleteInit == Init => CompleteInv
<1> SUFFICES ASSUME Init PROVE CompleteInv
  OBVIOUS
<1>1. /\ at = "root" /\ node = NoNode /\ expandedKeys = {} /\ events = <<>>
  BY DEF Init
<1>2. Phase = "root" /\ NodeSeen = Seen!NoNode
  BY <1>1 DEF Phase, NodeSeen, AsSeen, NoNode, Seen!NoNode
<1> QED BY <1>1, <1>2 DEF CompleteInv, Unbegun, RootClaimed, NoneCut, Uncut

\* No reference is cut off, as long as the walk is not.
LEMMA NoneCutKept ==
  ASSUME NoneCut, Cut => Cut', NEW S, events \in Seq(S), NEW list \in Seq(S), events' = events \o list,
         ~Cut' => \A i \in 1 .. Len(list) : list[i].told = "edge" => list[i].outcome # "budget-exhausted"
  PROVE  NoneCut'
<1>1. SUFFICES ASSUME ~Cut', NEW i \in 1 .. Len(events'), events'[i].told = "edge"
               PROVE  events'[i].outcome # "budget-exhausted"
  BY DEF NoneCut
<1>2. \A j \in 1 .. Len(events) : events[j].told = "edge" => events[j].outcome # "budget-exhausted"
  BY <1>1 DEF NoneCut
<1> DEFINE c == events \o list
<1>6. Grown(events, list, c)
  BY StoryGrows
<1>7. events' = c
  OBVIOUS
<1> HIDE DEF c
<1>3. /\ \A j \in 1 .. Len(events) : events'[j] = events[j]
      /\ \A j \in 1 .. Len(list) : events'[Len(events) + j] = list[j]
      /\ i \in 1 .. Len(events) \/ \E m \in 1 .. Len(list) : i = Len(events) + m
  BY <1>1, <1>6, <1>7 DEF Grown
<1>4. CASE i \in 1 .. Len(events)
  BY <1>1, <1>2, <1>3, <1>4
<1>5. CASE \E m \in 1 .. Len(list) : i = Len(events) + m
  <2>1. PICK m \in 1 .. Len(list) : i = Len(events) + m
    BY <1>5
  <2>2. events'[i] = list[m]
    BY <1>3, <2>1
  <2> QED BY <1>1, <2>2
<1> QED BY <1>1, <1>3, <1>4, <1>5

\* A step that the sequential walk does not see keeps the invariant.
LEMMA CompleteStill ==
  ASSUME CompleteInv, UNCHANGED Seen!vars PROVE CompleteInv'
<1>1. UNCHANGED <<world, Phase, QueueSeen, NodeSeen, Rest, expandedKeys, events, Cut, incomplete>>
  BY DEF Seen!vars
<1>2. Targets' = Targets /\ Planned' = Planned /\ Within' = Within /\ (RootIs' <=> RootIs) /\ Tally' = Tally
  BY <1>1, SameWorld, SameTally
<1>3. (Uncut' => Uncut) /\ (Whole => Whole')
  BY <1>1, <1>2 DEF Uncut, Whole
<1> QED BY <1>1, <1>2, <1>3 DEF CompleteInv, Unbegun, RootClaimed, NoneCut

\* Beginning the walk queues and claims the root, or keeps it out of the walk.
LEMMA CompleteBegin ==
  ASSUME IInv, IInv', CompleteInv, NEW answer \in Answers, Seen!Begin(answer) PROVE CompleteInv'
<1> DEFINE x == [key |-> Root, depth |-> 0, expand |-> answer = "resolved", path |-> {}]
<1>1. /\ Phase = "root" /\ Phase' = "idle"
      /\ answer \in IF world.rootGiven THEN {"resolved"} ELSE {world.verdict[Root], "budget-exhausted"}
      /\ QueueSeen' = <<x>> /\ expandedKeys' = IF answer = "resolved" THEN {Root} ELSE {}
      /\ Cut' = (answer = "budget-exhausted")
      /\ UNCHANGED <<world, NodeSeen, Rest, emittedNodes, events, incomplete>>
  BY DEF Seen!Begin
<1>2. NodeSeen = Seen!NoNode /\ events = <<>>
  BY <1>1 DEF CompleteInv, Unbegun
<1>3. RootClaimed'
  BY <1>1 DEF RootClaimed, RootIs
<1>4. NoneCut'
  BY <1>1, <1>2 DEF NoneCut
<1>5. ASSUME Uncut' PROVE Whole'
  <2>1. answer = "resolved"
    BY <1>1, <1>5 DEF Uncut, RootIs
  <2>2. x.key = Root /\ x.depth = 0 /\ x.expand /\ x.path = {}
    BY <2>1
  <2>3. NodeSeen'.depth = 0
    BY <1>1, <1>2 DEF Seen!NoNode
  <2>4. Widens(Within', Targets')
    BY <1>1, SeenTyped, WithinWidens, SameWorld
  <2>5. \A k \in Keys : Tally'[k] = 0
    <3>1. \A k \in Keys : Tally[k] = Cardinality(TellsOf(events, k))
      BY SeenTyped, TallyIs
    <3>2. \A k \in Keys : TellsOf(events, k) = {}
      BY <1>2 DEF TellsOf
    <3> QED BY <1>1, <3>1, <3>2, FS_EmptySet, SameTally
  <2> HIDE DEF x
  <2>6. Shape(QueueSeen', NodeSeen', FALSE, {Root}, Within', Targets', {}, 0, Tally', Planned')
    BY <1>1, <2>2, <2>3, <2>4, <2>5, BeginShape
  <2>7. expandedKeys' = {Root}
    BY <1>1, <2>1
  <2> QED BY <1>1, <2>6, <2>7 DEF Whole
<1> QED BY <1>1, <1>3, <1>4, <1>5 DEF CompleteInv, Unbegun

\* Visiting the next node keeps the invariant.
LEMMA CompleteVisit ==
  ASSUME IInv, IInv', CompleteInv, Seen!Visit PROVE CompleteInv'
<1> DEFINE n == [told |-> "node", key |-> NodeSeen'.key]
           list == IF NodeSeen'.key \in emittedNodes THEN <<>> ELSE <<n>>
           S == Events \cup {n}
<1>1. /\ Phase = "idle" /\ QueueSeen # <<>> /\ NodeSeen' = Head(QueueSeen) /\ QueueSeen' = Tail(QueueSeen)
      /\ events' = events \o list
      /\ NodeSeen'.expand => Phase' = "visiting" /\ Rest' = ScheduleOf(world, NodeSeen'.key)
      /\ ~NodeSeen'.expand => Phase' = "idle" /\ Rest' = <<>>
      /\ UNCHANGED <<world, expandedKeys, Cut, incomplete>>
  BY DEF Seen!Visit
<1>2. list \in Seq(S) /\ events \in Seq(S) /\ \A i \in 1 .. Len(list) : list[i].told # "edge"
  <2>1. events \in Seq(Events)
    BY SeenTyped
  <2>2. n \in S /\ n.told # "edge"
    OBVIOUS
  <2> HIDE DEF n, S
  <2>3. <<n>> \in Seq(S) /\ Len(<<n>>) = 1 /\ <<n>>[1] = n
    BY <2>2
  <2>4. <<>> \in Seq(S) /\ Len(<<>>) = 0
    OBVIOUS
  <2>5. events \in Seq(S)
    BY <2>1 DEF S
  <2>6. list = <<>> \/ list = <<n>>
    OBVIOUS
  <2> HIDE DEF list
  <2>7. CASE list = <<>>
    BY <2>4, <2>5, <2>7
  <2>8. CASE list = <<n>>
    BY <2>2, <2>3, <2>5, <2>8
  <2> QED BY <2>6, <2>7, <2>8
<1> HIDE DEF list
<1>3. Tally' = Tally
  <2>1. ToldOK /\ ToldOK'
    BY DEF IInv
  <2> QED BY <1>1, <1>2, <2>1, TallyStill
<1>4. NoneCut'
  <2>1. NoneCut
    BY DEF CompleteInv
  <2> HIDE DEF S
  <2> QED BY <1>1, <1>2, <2>1, NoneCutKept
<1>5. Targets' = Targets /\ Planned' = Planned /\ Within' = Within /\ (RootIs' <=> RootIs)
  BY <1>1, SameWorld
<1>6. RootClaimed'
  BY <1>1, <1>5 DEF CompleteInv, RootClaimed
<1>7. Phase' \in {"idle", "visiting"}
  BY <1>1
<1>8. ASSUME Uncut' PROVE Whole'
  <2>1. Uncut
    BY <1>1, <1>5, <1>8 DEF Uncut
  <2>2. Shape(QueueSeen, NodeSeen, FALSE, expandedKeys, Within, Targets, {}, 0, Tally, Planned)
    BY <1>1, <2>1 DEF CompleteInv, Whole
  <2>3. QueueSeen \in Seq(SeenNodes) /\ Widens(Within, Targets) /\ world \in Worlds
    BY SeenTyped, WithinWidens
  <2>4. NodeSeen'.expand \in BOOLEAN /\ NodeSeen'.key \in Keys
    <3>1. 1 \in 1 .. Len(QueueSeen) /\ Head(QueueSeen) = QueueSeen[1] /\ QueueSeen[1].expand \in BOOLEAN
      BY <1>1, <2>3, QueueMoves
    <3> QED BY <1>1, <3>1, SeenTyped
  <2>5. CASE NodeSeen'.expand
    <3>1. Aims(world, Rest') = Targets[NodeSeen'.key]
      BY <1>1, <2>3, <2>4, <2>5, ScheduleAims
    <3>2. Len(Rest') = Planned[NodeSeen'.key] /\ Len(Rest') \in Nat
      <4>1. ScheduleOf(world, NodeSeen'.key) \in Seq(WalkEdges)
            /\ Len(ScheduleOf(world, NodeSeen'.key)) = EdgesPlanned(NodeSeen'.key)
        BY <2>3, <2>4, ScheduleHolds
      <4>2. Planned[NodeSeen'.key] = EdgesPlanned(NodeSeen'.key)
        BY <2>4 DEF Planned
      <4> QED BY <1>1, <2>5, <4>1, <4>2
    <3>3. Shape(Tail(QueueSeen), Head(QueueSeen), TRUE, expandedKeys, Within, Targets, Aims(world, Rest'), Len(Rest'),
                Tally, Planned)
      BY <1>1, <2>2, <2>3, <2>5, <3>1, <3>2, ShapeVisit
    <3> QED BY <1>1, <1>3, <1>5, <2>5, <3>3 DEF Whole
  <2>6. CASE ~NodeSeen'.expand
    <3>1. Shape(Tail(QueueSeen), Head(QueueSeen), FALSE, expandedKeys, Within, Targets, {}, 0, Tally, Planned)
      BY <1>1, <2>2, <2>3, <2>6, ShapeVisit
    <3> QED BY <1>1, <1>3, <1>5, <2>6, <3>1 DEF Whole
  <2> QED BY <2>4, <2>5, <2>6
<1> QED BY <1>4, <1>6, <1>7, <1>8 DEF CompleteInv, Unbegun

\* A cut or a page that cannot be read leaves nothing to claim.
LEMMA CompleteUnread ==
  ASSUME CompleteInv, Seen!Unread PROVE CompleteInv'
<1>1. /\ Phase = "visiting" /\ UNCHANGED <<world, Phase, expandedKeys, events>>
      /\ (incomplete' /\ Cut' = Cut) \/ Cut'
  BY DEF Seen!Unread
<1>2. ~Uncut'
  BY <1>1 DEF CompleteInv, Uncut
<1>3. NoneCut'
  BY <1>1 DEF CompleteInv, NoneCut
<1>4. RootClaimed'
  BY <1>1, SameWorld DEF CompleteInv, RootClaimed
<1> QED BY <1>1, <1>2, <1>3, <1>4 DEF CompleteInv, Unbegun

\* A walk that fails promises nothing further.
LEMMA CompleteFail ==
  ASSUME CompleteInv, Seen!Fail PROVE CompleteInv'
<1>1. Phase' = "failed" /\ UNCHANGED <<world, expandedKeys, events, Cut>>
  BY DEF Seen!Fail
<1>2. RootClaimed' /\ NoneCut'
  BY <1>1, SameWorld DEF CompleteInv, RootClaimed, NoneCut
<1> QED BY <1>1, <1>2 DEF CompleteInv, Unbegun, Uncut

\* A walk that ends without a stop has an empty queue.
LEMMA CompleteFinish ==
  ASSUME CompleteInv, Seen!Finish PROVE CompleteInv'
<1>1. /\ Phase = "idle" /\ QueueSeen = <<>> /\ Phase' = "done"
      /\ UNCHANGED <<world, QueueSeen, NodeSeen, Rest, expandedKeys, events, Cut, incomplete>>
  BY DEF Seen!Finish
<1>2. Targets' = Targets /\ Planned' = Planned /\ Within' = Within /\ (RootIs' <=> RootIs) /\ Tally' = Tally
  BY <1>1, SameWorld, SameTally
<1>3. RootClaimed' /\ NoneCut'
  BY <1>1, <1>2 DEF CompleteInv, RootClaimed, NoneCut
<1>4. (Uncut' => Uncut) /\ (Whole => Whole')
  BY <1>1, <1>2 DEF Uncut, Whole
<1> QED BY <1>1, <1>3, <1>4 DEF CompleteInv, Unbegun

\* Ending a visit keeps the invariant.
LEMMA CompleteClose ==
  ASSUME IInv, IInv', CompleteInv, Seen!Close PROVE CompleteInv'
<1> DEFINE found == FoundOn(world, NodeSeen.key).expansions
           e(i) == [told |-> "expansion", key |-> NodeSeen.key, field |-> i, outcome |-> found[i]]
           list == [i \in DOMAIN found |-> e(i)]
           S == Events \cup {e(i) : i \in DOMAIN found}
<1>1. /\ Phase = "visiting" /\ Rest = <<>> /\ events' = events \o list /\ Phase' \in {"done", "idle"}
      /\ ~Cut => Phase' = "idle"
      /\ UNCHANGED <<world, QueueSeen, NodeSeen, Rest, expandedKeys, Cut, incomplete>>
  BY DEF Seen!Close
<1>2. list \in Seq(S) /\ events \in Seq(S) /\ \A i \in 1 .. Len(list) : list[i].told # "edge"
  <2>1. events \in Seq(Events) /\ NodeSeen.key \in Keys /\ world \in Worlds
    BY <1>1, SeenTyped
  <2>2. found \in Seq(STRING)
    BY <2>1, WorldsAssumption
  <2>3. DOMAIN found = 1 .. Len(found) /\ Len(found) \in Nat
    BY <2>2
  <2> HIDE DEF found
  <2>4. \A i \in DOMAIN found : e(i) \in S /\ e(i).told # "edge"
    OBVIOUS
  <2> HIDE DEF e, S
  <2>5. list \in Seq(S) /\ Len(list) = Len(found) /\ \A i \in 1 .. Len(found) : list[i] = e(i)
    BY <2>3, <2>4
  <2>6. events \in Seq(S)
    BY <2>1 DEF S
  <2> QED BY <2>3, <2>4, <2>5, <2>6
<1>3. Events \subseteq S
  OBVIOUS
<1> HIDE DEF list, S
<1>4. Tally' = Tally
  <2>1. ToldOK /\ ToldOK'
    BY DEF IInv
  <2> QED BY <1>1, <1>2, <1>3, <2>1, TallyStill
<1>5. NoneCut'
  <2>1. NoneCut
    BY DEF CompleteInv
  <2> QED BY <1>1, <1>2, <2>1, NoneCutKept
<1>6. Targets' = Targets /\ Planned' = Planned /\ Within' = Within /\ (RootIs' <=> RootIs)
  BY <1>1, SameWorld
<1>7. RootClaimed'
  BY <1>1, <1>6 DEF CompleteInv, RootClaimed
<1>8. ASSUME Uncut' PROVE Whole'
  <2>1. Uncut /\ Phase' = "idle"
    BY <1>1, <1>6, <1>8 DEF Uncut
  <2>2. Aims(world, Rest) = {} /\ Len(Rest) = 0
    BY <1>1 DEF Aims
  <2>3. Shape(QueueSeen, NodeSeen, TRUE, expandedKeys, Within, Targets, {}, 0, Tally, Planned)
    BY <1>1, <2>1, <2>2 DEF CompleteInv, Whole
  <2>4. /\ QueueSeen \in Seq(SeenNodes) /\ NodeSeen.key \in Keys /\ Widens(Within, Targets)
        /\ Tally \in [Keys -> Nat]
    BY <1>1, SeenTyped, WithinWidens, TallyIs
  <2>5. Shape(QueueSeen, NodeSeen, FALSE, expandedKeys, Within, Targets, {}, 0, Tally, Planned)
    BY <2>3, <2>4, ShapeClosed
  <2> QED BY <1>1, <1>4, <1>6, <2>1, <2>5 DEF Whole
<1> QED BY <1>1, <1>5, <1>7, <1>8 DEF CompleteInv, Unbegun

\* Past the head of the list, what is aimed at is the same but for the head's target.
LEMMA AimsDrop ==
  ASSUME NEW w, NEW S, NEW list \in Seq(S), list # <<>>
  PROVE  /\ Aims(w, Tail(list)) \subseteq Aims(w, list)
         /\ Aims(w, list) \subseteq Aims(w, Tail(list)) \cup {Head(list).to}
         /\ Good(w, Head(list)) => Head(list).to \in Aims(w, list)
         /\ ~Good(w, Head(list)) => Aims(w, list) \subseteq Aims(w, Tail(list))
         /\ Len(Tail(list)) = Len(list) - 1 /\ Len(list) \in Nat /\ Len(list) > 0
<1>1. /\ Len(list) \in Nat \ {0} /\ Len(Tail(list)) = Len(list) - 1 /\ Head(list) = list[1]
      /\ \A i \in 1 .. Len(Tail(list)) : Tail(list)[i] = list[i + 1]
  OBVIOUS
<1> DEFINE t == Tail(list)
           h == Head(list)
<1>2. /\ \A x : x \in Aims(w, list) <=> \E i \in 1 .. Len(list) : Good(w, list[i]) /\ list[i].to = x
      /\ \A x : x \in Aims(w, t) <=> \E i \in 1 .. Len(t) : Good(w, t[i]) /\ t[i].to = x
  BY DEF Aims
<1>3. /\ Len(list) \in Nat /\ Len(list) > 0 /\ Len(t) = Len(list) - 1 /\ h = list[1]
      /\ \A i \in 1 .. Len(t) : t[i] = list[i + 1]
  BY <1>1
<1> HIDE DEF t, h
<1>4. ASSUME NEW x \in Aims(w, t) PROVE x \in Aims(w, list)
  <2>1. PICK i \in 1 .. Len(t) : Good(w, t[i]) /\ t[i].to = x
    BY <1>2
  <2>2. i + 1 \in 1 .. Len(list)
    BY <1>3
  <2> QED BY <1>2, <1>3, <2>1, <2>2
<1>5. ASSUME NEW x \in Aims(w, list) PROVE x \in Aims(w, t) \/ (Good(w, h) /\ x = h.to)
  <2>1. PICK i \in 1 .. Len(list) : Good(w, list[i]) /\ list[i].to = x
    BY <1>2
  <2>2. CASE i = 1
    BY <1>3, <2>1, <2>2
  <2>3. CASE i # 1
    <3>1. i - 1 \in 1 .. Len(t) /\ (i - 1) + 1 = i
      BY <1>3, <2>3
    <3>2. t[i - 1] = list[i]
      BY <1>3, <3>1
    <3> QED BY <1>2, <2>1, <3>1, <3>2
  <2> QED BY <2>2, <2>3
<1>6. Good(w, h) => h.to \in Aims(w, list)
  <2>1. 1 \in 1 .. Len(list)
    BY <1>3
  <2> QED BY <1>2, <1>3, <2>1
<1>7. /\ Aims(w, t) \subseteq Aims(w, list) /\ Aims(w, list) \subseteq Aims(w, t) \cup {h.to}
      /\ Good(w, h) => h.to \in Aims(w, list)
      /\ ~Good(w, h) => Aims(w, list) \subseteq Aims(w, t)
      /\ Len(t) = Len(list) - 1 /\ Len(list) \in Nat /\ Len(list) > 0
  BY <1>3, <1>4, <1>5, <1>6
<1> QED BY <1>7 DEF t, h

\* What the edge step of the sequential walk leaves to the rest of the step.
EdgeStep ==
  /\ Phase = "visiting" /\ Phase' = "visiting" /\ Rest # <<>> /\ Rest' = Tail(Rest)
  /\ UNCHANGED <<world, NodeSeen, incomplete>>

\* What telling an edge changes of the mapped state.
LEMMA EdgeFacts ==
  ASSUME IInv, EdgeStep
  PROVE  /\ Typed(QueueSeen, NodeSeen, expandedKeys, Tally, Len(Rest)) /\ Widens(Within, Targets)
         /\ Aims(world, Rest') \subseteq Aims(world, Rest)
         /\ Aims(world, Rest) \subseteq Aims(world, Rest') \cup {Head(Rest).to}
         /\ Good(world, Head(Rest)) => Head(Rest).to \in Aims(world, Rest)
         /\ ~Good(world, Head(Rest)) => Aims(world, Rest) \subseteq Aims(world, Rest')
         /\ Len(Rest') = Len(Rest) - 1 /\ Head(Rest).to \in Keys
         /\ Targets' = Targets /\ Planned' = Planned /\ Within' = Within /\ (RootIs' <=> RootIs)
<1>1. Rest \in Seq(WalkEdges) /\ Rest # <<>> /\ Rest' = Tail(Rest)
  BY SeenTyped DEF EdgeStep
<1>2. Len(Rest) \in Nat /\ Len(Rest) > 0
  BY <1>1
<1>3. Typed(QueueSeen, NodeSeen, expandedKeys, Tally, Len(Rest)) /\ Widens(Within, Targets)
  BY <1>2, SeenTyped, TallyIs, WithinWidens DEF Typed, EdgeStep
<1>4. Head(Rest).to \in Keys
  <2>1. Head(Rest) \in WalkEdges
    BY <1>1
  <2> QED BY <2>1 DEF WalkEdges
<1>5. /\ Aims(world, Tail(Rest)) \subseteq Aims(world, Rest)
      /\ Aims(world, Rest) \subseteq Aims(world, Tail(Rest)) \cup {Head(Rest).to}
      /\ Good(world, Head(Rest)) => Head(Rest).to \in Aims(world, Rest)
      /\ ~Good(world, Head(Rest)) => Aims(world, Rest) \subseteq Aims(world, Tail(Rest))
      /\ Len(Tail(Rest)) = Len(Rest) - 1
  BY <1>1, AimsDrop
<1>6. Targets' = Targets /\ Planned' = Planned /\ Within' = Within /\ (RootIs' <=> RootIs)
  BY SameWorld DEF EdgeStep
<1> QED BY <1>1, <1>3, <1>4, <1>5, <1>6

\* The edge is told, perhaps along with the reference it stands for.
LEMMA EdgeTallied ==
  ASSUME IInv, IInv', NEW a, NEW b, NEW list, list = <<a>> \/ list = <<a, b>>, events' = events \o list,
         a.told = "edge", a.from = NodeSeen.key, b.told = "reference"
  PROVE  Tallied(Tally, Tally', NodeSeen)
<1> DEFINE S == Events \cup {a, b}
<1>1. Events \subseteq S /\ a \in S /\ b \in S
  OBVIOUS
<1> HIDE DEF S
<1>2. list \in Seq(S) /\ list # <<>> /\ list[1] = a /\ \A i \in 1 .. Len(list) : i = 1 \/ list[i] = b
  <2>1. CASE list = <<a>>
    BY <1>1, <2>1
  <2>2. CASE list = <<a, b>>
    BY <1>1, <2>2
  <2> QED BY <2>1, <2>2
<1>3. Leads(list)
  <2>1. "reference" # "edge"
    OBVIOUS
  <2> QED BY <1>2, <2>1 DEF Leads
<1>4. ToldOK /\ ToldOK'
  BY DEF IInv
<1>5. \A k \in Keys : Tally'[k] = Tally[k] + (IF Leading(list, k) THEN 1 ELSE 0)
  BY <1>1, <1>2, <1>3, <1>4, TallyGrows
<1>6. \A k \in Keys : Leading(list, k) <=> k = NodeSeen.key
  BY <1>2 DEF Leading
<1> QED BY <1>5, <1>6 DEF Tallied

\* An edge that the budget cut off leaves the mark of it.
LEMMA EdgeNoneCut ==
  ASSUME IInv, NoneCut, Cut => Cut', NEW a, NEW b, NEW list, list = <<a>> \/ list = <<a, b>>,
         events' = events \o list, b.told = "reference", ~Cut' => a.outcome # "budget-exhausted"
  PROVE  NoneCut'
<1> DEFINE S == Events \cup {a, b}
<1>1. Events \subseteq S /\ a \in S /\ b \in S
  OBVIOUS
<1> HIDE DEF S
<1>2. list \in Seq(S) /\ \A i \in 1 .. Len(list) : list[i] = a \/ list[i] = b
  <2>1. CASE list = <<a>>
    BY <1>1, <2>1
  <2>2. CASE list = <<a, b>>
    BY <1>1, <2>2
  <2> QED BY <2>1, <2>2
<1>3. events \in Seq(S)
  <2>1. events \in Seq(Events)
    BY SeenTyped
  <2> QED BY <1>1, <2>1
<1>4. ~Cut' => \A i \in 1 .. Len(list) : list[i].told = "edge" => list[i].outcome # "budget-exhausted"
  BY <1>2
<1> QED BY <1>2, <1>3, <1>4, NoneCutKept

\* An edge that is not worth claiming keeps the invariant.
LEMMA CompleteNotTried ==
  ASSUME IInv, IInv', CompleteInv, NEW outcome, Seen!NotTried(outcome) PROVE CompleteInv'
<1> DEFINE k == Head(Rest).to
           a == Seen!Told("edge", Head(Rest), outcome, "none")
           b == [told |-> "reference"]
<1>1. /\ EdgeStep /\ events' = events \o <<a>> /\ UNCHANGED <<QueueSeen, expandedKeys, Cut>>
      /\ Cut \/ (outcome # "budget-exhausted"
                 /\ (NodeSeen.depth >= MaxDepth \/ k \in NodeSeen.path \cup {NodeSeen.key} \/ k \in expandedKeys))
  BY DEF Seen!NotTried, Seen!NextEdge, EdgeStep
<1>2. a.told = "edge" /\ a.from = NodeSeen.key /\ a.outcome = outcome /\ b.told = "reference"
  BY DEF Seen!Told
<1> HIDE DEF a, b
<1>3. Tallied(Tally, Tally', NodeSeen)
  BY <1>1, <1>2, EdgeTallied
<1>4. NoneCut'
  <2>1. NoneCut
    BY DEF CompleteInv
  <2> QED BY <1>1, <1>2, <2>1, EdgeNoneCut
<1>5. RootClaimed'
  BY <1>1, EdgeFacts DEF CompleteInv, RootClaimed
<1>6. ASSUME Uncut' PROVE Whole'
  <2>1. Uncut /\ ~Cut
    BY <1>1, <1>6, EdgeFacts DEF Uncut, EdgeStep
  <2>2. Shape(QueueSeen, NodeSeen, TRUE, expandedKeys, Within, Targets, Aims(world, Rest), Len(Rest), Tally, Planned)
    BY <1>1, <2>1 DEF CompleteInv, Whole, EdgeStep
  <2>3. NodeSeen.depth = MaxDepth \/ k \in expandedKeys
    <3>1. NodeSeen.depth \in 0 .. MaxDepth /\ MaxDepth \in Nat
      BY <2>2, WalkAssumption DEF Shape, InLevels
    <3>2. NodeSeen.key \in expandedKeys /\ NodeSeen.path \subseteq expandedKeys
      BY <2>2 DEF Shape, Owned
    <3> QED BY <1>1, <2>1, <3>1, <3>2
  <2>4. /\ Typed(QueueSeen, NodeSeen, expandedKeys, Tally, Len(Rest))
        /\ Aims(world, Rest') \subseteq Aims(world, Rest)
        /\ Aims(world, Rest) \subseteq Aims(world, Rest') \cup {k}
        /\ Len(Rest') = Len(Rest) - 1
        /\ Targets' = Targets /\ Planned' = Planned /\ Within' = Within
    BY <1>1, EdgeFacts
  <2> HIDE DEF k
  <2>5. Shape(QueueSeen, NodeSeen, TRUE, expandedKeys, Within, Targets, Aims(world, Rest'), Len(Rest) - 1, Tally',
              Planned)
    BY <1>3, <2>2, <2>3, <2>4, ShapePassed
  <2> QED BY <1>1, <2>4, <2>5 DEF Whole, EdgeStep
<1> QED BY <1>1, <1>4, <1>5, <1>6 DEF CompleteInv, Unbegun, EdgeStep

\* An edge whose target is worth claiming keeps the invariant.
LEMMA CompleteTried ==
  ASSUME IInv, IInv', CompleteInv, NEW answer \in Answers, Seen!Tried(answer) PROVE CompleteInv'
<1> DEFINE e == Head(Rest)
           k == e.to
           right == answer = "resolved" /\ world.entity[k].type = e.declared
           outcome == IF ~right THEN "not-expanded" ELSE IF e.expandable THEN "expanded" ELSE "leaf"
           status == IF right \/ answer # "resolved" THEN answer ELSE "invalid"
           a == Seen!Told("edge", e, outcome, status)
           b == Seen!Told("reference", e, outcome, status)
           x == [key |-> k, depth |-> NodeSeen.depth + 1, expand |-> outcome = "expanded",
                 path |-> NodeSeen.path \cup {NodeSeen.key}]
           list == IF NodeSeen.depth = 0 THEN <<a, b>> ELSE <<a>>
<1>1. /\ EdgeStep /\ ~Cut /\ NodeSeen.depth < MaxDepth /\ k \notin NodeSeen.path \cup {NodeSeen.key} \cup expandedKeys
      /\ answer \in {world.verdict[k], "budget-exhausted"}
      /\ expandedKeys' = IF outcome = "expanded" THEN expandedKeys \cup {k} ELSE expandedKeys
      /\ QueueSeen' = Append(QueueSeen, x) /\ events' = events \o list /\ Cut' = (answer = "budget-exhausted")
  BY DEF Seen!Tried, Seen!NextEdge, EdgeStep
<1>2. a.told = "edge" /\ a.from = NodeSeen.key /\ a.outcome = outcome /\ b.told = "reference"
  BY DEF Seen!Told
<1>3. outcome \in {"not-expanded", "expanded", "leaf"}
  OBVIOUS
<1>4. list = <<a>> \/ list = <<a, b>>
  OBVIOUS
<1>5. x.key = k /\ x.depth = NodeSeen.depth + 1 /\ x.path = NodeSeen.path \cup {NodeSeen.key}
      /\ (x.expand <=> outcome = "expanded")
  OBVIOUS
<1>6. x \in SeenNodes
  <2>1. NodeSeen \in SeenNodes /\ NodeSeen.key \in Keys /\ NodeSeen.depth \in Nat /\ k \in Keys
    BY <1>1, SeenTyped, EdgeFacts DEF EdgeStep
  <2>2. NodeSeen.path \subseteq Keys
    BY <2>1 DEF SeenNodes
  <2> HIDE DEF outcome, k
  <2> QED BY <2>1, <2>2 DEF SeenNodes
<1>7. outcome = "expanded" <=> answer = "resolved" /\ world.entity[k].type = e.declared
                               /\ (IF e.expandable THEN TRUE ELSE FALSE)
  OBVIOUS
<1>8. expandedKeys' = IF x.expand THEN expandedKeys \cup {x.key} ELSE expandedKeys
  <2> HIDE DEF x, outcome, k
  <2> QED BY <1>1, <1>5
<1> HIDE DEF a, b, x, list, status, outcome, right
<1>9. Tallied(Tally, Tally', NodeSeen)
  BY <1>1, <1>2, <1>4, EdgeTallied
<1>10. NoneCut'
  <2>1. NoneCut /\ (Cut => Cut') /\ a.outcome # "budget-exhausted"
    BY <1>1, <1>2, <1>3 DEF CompleteInv
  <2> QED BY <1>1, <1>2, <1>4, <2>1, EdgeNoneCut
<1>11. RootClaimed'
  <2>1. SUFFICES ASSUME Root \in expandedKeys' PROVE RootIs
    BY <1>1, EdgeFacts DEF RootClaimed
  <2>2. CASE Root \in expandedKeys
    BY <2>2 DEF CompleteInv, RootClaimed
  <2>3. CASE Root \notin expandedKeys
    <3>1. Root = k /\ answer = "resolved"
      BY <1>1, <1>7, <2>1, <2>3
    <3> QED BY <1>1, <3>1 DEF RootIs
  <2> QED BY <2>2, <2>3
<1>12. ASSUME Uncut' PROVE Whole'
  <2>1. Uncut /\ answer = world.verdict[k]
    BY <1>1, <1>12, EdgeFacts DEF Uncut, EdgeStep
  <2>2. Shape(QueueSeen, NodeSeen, TRUE, expandedKeys, Within, Targets, Aims(world, Rest), Len(Rest), Tally, Planned)
    BY <1>1, <2>1 DEF CompleteInv, Whole, EdgeStep
  <2>3. x.expand <=> Good(world, e)
    BY <1>5, <1>7, <2>1 DEF Good
  <2>4. /\ Typed(QueueSeen, NodeSeen, expandedKeys, Tally, Len(Rest)) /\ Widens(Within, Targets)
        /\ Aims(world, Rest') \subseteq Aims(world, Rest)
        /\ Aims(world, Rest) \subseteq Aims(world, Rest') \cup {x.key}
        /\ x.expand => x.key \in Aims(world, Rest)
        /\ x.expand \/ Aims(world, Rest) \subseteq Aims(world, Rest')
        /\ Len(Rest') = Len(Rest) - 1 /\ x.key \in Keys
        /\ Targets' = Targets /\ Planned' = Planned /\ Within' = Within
    BY <1>1, <1>5, <2>3, EdgeFacts
  <2>5. Child(x, NodeSeen) /\ x.key \in Keys \ expandedKeys /\ NodeSeen.depth < MaxDepth
    BY <1>1, <1>5, <1>6, <2>4 DEF Child
  <2>6. Shape(Append(QueueSeen, x), NodeSeen, TRUE, expandedKeys', Within, Targets, Aims(world, Rest'), Len(Rest) - 1,
              Tally', Planned)
    BY <1>8, <1>9, <2>2, <2>4, <2>5, ShapeTried
  <2> QED BY <1>1, <2>4, <2>6 DEF Whole, EdgeStep
<1> QED BY <1>1, <1>10, <1>11, <1>12 DEF CompleteInv, Unbegun, EdgeStep

\* Every step of the sequential walk keeps the invariant.
LEMMA CompleteStep ==
  ASSUME IInv, IInv', CompleteInv, Seen!Next \/ UNCHANGED Seen!vars PROVE CompleteInv'
<1>1. CASE UNCHANGED Seen!vars
  BY <1>1, CompleteStill
<1>2. ASSUME NEW answer \in Answers, Seen!Begin(answer) \/ Seen!Tried(answer) PROVE CompleteInv'
  BY <1>2, CompleteBegin, CompleteTried
<1>3. ASSUME NEW outcome, Seen!NotTried(outcome) PROVE CompleteInv'
  BY <1>3, CompleteNotTried
<1>4. CASE Seen!Visit \/ Seen!Unread \/ Seen!Close \/ Seen!Finish \/ Seen!Fail
  BY <1>4, CompleteVisit, CompleteUnread, CompleteClose, CompleteFinish, CompleteFail
<1> QED BY <1>1, <1>2, <1>3, <1>4 DEF Seen!Next, Answers

\* The invariant gives the property when nothing is left.
LEMMA CompleteFollows ==
  ASSUME IInv, SeenInv, CompleteInv PROVE CompleteMeansAll
<1> SUFFICES ASSUME at = "done", stopReason = "none", ~incomplete, resolutions[Root] = "resolved"
             PROVE  /\ expandedKeys = Reach
                    /\ \A k \in expandedKeys : EdgesTold(k) = EdgesPlanned(k)
                    /\ \A i \in DOMAIN events : events[i].told = "edge" => events[i].outcome # "budget-exhausted"
  BY DEF CompleteMeansAll
<1>1. Phase = "done" /\ ~Cut
  BY DEF Phase, Cut
<1>2. RootIs
  <2>1. CASE Root \in expandedKeys
    BY <2>1 DEF CompleteInv, RootClaimed
  <2>2. CASE Root \notin expandedKeys
    <3>1. resolutions[Root] \in {None, "budget-exhausted", world.verdict[Root]}
      BY <2>2, WalkAssumption DEF SeenInv, Honest
    <3> QED BY <3>1, WalkAssumption DEF RootIs
  <2> QED BY <2>1, <2>2
<1>3. Whole
  BY <1>1, <1>2 DEF CompleteInv, Uncut
<1>4. /\ QueueSeen = <<>>
      /\ Shape(QueueSeen, NodeSeen, FALSE, expandedKeys, Within, Targets, {}, 0, Tally, Planned)
  BY <1>1, <1>3 DEF Whole
<1>5. Widens(Within, Targets)
  BY SeenTyped, WithinWidens
<1>6. expandedKeys = Within[MaxDepth] /\ \A k \in expandedKeys : Tally[k] = Planned[k]
  <2>1. AllTold(Within, expandedKeys, Tally, Planned)
    BY <1>4, <1>5, AllClaimed
  <2> QED BY <2>1 DEF AllTold
<1>7. \A k \in expandedKeys : EdgesTold(k) = EdgesPlanned(k)
  <2>1. expandedKeys \subseteq Keys
    BY SeenTyped
  <2>2. \A k \in Keys : Tally[k] = EdgesTold(k) /\ Planned[k] = EdgesPlanned(k)
    BY DEF Tally, Planned
  <2> QED BY <1>6, <2>1, <2>2
<1>8. DOMAIN events = 1 .. Len(events)
  <2>1. events \in Seq(Events)
    BY SeenTyped
  <2> QED BY <2>1
<1>9. \A i \in 1 .. Len(events) : events[i].told = "edge" => events[i].outcome # "budget-exhausted"
  BY <1>1 DEF CompleteInv, NoneCut
<1> QED BY <1>6, <1>7, <1>8, <1>9, ReachIs

\* A walk that says it is complete is: everything reachable within the depth was
\* expanded, each of its references was told once, and none was cut off by the
\* budget.
THEOREM CompleteMeansAllAlways == Spec => []CompleteMeansAll
<1>1. Init => IInv /\ Flights /\ SeenInv /\ CompleteInv
  BY InitTypes, InitFlights, InitSeen, CompleteInit
<1>2. IInv /\ Flights /\ SeenInv /\ CompleteInv /\ [Next]_vars => IInv' /\ Flights' /\ SeenInv' /\ CompleteInv'
  BY StepTypes, StepSeen, StepSeenAs, CompleteStep
<1>3. IInv /\ SeenInv /\ CompleteInv => CompleteMeansAll
  BY CompleteFollows
<1> QED BY <1>1, <1>2, <1>3, PTL DEF Spec
====
