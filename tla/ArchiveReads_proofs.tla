------------------------- MODULE ArchiveReads_proofs -------------------------
EXTENDS ArchiveReads, FiniteSetTheorems, TLAPS

(* Rankings: what the sort and the filter of the search return.            *)

\* before is a strict total order on the places.
Orders(before, places) ==
    /\ \A i \in places : <<i, i>> \notin before
    /\ \A i, j, k \in places :
         <<i, j>> \in before /\ <<j, k>> \in before => <<i, k>> \in before
    /\ \A i, j \in places : i = j \/ <<i, j>> \in before \/ <<j, i>> \in before

PlaceOf(places, before) ==
    [i \in places |-> 1 + Cardinality({j \in places : <<j, i>> \in before})]

\* Counting what comes before numbers the places in their order.
LEMMA PlacesAreNumbered ==
  ASSUME NEW places, IsFiniteSet(places), NEW before, Orders(before, places)
  PROVE  LET place == PlaceOf(places, before)  N == Cardinality(places) IN
         /\ N \in Nat
         /\ place \in [places -> 1 .. N]
         /\ \A i, j \in places : <<i, j>> \in before <=> place[i] < place[j]
         /\ \A i, j \in places : place[i] = place[j] => i = j
         /\ \A p \in 1 .. N : \E i \in places : place[i] = p
<1> DEFINE place == PlaceOf(places, before)
           N     == Cardinality(places)
           below(i) == {j \in places : <<j, i>> \in before}
<1>1. N \in Nat
  BY FS_CardinalityType
<1>2. ASSUME NEW i \in places
      PROVE  /\ IsFiniteSet(below(i)) /\ Cardinality(below(i)) \in Nat
             /\ Cardinality(below(i)) < N
             /\ place[i] = 1 + Cardinality(below(i))
  <2>1. below(i) \in SUBSET places /\ i \notin below(i)
    BY DEF Orders
  <2>2. /\ IsFiniteSet(below(i)) /\ Cardinality(below(i)) <= N
        /\ Cardinality(below(i)) = N => below(i) = places
    BY <2>1, FS_Subset
  <2>3. Cardinality(below(i)) \in Nat
    BY <2>2, FS_CardinalityType
  <2>4. place[i] = 1 + Cardinality(below(i))
    BY DEF PlaceOf
  <2> HIDE DEF below, place, N
  <2> QED BY <1>1, <2>1, <2>2, <2>3, <2>4
<1>3. ASSUME NEW i \in places, NEW j \in places, <<i, j>> \in before
      PROVE  place[i] < place[j]
  <2>1. below(i) \in SUBSET below(j) /\ i \in below(j) /\ i \notin below(i)
    BY <1>3 DEF Orders
  <2>2. Cardinality(below(i)) <= Cardinality(below(j)) /\ Cardinality(below(i)) # Cardinality(below(j))
    BY <1>2, <2>1, FS_Subset
  <2> HIDE DEF below, place
  <2> QED BY <1>2, <2>2
<1>4. \A i \in places : place[i] \in 1 .. N
  <2> HIDE DEF below, place, N
  <2> QED BY <1>1, <1>2
<1>5. place \in [places -> 1 .. N]
  <2>1. place = [i \in places |-> place[i]]
    BY DEF PlaceOf
  <2> HIDE DEF place, N
  <2> QED BY <1>4, <2>1
<1> HIDE DEF below, place, N
<1>6. ASSUME NEW i \in places, NEW j \in places
      PROVE  /\ place[i] = place[j] => i = j
             /\ <<i, j>> \in before <=> place[i] < place[j]
  <2>1. place[i] \in Int /\ place[j] \in Int
    BY <1>1, <1>4
  <2>2. i = j \/ <<i, j>> \in before \/ <<j, i>> \in before
    BY DEF Orders
  <2>3. i = j => <<i, j>> \notin before
    BY DEF Orders
  <2>4. /\ <<i, j>> \in before => place[i] < place[j]
        /\ <<j, i>> \in before => place[j] < place[i]
    BY <1>3
  <2> QED BY <2>1, <2>2, <2>3, <2>4
<1>8. place \in Surjection(places, 1 .. N)
  <2>1. place \in Injection(places, 1 .. N)
    BY <1>5, <1>6 DEF Injection, IsInjective
  <2>2. IsFiniteSet(1 .. N) /\ Cardinality(1 .. N) = N
    BY <1>1, FS_Interval
  <2> QED BY <2>1, <2>2, FS_Injection DEF N
<1> QED BY <1>1, <1>5, <1>6, <1>8 DEF Surjection, place, N
\* An arrangement has at each place the element that belongs there.
LEMMA ArrangedAtPlaces ==
  ASSUME NEW places, IsFiniteSet(places), NEW before, Orders(before, places), NEW s
  PROVE  LET a == Arranged(s, places, before)  place == PlaceOf(places, before)
             N == Cardinality(places) IN
         /\ \A i \in places : place[i] \in 1 .. N /\ a[place[i]] = s[i]
         /\ \A p \in 1 .. N : \E i \in places : place[i] = p /\ a[p] = s[i]
<1> DEFINE a == Arranged(s, places, before)
           place == PlaceOf(places, before)
           N == Cardinality(places)
<1>1. a = [p \in 1 .. N |-> s[CHOOSE i \in places : place[i] = p]]
  BY DEF Arranged, PlaceOf
<1>2. /\ place \in [places -> 1 .. N]
      /\ \A i, j \in places : place[i] = place[j] => i = j
      /\ \A p \in 1 .. N : \E i \in places : place[i] = p
  BY PlacesAreNumbered
<1> HIDE DEF a, place, N
<1>3. \A p \in 1 .. N : \E i \in places : place[i] = p /\ a[p] = s[i]
  BY <1>1, <1>2
<1>4. \A i \in places : place[i] \in 1 .. N /\ a[place[i]] = s[i]
  BY <1>2, <1>3
<1> QED BY <1>3, <1>4 DEF a, place, N

LEMMA ArrangedType ==
  ASSUME NEW places, IsFiniteSet(places), NEW before, Orders(before, places),
         NEW s, NEW S, \A i \in places : s[i] \in S
  PROVE  Arranged(s, places, before) \in [1 .. Cardinality(places) -> S]
<1> DEFINE a == Arranged(s, places, before)
           place == PlaceOf(places, before)
           N == Cardinality(places)
<1>1. a = [p \in 1 .. N |-> s[CHOOSE i \in places : place[i] = p]]
  BY DEF Arranged, PlaceOf
<1>2. \A p \in 1 .. N : \E i \in places : place[i] = p /\ a[p] = s[i]
  BY ArrangedAtPlaces
<1> HIDE DEF a, place, N
<1>3. a \in [1 .. N -> S]
  BY <1>1, <1>2
<1> QED BY <1>3 DEF a, N

\* Two arrangements of the same elements in the same order are the same.
LEMMA SameArrangement ==
  ASSUME NEW s, NEW P, IsFiniteSet(P), NEW b, Orders(b, P),
         NEW t, NEW Q, IsFiniteSet(Q), NEW c, Orders(c, Q),
         NEW h \in [P -> Q], \A i, j \in P : h[i] = h[j] => i = j,
         \A k \in Q : \E i \in P : h[i] = k,
         \A i \in P : t[h[i]] = s[i],
         \A i, j \in P : <<i, j>> \in b <=> <<h[i], h[j]>> \in c
  PROVE  Arranged(s, P, b) = Arranged(t, Q, c)
<1> DEFINE f == PlaceOf(P, b)
           g == PlaceOf(Q, c)
           below(i) == {j \in P : <<j, i>> \in b}
           above(i) == {j \in Q : <<j, h[i]>> \in c}
<1>1. h \in Bijection(P, Q)
  BY DEF Bijection, Injection, Surjection, IsInjective
<1>2. Cardinality(P) = Cardinality(Q)
  BY <1>1, FS_Bijection DEF ExistsBijection
<1>3. ASSUME NEW i \in P
      PROVE  f[i] = g[h[i]]
  <2> DEFINE part == [j \in below(i) |-> h[j]]
  <2>1. part \in [below(i) -> above(i)]
    OBVIOUS
  <2>2. \A j, k \in below(i) : part[j] = part[k] => j = k
    OBVIOUS
  <2>3. \A k \in above(i) : \E j \in below(i) : part[j] = k
    OBVIOUS
  <2>4. part \in Bijection(below(i), above(i))
    <3> HIDE DEF part, below, above
    <3> QED BY <2>1, <2>2, <2>3 DEF Bijection, Injection, Surjection, IsInjective
  <2>5. IsFiniteSet(below(i))
    BY FS_Subset
  <2>6. Cardinality(above(i)) = Cardinality(below(i))
    <3> HIDE DEF part, below, above
    <3> QED BY <2>4, <2>5, FS_Bijection DEF ExistsBijection
  <2>7. f[i] = 1 + Cardinality(below(i)) /\ g[h[i]] = 1 + Cardinality(above(i))
    BY DEF PlaceOf
  <2> HIDE DEF f, g, below, above
  <2> QED BY <2>6, <2>7
<1> DEFINE x == Arranged(s, P, b)
           y == Arranged(t, Q, c)
           N == Cardinality(P)
<1> DEFINE S == {s[i] : i \in P}
<1>4. /\ x \in [1 .. N -> S]
      /\ \A p \in 1 .. N : \E i \in P : f[i] = p /\ x[p] = s[i]
  <2>1. x \in [1 .. N -> S]
    <3>1. \A i \in P : s[i] \in S
      OBVIOUS
    <3> HIDE DEF S
    <3> QED BY ONLY <3>1, ArrangedType, IsFiniteSet(P), Orders(b, P)
  <2>2. \A p \in 1 .. N : \E i \in P : f[i] = p /\ x[p] = s[i]
    BY ONLY ArrangedAtPlaces, IsFiniteSet(P), Orders(b, P)
  <2> QED BY <2>1, <2>2
<1>5. /\ y \in [1 .. Cardinality(Q) -> S]
      /\ \A k \in Q : y[g[k]] = t[k]
  <2>1. y \in [1 .. Cardinality(Q) -> S]
    <3>1. \A k \in Q : t[k] \in S
      OBVIOUS
    <3> HIDE DEF S
    <3> QED BY ONLY <3>1, ArrangedType, IsFiniteSet(Q), Orders(c, Q)
  <2>2. \A k \in Q : y[g[k]] = t[k]
    BY ONLY ArrangedAtPlaces, IsFiniteSet(Q), Orders(c, Q)
  <2> QED BY <2>1, <2>2
<1>6. \A p \in 1 .. N : x[p] = y[p]
  <2> HIDE DEF f, g, x, y, N, S
  <2> QED BY <1>3, <1>4, <1>5
<1>7. y \in [1 .. N -> S]
  BY <1>2, <1>5
<1> DEFINE range == 1 .. N
<1> HIDE DEF x, y, N, S, range
<1>8. x \in [range -> S] /\ y \in [range -> S] /\ \A p \in range : x[p] = y[p]
  BY <1>4, <1>6, <1>7 DEF range
<1>9. x = y
  BY ONLY <1>8
<1> QED BY <1>9 DEF x, y

\* An arrangement of distinct elements lists each of them once, in their order.
LEMMA ArrangedElements ==
  ASSUME NEW places, IsFiniteSet(places), NEW before, Orders(before, places),
         NEW S, NEW s, \A i \in places : s[i] \in S,
         \A i, j \in places : s[i] = s[j] => i = j
  PROVE  LET a == Arranged(s, places, before)  N == Cardinality(places) IN
         /\ N \in Nat /\ a \in Seq(S) /\ Len(a) = N /\ DOMAIN a = 1 .. N
         /\ IsInjective(a)
         /\ \A x : x \in Range(a) <=> \E i \in places : s[i] = x
<1> DEFINE a == Arranged(s, places, before)
           place == PlaceOf(places, before)
           N == Cardinality(places)
<1>1. /\ a \in [1 .. N -> S]
      /\ \A i \in places : place[i] \in 1 .. N /\ a[place[i]] = s[i]
      /\ \A p \in 1 .. N : \E i \in places : place[i] = p /\ a[p] = s[i]
  <2>1. a \in [1 .. N -> S]
    BY ArrangedType
  <2>2. \A i \in places : place[i] \in 1 .. N /\ a[place[i]] = s[i]
    BY ArrangedAtPlaces
  <2>3. \A p \in 1 .. N : \E i \in places : place[i] = p /\ a[p] = s[i]
    BY ArrangedAtPlaces
  <2> QED BY <2>1, <2>2, <2>3
<1>2. /\ N \in Nat
      /\ \A i, j \in places : <<i, j>> \in before <=> place[i] < place[j]
      /\ \A i, j \in places : place[i] = place[j] => i = j
  BY PlacesAreNumbered
<1> HIDE DEF a, place, N
<1>3. a \in Seq(S) /\ Len(a) = N /\ DOMAIN a = 1 .. N
  BY <1>1, <1>2
<1>4. IsInjective(a)
  <2> SUFFICES ASSUME NEW p \in 1 .. N, NEW q \in 1 .. N, a[p] = a[q]
               PROVE  p = q
    BY <1>3 DEF IsInjective
  <2>1. PICK i \in places : place[i] = p /\ a[p] = s[i]
    BY <1>1
  <2>2. PICK j \in places : place[j] = q /\ a[q] = s[j]
    BY <1>1
  <2> QED BY <2>1, <2>2
<1>5. \A x : x \in Range(a) <=> \E i \in places : s[i] = x
  BY <1>1, <1>3 DEF Range
<1> QED BY ONLY <1>2, <1>3, <1>4, <1>5 DEF a, N

\* A sequence has as many places as its length says.
LEMMA PlacesOfSequence ==
  ASSUME NEW S, NEW s \in Seq(S)
  PROVE  IsFiniteSet(DOMAIN s) /\ Cardinality(DOMAIN s) = Len(s)
<1> DEFINE n == Len(s)
<1>1. DOMAIN s = 1 .. n /\ n \in Nat
  OBVIOUS
<1> HIDE DEF n
<1>2. IsFiniteSet(1 .. n)
  BY <1>1, FS_Interval
<1>3. Cardinality(1 .. n) = IF 1 > n THEN 0 ELSE n - 1 + 1
  BY <1>1, FS_Interval
<1>4. Cardinality(1 .. n) = n
  BY <1>1, <1>3
<1> QED BY <1>1, <1>2, <1>4 DEF n

\* The filter returns what it keeps, each chunk once.
LEMMA KeptElements ==
  ASSUME NEW s \in Seq(Chunks), IsInjective(s), NEW K
  PROVE  /\ Kept(s, K) \in Seq(Chunks) /\ IsInjective(Kept(s, K))
         /\ \A c : c \in Range(Kept(s, K)) <=> c \in Range(s) /\ c \in K
         /\ Len(Kept(s, K)) = Cardinality({i \in DOMAIN s : s[i] \in K})
<1> DEFINE places == {i \in DOMAIN s : s[i] \in K}
           before == {p \in places \X places : p[1] < p[2]}
<1>1. IsFiniteSet(places)
  <2>1. IsFiniteSet(DOMAIN s)
    BY FS_Interval
  <2> QED BY <2>1, FS_Subset
<1>2. Orders(before, places)
  <2>1. \A i, j \in places : <<i, j>> \in before <=> i < j
    OBVIOUS
  <2>2. places \subseteq Nat
    OBVIOUS
  <2> HIDE DEF before, places
  <2> QED BY <2>1, <2>2 DEF Orders
<1>3. /\ \A i \in places : s[i] \in Chunks
      /\ \A i, j \in places : s[i] = s[j] => i = j
      /\ \A c : (\E i \in places : s[i] = c) <=> c \in Range(s) /\ c \in K
  BY DEF IsInjective, Range
<1>4. Kept(s, K) = Arranged(s, places, before)
  BY DEF Kept
<1> HIDE DEF before, places
<1>5. LET a == Arranged(s, places, before) IN
        /\ a \in Seq(Chunks) /\ Len(a) = Cardinality(places) /\ IsInjective(a)
        /\ \A c : c \in Range(a) <=> \E i \in places : s[i] = c
  BY <1>1, <1>2, <1>3, ArrangedElements
<1> QED BY <1>3, <1>4, <1>5 DEF places

\* How the stable sort compares the places of distinct chunks.
LEMMA SortOrders ==
  ASSUME NEW s \in Seq(Chunks), IsInjective(s), NEW less, Orders(less, Chunks)
  PROVE  /\ \A i, j \in DOMAIN s :
              <<i, j>> \in StableOrder(s, less) <=> <<s[i], s[j]>> \in less
         /\ Orders(StableOrder(s, less), DOMAIN s) /\ IsFiniteSet(DOMAIN s)
<1> DEFINE places == DOMAIN s
           before == StableOrder(s, less)
<1>1. ASSUME NEW i \in places, NEW j \in places
      PROVE  <<i, j>> \in before <=> <<s[i], s[j]>> \in less
  <2>1. s[i] \in Chunks /\ s[j] \in Chunks /\ (s[i] = s[j] => i = j)
    BY DEF IsInjective
  <2>2. ~(i < i)
    OBVIOUS
  <2>3. <<i, j>> \in before <=> \/ <<s[i], s[j]>> \in less
                                \/ <<s[j], s[i]>> \notin less /\ i < j
    BY DEF StableOrder
  <2> HIDE DEF places, before
  <2>4. /\ <<s[i], s[i]>> \notin less
        /\ i # j => <<s[i], s[j]>> \in less \/ <<s[j], s[i]>> \in less
        /\ ~(<<s[i], s[j]>> \in less /\ <<s[j], s[i]>> \in less)
    BY <2>1 DEF Orders
  <2> QED BY <2>1, <2>2, <2>3, <2>4
<1>2. \A i \in places : s[i] \in Chunks
  OBVIOUS
<1>3. \A i, j \in places : s[i] = s[j] => i = j
  BY DEF IsInjective
<1>4. IsFiniteSet(places)
  BY FS_Interval
<1> HIDE DEF places, before
<1>5. Orders(before, places)
  BY <1>1, <1>2, <1>3 DEF Orders
<1> QED BY <1>1, <1>4, <1>5 DEF places, before

\* A sort lists the same chunks, in the order.
LEMMA SortedElements ==
  ASSUME NEW s \in Seq(Chunks), IsInjective(s), NEW less, Orders(less, Chunks)
  PROVE  LET t == Sorted(s, less) IN
         /\ t \in Seq(Chunks) /\ DOMAIN t = DOMAIN s /\ Len(t) = Len(s)
         /\ IsInjective(t) /\ Range(t) = Range(s)
         /\ \A p, q \in DOMAIN t : p < q => <<t[p], t[q]>> \in less
<1> DEFINE places == DOMAIN s
           before == StableOrder(s, less)
           t == Sorted(s, less)
<1>1. /\ \A i, j \in places : <<i, j>> \in before <=> <<s[i], s[j]>> \in less
      /\ Orders(before, places) /\ IsFiniteSet(places)
      /\ t = Arranged(s, places, before)
  BY SortOrders DEF Sorted
<1>2. /\ \A i \in places : s[i] \in Chunks
      /\ \A i, j \in places : s[i] = s[j] => i = j
      /\ places = 1 .. Len(s) /\ Len(s) \in Nat
  BY DEF IsInjective
<1> HIDE DEF places, before, t
<1>3. Cardinality(places) = Len(s)
  BY PlacesOfSequence DEF places
<1>4. /\ t \in Seq(Chunks) /\ Len(t) = Cardinality(places)
      /\ DOMAIN t = 1 .. Cardinality(places) /\ IsInjective(t)
      /\ \A x : x \in Range(t) <=> \E i \in places : s[i] = x
  <2>1. LET a == Arranged(s, places, before)  N == Cardinality(places) IN
          /\ a \in Seq(Chunks) /\ Len(a) = N /\ DOMAIN a = 1 .. N /\ IsInjective(a)
          /\ \A x : x \in Range(a) <=> \E i \in places : s[i] = x
    BY <1>1, <1>2, ArrangedElements
  <2> QED BY <1>1, <2>1
<1>6. DOMAIN t = DOMAIN s /\ Len(t) = Len(s)
  BY <1>2, <1>3, <1>4 DEF places
<1>7. Range(t) = Range(s)
  BY <1>4 DEF Range, places
<1> DEFINE place == PlaceOf(places, before)
           N == Cardinality(places)
<1>8. \A n \in 1 .. N : \E i \in places : place[i] = n /\ t[n] = s[i]
  <2>1. \A n \in 1 .. N : \E i \in places : place[i] = n /\ Arranged(s, places, before)[n] = s[i]
    BY <1>1, ArrangedAtPlaces
  <2> QED BY <1>1, <2>1
<1>9. \A i, j \in places : <<i, j>> \in before <=> place[i] < place[j]
  BY <1>1, PlacesAreNumbered
<1> HIDE DEF place, N
<1>10. ASSUME NEW p \in 1 .. N, NEW q \in 1 .. N, p < q
       PROVE  <<t[p], t[q]>> \in less
  <2>1. PICK i \in places : place[i] = p /\ t[p] = s[i]
    BY <1>8
  <2>2. PICK j \in places : place[j] = q /\ t[q] = s[j]
    BY <1>8
  <2> QED BY <1>1, <1>9, <1>10, <2>1, <2>2
<1> QED BY <1>4, <1>6, <1>7, <1>10 DEF t, N

\* It does not depend on the order they came in.
LEMMA SortIgnoresOrder ==
  ASSUME NEW s \in Seq(Chunks), IsInjective(s), NEW t \in Seq(Chunks), IsInjective(t),
         Range(s) = Range(t), NEW less, Orders(less, Chunks)
  PROVE  Sorted(s, less) = Sorted(t, less)
<1> DEFINE P == DOMAIN s
           b == StableOrder(s, less)
           Q == DOMAIN t
           c == StableOrder(t, less)
           h == [i \in P |-> CHOOSE j \in Q : t[j] = s[i]]
<1>1. /\ \A i, j \in P : <<i, j>> \in b <=> <<s[i], s[j]>> \in less
      /\ Orders(b, P) /\ IsFiniteSet(P)
      /\ Sorted(s, less) = Arranged(s, P, b)
  BY SortOrders DEF Sorted
<1>2. /\ \A i, j \in Q : <<i, j>> \in c <=> <<t[i], t[j]>> \in less
      /\ Orders(c, Q) /\ IsFiniteSet(Q)
      /\ Sorted(t, less) = Arranged(t, Q, c)
  BY SortOrders DEF Sorted
<1> HIDE DEF b, c
<1>3. /\ \A i \in P : \E j \in Q : t[j] = s[i]
      /\ \A j \in Q : \E i \in P : t[j] = s[i]
  BY DEF Range
<1>4. /\ \A i, j \in P : s[i] = s[j] => i = j
      /\ \A i, j \in Q : t[i] = t[j] => i = j
  BY DEF IsInjective
<1> HIDE DEF P, Q
<1>5. \A i \in P : h[i] \in Q /\ t[h[i]] = s[i]
  BY <1>3
<1>6. h \in [P -> Q]
  BY <1>5
<1> HIDE DEF h
<1>7. /\ \A i, j \in P : h[i] = h[j] => i = j
      /\ \A k \in Q : \E i \in P : h[i] = k
  BY <1>3, <1>4, <1>5
<1>8. \A i, j \in P : <<i, j>> \in b <=> <<h[i], h[j]>> \in c
  BY <1>1, <1>2, <1>5
<1>9. Arranged(s, P, b) = Arranged(t, Q, c)
  BY ONLY <1>1, <1>2, <1>5, <1>6, <1>7, <1>8, SameArrangement
<1> QED BY <1>1, <1>2, <1>9

\* The keys of the two sorts tell any two chunks apart.
LEMMA KeysAreOrders ==
  /\ \A score \in [Chunks -> Int] : Orders(ByScore(score), Chunks)
  /\ Orders(ByDistance, Chunks)
<1> USE ReadsAssumption
<1>1. ASSUME NEW score \in [Chunks -> Int]
      PROVE  Orders(ByScore(score), Chunks)
  <2>1. \A a, b \in Chunks : <<a, b>> \in ByScore(score) <=> Before(score, a, b)
    BY DEF ByScore
  <2>2. /\ \A a \in Chunks : ~Before(score, a, a)
        /\ \A a, b \in Chunks : a = b \/ Before(score, a, b) \/ Before(score, b, a)
    BY DEF Before
  <2>3. ASSUME NEW a \in Chunks, NEW b \in Chunks, NEW c \in Chunks,
               Before(score, a, b), Before(score, b, c)
        PROVE  Before(score, a, c)
    BY <2>3 DEF Before
  <2> QED BY <2>1, <2>2, <2>3 DEF Orders
<1>2. Orders(ByDistance, Chunks)
  <2>1. \A a, b \in Chunks : <<a, b>> \in ByDistance <=> DenseBefore(a, b)
    BY DEF ByDistance
  <2>2. /\ \A a \in Chunks : ~DenseBefore(a, a)
        /\ \A a, b \in Chunks : a = b \/ DenseBefore(a, b) \/ DenseBefore(b, a)
        /\ \A a, b, c \in Chunks : DenseBefore(a, b) /\ DenseBefore(b, c) => DenseBefore(a, c)
    BY DEF DenseBefore
  <2> QED BY <2>1, <2>2 DEF Orders
<1> QED BY <1>1, <1>2

\* Where the sequence keeps its beginning and nothing after it, the filter
\* leaves every chunk at its place.
LEMMA KeptPrefix ==
  ASSUME NEW s \in Seq(Chunks), NEW K,
         \A i, j \in DOMAIN s : i < j /\ s[j] \in K => s[i] \in K
  PROVE  LET n == Cardinality({i \in DOMAIN s : s[i] \in K}) IN
         \A i \in DOMAIN s : /\ s[i] \in K <=> i <= n
                             /\ s[i] \in K => Kept(s, K)[i] = s[i]
<1> DEFINE places == {i \in DOMAIN s : s[i] \in K}
           before == {p \in places \X places : p[1] < p[2]}
           place == PlaceOf(places, before)
           n == Cardinality(places)
<1>1. IsFiniteSet(places) /\ places \subseteq Nat \ {0} /\ places \subseteq DOMAIN s
  <2>1. IsFiniteSet(DOMAIN s)
    BY FS_Interval
  <2> QED BY <2>1, FS_Subset
<1>2. \A i, j \in places : <<i, j>> \in before <=> i < j
  BY <1>1
<1>3. Kept(s, K) = Arranged(s, places, before)
  BY DEF Kept
<1>4. \A i \in DOMAIN s : s[i] \in K <=> i \in places
  OBVIOUS
<1>5. \A i \in DOMAIN s, j \in places : i < j => i \in places
  OBVIOUS
<1> HIDE DEF before, places
<1>6. Orders(before, places)
  BY <1>1, <1>2 DEF Orders
<1>7. ASSUME NEW i \in places
      PROVE  place[i] = i
  <2> DEFINE below == {j \in places : <<j, i>> \in before}
  <2>1. below = 1 .. (i - 1)
    <3>1. i \in DOMAIN s /\ DOMAIN s = 1 .. Len(s) /\ Len(s) \in Nat
      BY <1>1
    <3>2. \A j \in 1 .. (i - 1) : j \in places /\ j < i
      BY <1>5, <3>1
    <3>3. \A j \in places : j < i => j \in 1 .. (i - 1)
      BY <1>1, <3>1
    <3> QED BY <1>2, <3>2, <3>3
  <2>2. Cardinality(1 .. (i - 1)) = i - 1
    <3>1. Cardinality(1 .. (i - 1)) = IF 1 > i - 1 THEN 0 ELSE (i - 1) - 1 + 1
      BY <1>1, FS_Interval
    <3> QED BY <1>1, <3>1
  <2>3. place[i] = 1 + Cardinality(below)
    BY DEF PlaceOf
  <2> HIDE DEF place, below
  <2> QED BY <1>1, <2>1, <2>2, <2>3
<1>8. /\ \A i \in places : place[i] \in 1 .. n /\ Arranged(s, places, before)[place[i]] = s[i]
      /\ \A p \in 1 .. n : \E i \in places : place[i] = p
  <2>1. \A i \in places : place[i] \in 1 .. n /\ Arranged(s, places, before)[place[i]] = s[i]
    BY <1>1, <1>6, ArrangedAtPlaces
  <2>2. \A p \in 1 .. n : \E i \in places : place[i] = p
    BY <1>1, <1>6, PlacesAreNumbered
  <2> QED BY <2>1, <2>2
<1> HIDE DEF place, n
<1>9. \A i \in places : i \in 1 .. n /\ Kept(s, K)[i] = s[i]
  BY <1>3, <1>7, <1>8
<1>10. \A p \in 1 .. n : p \in places
  BY <1>7, <1>8
<1>11. ASSUME NEW i \in DOMAIN s
       PROVE  /\ s[i] \in K <=> i <= n
              /\ s[i] \in K => Kept(s, K)[i] = s[i]
  <2>1. i \in Nat \ {0} /\ n \in Nat
    BY <1>1, FS_CardinalityType DEF n
  <2>2. i \in places => i <= n /\ Kept(s, K)[i] = s[i]
    BY <1>9, <2>1
  <2>3. i <= n => i \in places
    BY <1>10, <2>1
  <2> QED BY <1>4, <2>2, <2>3
<1> QED BY <1>11 DEF n, places

\* What retrieval returns of the chunks it may return, and how many: those
\* that reach the threshold and are among the first TopK of the ranking.
LEMMA RerankedIs ==
  ASSUME NEW hits \in Seq(Chunks), IsInjective(hits), NEW score \in [Chunks -> Int]
  PROVE  LET scored == Scored(hits, score)  items == Reranked(hits, score) IN
         /\ items \in Seq(Chunks) /\ Len(items) <= TopK
         /\ IsInjective(items)
         /\ \A c : c \in Range(items) <=>
              \E i \in DOMAIN hits : scored[i] = c /\ i <= TopK /\ score[c] >= Threshold
<1> DEFINE scored == Scored(hits, score)
           passing == Kept(scored, Passing(score))
           n == Cardinality({i \in DOMAIN scored : scored[i] \in Passing(score)})
           m == IF n < TopK THEN n ELSE TopK
           items == Reranked(hits, score)
<1>1. TopK \in Nat /\ Threshold \in Int
  BY ReadsAssumption
<1>2. Orders(ByScore(score), Chunks)
  BY KeysAreOrders
<1>3. /\ scored \in Seq(Chunks) /\ DOMAIN scored = DOMAIN hits /\ IsInjective(scored)
      /\ \A p, q \in DOMAIN scored : p < q => <<scored[p], scored[q]>> \in ByScore(score)
  BY <1>2, SortedElements DEF Scored
<1>4. /\ passing \in Seq(Chunks) /\ IsInjective(passing) /\ Len(passing) = n
  <2> HIDE DEF scored
  <2> QED BY <1>3, KeptElements
<1>5. \A c \in Chunks : c \in Passing(score) <=> score[c] >= Threshold
  BY DEF Passing, PassesThreshold
<1>6. ASSUME NEW i \in DOMAIN scored, NEW j \in DOMAIN scored, i < j, scored[j] \in Passing(score)
      PROVE  scored[i] \in Passing(score)
  <2> HIDE DEF scored
  <2>1. <<scored[i], scored[j]>> \in ByScore(score) /\ scored[i] \in Chunks /\ scored[j] \in Chunks
    BY <1>3, <1>6
  <2>2. score[scored[i]] >= score[scored[j]]
    BY <2>1 DEF ByScore, Before
  <2> QED BY <1>1, <1>5, <1>6, <2>1, <2>2
<1>7. \A i \in DOMAIN scored : /\ scored[i] \in Passing(score) <=> i <= n
                               /\ scored[i] \in Passing(score) => passing[i] = scored[i]
  <2> HIDE DEF scored
  <2> QED BY <1>3, <1>6, KeptPrefix
<1>8. items = SubSeq(passing, 1, m) /\ n \in Nat
  BY <1>4 DEF Reranked
<1> HIDE DEF scored, passing, n, items
<1>9. /\ m \in 0 .. n /\ m <= TopK
      /\ items \in Seq(Chunks) /\ Len(items) = m /\ DOMAIN items = 1 .. m
      /\ \A i \in 1 .. m : items[i] = passing[i]
  BY <1>1, <1>4, <1>8
<1>10. IsInjective(items)
  BY <1>4, <1>9 DEF IsInjective
<1>11. ASSUME NEW c, c \in Range(items)
       PROVE  \E i \in DOMAIN hits : scored[i] = c /\ i <= TopK /\ score[c] >= Threshold
  <2>1. PICK i \in 1 .. m : items[i] = c
    BY <1>9, <1>11 DEF Range
  <2>2. n <= Len(scored)
    <3>1. IsFiniteSet(DOMAIN scored) /\ Cardinality(DOMAIN scored) = Len(scored)
      BY <1>3, PlacesOfSequence
    <3> QED BY <3>1, FS_Subset DEF n
  <2>3. i \in DOMAIN scored /\ i <= n /\ i <= TopK
    BY <1>1, <1>3, <1>8, <1>9, <2>1, <2>2
  <2> QED BY <1>3, <1>5, <1>7, <1>9, <2>1, <2>3
<1>12. ASSUME NEW i \in DOMAIN hits, i <= TopK, score[scored[i]] >= Threshold
       PROVE  scored[i] \in Range(items)
  <2>1. scored[i] \in Passing(score) /\ i \in DOMAIN scored
    BY <1>3, <1>5, <1>12
  <2>2. i <= n /\ passing[i] = scored[i]
    BY <1>7, <2>1
  <2>3. i \in 1 .. m
    BY <1>1, <1>3, <1>8, <1>12, <2>1, <2>2
  <2> QED BY <1>9, <2>2, <2>3 DEF Range
<1> QED BY <1>9, <1>10, <1>11, <1>12 DEF scored, items

-----------------------------------------------------------------------------
(* The inductive invariant: what a read has in hand is what the documents  *)
(* were, or still are, when it took it.                                    *)

DocumentsSound ==
    \A d \in Documents :
        /\ documents[d].version >= 1
        /\ documents[d].fields <= documents[d].version
        /\ Exists(d) => documents[d].fields > 0 /\ documents[d].approved <= documents[d].fields
        /\ ~Exists(d) => documents[d].fields = 0 /\ ~documents[d].blocked

\* A read takes the steps of its operation and answers at the end.
OnItsPath(r) ==
    LET R == read[r] IN
    /\ R.at = "idle" => R = NoRead
    /\ R.at \in {"search", "rerank", "askModel"} => R.op \in SearchOperations
    /\ R.at = "readFields" => R.op \in PageOperations
    /\ R.op \in {"DETAIL", "DRAFT"} /\ R.at # "answered" => R.target \in Documents
    /\ R.op \notin SearchOperations => R.hits = <<>>
    /\ R.at \in {"readBlocked", "readRows"} =>
         R.todo = {} /\ \A d \in Documents : R.fields[d] = 0
    /\ R.at \notin {"askModel", "answered"} => R.items = <<>>
    /\ R.at # "answered" => R.answer = "NONE" /\ R.citations = <<>>

\* The documents a formal read works with were confirmed during the read, and
\* those hidden when it began are not among them, or gone with their fields.
ScopeIsFormal(r) ==
    LET R == read[r] IN
    /\ \A d \in R.hidden : documents[d].blocked \/ ~Exists(d)
    /\ R.at \notin {"idle", "answered"} => Confirmed \subseteq R.confirmed
    /\ R.at = "readRows" /\ R.op \in SearchOperations \union {"LIST"} =>
         \A d \in R.hidden : d \in R.blocked \/ ~Exists(d)
    /\ R.op \in FormalOperations => \A d \in Documents :
         /\ R.version[d] > 0 => d \in R.confirmed /\ (R.op # "DETAIL" => d \notin R.hidden)
         /\ d \in R.todo \/ R.fields[d] > 0 => R.version[d] > 0
    /\ R.op = "DETAIL" =>
         /\ R.at \in {"readBlocked", "readFields"} => R.version[R.target] > 0
         /\ \A d \in R.hidden : /\ R.fields[d] = 0
                                /\ R.at = "readFields" /\ R.version[d] > 0 => ~Exists(d)

\* A page is no newer than the documents, and true where it is not older.
PageIsSound(r) ==
    LET R == read[r] IN
    /\ \A d \in Documents : R.version[d] <= documents[d].version
    /\ R.op = "DETAIL" /\ R.at = "readBlocked" =>
         \A d \in Documents \ {R.target} : R.version[d] = 0
    /\ R.op \in PageOperations /\ R.at \in {"readFields", "answered"} =>
         \A d \in Documents \ R.todo :
             Exists(d) /\ R.version[d] = documents[d].version => R.fields[d] = documents[d].fields

\* Evidence passed the scope and the threshold; an answer rests on evidence.
EvidenceIsSound(r) ==
    LET R == read[r] IN
    /\ IsInjective(R.hits)
    /\ R.at \in {"askModel", "answered"} =>
         /\ IsInjective(R.items)
         /\ \A c \in Range(R.items) : c \in Validated(r) /\ R.score[c] >= Threshold
    /\ R.answer = "ANSWERED" => /\ R.op \in SearchOperations /\ R.citations # <<>>
                                /\ IsInjective(R.citations)
                                /\ Range(R.citations) \subseteq Range(R.items)
    /\ R.answer = "REFUSED" => R.citations = <<>>

ReaderSound(r) ==
    OnItsPath(r) /\ ScopeIsFormal(r) /\ PageIsSound(r) /\ EvidenceIsSound(r)

ReadsInvariant == TypeOK /\ DocumentsSound /\ \A r \in Readers : ReaderSound(r)

-----------------------------------------------------------------------------

LEMMA NoReadIsRead == NoRead \in Read
<1>1. <<>> \in Seq(Chunks)
  OBVIOUS
<1>2. [d \in Documents |-> 0] \in [Documents -> Nat] /\ [c \in Chunks |-> 0] \in [Chunks -> Int]
  OBVIOUS
<1> QED BY <1>1, <1>2 DEF NoRead, Read

\* What the rows show is well typed.
LEMMA VersionsAreTyped ==
  ASSUME TypeOK, NEW shown
  PROVE  VersionsOf(shown) \in [Documents -> Nat]
  BY DEF TypeOK, VersionsOf

\* Chroma's answer lists chunks, none twice.
LEMMA ColumnsAreChunks ==
  ASSUME NEW hits \in Columns
  PROVE  hits \in Seq(Chunks) /\ IsInjective(hits)
<1> DEFINE limit == IF CandidateK < Cardinality(Chunks) THEN CandidateK ELSE Cardinality(Chunks)
<1>1. limit \in Nat
  BY ReadsAssumption, FS_CardinalityType
<1>2. PICK n \in 0 .. limit : hits \in {s \in [1 .. n -> Chunks] : IsInjective(s)}
  BY DEF Columns
<1> HIDE DEF limit
<1>3. n \in Nat
  BY <1>1
<1> QED BY <1>2, <1>3

\* The candidates are the chunks of Chroma's answer that are in the scope.
LEMMA CandidatesAre ==
  ASSUME TypeOK, NEW r \in Readers, IsInjective(read[r].hits)
  PROVE  /\ Candidates(r) \in Seq(Chunks) /\ IsInjective(Candidates(r))
         /\ Range(Candidates(r)) = Validated(r)
         /\ Validated(r) \subseteq Chunks
<1>1. read[r].hits \in Seq(Chunks)
  BY DEF TypeOK, Read
<1>2. \A c : c \in Range(Candidates(r)) <=> c \in Range(read[r].hits) /\ c \in Validated(r)
  BY <1>1, KeptElements DEF Candidates
<1>3. Validated(r) \subseteq Range(read[r].hits)
  BY DEF Validated
<1>4. Range(read[r].hits) \subseteq Chunks
  BY <1>1 DEF Range
<1>5. Candidates(r) \in Seq(Chunks) /\ IsInjective(Candidates(r))
  BY <1>1, KeptElements DEF Candidates
<1> QED BY <1>2, <1>3, <1>4, <1>5

\* A page or a search takes typed steps.
LEMMA TypeOKMove ==
  ASSUME TypeOK, NEW r \in Readers, NEW record \in Read, Len(record.items) <= TopK,
         Move(r, record)
  PROVE  TypeOK'
  BY DEF TypeOK, Move

LEMMA TypeOKFail ==
  ASSUME TypeOK, NEW r \in Readers, Fail(r)
  PROVE  TypeOK'
<1> DEFINE record == [NoRead EXCEPT !.op = read[r].op, !.at = "answered", !.answer = "ERROR"]
<1>1. record \in Read
  BY NoReadIsRead DEF TypeOK, Read
<1>2. Len(record.items) <= TopK
  BY ReadsAssumption DEF NoRead
<1> HIDE DEF record
<1>3. Move(r, record)
  BY DEF Fail, record
<1> QED BY <1>1, <1>2, <1>3, TypeOKMove

\* An accepted decision cites items it was given, each once.
LEMMA CitationsAre ==
  ASSUME NEW items \in Seq(Chunks), NEW d \in Decisions(Len(items)), Accepted(d, Len(items))
  PROVE  LET cited == [k \in DOMAIN d.citations |-> items[d.citations[k]]] IN
         /\ cited \in Seq(Chunks)
         /\ d.decision = "REFUSED" => cited = <<>>
         /\ d.decision = "ANSWERED" =>
              /\ cited # <<>> /\ Range(cited) \subseteq Range(items)
              /\ IsInjective(items) => IsInjective(cited)
<1> DEFINE cited == [k \in DOMAIN d.citations |-> items[d.citations[k]]]
           n == Len(items)
<1>1. /\ d.decision \in {"ANSWERED", "REFUSED"}
      /\ d.citations \in {<<>>} \union [{1} -> 0 .. n + 1] \union [{1, 2} -> 0 .. n + 1]
  BY DEF Decisions
<1>2. CASE d.citations = <<>>
  BY <1>1, <1>2 DEF Accepted
<1>3. CASE d.citations # <<>>
  <2>1. d.decision = "ANSWERED" /\ IsInjective(d.citations) /\ Range(d.citations) \subseteq 1 .. n
    BY <1>1, <1>3 DEF Accepted
  <2>2. \A k \in DOMAIN d.citations : d.citations[k] \in 1 .. n
    BY <2>1 DEF Range
  <2>3. \A k \in DOMAIN d.citations :
           items[d.citations[k]] \in Chunks /\ items[d.citations[k]] \in Range(items)
    BY <2>2 DEF Range
  <2>4. DOMAIN d.citations = 1 .. 1 \/ DOMAIN d.citations = 1 .. 2
    BY <1>1, <1>3
  <2>5. cited \in Seq(Chunks) /\ cited # <<>>
    <3>1. PICK m \in {1, 2} : DOMAIN d.citations = 1 .. m
      BY <2>4
    <3>2. cited \in [1 .. m -> Chunks] /\ DOMAIN cited = 1 .. m
      BY <2>3, <3>1
    <3> HIDE DEF cited
    <3>3. m \in Nat /\ 1 \in DOMAIN cited
      BY <3>1, <3>2
    <3>4. cited \in Seq(Chunks)
      BY <3>2, <3>3
    <3>5. cited # <<>>
      BY <3>3
    <3> QED BY <3>4, <3>5
  <2>6. Range(cited) \subseteq Range(items)
    BY <2>3 DEF Range
  <2>7. ASSUME IsInjective(items)
        PROVE  IsInjective(cited)
    <3>1. \A i, j \in 1 .. n : items[i] = items[j] => i = j
      BY <2>7 DEF IsInjective
    <3>2. \A i, j \in DOMAIN d.citations : d.citations[i] = d.citations[j] => i = j
      BY <2>1 DEF IsInjective
    <3> QED BY <2>2, <3>1, <3>2 DEF IsInjective
  <2> QED BY <2>1, <2>5, <2>6, <2>7
<1> QED BY <1>2, <1>3

\* Chunks that are no candidates count as 0.
LEMMA ScoresAreGiven ==
  ASSUME NEW r \in Readers, NEW some \in [Validated(r) -> Scores]
  PROVE  [c \in Chunks |-> IF c \in DOMAIN some THEN some[c] ELSE 0] \in [Chunks -> Int]
<1> DEFINE score == [c \in Chunks |-> IF c \in DOMAIN some THEN some[c] ELSE 0]
<1>1. \A c \in DOMAIN some : some[c] \in Scores
  OBVIOUS
<1>2. Scores \subseteq Int
  BY ReadsAssumption
<1>3. ASSUME NEW c \in Chunks
      PROVE  score[c] \in Int
  <2>1. CASE c \in DOMAIN some
    <3>1. score[c] = some[c]
      BY <2>1
    <3> HIDE DEF score
    <3> QED BY <1>1, <1>2, <2>1, <3>1
  <2>2. CASE c \notin DOMAIN some
    BY <2>2
  <2> QED BY <2>1, <2>2
<1> QED BY <1>3

\* What retrieval returns are candidates that reach the threshold.
LEMMA EvidenceIs ==
  ASSUME TypeOK, NEW r \in Readers, IsInjective(read[r].hits), NEW score \in [Chunks -> Int]
  PROVE  LET items == Reranked(Candidates(r), score) IN
         /\ items \in Seq(Chunks) /\ Len(items) <= TopK /\ IsInjective(items)
         /\ \A c \in Range(items) : c \in Validated(r) /\ score[c] >= Threshold
<1> DEFINE candidates == Candidates(r)
           items == Reranked(candidates, score)
           scored == Scored(candidates, score)
<1>1. /\ candidates \in Seq(Chunks) /\ IsInjective(candidates)
      /\ Range(candidates) = Validated(r)
  BY CandidatesAre
<1> HIDE DEF candidates
<1>2. /\ items \in Seq(Chunks) /\ Len(items) <= TopK /\ IsInjective(items)
      /\ \A c : c \in Range(items) <=>
           \E i \in DOMAIN candidates : scored[i] = c /\ i <= TopK /\ score[c] >= Threshold
  BY <1>1, RerankedIs
<1>3. DOMAIN scored = DOMAIN candidates /\ Range(scored) = Range(candidates)
  BY <1>1, KeysAreOrders, SortedElements DEF Scored
<1> HIDE DEF items, scored
<1>4. \A c \in Range(items) : c \in Range(scored) /\ score[c] >= Threshold
  BY <1>2, <1>3 DEF Range
<1> QED BY <1>1, <1>2, <1>3, <1>4 DEF items, candidates

\* Every step of a reader keeps the types.
LEMMA TypeOKReader ==
  ASSUME TypeOK, NEW r \in Readers, OnItsPath(r), IsInjective(read[r].hits), ReadStep(r) \/ Close(r)
  PROVE  TypeOK'
<1>1. /\ read[r] \in Read /\ Len(read[r].items) <= TopK
      /\ documents \in [Documents -> [status : {"PENDING", "CONFIRMED", "GONE"},
                                      blocked : BOOLEAN, version : Nat, fields : Nat,
                                      rows : Nat, approved : Nat]]
  BY DEF TypeOK
<1>2. CASE ReadFails(r) \/ RowMissing(r)
  BY <1>2, TypeOKFail DEF ReadFails, RowMissing
<1>3. CASE Close(r)
  <2>1. Len(NoRead.items) <= TopK
    BY ReadsAssumption DEF NoRead
  <2> QED BY <1>3, <2>1, NoReadIsRead, TypeOKMove DEF Close
<1>4. CASE ReadBlocked(r)
  <2>1. Blocked \in SUBSET Documents
    BY DEF Blocked
  <2> QED BY <1>1, <1>4, <2>1, TypeOKMove DEF ReadBlocked, Read
<1>5. CASE ListRows(r)
  <2> DEFINE shown == IF read[r].op = "LIST" THEN Confirmed \ read[r].blocked
                                             ELSE {d \in Documents : Exists(d)}
  <2>1. shown \in SUBSET Documents
    BY DEF Confirmed
  <2>2. VersionsOf(shown) \in [Documents -> Nat]
    BY VersionsAreTyped
  <2>3. Move(r, [read[r] EXCEPT !.version = VersionsOf(shown), !.todo = shown,
                                !.at = "readFields"])
    BY <1>5 DEF ListRows
  <2> HIDE DEF shown
  <2> QED BY <1>1, <2>1, <2>2, <2>3, TypeOKMove DEF Read
<1>6. CASE DetailRow(r)
  <2>1. VersionsOf({read[r].target}) \in [Documents -> Nat]
    BY VersionsAreTyped
  <2> QED BY <1>1, <1>6, <2>1, TypeOKMove DEF DetailRow, Read
<1>7. CASE DetailBlocked(r)
  <2>1. CASE read[r].target \in Blocked
    BY <1>7, <2>1, TypeOKFail DEF DetailBlocked
  <2>2. CASE read[r].target \notin Blocked
    <3>1. read[r].target \in Documents
      BY <1>7 DEF DetailBlocked, OnItsPath
    <3> QED BY <1>1, <1>7, <2>2, <3>1, TypeOKMove DEF DetailBlocked, Read
  <2> QED BY <2>1, <2>2
<1>8. CASE DraftRow(r)
  <2>1. VersionsOf({read[r].target}) \in [Documents -> Nat]
    BY VersionsAreTyped
  <2>2. read[r].target \in Documents
    BY <1>8 DEF DraftRow, OnItsPath
  <2> QED BY <1>1, <1>8, <2>1, <2>2, TypeOKMove DEF DraftRow, Read
<1>9. CASE PageDone(r)
  <2> DEFINE d == read[r].target
  <2>1. CASE read[r].op = "DETAIL" /\ documents[d].rows # read[r].rows
    <3>1. d \in Documents
      BY <1>9, <2>1 DEF PageDone, OnItsPath
    <3>2. documents[d].fields \in Nat
      BY <1>1, <3>1
    <3> QED BY <1>1, <1>9, <2>1, <3>1, <3>2, TypeOKMove DEF PageDone, Read
  <2>2. CASE ~(read[r].op = "DETAIL" /\ documents[d].rows # read[r].rows)
    BY <1>1, <1>9, <2>2, TypeOKMove DEF PageDone, Read
  <2> QED BY <2>1, <2>2
<1>10. ASSUME NEW d \in Documents, ReadFields(r, d)
       PROVE  TypeOK'
  <2>1. CASE read[r].op = "DRAFT" /\ documents[d].fields = 0
    BY <1>10, <2>1, TypeOKFail DEF ReadFields
  <2>2. CASE ~(read[r].op = "DRAFT" /\ documents[d].fields = 0)
    <3>1. documents[d].fields \in Nat /\ documents[d].rows \in Nat
      BY <1>1
    <3> QED BY <1>1, <1>10, <2>2, <3>1, TypeOKMove DEF ReadFields, Read
  <2> QED BY <2>1, <2>2
<1>11. CASE FormalRows(r)
  <2> DEFINE formal == Confirmed \ read[r].blocked
  <2>1. VersionsOf(formal) \in [Documents -> Nat]
    BY VersionsAreTyped
  <2>2. Move(r, [read[r] EXCEPT
                   !.version = VersionsOf(formal),
                   !.at = IF formal = {} THEN "answered" ELSE "search",
                   !.answer = IF formal = {} THEN "REFUSED" ELSE @])
    BY <1>11 DEF FormalRows
  <2> HIDE DEF formal
  <2> QED BY <1>1, <2>1, <2>2, TypeOKMove DEF Read
<1>12. CASE Search(r)
  <2>1. PICK hits \in Columns : Move(r, [read[r] EXCEPT !.hits = hits, !.at = "rerank"])
    BY <1>12 DEF Search
  <2>2. hits \in Seq(Chunks)
    BY ColumnsAreChunks
  <2> QED BY <1>1, <2>1, <2>2, TypeOKMove DEF Read
<1>13. CASE Rerank(r)
  <2>1. PICK some \in [Validated(r) -> Scores] :
           LET score == [c \in Chunks |-> IF c \in DOMAIN some THEN some[c] ELSE 0]
               items == IF read[r].op = "DIAGNOSE" THEN <<>> ELSE Reranked(Candidates(r), score)
           IN  Move(r, [read[r] EXCEPT
                  !.score = score, !.items = items,
                  !.at = IF read[r].op = "ASK" /\ items # <<>> THEN "askModel" ELSE "answered",
                  !.answer = IF read[r].op = "ASK" /\ items = <<>> THEN "REFUSED" ELSE @])
    BY <1>13 DEF Rerank
  <2> DEFINE score == [c \in Chunks |-> IF c \in DOMAIN some THEN some[c] ELSE 0]
             items == IF read[r].op = "DIAGNOSE" THEN <<>> ELSE Reranked(Candidates(r), score)
  <2>2. score \in [Chunks -> Int]
    BY ScoresAreGiven
  <2> HIDE DEF score
  <2>3. items \in Seq(Chunks) /\ Len(items) <= TopK
    <3>1. CASE read[r].op = "DIAGNOSE"
      BY <3>1, ReadsAssumption
    <3>2. CASE read[r].op # "DIAGNOSE"
      BY <2>2, <3>2, EvidenceIs
    <3> QED BY <3>1, <3>2
  <2> HIDE DEF items
  <2>4. Move(r, [read[r] EXCEPT
                  !.score = score, !.items = items,
                  !.at = IF read[r].op = "ASK" /\ items # <<>> THEN "askModel" ELSE "answered",
                  !.answer = IF read[r].op = "ASK" /\ items = <<>> THEN "REFUSED" ELSE @])
    BY <2>1 DEF score, items
  <2> QED BY <1>1, <2>2, <2>3, <2>4, TypeOKMove DEF Read
<1>14. CASE AskModel(r)
  <2> DEFINE items == read[r].items
  <2>1. PICK d \in Decisions(Len(items)) :
          IF Accepted(d, Len(items))
            THEN Move(r, [read[r] EXCEPT
                            !.answer = d.decision, !.at = "answered",
                            !.citations = [k \in DOMAIN d.citations |-> items[d.citations[k]]]])
            ELSE Fail(r)
    BY <1>14 DEF AskModel
  <2>2. CASE ~Accepted(d, Len(items))
    BY <2>1, <2>2, TypeOKFail
  <2>3. CASE Accepted(d, Len(items))
    <3>1. d.decision \in {"ANSWERED", "REFUSED"}
      BY DEF Decisions
    <3>2. [k \in DOMAIN d.citations |-> items[d.citations[k]]] \in Seq(Chunks)
      BY <1>1, <2>3, CitationsAre DEF Read
    <3> QED BY <1>1, <2>1, <2>3, <3>1, <3>2, TypeOKMove DEF Read
  <2> QED BY <2>2, <2>3
<1> QED BY <1>2, <1>3, <1>4, <1>5, <1>6, <1>7, <1>8, <1>9, <1>10, <1>11, <1>12, <1>13, <1>14
        DEF ReadStep

-----------------------------------------------------------------------------
\* What a step of a document does, as far as readers can tell: it touches that
\* document alone, which exists until then; what changes its fields gives it a
\* higher version or removes it; and reads in progress learn of a confirmation.
LEMMA DocumentStepIs ==
  ASSUME TypeOK, DocumentsSound, NEW d \in Documents, DocumentStep(d)
  PROVE  /\ Exists(d)
         /\ \A e \in Documents \ {d} : documents'[e] = documents[e]
         /\ documents' \in [Documents -> [status : {"PENDING", "CONFIRMED", "GONE"},
                                          blocked : BOOLEAN, version : Nat, fields : Nat,
                                          rows : Nat, approved : Nat]]
         /\ documents'[d].version >= documents[d].version
         /\ Exists(d)' /\ documents'[d].version = documents[d].version =>
              documents'[d].fields = documents[d].fields
         /\ documents[d].blocked => documents'[d].blocked \/ ~Exists(d)'
         /\ DocumentsSound'
<1>1. /\ documents \in [Documents -> [status : {"PENDING", "CONFIRMED", "GONE"},
                                      blocked : BOOLEAN, version : Nat, fields : Nat,
                                      rows : Nat, approved : Nat]]
      /\ MaxVersion \in Nat
  BY ReadsAssumption DEF TypeOK
<1>2. \A e \in Documents : /\ documents[e].version >= 1
                           /\ documents[e].fields <= documents[e].version
  BY DEF DocumentsSound
<1>3. CASE WriteDraft(d)
  BY <1>1, <1>2, <1>3 DEF WriteDraft, MayChange, Exists, DocumentsSound
<1>4. CASE ReplaceDraft(d)
  BY <1>1, <1>2, <1>4 DEF ReplaceDraft, MayChange, Exists, IsConfirmed, DocumentsSound
<1>5. CASE Confirm(d)
  BY <1>1, <1>2, <1>5 DEF Confirm, MayChange, Exists, IsConfirmed, DocumentsSound
<1>6. CASE Cancel(d)
  BY <1>1, <1>2, <1>6 DEF Cancel, MayChange, Exists, IsConfirmed, DocumentsSound
<1>7. CASE BeginDelete(d)
  <2>1. /\ \A e \in Documents \ {d} : documents'[e] = documents[e]
        /\ documents'[d] = [documents[d] EXCEPT !.blocked = TRUE]
        /\ documents' \in [Documents -> [status : {"PENDING", "CONFIRMED", "GONE"},
                                         blocked : BOOLEAN, version : Nat, fields : Nat,
                                         rows : Nat, approved : Nat]]
        /\ Exists(d)
    BY <1>1, <1>7 DEF BeginDelete
  <2>2. /\ documents'[d].version = documents[d].version /\ documents'[d].fields = documents[d].fields
        /\ documents'[d].status = documents[d].status /\ documents'[d].blocked
        /\ documents'[d].approved = documents[d].approved
    BY <1>1, <2>1
  <2>3. DocumentsSound'
    BY <2>1, <2>2 DEF Exists, DocumentsSound
  <2> QED BY <1>2, <2>1, <2>2, <2>3 DEF Exists
<1>8. CASE EndDelete(d)
  BY <1>1, <1>2, <1>8 DEF EndDelete, Exists, DocumentsSound
<1> QED BY <1>3, <1>4, <1>5, <1>6, <1>7, <1>8 DEF DocumentStep

\* Of what a read holds, a step of a document changes only the history of what
\* has been confirmed since the read began.
LEMMA DocumentStepReads ==
  ASSUME TypeOK, NEW d \in Documents, DocumentStep(d)
  PROVE  /\ read' \in [Readers -> Read]
         /\ \A r \in Readers :
              /\ read'[r] = [read[r] EXCEPT !.confirmed = read'[r].confirmed]
              /\ read[r].confirmed \subseteq read'[r].confirmed
              /\ read[r].at = "idle" => read'[r] = read[r]
              /\ read[r].at # "idle" /\ Confirmed \subseteq read[r].confirmed =>
                   Confirmed' \subseteq read'[r].confirmed
<1>1. /\ documents \in [Documents -> [status : {"PENDING", "CONFIRMED", "GONE"},
                                      blocked : BOOLEAN, version : Nat, fields : Nat,
                                      rows : Nat, approved : Nat]]
      /\ read \in [Readers -> Read]
  BY DEF TypeOK
<1>2. CASE Confirm(d)
  <2>1. read' = [r \in Readers |-> IF read[r].at = "idle" THEN read[r]
                                  ELSE [read[r] EXCEPT !.confirmed = @ \union {d}]]
    BY <1>2 DEF Confirm
  <2>2. Confirmed' \subseteq Confirmed \union {d}
    BY <1>1, <1>2 DEF Confirm, Confirmed, IsConfirmed
  <2>3. ASSUME NEW r \in Readers
        PROVE  /\ read'[r] \in Read
               /\ read'[r] = [read[r] EXCEPT !.confirmed = read'[r].confirmed]
               /\ read[r].confirmed \subseteq read'[r].confirmed
               /\ read[r].at = "idle" => read'[r] = read[r]
               /\ read[r].at # "idle" => read'[r].confirmed = read[r].confirmed \union {d}
    <3>1. read[r] \in Read
      BY <1>1
    <3>2. CASE read[r].at = "idle"
      BY <2>1, <3>1, <3>2 DEF Read
    <3>3. CASE read[r].at # "idle"
      <4>1. read'[r] = [read[r] EXCEPT !.confirmed = read[r].confirmed \union {d}]
        BY <2>1, <3>3
      <4>2. read[r].confirmed \union {d} \in SUBSET Documents
        BY <3>1 DEF Read
      <4>3. read'[r].confirmed = read[r].confirmed \union {d} /\ read'[r] \in Read
        BY <3>1, <4>1, <4>2 DEF Read
      <4> QED BY <3>3, <4>1, <4>3
    <3> QED BY <3>2, <3>3
  <2>4. read' \in [Readers -> Read]
    BY <2>1, <2>3
  <2> QED BY <2>2, <2>3, <2>4
<1>3. CASE ~Confirm(d)
  <2>1. read' = read
    BY <1>3 DEF DocumentStep, WriteDraft, ReplaceDraft, Cancel, BeginDelete, EndDelete
  <2>2. Confirmed' \subseteq Confirmed
    BY <1>1, <1>3 DEF DocumentStep, WriteDraft, ReplaceDraft, Cancel, BeginDelete, EndDelete,
                      Confirmed, IsConfirmed
  <2>3. ASSUME NEW r \in Readers
        PROVE  read[r] = [read[r] EXCEPT !.confirmed = read[r].confirmed]
    BY <1>1 DEF Read
  <2> QED BY <1>1, <2>1, <2>2, <2>3
<1> QED BY <1>2, <1>3

\* So no step of a document spoils a read.
LEMMA DocumentStepSound ==
  ASSUME ReadsInvariant, NEW d \in Documents, DocumentStep(d)
  PROVE  ReadsInvariant'
<1>1. TypeOK /\ DocumentsSound /\ (\A r \in Readers : ReaderSound(r))
  BY DEF ReadsInvariant
<1>2. /\ Exists(d)
      /\ \A e \in Documents \ {d} : documents'[e] = documents[e]
      /\ documents' \in [Documents -> [status : {"PENDING", "CONFIRMED", "GONE"},
                                       blocked : BOOLEAN, version : Nat, fields : Nat,
                                       rows : Nat, approved : Nat]]
      /\ documents'[d].version >= documents[d].version
      /\ Exists(d)' /\ documents'[d].version = documents[d].version =>
           documents'[d].fields = documents[d].fields
      /\ documents[d].blocked => documents'[d].blocked \/ ~Exists(d)'
      /\ DocumentsSound'
  BY <1>1, DocumentStepIs
<1>3. /\ read' \in [Readers -> Read]
      /\ \A r \in Readers :
           /\ read'[r] = [read[r] EXCEPT !.confirmed = read'[r].confirmed]
           /\ read[r].confirmed \subseteq read'[r].confirmed
           /\ read[r].at = "idle" => read'[r] = read[r]
           /\ read[r].at # "idle" /\ Confirmed \subseteq read[r].confirmed =>
                Confirmed' \subseteq read'[r].confirmed
  BY <1>1, DocumentStepReads
<1>4. ASSUME NEW r \in Readers
      PROVE  /\ read[r] \in Read /\ read'[r] \in Read
             /\ read'[r].op = read[r].op /\ read'[r].at = read[r].at
             /\ read'[r].target = read[r].target /\ read'[r].hidden = read[r].hidden
             /\ read'[r].blocked = read[r].blocked /\ read'[r].version = read[r].version
             /\ read'[r].todo = read[r].todo /\ read'[r].fields = read[r].fields
             /\ read'[r].rows = read[r].rows /\ read'[r].hits = read[r].hits
             /\ read'[r].score = read[r].score /\ read'[r].items = read[r].items
             /\ read'[r].answer = read[r].answer /\ read'[r].citations = read[r].citations
  <2>1. read[r] \in Read /\ read'[r] \in Read
    BY <1>1, <1>3 DEF TypeOK
  <2>2. PICK c : read'[r] = [read[r] EXCEPT !.confirmed = c]
    BY <1>3
  <2> QED BY <2>1, <2>2 DEF Read
<1>5. TypeOK'
  BY <1>1, <1>2, <1>3, <1>4 DEF TypeOK
<1>6. ASSUME NEW e \in Documents
      PROVE  /\ documents[e].version \in Nat /\ documents'[e].version \in Nat
             /\ documents'[e].version >= documents[e].version
             /\ ~Exists(e) => ~Exists(e)'
             /\ documents[e].blocked \/ ~Exists(e) => documents'[e].blocked \/ ~Exists(e)'
             /\ Exists(e)' /\ documents'[e].version = documents[e].version =>
                  Exists(e) /\ documents'[e].fields = documents[e].fields
  <2>1. documents[e].version \in Nat /\ documents'[e].version \in Nat
    BY <1>1, <1>2 DEF TypeOK
  <2>2. CASE e = d
    BY <1>2, <2>1, <2>2
  <2>3. CASE e # d
    <3>1. documents'[e] = documents[e]
      BY <1>2, <2>3
    <3> QED BY <2>1, <3>1 DEF Exists
  <2> QED BY <2>2, <2>3
<1>7. ASSUME NEW r \in Readers
      PROVE  ReaderSound(r)'
  <2>1. OnItsPath(r) /\ ScopeIsFormal(r) /\ PageIsSound(r) /\ EvidenceIsSound(r)
    BY <1>1 DEF ReaderSound
  <2>2. OnItsPath(r)'
    BY <1>3, <1>4, <2>1 DEF OnItsPath, NoRead
  <2>3. ScopeIsFormal(r)'
    <3> DEFINE R == read[r]  S == read'[r]
    <3>1. \A e \in S.hidden : documents'[e].blocked \/ ~Exists(e)'
      BY <1>4, <1>6, <2>1 DEF ScopeIsFormal, Read
    <3>2. S.at \notin {"idle", "answered"} => Confirmed' \subseteq S.confirmed
      BY <1>3, <1>4, <2>1 DEF ScopeIsFormal
    <3>3. S.at = "readRows" /\ S.op \in SearchOperations \union {"LIST"} =>
            \A e \in S.hidden : e \in S.blocked \/ ~Exists(e)'
      BY <1>4, <1>6, <2>1 DEF ScopeIsFormal, Read
    <3>4. S.op \in FormalOperations => \A e \in Documents :
            /\ S.version[e] > 0 => e \in S.confirmed /\ (S.op # "DETAIL" => e \notin S.hidden)
            /\ e \in S.todo \/ S.fields[e] > 0 => S.version[e] > 0
      BY <1>3, <1>4, <2>1 DEF ScopeIsFormal
    <3>5. S.op = "DETAIL" =>
            /\ S.at \in {"readBlocked", "readFields"} => S.version[S.target] > 0
            /\ \A e \in S.hidden : /\ S.fields[e] = 0
                                   /\ S.at = "readFields" /\ S.version[e] > 0 => ~Exists(e)'
      BY <1>4, <1>6, <2>1 DEF ScopeIsFormal, Read
    <3> QED BY <3>1, <3>2, <3>3, <3>4, <3>5 DEF ScopeIsFormal
  <2>4. PageIsSound(r)'
    <3>1. \A e \in Documents : read[r].version[e] \in Nat
      BY <1>4 DEF Read
    <3> QED BY <1>4, <1>6, <2>1, <3>1 DEF PageIsSound
  <2>5. EvidenceIsSound(r)'
    <3>1. Validated(r)' = Validated(r)
      BY <1>4 DEF Validated, FormalDocuments
    <3> QED BY <1>4, <2>1, <3>1 DEF EvidenceIsSound
  <2> QED BY <2>2, <2>3, <2>4, <2>5 DEF ReaderSound
<1> QED BY <1>2, <1>5, <1>7 DEF ReadsInvariant

\* A step of one reader leaves the documents and the other readers alone.
LEMMA OthersStay ==
  ASSUME TypeOK, DocumentsSound, NEW r \in Readers, NEW record, Move(r, record)
  PROVE  /\ documents' = documents /\ DocumentsSound' /\ read'[r] = record
         /\ \A q \in Readers \ {r} : ReaderSound(q) => ReaderSound(q)'
<1>1. /\ documents' = documents /\ read'[r] = record
      /\ \A q \in Readers \ {r} : read'[q] = read[q]
  BY DEF Move, TypeOK
<1>2. DocumentsSound'
  BY <1>1 DEF DocumentsSound, Exists
<1>3. ASSUME NEW q \in Readers \ {r}, ReaderSound(q)
      PROVE  ReaderSound(q)'
  <2>1. read'[q] = read[q]
    BY <1>1
  <2>2. OnItsPath(q)'
    BY <1>3, <2>1 DEF ReaderSound, OnItsPath, NoRead
  <2>3. ScopeIsFormal(q)'
    BY <1>1, <1>3, <2>1 DEF ReaderSound, ScopeIsFormal, Confirmed, IsConfirmed, Exists
  <2>4. PageIsSound(q)'
    BY <1>1, <1>3, <2>1 DEF ReaderSound, PageIsSound, Exists
  <2>5. EvidenceIsSound(q)'
    BY <1>3, <2>1 DEF ReaderSound, EvidenceIsSound, Validated, FormalDocuments
  <2> QED BY <2>2, <2>3, <2>4, <2>5 DEF ReaderSound
<1> QED BY <1>1, <1>2, <1>3

\* Nothing read and nothing shown is sound.
LEMMA NothingReadIsSound ==
  ASSUME TypeOK, DocumentsSound, NEW r \in Readers, Fail(r) \/ Move(r, NoRead)
  PROVE  ReaderSound(r)'
<1>1. /\ documents' = documents
      /\ \A d \in Documents : /\ documents[d].version \in Nat /\ documents[d].version >= 1
                              /\ documents[d].fields \in Nat
  BY DEF Fail, Move, TypeOK, DocumentsSound
<1>2. /\ \/ read'[r] = NoRead
         \/ read'[r] = [NoRead EXCEPT !.op = read[r].op, !.at = "answered", !.answer = "ERROR"]
      /\ \A d \in Documents : read'[r].version[d] = 0 /\ read'[r].fields[d] = 0
      /\ read'[r].hidden = {} /\ read'[r].todo = {} /\ read'[r].blocked = {}
      /\ read'[r].hits = <<>> /\ read'[r].items = <<>> /\ read'[r].citations = <<>>
      /\ read'[r].at \in {"idle", "answered"} /\ (read'[r].at = "idle" => read'[r] = NoRead)
      /\ read'[r].answer \in {"NONE", "ERROR"}
      /\ read'[r].at = "idle" => read'[r].op = "NONE" /\ read'[r].answer = "NONE"
  <2>1. read \in [Readers -> Read]
    BY DEF TypeOK
  <2>2. CASE Move(r, NoRead)
    BY <2>1, <2>2 DEF Move, NoRead
  <2>3. CASE Fail(r)
    BY <2>1, <2>3 DEF Fail, Move, NoRead
  <2> QED BY <2>2, <2>3
<1>3. OnItsPath(r)'
  BY <1>2 DEF OnItsPath, NoRead, SearchOperations
<1>4. ScopeIsFormal(r)'
  BY <1>2 DEF ScopeIsFormal
<1>5. PageIsSound(r)'
  BY <1>1, <1>2 DEF PageIsSound
<1>6. EvidenceIsSound(r)'
  <2>1. IsInjective(<<>>) /\ Range(<<>>) = {}
    BY DEF IsInjective, Range
  <2> QED BY <1>2, <2>1 DEF EvidenceIsSound
<1> QED BY <1>3, <1>4, <1>5, <1>6 DEF ReaderSound

\* The rows of documents show their versions, and nothing of other documents.
LEMMA VersionsShown ==
  ASSUME TypeOK, DocumentsSound, NEW shown, NEW d \in Documents
  PROVE  /\ d \in shown => /\ VersionsOf(shown)[d] = documents[d].version
                           /\ VersionsOf(shown)[d] > 0
         /\ d \notin shown => VersionsOf(shown)[d] = 0
         /\ VersionsOf(shown)[d] <= documents[d].version
  BY DEF TypeOK, DocumentsSound, VersionsOf

\* A read that has not ended and has no evidence yet: only what it takes from
\* the rows and the operations has to be shown sound.
LEMMA NoEvidenceIsSound ==
  ASSUME NEW r \in Readers, IsInjective(read[r].hits)',
         read'[r].items = <<>>, read'[r].citations = <<>>, read'[r].answer # "ANSWERED"
  PROVE  EvidenceIsSound(r)'
<1>1. IsInjective(<<>>) /\ Range(<<>>) = {}
  BY DEF IsInjective, Range
<1> QED BY <1>1 DEF EvidenceIsSound

LEMMA AskSound ==
  ASSUME TypeOK, DocumentsSound, NEW r \in Readers, NEW op \in Operations, NEW d \in Documents,
         ReaderSound(r), Ask(r, op, d)
  PROVE  TypeOK' /\ ReaderSound(r)'
<1> DEFINE hidden == {e \in Documents : ~Exists(e) \/ documents[e].blocked}
           target == IF op \in {"DETAIL", "DRAFT"} THEN d ELSE Nowhere
           start == IF op \in SearchOperations \union {"LIST"} THEN "readBlocked" ELSE "readRows"
           record == [NoRead EXCEPT !.op = op, !.target = target, !.at = start,
                                    !.hidden = hidden, !.confirmed = Confirmed]
<1>1. Move(r, record)
  BY DEF Ask
<1>2. op \in SearchOperations \union PageOperations
  BY ReadsAssumption
<1>3. hidden \in SUBSET Documents /\ Confirmed \in SUBSET Documents
      /\ target \in Documents \union {Nowhere} /\ start \in {"readBlocked", "readRows"}
  BY DEF Confirmed
<1>4. \A e \in hidden : documents[e].blocked \/ ~Exists(e)
  OBVIOUS
<1>5. /\ op \in {"DETAIL", "DRAFT"} => target \in Documents
      /\ op \in SearchOperations \union {"LIST"} => start = "readBlocked"
      /\ op = "DETAIL" => start = "readRows"
  BY DEF SearchOperations
<1> HIDE DEF hidden, target, start
<1>6. record \in Read /\ record.items = <<>>
  BY <1>2, <1>3, NoReadIsRead DEF Read, NoRead
<1>7. TypeOK'
  <2>1. Len(record.items) <= TopK
    BY <1>6, ReadsAssumption
  <2> HIDE DEF record
  <2> QED BY <1>1, <1>6, <2>1, TypeOKMove
<1>8. documents' = documents /\ read'[r] = record
  BY <1>1, OthersStay
<1>9. /\ record.op = op /\ record.at = start /\ record.target = target
      /\ record.hidden = hidden /\ record.confirmed = Confirmed /\ record.blocked = {}
      /\ record.todo = {} /\ record.hits = <<>> /\ record.items = <<>>
      /\ record.answer = "NONE" /\ record.citations = <<>>
      /\ \A e \in Documents : record.version[e] = 0 /\ record.fields[e] = 0
  BY DEF NoRead
<1> HIDE DEF record
<1>10. OnItsPath(r)'
  BY <1>3, <1>5, <1>8, <1>9 DEF OnItsPath
<1>11. ScopeIsFormal(r)'
  <2>1. Confirmed' = Confirmed /\ \A e \in Documents : Exists(e)' <=> Exists(e)
    BY <1>8 DEF Confirmed, IsConfirmed, Exists
  <2>2. \A e \in hidden : e \in Documents
    BY <1>3
  <2> QED BY <1>3, <1>4, <1>5, <1>8, <1>9, <2>1, <2>2 DEF ScopeIsFormal
<1>12. PageIsSound(r)'
  <2>1. \A e \in Documents : documents[e].version >= 1 /\ documents[e].version \in Nat
    BY DEF TypeOK, DocumentsSound
  <2> QED BY <1>3, <1>8, <1>9, <2>1 DEF PageIsSound
<1>13. EvidenceIsSound(r)'
  <2>1. IsInjective(<<>>)
    BY DEF IsInjective
  <2> QED BY <1>8, <1>9, <2>1, NoEvidenceIsSound
<1> QED BY <1>7, <1>10, <1>11, <1>12, <1>13 DEF ReaderSound

\* What every step of a reader may rely on: the documents stay as they are.
LEMMA MoveFrame ==
  ASSUME TypeOK, DocumentsSound, NEW r \in Readers, NEW record, Move(r, record)
  PROVE  /\ documents' = documents /\ read'[r] = record
         /\ Confirmed' = Confirmed
         /\ \A d \in Documents : /\ Exists(d)' <=> Exists(d)
                                 /\ documents[d].version \in Nat /\ documents[d].version >= 1
                                 /\ ~Exists(d) => documents[d].fields = 0
                                 /\ documents[d].fields \in Nat
<1>1. documents' = documents /\ read'[r] = record
  BY OthersStay
<1>2. Confirmed' = Confirmed /\ \A d \in Documents : Exists(d)' <=> Exists(d)
  BY <1>1 DEF Confirmed, IsConfirmed, Exists
<1>3. \A d \in Documents : /\ documents[d].version \in Nat /\ documents[d].version >= 1
                           /\ ~Exists(d) => documents[d].fields = 0
                           /\ documents[d].fields \in Nat
  BY DEF TypeOK, DocumentsSound
<1> QED BY <1>1, <1>2, <1>3

\* The steps before the fields of a page are read.
LEMMA RowsSound ==
  ASSUME TypeOK, DocumentsSound, NEW r \in Readers, ReaderSound(r),
         ReadBlocked(r) \/ ListRows(r) \/ DetailRow(r) \/ DetailBlocked(r) \/ DraftRow(r)
  PROVE  ReaderSound(r)'
<1> DEFINE R == read[r]
<1>1. /\ OnItsPath(r) /\ ScopeIsFormal(r) /\ PageIsSound(r) /\ EvidenceIsSound(r)
      /\ R \in Read
  BY DEF ReaderSound, TypeOK
<1>2. ASSUME NEW record, Move(r, record), record.hits = R.hits, record.items = R.items,
             record.citations = R.citations, record.answer = R.answer,
             R.at \notin {"idle", "askModel", "answered"}
      PROVE  EvidenceIsSound(r)'
  <2>1. read'[r] = record
    BY <1>2, MoveFrame
  <2>2. R.items = <<>> /\ R.citations = <<>> /\ R.answer = "NONE" /\ IsInjective(R.hits)
    BY <1>1, <1>2 DEF OnItsPath, EvidenceIsSound
  <2> QED BY <1>2, <2>1, <2>2, NoEvidenceIsSound
<1>3. CASE ReadBlocked(r)
  <2> DEFINE record == [R EXCEPT !.blocked = Blocked, !.at = "readRows"]
  <2>1. /\ R.at = "readBlocked" /\ R.op # "DETAIL" /\ Move(r, record)
    BY <1>3 DEF ReadBlocked
  <2>2. /\ record.at = "readRows" /\ record.blocked = Blocked /\ record.op = R.op
        /\ record.target = R.target /\ record.hidden = R.hidden /\ record.confirmed = R.confirmed
        /\ record.version = R.version /\ record.todo = R.todo /\ record.fields = R.fields
        /\ record.hits = R.hits /\ record.items = R.items
        /\ record.answer = R.answer /\ record.citations = R.citations
    BY <1>1 DEF Read
  <2> HIDE DEF record
  <2>3. /\ documents' = documents /\ read'[r] = record /\ Confirmed' = Confirmed
        /\ \A d \in Documents : Exists(d)' <=> Exists(d)
    BY <2>1, MoveFrame
  <2>4. OnItsPath(r)'
    BY <1>1, <2>1, <2>2, <2>3 DEF OnItsPath
  <2>5. ScopeIsFormal(r)'
    <3>1. \A d \in R.hidden : d \in Documents /\ (d \in Blocked \/ ~Exists(d))
      BY <1>1 DEF ScopeIsFormal, Blocked, Read
    <3>2. \A d \in R.hidden : documents[d].blocked \/ ~Exists(d)
      BY <1>1 DEF ScopeIsFormal
    <3> QED BY <1>1, <2>1, <2>2, <2>3, <3>1, <3>2 DEF ScopeIsFormal
  <2>6. PageIsSound(r)'
    BY <1>1, <2>1, <2>2, <2>3 DEF PageIsSound
  <2> QED BY <1>2, <2>1, <2>2, <2>4, <2>5, <2>6 DEF ReaderSound
<1>4. CASE ListRows(r)
  <2> DEFINE shown == IF R.op = "LIST" THEN Confirmed \ R.blocked
                                       ELSE {d \in Documents : Exists(d)}
             record == [R EXCEPT !.version = VersionsOf(shown), !.todo = shown,
                                 !.at = "readFields"]
  <2>1. /\ R.at = "readRows" /\ R.op \in {"LIST", "PROCESS_LIST"} /\ Move(r, record)
    BY <1>4 DEF ListRows
  <2>2. /\ record.at = "readFields" /\ record.blocked = R.blocked /\ record.op = R.op
        /\ record.target = R.target /\ record.hidden = R.hidden /\ record.confirmed = R.confirmed
        /\ record.version = VersionsOf(shown) /\ record.todo = shown /\ record.fields = R.fields
        /\ record.hits = R.hits /\ record.items = R.items
        /\ record.answer = R.answer /\ record.citations = R.citations
    BY <1>1 DEF Read
  <2>3. /\ R.op = "LIST" => shown = Confirmed \ R.blocked
        /\ shown \subseteq Documents
    BY DEF Confirmed
  <2> HIDE DEF record, shown
  <2>4. /\ documents' = documents /\ read'[r] = record /\ Confirmed' = Confirmed
        /\ \A d \in Documents : /\ Exists(d)' <=> Exists(d)
                                /\ documents[d].version \in Nat /\ documents[d].version >= 1
    BY <2>1, MoveFrame
  <2>5. \A d \in Documents : /\ d \in shown => VersionsOf(shown)[d] > 0
                             /\ d \notin shown => VersionsOf(shown)[d] = 0
                             /\ VersionsOf(shown)[d] <= documents[d].version
    BY VersionsShown
  <2>6. OnItsPath(r)'
    BY <1>1, <2>1, <2>2, <2>4 DEF OnItsPath, SearchOperations, PageOperations
  <2>7. ScopeIsFormal(r)'
    <3>1. /\ \A d \in R.hidden : documents[d].blocked \/ ~Exists(d)
          /\ Confirmed \subseteq R.confirmed
          /\ R.op = "LIST" => \A d \in R.hidden : d \in R.blocked \/ ~Exists(d)
          /\ R.hidden \subseteq Documents
          /\ \A d \in Documents : R.fields[d] = 0
      BY <1>1, <2>1 DEF ScopeIsFormal, OnItsPath, Read
    <3>2. R.op = "LIST" => \A d \in shown : d \in R.confirmed /\ d \notin R.hidden
      BY <2>3, <3>1 DEF Confirmed, IsConfirmed, Exists
    <3>3. \A d \in Documents : ~(0 > 0)
      OBVIOUS
    <3>4. R.op # "DETAIL" /\ (R.op \in FormalOperations => R.op = "LIST")
      BY <2>1 DEF FormalOperations, SearchOperations
    <3> QED BY <2>2, <2>4, <2>5, <3>1, <3>2, <3>3, <3>4 DEF ScopeIsFormal
  <2>8. PageIsSound(r)'
    BY <2>1, <2>2, <2>4, <2>5 DEF PageIsSound
  <2> QED BY <1>2, <2>1, <2>2, <2>6, <2>7, <2>8 DEF ReaderSound
<1>5. CASE DetailRow(r)
  <2> DEFINE shown == {R.target}
             record == [R EXCEPT !.version = VersionsOf(shown), !.at = "readBlocked"]
  <2>1. /\ R.at = "readRows" /\ R.op = "DETAIL" /\ IsConfirmed(R.target) /\ Move(r, record)
    BY <1>5 DEF DetailRow
  <2>2. /\ record.at = "readBlocked" /\ record.blocked = R.blocked /\ record.op = R.op
        /\ record.target = R.target /\ record.hidden = R.hidden /\ record.confirmed = R.confirmed
        /\ record.version = VersionsOf(shown) /\ record.todo = R.todo /\ record.fields = R.fields
        /\ record.hits = R.hits /\ record.items = R.items
        /\ record.answer = R.answer /\ record.citations = R.citations
    BY <1>1 DEF Read
  <2>3. \A d : d \in shown <=> d = R.target
    OBVIOUS
  <2> HIDE DEF record, shown
  <2>4. /\ documents' = documents /\ read'[r] = record /\ Confirmed' = Confirmed
        /\ \A d \in Documents : Exists(d)' <=> Exists(d)
    BY <2>1, MoveFrame
  <2>5. \A d \in Documents : /\ d \in shown => VersionsOf(shown)[d] > 0
                             /\ d \notin shown => VersionsOf(shown)[d] = 0
                             /\ VersionsOf(shown)[d] <= documents[d].version
    BY VersionsShown
  <2>6. OnItsPath(r)'
    BY <1>1, <2>1, <2>2, <2>4 DEF OnItsPath, SearchOperations, PageOperations
  <2>7. ScopeIsFormal(r)'
    <3>1. /\ \A d \in R.hidden : documents[d].blocked \/ ~Exists(d)
          /\ Confirmed \subseteq R.confirmed /\ R.target \in Confirmed /\ R.target \in Documents
          /\ R.hidden \subseteq Documents /\ R.todo = {}
          /\ \A d \in Documents : R.fields[d] = 0
      BY <1>1, <2>1 DEF ScopeIsFormal, OnItsPath, Read, Confirmed
    <3> QED BY <2>1, <2>2, <2>3, <2>4, <2>5, <3>1 DEF ScopeIsFormal
  <2>8. PageIsSound(r)'
    BY <2>2, <2>3, <2>4, <2>5 DEF PageIsSound
  <2> QED BY <1>2, <2>1, <2>2, <2>6, <2>7, <2>8 DEF ReaderSound
<1>6. CASE DetailBlocked(r)
  <2> DEFINE record == [R EXCEPT !.todo = {R.target}, !.at = "readFields"]
  <2>1. CASE R.target \in Blocked
    BY <1>6, <2>1, NothingReadIsSound DEF DetailBlocked
  <2>2. CASE R.target \notin Blocked
    <3>1. /\ R.at = "readBlocked" /\ R.op = "DETAIL" /\ Move(r, record)
      BY <1>6, <2>2 DEF DetailBlocked
    <3>2. /\ record.at = "readFields" /\ record.blocked = R.blocked /\ record.op = R.op
          /\ record.target = R.target /\ record.hidden = R.hidden /\ record.confirmed = R.confirmed
          /\ record.version = R.version /\ record.todo = {R.target} /\ record.fields = R.fields
          /\ record.hits = R.hits /\ record.items = R.items
          /\ record.answer = R.answer /\ record.citations = R.citations
      BY <1>1 DEF Read
    <3> HIDE DEF record
    <3>3. /\ documents' = documents /\ read'[r] = record /\ Confirmed' = Confirmed
          /\ \A d \in Documents : /\ Exists(d)' <=> Exists(d)
                                  /\ documents[d].version \in Nat /\ documents[d].version >= 1
      BY <3>1, MoveFrame
    <3>4. OnItsPath(r)'
      BY <1>1, <3>1, <3>2, <3>3 DEF OnItsPath, SearchOperations, PageOperations
    <3>5. /\ \A d \in R.hidden : documents[d].blocked \/ ~Exists(d)
          /\ Confirmed \subseteq R.confirmed /\ R.target \in Documents
          /\ R.hidden \subseteq Documents
          /\ \A d \in Documents : R.fields[d] = 0
          /\ R.version[R.target] > 0
          /\ \A d \in Documents : R.version[d] > 0 => d \in R.confirmed
          /\ \A d \in Documents \ {R.target} : R.version[d] = 0
      BY <1>1, <3>1 DEF ScopeIsFormal, OnItsPath, PageIsSound, Read, FormalOperations
    <3>6. ScopeIsFormal(r)'
      <4>1. \A d \in R.hidden : R.version[d] > 0 => ~Exists(d)
        BY <2>2, <3>5 DEF Blocked
      <4> QED BY <3>1, <3>2, <3>3, <3>5, <4>1 DEF ScopeIsFormal
    <3>7. PageIsSound(r)'
      <4>1. \A d \in Documents : R.version[d] <= documents[d].version
        BY <1>1 DEF PageIsSound
      <4> QED BY <3>2, <3>3, <3>5, <4>1 DEF PageIsSound
    <3> QED BY <1>2, <3>1, <3>2, <3>4, <3>6, <3>7 DEF ReaderSound
  <2> QED BY <2>1, <2>2
<1>7. CASE DraftRow(r)
  <2> DEFINE shown == {R.target}
             record == [R EXCEPT !.version = VersionsOf(shown), !.todo = shown,
                                 !.at = "readFields"]
  <2>1. /\ R.at = "readRows" /\ R.op = "DRAFT" /\ Move(r, record)
    BY <1>7 DEF DraftRow
  <2>2. /\ record.at = "readFields" /\ record.blocked = R.blocked /\ record.op = R.op
        /\ record.target = R.target /\ record.hidden = R.hidden /\ record.confirmed = R.confirmed
        /\ record.version = VersionsOf(shown) /\ record.todo = shown /\ record.fields = R.fields
        /\ record.hits = R.hits /\ record.items = R.items
        /\ record.answer = R.answer /\ record.citations = R.citations
    BY <1>1 DEF Read
  <2> HIDE DEF record, shown
  <2>3. /\ documents' = documents /\ read'[r] = record /\ Confirmed' = Confirmed
        /\ \A d \in Documents : /\ Exists(d)' <=> Exists(d)
                                /\ documents[d].version \in Nat /\ documents[d].version >= 1
    BY <2>1, MoveFrame
  <2>4. \A d \in Documents : /\ d \notin shown => VersionsOf(shown)[d] = 0
                             /\ VersionsOf(shown)[d] <= documents[d].version
    BY VersionsShown
  <2>5. OnItsPath(r)'
    BY <1>1, <2>1, <2>2, <2>3 DEF OnItsPath, SearchOperations, PageOperations
  <2>6. ScopeIsFormal(r)'
    <3>1. /\ \A d \in R.hidden : documents[d].blocked \/ ~Exists(d)
          /\ Confirmed \subseteq R.confirmed /\ R.hidden \subseteq Documents
      BY <1>1, <2>1 DEF ScopeIsFormal, Read
    <3>2. R.op \notin FormalOperations
      BY <2>1 DEF FormalOperations, SearchOperations
    <3> QED BY <2>1, <2>2, <2>3, <3>1, <3>2 DEF ScopeIsFormal
  <2>7. PageIsSound(r)'
    BY <2>1, <2>2, <2>3, <2>4 DEF PageIsSound
  <2> QED BY <1>2, <2>1, <2>2, <2>5, <2>6, <2>7 DEF ReaderSound
<1> QED BY <1>3, <1>4, <1>5, <1>6, <1>7

\* The fields of a page are those of the row it shows, where that row is still
\* the current one, and those of a document that is gone are nothing.
LEMMA FieldsSound ==
  ASSUME TypeOK, DocumentsSound, NEW r \in Readers, ReaderSound(r),
         PageDone(r) \/ \E d \in Documents : ReadFields(r, d)
  PROVE  ReaderSound(r)'
<1> DEFINE R == read[r]
<1>1. /\ OnItsPath(r) /\ ScopeIsFormal(r) /\ PageIsSound(r) /\ EvidenceIsSound(r)
      /\ R \in Read
  BY DEF ReaderSound, TypeOK
<1>2. /\ R.at = "readFields" /\ R.op \in PageOperations
      /\ R.hits = <<>> /\ R.items = <<>> /\ R.citations = <<>> /\ R.answer = "NONE"
      /\ R.op \notin SearchOperations
      /\ R.op \in {"DETAIL", "DRAFT"} => R.target \in Documents
  <2>1. R.at = "readFields"
    BY DEF PageDone, ReadFields
  <2>2. R.op \in PageOperations
    BY <1>1, <2>1 DEF OnItsPath
  <2>3. R.op \notin SearchOperations
    BY <2>2 DEF PageOperations, SearchOperations
  <2> QED BY <1>1, <2>1, <2>2, <2>3 DEF OnItsPath
<1>3. /\ \A d \in R.hidden : d \in Documents /\ (documents[d].blocked \/ ~Exists(d))
      /\ Confirmed \subseteq R.confirmed
      /\ R.op \in FormalOperations => \A d \in Documents :
           /\ R.version[d] > 0 => d \in R.confirmed /\ (R.op # "DETAIL" => d \notin R.hidden)
           /\ d \in R.todo \/ R.fields[d] > 0 => R.version[d] > 0
      /\ R.op = "DETAIL" =>
           /\ R.version[R.target] > 0
           /\ \A d \in R.hidden : R.fields[d] = 0 /\ (R.version[d] > 0 => ~Exists(d))
      /\ \A d \in Documents : R.version[d] <= documents[d].version
      /\ \A d \in Documents \ R.todo :
           Exists(d) /\ R.version[d] = documents[d].version => R.fields[d] = documents[d].fields
  BY <1>1, <1>2 DEF ScopeIsFormal, PageIsSound, Read
\* What both steps come to: the fields of one document are read, or none.
<1>4. ASSUME NEW record, Move(r, record),
             record.at \in {"readFields", "answered"},
             record.blocked = R.blocked, record.op = R.op,
             record.target = R.target, record.hidden = R.hidden, record.confirmed = R.confirmed,
             record.version = R.version, record.hits = R.hits, record.items = R.items,
             record.answer = R.answer, record.citations = R.citations,
             record.todo \subseteq R.todo,
             \A d \in Documents :
                \/ record.fields[d] = documents[d].fields
                   /\ (d \in R.todo \/ (R.op = "DETAIL" /\ d = R.target))
                \/ record.fields[d] = R.fields[d] /\ (d \in R.todo => d \in record.todo)
      PROVE  ReaderSound(r)'
  <2>1. /\ documents' = documents /\ read'[r] = record /\ Confirmed' = Confirmed
        /\ \A d \in Documents : /\ Exists(d)' <=> Exists(d)
                                /\ ~Exists(d) => documents[d].fields = 0
                                /\ documents[d].fields \in Nat
    BY <1>4, MoveFrame
  <2>2. OnItsPath(r)'
    BY <1>2, <1>4, <2>1 DEF OnItsPath
  <2>3. ScopeIsFormal(r)'
    <3>1. ASSUME R.op \in FormalOperations, NEW d \in Documents
          PROVE  d \in record.todo \/ record.fields[d] > 0 => R.version[d] > 0
      BY <1>3, <1>4, <3>1
    <3>2. ASSUME R.op = "DETAIL", NEW d \in R.hidden
          PROVE  /\ record.fields[d] = 0
                 /\ R.version[d] > 0 => ~Exists(d)
      <4>1. d \in Documents /\ R.fields[d] = 0 /\ (R.version[d] > 0 => ~Exists(d))
        BY <1>3, <3>2
      <4>2. d \in R.todo \/ d = R.target => R.version[d] > 0
        BY <1>3, <3>2, <4>1 DEF FormalOperations
      <4> QED BY <1>4, <2>1, <4>1, <4>2
    <3> QED BY <1>2, <1>3, <1>4, <2>1, <3>1, <3>2 DEF ScopeIsFormal
  <2>4. PageIsSound(r)'
    <3>1. ASSUME NEW d \in Documents \ record.todo, Exists(d), R.version[d] = documents[d].version
          PROVE  record.fields[d] = documents[d].fields
      BY <1>3, <1>4, <3>1
    <3> QED BY <1>3, <1>4, <2>1, <3>1 DEF PageIsSound
  <2>5. EvidenceIsSound(r)'
    <3>1. IsInjective(<<>>)
      BY DEF IsInjective
    <3> QED BY <1>2, <1>4, <2>1, <3>1, NoEvidenceIsSound
  <2> QED BY <2>2, <2>3, <2>4, <2>5 DEF ReaderSound
<1>5. CASE PageDone(r)
  <2> DEFINE d == R.target
  <2>1. CASE R.op = "DETAIL" /\ documents[d].rows # R.rows
    <3> DEFINE record == [R EXCEPT !.fields[d] = documents[d].fields, !.at = "answered"]
    <3>1. Move(r, record)
      BY <1>5, <2>1 DEF PageDone
    <3>2. /\ record.at = "answered" /\ record.blocked = R.blocked /\ record.op = R.op
          /\ record.target = R.target /\ record.hidden = R.hidden /\ record.confirmed = R.confirmed
          /\ record.version = R.version /\ record.todo = R.todo
          /\ record.hits = R.hits /\ record.items = R.items
          /\ record.answer = R.answer /\ record.citations = R.citations
          /\ record.fields = [R.fields EXCEPT ![d] = documents[d].fields]
      BY <1>1 DEF Read
    <3>3. d \in Documents /\ R.fields \in [Documents -> Nat]
      BY <1>1, <1>2, <2>1 DEF Read
    <3> HIDE DEF record
    <3>4. \A e \in Documents :
             \/ record.fields[e] = documents[e].fields /\ R.op = "DETAIL" /\ e = d
             \/ record.fields[e] = R.fields[e]
      BY <2>1, <3>2, <3>3
    <3> QED BY <1>4, <3>1, <3>2, <3>4
  <2>2. CASE ~(R.op = "DETAIL" /\ documents[d].rows # R.rows)
    <3> DEFINE record == [R EXCEPT !.at = "answered"]
    <3>1. Move(r, record)
      BY <1>5, <2>2 DEF PageDone
    <3>2. /\ record.at = "answered" /\ record.blocked = R.blocked /\ record.op = R.op
          /\ record.target = R.target /\ record.hidden = R.hidden /\ record.confirmed = R.confirmed
          /\ record.version = R.version /\ record.todo = R.todo
          /\ record.hits = R.hits /\ record.items = R.items
          /\ record.answer = R.answer /\ record.citations = R.citations
          /\ record.fields = R.fields
      BY <1>1 DEF Read
    <3> HIDE DEF record
    <3> QED BY <1>4, <3>1, <3>2
  <2> QED BY <2>1, <2>2
<1>6. ASSUME NEW d \in Documents, ReadFields(r, d)
      PROVE  ReaderSound(r)'
  <2>1. CASE R.op = "DRAFT" /\ documents[d].fields = 0
    BY <1>6, <2>1, NothingReadIsSound DEF ReadFields
  <2>2. CASE ~(R.op = "DRAFT" /\ documents[d].fields = 0)
    <3> DEFINE record == [R EXCEPT !.fields[d] = documents[d].fields,
                                   !.rows = documents[d].rows, !.todo = @ \ {d}]
    <3>1. Move(r, record) /\ d \in R.todo
      BY <1>6, <2>2 DEF ReadFields
    <3>2. /\ record.at = R.at /\ record.blocked = R.blocked /\ record.op = R.op
          /\ record.target = R.target /\ record.hidden = R.hidden /\ record.confirmed = R.confirmed
          /\ record.version = R.version /\ record.todo = R.todo \ {d}
          /\ record.hits = R.hits /\ record.items = R.items
          /\ record.answer = R.answer /\ record.citations = R.citations
          /\ record.fields = [R.fields EXCEPT ![d] = documents[d].fields]
      BY <1>1 DEF Read
    <3>3. R.fields \in [Documents -> Nat]
      BY <1>1 DEF Read
    <3> HIDE DEF record
    <3>4. ASSUME NEW e \in Documents
          PROVE  \/ record.fields[e] = documents[e].fields
                    /\ (e \in R.todo \/ (R.op = "DETAIL" /\ e = R.target))
                 \/ record.fields[e] = R.fields[e] /\ (e \in R.todo => e \in record.todo)
      <4>1. CASE e = d
        <5>1. record.fields[d] = documents[d].fields
          BY <3>2, <3>3
        <5> QED BY <3>1, <4>1, <5>1
      <4>2. CASE e # d
        BY <3>2, <3>3, <4>2
      <4> QED BY <4>1, <4>2
    <3>5. record.at \in {"readFields", "answered"} /\ record.todo \subseteq R.todo
      BY <1>2, <3>2
    <3> QED BY <1>4, <3>1, <3>2, <3>4, <3>5
  <2> QED BY <2>1, <2>2
<1> QED BY <1>5, <1>6

\* A search keeps to the formal documents, its evidence to the threshold and
\* its answer to the evidence.
LEMMA SearchSound ==
  ASSUME TypeOK, DocumentsSound, NEW r \in Readers, ReaderSound(r),
         FormalRows(r) \/ Search(r) \/ Rerank(r) \/ AskModel(r)
  PROVE  ReaderSound(r)'
<1> DEFINE R == read[r]
<1>1. /\ OnItsPath(r) /\ ScopeIsFormal(r) /\ PageIsSound(r) /\ EvidenceIsSound(r)
      /\ R \in Read
  BY DEF ReaderSound, TypeOK
<1>2. /\ R.op \in SearchOperations /\ R.op \notin PageOperations
      /\ R.op \notin {"LIST", "DETAIL", "DRAFT"}
  <2>1. R.op \in SearchOperations
    BY <1>1 DEF FormalRows, Search, Rerank, AskModel, OnItsPath
  <2> QED BY <2>1 DEF SearchOperations, PageOperations
<1>3. /\ \A d \in R.hidden : d \in Documents /\ (documents[d].blocked \/ ~Exists(d))
      /\ R.at \notin {"idle", "answered"} => Confirmed \subseteq R.confirmed
      /\ \A d \in Documents :
           /\ R.version[d] > 0 => d \in R.confirmed /\ d \notin R.hidden
           /\ d \in R.todo \/ R.fields[d] > 0 => R.version[d] > 0
      /\ \A d \in Documents : R.version[d] <= documents[d].version
      /\ IsInjective(R.hits)
  BY <1>1, <1>2 DEF ScopeIsFormal, PageIsSound, EvidenceIsSound, FormalOperations, Read
\* Steps that leave the scope of the search as it is.
<1>4. ASSUME NEW record, Move(r, record),
             record.op = R.op, record.at \in {"rerank", "askModel", "answered"},
             record.hidden = R.hidden, record.confirmed = R.confirmed,
             record.version = R.version, record.todo = R.todo, record.fields = R.fields,
             R.at \notin {"idle", "answered"}
      PROVE  ScopeIsFormal(r)' /\ PageIsSound(r)'
  <2>1. /\ documents' = documents /\ read'[r] = record /\ Confirmed' = Confirmed
        /\ \A d \in Documents : Exists(d)' <=> Exists(d)
    BY <1>4, MoveFrame
  <2>2. ScopeIsFormal(r)'
    BY <1>2, <1>3, <1>4, <2>1 DEF ScopeIsFormal
  <2>3. PageIsSound(r)'
    BY <1>2, <1>3, <1>4, <2>1 DEF PageIsSound
  <2> QED BY <2>2, <2>3
<1>5. CASE FormalRows(r)
  <2> DEFINE formal == Confirmed \ R.blocked
             at == IF formal = {} THEN "answered" ELSE "search"
             answer == IF formal = {} THEN "REFUSED" ELSE R.answer
             record == [R EXCEPT !.version = VersionsOf(formal), !.at = at, !.answer = answer]
  <2>1. R.at = "readRows" /\ Move(r, record)
    BY <1>5 DEF FormalRows
  <2>2. /\ record.at = at /\ record.blocked = R.blocked /\ record.op = R.op
        /\ record.target = R.target /\ record.hidden = R.hidden /\ record.confirmed = R.confirmed
        /\ record.version = VersionsOf(formal) /\ record.todo = R.todo /\ record.fields = R.fields
        /\ record.hits = R.hits /\ record.items = R.items
        /\ record.answer = answer /\ record.citations = R.citations
    BY <1>1 DEF Read
  <2>3. /\ formal = Confirmed \ R.blocked /\ formal \subseteq Documents
        /\ \/ at = "answered" /\ answer = "REFUSED"
           \/ at = "search" /\ answer = R.answer
    BY DEF Confirmed
  <2> HIDE DEF record, formal, at, answer
  <2>4. /\ documents' = documents /\ read'[r] = record /\ Confirmed' = Confirmed
        /\ \A d \in Documents : Exists(d)' <=> Exists(d)
    BY <2>1, MoveFrame
  <2>5. \A d \in Documents : /\ d \in formal => VersionsOf(formal)[d] > 0
                             /\ d \notin formal => VersionsOf(formal)[d] = 0
                             /\ VersionsOf(formal)[d] <= documents[d].version
    BY VersionsShown
  <2>6. /\ R.todo = {} /\ (\A d \in Documents : R.fields[d] = 0)
        /\ R.items = <<>> /\ R.citations = <<>> /\ R.answer = "NONE"
        /\ \A d \in R.hidden : d \in R.blocked \/ ~Exists(d)
    BY <1>1, <1>2, <2>1 DEF OnItsPath, ScopeIsFormal
  <2>7. OnItsPath(r)'
    BY <1>1, <1>2, <2>2, <2>3, <2>4, <2>6 DEF OnItsPath
  <2>8. ScopeIsFormal(r)'
    <3>1. \A d \in formal : d \in R.confirmed /\ d \notin R.hidden
      BY <1>3, <2>1, <2>3, <2>6 DEF Confirmed, IsConfirmed, Exists
    <3>2. Confirmed \subseteq R.confirmed /\ ~(0 > 0)
      BY <1>3, <2>1
    <3>3. read'[r].at # "readRows" /\ read'[r].op # "DETAIL"
      BY <1>2, <2>2, <2>3, <2>4
    <3>4. \A d \in read'[r].hidden : documents'[d].blocked \/ ~Exists(d)'
      BY <1>3, <2>2, <2>4
    <3>5. \A d \in Documents :
            /\ read'[r].version[d] > 0 => d \in read'[r].confirmed /\ d \notin read'[r].hidden
            /\ ~(d \in read'[r].todo \/ read'[r].fields[d] > 0)
      BY <2>2, <2>4, <2>5, <2>6, <3>1, <3>2
    <3>6. Confirmed' \subseteq read'[r].confirmed
      BY <2>2, <2>4, <3>2
    <3> QED BY <3>3, <3>4, <3>5, <3>6 DEF ScopeIsFormal
  <2>9. PageIsSound(r)'
    BY <1>2, <2>2, <2>3, <2>4, <2>5 DEF PageIsSound
  <2>10. EvidenceIsSound(r)'
    BY <1>3, <2>2, <2>3, <2>4, <2>6, NoEvidenceIsSound
  <2> QED BY <2>7, <2>8, <2>9, <2>10 DEF ReaderSound
<1>6. CASE Search(r)
  <2>1. PICK hits \in Columns : R.at = "search" /\ Move(r, [R EXCEPT !.hits = hits, !.at = "rerank"])
    BY <1>6 DEF Search
  <2> DEFINE record == [R EXCEPT !.hits = hits, !.at = "rerank"]
  <2>2. /\ record.at = "rerank" /\ record.op = R.op
        /\ record.target = R.target /\ record.hidden = R.hidden /\ record.confirmed = R.confirmed
        /\ record.version = R.version /\ record.todo = R.todo /\ record.fields = R.fields
        /\ record.hits = hits /\ record.items = R.items
        /\ record.answer = R.answer /\ record.citations = R.citations
    BY <1>1 DEF Read
  <2>3. Move(r, record) /\ IsInjective(hits)
    BY <2>1, ColumnsAreChunks
  <2> HIDE DEF record
  <2>4. read'[r] = record
    BY <2>3, MoveFrame
  <2>5. R.items = <<>> /\ R.citations = <<>> /\ R.answer = "NONE"
    BY <1>1, <2>1 DEF OnItsPath
  <2>6. OnItsPath(r)'
    BY <1>2, <2>2, <2>4, <2>5 DEF OnItsPath
  <2>7. ScopeIsFormal(r)' /\ PageIsSound(r)'
    BY <1>4, <2>1, <2>2, <2>3
  <2>8. EvidenceIsSound(r)'
    BY <2>2, <2>3, <2>4, <2>5, NoEvidenceIsSound
  <2> QED BY <2>6, <2>7, <2>8 DEF ReaderSound
<1>7. CASE Rerank(r)
  <2>1. PICK some \in [Validated(r) -> Scores] :
           LET score == [c \in Chunks |-> IF c \in DOMAIN some THEN some[c] ELSE 0]
               items == IF R.op = "DIAGNOSE" THEN <<>> ELSE Reranked(Candidates(r), score)
           IN  Move(r, [R EXCEPT
                  !.score = score, !.items = items,
                  !.at = IF R.op = "ASK" /\ items # <<>> THEN "askModel" ELSE "answered",
                  !.answer = IF R.op = "ASK" /\ items = <<>> THEN "REFUSED" ELSE @])
    BY <1>7 DEF Rerank
  <2> DEFINE score == [c \in Chunks |-> IF c \in DOMAIN some THEN some[c] ELSE 0]
             items == IF R.op = "DIAGNOSE" THEN <<>> ELSE Reranked(Candidates(r), score)
             at == IF R.op = "ASK" /\ items # <<>> THEN "askModel" ELSE "answered"
             answer == IF R.op = "ASK" /\ items = <<>> THEN "REFUSED" ELSE R.answer
             record == [R EXCEPT !.score = score, !.items = items, !.at = at, !.answer = answer]
  <2>2. Move(r, record) /\ R.at = "rerank"
    BY <1>7, <2>1 DEF Rerank
  <2>3. score \in [Chunks -> Int]
    BY ScoresAreGiven
  <2>4. /\ items = <<>> \/ items = Reranked(Candidates(r), score)
        /\ \/ at = "askModel" /\ answer = R.answer
           \/ at = "answered" /\ answer \in {R.answer, "REFUSED"}
    OBVIOUS
  <2>5. /\ record.at = at /\ record.op = R.op
        /\ record.target = R.target /\ record.hidden = R.hidden /\ record.confirmed = R.confirmed
        /\ record.version = R.version /\ record.todo = R.todo /\ record.fields = R.fields
        /\ record.hits = R.hits /\ record.items = items /\ record.score = score
        /\ record.answer = answer /\ record.citations = R.citations
    BY <1>1 DEF Read
  <2> HIDE DEF record, at, answer, score, items
  <2>6. read'[r] = record
    BY <2>2, MoveFrame
  <2>7. R.items = <<>> /\ R.citations = <<>> /\ R.answer = "NONE"
    BY <1>1, <2>2 DEF OnItsPath
  <2>8. OnItsPath(r)'
    BY <1>2, <2>4, <2>5, <2>6, <2>7 DEF OnItsPath
  <2>9. ScopeIsFormal(r)' /\ PageIsSound(r)'
    BY <1>4, <2>2, <2>4, <2>5
  <2>10. EvidenceIsSound(r)'
    <3>1. /\ IsInjective(items)
          /\ \A c \in Range(items) : c \in Validated(r) /\ score[c] >= Threshold
      <4>1. CASE items = <<>>
        BY <4>1 DEF IsInjective, Range
      <4>2. CASE items = Reranked(Candidates(r), score)
        BY <1>3, <2>3, <4>2, EvidenceIs
      <4> QED BY <2>4, <4>1, <4>2
    <3>2. Validated(r)' = Validated(r)
      BY <2>5, <2>6 DEF Validated, FormalDocuments
    <3> QED BY <1>3, <2>4, <2>5, <2>6, <2>7, <3>1, <3>2 DEF EvidenceIsSound
  <2> QED BY <2>8, <2>9, <2>10 DEF ReaderSound
<1>8. CASE AskModel(r)
  <2> DEFINE items == R.items
  <2>1. PICK d \in Decisions(Len(items)) :
          IF Accepted(d, Len(items))
            THEN Move(r, [R EXCEPT
                            !.answer = d.decision, !.at = "answered",
                            !.citations = [k \in DOMAIN d.citations |-> items[d.citations[k]]]])
            ELSE Fail(r)
    BY <1>8 DEF AskModel
  <2>2. R.at = "askModel"
    BY <1>8 DEF AskModel
  <2>3. CASE ~Accepted(d, Len(items))
    BY <2>1, <2>3, NothingReadIsSound
  <2>4. CASE Accepted(d, Len(items))
    <3> DEFINE cited == [k \in DOMAIN d.citations |-> items[d.citations[k]]]
               record == [R EXCEPT !.answer = d.decision, !.at = "answered", !.citations = cited]
    <3>1. Move(r, record)
      BY <2>1, <2>4
    <3>2. /\ IsInjective(items) /\ items \in Seq(Chunks)
          /\ \A c \in Range(items) : c \in Validated(r) /\ R.score[c] >= Threshold
      BY <1>1, <2>2 DEF EvidenceIsSound, Read
    <3>3. /\ d.decision \in {"ANSWERED", "REFUSED"}
          /\ d.decision = "REFUSED" => cited = <<>>
          /\ d.decision = "ANSWERED" =>
               cited # <<>> /\ IsInjective(cited) /\ Range(cited) \subseteq Range(items)
      BY <2>4, <3>2, CitationsAre DEF Decisions
    <3>4. /\ record.at = "answered" /\ record.op = R.op
          /\ record.target = R.target /\ record.hidden = R.hidden /\ record.confirmed = R.confirmed
          /\ record.version = R.version /\ record.todo = R.todo /\ record.fields = R.fields
          /\ record.hits = R.hits /\ record.items = items /\ record.score = R.score
          /\ record.answer = d.decision /\ record.citations = cited
      BY <1>1 DEF Read
    <3> HIDE DEF record, cited, items
    <3>5. read'[r] = record
      BY <3>1, MoveFrame
    <3>6. OnItsPath(r)'
      BY <1>2, <3>4, <3>5 DEF OnItsPath
    <3>7. ScopeIsFormal(r)' /\ PageIsSound(r)'
      BY <1>4, <2>2, <3>1, <3>4
    <3>8. EvidenceIsSound(r)'
      <4>1. Validated(r)' = Validated(r)
        BY <3>4, <3>5 DEF Validated, FormalDocuments
      <4> QED BY <1>2, <1>3, <3>2, <3>3, <3>4, <3>5, <4>1 DEF EvidenceIsSound
    <3> QED BY <3>6, <3>7, <3>8 DEF ReaderSound
  <2> QED BY <2>3, <2>4
<1> QED BY <1>5, <1>6, <1>7, <1>8

-----------------------------------------------------------------------------

LEMMA ReaderStepKeepsInvariant ==
  ASSUME ReadsInvariant, NEW r \in Readers, ReadStep(r) \/ Close(r)
  PROVE  ReadsInvariant'
<1>1. TypeOK /\ DocumentsSound /\ \A q \in Readers : ReaderSound(q)
  BY DEF ReadsInvariant
<1>2. TypeOK'
  BY <1>1, TypeOKReader DEF ReaderSound, EvidenceIsSound
<1>3. ReaderSound(r)'
  <2>1. CASE ReadFails(r) \/ RowMissing(r) \/ Close(r)
    BY <1>1, <2>1, NothingReadIsSound DEF ReadFails, RowMissing, Close
  <2>2. CASE ReadBlocked(r) \/ ListRows(r) \/ DetailRow(r) \/ DetailBlocked(r) \/ DraftRow(r)
    BY <1>1, <2>2, RowsSound
  <2>3. CASE PageDone(r) \/ \E d \in Documents : ReadFields(r, d)
    BY <1>1, <2>3, FieldsSound
  <2>4. CASE FormalRows(r) \/ Search(r) \/ Rerank(r) \/ AskModel(r)
    BY <1>1, <2>4, SearchSound
  <2> QED BY <2>1, <2>2, <2>3, <2>4 DEF ReadStep
<1>4. \E record : Move(r, record)
  <2>1. CASE ReadFails(r) \/ RowMissing(r) \/ Close(r) \/ ReadBlocked(r) \/ DetailRow(r) \/ DraftRow(r)
    BY <2>1 DEF ReadFails, RowMissing, Close, ReadBlocked, DetailRow, DraftRow, Fail
  <2>2. CASE ListRows(r) \/ FormalRows(r) \/ PageDone(r)
    BY <2>2 DEF ListRows, FormalRows, PageDone
  <2>3. CASE DetailBlocked(r) \/ \E d \in Documents : ReadFields(r, d)
    BY <2>3 DEF DetailBlocked, ReadFields, Fail
  <2>4. CASE Search(r) \/ Rerank(r)
    BY <2>4 DEF Search, Rerank
  <2>5. CASE AskModel(r)
    BY <2>5 DEF AskModel, Fail
  <2> QED BY <2>1, <2>2, <2>3, <2>4, <2>5 DEF ReadStep
<1>5. DocumentsSound' /\ \A q \in Readers \ {r} : ReaderSound(q) => ReaderSound(q)'
  BY <1>1, <1>4, OthersStay
<1> QED BY <1>1, <1>2, <1>3, <1>5 DEF ReadsInvariant

\* The invariant of the reads.
THEOREM ReadsInvariantHolds == Spec => []ReadsInvariant
<1>1. Init => ReadsInvariant
  <2> SUFFICES ASSUME Init PROVE ReadsInvariant
    OBVIOUS
  <2>1. TypeOK
    <3>1. \A r \in Readers : Len(read[r].items) <= TopK
      BY ReadsAssumption DEF Init, NoRead
    <3> QED BY <3>1, NoReadIsRead DEF Init, TypeOK, NewDocument
  <2>2. DocumentsSound
    BY DEF Init, DocumentsSound, NewDocument, Exists
  <2>3. ASSUME NEW r \in Readers
        PROVE  ReaderSound(r)
    <3>1. /\ read[r] = NoRead /\ read[r].op = "NONE" /\ read[r].at = "idle"
          /\ read[r].hidden = {} /\ read[r].hits = <<>> /\ read[r].items = <<>>
          /\ read[r].citations = <<>> /\ read[r].answer = "NONE"
          /\ \A d \in Documents : read[r].version[d] = 0
      BY DEF Init, NoRead
    <3>2. OnItsPath(r)
      BY <3>1 DEF OnItsPath
    <3>3. ScopeIsFormal(r)
      BY <3>1 DEF ScopeIsFormal, FormalOperations, SearchOperations
    <3>4. PageIsSound(r)
      BY <2>2, <3>1 DEF PageIsSound, Init, NewDocument
    <3>5. EvidenceIsSound(r)
      <4>1. IsInjective(<<>>)
        BY DEF IsInjective
      <4> QED BY <3>1, <4>1 DEF EvidenceIsSound
    <3> QED BY <3>2, <3>3, <3>4, <3>5 DEF ReaderSound
  <2> QED BY <2>1, <2>2, <2>3 DEF ReadsInvariant
<1>2. ReadsInvariant /\ [Next]_vars => ReadsInvariant'
  <2> SUFFICES ASSUME ReadsInvariant, [Next]_vars PROVE ReadsInvariant'
    OBVIOUS
  <2>1. CASE UNCHANGED vars
    <3>1. documents' = documents /\ read' = read
      BY <2>1 DEF vars
    <3>2. TypeOK'
      BY <3>1 DEF ReadsInvariant, TypeOK
    <3>3. DocumentsSound'
      BY <3>1 DEF ReadsInvariant, DocumentsSound, Exists
    <3>4. ASSUME NEW r \in Readers
          PROVE  ReaderSound(r)'
      BY <3>1 DEF ReadsInvariant, ReaderSound, OnItsPath, ScopeIsFormal, PageIsSound,
                  EvidenceIsSound, Validated, FormalDocuments, Confirmed, IsConfirmed, Exists, NoRead
    <3> QED BY <3>2, <3>3, <3>4 DEF ReadsInvariant
  <2>2. ASSUME NEW d \in Documents, DocumentStep(d)
        PROVE  ReadsInvariant'
    BY <2>2, DocumentStepSound
  <2>3. ASSUME NEW r \in Readers, NEW op \in Operations, NEW d \in Documents, Ask(r, op, d)
        PROVE  ReadsInvariant'
    <3>1. TypeOK' /\ ReaderSound(r)'
      BY <2>3, AskSound DEF ReadsInvariant
    <3>2. \E record : Move(r, record)
      BY <2>3 DEF Ask
    <3>3. DocumentsSound' /\ \A q \in Readers \ {r} : ReaderSound(q) => ReaderSound(q)'
      BY <3>2, OthersStay DEF ReadsInvariant
    <3> QED BY <3>1, <3>3 DEF ReadsInvariant
  <2>4. ASSUME NEW r \in Readers, ReadStep(r) \/ Close(r)
        PROVE  ReadsInvariant'
    BY <2>4, ReaderStepKeepsInvariant
  <2> QED BY <2>1, <2>2, <2>3, <2>4 DEF Next
<1> QED BY <1>1, <1>2, PTL DEF Spec

\* Every read and every document stays well typed, and retrieval returns no
\* more chunks than the client asked for.
THEOREM ReadsTypeOK == Spec => []TypeOK
<1>1. ReadsInvariant => TypeOK
  BY DEF ReadsInvariant
<1> QED BY <1>1, ReadsInvariantHolds, PTL

\* The catalogue, retrieval and answers show nothing of a document that was not
\* confirmed at some moment of the read, or was in deletion when it began.
THEOREM FormalContentOnly == Spec => []OnlyFormalContentShown
<1>1. ReadsInvariant => OnlyFormalContentShown
  <2> SUFFICES ASSUME ReadsInvariant, NEW r \in Readers, read[r].op \in FormalOperations,
                      NEW d \in Shown(r)
               PROVE  d \in read[r].confirmed \ read[r].hidden
    BY DEF OnlyFormalContentShown
  <2>1. OnItsPath(r) /\ ScopeIsFormal(r) /\ read[r] \in Read
    BY DEF ReadsInvariant, ReaderSound, TypeOK
  <2>2. CASE d \in Documents /\ read[r].fields[d] > 0
    <3>1. read[r].version[d] > 0 /\ read[r].fields[d] # 0
      BY <2>1, <2>2 DEF ScopeIsFormal
    <3> QED BY <2>1, <2>2, <3>1 DEF ScopeIsFormal
  <2>3. CASE \E c \in Validated(r) : d = DocumentOf[c]
    <3>1. PICK c \in Validated(r) : d = DocumentOf[c]
      BY <2>3
    <3>2. d \in Documents /\ read[r].version[d] > 0
      BY <3>1 DEF Validated, FormalDocuments
    <3>3. read[r].op # "DETAIL"
      <4>1. read[r].hits # <<>>
        <5>1. Range(<<>>) = {}
          BY DEF Range
        <5> QED BY <3>1, <5>1 DEF Validated
      <4> QED BY <2>1, <4>1 DEF OnItsPath, SearchOperations
    <3> QED BY <2>1, <3>2, <3>3 DEF ScopeIsFormal
  <2> QED BY <2>2, <2>3 DEF Shown
<1> QED BY <1>1, ReadsInvariantHolds, PTL

\* A page whose version is still the current one shows the current fields.
THEOREM PagesAreTrue == Spec => []CurrentPageIsTrue
<1>1. ReadsInvariant => CurrentPageIsTrue
  BY DEF ReadsInvariant, ReaderSound, PageIsSound, CurrentPageIsTrue
<1> QED BY <1>1, ReadsInvariantHolds, PTL

\* Citations are distinct pieces of evidence of this question that reach the
\* threshold, from documents that were formal during it.
THEOREM AnswersAreGrounded == Spec => []AnswersRestOnEvidence
<1>1. ReadsInvariant => AnswersRestOnEvidence
  <2> SUFFICES ASSUME ReadsInvariant, NEW r \in Readers
               PROVE  LET cited == read[r].citations IN
                      /\ read[r].answer = "ANSWERED" =>
                           /\ cited # <<>> /\ IsInjective(cited)
                           /\ Range(cited) \subseteq Range(read[r].items) \intersect Validated(r)
                           /\ \A c \in Range(cited) :
                                /\ read[r].score[c] >= Threshold
                                /\ DocumentOf[c] \in read[r].confirmed \ read[r].hidden
                      /\ read[r].answer = "REFUSED" => cited = <<>>
    BY DEF AnswersRestOnEvidence
  <2>1. OnItsPath(r) /\ ScopeIsFormal(r) /\ EvidenceIsSound(r)
    BY DEF ReadsInvariant, ReaderSound
  <2>2. read[r].answer = "REFUSED" => read[r].citations = <<>>
    BY <2>1 DEF EvidenceIsSound
  <2>3. ASSUME read[r].answer = "ANSWERED"
        PROVE  /\ read[r].op \in SearchOperations /\ read[r].citations # <<>>
               /\ IsInjective(read[r].citations)
               /\ Range(read[r].citations) \subseteq Range(read[r].items)
               /\ \A c \in Range(read[r].items) : c \in Validated(r) /\ read[r].score[c] >= Threshold
    BY <2>1, <2>3 DEF EvidenceIsSound, OnItsPath
  <2>4. ASSUME read[r].op \in SearchOperations, NEW c \in Validated(r)
        PROVE  DocumentOf[c] \in read[r].confirmed \ read[r].hidden
    <3>1. DocumentOf[c] \in Documents /\ read[r].version[DocumentOf[c]] > 0
      BY DEF Validated, FormalDocuments
    <3>2. read[r].op # "DETAIL" /\ read[r].op \in FormalOperations
      BY <2>4 DEF SearchOperations, FormalOperations
    <3> QED BY <2>1, <3>1, <3>2 DEF ScopeIsFormal
  <2> QED BY <2>2, <2>3, <2>4
<1> QED BY <1>1, ReadsInvariantHolds, PTL

\* Scores once given are scores of candidates, which are known.
LEMMA SearchIsRanked ==
  ASSUME ReadsInvariant, NEW r \in Readers
  PROVE  /\ Candidates(r) \in Seq(Chunks) /\ IsInjective(Candidates(r))
         /\ Range(Candidates(r)) = Validated(r) /\ Validated(r) \subseteq Chunks
         /\ read[r].score \in [Chunks -> Int]
<1>1. TypeOK /\ IsInjective(read[r].hits) /\ read[r].score \in [Chunks -> Int]
  BY DEF ReadsInvariant, ReaderSound, EvidenceIsSound, TypeOK, Read
<1> QED BY <1>1, CandidatesAre

\* A column that lists as many chunks of a finite sequence, each once, lists
\* them all.
LEMMA ReorderingIsWhole ==
  ASSUME NEW s \in Seq(Chunks), IsInjective(s),
         NEW t \in [DOMAIN s -> Range(s)], IsInjective(t)
  PROVE  t \in Seq(Chunks) /\ Range(t) = Range(s)
<1> DEFINE D == DOMAIN s
           V == Range(s)
<1>1. IsFiniteSet(D) /\ D = 1 .. Len(s) /\ Len(s) \in Nat /\ V \subseteq Chunks
  BY PlacesOfSequence DEF Range
<1>2. s \in Surjection(D, V) /\ s \in Injection(D, V)
  BY DEF Surjection, Injection, Range
<1>3. t \in Injection(D, V) /\ t \in [D -> V]
  BY DEF Injection
<1> HIDE DEF D, V
<1>4. IsFiniteSet(V) /\ Cardinality(V) = Cardinality(D)
  BY <1>1, <1>2, FS_Surjection
<1>5. t \in Surjection(D, V)
  BY <1>3, <1>4, FS_Injection
<1>6. Range(t) = V
  BY <1>3, <1>5 DEF Surjection, Range
<1>7. t \in Seq(Chunks)
  BY <1>1, <1>3
<1> QED BY <1>6, <1>7 DEF V

\* The order of the evidence does not depend on the order of Chroma's answer.
THEOREM RankingIsReproducible == Spec => []RankingReproducible
<1>1. ReadsInvariant => RankingReproducible
  <2> SUFFICES ASSUME ReadsInvariant, NEW r \in Readers,
                      NEW order \in [DOMAIN Candidates(r) -> Validated(r)], IsInjective(order)
               PROVE  Reranked(order, read[r].score) = Reranked(Candidates(r), read[r].score)
    BY DEF RankingReproducible
  <2> DEFINE candidates == Candidates(r)
             score == read[r].score
  <2>1. /\ candidates \in Seq(Chunks) /\ IsInjective(candidates)
        /\ Range(candidates) = Validated(r)
        /\ score \in [Chunks -> Int]
    BY SearchIsRanked
  <2>2. order \in [DOMAIN candidates -> Validated(r)]
    OBVIOUS
  <2> HIDE DEF candidates, score
  <2>3. order \in Seq(Chunks) /\ Range(order) = Range(candidates)
    BY <2>1, <2>2, ReorderingIsWhole
  <2>4. Orders(ByScore(score), Chunks)
    BY <2>1, KeysAreOrders
  <2>5. Scored(order, score) = Scored(candidates, score)
    BY <2>1, <2>3, <2>4, SortIgnoresOrder DEF Scored
  <2> QED BY <2>5 DEF Reranked, candidates, score
<1> QED BY <1>1, ReadsInvariantHolds, PTL

\* The ranks of a diagnosis are those by which retrieval chooses.
THEOREM DiagnosisIsTrue == Spec => []DiagnosisExplainsRetrieval
<1>1. ReadsInvariant => DiagnosisExplainsRetrieval
  <2> SUFFICES ASSUME ReadsInvariant, NEW r \in Readers
               PROVE  LET candidates == Candidates(r)  score == read[r].score IN
                      /\ {DenseRank(candidates, c) : c \in Validated(r)} = DOMAIN candidates
                      /\ Range(Reranked(candidates, score)) =
                           {c \in Validated(r) : /\ RerankerRank(candidates, score, c) <= TopK
                                                 /\ score[c] >= Threshold}
    BY DEF DiagnosisExplainsRetrieval
  <2> DEFINE candidates == Candidates(r)
             score == read[r].score
             valid == Validated(r)
             scored == Scored(candidates, score)
             dense == Sorted(candidates, ByDistance)
             items == Reranked(candidates, score)
  <2>1. /\ candidates \in Seq(Chunks) /\ IsInjective(candidates)
        /\ Range(candidates) = valid
        /\ score \in [Chunks -> Int]
    BY SearchIsRanked
  <2> HIDE DEF candidates, score, valid
  <2>2. /\ DOMAIN scored = DOMAIN candidates /\ IsInjective(scored) /\ Range(scored) = valid
    BY <2>1, KeysAreOrders, SortedElements DEF Scored
  <2>3. /\ DOMAIN dense = DOMAIN candidates /\ IsInjective(dense) /\ Range(dense) = valid
    BY <2>1, KeysAreOrders, SortedElements
  <2>4. \A c : c \in Range(items) <=>
           \E i \in DOMAIN candidates : scored[i] = c /\ i <= TopK /\ score[c] >= Threshold
    BY <2>1, RerankedIs
  <2>5. /\ \A c : DenseRank(candidates, c) = CHOOSE n \in DOMAIN candidates : dense[n] = c
        /\ \A c : RerankerRank(candidates, score, c) =
                    CHOOSE n \in DOMAIN candidates : scored[n] = c
    BY DEF DenseRank, RerankerRank
  <2> HIDE DEF scored, dense, items
  <2>6. {DenseRank(candidates, c) : c \in valid} = DOMAIN candidates
    <3>1. ASSUME NEW c \in valid
          PROVE  DenseRank(candidates, c) \in DOMAIN candidates
      <4>1. \E n \in DOMAIN candidates : dense[n] = c
        BY <2>3 DEF Range
      <4> QED BY <2>5, <4>1
    <3>2. ASSUME NEW n \in DOMAIN candidates
          PROVE  dense[n] \in valid /\ DenseRank(candidates, dense[n]) = n
      <4>1. \A m \in DOMAIN candidates : dense[m] = dense[n] => m = n
        BY <2>3 DEF IsInjective
      <4>2. dense[n] \in valid
        BY <2>3 DEF Range
      <4> QED BY <2>5, <4>1, <4>2
    <3> QED BY <3>1, <3>2
  <2>7. ASSUME NEW n \in DOMAIN candidates
        PROVE  RerankerRank(candidates, score, scored[n]) = n /\ scored[n] \in valid
    <3>1. \A m \in DOMAIN candidates : scored[m] = scored[n] => m = n
      BY <2>2 DEF IsInjective
    <3>2. scored[n] \in valid
      BY <2>2 DEF Range
    <3> QED BY <2>5, <3>1, <3>2
  <2>8. \A c \in valid : \E n \in DOMAIN candidates : scored[n] = c
    BY <2>2 DEF Range
  <2>9. Range(items) = {c \in valid : /\ RerankerRank(candidates, score, c) <= TopK
                                      /\ score[c] >= Threshold}
    BY <2>4, <2>7, <2>8
  <2> QED BY <2>6, <2>9 DEF items, candidates, score, valid
<1> QED BY <1>1, ReadsInvariantHolds, PTL

\* The documents the reads work on are those of FormalArchive, which the
\* lifecycle implements too: what is proved here of reads holds above it.
THEOREM ReadsFollowFormalArchive == Spec => DocumentsFollowFormalArchive
<1>1. Init => \A d \in Documents : Archive(d)!Init
  BY DEF Init, NewDocument, Archive!Init, Phase, Exists, IsConfirmed
<1>2. ReadsInvariant /\ [Next]_vars =>
        [\A d \in Documents : Archive(d)!Next \/ UNCHANGED <<Phase(d), documents[d].approved>>]_vars
  <2> SUFFICES ASSUME ReadsInvariant, Next, NEW e \in Documents
               PROVE  Archive(e)!Next \/ UNCHANGED <<Phase(e), documents[e].approved>>
    BY DEF vars
  <2>1. CASE documents' = documents
    BY <2>1 DEF Phase, Exists, IsConfirmed
  <2>2. ASSUME NEW d \in Documents, DocumentStep(d)
        PROVE  Archive(e)!Next \/ UNCHANGED <<Phase(e), documents[e].approved>>
    <3>1. /\ \A f \in Documents \ {d} : documents'[f] = documents[f]
      BY <2>2, DocumentStepIs DEF ReadsInvariant
    <3>2. CASE e # d
      BY <3>1, <3>2 DEF Phase, Exists, IsConfirmed
    <3>3. CASE e = d
      <4> DEFINE old == documents[d]
                 new == documents'[d]
      <4>1. /\ documents \in [Documents -> [status : {"PENDING", "CONFIRMED", "GONE"},
                                            blocked : BOOLEAN, version : Nat, fields : Nat,
                                            rows : Nat, approved : Nat]]
            /\ old.status # "GONE" => old.fields > 0 /\ old.approved <= old.fields
            /\ old.status # "GONE"
        BY <2>2, DocumentStepIs DEF ReadsInvariant, TypeOK, DocumentsSound, Exists
      <4>6. /\ Phase(d) = IF old.status = "GONE" THEN "GONE"
                          ELSE IF old.blocked THEN "HIDDEN"
                          ELSE IF old.status = "CONFIRMED" THEN "FORMAL" ELSE "DRAFT"
            /\ Phase(d)' = IF new.status = "GONE" THEN "GONE"
                           ELSE IF new.blocked THEN "HIDDEN"
                           ELSE IF new.status = "CONFIRMED" THEN "FORMAL" ELSE "DRAFT"
        BY DEF Phase, Exists, IsConfirmed
      <4>2. CASE Confirm(d)
        <5>1. /\ old.status # "CONFIRMED" /\ new.status = "CONFIRMED"
              /\ new.blocked = old.blocked /\ new.approved = old.fields
          BY <4>1, <4>2 DEF Confirm, IsConfirmed
        <5>2. new.approved \in Nat \ {0} /\ new.approved >= old.approved
          BY <4>1, <5>1
        <5>3. \/ Phase(d) = "HIDDEN" /\ Phase(d)' = "HIDDEN"
              \/ Phase(d) = "DRAFT" /\ Phase(d)' = "FORMAL"
          BY <4>1, <4>6, <5>1
        <5> QED BY <3>3, <5>2, <5>3 DEF Archive!Next, Archive!Publish, Archive!ApproveHidden
      <4>3. CASE WriteDraft(d) \/ ReplaceDraft(d) \/ Cancel(d)
        <5>1. /\ new.status = "PENDING" \/ new.status = old.status
              /\ new.blocked = old.blocked /\ new.approved = old.approved
          BY <4>1, <4>3 DEF WriteDraft, ReplaceDraft, Cancel
        <5>2. \/ Phase(d)' = Phase(d)
              \/ Phase(d) = "FORMAL" /\ Phase(d)' = "DRAFT"
          BY <4>1, <4>6, <5>1
        <5> QED BY <3>3, <5>1, <5>2 DEF Archive!Next, Archive!Withdraw
      <4>4. CASE BeginDelete(d)
        <5>1. new.status = old.status /\ new.blocked /\ ~old.blocked /\ new.approved = old.approved
          BY <4>1, <4>4 DEF BeginDelete
        <5>2. Phase(d) \in {"DRAFT", "FORMAL"} /\ Phase(d)' = "HIDDEN"
          BY <4>1, <4>6, <5>1
        <5> QED BY <3>3, <5>1, <5>2 DEF Archive!Next, Archive!Hide
      <4>5. CASE EndDelete(d)
        <5>1. new.status = "GONE" /\ old.blocked /\ new.approved = old.approved
          BY <4>1, <4>5 DEF EndDelete
        <5>2. Phase(d) = "HIDDEN" /\ Phase(d)' = "GONE"
          BY <4>1, <4>6, <5>1
        <5> QED BY <3>3, <5>1, <5>2 DEF Archive!Next, Archive!Remove
      <4> QED BY <2>2, <4>2, <4>3, <4>4, <4>5 DEF DocumentStep
    <3> QED BY <3>2, <3>3
  <2>3. ASSUME NEW r \in Readers, ReadStep(r) \/ Close(r) \/ \E op \in Operations, d \in Documents : Ask(r, op, d)
        PROVE  documents' = documents
    BY <2>3 DEF ReadStep, Close, Ask, ReadFails, ReadBlocked, ListRows, DetailRow, DetailBlocked,
                DraftRow, RowMissing, PageDone, ReadFields, FormalRows, Search, Rerank, AskModel,
                Fail, Move
  <2> QED BY <2>1, <2>2, <2>3 DEF Next
<1> QED BY <1>1, <1>2, ReadsInvariantHolds, PTL DEF Spec, DocumentsFollowFormalArchive
=============================================================================
