---------------------------- MODULE DataTheorems ----------------------------
(* What Lists and MerkleTree compute, and the least element of a set of      *)
(* numbers, by which the proofs that need it do induction: the step that     *)
(* fails first has a step before it.                                         *)
EXTENDS Lists, MerkleTree, FiniteSetTheorems, TLAPS

\* Every set of naturals that is not empty has a least element.
LEMMA LeastNatural ==
  ASSUME NEW T, T \subseteq Nat, T # {}
  PROVE  \E x \in T : \A y \in T : x <= y
<1> DEFINE less == {ss \in Nat \X Nat : ss[1] < ss[2]}
<1>1. IsWellFoundedOn(less, Nat)
  BY NatLessThanWellFounded, Zenon DEF OpToRel
<1> HIDE DEF less
<1>2. PICK x \in T : \A y \in T : ~(<<y, x>> \in less)
  BY <1>1, WFMin
<1>3. \A y \in T : ~(y < x)
  BY <1>2 DEF less
<1> QED BY <1>3

\* Parts of a finite set, counted.
LEMMA PartsAreCounted ==
  ASSUME NEW P, IsFiniteSet(P), NEW T \in SUBSET P
  PROVE  /\ IsFiniteSet(T) /\ Cardinality(P) \in Nat /\ Cardinality(T) \in Nat
         /\ Cardinality(T) <= Cardinality(P)
         /\ Cardinality(T) = Cardinality(P) => T = P
         /\ T # {} => Cardinality(T) # 0
<1>1. /\ IsFiniteSet(T) /\ Cardinality(T) <= Cardinality(P)
      /\ Cardinality(P) = Cardinality(T) => P = T
  BY FS_Subset
<1>2. Cardinality(P) \in Nat /\ Cardinality(T) \in Nat
  BY <1>1, FS_CardinalityType
<1> QED BY <1>1, <1>2, FS_EmptySet

\* In a finite set with a total order, let each element have the number of
\* those that are not after it: every number from 1 on is taken once, in the
\* order of the elements.
LEMMA TotalOrderNumbers ==
  ASSUME NEW P, IsFiniteSet(P), NEW R,
         \A p, q \in P : <<p, q>> \in R \/ <<q, p>> \in R,
         \A p, q \in P : <<p, q>> \in R /\ <<q, p>> \in R => p = q,
         \A p, q, r \in P : <<p, q>> \in R /\ <<q, r>> \in R => <<p, r>> \in R,
         NEW num, \A p \in P : num[p] = Cardinality({q \in P : <<q, p>> \in R})
  PROVE  /\ Cardinality(P) \in Nat
         /\ \A p \in P : num[p] \in 1..Cardinality(P)
         /\ \A p, q \in P : num[p] <= num[q] <=> <<p, q>> \in R
         /\ \A k \in 1..Cardinality(P) : \E p \in P : num[p] = k
<1> DEFINE upTo(p) == {q \in P : <<q, p>> \in R}
           c == Cardinality(P)
<1>1. ASSUME NEW p \in P
      PROVE  /\ upTo(p) \in SUBSET P /\ p \in upTo(p) /\ IsFiniteSet(upTo(p))
             /\ num[p] = Cardinality(upTo(p))
             /\ num[p] \in Nat /\ num[p] \in 1..c /\ c \in Nat
  <2>1. upTo(p) \in SUBSET P /\ p \in upTo(p) /\ num[p] = Cardinality(upTo(p))
    OBVIOUS
  <2> HIDE DEF upTo
  <2>2. /\ IsFiniteSet(upTo(p)) /\ num[p] \in Nat /\ c \in Nat
        /\ num[p] <= c /\ num[p] # 0
    BY <2>1, PartsAreCounted
  <2>3. num[p] \in 1..c
    BY <2>2
  <2> QED BY <2>1, <2>2, <2>3
<1>2. ASSUME NEW p \in P, NEW q \in P, <<p, q>> \in R
      PROVE  num[p] <= num[q] /\ (num[p] = num[q] => p = q)
  <2>1. upTo(p) \in SUBSET upTo(q) /\ q \in upTo(q)
    BY <1>1, <1>2
  <2>2. q \in upTo(p) => p = q
    BY <1>2
  <2>3. /\ IsFiniteSet(upTo(q)) /\ num[p] = Cardinality(upTo(p))
        /\ num[q] = Cardinality(upTo(q))
    BY <1>1
  <2> HIDE DEF upTo
  <2> QED BY <2>1, <2>2, <2>3, PartsAreCounted
<1>3. ASSUME NEW p \in P, NEW q \in P
      PROVE  num[p] <= num[q] <=> <<p, q>> \in R
  <2>1. num[p] \in Nat /\ num[q] \in Nat
    BY <1>1
  <2>2. CASE <<q, p>> \in R
    BY <1>2, <2>1, <2>2
  <2>3. CASE <<p, q>> \in R
    BY <1>2, <2>3
  <2> QED BY <2>2, <2>3
<1>4. c \in Nat /\ IsFiniteSet(1..c) /\ Cardinality(1..c) = c
  <2>1. c \in Nat
    BY FS_CardinalityType
  <2> HIDE DEF c
  <2> QED BY <2>1, FS_Interval
<1>5. ASSUME NEW k \in 1..c
      PROVE  \E p \in P : num[p] = k
  <2> DEFINE f == [p \in P |-> num[p]]
  <2>1. f \in [P -> 1..c]
    BY <1>1
  <2>2. ASSUME NEW p \in P, NEW q \in P, f[p] = f[q]
        PROVE  p = q
    <3>1. num[p] = num[q]
      BY <2>2
    <3> QED BY <1>2, <3>1
  <2>3. \A p \in P : f[p] = num[p]
    OBVIOUS
  <2> HIDE DEF f
  <2>4. f \in Injection(P, 1..c)
    BY <2>1, <2>2 DEF Injection, IsInjective
  <2>5. Cardinality(P) = Cardinality(1..c) <=> f \in Surjection(P, 1..c)
    BY <1>4, <2>4, FS_Injection
  <2>6. PICK p \in P : f[p] = k
    BY <1>4, <2>5 DEF Surjection
  <2> QED BY <2>3, <2>6
<1> QED BY <1>1, <1>3, <1>4, <1>5

\* Counting places gives each one a number of its own, in their order, and
\* gives every number from 1 on.
LEMMA PlacesAreNumbered ==
  ASSUME NEW n \in Nat, NEW places \in SUBSET (1..n)
  PROVE  /\ Cardinality(places) \in Nat /\ Cardinality(places) <= n
         /\ \A p \in places : PlaceAmong(p, places) \in 1..Cardinality(places)
         /\ \A p, q \in places :
              PlaceAmong(p, places) <= PlaceAmong(q, places) <=> p <= q
         /\ \A k \in 1..Cardinality(places) :
              \E p \in places : PlaceAmong(p, places) = k
<1> DEFINE R == {pq \in places \X places : pq[1] <= pq[2]}
           num == [p \in places |-> PlaceAmong(p, places)]
<1>1. IsFiniteSet(1..n) /\ Cardinality(1..n) = n
  BY FS_Interval
<1>2. IsFiniteSet(places) /\ Cardinality(places) <= n
  BY <1>1, FS_Subset
<1>3. \A p, q \in places : <<p, q>> \in R <=> p <= q
  OBVIOUS
<1>4. \A p \in places : p \in Nat
  OBVIOUS
<1>5. ASSUME NEW p \in places
      PROVE  num[p] = Cardinality({q \in places : <<q, p>> \in R})
  <2>1. {q \in places : <<q, p>> \in R} = {q \in places : q <= p}
    BY <1>3
  <2> QED BY <2>1 DEF PlaceAmong
<1>6. \A p \in places : num[p] = PlaceAmong(p, places)
  OBVIOUS
<1> HIDE DEF R, num
<1>7. /\ \A p, q \in places : <<p, q>> \in R \/ <<q, p>> \in R
      /\ \A p, q \in places : <<p, q>> \in R /\ <<q, p>> \in R => p = q
      /\ \A p, q, r \in places : <<p, q>> \in R /\ <<q, r>> \in R => <<p, r>> \in R
  BY <1>3, <1>4
<1>8. /\ Cardinality(places) \in Nat
      /\ \A p \in places : num[p] \in 1..Cardinality(places)
      /\ \A p, q \in places : num[p] <= num[q] <=> <<p, q>> \in R
      /\ \A k \in 1..Cardinality(places) : \E p \in places : num[p] = k
  BY <1>2, <1>5, <1>7, TotalOrderNumbers
<1>9. ASSUME NEW p \in places, NEW q \in places
      PROVE  PlaceAmong(p, places) <= PlaceAmong(q, places) <=> p <= q
  <2>1. num[p] <= num[q] <=> <<p, q>> \in R
    BY <1>8
  <2>2. num[p] = PlaceAmong(p, places) /\ num[q] = PlaceAmong(q, places)
    BY <1>6
  <2> QED BY <1>3, <2>1, <2>2
<1>10. \A p \in places : PlaceAmong(p, places) \in 1..Cardinality(places)
  BY <1>6, <1>8
<1>11. \A k \in 1..Cardinality(places) : \E p \in places : PlaceAmong(p, places) = k
  BY <1>6, <1>8
<1> QED BY <1>2, <1>8, <1>9, <1>10, <1>11

\* What stands in a list of picked entries, and where.
LEMMA EntriesAtFacts ==
  ASSUME NEW S, NEW list \in Seq(S), NEW places \in SUBSET (1..Len(list))
  PROVE  /\ EntriesAt(list, places) \in Seq(S)
         /\ Len(EntriesAt(list, places)) = Cardinality(places)
         /\ Cardinality(places) \in Nat /\ Cardinality(places) <= Len(list)
         /\ \A k \in 1..Cardinality(places) : \E p \in places :
              PlaceAmong(p, places) = k /\ EntriesAt(list, places)[k] = list[p]
         /\ \A p \in places :
              /\ PlaceAmong(p, places) \in 1..Cardinality(places)
              /\ EntriesAt(list, places)[PlaceAmong(p, places)] = list[p]
<1> DEFINE c == Cardinality(places)
           at(k) == CHOOSE p \in places : PlaceAmong(p, places) = k
<1>1. /\ c \in Nat /\ c <= Len(list)
      /\ \A p \in places : PlaceAmong(p, places) \in 1..c
      /\ \A p, q \in places : PlaceAmong(p, places) <= PlaceAmong(q, places) <=> p <= q
      /\ \A k \in 1..c : \E p \in places : PlaceAmong(p, places) = k
  BY PlacesAreNumbered
<1>2. \A k \in 1..c : at(k) \in places /\ PlaceAmong(at(k), places) = k
  BY <1>1
<1>3. EntriesAt(list, places) = [k \in 1..c |-> list[at(k)]]
  BY DEF EntriesAt
<1>4. \A p \in places : at(PlaceAmong(p, places)) = p
  <2> SUFFICES ASSUME NEW p \in places PROVE at(PlaceAmong(p, places)) = p
    OBVIOUS
  <2> DEFINE q == at(PlaceAmong(p, places))
  <2>1. /\ q \in places /\ PlaceAmong(q, places) = PlaceAmong(p, places)
        /\ PlaceAmong(p, places) \in Nat
    BY <1>1, <1>2
  <2> HIDE DEF q
  <2>2. p <= q /\ q <= p /\ p \in Nat /\ q \in Nat
    BY <1>1, <2>1
  <2>3. p = q
    BY <2>2
  <2> QED BY <2>3 DEF q
<1> HIDE DEF at, c
<1>5. \A p \in places : list[p] \in S
  OBVIOUS
<1>6. EntriesAt(list, places) \in [1..c -> S]
  BY <1>2, <1>3, <1>5
<1>7. EntriesAt(list, places) \in Seq(S) /\ Len(EntriesAt(list, places)) = c
  BY <1>1, <1>6
<1> QED BY <1>1, <1>2, <1>3, <1>4, <1>7 DEF c

\* A sorted list is in ascending order and has the same entries, as often.
LEMMA SortedFacts ==
  ASSUME NEW list \in Seq(Nat)
  PROVE  /\ Sorted(list) \in Seq(Nat) /\ Len(Sorted(list)) = Len(list)
         /\ \A k, l \in 1..Len(list) : k <= l => Sorted(list)[k] <= Sorted(list)[l]
         /\ \E from \in [1..Len(list) -> 1..Len(list)] :
              /\ \A k \in 1..Len(list) : Sorted(list)[k] = list[from[k]]
              /\ \A k, l \in 1..Len(list) : from[k] = from[l] => k = l
         /\ \A p \in 1..Len(list) : \E k \in 1..Len(list) : Sorted(list)[k] = list[p]
<1> DEFINE D == 1..Len(list)
           before(p, q) == list[p] < list[q] \/ (list[p] = list[q] /\ p <= q)
           R == {pq \in D \X D : before(pq[1], pq[2])}
           num == [p \in D |-> Rank(list, p)]
           at(k) == CHOOSE p \in D : Rank(list, p) = k
<1>1. /\ Len(list) \in Nat /\ DOMAIN list = D /\ \A p \in D : list[p] \in Nat /\ p \in Nat
  OBVIOUS
<1>2. IsFiniteSet(D) /\ Cardinality(D) = Len(list)
  BY <1>1, FS_Interval
<1>3. \A p, q \in D : <<p, q>> \in R <=> before(p, q)
  OBVIOUS
<1>4. ASSUME NEW p \in D
      PROVE  num[p] = Cardinality({q \in D : <<q, p>> \in R})
  <2>1. {q \in D : <<q, p>> \in R} = {q \in D : before(q, p)}
    BY <1>3
  <2> QED BY <1>1, <2>1 DEF Rank
<1>5. \A p \in D : num[p] = Rank(list, p)
  OBVIOUS
<1>6. Sorted(list) = [k \in D |-> list[at(k)]]
  BY <1>1 DEF Sorted
<1>7. /\ \A p, q \in D : before(p, q) \/ before(q, p)
      /\ \A p, q \in D : before(p, q) /\ before(q, p) => p = q
      /\ \A p, q, r \in D : before(p, q) /\ before(q, r) => before(p, r)
      /\ \A p, q \in D : before(p, q) => list[p] <= list[q]
  BY <1>1
<1> HIDE DEF D, R, num, before
<1>8. /\ \A p, q \in D : <<p, q>> \in R \/ <<q, p>> \in R
      /\ \A p, q \in D : <<p, q>> \in R /\ <<q, p>> \in R => p = q
      /\ \A p, q, r \in D : <<p, q>> \in R /\ <<q, r>> \in R => <<p, r>> \in R
  BY <1>3, <1>7
<1>9. /\ \A p \in D : num[p] \in 1..Cardinality(D)
      /\ \A p, q \in D : num[p] <= num[q] <=> <<p, q>> \in R
      /\ \A k \in 1..Cardinality(D) : \E p \in D : num[p] = k
  BY <1>2, <1>4, <1>8, TotalOrderNumbers
<1>10. \A k \in D : at(k) \in D /\ num[at(k)] = k
  BY <1>2, <1>5, <1>9 DEF D
<1>11. \A p \in D : num[p] \in D /\ at(num[p]) = p
  <2> SUFFICES ASSUME NEW p \in D PROVE num[p] \in D /\ at(num[p]) = p
    OBVIOUS
  <2> DEFINE q == at(num[p])
  <2>1. num[p] \in D
    BY <1>2, <1>9 DEF D
  <2>2. q \in D /\ num[q] = num[p] /\ num[p] \in Nat
    BY <1>1, <1>10, <2>1
  <2> HIDE DEF q
  <2>3. <<p, q>> \in R /\ <<q, p>> \in R
    BY <1>9, <2>2
  <2>4. p = q
    BY <1>8, <2>2, <2>3
  <2> QED BY <2>1, <2>4 DEF q
<1> HIDE DEF at
<1>12. \A k \in D : Sorted(list)[k] = list[at(k)]
  BY <1>6
<1>13. Sorted(list) \in Seq(Nat) /\ Len(Sorted(list)) = Len(list)
  <2>1. Sorted(list) \in [D -> Nat]
    BY <1>1, <1>6, <1>10
  <2> QED BY <1>1, <2>1 DEF D
<1>14. ASSUME NEW k \in D, NEW l \in D, k <= l
       PROVE  Sorted(list)[k] <= Sorted(list)[l]
  <2>1. <<at(k), at(l)>> \in R
    BY <1>9, <1>10, <1>14
  <2> QED BY <1>3, <1>7, <1>10, <1>12, <2>1
<1>15. \E from \in [D -> D] :
         /\ \A k \in D : Sorted(list)[k] = list[from[k]]
         /\ \A k, l \in D : from[k] = from[l] => k = l
  <2> DEFINE from == [k \in D |-> at(k)]
  <2>1. from \in [D -> D]
    BY <1>10
  <2>2. \A k, l \in D : at(k) = at(l) => k = l
    BY <1>10
  <2>3. \A k \in D : Sorted(list)[k] = list[at(k)]
    BY <1>12
  <2>4. \A k \in D : from[k] = at(k)
    OBVIOUS
  <2> HIDE DEF from
  <2> QED BY <2>1, <2>2, <2>3, <2>4
<1>16. \A p \in D : \E k \in D : Sorted(list)[k] = list[p]
  BY <1>11, <1>12
<1> QED BY <1>13, <1>14, <1>15, <1>16 DEF D

-----------------------------------------------------------------------------
(* Merkle trees *)

IsList(s) == Len(s) \in Nat /\ s = [i \in 1..Len(s) |-> s[i]]

Distinct(s) == \A i, j \in 1..Len(s) : s[i] = s[j] => i = j

IsLeaf(h) == \E k, v : h = hashLeaf(k, v)

IsPair(h) == \E x, y : h = hashPair(x, y)

LEMMA LeafOrPair ==
  ASSUME NEW h
  PROVE  /\ ~(IsLeaf(h) /\ IsPair(h))
         /\ IsLeaf(h) \/ IsPair(h) => h # << >>
  BY DEF IsLeaf, IsPair, hashLeaf, hashPair

LEMMA ListOf ==
  ASSUME NEW k \in Nat, NEW s, s = [i \in 1..k |-> s[i]]
  PROVE  IsList(s) /\ Len(s) = k
<1> DEFINE S == {s[i] : i \in 1..k}
<1>1. s \in [1..k -> S]
  OBVIOUS
<1> HIDE DEF S
<1>2. Len(s) = k
  BY <1>1
<1> QED BY <1>2 DEF IsList

LEMMA NextLevelFacts ==
  ASSUME NEW c, IsList(c)
  PROVE  /\ IsList(NextLevel(c)) /\ Len(NextLevel(c)) = (Len(c) + 1) \div 2
         /\ \A i \in 1..((Len(c) + 1) \div 2) :
              /\ 2 * i - 1 \in 1..Len(c)
              /\ IF 2 * i <= Len(c)
                 THEN 2 * i \in 1..Len(c)
                      /\ NextLevel(c)[i] = hashPair(c[2 * i - 1], c[2 * i])
                 ELSE 2 * i - 1 = Len(c)
                      /\ NextLevel(c)[i] = hashPair(c[2 * i - 1], c[2 * i - 1])
<1> DEFINE k == (Len(c) + 1) \div 2
<1>1. Len(c) \in Nat
  BY DEF IsList
<1>2. k \in Nat
  BY <1>1
<1>3. NextLevel(c) = [i \in 1..k |->
        hashPair(c[2 * i - 1], c[IF 2 * i <= Len(c) THEN 2 * i ELSE 2 * i - 1])]
  BY DEF NextLevel
<1>4. ASSUME NEW i \in 1..k
      PROVE  /\ 2 * i - 1 \in 1..Len(c)
             /\ 2 * i <= Len(c) => 2 * i \in 1..Len(c)
             /\ ~(2 * i <= Len(c)) => 2 * i - 1 = Len(c)
  BY <1>1
<1> HIDE DEF k
<1>5. IsList(NextLevel(c)) /\ Len(NextLevel(c)) = k
  <2>1. NextLevel(c) = [i \in 1..k |-> NextLevel(c)[i]]
    BY <1>3
  <2> QED BY <1>2, <2>1, ListOf
<1> QED BY <1>3, <1>4, <1>5 DEF k

LEMMA PairsAreFree ==
  ASSUME NEW a, NEW b, NEW c, NEW d, hashPair(a, b) = hashPair(c, d)
  PROVE  a = c /\ b = d
  BY DEF hashPair

LEMMA NextLevelIsDistinct ==
  ASSUME NEW c, IsList(c), Distinct(c)
  PROVE  Distinct(NextLevel(c))
<1> DEFINE k == (Len(c) + 1) \div 2
<1> SUFFICES ASSUME NEW i \in 1..k, NEW j \in 1..k, NextLevel(c)[i] = NextLevel(c)[j]
             PROVE  i = j
  BY NextLevelFacts DEF Distinct
<1>1. \A l \in 1..k : /\ 2 * l - 1 \in 1..Len(c)
                      /\ \E x : NextLevel(c)[l] = hashPair(c[2 * l - 1], x)
  BY NextLevelFacts
<1>2. c[2 * i - 1] = c[2 * j - 1]
  <2>1. PICK x : NextLevel(c)[i] = hashPair(c[2 * i - 1], x)
    BY <1>1
  <2>2. PICK y : NextLevel(c)[j] = hashPair(c[2 * j - 1], y)
    BY <1>1
  <2>3. hashPair(c[2 * i - 1], x) = hashPair(c[2 * j - 1], y)
    BY <2>1, <2>2
  <2> QED BY <2>3, PairsAreFree
<1>3. 2 * i - 1 = 2 * j - 1
  BY <1>1, <1>2 DEF Distinct
<1>4. Len(c) \in Nat
  BY DEF IsList
<1> QED BY <1>3, <1>4

LEMMA FirstIsPair ==
  ASSUME NEW c, IsList(c), Len(c) > 1
  PROVE  IsPair(NextLevel(c)[1])
<1> DEFINE n == Len(c)
<1>1. n \in Nat /\ n > 1
  BY DEF IsList
<1>2. \A i \in 1..((n + 1) \div 2) : \E x, y : NextLevel(c)[i] = hashPair(x, y)
  BY NextLevelFacts
<1> HIDE DEF n
<1>3. 1 \in 1..((n + 1) \div 2)
  BY <1>1
<1> QED BY <1>2, <1>3 DEF IsPair

\* No two lists of hashes that are all different have the same next level: one
\* that is odd repeats its last hash, and the other has no two that are equal.
LEMMA NextLevelTellsApart ==
  ASSUME NEW c, NEW d, IsList(c), IsList(d), Distinct(c), Distinct(d),
         NextLevel(c) = NextLevel(d)
  PROVE  c = d
<1> DEFINE k == (Len(c) + 1) \div 2
<1>1. /\ Len(c) \in Nat /\ Len(d) \in Nat
      /\ (Len(c) + 1) \div 2 = (Len(d) + 1) \div 2
  BY NextLevelFacts DEF IsList
<1>2. ASSUME NEW i \in 1..k
      PROVE  /\ c[2 * i - 1] = d[2 * i - 1]
             /\ 2 * i <= Len(c) <=> 2 * i <= Len(d)
             /\ 2 * i <= Len(c) => c[2 * i] = d[2 * i]
  <2>1. /\ i \in 1..((Len(c) + 1) \div 2) /\ i \in 1..((Len(d) + 1) \div 2)
        /\ i \in Nat /\ 2 * i - 1 # 2 * i
    BY <1>1
  <2>2. /\ 2 * i - 1 \in 1..Len(c)
        /\ IF 2 * i <= Len(c)
           THEN 2 * i \in 1..Len(c)
                /\ NextLevel(c)[i] = hashPair(c[2 * i - 1], c[2 * i])
           ELSE 2 * i - 1 = Len(c)
                /\ NextLevel(c)[i] = hashPair(c[2 * i - 1], c[2 * i - 1])
    BY <2>1, NextLevelFacts
  <2>3. /\ 2 * i - 1 \in 1..Len(d)
        /\ IF 2 * i <= Len(d)
           THEN 2 * i \in 1..Len(d)
                /\ NextLevel(d)[i] = hashPair(d[2 * i - 1], d[2 * i])
           ELSE 2 * i - 1 = Len(d)
                /\ NextLevel(d)[i] = hashPair(d[2 * i - 1], d[2 * i - 1])
    BY <2>1, NextLevelFacts
  <2>4. CASE 2 * i <= Len(c) /\ 2 * i <= Len(d)
    BY <2>2, <2>3, <2>4, PairsAreFree
  <2>5. CASE ~(2 * i <= Len(c)) /\ ~(2 * i <= Len(d))
    BY <2>2, <2>3, <2>5, PairsAreFree
  <2>6. CASE 2 * i <= Len(c) /\ ~(2 * i <= Len(d))
    <3>1. c[2 * i - 1] = d[2 * i - 1] /\ c[2 * i] = d[2 * i - 1]
      BY <2>2, <2>3, <2>6, PairsAreFree
    <3> QED BY <2>1, <2>2, <2>6, <3>1 DEF Distinct
  <2>7. CASE ~(2 * i <= Len(c)) /\ 2 * i <= Len(d)
    <3>1. d[2 * i - 1] = c[2 * i - 1] /\ d[2 * i] = c[2 * i - 1]
      BY <2>2, <2>3, <2>7, PairsAreFree
    <3> QED BY <2>1, <2>3, <2>7, <3>1 DEF Distinct
  <2> QED BY <2>4, <2>5, <2>6, <2>7
<1>3. \A p \in 1..Len(c) : \E i \in 1..k : p = 2 * i - 1 \/ (p = 2 * i /\ 2 * i <= Len(c))
  <2> SUFFICES ASSUME NEW p \in 1..Len(c)
               PROVE  \E i \in 1..k : p = 2 * i - 1 \/ (p = 2 * i /\ 2 * i <= Len(c))
    OBVIOUS
  <2>1. (p + 1) \div 2 \in 1..k
    BY <1>1
  <2>2. p = 2 * ((p + 1) \div 2) - 1 \/ p = 2 * ((p + 1) \div 2)
    BY <1>1
  <2> QED BY <1>1, <2>1, <2>2
<1>4. \A p \in 1..Len(c) : c[p] = d[p]
  BY <1>2, <1>3
<1>5. Len(c) = Len(d)
  <2>1. CASE k = 0
    BY <1>1, <2>1
  <2>2. CASE k # 0
    <3>1. k \in 1..k
      BY <1>1, <2>2
    <3>2. 2 * k <= Len(c) <=> 2 * k <= Len(d)
      BY <1>2, <3>1
    <3> QED BY <1>1, <2>2, <3>2
  <2> QED BY <2>1, <2>2
<1> QED BY <1>4, <1>5 DEF IsList

-----------------------------------------------------------------------------
\* buildTree's levels: the leaves, and so on up to the first level that has
\* one hash at most.
LEMMA LevelsFacts ==
  ASSUME NEW leaves, IsList(leaves), Distinct(leaves)
  PROVE  LET t == buildTree(leaves)  n == Len(buildTree(leaves)) IN
         /\ IsList(t) /\ n >= 1 /\ t[1] = leaves
         /\ \A l \in 1..n : IsList(t[l]) /\ Distinct(t[l])
         /\ \A l \in 1..(n - 1) : Len(t[l]) > 1 /\ t[l + 1] = NextLevel(t[l])
         /\ Len(t[n]) <= 1 /\ (Len(leaves) # 0 => Len(t[n]) = 1)
<1> DEFINE N == Len(leaves)
           Levels(f, m) == f = [l \in 0..m |-> IF l = 0 THEN leaves ELSE NextLevel(f[l - 1])]
           level == CHOOSE f : Levels(f, N)
           Tops == {l \in 0..N : Len(level[l]) <= 1}
           IsTop(l) == Len(level[l]) <= 1 /\ \A m \in 0..(l - 1) : Len(level[m]) > 1
           top == CHOOSE l \in 0..N : IsTop(l)
<1>1. N \in Nat
  BY DEF IsList
<1>2. ASSUME NEW m \in Nat
      PROVE  \E f : Levels(f, m)
  <2> DEFINE Bad == {l \in Nat : ~ \E f : Levels(f, l)}
  <2> SUFFICES ASSUME Bad # {} PROVE FALSE
    BY DEF Bad
  <2>1. PICK l \in Bad : \A o \in Bad : l <= o
    BY LeastNatural
  <2>2. CASE l = 0
    <3>1. Levels([o \in 0..0 |-> leaves], 0)
      OBVIOUS
    <3> QED BY <2>1, <2>2, <3>1
  <2>3. CASE l # 0
    <3>1. l - 1 \in Nat /\ ~(l <= l - 1)
      BY <2>1, <2>3
    <3>2. l - 1 \notin Bad
      <4> HIDE DEF Bad
      <4> QED BY <2>1, <3>1
    <3>3. PICK f : Levels(f, l - 1)
      BY <3>1, <3>2
    <3> DEFINE g == [o \in 0..l |-> IF o = 0 THEN leaves ELSE NextLevel(f[o - 1])]
    <3>4. \A o \in 0..(l - 1) : g[o] = f[o]
      BY <2>1, <3>1, <3>3
    <3>5. \A o \in 0..l : o # 0 => o - 1 \in 0..(l - 1)
      BY <2>1
    <3>6. Levels(g, l)
      <4>1. \A o \in 0..l : o # 0 => g[o - 1] = f[o - 1]
        BY <3>4, <3>5
      <4> QED BY <4>1
    <3> QED BY <2>1, <3>6
  <2> QED BY <2>2, <2>3
<1>3. Levels(level, N)
  BY <1>1, <1>2
<1>4. buildTree(leaves) = [n \in 1..(top + 1) |-> level[n - 1]]
  BY DEF buildTree
<1> HIDE DEF level
<1>5. level[0] = leaves /\ \A l \in 0..N : l # 0 => level[l] = NextLevel(level[l - 1])
  BY <1>1, <1>3
<1> HIDE DEF Levels
\* Every level is a list of hashes that are all different, and shorter than
\* the one before until there is only one.
<1>6. ASSUME NEW m \in 0..N
      PROVE  /\ IsList(level[m]) /\ Distinct(level[m])
             /\ Len(level[m]) <= 1 \/ Len(level[m]) + m <= N
             /\ N # 0 => Len(level[m]) >= 1
  <2> DEFINE Good(l) == /\ IsList(level[l]) /\ Distinct(level[l])
                        /\ Len(level[l]) <= 1 \/ Len(level[l]) + l <= N
                        /\ N # 0 => Len(level[l]) >= 1
             Bad == {l \in 0..N : ~Good(l)}
  <2> SUFFICES ASSUME Bad # {} PROVE FALSE
    OBVIOUS
  <2>1. PICK l \in Bad : \A o \in Bad : l <= o
    <3>1. Bad \subseteq Nat
      OBVIOUS
    <3> HIDE DEF Bad
    <3> QED BY <3>1, LeastNatural
  <2>3. CASE l = 0
    BY <1>1, <1>5, <2>1, <2>3
  <2>4. CASE l # 0
    <3>1. l - 1 \in 0..N /\ l - 1 \notin Bad /\ l \in 0..N
      BY <1>1, <2>1, <2>4
    <3>2. Good(l - 1)
      BY <3>1
    <3>3. level[l] = NextLevel(level[l - 1])
      BY <1>5, <2>4, <3>1
    <3> DEFINE c == level[l - 1]
    <3>4. /\ IsList(c) /\ Distinct(c)
          /\ Len(c) <= 1 \/ Len(c) + (l - 1) <= N
          /\ N # 0 => Len(c) >= 1
      BY <3>2
    <3> HIDE DEF c
    <3>5. /\ IsList(NextLevel(c)) /\ Distinct(NextLevel(c))
          /\ Len(NextLevel(c)) = (Len(c) + 1) \div 2
      <4>1. Distinct(NextLevel(c))
        BY <3>4, NextLevelIsDistinct
      <4> QED BY <3>4, <4>1, NextLevelFacts
    <3>6. Len(c) \in Nat
      BY <3>4 DEF IsList
    <3>7. /\ Len(NextLevel(c)) <= 1 \/ Len(NextLevel(c)) + l <= N
          /\ N # 0 => Len(NextLevel(c)) >= 1
      BY <1>1, <3>1, <3>4, <3>5, <3>6
    <3>8. Good(l)
      BY <3>3, <3>5, <3>7 DEF c
    <3> QED BY <2>1, <3>8
  <2> QED BY <2>3, <2>4
<1>6a. \A m \in 0..N : Len(level[m]) \in Nat
  BY <1>6 DEF IsList
<1>7. top \in 0..N /\ IsTop(top)
  <2>1. N \in Tops /\ Tops \subseteq Nat
    <3>1. N \in 0..N
      BY <1>1
    <3>2. Len(level[N]) <= 1
      BY <1>1, <1>6, <1>6a, <3>1
    <3> QED BY <3>1, <3>2
  <2> HIDE DEF Tops
  <2>2. PICK l \in Tops : \A o \in Tops : l <= o
    BY <2>1, LeastNatural
  <2>3. l \in 0..N /\ IsTop(l)
    <3>1. \A m \in 0..(l - 1) : m \in 0..N /\ m \notin Tops /\ Len(level[m]) \in Nat
      BY <1>1, <1>6a, <2>1, <2>2 DEF Tops
    <3> QED BY <2>2, <3>1 DEF Tops
  <2> QED BY <2>3
<1> HIDE DEF top
<1>8. IsList(buildTree(leaves)) /\ Len(buildTree(leaves)) = top + 1
  <2>1. buildTree(leaves) = [n \in 1..(top + 1) |-> buildTree(leaves)[n]]
    BY <1>4
  <2> QED BY <1>7, <2>1, ListOf
<1>9. \A n \in 1..(top + 1) : n - 1 \in 0..N /\ buildTree(leaves)[n] = level[n - 1]
  BY <1>1, <1>4, <1>7
<1>10. \A n \in 1..top : /\ n \in 1..(top + 1) /\ n + 1 \in 1..(top + 1) /\ n \in 0..N
                         /\ n # 0 /\ n + 1 - 1 = n /\ n - 1 \in 0..(top - 1)
  BY <1>1, <1>7
<1>11. /\ top + 1 \in 1..(top + 1) /\ 1 \in 1..(top + 1) /\ top + 1 - 1 = top
       /\ top + 1 >= 1
  BY <1>7
<1>12. Len(level[top]) <= 1 /\ (Len(leaves) # 0 => Len(level[top]) = 1)
  <2> DEFINE k == Len(level[top])
  <2>1. k <= 1 /\ k \in Nat
    BY <1>6a, <1>7
  <2>2. N # 0 => k >= 1
    BY <1>6, <1>7
  <2> HIDE DEF k
  <2>3. k <= 1 /\ (N # 0 => k = 1)
    BY <1>1, <2>1, <2>2
  <2> QED BY <2>3 DEF k
<1>13. \A n \in 1..top : /\ Len(buildTree(leaves)[n]) > 1
                         /\ buildTree(leaves)[n + 1] = NextLevel(buildTree(leaves)[n])
  <2> SUFFICES ASSUME NEW n \in 1..top
               PROVE  /\ Len(buildTree(leaves)[n]) > 1
                      /\ buildTree(leaves)[n + 1] = NextLevel(buildTree(leaves)[n])
    OBVIOUS
  <2>1. /\ n \in 1..(top + 1) /\ n + 1 \in 1..(top + 1) /\ n \in 0..N
        /\ n # 0 /\ n + 1 - 1 = n /\ n - 1 \in 0..(top - 1)
    BY <1>10
  <2>2. buildTree(leaves)[n] = level[n - 1] /\ buildTree(leaves)[n + 1] = level[n]
    BY <1>9, <2>1
  <2>3. Len(level[n - 1]) > 1
    BY <1>7, <2>1
  <2> QED BY <1>5, <2>1, <2>2, <2>3
<1> DEFINE t == buildTree(leaves)
           n == Len(t)
<1>14. /\ IsList(t) /\ n = top + 1 /\ n >= 1 /\ t[1] = leaves /\ n - 1 = top
       /\ Len(t[n]) <= 1 /\ (Len(leaves) # 0 => Len(t[n]) = 1)
  <2>1. IsList(t) /\ n = top + 1
    BY <1>8
  <2> HIDE DEF n
  <2>2. n >= 1 /\ n - 1 = top
    BY <1>7, <2>1
  <2>3. t[1] = leaves /\ t[top + 1] = level[top]
    <3>1. \A l \in 1..(top + 1) : t[l] = level[l - 1]
      BY <1>9
    <3> HIDE DEF t
    <3>2. t[1] = level[1 - 1]
      BY <1>11, <3>1
    <3>3. t[top + 1] = level[top + 1 - 1]
      BY <1>1, <1>7, <1>11, <3>1
    <3>4. 1 - 1 = 0
      OBVIOUS
    <3> QED BY <1>5, <1>11, <3>2, <3>3, <3>4
  <2> QED BY <1>12, <2>1, <2>2, <2>3
<1>15. \A l \in 1..n : IsList(t[l]) /\ Distinct(t[l])
  BY <1>6, <1>9, <1>14
<1>16. \A l \in 1..(n - 1) : Len(t[l]) > 1 /\ t[l + 1] = NextLevel(t[l])
  BY <1>13, <1>14
<1> HIDE DEF t, n
<1> QED BY <1>14, <1>15, <1>16 DEF t, n

-----------------------------------------------------------------------------
\* No two trees have the same root, if their leaves are all different and none
\* is a pair.
LEMMA RootTellsApart ==
  ASSUME NEW a, NEW b, IsList(a), IsList(b), Distinct(a), Distinct(b),
         \A i \in 1..Len(a) : IsLeaf(a[i]), \A i \in 1..Len(b) : IsLeaf(b[i]),
         Len(a) # 0, Len(b) # 0,
         buildTree(a)[Len(buildTree(a))][1] = buildTree(b)[Len(buildTree(b))][1]
  PROVE  a = b
<1> DEFINE s == buildTree(a)
           t == buildTree(b)
           m == Len(s)
           n == Len(t)
<1>1. /\ m \in Nat \ {0} /\ s[1] = a
      /\ \A l \in 1..m : IsList(s[l]) /\ Distinct(s[l])
      /\ \A l \in 1..(m - 1) : Len(s[l]) > 1 /\ s[l + 1] = NextLevel(s[l])
      /\ Len(s[m]) = 1
  BY LevelsFacts DEF IsList
<1>2. /\ n \in Nat \ {0} /\ t[1] = b
      /\ \A l \in 1..n : IsList(t[l]) /\ Distinct(t[l])
      /\ \A l \in 1..(n - 1) : Len(t[l]) > 1 /\ t[l + 1] = NextLevel(t[l])
      /\ Len(t[n]) = 1
  BY LevelsFacts DEF IsList
<1>3. s[m][1] = t[n][1]
  OBVIOUS
<1> HIDE DEF s, t, m, n
\* From the roots down the levels are the same.
<1>4. ASSUME NEW d \in Nat, d < m, d < n
      PROVE  s[m - d] = t[n - d]
  <2> DEFINE Bad == {e \in Nat : e < m /\ e < n /\ s[m - e] # t[n - e]}
  <2> SUFFICES ASSUME Bad # {} PROVE FALSE
    BY <1>4
  <2>1. PICK e \in Bad : \A f \in Bad : e <= f
    BY LeastNatural
  <2>2. CASE e = 0
    <3>0. m \in 1..m /\ n \in 1..n /\ m - 0 = m /\ n - 0 = n
      BY <1>1, <1>2
    <3>1. IsList(s[m]) /\ IsList(t[n]) /\ m - 0 = m /\ n - 0 = n
      BY <1>1, <1>2, <3>0
    <3>2. s[m] = t[n]
      BY <1>1, <1>2, <1>3, <3>1 DEF IsList
    <3> QED BY <2>1, <2>2, <3>1, <3>2
  <2>3. CASE e # 0
    <3>1. /\ e \in Nat /\ e < m /\ e < n /\ s[m - e] # t[n - e]
          /\ e - 1 \in Nat /\ e - 1 < m /\ e - 1 < n /\ ~(e <= e - 1)
      BY <1>1, <1>2, <2>1, <2>3
    <3>2. s[m - (e - 1)] = t[n - (e - 1)]
      BY <2>1, <3>1
    <3>3. /\ m - e \in 1..(m - 1) /\ n - e \in 1..(n - 1)
          /\ m - e \in 1..m /\ n - e \in 1..n
          /\ m - (e - 1) = m - e + 1 /\ n - (e - 1) = n - e + 1
      BY <1>1, <1>2, <2>3, <3>1
    <3>4. NextLevel(s[m - e]) = NextLevel(t[n - e])
      BY <1>1, <1>2, <3>2, <3>3
    <3>5. /\ IsList(s[m - e]) /\ Distinct(s[m - e])
          /\ IsList(t[n - e]) /\ Distinct(t[n - e])
      BY <1>1, <1>2, <3>3
    <3>6. s[m - e] = t[n - e]
      BY <3>4, <3>5, NextLevelTellsApart
    <3> QED BY <3>1, <3>6
  <2> QED BY <2>2, <2>3
\* A pair is no leaf, so the leaves are reached together.
<1>5. \A l \in 1..(m - 1) : IsPair(s[l + 1][1])
  <2> SUFFICES ASSUME NEW l \in 1..(m - 1) PROVE IsPair(s[l + 1][1])
    OBVIOUS
  <2>1. l \in 1..m /\ s[l + 1] = NextLevel(s[l]) /\ Len(s[l]) > 1 /\ IsList(s[l])
    BY <1>1
  <2> QED BY <2>1, FirstIsPair
<1>6. \A l \in 1..(n - 1) : IsPair(t[l + 1][1])
  <2> SUFFICES ASSUME NEW l \in 1..(n - 1) PROVE IsPair(t[l + 1][1])
    OBVIOUS
  <2>1. l \in 1..n /\ t[l + 1] = NextLevel(t[l]) /\ Len(t[l]) > 1 /\ IsList(t[l])
    BY <1>2
  <2> QED BY <2>1, FirstIsPair
<1>7. ~IsPair(a[1]) /\ ~IsPair(b[1])
  BY LeafOrPair DEF IsList
<1>8. CASE m = n
  <2>1. m - 1 \in Nat /\ m - 1 < m /\ m - 1 < n /\ m - (m - 1) = 1 /\ n - (m - 1) = 1
    BY <1>1, <1>8
  <2>2. s[m - (m - 1)] = t[n - (m - 1)]
    BY <1>4, <2>1
  <2> QED BY <1>1, <1>2, <2>1, <2>2
<1>9. CASE m < n
  <2>1. /\ m - 1 \in Nat /\ m - 1 < m /\ m - 1 < n /\ m - (m - 1) = 1
        /\ n - (m - 1) = (n - m) + 1 /\ n - m \in 1..(n - 1)
    BY <1>1, <1>2, <1>9
  <2>2. a = t[n - m + 1]
    BY <1>1, <1>4, <2>1
  <2> QED BY <1>6, <1>7, <2>1, <2>2
<1>10. CASE n < m
  <2>1. /\ n - 1 \in Nat /\ n - 1 < m /\ n - 1 < n /\ n - (n - 1) = 1
        /\ m - (n - 1) = (m - n) + 1 /\ m - n \in 1..(m - 1)
    BY <1>1, <1>2, <1>10
  <2>2. s[m - n + 1] = b
    BY <1>2, <1>4, <2>1
  <2> QED BY <1>5, <1>7, <2>1, <2>2
<1> QED BY <1>1, <1>2, <1>8, <1>9, <1>10

-----------------------------------------------------------------------------
\* The leaves of a tree, and that each is found with its key.
LEMMA TreeFacts ==
  ASSUME NEW S, NEW order \in Seq(S), Distinct(order),
         NEW data, DOMAIN data \subseteq Range(order)
  PROVE  LET mt == NewMerkleTree(data, order) IN
         /\ IsList(mt.leaves) /\ Distinct(mt.leaves)
         /\ mt.levels = buildTree(mt.leaves)
         /\ \A i \in 1..Len(mt.leaves) : IsLeaf(mt.leaves[i])
         /\ Range(mt.leaves) = {hashLeaf(k, data[k]) : k \in DOMAIN data}
         /\ DOMAIN mt.keyMap = Range(mt.leaves)
         /\ \A k \in DOMAIN data : mt.keyMap[hashLeaf(k, data[k])] = k
<1> DEFINE places == {i \in DOMAIN order : order[i] \in DOMAIN data}
           keys == EntriesAt(order, places)
           c == Cardinality(places)
           leaves == [i \in DOMAIN keys |-> hashLeaf(keys[i], data[keys[i]])]
           mt == NewMerkleTree(data, order)
<1>1. /\ mt.leaves = leaves /\ mt.levels = buildTree(leaves)
      /\ mt.keyMap = [h \in Range(leaves) |->
                        CHOOSE k \in DOMAIN data : h = hashLeaf(k, data[k])]
  BY DEF NewMerkleTree
<1> HIDE DEF mt
<1>2. /\ DOMAIN order = 1..Len(order) /\ Range(order) = {order[i] : i \in DOMAIN order}
      /\ places \in SUBSET (1..Len(order))
  BY DEF Range
<1>3. /\ \A k \in DOMAIN data : \E p \in places : order[p] = k
      /\ \A p \in places : order[p] \in DOMAIN data
  BY <1>2
<1>4. \A p, q \in places : order[p] = order[q] => p = q
  BY <1>2 DEF Distinct
<1> HIDE DEF places
<1>5. /\ keys \in Seq(S) /\ Len(keys) = c /\ c \in Nat
      /\ \A i \in 1..c : \E p \in places : PlaceAmong(p, places) = i /\ keys[i] = order[p]
      /\ \A p \in places :
           PlaceAmong(p, places) \in 1..c /\ keys[PlaceAmong(p, places)] = order[p]
  BY <1>2, EntriesAtFacts
<1> HIDE DEF keys, c
<1>6. DOMAIN keys = 1..c
  BY <1>5
<1>7. /\ \A i \in 1..c : keys[i] \in DOMAIN data
      /\ \A k \in DOMAIN data : \E i \in 1..c : keys[i] = k
  BY <1>3, <1>5
<1>8. \A i, j \in 1..c : keys[i] = keys[j] => i = j
  <2> SUFFICES ASSUME NEW i \in 1..c, NEW j \in 1..c, keys[i] = keys[j] PROVE i = j
    OBVIOUS
  <2>1. PICK p \in places : PlaceAmong(p, places) = i /\ keys[i] = order[p]
    BY <1>5
  <2>2. PICK q \in places : PlaceAmong(q, places) = j /\ keys[j] = order[q]
    BY <1>5
  <2> QED BY <1>4, <2>1, <2>2
<1>9. IsList(leaves) /\ Len(leaves) = c
  <2>1. leaves = [i \in 1..c |-> leaves[i]]
    BY <1>6
  <2> HIDE DEF leaves
  <2> QED BY <1>5, <2>1, ListOf
<1>10. \A i \in 1..c : leaves[i] = hashLeaf(keys[i], data[keys[i]])
  BY <1>6
<1>11. Range(leaves) = {leaves[i] : i \in 1..c}
  BY <1>6 DEF Range
<1> HIDE DEF leaves
<1>12. \A k, l, v, w : hashLeaf(k, v) = hashLeaf(l, w) => k = l
  BY DEF hashLeaf
<1>13. Distinct(leaves)
  BY <1>8, <1>9, <1>10, <1>12 DEF Distinct
<1>14. Range(leaves) = {hashLeaf(k, data[k]) : k \in DOMAIN data}
  BY <1>7, <1>10, <1>11
<1>15. \A i \in 1..c : IsLeaf(leaves[i])
  BY <1>10 DEF IsLeaf
<1>16. \A k \in DOMAIN data : mt.keyMap[hashLeaf(k, data[k])] = k
  <2> SUFFICES ASSUME NEW k \in DOMAIN data PROVE mt.keyMap[hashLeaf(k, data[k])] = k
    OBVIOUS
  <2> DEFINE h == hashLeaf(k, data[k])
  <2>1. h \in Range(leaves) /\ \A l \in DOMAIN data : h = hashLeaf(l, data[l]) => l = k
    BY <1>12, <1>14
  <2> HIDE DEF h
  <2>2. mt.keyMap[h] = CHOOSE l \in DOMAIN data : h = hashLeaf(l, data[l])
    BY <1>1, <2>1
  <2>3. k \in DOMAIN data /\ h = hashLeaf(k, data[k])
    BY DEF h
  <2> QED BY <2>1, <2>2, <2>3
<1> QED BY <1>1, <1>9, <1>13, <1>14, <1>15, <1>16 DEF mt

\* The root, and that only a tree without leaves has none.
LEMMA RootFacts ==
  ASSUME NEW a, IsList(a), Distinct(a), \A i \in 1..Len(a) : IsLeaf(a[i]),
         NEW mt, mt.levels = buildTree(a)
  PROVE  IF Len(a) = 0 THEN Root(mt) = << >> /\ a = << >>
         ELSE Root(mt) # << >> /\ Root(mt) = buildTree(a)[Len(buildTree(a))][1]
<1> DEFINE s == buildTree(a)
           m == Len(s)
           top == s[m]
<1>1. /\ m \in Nat \ {0} /\ s[1] = a
      /\ \A l \in 1..m : IsList(s[l]) /\ Distinct(s[l])
      /\ \A l \in 1..(m - 1) : Len(s[l]) > 1 /\ s[l + 1] = NextLevel(s[l])
      /\ Len(a) # 0 => Len(s[m]) = 1
  BY LevelsFacts DEF IsList
<1>2. Last(mt.levels) = top
  BY DEF Last
<1> HIDE DEF s, m
<1>3. CASE Len(a) = 0
  <2>1. a = << >>
    BY <1>3 DEF IsList
  <2>2. m = 1
    <3> SUFFICES ASSUME m # 1 PROVE FALSE
      OBVIOUS
    <3>1. 1 \in 1..(m - 1)
      BY <1>1
    <3>2. Len(a) > 1
      BY <1>1, <3>1
    <3> QED BY <1>3, <3>2
  <2> QED BY <1>1, <1>2, <1>3, <2>1, <2>2 DEF Root
<1>4. CASE Len(a) # 0
  <2>1. IsLeaf(top[1]) \/ IsPair(top[1])
    <3>1. CASE m = 1
      BY <1>1, <1>4, <3>1 DEF IsList
    <3>2. CASE m # 1
      <4>1. m - 1 \in 1..(m - 1) /\ m - 1 \in 1..m /\ m - 1 + 1 = m
        BY <1>1, <3>2
      <4>2. IsPair(NextLevel(s[m - 1])[1])
        BY <1>1, <4>1, FirstIsPair
      <4> QED BY <1>1, <4>1, <4>2
    <3> QED BY <3>1, <3>2
  <2>2. top # << >>
    <3>1. Len(top) = 1 /\ Len(<< >>) = 0
      BY <1>1, <1>4
    <3> HIDE DEF top
    <3> QED BY <3>1
  <2>3. Root(mt) = top[1]
    BY <1>2, <2>2 DEF Root
  <2> QED BY <1>4, <2>1, <2>3, LeafOrPair DEF s, m
<1> QED BY <1>3, <1>4

\* What the comparison of two trees finds.
LEMMA TreesCompared ==
  ASSUME NEW S, NEW order \in Seq(S), Distinct(order), NEW dx, NEW dy,
         DOMAIN dx \subseteq Range(order), DOMAIN dy \subseteq Range(order)
  PROVE  CompareTrees(NewMerkleTree(dx, order), NewMerkleTree(dy, order)) =
           {k \in DOMAIN dx \cup DOMAIN dy :
              ~(k \in DOMAIN dx /\ k \in DOMAIN dy /\ dx[k] = dy[k])}
<1> DEFINE s == NewMerkleTree(dx, order)
           t == NewMerkleTree(dy, order)
           both(k) == k \in DOMAIN dx /\ k \in DOMAIN dy /\ dx[k] = dy[k]
           different == {k \in DOMAIN dx \cup DOMAIN dy : ~both(k)}
<1>1. /\ IsList(s.leaves) /\ Distinct(s.leaves) /\ s.levels = buildTree(s.leaves)
      /\ \A i \in 1..Len(s.leaves) : IsLeaf(s.leaves[i])
      /\ Range(s.leaves) = {hashLeaf(k, dx[k]) : k \in DOMAIN dx}
      /\ DOMAIN s.keyMap = Range(s.leaves)
      /\ \A k \in DOMAIN dx : s.keyMap[hashLeaf(k, dx[k])] = k
  BY TreeFacts
<1>2. /\ IsList(t.leaves) /\ Distinct(t.leaves) /\ t.levels = buildTree(t.leaves)
      /\ \A i \in 1..Len(t.leaves) : IsLeaf(t.leaves[i])
      /\ Range(t.leaves) = {hashLeaf(k, dy[k]) : k \in DOMAIN dy}
      /\ DOMAIN t.keyMap = Range(t.leaves)
      /\ \A k \in DOMAIN dy : t.keyMap[hashLeaf(k, dy[k])] = k
  BY TreeFacts
<1> HIDE DEF s, t
<1>3. \A k, l, v, w : hashLeaf(k, v) = hashLeaf(l, w) <=> k = l /\ v = w
  BY DEF hashLeaf
\* A leaf is the other's too where the other has the key, with the same value.
<1>4. \A k \in DOMAIN dx : hashLeaf(k, dx[k]) \in Range(t.leaves) <=> both(k)
  BY <1>2, <1>3
<1>5. \A k \in DOMAIN dy : hashLeaf(k, dy[k]) \in Range(s.leaves) <=> both(k)
  BY <1>1, <1>3
<1> HIDE DEF both
<1>6. CASE Root(s) = Root(t)
  <2>1. s.leaves = t.leaves
    <3>1. CASE Len(s.leaves) = 0 \/ Len(t.leaves) = 0
      BY <1>1, <1>2, <1>6, <3>1, RootFacts
    <3>2. CASE Len(s.leaves) # 0 /\ Len(t.leaves) # 0
      <4>1. /\ Root(s) = buildTree(s.leaves)[Len(buildTree(s.leaves))][1]
            /\ Root(t) = buildTree(t.leaves)[Len(buildTree(t.leaves))][1]
        BY <1>1, <1>2, <3>2, RootFacts
      <4> QED BY <1>1, <1>2, <1>6, <3>2, <4>1, RootTellsApart
    <3> QED BY <3>1, <3>2
  <2>2. different = {}
    BY <1>1, <1>2, <1>4, <1>5, <2>1
  <2> QED BY <1>6, <2>2 DEF CompareTrees, s, t, both
<1>7. CASE Root(s) # Root(t)
  <2> DEFINE gone == {s.keyMap[h] : h \in Range(s.leaves) \ Range(t.leaves)}
             new == {t.keyMap[h] : h \in Range(t.leaves) \ DOMAIN s.keyMap}
  <2>1. gone = {k \in DOMAIN dx : ~both(k)}
    BY <1>1, <1>4
  <2>2. new = {k \in DOMAIN dy : ~both(k)}
    BY <1>1, <1>2, <1>5
  <2>3. CompareTrees(s, t) = gone \cup new
    BY <1>7 DEF CompareTrees, findDifferingKeys
  <2> HIDE DEF gone, new
  <2>4. gone \cup new = different
    BY <2>1, <2>2
  <2> QED BY <2>3, <2>4 DEF s, t, both
<1> QED BY <1>6, <1>7

\* The trees over any keys in any order.
LEMMA TreesAreCompared ==
  ASSUME NEW S, NEW order \in Seq(S), \A i, j \in DOMAIN order : order[i] = order[j] => i = j,
         NEW none, NEW x, NEW y
  PROVE  FindsTheDifference(order, none, x, y)
<1> DEFINE all == Range(order)
           dx == [k \in {i \in all : x[i] # none} |-> x[k]]
           dy == [k \in {i \in all : y[i] # none} |-> y[k]]
<1>1. /\ DOMAIN dx = {i \in all : x[i] # none} /\ \A k \in DOMAIN dx : dx[k] = x[k]
      /\ DOMAIN dy = {i \in all : y[i] # none} /\ \A k \in DOMAIN dy : dy[k] = y[k]
  OBVIOUS
<1>2. FindsTheDifference(order, none, x, y) <=>
        CompareTrees(NewMerkleTree(dx, order), NewMerkleTree(dy, order))
          = {k \in all : x[k] # y[k]}
  BY DEF FindsTheDifference
<1> HIDE DEF dx, dy
<1>3. CompareTrees(NewMerkleTree(dx, order), NewMerkleTree(dy, order)) =
        {k \in DOMAIN dx \cup DOMAIN dy :
           ~(k \in DOMAIN dx /\ k \in DOMAIN dy /\ dx[k] = dy[k])}
  <2>1. Distinct(order)
    BY DEF Distinct
  <2> QED BY <1>1, <2>1, TreesCompared
<1>4. {k \in DOMAIN dx \cup DOMAIN dy :
         ~(k \in DOMAIN dx /\ k \in DOMAIN dy /\ dx[k] = dy[k])}
        = {k \in all : x[k] # y[k]}
  BY <1>1
<1> QED BY <1>2, <1>3, <1>4

\* However many keys there are and whatever odd levels the trees have, no two
\* sides are told another difference than there is: about buildTree, which
\* repeats the last hash of an odd level, Root, and findDifferingKeys.
LEMMA NothingIsToldWrongly == ToldWrongly = {}
<1>1. ASSUME NEW x, NEW y PROVE FindsTheDifference(TreeKeys, NoPayload, x, y)
  BY TreeKeysAreInOrder, TreesAreCompared
<1> QED BY <1>1 DEF ToldWrongly
=============================================================================
