---------------------------- MODULE MergeLemmas ----------------------------
(***************************************************************************)
(* Lemmas about which records become one and in what order: the elements   *)
(* of a set in order, the rank of records, the parts a component is taken  *)
(* into (MergeGroups), and a fold from left to right.                      *)
(***************************************************************************)
EXTENDS MergeGroups, FoldLemmas, Ordering, SequencesExt

-----------------------------------------------------------------------------
(* Orders. *)

\* A strict total order.
Orders(R, S) ==
    /\ \A p \in S : <<p, p>> \notin R
    /\ \A p, q \in S : p # q => <<p, q>> \in R \/ <<q, p>> \in R
    /\ \A p, q, r \in S : <<p, q>> \in R /\ <<q, r>> \in R => <<p, r>> \in R

\* Where an element stands: how many are before it.
Before(R, S, x) == {y \in S : <<y, x>> \in R}
LEMMA RanksDiffer ==
    ASSUME NEW S, IsFiniteSet(S), NEW R, Orders(R, S)
    PROVE  /\ \A x \in S : Cardinality(Before(R, S, x)) \in 0 .. Cardinality(S) - 1
           /\ \A x, y \in S : <<x, y>> \in R <=> Cardinality(Before(R, S, x)) < Cardinality(Before(R, S, y))
           /\ \A x, y \in S : Cardinality(Before(R, S, x)) = Cardinality(Before(R, S, y)) => x = y
<1> DEFINE rank(x) == Cardinality(Before(R, S, x))
<1>1. \A x \in S : Before(R, S, x) \in SUBSET (S \ {x}) /\ Before(R, S, x) \in SUBSET S
  BY DEF Before, Orders
<1>2. \A x \in S : IsFiniteSet(Before(R, S, x)) /\ rank(x) \in Nat
  BY <1>1, FS_Subset, FS_CardinalityType
<1>3. \A x \in S : rank(x) \in 0 .. Cardinality(S) - 1
  <2> SUFFICES ASSUME NEW x \in S PROVE rank(x) \in 0 .. Cardinality(S) - 1
    OBVIOUS
  <2>1. IsFiniteSet(S \ {x}) /\ Cardinality(S \ {x}) = Cardinality(S) - 1
    BY FS_RemoveElement
  <2>2. rank(x) <= Cardinality(S \ {x})
    BY <1>1, <2>1, FS_Subset
  <2>3. Cardinality(S) \in Nat
    BY FS_CardinalityType
  <2> HIDE DEF rank
  <2> QED BY <1>2, <2>1, <2>2, <2>3
<1>4. ASSUME NEW x \in S, NEW y \in S, <<x, y>> \in R PROVE rank(x) < rank(y)
  <2>1. Before(R, S, x) \subseteq Before(R, S, y) /\ x \in Before(R, S, y) /\ x \notin Before(R, S, x)
    BY <1>4 DEF Before, Orders
  <2>2. rank(x) <= rank(y) /\ (rank(y) = rank(x) => Before(R, S, y) = Before(R, S, x))
    BY <1>2, <2>1, FS_Subset
  <2> HIDE DEF rank
  <2> QED BY <1>2, <2>1, <2>2
<1>5. \A x, y \in S : x = y \/ <<x, y>> \in R \/ <<y, x>> \in R
  BY DEF Orders
<1> HIDE DEF rank
<1>6. ASSUME NEW x \in S, NEW y \in S
      PROVE  (rank(x) = rank(y) => x = y) /\ (rank(x) < rank(y) => <<x, y>> \in R)
  <2>1. rank(x) \in Nat /\ rank(y) \in Nat
    BY <1>2
  <2>2. CASE <<y, x>> \in R
    <3>1. rank(y) < rank(x)
      BY <1>4, <2>2
    <3> QED BY <2>1, <3>1
  <2>3. CASE <<x, y>> \in R
    <3>1. rank(x) < rank(y)
      BY <1>4, <2>3
    <3> QED BY <2>1, <2>3, <3>1
  <2>4. CASE x = y
    BY <2>1, <2>4
  <2> QED BY <1>5, <2>2, <2>3, <2>4
<1> QED
  BY <1>3, <1>4, <1>6 DEF rank

\* Each place has an element, so the elements in order are each of them once.
LEMMA EveryPlaceIsTaken ==
    ASSUME NEW S, IsFiniteSet(S), NEW R, Orders(R, S)
    PROVE  \A i \in 1 .. Cardinality(S) : \E x \in S : Cardinality(Before(R, S, x)) = i - 1
<1> DEFINE N == Cardinality(S)
           place == [x \in S |-> Cardinality(Before(R, S, x))]
<1>1. N \in Nat
  BY FS_CardinalityType
<1>2. IsFiniteSet(0 .. N - 1) /\ Cardinality(0 .. N - 1) = N
  <2>1. 0 \in Int /\ N - 1 \in Int
    BY <1>1
  <2>2. IsFiniteSet(0 .. N - 1) /\ Cardinality(0 .. N - 1) = IF 0 > N - 1 THEN 0 ELSE (N - 1) - 0 + 1
    BY <2>1, FS_Interval
  <2> HIDE DEF N
  <2> QED BY <1>1, <2>2
<1>3. place \in [S -> 0 .. N - 1] /\ \A x, y \in S : place[x] = place[y] => x = y
  BY RanksDiffer
<1> HIDE DEF N
<1>4. place \in Injection(S, 0 .. N - 1)
  <2> HIDE DEF place
  <2> QED BY <1>3 DEF Injection, IsInjective
<1>5. place \in Surjection(S, 0 .. N - 1)
  BY <1>2, <1>4, FS_Injection DEF N
<1>6. \A k \in 0 .. N - 1 : \E x \in S : place[x] = k
  <2> HIDE DEF place
  <2> QED BY <1>5 DEF Surjection
<1>7. \A i \in 1 .. N : i - 1 \in 0 .. N - 1
  BY <1>1
<1> QED
  BY <1>6, <1>7 DEF N

InLine(R, S) == [i \in 1 .. Cardinality(S) |-> CHOOSE x \in S : Cardinality(Before(R, S, x)) = i - 1]
LEMMA LineHoldsAll ==
    ASSUME NEW S, IsFiniteSet(S), NEW R, Orders(R, S)
    PROVE  /\ Cardinality(S) \in Nat /\ InLine(R, S) \in [1 .. Cardinality(S) -> S]
           /\ \A x \in S : \E i \in 1 .. Cardinality(S) : InLine(R, S)[i] = x
           /\ \A i, j \in 1 .. Cardinality(S) : i < j => <<InLine(R, S)[i], InLine(R, S)[j]>> \in R
           /\ \A i, j \in 1 .. Cardinality(S) : InLine(R, S)[i] = InLine(R, S)[j] => i = j
<1> DEFINE N == Cardinality(S)
           rank(x) == Cardinality(Before(R, S, x))
           line == InLine(R, S)
<1>1. N \in Nat
  BY FS_CardinalityType
<1>2. \A i \in 1 .. N : line[i] \in S /\ rank(line[i]) = i - 1
  BY EveryPlaceIsTaken DEF InLine
<1>3. line \in [1 .. N -> S]
  BY <1>2 DEF InLine
<1>4. /\ \A x \in S : rank(x) \in 0 .. N - 1
      /\ \A x, y \in S : <<x, y>> \in R <=> rank(x) < rank(y)
      /\ \A x, y \in S : rank(x) = rank(y) => x = y
  BY RanksDiffer
<1> HIDE DEF N, rank, line
<1>5. \A x \in S : \E i \in 1 .. N : line[i] = x
  <2> SUFFICES ASSUME NEW x \in S PROVE \E i \in 1 .. N : line[i] = x
    OBVIOUS
  <2>1. rank(x) + 1 \in 1 .. N /\ rank(x) \in Nat
    BY <1>1, <1>4
  <2>2. line[rank(x) + 1] \in S /\ rank(line[rank(x) + 1]) = rank(x)
    BY <1>2, <2>1
  <2> QED BY <1>4, <2>1, <2>2
<1>6. \A i, j \in 1 .. N : i < j => <<line[i], line[j]>> \in R
  BY <1>1, <1>2, <1>4
<1>7. \A i, j \in 1 .. N : line[i] = line[j] => i = j
  BY <1>1, <1>2
<1> QED
  BY <1>1, <1>3, <1>5, <1>6, <1>7 DEF N, line

\* Who has i - 1 before them at place i makes that line.
LEMMA LineIs ==
    ASSUME NEW S, IsFiniteSet(S), NEW R, Orders(R, S), NEW line \in [1 .. Cardinality(S) -> S],
           \A i \in 1 .. Cardinality(S) : Cardinality(Before(R, S, line[i])) = i - 1
    PROVE  line = InLine(R, S)
<1> DEFINE other == InLine(R, S)
<1>1. \A i \in 1 .. Cardinality(S) : other[i] \in S /\ Cardinality(Before(R, S, other[i])) = i - 1
  BY EveryPlaceIsTaken DEF InLine
<1>2. other \in [1 .. Cardinality(S) -> S]
  BY LineHoldsAll
<1>3. \A x, y \in S : Cardinality(Before(R, S, x)) = Cardinality(Before(R, S, y)) => x = y
  BY RanksDiffer
<1> HIDE DEF other
<1>4. \A i \in 1 .. Cardinality(S) : line[i] = other[i]
  BY <1>1, <1>3
<1>5. /\ line = [i \in 1 .. Cardinality(S) |-> line[i]]
      /\ other = [i \in 1 .. Cardinality(S) |-> other[i]]
  BY <1>2
<1>6. [i \in 1 .. Cardinality(S) |-> line[i]] = [i \in 1 .. Cardinality(S) |-> other[i]]
  BY <1>4
<1> QED BY <1>5, <1>6 DEF other

-----------------------------------------------------------------------------
(* Rank (Outranks, Canonical). *)

RankOf(members, works, orcid) == {x \in members \X members : Outranks(x[1], x[2], works, orcid)}

\* Rank is an order: of two records one is the better.
LEMMA RankOrders ==
    ASSUME NEW members, members \subseteq Nat, NEW works, NEW orcid, \A p \in members : works[p] \in Nat
    PROVE  Orders(RankOf(members, works, orcid), members)
<1>1. \A p, q \in members :
          <<p, q>> \in RankOf(members, works, orcid) <=> Outranks(p, q, works, orcid)
  BY DEF RankOf
<1>2. \A p \in members : ~Outranks(p, p, works, orcid)
  BY DEF Outranks
<1>3. \A p, q \in members : p # q => Outranks(p, q, works, orcid) \/ Outranks(q, p, works, orcid)
  BY DEF Outranks
<1>4. \A p, q, r \in members :
          Outranks(p, q, works, orcid) /\ Outranks(q, r, works, orcid) => Outranks(p, r, works, orcid)
  <2> SUFFICES ASSUME NEW p \in members, NEW q \in members, NEW r \in members,
                      Outranks(p, q, works, orcid), Outranks(q, r, works, orcid)
               PROVE  Outranks(p, r, works, orcid)
    OBVIOUS
  <2>1. works[p] \in Nat /\ works[q] \in Nat /\ works[r] \in Nat /\ p \in Nat /\ q \in Nat /\ r \in Nat
    OBVIOUS
  <2> QED BY <2>1 DEF Outranks
<1> QED
  BY <1>1, <1>2, <1>3, <1>4 DEF Orders

\* The best of a group is one of it.
LEMMA CanonicalLeads ==
    ASSUME NEW members, members \subseteq Nat, IsFiniteSet(members), members # {},
           NEW works, NEW orcid, \A p \in members : works[p] \in Nat
    PROVE  /\ Canonical(members, works, orcid) \in members
           /\ \A q \in members \ {Canonical(members, works, orcid)} :
                  Outranks(Canonical(members, works, orcid), q, works, orcid)
<1> DEFINE R == RankOf(members, works, orcid)
           N == Cardinality(members)
           first == InLine(R, members)[1]
<1>1. Orders(R, members)
  BY RankOrders
<1> HIDE DEF R
<1>2. /\ N \in Nat /\ \A i \in 1 .. N : InLine(R, members)[i] \in members
      /\ \A x \in members : \E i \in 1 .. N : InLine(R, members)[i] = x
      /\ \A i, j \in 1 .. N : i < j => <<InLine(R, members)[i], InLine(R, members)[j]>> \in R
  BY <1>1, LineHoldsAll
<1>3. N # 0
  BY FS_EmptySet
<1>4. 1 \in 1 .. N /\ \A i \in 1 .. N : i = 1 \/ 1 < i
  BY <1>2, <1>3
<1>5. first \in members /\ \A q \in members \ {first} : <<first, q>> \in R
  <2>1. ASSUME NEW q \in members \ {first} PROVE <<first, q>> \in R
    <3>1. PICK i \in 1 .. N : InLine(R, members)[i] = q
      BY <1>2
    <3>2. i # 1
      BY <2>1, <3>1
    <3> QED BY <1>2, <1>4, <3>1, <3>2
  <2> QED BY <1>2, <1>4, <2>1
<1> HIDE DEF first
<1>6. \A q \in members \ {first} : Outranks(first, q, works, orcid)
  BY <1>5 DEF R, RankOf
<1> QED
  BY <1>5, <1>6 DEF Canonical

-----------------------------------------------------------------------------
(* The parts of a component (Partition). *)

\* A function on the subsets of a finite set exists that gives each what is its
\* own and what it gives to smaller ones.
GathersBy(f, S, own, kids) == f = [s \in SUBSET S |-> own[s] \cup UNION {f[c] : c \in kids[s]}]
LEMMA GatheringExists ==
    ASSUME NEW S, IsFiniteSet(S), NEW own, NEW kids,
           \A s \in SUBSET S : \A c \in kids[s] : c \subseteq s /\ c # s
    PROVE  \E f : GathersBy(f, S, own, kids)
<1> DEFINE Small(n) == {s \in SUBSET S : Cardinality(s) <= n}
           Value(f, s) == own[s] \cup UNION {f[c] : c \in kids[s]}
           Right(f, s) == f[s] = Value(f, s)
           Has(n) == \E f : \A s \in Small(n) : Right(f, s)
           G == {n \in Nat : Has(n)}
<1>0. \A s \in SUBSET S : IsFiniteSet(s) /\ Cardinality(s) \in Nat /\ Cardinality(s) <= Cardinality(S)
  BY FS_Subset, FS_CardinalityType
<1>1. \A n \in Nat : \A s \in Small(n + 1) : \A c \in kids[s] : c \in Small(n)
  <2> SUFFICES ASSUME NEW n \in Nat, NEW s \in Small(n + 1), NEW c \in kids[s] PROVE c \in Small(n)
    OBVIOUS
  <2>1. c \in SUBSET s /\ c # s /\ c \in SUBSET S
    OBVIOUS
  <2>2. Cardinality(c) <= Cardinality(s) /\ Cardinality(c) # Cardinality(s)
    BY <1>0, <2>1, FS_Subset
  <2> QED BY <1>0, <2>1, <2>2
<1>2. 0 \in G
  <2>1. \A s \in Small(0) : s = {}
    BY <1>0, FS_EmptySet
  <2>2. \A s \in Small(0) : s \in SUBSET S /\ kids[s] = {}
    BY <2>1
  <2> DEFINE f == [s \in SUBSET S |-> own[s]]
  <2>3. ASSUME NEW s \in Small(0) PROVE f[s] = Value(f, s)
    <3>1. {f[c] : c \in kids[s]} = {}
      BY ZenonT(60), <2>2
    <3>2. Value(f, s) = own[s]
      BY <3>1
    <3>3. f[s] = own[s]
      BY <2>2
    <3> QED BY <3>2, <3>3
  <2>4. \A s \in Small(0) : Right(f, s)
    BY <2>3
  <2>5. Has(0)
    <3> HIDE DEF f, Small, Right
    <3> QED BY <2>4
  <2> HIDE DEF Has
  <2> QED BY <2>5
<1>3. ASSUME NEW n \in Nat, n \in G PROVE n + 1 \in G
  <2>1. PICK f : \A s \in Small(n) : Right(f, s)
    BY <1>3
  <2> DEFINE g == [s \in SUBSET S |-> Value(f, s)]
  <2>2. ASSUME NEW s \in Small(n) PROVE g[s] = f[s]
    BY <2>1
  <2>3. ASSUME NEW s \in Small(n + 1) PROVE Right(g, s)
    <3>1. \A c \in kids[s] : g[c] = f[c]
      <4> HIDE DEF g, Small
      <4> QED BY <1>1, <2>2
    <3>2. g[s] = Value(f, s)
      OBVIOUS
    <3>3. {f[c] : c \in kids[s]} = {g[c] : c \in kids[s]}
      <4> HIDE DEF g
      <4> QED BY <3>1
    <3> HIDE DEF g
    <3> QED BY <3>2, <3>3
  <2>4. Has(n + 1)
    <3> HIDE DEF g, Small, Right
    <3> QED BY <2>3
  <2> HIDE DEF Has
  <2> QED
    BY <2>4
<1>4. Cardinality(S) \in G
  <2>1. Cardinality(S) \in Nat
    BY FS_CardinalityType
  <2> HIDE DEF G
  <2> QED BY <1>2, <1>3, <2>1, AllNaturals
<1>5. Small(Cardinality(S)) = SUBSET S
  BY <1>0
<1>6. PICK f : \A s \in SUBSET S : Right(f, s)
  <2> HIDE DEF Small, Right
  <2> QED BY <1>4, <1>5
<1> DEFINE g == [s \in SUBSET S |-> f[s]]
<1>7. ASSUME NEW s \in SUBSET S PROVE g[s] = Value(g, s)
  <2>1. \A c \in kids[s] : c \in SUBSET S
    OBVIOUS
  <2>2. \A c \in kids[s] : g[c] = f[c]
    BY <2>1
  <2>3. {f[c] : c \in kids[s]} = {g[c] : c \in kids[s]}
    <3> HIDE DEF g
    <3> QED BY <2>2
  <2>4. g[s] = Value(f, s)
    BY <1>6
  <2> HIDE DEF g
  <2> QED BY <2>3, <2>4
<1>8. g = [s \in SUBSET S |-> g[s]]
  OBVIOUS
<1> HIDE DEF g
<1>9. GathersBy(g, S, own, kids)
  BY <1>7, <1>8 DEF GathersBy
<1> QED
  BY <1>9

\* What a set has once every part of it smaller than itself has it, every subset
\* of a finite set has.
LEMMA AllByPart ==
    ASSUME NEW S, IsFiniteSet(S), NEW G,
           \A s \in SUBSET S : (\A c \in SUBSET s : c # s => c \in G) => s \in G
    PROVE  SUBSET S \subseteq G
<1> DEFINE N == {n \in Nat : \A s \in SUBSET S : Cardinality(s) <= n => s \in G}
<1>0. \A s \in SUBSET S : IsFiniteSet(s) /\ Cardinality(s) \in Nat /\ Cardinality(s) <= Cardinality(S)
  BY FS_Subset, FS_CardinalityType
<1>1. ASSUME NEW s \in SUBSET S, NEW c \in SUBSET s, c # s
      PROVE  c \in SUBSET S /\ Cardinality(c) < Cardinality(s)
  <2>1. Cardinality(c) <= Cardinality(s) /\ Cardinality(c) # Cardinality(s)
    BY <1>0, <1>1, FS_Subset
  <2>2. c \in SUBSET S
    OBVIOUS
  <2> QED BY <1>0, <2>1, <2>2
<1>2. 0 \in N
  <2> SUFFICES ASSUME NEW s \in SUBSET S, Cardinality(s) <= 0 PROVE s \in G
    OBVIOUS
  <2>1. \A c \in SUBSET s : c = s
    <3> SUFFICES ASSUME NEW c \in SUBSET s, c # s PROVE FALSE
      OBVIOUS
    <3>1. Cardinality(c) < Cardinality(s) /\ Cardinality(c) \in Nat /\ Cardinality(s) \in Nat
      BY <1>0, <1>1
    <3> QED BY <3>1
  <2> QED BY <2>1
<1>3. ASSUME NEW n \in Nat, n \in N PROVE n + 1 \in N
  <2> SUFFICES ASSUME NEW s \in SUBSET S, Cardinality(s) <= n + 1 PROVE s \in G
    OBVIOUS
  <2>1. ASSUME NEW c \in SUBSET s, c # s PROVE c \in G
    <3>1. c \in SUBSET S /\ Cardinality(c) < Cardinality(s) /\ Cardinality(c) \in Nat /\ Cardinality(s) \in Nat
      BY <1>0, <1>1, <2>1
    <3>2. Cardinality(c) <= n
      BY <3>1
    <3> QED BY <1>3, <3>1, <3>2
  <2> QED BY <2>1
<1>4. Nat \subseteq N
  <2> HIDE DEF N
  <2> QED BY <1>2, <1>3, AllNaturals
<1>5. Cardinality(S) \in N
  BY <1>4, FS_CardinalityType
<1> QED BY <1>0, <1>5

BucketsOf(s, pairs, ident) ==
    {Bucket(v, s, pairs, ident[GroupConflict(s, ident)]) : v \in ValuesOf(s, ident[GroupConflict(s, ident)])}
Leftovers(s, pairs, ident) == {{p} : p \in s \ UNION BucketsOf(s, pairs, ident)}
Further(s, pairs, ident) == UNION {Components(b, pairs) : b \in BucketsOf(s, pairs, ident)}

\* A component in conflict is taken apart: no bucket is all of it, and none
\* shares a record with another.
LEMMA BucketsPart ==
    ASSUME NEW s, NEW pairs, NEW ident, DOMAIN ident \subseteq Nat, Conflicts(s, ident) # {}
    PROVE  /\ \A b \in BucketsOf(s, pairs, ident) : b \subseteq s /\ b # s
           /\ \A b, c \in BucketsOf(s, pairs, ident) : \A p \in b : p \in c => b = c
<1> DEFINE field == ident[GroupConflict(s, ident)]
           values == ValuesOf(s, field)
           bucket(v) == Bucket(v, s, pairs, field)
<1>1. GroupConflict(s, ident) \in Conflicts(s, ident)
  <2>1. Conflicts(s, ident) \subseteq Nat
    BY DEF Conflicts
  <2> QED BY <2>1, MinBelongs DEF GroupConflict
<1>2. Cardinality(values) > 1
  BY <1>1 DEF Conflicts
<1>3. ASSUME NEW v \in values PROVE \E w \in values : w # v
  <2> SUFFICES ASSUME \A w \in values : w = v PROVE FALSE
    OBVIOUS
  <2>1. values = {v}
    OBVIOUS
  <2>2. Cardinality(values) = 1
    BY <2>1, FS_Singleton
  <2> QED BY <1>2, <2>2
<1>4. \A v \in values : v # NoValue /\ \E p \in s : field[p] = v
  BY DEF ValuesOf
<1> HIDE DEF values, field
<1>5. ASSUME NEW v \in values PROVE bucket(v) \subseteq s /\ bucket(v) # s
  <2>1. PICK w \in values : w # v
    BY <1>3
  <2>2. PICK p \in s : field[p] = w
    BY <1>4
  <2>3. p \notin bucket(v)
    BY <1>4, <2>1, <2>2 DEF Bucket
  <2> QED BY <2>2, <2>3 DEF Bucket
<1>6. ASSUME NEW v \in values, NEW w \in values, NEW p \in bucket(v), p \in bucket(w) PROVE v = w
  <2>1. CASE field[p] # NoValue
    BY <1>6, <2>1 DEF Bucket
  <2>2. CASE field[p] = NoValue
    <3>1. Nearest(p, s, pairs, field) = {v} /\ Nearest(p, s, pairs, field) = {w}
      BY <1>4, <1>6, <2>2 DEF Bucket
    <3> QED BY <3>1
  <2> QED BY <2>1, <2>2
<1>7. BucketsOf(s, pairs, ident) = {bucket(v) : v \in values}
  BY DEF BucketsOf, values, field
<1> HIDE DEF bucket
<1>8. \A b, c \in BucketsOf(s, pairs, ident) : \A p \in b : p \in c => b = c
  BY <1>6, <1>7
<1> QED
  BY <1>5, <1>7, <1>8

\* What is gone on with, and what is left over, are smaller and apart.
LEMMA FurtherPart ==
    ASSUME NEW s, IsFiniteSet(s), NEW pairs, NEW ident, DOMAIN ident \subseteq Nat,
           Conflicts(s, ident) # {}
    PROVE  /\ \A c \in Further(s, pairs, ident) : c \subseteq s /\ c # s /\ c # {}
           /\ \A c, d \in Further(s, pairs, ident) : \A p \in c : p \in d => c = d
           /\ \A l \in Leftovers(s, pairs, ident) : \E p \in s : l = {p}
           /\ \A c \in Further(s, pairs, ident), l \in Leftovers(s, pairs, ident) : \A p \in c : p \notin l
<1> DEFINE buckets == BucketsOf(s, pairs, ident)
<1>1. /\ \A b \in buckets : b \subseteq s /\ b # s
      /\ \A b, c \in buckets : \A p \in b : p \in c => b = c
  BY BucketsPart
<1>2. \A b \in buckets : IsFiniteSet(b)
  BY <1>1, FS_Subset
<1> HIDE DEF buckets
<1>3. ASSUME NEW b \in buckets
      PROVE  /\ \A c \in Components(b, pairs) : c \subseteq b /\ c # {}
             /\ \A c, d \in Components(b, pairs) : \A p \in c : p \in d => c = d
  <2>1. /\ \A p \in b : p \in Component(p, b, pairs) /\ Component(p, b, pairs) \subseteq b
        /\ \A p \in b : \A q \in Component(p, b, pairs) : Component(q, b, pairs) = Component(p, b, pairs)
    BY <1>2, ComponentsPart
  <2> QED BY <2>1 DEF Components
<1>4. Further(s, pairs, ident) = UNION {Components(b, pairs) : b \in buckets}
  BY DEF Further, buckets
<1>5. Leftovers(s, pairs, ident) = {{p} : p \in s \ UNION buckets}
  BY DEF Leftovers, buckets
<1>6. ASSUME NEW c \in Further(s, pairs, ident) PROVE c \subseteq s /\ c # s /\ c # {}
  <2>1. PICK b \in buckets : c \in Components(b, pairs)
    BY <1>4
  <2>2. c \subseteq b /\ c # {} /\ b \subseteq s /\ b # s
    BY <1>1, <1>3, <2>1
  <2> QED BY <2>2
<1>7. ASSUME NEW c \in Further(s, pairs, ident), NEW d \in Further(s, pairs, ident), NEW p \in c, p \in d
      PROVE  c = d
  <2>1. PICK b1 \in buckets : c \in Components(b1, pairs)
    BY <1>4
  <2>2. PICK b2 \in buckets : d \in Components(b2, pairs)
    BY <1>4
  <2>3. p \in b1 /\ p \in b2
    BY <1>3, <1>7, <2>1, <2>2
  <2>4. b1 = b2
    BY <1>1, <2>3
  <2> QED BY <1>3, <1>7, <2>1, <2>2, <2>4
<1>8. \A c \in Further(s, pairs, ident), l \in Leftovers(s, pairs, ident) : \A p \in c : p \notin l
  BY <1>3, <1>4, <1>5
<1> QED
  BY <1>5, <1>6, <1>7, <1>8

\* A component is taken into groups that share no record, and none of which is
\* in conflict about anything.
LEMMA PartitionParts ==
    ASSUME NEW component, IsFiniteSet(component), component # {}, NEW pairs,
           NEW ident, DOMAIN ident \subseteq Nat
    PROVE  /\ \A g \in Partition(component, pairs, ident) :
                  g \subseteq component /\ g # {} /\ Conflicts(g, ident) = {}
           /\ \A g, h \in Partition(component, pairs, ident) : \A p \in g : p \in h => g = h
<1> DEFINE S == component
           own == [s \in SUBSET S |-> IF Conflicts(s, ident) = {} THEN {s} ELSE Leftovers(s, pairs, ident)]
           kids == [s \in SUBSET S |-> IF Conflicts(s, ident) = {} THEN {} ELSE Further(s, pairs, ident)]
           Right(split) == split = [part \in SUBSET S |->
              IF Conflicts(part, ident) = {} THEN {part}
              ELSE {{p} : p \in part \ UNION {Bucket(v, part, pairs, ident[GroupConflict(part, ident)]) :
                                              v \in ValuesOf(part, ident[GroupConflict(part, ident)])}}
                   \cup UNION {split[c] : c \in UNION {Components(b, pairs) :
                            b \in {Bucket(v, part, pairs, ident[GroupConflict(part, ident)]) :
                                   v \in ValuesOf(part, ident[GroupConflict(part, ident)])}}}]
           split == CHOOSE f : Right(f)
<1>1. Partition(component, pairs, ident) = split[component]
  BY DEF Partition
<1>2. \A s \in SUBSET S : IsFiniteSet(s)
  BY FS_Subset
<1>3. ASSUME NEW s \in SUBSET S, Conflicts(s, ident) # {}
      PROVE  /\ \A c \in Further(s, pairs, ident) : c \subseteq s /\ c # s /\ c # {}
             /\ \A c, d \in Further(s, pairs, ident) : \A p \in c : p \in d => c = d
             /\ \A l \in Leftovers(s, pairs, ident) : \E p \in s : l = {p}
             /\ \A c \in Further(s, pairs, ident), l \in Leftovers(s, pairs, ident) : \A p \in c : p \notin l
  BY ZenonT(60), <1>2, <1>3, FurtherPart
<1>4. PICK f : GathersBy(f, S, own, kids)
  <2>1. \A s \in SUBSET S : \A c \in kids[s] : c \subseteq s /\ c # s
    BY <1>3
  <2> HIDE DEF own, kids
  <2> QED BY <2>1, GatheringExists
<1>5. Right(f)
  <2>1. \A s \in SUBSET S : f[s] = own[s] \cup UNION {f[c] : c \in kids[s]}
    BY <1>4 DEF GathersBy
  <2>2. f = [s \in SUBSET S |-> f[s]]
    BY <1>4 DEF GathersBy
  <2>3. \A s \in SUBSET S : f[s] = IF Conflicts(s, ident) = {} THEN {s}
                                   ELSE Leftovers(s, pairs, ident) \cup
                                        UNION {f[c] : c \in Further(s, pairs, ident)}
    <3> SUFFICES ASSUME NEW s \in SUBSET S
                 PROVE  f[s] = IF Conflicts(s, ident) = {} THEN {s}
                               ELSE Leftovers(s, pairs, ident) \cup UNION {f[c] : c \in Further(s, pairs, ident)}
      OBVIOUS
    <3>1. CASE Conflicts(s, ident) = {}
      <4>1. own[s] = {s} /\ kids[s] = {}
        BY <3>1
      <4> HIDE DEF own, kids
      <4>2. UNION {f[c] : c \in kids[s]} = {}
        BY <4>1
      <4> QED BY <2>1, <3>1, <4>1, <4>2
    <3>2. CASE Conflicts(s, ident) # {}
      <4>1. own[s] = Leftovers(s, pairs, ident) /\ kids[s] = Further(s, pairs, ident)
        BY <3>2
      <4> HIDE DEF own, kids
      <4> QED BY <2>1, <3>2, <4>1
    <3> QED BY <3>1, <3>2
  <2> QED BY <2>2, <2>3 DEF Leftovers, Further, BucketsOf
<1>6. Right(split)
  <2> HIDE DEF Right
  <2> QED BY <1>5
<1>7. ASSUME NEW s \in SUBSET S
      PROVE  split[s] = IF Conflicts(s, ident) = {} THEN {s}
                        ELSE Leftovers(s, pairs, ident) \cup UNION {split[c] : c \in Further(s, pairs, ident)}
  BY <1>6 DEF Leftovers, Further, BucketsOf
<1> HIDE DEF split
<1> DEFINE Parted(s) ==
              /\ \A g \in split[s] : g \subseteq s /\ g # {} /\ Conflicts(g, ident) = {}
              /\ \A g, h \in split[s] : \A p \in g : p \in h => g = h
           G == {s \in SUBSET S : s # {} => Parted(s)}
<1>8. \A p : Conflicts({p}, ident) = {}
  <2> SUFFICES ASSUME NEW p, NEW i \in DOMAIN ident PROVE ~(Cardinality(ValuesOf({p}, ident[i])) > 1)
    BY DEF Conflicts
  <2>1. ValuesOf({p}, ident[i]) \subseteq {ident[i][p]}
    BY DEF ValuesOf
  <2>2. IsFiniteSet({ident[i][p]}) /\ Cardinality({ident[i][p]}) = 1
    BY FS_Singleton
  <2>3. /\ IsFiniteSet(ValuesOf({p}, ident[i]))
        /\ Cardinality(ValuesOf({p}, ident[i])) <= Cardinality({ident[i][p]})
    BY <2>1, <2>2, FS_Subset
  <2>4. Cardinality(ValuesOf({p}, ident[i])) \in Nat
    BY <2>3, FS_CardinalityType
  <2> QED BY <2>2, <2>3, <2>4
<1>9. ASSUME NEW s \in SUBSET S, \A c \in SUBSET s : c # s => c \in G PROVE s \in G
  <2> SUFFICES ASSUME s # {} PROVE Parted(s)
    OBVIOUS
  <2>1. CASE Conflicts(s, ident) = {}
    <3>1. split[s] = {s}
      BY <1>7, <2>1
    <3> QED BY <2>1, <3>1
  <2>2. CASE Conflicts(s, ident) # {}
    <3> DEFINE further == Further(s, pairs, ident)
               leftovers == Leftovers(s, pairs, ident)
    <3>1. split[s] = leftovers \cup UNION {split[c] : c \in further}
      BY <1>7, <2>2
    <3>2. /\ \A c \in further : c \subseteq s /\ c # s /\ c # {}
          /\ \A c, d \in further : \A p \in c : p \in d => c = d
          /\ \A l \in leftovers : \E p \in s : l = {p}
          /\ \A c \in further, l \in leftovers : \A p \in c : p \notin l
      BY <1>3, <2>2
    <3> HIDE DEF further, leftovers
    <3>3. \A c \in further : Parted(c)
      <4> SUFFICES ASSUME NEW c \in further PROVE Parted(c)
        OBVIOUS
      <4>1. c \in SUBSET s /\ c # s /\ c # {}
        BY <3>2
      <4>2. c \in G
        BY <1>9, <4>1
      <4> QED BY <4>1, <4>2
    <3>4. ASSUME NEW g \in split[s] PROVE g \subseteq s /\ g # {} /\ Conflicts(g, ident) = {}
      <4>1. CASE g \in leftovers
        <5>1. PICK x \in s : g = {x}
          BY <3>2, <4>1
        <5> QED BY <1>8, <5>1
      <4>2. CASE \E c \in further : g \in split[c]
        BY <3>2, <3>3, <4>2
      <4> QED BY <3>1, <4>1, <4>2
    <3>5. ASSUME NEW g \in split[s], NEW h \in split[s], NEW p \in g, p \in h PROVE g = h
      <4>1. CASE g \in leftovers /\ h \in leftovers
        <5>1. PICK x \in s : g = {x}
          BY <3>2, <4>1
        <5>2. PICK y \in s : h = {y}
          BY <3>2, <4>1
        <5> QED BY <3>5, <5>1, <5>2
      <4>2. CASE \E c \in further : g \in split[c] /\ h \in leftovers
        BY <3>2, <3>3, <3>5, <4>2
      <4>3. CASE \E c \in further : h \in split[c] /\ g \in leftovers
        BY <3>2, <3>3, <3>5, <4>3
      <4>4. CASE (\E c \in further : g \in split[c]) /\ (\E c \in further : h \in split[c])
        <5>1. PICK c \in further : g \in split[c]
          BY <4>4
        <5>2. PICK d \in further : h \in split[d]
          BY <4>4
        <5>3. p \in c /\ p \in d
          BY <3>3, <3>5, <5>1, <5>2
        <5>4. c = d
          BY <3>2, <5>3
        <5> QED BY <3>3, <3>5, <5>1, <5>2, <5>4
      <4> QED BY <3>1, <4>1, <4>2, <4>3, <4>4
    <3> QED BY <3>4, <3>5
  <2> QED BY <2>1, <2>2
<1>10. S \in G
  <2>1. SUBSET S \subseteq G
    <3> HIDE DEF G
    <3> QED BY <1>9, AllByPart
  <2> QED BY <2>1
<1>11. Parted(S)
  BY <1>10
<1> QED
  BY <1>1, <1>11

\* The groups that fold: they share no record, none is in conflict, none holds
\* two records an answer keeps apart.
Apart(groups, pairs, ident, refused) ==
    /\ \A g \in groups :
          /\ g \subseteq UNION pairs /\ g # {} /\ IsFiniteSet(g) /\ Cardinality(g) > 1
          /\ Conflicts(g, ident) = {}
          /\ \A pair \in refused : ~(pair \subseteq g)
    /\ \A g, h \in groups : \A p \in g : p \in h => g = h
LEMMA AcceptedParts ==
    ASSUME NEW pairs, IsFiniteSet(UNION pairs), NEW ident, DOMAIN ident \subseteq Nat, NEW refused
    PROVE  Apart(Accepted(pairs, ident, refused), pairs, ident, refused)
<1> DEFINE nodes == UNION pairs
           parts(c) == Partition(c, pairs, ident)
<1>1. /\ \A p \in nodes : p \in Component(p, nodes, pairs) /\ Component(p, nodes, pairs) \subseteq nodes
      /\ \A p \in nodes : \A q \in Component(p, nodes, pairs) :
              Component(q, nodes, pairs) = Component(p, nodes, pairs)
  BY ComponentsPart
<1> HIDE DEF nodes
<1>2. Grouped(pairs) = {Component(p, nodes, pairs) : p \in nodes}
  BY DEF Grouped, Components, nodes
<1>3. \A c \in Grouped(pairs) : c \subseteq nodes /\ c # {} /\ IsFiniteSet(c)
  <2>1. \A c \in Grouped(pairs) : c \subseteq nodes /\ c # {}
    BY <1>1, <1>2
  <2> QED BY <2>1, FS_Subset DEF nodes
<1>4. \A c, d \in Grouped(pairs) : \A p \in c : p \in d => c = d
  BY <1>1, <1>2
<1>5. ASSUME NEW c \in Grouped(pairs)
      PROVE  /\ \A g \in parts(c) : g \subseteq c /\ g # {} /\ Conflicts(g, ident) = {}
             /\ \A g, h \in parts(c) : \A p \in g : p \in h => g = h
  BY <1>3, PartitionParts
<1> HIDE DEF parts
<1>6. \A g \in Accepted(pairs, ident, refused) :
          /\ Cardinality(g) > 1
          /\ \E c \in Grouped(pairs) : g \in parts(c) /\ ~Contradicted(c, refused)
  BY DEF Accepted, parts
<1>7. ASSUME NEW g \in Accepted(pairs, ident, refused)
      PROVE  /\ g \subseteq nodes /\ g # {} /\ IsFiniteSet(g) /\ Cardinality(g) > 1
             /\ Conflicts(g, ident) = {}
             /\ \A pair \in refused : ~(pair \subseteq g)
  <2>1. PICK c \in Grouped(pairs) : g \in parts(c) /\ ~Contradicted(c, refused)
    BY <1>6
  <2>2. g \subseteq c /\ g # {} /\ Conflicts(g, ident) = {}
    BY <1>5, <2>1
  <2>3. IsFiniteSet(g) /\ g \subseteq nodes
    BY <1>3, <2>2, FS_Subset
  <2>4. \A pair \in refused : ~(pair \subseteq g)
    BY <2>1, <2>2 DEF Contradicted
  <2> QED BY <1>6, <2>2, <2>3, <2>4
<1>8. ASSUME NEW g \in Accepted(pairs, ident, refused), NEW h \in Accepted(pairs, ident, refused),
             NEW p \in g, p \in h
      PROVE  g = h
  <2>1. PICK c \in Grouped(pairs) : g \in parts(c)
    BY <1>6
  <2>2. PICK d \in Grouped(pairs) : h \in parts(d)
    BY <1>6
  <2>3. p \in c /\ p \in d
    BY <1>5, <1>8, <2>1, <2>2
  <2>4. c = d
    BY <1>4, <2>3
  <2> QED BY <1>5, <1>8, <2>1, <2>2, <2>4
<1> QED
  BY <1>7, <1>8 DEF nodes, Apart

\* What is folded: a record that is not the best of its group into the one that
\* is.  No record folds twice, and none into one that folds.
Flat(merges, groups, works, orcid) ==
    /\ \A m \in merges : \E g \in groups : /\ m = <<m[1], m[2]>> /\ m[1] \in g /\ m[2] \in g /\ m[1] # m[2]
                                          /\ m[2] = Canonical(g, works, orcid)
    /\ \A m, k \in merges : (m[1] = k[1] => m = k) /\ m[2] # k[1]
LEMMA FoldsLead ==
    ASSUME NEW groups,
           \A g \in groups : g \subseteq Nat /\ IsFiniteSet(g) /\ g # {},
           \A g, h \in groups : \A p \in g : p \in h => g = h,
           NEW works, NEW orcid, \A g \in groups : \A p \in g : works[p] \in Nat
    PROVE  Flat(Folds(groups, works, orcid), groups, works, orcid)
<1> DEFINE best(g) == Canonical(g, works, orcid)
<1>1. \A g \in groups : best(g) \in g
  BY CanonicalLeads
<1>2. \A m \in Folds(groups, works, orcid) :
          \E g \in groups : \E p \in g \ {best(g)} : m = <<p, best(g)>>
  BY DEF Folds
<1> HIDE DEF best
<1>3. ASSUME NEW m \in Folds(groups, works, orcid), NEW k \in Folds(groups, works, orcid)
      PROVE  (m[1] = k[1] => m = k) /\ m[2] # k[1]
  <2>1. PICK g \in groups : \E p \in g \ {best(g)} : m = <<p, best(g)>>
    BY <1>2
  <2>2. PICK h \in groups : \E p \in h \ {best(h)} : k = <<p, best(h)>>
    BY <1>2
  <2>3. m[1] \in g /\ m[2] = best(g) /\ k[1] \in h /\ k[1] # best(h) /\ m = <<m[1], m[2]>>
        /\ k[2] = best(h) /\ k = <<k[1], k[2]>>
    BY <2>1, <2>2
  <2>4. m[1] = k[1] => g = h
    BY <2>3
  <2>5. m[2] = k[1] => g = h
    <3>1. m[2] \in g /\ k[1] \in h
      BY <1>1, <2>3
    <3> QED BY <3>1
  <2> QED BY <2>3, <2>4, <2>5
<1>4. ASSUME NEW m \in Folds(groups, works, orcid)
      PROVE  \E g \in groups : /\ m = <<m[1], m[2]>> /\ m[1] \in g /\ m[2] \in g /\ m[1] # m[2]
                               /\ m[2] = best(g)
  <2>1. PICK g \in groups : \E p \in g \ {best(g)} : m = <<p, best(g)>>
    BY <1>2
  <2> QED BY <1>1, <2>1
<1> QED
  BY <1>3, <1>4 DEF best, Flat

\* What is asked about instead: more than one record of those that were paired.
LEMMA HeldAmongPairs ==
    ASSUME NEW pairs, IsFiniteSet(UNION pairs), UNION pairs \subseteq Nat,
           NEW ident, DOMAIN ident \subseteq Nat, NEW refused,
           NEW works, NEW orcid, \A p \in UNION pairs : works[p] \in Nat
    PROVE  \A g \in HeldGroups(pairs, ident, refused, works, orcid) :
               g \subseteq UNION pairs /\ Cardinality(g) > 1
<1>0. ASSUME NEW g \in Accepted(pairs, ident, refused)
      PROVE  g \subseteq UNION pairs /\ g # {} /\ IsFiniteSet(g)
  <2>1. Apart(Accepted(pairs, ident, refused), pairs, ident, refused)
    BY AcceptedParts
  <2> QED BY <2>1 DEF Apart
<1> DEFINE nodes == UNION pairs
           accepted == Accepted(pairs, ident, refused)
           mine(p) == CHOOSE g \in accepted : p \in g
           standing(p) == IF \E g \in accepted : p \in g THEN Canonical(mine(p), works, orcid) ELSE p
<1>1. \A g \in accepted : g \subseteq nodes /\ g # {} /\ IsFiniteSet(g)
  BY <1>0
<1>2. \A p \in nodes : p \in Component(p, nodes, pairs) /\ Component(p, nodes, pairs) \subseteq nodes
  BY ComponentsPart
<1>3. \A c \in Grouped(pairs) : c \subseteq nodes
  BY <1>2 DEF Grouped, Components
<1>4. \A g \in HeldGroups(pairs, ident, refused, works, orcid) :
          /\ Cardinality(g) > 1
          /\ \E c \in Grouped(pairs) : g = {standing(p) : p \in c}
  BY DEF HeldGroups
<1> HIDE DEF accepted
<1>5. ASSUME NEW p \in nodes PROVE standing(p) \in nodes
  <2>1. CASE \E g \in accepted : p \in g
    <3>1. mine(p) \in accepted /\ p \in mine(p)
      BY <2>1
    <3>2. mine(p) \subseteq Nat /\ IsFiniteSet(mine(p)) /\ mine(p) # {} /\ \A x \in mine(p) : works[x] \in Nat
      BY <1>1, <3>1
    <3> HIDE DEF mine
    <3>3. Canonical(mine(p), works, orcid) \in mine(p)
      BY <3>2, CanonicalLeads
    <3> QED BY <1>1, <2>1, <3>1, <3>3
  <2>2. CASE ~\E g \in accepted : p \in g
    BY <2>2
  <2> QED BY <2>1, <2>2
<1> HIDE DEF standing, nodes
<1>6. \A g \in HeldGroups(pairs, ident, refused, works, orcid) : g \subseteq nodes /\ Cardinality(g) > 1
  BY <1>3, <1>4, <1>5
<1> QED
  BY <1>6 DEF nodes

\* What is left of a sequence without its first element.
LEMMA RestOfLine ==
    ASSUME NEW S, NEW s \in Seq(S), s # <<>>
    PROVE  /\ Head(s) \in S /\ Head(s) = s[1] /\ Tail(s) \in Seq(S)
           /\ Len(s) \in Nat /\ Len(s) >= 1 /\ DOMAIN s = 1 .. Len(s)
           /\ Len(Tail(s)) = Len(s) - 1 /\ DOMAIN Tail(s) = 1 .. Len(s) - 1
           /\ \A i \in 1 .. Len(s) - 1 : i + 1 \in 1 .. Len(s) /\ Tail(s)[i] = s[i + 1]
           /\ Len(s) = 1 <=> Tail(s) = <<>>
<1>1. Len(s) \in Nat /\ Len(s) # 0 /\ DOMAIN s = 1 .. Len(s)
  OBVIOUS
<1>2. Head(s) \in S /\ Head(s) = s[1] /\ Tail(s) \in Seq(S)
  OBVIOUS
<1>3. Len(Tail(s)) = Len(s) - 1
  OBVIOUS
<1>4. DOMAIN Tail(s) = 1 .. Len(s) - 1
  BY <1>2, <1>3
<1>5. \A i \in 1 .. Len(s) - 1 : i + 1 \in 1 .. Len(s) /\ Tail(s)[i] = s[i + 1]
  BY <1>1
<1>6. Len(s) = 1 <=> Tail(s) = <<>>
  <2>0. ASSUME NEW t \in Seq(S) PROVE t = <<>> <=> Len(t) = 0
    OBVIOUS
  <2>1. Tail(s) = <<>> <=> Len(Tail(s)) = 0
    BY <1>2, <2>0
  <2> QED BY <1>1, <1>3, <2>1
<1> QED BY <1>1, <1>2, <1>3, <1>4, <1>5, <1>6

\* One sequence after another.
Joins(u, s, t) ==
    /\ \A i \in DOMAIN u : \/ i \in DOMAIN s /\ u[i] = s[i]
                           \/ i \notin DOMAIN s /\ i - Len(s) \in DOMAIN t /\ u[i] = t[i - Len(s)]
    /\ \A i \in DOMAIN s : i \in DOMAIN u /\ u[i] = s[i]
    /\ \A i \in DOMAIN t : i + Len(s) \in DOMAIN u /\ u[i + Len(s)] = t[i]
    /\ DOMAIN s = 1 .. Len(s) /\ DOMAIN t = 1 .. Len(t) /\ Len(s) \in Nat /\ Len(t) \in Nat
    /\ Len(u) = Len(s) + Len(t) /\ DOMAIN u = 1 .. Len(u)
LEMMA JoinedLine ==
    ASSUME NEW S, NEW s \in Seq(S), NEW t \in Seq(S)
    PROVE  s \o t \in Seq(S) /\ Joins(s \o t, s, t)
<1>1. /\ DOMAIN s = 1 .. Len(s) /\ DOMAIN t = 1 .. Len(t) /\ Len(s) \in Nat /\ Len(t) \in Nat
      /\ Len(s \o t) = Len(s) + Len(t) /\ DOMAIN (s \o t) = 1 .. Len(s) + Len(t)
      /\ s \o t \in Seq(S)
  OBVIOUS
<1>2. \A i \in 1 .. Len(s) + Len(t) : (s \o t)[i] = IF i <= Len(s) THEN s[i] ELSE t[i - Len(s)]
  OBVIOUS
<1> DEFINE u == s \o t
<1>3. /\ DOMAIN s = 1 .. Len(s) /\ DOMAIN t = 1 .. Len(t) /\ Len(s) \in Nat /\ Len(t) \in Nat
      /\ Len(u) = Len(s) + Len(t) /\ DOMAIN u = 1 .. Len(s) + Len(t)
      /\ \A i \in 1 .. Len(s) + Len(t) : u[i] = IF i <= Len(s) THEN s[i] ELSE t[i - Len(s)]
  BY <1>1, <1>2
<1> HIDE DEF u
<1>4. Joins(u, s, t)
  BY <1>3 DEF Joins
<1> QED BY <1>1, <1>4 DEF u

-----------------------------------------------------------------------------
\* A number is even or odd.
LEMMA Halved == \A i \in Nat : \E k \in Nat : i = 2 * k \/ i = 2 * k + 1
<1> DEFINE G == {i \in Nat : \E k \in Nat : i = 2 * k \/ i = 2 * k + 1}
<1>1. 0 \in G
  <2>1. 0 = 2 * 0
    OBVIOUS
  <2> QED BY <2>1
<1>2. ASSUME NEW i \in Nat, i \in G PROVE i + 1 \in G
  <2>1. PICK k \in Nat : i = 2 * k \/ i = 2 * k + 1
    BY <1>2
  <2>2. CASE i = 2 * k
    <3>1. i + 1 = 2 * k + 1
      BY <2>2
    <3>2. \E h \in Nat : i + 1 = 2 * h \/ i + 1 = 2 * h + 1
      BY <3>1
    <3> QED BY <3>2
  <2>3. CASE i = 2 * k + 1
    <3>1. i + 1 = 2 * (k + 1) /\ k + 1 \in Nat
      BY <2>3
    <3>2. PICK h \in Nat : i + 1 = 2 * h
      BY <3>1
    <3>3. \E l \in Nat : i + 1 = 2 * l \/ i + 1 = 2 * l + 1
      BY <3>2
    <3> QED BY <3>3
  <2> QED BY <2>1, <2>2, <2>3
<1>3. Nat \subseteq G
  <2> HIDE DEF G
  <2> QED BY <1>1, <1>2, AllNaturals
<1> QED BY <1>3

\* FlattenSeq: one sequence after another.
LEMMA FlatSteps ==
    ASSUME NEW S, NEW seqs \in Seq(Seq(S))
    PROVE  \E f \in [0 .. Len(seqs) -> Seq(S)] :
               /\ f[0] = <<>> /\ FlattenSeq(seqs) = f[Len(seqs)]
               /\ \A i \in 1 .. Len(seqs) : f[i] = f[i - 1] \o seqs[i]
<1> DEFINE n == Len(seqs)
           step == [x \in (1 .. n) \X Seq(S) |-> x[2] \o seqs[x[1]]]
<1>1. n \in Nat /\ seqs \in [1 .. n -> Seq(S)]
  OBVIOUS
<1>2. \A i \in 1 .. n, t \in Seq(S) : t \o seqs[i] \in Seq(S)
  BY <1>1
<1> HIDE DEF n
<1>3. step \in [(1 .. n) \X Seq(S) -> Seq(S)] /\ \A i \in 1 .. n, t \in Seq(S) : step[<<i, t>>] = t \o seqs[i]
  BY <1>2
<1>4. <<>> \in Seq(S)
  OBVIOUS
<1> HIDE DEF step
<1>5. PICK f \in [0 .. n -> Seq(S)] : f[0] = <<>> /\ \A i \in 1 .. n : f[i] = step[<<i, f[i - 1]>>]
  <2> DEFINE T == Seq(S)
             none == <<>>
  <2>1. none \in T /\ n \in Nat /\ StepsWithin(step, n, T)
    BY <1>1, <1>2, <1>3, <1>4 DEF StepsWithin
  <2> HIDE DEF T, none
  <2>2. PICK f : StepsBy(f, n, T, step, none)
    BY <2>1, StepsExist
  <2> QED BY <2>2 DEF T, none, StepsBy
<1>6. \A i \in 1 .. n : f[i] = f[i - 1] \o seqs[i]
  <2> SUFFICES ASSUME NEW i \in 1 .. n PROVE f[i] = f[i - 1] \o seqs[i]
    OBVIOUS
  <2>1. i - 1 \in 0 .. n
    BY <1>1
  <2> QED BY <1>3, <1>5, <2>1
<1>7. CASE n = 0
  <2>1. seqs = <<>> /\ FlattenSeq(seqs) = seqs
    BY <1>7 DEF FlattenSeq, n
  <2> QED BY <1>5, <1>6, <1>7, <2>1 DEF n
<1>8. CASE n # 0
  <2> DEFINE Right(g) == g = [i \in 1 .. n |-> IF i = 1 THEN seqs[i] ELSE g[i - 1] \o seqs[i]]
             flatten == CHOOSE g : Right(g)
             h == [i \in 1 .. n |-> f[i]]
  <2>1. FlattenSeq(seqs) = flatten[n]
    BY <1>8 DEF FlattenSeq, n
  <2>2. Right(h)
    <3>1. \A i \in 1 .. n : h[i] = IF i = 1 THEN seqs[i] ELSE h[i - 1] \o seqs[i]
      <4> SUFFICES ASSUME NEW i \in 1 .. n PROVE h[i] = IF i = 1 THEN seqs[i] ELSE h[i - 1] \o seqs[i]
        OBVIOUS
      <4>1. CASE i = 1
        <5>1. f[i] = f[i - 1] \o seqs[i] /\ i - 1 = 0 /\ seqs[i] \in Seq(S)
          <6>1. f[i] = f[i - 1] \o seqs[i]
            BY <1>6, Zenon
          <6>2. i - 1 = 0 /\ seqs[i] \in Seq(S)
            BY <1>1, <4>1
          <6> QED BY <6>1, <6>2, Zenon
        <5>2. f[i] = <<>> \o seqs[i]
          BY <1>5, <5>1
        <5>3. <<>> \o seqs[i] = seqs[i]
          BY <5>1
        <5>4. h[i] = f[i]
          OBVIOUS
        <5> HIDE DEF h
        <5> QED BY <4>1, <5>2, <5>3, <5>4
      <4>2. CASE i # 1
        <5>1. i - 1 \in 1 .. n
          BY <1>1, <4>2
        <5> QED BY <1>6, <4>2, <5>1
      <4> QED BY <4>1, <4>2
    <3>2. h = [i \in 1 .. n |-> h[i]]
      OBVIOUS
    <3> HIDE DEF h
    <3> QED BY <3>1, <3>2
  <2>3. Right(flatten)
    <3> HIDE DEF Right, h
    <3> QED BY <2>2
  <2>4. flatten = [i \in 1 .. n |-> IF i = 1 THEN seqs[i] ELSE flatten[i - 1] \o seqs[i]]
    BY <2>3
  <2> HIDE DEF flatten, Right, h
  <2> DEFINE Good == {x \in (0 .. n) \X Seq(S) : x[1] # 0 => flatten[x[1]] = x[2]}
  <2>5. \A i \in 0 .. n : <<i, f[i]>> \in Good
    <3>1. <<0, f[0]>> \in Good
      BY <1>1, <1>5
    <3>2. ASSUME NEW i \in 1 .. n, <<i - 1, f[i - 1]>> \in Good PROVE <<i, f[i]>> \in Good
      <4>1. i - 1 \in 0 .. n /\ f[i] \in Seq(S) /\ i \in 0 .. n
        BY <1>1, <1>5
      <4>2. CASE i = 1
        <5>1. flatten[i] = seqs[i]
          BY <2>4, <4>2
        <5>2. f[i] = f[i - 1] \o seqs[i] /\ i - 1 = 0 /\ seqs[i] \in Seq(S)
          <6>1. f[i] = f[i - 1] \o seqs[i]
            BY <1>6, Zenon
          <6>2. i - 1 = 0 /\ seqs[i] \in Seq(S)
            BY <1>1, <4>2
          <6> QED BY <6>1, <6>2, Zenon
        <5>3. f[i] = <<>> \o seqs[i]
          BY <1>5, <5>2
        <5>4. <<>> \o seqs[i] = seqs[i]
          BY <5>2
        <5> QED BY <4>1, <5>1, <5>3, <5>4
      <4>3. CASE i # 1
        <5>1. flatten[i] = flatten[i - 1] \o seqs[i]
          BY <2>4, <4>3
        <5>2. flatten[i - 1] = f[i - 1]
          BY <3>2, <4>3
        <5> QED BY <1>6, <4>1, <5>1, <5>2
      <4> QED BY <4>2, <4>3
    <3> HIDE DEF Good
    <3> QED BY <1>1, <3>1, <3>2, StepsReach
  <2>6. flatten[n] = f[n]
    <3>1. n \in 0 .. n
      BY <1>1
    <3>2. <<n, f[n]>> \in Good
      BY <2>5, <3>1
    <3> QED BY <1>8, <3>2
  <2> QED BY <1>5, <1>6, <2>1, <2>6 DEF n
<1> QED BY <1>7, <1>8

\* Pairs one after another.
Pairwise(u, pairs, n) ==
    Len(u) = 2 * n /\ \A k \in 1 .. n : u[2 * k - 1] = pairs[k][1] /\ u[2 * k] = pairs[k][2]
LEMMA FlatPairs ==
    ASSUME NEW S, NEW n \in Nat, NEW pairs \in [1 .. n -> S \X S]
    PROVE  FlattenSeq(pairs) \in Seq(S) /\ Pairwise(FlattenSeq(pairs), pairs, n)
<1>1. pairs \in Seq(Seq(S)) /\ Len(pairs) = n
  <2>1. \A x \in S \X S : x \in Seq(S)
    <3> SUFFICES ASSUME NEW a \in S, NEW b \in S PROVE <<a, b>> \in Seq(S)
      OBVIOUS
    <3> QED OBVIOUS
  <2> QED BY <2>1
<1>2. PICK f \in [0 .. n -> Seq(S)] :
          /\ f[0] = <<>> /\ FlattenSeq(pairs) = f[n]
          /\ \A i \in 1 .. n : f[i] = f[i - 1] \o pairs[i]
  BY <1>1, FlatSteps
<1> DEFINE Fits2(i, t) ==
              /\ t \in Seq(S) /\ Len(t) = 2 * i
              /\ \A k \in 1 .. i : t[2 * k - 1] = pairs[k][1] /\ t[2 * k] = pairs[k][2]
           Good == {x \in (0 .. n) \X Seq(S) : Fits2(x[1], x[2])}
<1>3. <<0, f[0]>> \in Good
  BY <1>2
<1>4. ASSUME NEW i \in 1 .. n, <<i - 1, f[i - 1]>> \in Good PROVE <<i, f[i]>> \in Good
  <2> DEFINE t == f[i - 1]
             x == pairs[i]
             u == f[i]
  <2>1. /\ t \in Seq(S) /\ Len(t) = 2 * (i - 1) /\ x \in Seq(S) /\ Len(x) = 2 /\ u = t \o x
        /\ \A k \in 1 .. i - 1 : t[2 * k - 1] = pairs[k][1] /\ t[2 * k] = pairs[k][2]
        /\ x[1] = pairs[i][1] /\ x[2] = pairs[i][2] /\ i \in Nat /\ i \in 0 .. n
    <3>1. x \in Seq(S) /\ Len(x) = 2
      <4>1. x \in S \X S
        OBVIOUS
      <4>2. PICK a \in S, b \in S : x = <<a, b>>
        BY <4>1
      <4> HIDE DEF x
      <4> QED BY <4>2
    <3>2. Fits2(i - 1, t)
      BY <1>4
    <3>3. u = t \o x
      BY <1>2
    <3>4. x[1] = pairs[i][1] /\ x[2] = pairs[i][2] /\ i \in Nat /\ i \in 0 .. n
      OBVIOUS
    <3> HIDE DEF t, x, u
    <3> QED BY <3>1, <3>2, <3>3, <3>4
  <2> HIDE DEF t, x, u
  <2>2. u \in Seq(S) /\ Len(u) = 2 * i
    <3>1. Len(u) = Len(t) + Len(x) /\ u \in Seq(S)
      <4>1. t \in Seq(S) /\ x \in Seq(S) /\ u = t \o x
        BY <2>1
      <4>2. u \in Seq(S) /\ Joins(u, t, x)
        BY <4>1, JoinedLine
      <4> QED BY <4>2 DEF Joins
    <3> QED BY <2>1, <3>1
  <2>3. ASSUME NEW k \in 1 .. i PROVE u[2 * k - 1] = pairs[k][1] /\ u[2 * k] = pairs[k][2]
    <3>1. CASE k = i
      <4>1. /\ 2 * i - 1 \in 1 .. Len(t) + Len(x) /\ 2 * i \in 1 .. Len(t) + Len(x)
            /\ 2 * i - 1 > Len(t) /\ 2 * i > Len(t)
            /\ (2 * i - 1) - Len(t) = 1 /\ (2 * i) - Len(t) = 2
        BY <2>1
      <4>2. \A m \in 1 .. Len(t) + Len(x) : m > Len(t) => u[m] = x[m - Len(t)]
        <5>1. t \in Seq(S) /\ x \in Seq(S) /\ u = t \o x
          BY <2>1
        <5> HIDE <2>1
        <5> QED BY <5>1
      <4>3. u[2 * i - 1] = x[1] /\ u[2 * i] = x[2]
        BY <4>1, <4>2
      <4> QED BY <2>1, <3>1, <4>3
    <3>2. CASE k # i
      <4>1. k \in 1 .. i - 1 /\ 2 * k \in 1 .. 2 * (i - 1) /\ 2 * k - 1 \in 1 .. 2 * (i - 1)
        BY <2>1, <3>2
      <4>2. u[2 * k - 1] = t[2 * k - 1] /\ u[2 * k] = t[2 * k]
        BY SMTT(40), <2>1, <4>1
      <4> QED BY <2>1, <4>1, <4>2
    <3> QED BY <3>1, <3>2
  <2>4. Fits2(i, u)
    BY <2>2, <2>3
  <2> QED BY <2>1, <2>2, <2>4 DEF u
<1>5. \A i \in 0 .. n : <<i, f[i]>> \in Good
  <2> HIDE DEF Good
  <2> QED BY <1>3, <1>4, StepsReach
<1>6. Fits2(n, f[n])
  <2>1. n \in 0 .. n
    OBVIOUS
  <2>2. <<n, f[n]>> \in Good
    BY <1>5, <2>1
  <2> HIDE DEF Fits2
  <2> QED BY <2>2
<1>7. f[n] \in Seq(S) /\ Pairwise(f[n], pairs, n)
  BY <1>6 DEF Pairwise
<1> QED BY <1>2, <1>7
=============================================================================
