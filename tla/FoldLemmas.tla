----------------------------- MODULE FoldLemmas -----------------------------
(***************************************************************************)
(* Lemmas about the folds of several records into one: FoldSet, by which   *)
(* the models add one record after another, and the components of          *)
(* PairGroups, by which they say which records are one.  An operator is    *)
(* given here as a function over what it is applied to.                    *)
(***************************************************************************)
EXTENDS PairGroups, FiniteSetsExt, FiniteSetTheorems, WellFoundedInduction, NaturalsInduction, TLAPS

\* A set of naturals that is not empty has a least element.
LEMMA LeastNatural ==
    ASSUME NEW T, T \subseteq Nat, T # {}
    PROVE  \E n \in T : \A m \in T : n <= m
<1> DEFINE R == {p \in Nat \X Nat : p[1] < p[2]}
<1>1. IsWellFoundedOn(R, Nat)
  BY NatLessThanWellFounded DEF OpToRel
<1> HIDE DEF R
<1>2. PICK x \in T : \A y \in T : ~ (<<y, x>> \in R)
  BY <1>1, WFMin
<1>3. ASSUME NEW y \in T PROVE x <= y
  <2>1. ~ (y < x)
    BY <1>2 DEF R
  <2> QED BY <2>1
<1> QED BY <1>3

\* The least of a set of naturals is one of them and no greater than any.
LEMMA MinBelongs ==
    ASSUME NEW T, T \subseteq Nat, T # {}
    PROVE  Min(T) \in T /\ \A m \in T : Min(T) <= m
BY LeastNatural DEF Min

\* The greatest of numbers up to n is one of them and no less than any.
LEMMA MaxBelongs ==
    ASSUME NEW n \in Nat, NEW T, T \subseteq 0 .. n, T # {}
    PROVE  Max(T) \in T /\ \A m \in T : m <= Max(T)
<1> DEFINE below == {n - m : m \in T}
<1>1. below \subseteq Nat /\ below # {}
  <2>1. \A m \in T : n - m \in Nat
    <3> SUFFICES ASSUME NEW m \in T PROVE n - m \in Nat
      OBVIOUS
    <3>1. m \in 0 .. n
      OBVIOUS
    <3> QED BY <3>1
  <2> QED BY <2>1
<1>2. PICK k \in below : \A m \in below : k <= m
  <2> HIDE DEF below
  <2> QED BY <1>1, LeastNatural
<1>3. PICK x \in T : k = n - x
  BY <1>2
<1>4. ASSUME NEW m \in T PROVE m <= x
  <2>1. n - m \in below /\ m \in 0 .. n /\ x \in 0 .. n
    OBVIOUS
  <2>2. n - x <= n - m
    BY <1>2, <1>3, <2>1
  <2> QED BY <2>1, <2>2
<1> QED BY <1>3, <1>4 DEF Max

\* A set of naturals that holds zero and with each number the next holds all.
LEMMA AllNaturals ==
    ASSUME NEW G, 0 \in G, \A n \in Nat : n \in G => n + 1 \in G
    PROVE  Nat \subseteq G
<1> DEFINE T == Nat \ G
<1>1. SUFFICES ASSUME T # {} PROVE FALSE
  OBVIOUS
<1>2. PICK n \in T : \A m \in T : n <= m
  <2>1. T \subseteq Nat
    OBVIOUS
  <2> HIDE DEF T
  <2> QED BY <1>1, <2>1, LeastNatural
<1>3. n \in Nat /\ n # 0 /\ n \notin G
  BY <1>2
<1>4. n - 1 \in Nat /\ n - 1 \notin T
  BY <1>2, <1>3
<1> QED
  BY <1>3, <1>4

Picked(s) == CHOOSE x \in s : TRUE

\* What the empty set has, and a set has once it has it without the element
\* picked from it, every subset of a finite set has.
LEMMA AllSubsets ==
    ASSUME NEW S, IsFiniteSet(S), NEW G, {} \in G,
           \A s \in SUBSET S : s # {} /\ s \ {Picked(s)} \in G => s \in G
    PROVE  SUBSET S \subseteq G
<1> DEFINE N == {n \in Nat : \A s \in SUBSET S : Cardinality(s) = n => s \in G}
<1>0. \A s \in SUBSET S : IsFiniteSet(s) /\ Cardinality(s) \in Nat
  BY FS_Subset, FS_CardinalityType
<1>1. 0 \in N
  <2>1. \A s \in SUBSET S : Cardinality(s) = 0 => s = {}
    BY <1>0, FS_EmptySet
  <2> QED BY <2>1
<1>2. ASSUME NEW n \in Nat, n \in N PROVE n + 1 \in N
  <2> SUFFICES ASSUME NEW s \in SUBSET S, Cardinality(s) = n + 1 PROVE s \in G
    OBVIOUS
  <2>1. s # {}
    BY FS_EmptySet
  <2>2. Picked(s) \in s
    BY <2>1 DEF Picked
  <2>3. Cardinality(s \ {Picked(s)}) = n
    BY <1>0, <2>2, FS_RemoveElement
  <2>4. s \ {Picked(s)} \in SUBSET S
    OBVIOUS
  <2>5. s \ {Picked(s)} \in G
    BY <1>2, <2>3, <2>4
  <2> QED
    BY <2>1, <2>5
<1>3. Nat \subseteq N
  <2> HIDE DEF N
  <2> QED BY <1>1, <1>2, AllNaturals
<1> QED
  BY <1>0, <1>3

\* The function by which a fold is defined exists, and stays in what the
\* operator is closed over, whichever element is picked first.
FoldsInTurn(f, S, pick, op, base) ==
    f = [s \in SUBSET S |-> IF s = {} THEN base ELSE op[<<pick[s], f[s \ {pick[s]}]>>]]
LEMMA FoldInTurnExists ==
    ASSUME NEW S, IsFiniteSet(S), NEW T, NEW op \in [S \X T -> T], NEW base \in T,
           NEW pick, \A s \in SUBSET S : s # {} => pick[s] \in s
    PROVE  \E f \in [SUBSET S -> T] : FoldsInTurn(f, S, pick, op, base)
<1> DEFINE Small(n) == {s \in SUBSET S : Cardinality(s) <= n}
           Right(f, s) == f[s] = IF s = {} THEN base ELSE op[<<pick[s], f[s \ {pick[s]}]>>]
           Has(n) == \E f \in [Small(n) -> T] : \A s \in Small(n) : Right(f, s)
           G == {n \in Nat : Has(n)}
<1>0. \A s \in SUBSET S : IsFiniteSet(s) /\ Cardinality(s) \in Nat /\ Cardinality(s) <= Cardinality(S)
  BY FS_Subset, FS_CardinalityType
<1>1. \A n \in Nat : \A s \in Small(n + 1) \ {{}} :
          pick[s] \in S /\ s \ {pick[s]} \in Small(n)
  <2> SUFFICES ASSUME NEW n \in Nat, NEW s \in Small(n + 1), s # {}
               PROVE  pick[s] \in S /\ s \ {pick[s]} \in Small(n)
    OBVIOUS
  <2>1. pick[s] \in s
    OBVIOUS
  <2>2. Cardinality(s \ {pick[s]}) = Cardinality(s) - 1
    BY <1>0, <2>1, FS_RemoveElement
  <2> QED
    BY <1>0, <2>1, <2>2
<1>2. 0 \in G
  <2> DEFINE f == [s \in Small(0) |-> base]
  <2>1. \A s \in Small(0) : s = {}
    BY <1>0, FS_EmptySet
  <2>2. f \in [Small(0) -> T] /\ \A s \in Small(0) : Right(f, s)
    BY <2>1
  <2> QED BY <2>2
<1>3. ASSUME NEW n \in Nat, n \in G PROVE n + 1 \in G
  <2>1. PICK f \in [Small(n) -> T] : \A s \in Small(n) : Right(f, s)
    BY <1>3
  <2> DEFINE g == [s \in Small(n + 1) |-> IF s = {} THEN base
                                           ELSE op[<<pick[s], f[s \ {pick[s]}]>>]]
  <2>2. g \in [Small(n + 1) -> T]
    <3> SUFFICES ASSUME NEW s \in Small(n + 1), s # {}
                 PROVE  op[<<pick[s], f[s \ {pick[s]}]>>] \in T
      OBVIOUS
    <3>1. pick[s] \in S /\ s \ {pick[s]} \in Small(n)
      BY <1>1
    <3>2. f[s \ {pick[s]}] \in T
      BY <3>1
    <3> QED BY <3>1, <3>2
  <2>3. ASSUME NEW s \in Small(n) PROVE s \in Small(n + 1) /\ g[s] = f[s]
    <3>1. s \in Small(n + 1)
      BY <1>0
    <3>2. g[s] = IF s = {} THEN base ELSE op[<<pick[s], f[s \ {pick[s]}]>>]
      BY <3>1
    <3>3. f[s] = IF s = {} THEN base ELSE op[<<pick[s], f[s \ {pick[s]}]>>]
      BY <2>1
    <3> QED BY <3>1, <3>2, <3>3
  <2>4. ASSUME NEW s \in Small(n + 1) PROVE Right(g, s)
    <3>1. CASE s = {}
      BY <3>1
    <3>2. CASE s # {}
      <4>1. s \ {pick[s]} \in Small(n)
        BY <1>1, <3>2
      <4>2. g[s \ {pick[s]}] = f[s \ {pick[s]}]
        BY <2>3, <4>1
      <4> QED BY <3>2, <4>2
    <3> QED BY <3>1, <3>2
  <2>5. Has(n + 1)
    <3> HIDE DEF g, Small, Right
    <3> QED BY <2>2, <2>4
  <2> HIDE DEF Has
  <2> QED
    BY <2>5
<1>4. Cardinality(S) \in G
  <2>1. Cardinality(S) \in Nat
    BY FS_CardinalityType
  <2> HIDE DEF G
  <2> QED BY <1>2, <1>3, <2>1, AllNaturals
<1>5. Small(Cardinality(S)) = SUBSET S
  BY <1>0
<1>6. PICK f \in [SUBSET S -> T] : \A s \in SUBSET S : Right(f, s)
  <2> HIDE DEF Small, Right
  <2> QED BY <1>4, <1>5
<1> QED
  BY SMTT(40), <1>6 DEF FoldsInTurn

\* With the element CHOOSE picks.
FoldsBy(f, S, op, base) ==
    f = [s \in SUBSET S |-> IF s = {} THEN base ELSE op[<<Picked(s), f[s \ {Picked(s)}]>>]]
LEMMA FoldExists ==
    ASSUME NEW S, IsFiniteSet(S), NEW T, NEW op \in [S \X T -> T], NEW base \in T
    PROVE  \E f \in [SUBSET S -> T] : FoldsBy(f, S, op, base)
<1> DEFINE pick == [s \in SUBSET S |-> Picked(s)]
<1>1. \A s \in SUBSET S : s # {} => pick[s] \in s
  BY DEF Picked
<1>2. \A s \in SUBSET S : pick[s] = Picked(s)
  OBVIOUS
<1> HIDE DEF pick
<1>3. PICK f \in [SUBSET S -> T] : FoldsInTurn(f, S, pick, op, base)
  BY <1>1, FoldInTurnExists
<1>4. FoldsBy(f, S, op, base)
  BY <1>2, <1>3 DEF FoldsInTurn, FoldsBy
<1> QED BY <1>4

\* Whatever holds of the first value and of nothing folded, and goes on to hold
\* with each one folded, holds of the whole: pairs of what has been folded and
\* what it has come to.
LEMMA FoldReaches ==
    ASSUME NEW S, IsFiniteSet(S), NEW T, NEW op, NEW base \in T, NEW f, NEW Good,
           f[{}] = base, <<{}, base>> \in Good,
           \A s \in SUBSET S : s # {} /\ f[s \ {Picked(s)}] \in T =>
               f[s] = op[<<Picked(s), f[s \ {Picked(s)}]>>],
           \A s \in SUBSET S : \A x \in S \ s : \A t \in T : <<s, t>> \in Good =>
               op[<<x, t>>] \in T /\ <<s \cup {x}, op[<<x, t>>]>> \in Good
    PROVE  f[S] \in T /\ <<S, f[S]>> \in Good
<1> DEFINE G == {s \in SUBSET S : f[s] \in T /\ <<s, f[s]>> \in Good}
<1>1. {} \in G
  OBVIOUS
<1>2. ASSUME NEW s \in SUBSET S, s # {}, s \ {Picked(s)} \in G PROVE s \in G
  <2> DEFINE x == Picked(s)
             rest == s \ {x}
  <2>1. x \in s
    BY <1>2 DEF Picked
  <2>2. rest \in SUBSET S /\ x \in S \ rest /\ rest \cup {x} = s
    BY <2>1
  <2>3. f[rest] \in T /\ <<rest, f[rest]>> \in Good
    BY <1>2
  <2>4. f[s] = op[<<x, f[rest]>>]
    BY <1>2, <2>3
  <2> HIDE DEF x, rest
  <2>5. op[<<x, f[rest]>>] \in T /\ <<rest \cup {x}, op[<<x, f[rest]>>]>> \in Good
    BY <2>2, <2>3
  <2> QED BY <2>2, <2>4, <2>5
<1>3. SUBSET S \subseteq G
  <2> HIDE DEF G
  <2> QED BY <1>1, <1>2, AllSubsets
<1> QED BY <1>3

\* The function a fold from left to right over n places is defined by: the
\* last place is folded into what the others come to.
FoldsLine(f, n, op, base) ==
    f = [s \in SUBSET (1 .. n) |-> IF s = {} THEN base ELSE op[<<Max(s), f[s \ {Max(s)}]>>]]
LEMMA LineFoldExists ==
    ASSUME NEW n \in Nat, NEW T, NEW op \in [(1 .. n) \X T -> T], NEW base \in T
    PROVE  \E f \in [SUBSET (1 .. n) -> T] : FoldsLine(f, n, op, base)
<1> DEFINE S == 1 .. n
           pick == [s \in SUBSET S |-> Max(s)]
<1>1. IsFiniteSet(S)
  BY FS_Interval
<1>2. \A s \in SUBSET S : s # {} => pick[s] \in s
  <2> SUFFICES ASSUME NEW s \in SUBSET S, s # {} PROVE Max(s) \in s
    OBVIOUS
  <2>1. s \subseteq 0 .. n
    OBVIOUS
  <2> QED BY <2>1, MaxBelongs
<1>3. \A s \in SUBSET S : pick[s] = Max(s)
  OBVIOUS
<1> HIDE DEF pick, S
<1>4. PICK f \in [SUBSET S -> T] : FoldsInTurn(f, S, pick, op, base)
  <2>1. op \in [S \X T -> T]
    BY DEF S
  <2> QED BY <1>1, <1>2, <2>1, FoldInTurnExists
<1>5. f = [s \in SUBSET S |-> IF s = {} THEN base ELSE op[<<Max(s), f[s \ {Max(s)}]>>]]
  BY <1>3, <1>4 DEF FoldsInTurn
<1> QED
  BY <1>4, <1>5 DEF FoldsLine, S

\* Whatever holds of the first value, and goes on to hold with each place
\* folded, holds of the whole: pairs of how many are folded and the value.
LEMMA LineFoldReaches ==
    ASSUME NEW n \in Nat, NEW T, NEW op, NEW base \in T, NEW f, NEW Good,
           f[{}] = base, <<0, base>> \in Good,
           \A s \in SUBSET (1 .. n) : s # {} /\ f[s \ {Max(s)}] \in T =>
               f[s] = op[<<Max(s), f[s \ {Max(s)}]>>],
           \A i \in 1 .. n : \A t \in T : <<i - 1, t>> \in Good =>
               op[<<i, t>>] \in T /\ <<i, op[<<i, t>>]>> \in Good
    PROVE  f[1 .. n] \in T /\ <<n, f[1 .. n]>> \in Good
<1> DEFINE G == {k \in Nat : k <= n => f[1 .. k] \in T /\ <<k, f[1 .. k]>> \in Good}
<1>1. 0 \in G
  <2>1. 1 .. 0 = {}
    OBVIOUS
  <2> QED BY <2>1
<1>2. ASSUME NEW k \in Nat, k \in G PROVE k + 1 \in G
  <2> SUFFICES ASSUME k + 1 <= n
               PROVE  f[1 .. k + 1] \in T /\ <<k + 1, f[1 .. k + 1]>> \in Good
    OBVIOUS
  <2> DEFINE s == 1 .. k + 1
  <2>1. s \in SUBSET (1 .. n) /\ s # {} /\ s \ {k + 1} = 1 .. k
    <3>1. k + 1 \in s
      OBVIOUS
    <3>2. \A i \in s \ {k + 1} : i \in 1 .. k
      OBVIOUS
    <3>3. \A i \in 1 .. k : i \in s \ {k + 1}
      OBVIOUS
    <3>4. \A i \in s : i \in 1 .. n
      OBVIOUS
    <3> HIDE DEF s
    <3>5. s \ {k + 1} = 1 .. k
      BY <3>2, <3>3
    <3> QED BY <3>1, <3>4, <3>5
  <2>2. Max(s) = k + 1
    BY DEF Max
  <2>3. f[1 .. k] \in T /\ <<k, f[1 .. k]>> \in Good
    BY <1>2
  <2> HIDE DEF s
  <2>4. f[s] = op[<<k + 1, f[1 .. k]>>]
    BY <2>1, <2>2, <2>3
  <2>5. k + 1 \in 1 .. n /\ (k + 1) - 1 = k
    OBVIOUS
  <2>6. op[<<k + 1, f[1 .. k]>>] \in T /\ <<k + 1, op[<<k + 1, f[1 .. k]>>]>> \in Good
    BY <2>3, <2>5
  <2>7. f[s] \in T /\ <<k + 1, f[s]>> \in Good
    BY <2>4, <2>6
  <2> QED BY <2>7 DEF s
<1>3. n \in G
  <2> HIDE DEF G
  <2> QED BY <1>1, <1>2, AllNaturals
<1> QED BY <1>3

-----------------------------------------------------------------------------
\* A function on the naturals that is given by a first value and a step exists.
Iterating(f, op, first) == f = [n \in Nat |-> IF n = 0 THEN first ELSE op[f[n - 1]]]
LEMMA IterationExists ==
    ASSUME NEW T, NEW op \in [T -> T], NEW first \in T
    PROVE  \E f \in [Nat -> T] : Iterating(f, op, first)
<1> DEFINE Upto(f, n) == \A m \in 0 .. n : f[m] = IF m = 0 THEN first ELSE op[f[m - 1]]
           Has(n) == \E f \in [0 .. n -> T] : Upto(f, n)
           G == {n \in Nat : Has(n)}
           F(n) == CHOOSE f \in [0 .. n -> T] : Upto(f, n)
           f == [n \in Nat |-> F(n)[n]]
<1>1. 0 \in G
  <2> DEFINE g == [m \in 0 .. 0 |-> first]
  <2>1. g \in [0 .. 0 -> T] /\ Upto(g, 0)
    OBVIOUS
  <2> QED BY <2>1
<1>2. ASSUME NEW n \in Nat, n \in G PROVE n + 1 \in G
  <2>1. PICK h \in [0 .. n -> T] : Upto(h, n)
    BY <1>2
  <2> DEFINE g == [m \in 0 .. n + 1 |-> IF m = n + 1 THEN op[h[n]] ELSE h[m]]
  <2>2. g \in [0 .. n + 1 -> T]
    OBVIOUS
  <2>3. \A m \in 0 .. n : m \in 0 .. n + 1 /\ g[m] = h[m]
    OBVIOUS
  <2>4. ASSUME NEW m \in 0 .. n + 1 PROVE g[m] = IF m = 0 THEN first ELSE op[g[m - 1]]
    <3>1. CASE m = n + 1
      <4>1. g[n + 1] = op[h[n]] /\ g[n] = h[n] /\ n + 1 # 0 /\ (n + 1) - 1 = n
        BY <2>3
      <4> HIDE DEF g
      <4> QED BY <3>1, <4>1
    <3>2. CASE m = 0
      <4>1. 0 \in 0 .. n
        OBVIOUS
      <4> HIDE DEF g
      <4> QED BY <2>1, <2>3, <3>2, <4>1
    <3>3. CASE m \in 1 .. n
      <4>1. m \in 0 .. n /\ m - 1 \in 0 .. n /\ m # 0
        BY <3>3
      <4> HIDE DEF g
      <4> QED BY <2>1, <2>3, <4>1
    <3> QED BY <3>1, <3>2, <3>3
  <2>5. Has(n + 1)
    <3> HIDE DEF g
    <3> QED BY <2>2, <2>4
  <2> HIDE DEF Has
  <2> QED BY <2>5
<1>3. \A n \in Nat : Has(n)
  <2>1. Nat \subseteq G
    <3> HIDE DEF G
    <3> QED BY <1>1, <1>2, AllNaturals
  <2> QED BY <2>1
<1>4. \A n \in Nat : F(n) \in [0 .. n -> T] /\ Upto(F(n), n)
  BY <1>3
<1> HIDE DEF F
\* one that goes further agrees
<1>5. ASSUME NEW n \in Nat
      PROVE  F(n + 1)[n] = F(n)[n]
  <2> DEFINE S == {m \in Nat : m <= n => F(n + 1)[m] = F(n)[m]}
  <2>1. 0 \in S
    BY <1>4
  <2>2. ASSUME NEW m \in Nat, m \in S PROVE m + 1 \in S
    <3> SUFFICES ASSUME m + 1 <= n PROVE F(n + 1)[m + 1] = F(n)[m + 1]
      OBVIOUS
    <3>1. F(n + 1)[m] = F(n)[m]
      BY <2>2
    <3>2. m + 1 \in 0 .. n + 1 /\ m + 1 \in 0 .. n /\ m + 1 # 0 /\ (m + 1) - 1 = m
      OBVIOUS
    <3>3. F(n + 1)[m + 1] = op[F(n + 1)[m]] /\ F(n)[m + 1] = op[F(n)[m]]
      BY <1>4, <3>2
    <3> QED BY <3>1, <3>3
  <2>3. Nat \subseteq S
    <3> HIDE DEF S
    <3> QED BY <2>1, <2>2, AllNaturals
  <2> QED BY <2>3
<1>6. f \in [Nat -> T]
  BY <1>4
<1>7. ASSUME NEW n \in Nat PROVE f[n] = IF n = 0 THEN first ELSE op[f[n - 1]]
  <2>1. CASE n = 0
    BY <1>4, <2>1
  <2>2. CASE n # 0
    <3>1. n - 1 \in Nat /\ (n - 1) + 1 = n
      BY <2>2
    <3>2. F(n)[n] = op[F(n)[n - 1]]
      BY <1>4, <2>2
    <3>3. F(n)[n - 1] = F(n - 1)[n - 1]
      BY <1>5, <3>1
    <3> QED BY <2>2, <3>1, <3>2, <3>3
  <2> QED BY <2>1, <2>2
<1>8. Iterating(f, op, first)
  BY <1>7 DEF Iterating
<1> QED BY <1>6, <1>8

-----------------------------------------------------------------------------
(* Components. *)

Onto(inner, pairs, open) == {q \in open : \E p \in inner : {p, q} \in pairs}

\* What a node reaches in so many steps, as a function.
LEMMA BallStep ==
    ASSUME NEW pairs, NEW open, NEW from
    PROVE  \A n \in Nat : Ball(from, pairs, open)[n] =
              IF n = 0 THEN from
              ELSE Ball(from, pairs, open)[n - 1] \cup
                   Onto(Ball(from, pairs, open)[n - 1], pairs, open)
<1> DEFINE T == SUBSET (from \cup open)
           op == [inner \in T |-> inner \cup Onto(inner, pairs, open)]
           Right(ball) == ball = [n \in Nat |-> IF n = 0 THEN from
                              ELSE ball[n - 1] \cup Onto(ball[n - 1], pairs, open)]
<1>1. PICK f \in [Nat -> T] : Iterating(f, op, from)
  <2>1. op \in [T -> T] /\ from \in T
    BY DEF Onto
  <2> HIDE DEF T, op
  <2> QED BY <2>1, IterationExists
<1>2. ASSUME NEW n \in Nat, n # 0
      PROVE  op[f[n - 1]] = f[n - 1] \cup Onto(f[n - 1], pairs, open)
  <2>1. f[n - 1] \in T
    BY <1>2
  <2> QED BY <2>1
<1>3. Right(f)
  BY <1>1, <1>2 DEF Iterating
<1>4. Ball(from, pairs, open) = CHOOSE ball : Right(ball)
  BY DEF Ball, Onto
<1> HIDE DEF Right
<1>5. Right(Ball(from, pairs, open))
  BY <1>3, <1>4
<1> QED
  BY <1>5 DEF Right

\* What is within reach only grows, stays within what may be reached, and within
\* whatever pairs do not lead out of.
LEMMA BallGrows ==
    ASSUME NEW pairs, NEW open, NEW from
    PROVE  /\ Ball(from, pairs, open)[0] = from
           /\ \A n \in Nat :
                 /\ Ball(from, pairs, open)[n + 1] = Ball(from, pairs, open)[n] \cup
                        Onto(Ball(from, pairs, open)[n], pairs, open)
                 /\ Ball(from, pairs, open)[n] \subseteq from \cup open
                 /\ from \subseteq Ball(from, pairs, open)[n]
<1> DEFINE ball == Ball(from, pairs, open)
           G == {n \in Nat : ball[n] \subseteq from \cup open /\ from \subseteq ball[n]}
<1>1. \A n \in Nat : ball[n] = IF n = 0 THEN from
                               ELSE ball[n - 1] \cup Onto(ball[n - 1], pairs, open)
  BY BallStep
<1> HIDE DEF ball
<1>2. ball[0] = from
  BY <1>1
<1>3. ASSUME NEW n \in Nat
      PROVE  ball[n + 1] = ball[n] \cup Onto(ball[n], pairs, open)
  <2>1. n + 1 \in Nat /\ n + 1 # 0 /\ (n + 1) - 1 = n
    OBVIOUS
  <2> QED BY <1>1, <2>1
<1>4. 0 \in G
  BY <1>2
<1>5. ASSUME NEW n \in Nat, n \in G PROVE n + 1 \in G
  <2>1. ball[n] \subseteq ball[n + 1] /\ ball[n + 1] \subseteq ball[n] \cup open
    BY <1>3 DEF Onto
  <2> QED BY <1>5, <2>1
<1>6. Nat \subseteq G
  <2> HIDE DEF G
  <2> QED BY <1>4, <1>5, AllNaturals
<1> QED
  BY <1>2, <1>3, <1>6 DEF ball

LEMMA BallStaysWithin ==
    ASSUME NEW pairs, NEW open, NEW from, NEW D, from \subseteq D,
           \A p \in D : \A q \in open : {p, q} \in pairs => q \in D
    PROVE  \A n \in Nat : Ball(from, pairs, open)[n] \subseteq D
<1> DEFINE ball == Ball(from, pairs, open)
           G == {n \in Nat : ball[n] \subseteq D}
<1>0. /\ ball[0] = from
      /\ \A n \in Nat : ball[n + 1] = ball[n] \cup Onto(ball[n], pairs, open)
  BY BallGrows
<1> HIDE DEF ball
<1>1. 0 \in G
  BY <1>0
<1>2. ASSUME NEW n \in Nat, n \in G PROVE n + 1 \in G
  <2>1. Onto(ball[n], pairs, open) \subseteq D
    BY <1>2 DEF Onto
  <2> QED BY <1>0, <1>2, <2>1
<1>3. Nat \subseteq G
  <2> HIDE DEF G
  <2> QED BY <1>1, <1>2, AllNaturals
<1> QED
  BY <1>3 DEF ball

\* After as many steps as there are nodes nothing more comes within reach.
LEMMA BallCloses ==
    ASSUME NEW pairs, NEW nodes, IsFiniteSet(nodes), NEW p \in nodes
    PROVE  \A x \in Component(p, nodes, pairs) : \A q \in nodes :
                {x, q} \in pairs => q \in Component(p, nodes, pairs)
<1> DEFINE ball == Ball({p}, pairs, nodes)
           Wide(n) == Cardinality(ball[n]) >= n + 1 \/ ball[n + 1] = ball[n]
           G == {n \in Nat : Wide(n)}
           N == Cardinality(nodes)
<1>0. /\ ball[0] = {p}
      /\ \A n \in Nat : /\ ball[n + 1] = ball[n] \cup Onto(ball[n], pairs, nodes)
                        /\ ball[n] \subseteq nodes
  <2>1. {p} \cup nodes = nodes
    OBVIOUS
  <2>2. /\ ball[0] = {p}
        /\ \A n \in Nat : /\ ball[n + 1] = ball[n] \cup Onto(ball[n], pairs, nodes)
                          /\ ball[n] \subseteq {p} \cup nodes
    BY BallGrows
  <2> HIDE DEF ball
  <2> QED BY <2>1, <2>2
<1> HIDE DEF ball
<1>1. \A n \in Nat : IsFiniteSet(ball[n]) /\ Cardinality(ball[n]) \in Nat /\ Cardinality(ball[n]) <= N
  BY <1>0, FS_Subset, FS_CardinalityType
<1>2. 0 \in G
  <2>1. Cardinality(ball[0]) = 1
    BY <1>0, FS_Singleton
  <2> QED BY <2>1
<1>3. ASSUME NEW n \in Nat, n \in G PROVE n + 1 \in G
  <2>1. CASE ball[n + 1] = ball[n]
    <3>1. n + 1 \in Nat /\ ball[(n + 1) + 1] = ball[n + 1]
      <4>1. ball[(n + 1) + 1] = ball[n + 1] \cup Onto(ball[n + 1], pairs, nodes)
        BY <1>0
      <4>2. ball[n + 1] = ball[n] \cup Onto(ball[n], pairs, nodes)
        BY <1>0
      <4> QED BY <2>1, <4>1, <4>2
    <3> QED BY <3>1
  <2>2. CASE ball[n + 1] # ball[n]
    <3>1. Cardinality(ball[n]) >= n + 1
      BY <1>3, <2>2
    <3>2. ball[n] \subseteq ball[n + 1]
      BY <1>0
    <3>3. Cardinality(ball[n]) < Cardinality(ball[n + 1])
      <4>1. n + 1 \in Nat
        OBVIOUS
      <4>2. IsFiniteSet(ball[n + 1])
        BY <1>1, <4>1
      <4>3. Cardinality(ball[n]) <= Cardinality(ball[n + 1])
        BY <3>2, <4>2, FS_Subset
      <4>4. Cardinality(ball[n]) # Cardinality(ball[n + 1])
        BY <2>2, <3>2, <4>2, FS_Subset
      <4> QED BY <1>1, <4>1, <4>3, <4>4
    <3>4. Cardinality(ball[n + 1]) >= (n + 1) + 1
      BY <1>1, <3>1, <3>3
    <3> QED BY <3>4
  <2> QED BY <2>1, <2>2
<1>4. N \in Nat /\ Wide(N)
  <2>1. N \in Nat
    BY FS_CardinalityType
  <2>2. Nat \subseteq G
    <3> HIDE DEF G
    <3> QED BY <1>2, <1>3, AllNaturals
  <2> HIDE DEF Wide, N
  <2> QED BY <2>1, <2>2
<1>5. ball[N + 1] = ball[N]
  BY <1>1, <1>4
<1>6. \A x \in ball[N] : \A q \in nodes : {x, q} \in pairs => q \in ball[N]
  BY <1>0, <1>4, <1>5 DEF Onto
<1> QED
  BY <1>6 DEF Component, ball

\* Components part the nodes: each is its own element's, and two that share a
\* node are one.
LEMMA ComponentsPart ==
    ASSUME NEW pairs, NEW nodes, IsFiniteSet(nodes)
    PROVE  /\ \A p \in nodes : p \in Component(p, nodes, pairs) /\ Component(p, nodes, pairs) \subseteq nodes
           /\ \A p \in nodes : \A q \in Component(p, nodes, pairs) :
                  Component(q, nodes, pairs) = Component(p, nodes, pairs)
<1> DEFINE N == Cardinality(nodes)
           C(p) == Component(p, nodes, pairs)
<1>0. N \in Nat
  BY FS_CardinalityType
<1>1. ASSUME NEW p \in nodes PROVE p \in C(p) /\ C(p) \subseteq nodes
  <2>1. {p} \subseteq Ball({p}, pairs, nodes)[N] /\ Ball({p}, pairs, nodes)[N] \subseteq {p} \cup nodes
    BY <1>0, BallGrows
  <2> QED BY <2>1 DEF Component
<1>2. ASSUME NEW p \in nodes, NEW D, p \in D, \A x \in D : \A q \in nodes : {x, q} \in pairs => q \in D
      PROVE  C(p) \subseteq D
  <2>1. {p} \subseteq D
    BY <1>2
  <2>2. \A n \in Nat : Ball({p}, pairs, nodes)[n] \subseteq D
    BY <1>2, <2>1, BallStaysWithin
  <2> QED BY <1>0, <2>2 DEF Component
<1>3. ASSUME NEW p \in nodes, NEW x \in C(p), NEW q \in nodes, {x, q} \in pairs PROVE q \in C(p)
  BY <1>3, BallCloses
<1> HIDE DEF C
<1>4. ASSUME NEW p \in nodes, NEW q \in C(p) PROVE C(q) = C(p)
  <2>1. q \in nodes
    BY <1>1
  <2>2. C(q) \subseteq C(p)
    BY <1>2, <1>3, <2>1
  <2>3. p \in C(q)
    <3> DEFINE D == nodes \ C(q)
    <3>1. SUFFICES ASSUME p \in D PROVE FALSE
      OBVIOUS
    <3>2. \A x \in D : \A y \in nodes : {x, y} \in pairs => y \in D
      <4> SUFFICES ASSUME NEW x \in D, NEW y \in nodes, {x, y} \in pairs, y \in C(q)
                   PROVE  FALSE
        OBVIOUS
      <4>1. {y, x} \in pairs
        <5>1. {y, x} = {x, y}
          OBVIOUS
        <5> QED BY <5>1
      <4> QED BY <1>3, <2>1, <4>1
    <3>3. C(p) \subseteq D
      <4> HIDE DEF D
      <4> QED BY <1>2, <3>1, <3>2
    <3> QED BY <1>1, <2>1, <3>3
  <2>4. C(p) \subseteq C(q)
    BY <1>2, <1>3, <2>1, <2>3
  <2> QED BY <2>2, <2>4
<1> QED
  BY <1>1, <1>4 DEF C

-----------------------------------------------------------------------------
\* What is come to step by step, place after place, exists.
StepsWithin(step, n, T) == \A i \in 1 .. n, t \in T : step[<<i, t>>] \in T
StepsBy(f, n, T, step, first) ==
    f \in [0 .. n -> T] /\ f[0] = first /\ \A i \in 1 .. n : f[i] = step[<<i, f[i - 1]>>]
LEMMA StepsExist ==
    ASSUME NEW n \in Nat, NEW T, NEW step, StepsWithin(step, n, T), NEW first \in T
    PROVE  \E f : StepsBy(f, n, T, step, first)
<1> USE DEF StepsWithin
<1> DEFINE op == [x \in (1 .. n) \X T |-> step[<<x[1], x[2]>>]]
<1>0. op \in [(1 .. n) \X T -> T] /\ \A i \in 1 .. n, t \in T : op[<<i, t>>] = step[<<i, t>>]
  OBVIOUS
<1> HIDE DEF op
<1>1. PICK g \in [SUBSET (1 .. n) -> T] : FoldsLine(g, n, op, first)
  BY <1>0, LineFoldExists
<1> DEFINE f == [i \in 0 .. n |-> g[1 .. i]]
<1>2. f[0] = first
  <2>1. 1 .. 0 = {} /\ {} \in SUBSET (1 .. n)
    OBVIOUS
  <2>2. g[{}] = first
    BY <1>1, <2>1 DEF FoldsLine
  <2> QED BY <2>1, <2>2
<1>3. \A i \in 0 .. n : 1 .. i \in SUBSET (1 .. n)
  OBVIOUS
<1>4. f \in [0 .. n -> T]
  BY <1>3
<1>5. ASSUME NEW i \in 1 .. n PROVE f[i] = step[<<i, f[i - 1]>>]
  <2> DEFINE s == 1 .. i
  <2>1. s \in SUBSET (1 .. n) /\ i \in s /\ i - 1 \in 0 .. n /\ i \in 0 .. n
    OBVIOUS
  <2>2. s \ {i} = 1 .. (i - 1)
    <3>1. \A k \in s \ {i} : k \in 1 .. (i - 1)
      OBVIOUS
    <3>2. \A k \in 1 .. (i - 1) : k \in s \ {i}
      OBVIOUS
    <3> HIDE DEF s
    <3> QED BY <3>1, <3>2
  <2>3. Max(s) = i
    BY DEF Max
  <2>4. f[i] = g[s] /\ f[i - 1] = g[1 .. (i - 1)]
    BY <2>1
  <2> HIDE DEF s, f
  <2>5. g[s] = op[<<Max(s), g[s \ {Max(s)}]>>]
    BY <1>1, <2>1 DEF FoldsLine
  <2>6. f[i - 1] \in T
    BY <1>4, <2>1
  <2> QED BY <1>0, <2>2, <2>3, <2>4, <2>5, <2>6
<1> HIDE DEF f
<1> QED BY <1>2, <1>4, <1>5 DEF StepsBy

\* Whatever holds at first and goes on to hold with each step holds of each.
LEMMA StepsReach ==
    ASSUME NEW n \in Nat, NEW f, NEW Good, <<0, f[0]>> \in Good,
           \A i \in 1 .. n : <<i - 1, f[i - 1]>> \in Good => <<i, f[i]>> \in Good
    PROVE  \A i \in 0 .. n : <<i, f[i]>> \in Good
<1> DEFINE G == {k \in Nat : k <= n => <<k, f[k]>> \in Good}
<1>1. 0 \in G
  OBVIOUS
<1>2. ASSUME NEW k \in Nat, k \in G PROVE k + 1 \in G
  <2> SUFFICES ASSUME k + 1 <= n PROVE <<k + 1, f[k + 1]>> \in Good
    OBVIOUS
  <2>1. k + 1 \in 1 .. n /\ (k + 1) - 1 = k
    OBVIOUS
  <2>2. <<k, f[k]>> \in Good
    BY <1>2
  <2> QED BY <2>1, <2>2
<1>3. Nat \subseteq G
  <2> HIDE DEF G
  <2> QED BY <1>1, <1>2, AllNaturals
<1> QED BY <1>3
=============================================================================
