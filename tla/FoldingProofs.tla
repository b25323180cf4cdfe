--------------------------- MODULE FoldingProofs ---------------------------
(***************************************************************************)
(* Theorems about Folding: the types, what the plan of a run respects, and *)
(* that the folds of runs and of the panel leave nobody out of the graph.  *)
(***************************************************************************)
EXTENDS Folding, MergeLemmas, TLAPS

-----------------------------------------------------------------------------
(* One record after another into one (MergeAll). *)

\* Numbers in order are each of them once.
Upward(S) == [i \in 1 .. Cardinality(S) |-> CHOOSE x \in S : Cardinality({y \in S : y < x}) = i - 1]
LEMMA NumbersUp ==
    ASSUME NEW S, S \subseteq Nat, IsFiniteSet(S)
    PROVE  /\ Cardinality(S) \in Nat /\ Upward(S) \in [1 .. Cardinality(S) -> S]
           /\ \A x \in S : \E i \in 1 .. Cardinality(S) : Upward(S)[i] = x
<1> DEFINE R == {x \in S \X S : x[1] < x[2]}
           N == Cardinality(S)
           line == Upward(S)
<1>1. Orders(R, S)
  <2>1. \A x, y \in S : <<x, y>> \in R <=> x < y
    OBVIOUS
  <2> HIDE DEF R
  <2> QED BY <2>1 DEF Orders
<1>2. \A x \in S : Before(R, S, x) = {y \in S : y < x}
  BY DEF Before
<1> HIDE DEF R
<1>3. \A i \in 1 .. N : \E x \in S : Cardinality({y \in S : y < x}) = i - 1
  <2>1. \A i \in 1 .. N : \E x \in S : Cardinality(Before(R, S, x)) = i - 1
    BY <1>1, EveryPlaceIsTaken
  <2> QED BY <1>2, <2>1
<1>4. line \in [1 .. N -> S] /\ \A i \in 1 .. N : line[i] \in S /\ Cardinality({y \in S : y < line[i]}) = i - 1
  BY <1>3 DEF Upward
<1> HIDE DEF line
<1>5. \A i \in 1 .. N : line[i] \in S /\ Cardinality(Before(R, S, line[i])) = i - 1
  BY <1>2, <1>4
<1>6. line = InLine(R, S)
  BY <1>1, <1>4, <1>5, LineIs
<1>7. N \in Nat /\ line \in [1 .. N -> S] /\ \A x \in S : \E i \in 1 .. N : line[i] = x
  BY <1>1, <1>6, LineHoldsAll
<1> QED BY <1>7 DEF line

\* What one record comes to that takes in others: it gathers their works and
\* the names they go by, and its identity is its own or one of theirs.
Swallows(p, base, D, w, into) ==
    /\ into \in Contents
    /\ \A x : x # p => (x \in into.ids <=> x \in base.ids \/ \E d \in D : x \in w[d].ids)
    /\ \A x : x \in into.works <=> x \in base.works \/ \E d \in D : x \in w[d].works
LEMMA MergedAll ==
    ASSUME NEW D, IsFiniteSet(D), D \subseteq Nat, NEW w, \A d \in D : w[d] \in Contents,
           NEW base \in Contents, NEW p \in People,
           NEW extras, extras = {[by |-> d, what |-> w[d]] : d \in D}
    PROVE  Swallows(p, base, D, w, MergeAll(p, base, extras))
<1> DEFINE n == Cardinality(D)
           line == InTurn(extras)
           given(d) == (CHOOSE e \in extras : e.by = d).what
           S == 1 .. n
           Right(f) == f = [s \in SUBSET S |-> IF s = {} THEN base
                                ELSE Merge(p, f[s \ {Max(s)}], given(line[Max(s)]))]
           folded == CHOOSE f : Right(f)
           into == MergeAll(p, base, extras)
<1>0. n \in Nat /\ line \in [1 .. n -> D] /\ \A x \in D : \E i \in 1 .. n : line[i] = x
  <2>1. {e.by : e \in extras} = D
    <3>1. \A e \in extras : e.by \in D
      OBVIOUS
    <3>2. ASSUME NEW d \in D PROVE d \in {e.by : e \in extras}
      <4>1. [by |-> d, what |-> w[d]] \in extras /\ [by |-> d, what |-> w[d]].by = d
        OBVIOUS
      <4> QED BY <4>1
    <3> QED BY <3>1, <3>2
  <2>2. line = Upward({e.by : e \in extras})
    BY Zenon DEF InTurn, Ordered, Upward
  <2>3. line = Upward(D)
    BY <2>1, <2>2
  <2> HIDE DEF line
  <2> QED BY <2>3, NumbersUp
<1>1. into = folded[S]
  <2>1. DOMAIN line = S
    BY <1>0
  <2> QED BY <2>1 DEF MergeAll, FoldLeft, MapThenFoldSet
<1>2. ASSUME NEW d \in D PROVE given(d) = w[d]
  <2>1. [by |-> d, what |-> w[d]] \in extras /\ [by |-> d, what |-> w[d]].by = d
    OBVIOUS
  <2>2. \A e \in extras : e.by = d => e.what = w[d]
    OBVIOUS
  <2> QED BY <2>1, <2>2
<1>3. ASSUME NEW t \in Contents, NEW d \in D
      PROVE  LET then == Merge(p, t, w[d])
             IN /\ then \in Contents /\ then.ids = (t.ids \cup w[d].ids) \ {p}
                /\ then.works = t.works \cup w[d].works
  <2>1. w[d] \in Contents
    OBVIOUS
  <2> QED BY <2>1 DEF Merge, Contents
<1> DEFINE op == [x \in S \X Contents |-> Merge(p, x[2], w[line[x[1]]])]
           Holds(k, t) ==
               /\ \A x : x # p => (x \in t.ids <=> x \in base.ids \/ \E i \in 1 .. k : x \in w[line[i]].ids)
               /\ \A x : x \in t.works <=> x \in base.works \/ \E i \in 1 .. k : x \in w[line[i]].works
           Good == {x \in (0 .. n) \X Contents : Holds(x[1], x[2])}
<1>4. op \in [S \X Contents -> Contents] /\ \A i \in S, t \in Contents : op[<<i, t>>] = Merge(p, t, w[line[i]])
  BY <1>0, <1>3
<1>5. \A s \in SUBSET S : s # {} => Max(s) \in s
  <2> SUFFICES ASSUME NEW s \in SUBSET S, s # {} PROVE Max(s) \in s
    OBVIOUS
  <2>1. s \subseteq 0 .. n
    OBVIOUS
  <2> QED BY <1>0, <2>1, MaxBelongs
<1> HIDE DEF op, given, into
<1>6. \E f : Right(f)
  <2>1. PICK f \in [SUBSET S -> Contents] : FoldsLine(f, n, op, base)
    BY <1>0, <1>4, LineFoldExists
  <2>2. ASSUME NEW s \in SUBSET S
        PROVE  f[s] = IF s = {} THEN base ELSE Merge(p, f[s \ {Max(s)}], given(line[Max(s)]))
    <3>1. f[s] = IF s = {} THEN base ELSE op[<<Max(s), f[s \ {Max(s)}]>>]
      BY <2>1 DEF FoldsLine
    <3>2. CASE s # {}
      <4>1. Max(s) \in S /\ f[s \ {Max(s)}] \in Contents
        BY <1>5, <2>1, <3>2
      <4>2. line[Max(s)] \in D
        BY <1>0, <4>1
      <4> HIDE DEF line
      <4> QED BY <1>2, <1>4, <3>1, <3>2, <4>1, <4>2
    <3> QED BY <3>1, <3>2
  <2>3. f = [s \in SUBSET S |-> f[s]]
    BY <2>1
  <2>4. Right(f)
    <3> HIDE DEF S, line
    <3> QED BY <2>2, <2>3
  <2> QED BY <2>4
<1>7. Right(folded)
  BY <1>6
<1> HIDE DEF folded, line
<1>8. /\ folded[{}] = base
      /\ \A s \in SUBSET S : s # {} => folded[s] = Merge(p, folded[s \ {Max(s)}], given(line[Max(s)]))
  <2> DEFINE f == folded
             body == [s \in SUBSET S |-> IF s = {} THEN base
                                         ELSE Merge(p, f[s \ {Max(s)}], given(line[Max(s)]))]
  <2>1. f = body
    BY <1>7
  <2>2. /\ body[{}] = base
        /\ \A s \in SUBSET S : s # {} => body[s] = Merge(p, f[s \ {Max(s)}], given(line[Max(s)]))
    OBVIOUS
  <2> HIDE DEF body
  <2> QED BY <2>1, <2>2
<1>9. \A s \in SUBSET S : s # {} /\ folded[s \ {Max(s)}] \in Contents =>
          folded[s] = op[<<Max(s), folded[s \ {Max(s)}]>>]
  <2> SUFFICES ASSUME NEW s \in SUBSET S, s # {}, folded[s \ {Max(s)}] \in Contents
               PROVE  folded[s] = op[<<Max(s), folded[s \ {Max(s)}]>>]
    OBVIOUS
  <2>1. Max(s) \in S
    BY <1>5
  <2>2. given(line[Max(s)]) = w[line[Max(s)]]
    BY <1>0, <1>2, <2>1
  <2> HIDE DEF S
  <2> QED BY <1>4, <1>8, <2>1, <2>2
<1> HIDE DEF Right
<1>10. <<0, base>> \in Good
  <2>1. 1 .. 0 = {} /\ 0 \in 0 .. n
    BY <1>0
  <2> QED BY <2>1
<1>11. ASSUME NEW i \in S, NEW t \in Contents, <<i - 1, t>> \in Good
       PROVE  op[<<i, t>>] \in Contents /\ <<i, op[<<i, t>>]>> \in Good
  <2> DEFINE then == op[<<i, t>>]
             d == line[i]
  <2>1. d \in D
    BY <1>0
  <2>0. then = Merge(p, t, w[d])
    BY <1>4
  <2> HIDE DEF d, then
  <2>2. then \in Contents /\ then.ids = (t.ids \cup w[d].ids) \ {p} /\ then.works = t.works \cup w[d].works
    BY <1>3, <2>0, <2>1
  <2>3. Holds(i - 1, t)
    BY <1>11
  <2>4. \A j : j \in 1 .. i <=> j \in 1 .. i - 1 \/ j = i
    BY <1>0
  <2>5. Holds(i, then)
    BY <2>2, <2>3, <2>4 DEF d
  <2>6. i \in 0 .. n
    BY <1>0
  <2> QED BY <2>2, <2>5, <2>6 DEF then
<1>12. folded[1 .. n] \in Contents /\ <<n, folded[1 .. n]>> \in Good
  <2> HIDE DEF Good
  <2> QED BY <1>0, <1>8, <1>9, <1>10, <1>11, LineFoldReaches
<1>13. Holds(n, into) /\ into \in Contents
  BY <1>1, <1>12
<1>14. \A x : (\E i \in 1 .. n : x \in w[line[i]].ids) <=> \E d \in D : x \in w[d].ids
  BY <1>0
<1>15. \A x : (\E i \in 1 .. n : x \in w[line[i]].works) <=> \E d \in D : x \in w[d].works
  BY <1>0
<1> HIDE DEF S
<1> QED BY <1>13, <1>14, <1>15 DEF Swallows, into

-----------------------------------------------------------------------------
(* Aliases and where they lead (Aliases, After, Flattened). *)

Stores == [People -> Contents \cup {Absent}]

LEMMA RecordsAre ==
    ASSUME NEW store \in Stores, NEW p \in People
    PROVE  /\ store[p] # Absent <=> store[p] \in Contents
           /\ store[p] # Absent => /\ store[p].ids \subseteq People /\ store[p].works \subseteq Works
                                   /\ store[p].orcid \in Orcids \cup {NoValue}
           /\ Stored(p, store) \in Contents
           /\ p \in Present(store) <=> store[p] # Absent
<1>1. Bare \in Contents
  BY DEF Bare, Contents
<1>2. Absent \notin Contents
  BY FoldAssumption
<1>3. store[p] \in Contents \cup {Absent}
  BY DEF Stores
<1>4. store[p] # Absent <=> store[p] \in Contents
  BY <1>2, <1>3
<1>5. \A c \in Contents : c.ids \subseteq People /\ c.works \subseteq Works /\ c.orcid \in Orcids \cup {NoValue}
  BY DEF Contents
<1> QED BY <1>1, <1>4, <1>5 DEF Stored, Present

LEMMA AliasesPair ==
    ASSUME NEW store \in Stores
    PROVE  /\ Aliases(store) \subseteq Pairings
           /\ \A m : m \in Aliases(store) <=>
                  \E p \in Present(store) : \E q \in store[p].ids : m = <<q, p>>
<1>1. \A m : m \in Aliases(store) <=> \E p \in Present(store) : \E q \in store[p].ids : m = <<q, p>>
  BY DEF Aliases
<1>2. \A p \in Present(store) : p \in People /\ store[p].ids \subseteq People
  BY RecordsAre DEF Present
<1> QED BY <1>1, <1>2 DEF Pairings

LEMMA HomeWithin ==
    ASSUME NEW merges, merges \subseteq Pairings
    PROVE  Home(merges) \in [People -> People]
<1>1. ASSUME NEW p \in People, \E m \in merges : m[1] = p
      PROVE  (CHOOSE m \in merges : m[1] = p)[2] \in People
  <2>1. (CHOOSE m \in merges : m[1] = p) \in merges
    BY <1>1
  <2> QED BY <2>1 DEF Pairings
<1> QED BY <1>1 DEF Home

\* The walk along aliases: it holds what is next, stays within whatever aliases
\* do not lead out of, and is closed itself.
Beyonds(merges, near) == UNION {Beyond(merges, q) : q \in near}
LEMMA WalkGrows ==
    ASSUME NEW merges, NEW p
    PROVE  \E walk : /\ walk[0] = Beyond(merges, p)
                     /\ \A n \in Nat : walk[n + 1] = walk[n] \cup Beyonds(merges, walk[n])
                     /\ After(merges, p) = walk[Cardinality(People)]
<1> DEFINE T == SUBSET {m[2] : m \in merges}
           op == [near \in T |-> near \cup Beyonds(merges, near)]
           first == Beyond(merges, p)
           Right(walk) == walk = [n \in Nat |-> IF n = 0 THEN first
                              ELSE walk[n - 1] \cup Beyonds(merges, walk[n - 1])]
           walk == CHOOSE f : Right(f)
<1>1. \A q : Beyond(merges, q) \in T
  BY DEF Beyond
<1>2. \A near \in T : near \cup Beyonds(merges, near) \in T
  BY <1>1 DEF Beyonds
<1>3. op \in [T -> T] /\ first \in T
  BY <1>1, <1>2
<1>4. \A near \in T : op[near] = near \cup Beyonds(merges, near)
  OBVIOUS
<1> HIDE DEF T, op
<1>5. PICK f \in [Nat -> T] : Iterating(f, op, first)
  BY <1>3, IterationExists
<1>6. ASSUME NEW n \in Nat
      PROVE  f[n] = IF n = 0 THEN first ELSE f[n - 1] \cup Beyonds(merges, f[n - 1])
  <2>1. CASE n # 0
    <3>1. f[n - 1] \in T /\ f[n] = op[f[n - 1]]
      BY <1>5, <2>1 DEF Iterating
    <3> QED BY <1>4, <2>1, <3>1
  <2>2. CASE n = 0
    BY <1>5, <2>2 DEF Iterating
  <2> QED BY <2>1, <2>2
<1>7. Right(f)
  BY <1>5, <1>6
<1>8. Right(walk)
  BY <1>7
<1>9. After(merges, p) = walk[Cardinality(People)]
  BY DEF After, Beyonds
<1> HIDE DEF walk
<1>10. \A n \in Nat : walk[n] = IF n = 0 THEN first ELSE walk[n - 1] \cup Beyonds(merges, walk[n - 1])
  BY <1>8
<1> HIDE DEF Right
<1>11. walk[0] = first
  BY <1>10
<1>12. ASSUME NEW n \in Nat PROVE walk[n + 1] = walk[n] \cup Beyonds(merges, walk[n])
  <2>1. n + 1 \in Nat /\ n + 1 # 0 /\ (n + 1) - 1 = n
    OBVIOUS
  <2> QED BY <1>10, <2>1
<1> QED BY <1>9, <1>11, <1>12

LEMMA WalkIsWithin ==
    ASSUME NEW merges, NEW p, NEW D, Beyond(merges, p) \subseteq D, \A q \in D : Beyond(merges, q) \subseteq D
    PROVE  After(merges, p) \subseteq D
<1>1. PICK walk : /\ walk[0] = Beyond(merges, p)
                  /\ \A n \in Nat : walk[n + 1] = walk[n] \cup Beyonds(merges, walk[n])
                  /\ After(merges, p) = walk[Cardinality(People)]
  BY WalkGrows
<1> DEFINE G == {n \in Nat : walk[n] \subseteq D}
<1>2. 0 \in G
  BY <1>1
<1>3. ASSUME NEW n \in Nat, n \in G PROVE n + 1 \in G
  <2>1. Beyonds(merges, walk[n]) \subseteq D
    BY <1>3 DEF Beyonds
  <2> QED BY <1>1, <1>3, <2>1
<1>4. Nat \subseteq G
  <2> HIDE DEF G
  <2> QED BY <1>2, <1>3, AllNaturals
<1>5. Cardinality(People) \in Nat
  BY FoldAssumption, FS_CardinalityType
<1> QED BY <1>1, <1>4, <1>5

\* After as many steps as there are people nobody new is met.
LEMMA WalkCloses ==
    ASSUME NEW merges, merges \subseteq Pairings, NEW p
    PROVE  /\ Beyond(merges, p) \subseteq After(merges, p) /\ After(merges, p) \subseteq People
           /\ \A q \in After(merges, p) : Beyond(merges, q) \subseteq After(merges, p)
<1>1. PICK walk : /\ walk[0] = Beyond(merges, p)
                  /\ \A n \in Nat : walk[n + 1] = walk[n] \cup Beyonds(merges, walk[n])
                  /\ After(merges, p) = walk[Cardinality(People)]
  BY WalkGrows
<1>2. \A q : Beyond(merges, q) \subseteq People
  BY DEF Beyond, Pairings
<1> DEFINE N == Cardinality(People)
           Sound(n) == walk[n] \subseteq People /\ walk[0] \subseteq walk[n]
           Wide(n) == Cardinality(walk[n]) >= n + 1 \/ walk[n + 1] = walk[n]
           G == {n \in Nat : Sound(n)}
           H == {n \in Nat : Wide(n)}
<1>3. \A n \in Nat : Sound(n)
  <2>1. 0 \in G
    BY <1>1, <1>2
  <2>2. ASSUME NEW n \in Nat, n \in G PROVE n + 1 \in G
    <3>1. Beyonds(merges, walk[n]) \subseteq People
      BY <1>2 DEF Beyonds
    <3> QED BY <1>1, <2>2, <3>1
  <2>3. Nat \subseteq G
    <3> HIDE DEF G
    <3> QED BY <2>1, <2>2, AllNaturals
  <2> QED BY <2>3
<1>4. N \in Nat /\ \A n \in Nat : /\ IsFiniteSet(walk[n]) /\ Cardinality(walk[n]) \in Nat
                                  /\ Cardinality(walk[n]) <= N
  BY <1>3, FoldAssumption, FS_Subset, FS_CardinalityType
<1> HIDE DEF Sound
<1>5. 0 \in H
  <2>1. CASE walk[0] = {}
    <3>1. Beyonds(merges, walk[0]) = {}
      BY <2>1 DEF Beyonds
    <3>2. walk[0 + 1] = walk[0] \cup Beyonds(merges, walk[0])
      BY <1>1
    <3> QED BY <3>1, <3>2
  <2>2. CASE walk[0] # {}
    <3>1. Cardinality(walk[0]) # 0
      BY <1>4, <2>2, FS_EmptySet
    <3> QED BY <1>4, <3>1
  <2> QED BY <2>1, <2>2
<1>6. ASSUME NEW n \in Nat, n \in H PROVE n + 1 \in H
  <2>1. CASE walk[n + 1] = walk[n]
    <3>1. walk[(n + 1) + 1] = walk[n + 1] \cup Beyonds(merges, walk[n + 1])
      BY <1>1
    <3>2. walk[n + 1] = walk[n] \cup Beyonds(merges, walk[n])
      BY <1>1
    <3>3. walk[(n + 1) + 1] = walk[n + 1]
      BY <2>1, <3>1, <3>2
    <3> QED BY <3>3
  <2>2. CASE walk[n + 1] # walk[n]
    <3>1. Cardinality(walk[n]) >= n + 1
      BY <1>6, <2>2
    <3>2. walk[n] \subseteq walk[n + 1] /\ n + 1 \in Nat
      BY <1>1
    <3>3. IsFiniteSet(walk[n + 1])
      BY <1>4, <3>2
    <3>4. /\ Cardinality(walk[n]) <= Cardinality(walk[n + 1])
          /\ Cardinality(walk[n]) # Cardinality(walk[n + 1])
      BY <2>2, <3>2, <3>3, FS_Subset
    <3>5. Cardinality(walk[n + 1]) >= (n + 1) + 1
      BY <1>4, <3>1, <3>2, <3>4
    <3> QED BY <3>5
  <2> QED BY <2>1, <2>2
<1>7. Wide(N)
  <2>1. Nat \subseteq H
    <3> HIDE DEF H
    <3> QED BY <1>5, <1>6, AllNaturals
  <2> HIDE DEF Wide, N
  <2> QED BY <1>4, <2>1
<1>8. walk[N + 1] = walk[N]
  BY <1>4, <1>7
<1>9. walk[N + 1] = walk[N] \cup Beyonds(merges, walk[N])
  BY <1>1, <1>4
<1>10. \A q \in walk[N] : Beyond(merges, q) \subseteq walk[N]
  BY <1>8, <1>9 DEF Beyonds
<1>11. walk[0] \subseteq walk[N] /\ walk[N] \subseteq People
  BY <1>3, <1>4 DEF Sound
<1> QED BY <1>1, <1>10, <1>11

\* Aliases resolved: each of them is of somebody who is folded, once and into
\* somebody who is not.
LEMMA FlattenedIs ==
    ASSUME NEW merges, merges \subseteq Pairings
    PROVE  /\ \A m \in Flattened(merges) :
                  /\ m[1] \in People /\ Beyond(merges, m[1]) # {} /\ m = <<m[1], m[2]>>
                  /\ m[2] = CHOOSE q \in Ends(merges, m[1]) : TRUE
           /\ \A p \in People : Beyond(merges, p) # {} => \E m \in Flattened(merges) : m[1] = p
<1> DEFINE last(p) == CHOOSE q \in Ends(merges, p) : TRUE
<1>1. Flattened(merges) = {<<p, last(p)>> : p \in {p \in {k[1] : k \in merges} : Beyond(merges, p) # {}}}
  BY DEF Flattened
<1>2. \A k \in merges : k[1] \in People
  BY DEF Pairings
<1>3. \A p : Beyond(merges, p) # {} => p \in {k[1] : k \in merges}
  BY DEF Beyond
<1>4. ASSUME NEW p \in People, Beyond(merges, p) # {} PROVE \E m \in Flattened(merges) : m[1] = p
  <2> HIDE DEF last
  <2>1. <<p, last(p)>> \in Flattened(merges) /\ <<p, last(p)>>[1] = p
    BY <1>1, <1>3, <1>4
  <2> QED BY <2>1
<1>5. ASSUME NEW m \in Flattened(merges)
      PROVE  m[1] \in People /\ Beyond(merges, m[1]) # {} /\ m = <<m[1], m[2]>> /\ m[2] = last(m[1])
  <2> HIDE DEF last
  <2>1. PICK p \in {p \in {k[1] : k \in merges} : Beyond(merges, p) # {}} : m = <<p, last(p)>>
    BY <1>1
  <2> QED BY <1>2, <2>1
<1> QED BY <1>4, <1>5

LEMMA EndsAre ==
    ASSUME NEW merges, merges \subseteq Pairings, Resolves(merges), NEW p, Beyond(merges, p) # {}
    PROVE  /\ p \in People /\ p \notin After(merges, p)
           /\ \E q \in People : Ends(merges, p) = {q} /\ q \in After(merges, p) /\ Beyond(merges, q) = {}
                                /\ <<p, q>> \in Flattened(merges)
<1>1. p \in {k[1] : k \in merges} /\ p \in People
  BY DEF Beyond, Pairings
<1>2. p \notin After(merges, p) /\ Cardinality(Ends(merges, p)) = 1
  BY <1>1 DEF Resolves
<1>3. After(merges, p) \subseteq People
  BY WalkCloses
<1>4. Ends(merges, p) \subseteq After(merges, p) /\ \A q \in Ends(merges, p) : Beyond(merges, q) = {}
  BY DEF Ends
<1>5. IsFiniteSet(Ends(merges, p))
  BY <1>3, <1>4, FoldAssumption, FS_Subset
<1>6. PICK q : Ends(merges, p) = {q}
  BY <1>2, <1>5, FS_Singleton
<1>7. (CHOOSE x \in Ends(merges, p) : TRUE) = q
  BY <1>6
<1>8. <<p, q>> \in Flattened(merges)
  BY <1>1, <1>7 DEF Flattened
<1> QED BY <1>1, <1>2, <1>3, <1>4, <1>6, <1>8

LEMMA FlattenedPairs ==
    ASSUME NEW merges, merges \subseteq Pairings, Resolves(merges)
    PROVE  Flattened(merges) \subseteq Pairings
<1> SUFFICES ASSUME NEW m \in Flattened(merges) PROVE m \in Pairings
  OBVIOUS
<1>1. m[1] \in People /\ Beyond(merges, m[1]) # {} /\ m = <<m[1], m[2]>> /\ m[2] = CHOOSE q \in Ends(merges, m[1]) : TRUE
  BY FlattenedIs
<1>2. PICK q \in People : Ends(merges, m[1]) = {q}
  BY <1>1, EndsAre
<1> QED BY <1>1, <1>2 DEF Pairings

-----------------------------------------------------------------------------
(* One fold of the nodes, one of the rows. *)

\* what of aliases a fold of the nodes carries out
Held(merges) == {m \in Flattened(merges) : node[m[1]] # Absent /\ node[m[2]] # Absent}
Taken(merges, p) == {m[1] : m \in {m \in Held(merges) : m[2] = p}}
LEMMA NodesFold ==
    ASSUME node \in Stores, NEW merges, merges \subseteq Pairings
    PROVE  /\ FoldNodes(merges) \in Stores
           /\ \A p \in People :
                 LET into == FoldNodes(merges)[p]
                 IN IF (\E m \in Held(merges) : m[1] = p) \/ node[p] = Absent THEN into = Absent
                    ELSE Swallows(p, node[p], Taken(merges, p), node, into)
<1> DEFINE extras(p) == {[by |-> m[1], what |-> node[m[1]]] : m \in {m \in Held(merges) : m[2] = p}}
           after == FoldNodes(merges)
<1>1. after = [p \in People |-> IF \E m \in Held(merges) : m[1] = p THEN Absent
                                ELSE IF node[p] = Absent THEN Absent
                                ELSE MergeAll(p, node[p], extras(p))]
  BY DEF FoldNodes, Held
<1>2. \A m \in Held(merges) : m[1] \in People /\ node[m[1]] \in Contents
  BY FlattenedIs, RecordsAre DEF Held
<1>3. ASSUME NEW p \in People
      PROVE  /\ extras(p) = {[by |-> d, what |-> node[d]] : d \in Taken(merges, p)}
             /\ Taken(merges, p) \subseteq People /\ \A d \in Taken(merges, p) : node[d] \in Contents
  BY <1>2 DEF Taken
<1> HIDE DEF after, extras
<1>4. ASSUME NEW p \in People
      PROVE  IF (\E m \in Held(merges) : m[1] = p) \/ node[p] = Absent THEN after[p] = Absent
             ELSE Swallows(p, node[p], Taken(merges, p), node, after[p])
  <2>1. CASE (\E m \in Held(merges) : m[1] = p) \/ node[p] = Absent
    BY <1>1, <2>1
  <2>2. CASE ~((\E m \in Held(merges) : m[1] = p) \/ node[p] = Absent)
    <3> DEFINE D == Taken(merges, p)
               here == extras(p)
    <3>1. after[p] = MergeAll(p, node[p], here) /\ node[p] \in Contents
      BY <1>1, <2>2, RecordsAre
    <3>2. IsFiniteSet(D) /\ D \subseteq Nat /\ \A d \in D : node[d] \in Contents
      BY <1>3, FoldAssumption, FS_Subset
    <3>3. here = {[by |-> d, what |-> node[d]] : d \in D}
      BY <1>3
    <3> HIDE DEF D, here
    <3>4. Swallows(p, node[p], D, node, MergeAll(p, node[p], here))
      BY <3>1, <3>2, <3>3, MergedAll
    <3> QED BY <2>2, <3>1, <3>4 DEF D
  <2> QED BY <2>1, <2>2
<1>5. \A p \in People : after[p] \in Contents \cup {Absent}
  BY <1>4 DEF Swallows
<1>6. after \in Stores
  BY <1>1, <1>5 DEF Stores
<1> QED BY <1>4, <1>6 DEF after

LEMMA RowsFold ==
    ASSUME NEW rows \in Stores, NEW merges, merges \subseteq Pairings,
           \A m \in merges : rows[m[1]] # Absent
    PROVE  FoldRows(rows, merges) \in Stores
<1> DEFINE w == [d \in People |-> [rows[d] EXCEPT !.ids = @ \cup {d}]]
           extras(p) == {[by |-> m[1], what |-> [rows[m[1]] EXCEPT !.ids = @ \cup {m[1]}]] :
                            m \in {m \in merges : m[2] = p}}
           after == FoldRows(rows, merges)
<1>1. after = [p \in People |-> IF \E m \in merges : m[1] = p THEN Absent
                                ELSE IF rows[p] = Absent THEN Absent
                                ELSE MergeAll(p, rows[p], extras(p))]
  BY DEF FoldRows
<1>2. ASSUME NEW d \in People, rows[d] # Absent PROVE w[d] \in Contents
  <2>1. rows[d] \in Contents
    BY <1>2, RecordsAre
  <2> QED BY <2>1 DEF Contents
<1>3. ASSUME NEW p \in People, rows[p] # Absent PROVE MergeAll(p, rows[p], extras(p)) \in Contents
  <2> DEFINE D == {m[1] : m \in {m \in merges : m[2] = p}}
             here == extras(p)
  <2>1. D \subseteq People /\ \A d \in D : rows[d] # Absent
    BY DEF Pairings
  <2>2. here = {[by |-> d, what |-> w[d]] : d \in D}
    BY <2>1
  <2>3. IsFiniteSet(D) /\ D \subseteq Nat /\ \A d \in D : w[d] \in Contents
    BY <1>2, <2>1, FoldAssumption, FS_Subset
  <2>4. rows[p] \in Contents
    BY <1>3, RecordsAre
  <2> HIDE DEF D, here, w
  <2>5. Swallows(p, rows[p], D, w, MergeAll(p, rows[p], here))
    BY <2>2, <2>3, <2>4, MergedAll
  <2>6. MergeAll(p, rows[p], here) \in Contents
    BY <2>5 DEF Swallows
  <2> QED BY <2>6 DEF here
<1> HIDE DEF after, extras
<1>4. \A p \in People : after[p] \in Contents \cup {Absent}
  BY <1>1, <1>3
<1> QED BY <1>1, <1>4 DEF Stores, after

\* A record written over another: it keeps what the other was named by, unless
\* the new one names nobody.
LEMMA UpsertIs ==
    ASSUME node \in Stores, NEW p \in People, NEW given \in Contents
    PROVE  /\ UpsertPerson(p, given) \in Contents
           /\ \A x : x # p => (x \in UpsertPerson(p, given).ids <=>
                                   x \in given.ids \/ (node[p] # Absent /\ x \in node[p].ids))
<1> DEFINE known == Stored(p, node)
<1>1. known \in Contents /\ (node[p] # Absent => known = node[p]) /\ (node[p] = Absent => known.ids = {})
  BY RecordsAre DEF Stored, Bare
<1> HIDE DEF known
<1>2. \A x : x # p => (x \in KeptIds(p, known, given) <=> x \in given.ids \/ x \in known.ids)
  BY DEF KeptIds
<1>3. known.ids \subseteq People /\ known.works \subseteq Works /\ known.orcid \in Orcids \cup {NoValue}
      /\ given.ids \subseteq People /\ given.orcid \in Orcids \cup {NoValue}
  BY <1>1 DEF Contents
<1>4. KeptIds(p, known, given) \subseteq People
  BY <1>3 DEF KeptIds
<1>5. UpsertPerson(p, given) =
          [ids |-> KeptIds(p, known, given), works |-> known.works,
           orcid |-> IF given.orcid = NoValue THEN known.orcid ELSE given.orcid]
  BY DEF UpsertPerson, known
<1> HIDE DEF UpsertPerson, KeptIds
<1>6. UpsertPerson(p, given) \in Contents
  BY <1>3, <1>4, <1>5 DEF Contents
<1>7. UpsertPerson(p, given).ids = KeptIds(p, known, given)
  BY <1>5
<1> QED BY <1>1, <1>2, <1>6, <1>7

-----------------------------------------------------------------------------
(* What the planner makes of records and answers (Planned). *)

Gathered(merges, p) == {p} \cup {m[1] : m \in {m \in merges : m[2] = p}}
\* a plan: it folds records that are there, flat, and nobody kept apart
Fits(merges, store) ==
    /\ \A m \in merges : m \in Pairings /\ store[m[1]] # Absent /\ store[m[2]] # Absent
    /\ \A m, k \in merges : (m[1] = k[1] => m = k) /\ m[2] # k[1]
KeepsApart(merges, store, refused) ==
    \A p \in People : \A pair \in PeoplePairs :
        pair \subseteq Gathered(merges, p) => pair \notin refused /\ ~Disagree(Trusted(store), pair)

LEMMA PairsAre ==
    ASSUME NEW store \in Stores, NEW answers
    PROVE  /\ Merging(store, answers) \subseteq PeoplePairs
           /\ \A pair \in Merging(store, answers) : pair \subseteq Present(store)
           /\ UNION Merging(store, answers) \subseteq Present(store)
           /\ Present(store) \subseteq People /\ IsFiniteSet(UNION Merging(store, answers))
<1>1. PairsOf(store) \subseteq PeoplePairs /\ \A pair \in PairsOf(store) : pair \subseteq Present(store)
  BY DEF PairsOf
<1>2. Merging(store, answers) \subseteq PairsOf(store)
  BY DEF Merging
<1>3. Present(store) \subseteq People
  BY DEF Present
<1>4. UNION Merging(store, answers) \subseteq Present(store)
  BY <1>1, <1>2
<1>5. IsFiniteSet(UNION Merging(store, answers))
  BY <1>3, <1>4, FoldAssumption, FS_Subset
<1> QED BY <1>1, <1>2, <1>3, <1>4, <1>5

LEMMA WorksCount ==
    ASSUME NEW store \in Stores, NEW p \in People
    PROVE  WorksOf(store)[p] \in Nat
<1>1. Stored(p, store).works \subseteq Works
  BY RecordsAre DEF Contents
<1>2. IsFiniteSet(Stored(p, store).works)
  BY <1>1, FoldAssumption, FS_Subset
<1>3. Cardinality(Stored(p, store).works) \in Nat
  BY <1>2, FS_CardinalityType
<1> QED BY <1>3 DEF WorksOf

LEMMA TwoOfThem ==
    ASSUME NEW a, NEW b, a # b
    PROVE  Cardinality({a, b}) = 2
<1>1. IsFiniteSet({a}) /\ Cardinality({a}) = 1
  BY FS_Singleton
<1>2. Cardinality({a} \cup {b}) = IF b \in {a} THEN Cardinality({a}) ELSE Cardinality({a}) + 1
  BY <1>1, FS_AddElement
<1>3. {a} \cup {b} = {a, b} /\ b \notin {a}
  OBVIOUS
<1> QED BY <1>1, <1>2, <1>3

\* Two of differing trusted ORCIDs make a conflict of any group that holds both.
LEMMA DifferConflicts ==
    ASSUME NEW store \in Stores, NEW pair, Disagree(Trusted(store), pair), NEW g, pair \subseteq g, g \subseteq Present(store)
    PROVE  Conflicts(g, Ident(store)) # {}
<1> DEFINE field == Trusted(store)
<1> HIDE DEF field
<1>1. PICK p \in pair, q \in pair : field[p] # field[q] /\ NoValue \notin {field[p], field[q]}
  BY DEF Disagree, field
<1>2. p \in g /\ q \in g
  OBVIOUS
<1>4. {field[p], field[q]} \subseteq ValuesOf(g, field)
  BY <1>1, <1>2 DEF ValuesOf
<1>5. Ident(store) = <<field>> /\ 1 \in DOMAIN Ident(store) /\ Ident(store)[1] = field
  BY DEF Ident, field
<1>6. IsFiniteSet(ValuesOf(g, field))
  <2>1. IsFiniteSet(g)
    <3>1. g \subseteq People
      BY DEF Present
    <3> QED BY <3>1, FoldAssumption, FS_Subset
  <2>2. IsFiniteSet({field[x] : x \in g})
    <3> DEFINE f == [x \in g |-> field[x]]
    <3>1. f \in Surjection(g, {field[x] : x \in g})
      BY DEF Surjection
    <3> HIDE DEF f
    <3> QED BY <2>1, <3>1, FS_Surjection
  <2> QED BY <2>2, FS_Subset DEF ValuesOf
<1>7. Cardinality({field[p], field[q]}) = 2 /\ Cardinality({field[p], field[q]}) <= Cardinality(ValuesOf(g, field))
  <2>1. field[p] # field[q]
    BY <1>1
  <2>2. Cardinality({field[p], field[q]}) = 2
    BY <2>1, TwoOfThem
  <2> QED BY <1>4, <1>6, <2>2, FS_Subset
<1>8. Cardinality(ValuesOf(g, field)) > 1
  BY <1>6, <1>7, FS_CardinalityType
<1> QED BY <1>5, <1>8 DEF Conflicts

LEMMA PlannedFits ==
    ASSUME NEW store \in Stores, NEW answers
    PROVE  /\ Planned(store, answers).merges \subseteq Pairings
           /\ Fits(Planned(store, answers).merges, store)
           /\ KeepsApart(Planned(store, answers).merges, store, Refused(answers))
<1> DEFINE pairs == Merging(store, answers)
           ident == Ident(store)
           refused == Refused(answers)
           works == WorksOf(store)
           orcid == OrcidsOf(store)
           groups == Accepted(pairs, ident, refused)
           merges == Folds(groups, works, orcid)
<1>1. UNION pairs \subseteq Present(store) /\ Present(store) \subseteq People /\ IsFiniteSet(UNION pairs)
  BY PairsAre
<1>2. DOMAIN ident \subseteq Nat
  BY DEF Ident
<1>3. Planned(store, answers).merges = merges
  BY DEF Planned
<1> HIDE DEF pairs, ident, works, orcid, refused
<1>4. Apart(groups, pairs, ident, refused)
  BY <1>1, <1>2, AcceptedParts
<1> HIDE DEF groups
<1>5. /\ \A g \in groups : /\ g \subseteq Present(store) /\ g \subseteq People /\ IsFiniteSet(g) /\ g # {}
                           /\ Conflicts(g, ident) = {} /\ \A pair \in refused : ~(pair \subseteq g)
      /\ \A g, h \in groups : \A p \in g : p \in h => g = h
  BY <1>1, <1>4 DEF Apart
<1>6. \A g \in groups : g \subseteq Nat /\ \A p \in g : works[p] \in Nat
  <2>1. \A p \in People : works[p] \in Nat /\ p \in Nat
    BY WorksCount, FoldAssumption DEF works
  <2> QED BY <1>5, <2>1
<1>7. /\ \A m \in merges : \E g \in groups : /\ m = <<m[1], m[2]>> /\ m[1] \in g /\ m[2] \in g /\ m[1] # m[2]
                                             /\ m[2] = Canonical(g, works, orcid)
      /\ \A m, k \in merges : (m[1] = k[1] => m = k) /\ m[2] # k[1]
  <2>1. \A g \in groups : g \subseteq Nat /\ IsFiniteSet(g) /\ g # {}
    BY <1>5, <1>6
  <2>2. \A g, h \in groups : \A p \in g : p \in h => g = h
    BY <1>5
  <2>3. \A g \in groups : \A p \in g : works[p] \in Nat
    BY <1>6
  <2>4. Flat(merges, groups, works, orcid)
    BY <2>1, <2>2, <2>3, FoldsLead
  <2> HIDE DEF merges
  <2> QED BY <2>4 DEF Flat
<1> HIDE DEF merges
<1>8. \A m \in merges : m \in Pairings /\ m[1] \in Present(store) /\ m[2] \in Present(store)
  BY <1>5, <1>7 DEF Pairings
<1>9. Fits(merges, store)
  BY <1>7, <1>8 DEF Fits, Present
<1>10. ASSUME NEW p \in People, NEW pair \in PeoplePairs, pair \subseteq Gathered(merges, p)
       PROVE  pair \notin refused /\ ~Disagree(Trusted(store), pair)
  <2>1. \E g \in groups : pair \subseteq g
    <3>1. PICK m \in merges : m[2] = p
      <4> SUFFICES ASSUME ~\E m \in merges : m[2] = p PROVE FALSE
        OBVIOUS
      <4>1. pair \subseteq {p}
        BY <1>10 DEF Gathered
      <4>2. Cardinality({p}) = 1 /\ IsFiniteSet({p}) /\ Cardinality(pair) = 2
        BY FS_Singleton DEF PeoplePairs
      <4>3. Cardinality(pair) <= Cardinality({p})
        BY <4>1, <4>2, FS_Subset
      <4> QED BY <4>2, <4>3
    <3>2. PICK g \in groups : m[1] \in g /\ m[2] \in g
      BY <1>7
    <3>3. ASSUME NEW k \in merges, k[2] = p PROVE k[1] \in g
      <4>1. PICK h \in groups : k[1] \in h /\ k[2] \in h
        BY <1>7
      <4>2. h = g
        BY <1>5, <3>1, <3>2, <3>3, <4>1
      <4> QED BY <4>1, <4>2
    <3>4. Gathered(merges, p) \subseteq g
      BY <3>1, <3>2, <3>3 DEF Gathered
    <3> QED BY <1>10, <3>4
  <2>2. PICK g \in groups : pair \subseteq g
    BY <2>1
  <2>3. pair \notin refused /\ g \subseteq Present(store) /\ Conflicts(g, Ident(store)) = {}
    BY <1>5, <2>2 DEF ident
  <2> QED BY <2>2, <2>3, DifferConflicts
<1>11. KeepsApart(merges, store, refused)
  BY <1>10 DEF KeepsApart
<1> QED BY <1>3, <1>8, <1>9, <1>11 DEF refused

LEMMA QuestionsAre ==
    /\ \A pair \in PeoplePairs : Question("pair", pair) \in Questions
    /\ \A members \in SUBSET People : Cardinality(members) >= 2 => Question("group", members) \in Questions
    /\ \A q \in Pairs : /\ q \in Questions /\ q.members \in PeoplePairs /\ q.kind = "pair"
    /\ \A q \in Questions : q.kind = "group" => q.members \subseteq People /\ Cardinality(q.members) >= 2
<1>1. "pair" \in PersonKinds /\ "group" \in PersonKinds
  BY DEF PersonKinds
<1> QED BY <1>1, RunsAssumption, ReviewAssumption DEF Pairs, PeoplePairs

\* A plan's questions are questions, and what it sets apart are pairs.
LEMMA PlannedTyped ==
    ASSUME NEW store \in Stores, NEW answers
    PROVE  /\ Planned(store, answers).held \subseteq Questions
           /\ Planned(store, answers).disputed \subseteq Questions
           /\ Planned(store, answers).separate \subseteq PeoplePairs
<1> DEFINE pairs == Merging(store, answers)
           refused == Refused(answers)
           works == WorksOf(store)
           orcid == OrcidsOf(store)
           groups == HeldGroups(pairs, Ident(store), refused, works, orcid)
           asked == Unsure(store, answers)
           turned == Against(store, answers)
           apart == Separated(store, answers)
           plan == Planned(store, answers)
<1>1. PairsOf(store) \subseteq PeoplePairs
  BY DEF PairsOf
<1>2. asked \subseteq PeoplePairs /\ turned \subseteq PeoplePairs /\ apart \subseteq PeoplePairs
  BY <1>1 DEF Unsure, Against, Separated
<1>3. /\ plan.held = {Question("pair", pair) : pair \in asked} \cup {Question("group", g) : g \in groups}
      /\ plan.disputed = {Question("pair", pair) : pair \in turned}
      /\ plan.separate = apart
  BY DEF Planned, Disputed
<1> HIDE DEF plan, asked, turned, apart
<1>4. ASSUME NEW g \in groups PROVE g \in SUBSET People /\ Cardinality(g) >= 2
  <2>1. UNION pairs \subseteq Present(store) /\ Present(store) \subseteq People /\ IsFiniteSet(UNION pairs)
    BY PairsAre
  <2>2. UNION pairs \subseteq Nat /\ \A p \in UNION pairs : works[p] \in Nat
    BY <2>1, WorksCount, FoldAssumption
  <2>3. DOMAIN Ident(store) \subseteq Nat
    BY DEF Ident
  <2> DEFINE ident == Ident(store)
  <2>4. DOMAIN ident \subseteq Nat
    BY <2>3
  <2> HIDE DEF pairs, refused, works, orcid, ident
  <2>5. \A h \in HeldGroups(pairs, ident, refused, works, orcid) : h \subseteq UNION pairs /\ Cardinality(h) > 1
    BY <2>1, <2>2, <2>4, HeldAmongPairs
  <2>6. g \subseteq UNION pairs /\ Cardinality(g) > 1
    BY <2>5 DEF ident
  <2>7. IsFiniteSet(g)
    BY <2>1, <2>6, FS_Subset
  <2>8. Cardinality(g) \in Nat
    BY <2>7, FS_CardinalityType
  <2> QED BY <2>1, <2>6, <2>8
<1> HIDE DEF groups
<1> QED BY <1>2, <1>3, <1>4, QuestionsAre DEF plan

-----------------------------------------------------------------------------
(* The answers and the documents of the queue. *)

LEMMA DecisionsAnswer ==
    ASSUME ReviewTypeOK, NEW home \in [People -> People], NEW answers \in Decisions(home)
    PROVE  answers \in Answered
<1> DEFINE keys == {s \in SUBSET People : Cardinality(s) >= 2}
           all == Answers(PersonKinds, home)
<1>1. ASSUME NEW a \in all PROVE a[1] \in keys
  <2>1. PICK q \in Questions : /\ q.kind \in PersonKinds /\ Cardinality(Under(q, home)) >= 2
                               /\ a = <<Under(q, home), Verdict(q)>>
    BY DEF Answers
  <2>2. q.members \subseteq People
    BY <2>1, RunsAssumption
  <2>3. Under(q, home) \subseteq People
    BY <2>2 DEF Under
  <2> QED BY <2>1, <2>3
<1>2. answers \in [About(all) -> Verdicts]
  BY DEF Decisions, Readings
<1>3. About(all) \subseteq keys
  BY <1>1 DEF About
<1> HIDE DEF all
<1>4. About(all) \in SUBSET keys
  BY <1>3
<1> QED BY <1>2, <1>4 DEF Answered

\* The queue keeps its documents, and only pairs are marked as carried out.
AppliedArePairs == \A q \in Questions : review[q] # NoDoc /\ review[q].applied => q.kind = "pair"
Queue(store) ==
    /\ store \in [Questions -> Documents \cup {NoDoc}]
    /\ \A q \in Questions : store[q] # NoDoc /\ store[q].applied => q.kind = "pair"
LEMMA DocumentsAre ==
    ASSUME NEW store, Queue(store), NEW q \in Questions
    PROVE  LET doc == IF store[q] = NoDoc THEN New ELSE store[q]
           IN doc \in Documents /\ (doc.applied => q.kind = "pair")
<1>1. New \in Documents /\ New.applied = FALSE
  BY DEF New, Documents
<1> QED BY <1>1 DEF Queue

LEMMA QueueBy ==
    ASSUME NEW store, Queue(store), NEW next, next = [q \in Questions |-> next[q]],
           \A q \in Questions : \/ next[q] = store[q]
                                \/ next[q] \in Documents /\ (next[q].applied => q.kind = "pair")
    PROVE  Queue(next)
<1>1. \A q \in Questions : next[q] \in Documents \cup {NoDoc}
  BY DEF Queue
<1>2. next \in [Questions -> Documents \cup {NoDoc}]
  BY <1>1
<1>3. \A q \in Questions : next[q] # NoDoc /\ next[q].applied => q.kind = "pair"
  BY DEF Queue
<1> QED BY <1>2, <1>3 DEF Queue

\* The report of a run.
LEMMA HeldRecorded ==
    ASSUME NEW store, Queue(store), NEW held, NEW separate, NEW home
    PROVE  Queue(RecordHeld(store, held, separate, home))
<1> DEFINE next == RecordHeld(store, held, separate, home)
<1>1. ASSUME NEW q \in Questions
      PROVE  next[q] = store[q] \/ (next[q] \in Documents /\ (next[q].applied => q.kind = "pair"))
  <2> DEFINE doc == IF store[q] = NoDoc THEN New ELSE store[q]
             keep == [doc EXCEPT !.held = TRUE, !.resolved = FALSE]
             done == [doc EXCEPT !.resolved = TRUE]
  <2>1. next[q] \in {store[q], keep, done}
    <3>1. store[q] # NoDoc => doc = store[q]
      OBVIOUS
    <3>2. next[q] = IF q \in held THEN keep
                    ELSE IF /\ q \in Pairs /\ store[q] # NoDoc /\ store[q].verdict = NoAnswer
                            /\ Under(q, home) \in separate
                         THEN [store[q] EXCEPT !.resolved = TRUE]
                    ELSE store[q]
      BY DEF RecordHeld
    <3> HIDE DEF doc, next
    <3> QED BY <3>1, <3>2
  <2>2. doc \in Documents /\ (doc.applied => q.kind = "pair")
    BY DocumentsAre
  <2> HIDE DEF doc
  <2>3. /\ keep \in Documents /\ done \in Documents
        /\ keep.applied = doc.applied /\ done.applied = doc.applied
    BY <2>2 DEF Documents
  <2> HIDE DEF keep, done, next
  <2> QED BY <2>1, <2>2, <2>3
<1>2. next = [q \in Questions |-> next[q]]
  BY DEF RecordHeld
<1> HIDE DEF next
<1>3. Queue(next)
  BY <1>1, <1>2, QueueBy
<1> QED BY <1>3 DEF next

LEMMA DisputesRecorded ==
    ASSUME NEW store, Queue(store), NEW disputed
    PROVE  Queue(RecordDisputed(store, disputed))
<1> DEFINE next == RecordDisputed(store, disputed)
<1>1. ASSUME NEW q \in Questions
      PROVE  next[q] = store[q] \/ (next[q] \in Documents /\ (next[q].applied => q.kind = "pair"))
  <2> DEFINE doc == store[q]
             then == [doc EXCEPT !.disputed = TRUE]
  <2>1. next[q] = doc \/ (store[q] # NoDoc /\ next[q] = then)
    BY DEF RecordDisputed
  <2>2. store[q] # NoDoc => doc \in Documents /\ (doc.applied => q.kind = "pair")
    BY DocumentsAre
  <2> HIDE DEF next
  <2>3. CASE store[q] # NoDoc /\ next[q] = then
    <3>1. then \in Documents /\ then.applied = doc.applied
      BY <2>2, <2>3 DEF Documents
    <3> QED BY <2>2, <2>3, <3>1
  <2> QED BY <2>1, <2>3
<1>2. next = [q \in Questions |-> next[q]]
  BY DEF RecordDisputed
<1> HIDE DEF next
<1>3. Queue(next)
  BY <1>1, <1>2, QueueBy
<1> QED BY <1>3 DEF next

LEMMA MergesMarked ==
    ASSUME NEW store, Queue(store), NEW home
    PROVE  Queue(MarkAppliedMerges(store, home))
<1> DEFINE next == MarkAppliedMerges(store, home)
<1>1. ASSUME NEW q \in Questions
      PROVE  next[q] = store[q] \/ (next[q] \in Documents /\ (next[q].applied => q.kind = "pair"))
  <2> DEFINE doc == store[q]
             then == [doc EXCEPT !.applied = TRUE]
  <2>1. next[q] = doc \/ (store[q] # NoDoc /\ q.kind = "pair" /\ next[q] = then)
    BY DEF MarkAppliedMerges, Pairs
  <2>2. store[q] # NoDoc => doc \in Documents
    BY DocumentsAre
  <2> HIDE DEF next
  <2>3. CASE store[q] # NoDoc /\ q.kind = "pair" /\ next[q] = then
    <3>1. then \in Documents
      BY <2>2, <2>3 DEF Documents
    <3> QED BY <2>3, <3>1
  <2> QED BY <2>1, <2>3
<1>2. next = [q \in Questions |-> next[q]]
  BY DEF MarkAppliedMerges
<1> HIDE DEF next
<1>3. Queue(next)
  BY <1>1, <1>2, QueueBy
<1> QED BY <1>3 DEF next

LEMMA Reported ==
    ASSUME Queue(review), NEW home, Report(home)
    PROVE  Queue(review')
<1>1. Queue(RecordHeld(review, job.held, job.separate, home))
  BY HeldRecorded
<1>2. Queue(RecordDisputed(RecordHeld(review, job.held, job.separate, home), job.disputed))
  BY <1>1, DisputesRecorded
<1>3. Queue(MarkAppliedMerges(
                RecordDisputed(RecordHeld(review, job.held, job.separate, home), job.disputed), home))
  BY <1>2, MergesMarked
<1> QED BY <1>3, Zenon DEF Report

\* What the panel writes.
LEMMA PutKeeps ==
    ASSUME Queue(review), NEW q \in Questions, NEW doc,
           doc = NoDoc \/ (doc \in Documents /\ (doc.applied => q.kind = "pair"))
    PROVE  Queue(Put(q, doc))
<1>1. Put(q, doc) = [r \in Questions |-> IF r = q THEN doc ELSE review[r]]
  BY DEF Put, Queue
<1>2. Put(q, doc) \in [Questions -> Documents \cup {NoDoc}]
  BY <1>1 DEF Queue
<1>3. \A r \in Questions : Put(q, doc)[r] # NoDoc /\ Put(q, doc)[r].applied => r.kind = "pair"
  BY <1>1 DEF Queue
<1> QED BY <1>2, <1>3 DEF Queue

LEMMA VerdictKept ==
    ASSUME Queue(review), NEW q \in Questions, NEW v \in Verdicts
    PROVE  Queue(RecordVerdict(q, v))
<1> DEFINE doc == Doc(q)
           then == [doc EXCEPT !.verdict = v, !.skipped = FALSE, !.disputed = FALSE, !.resolved = FALSE]
<1>1. doc \in Documents /\ (doc.applied => q.kind = "pair")
  <2>1. doc = IF review[q] = NoDoc THEN New ELSE review[q]
    BY DEF Doc, Asked
  <2> HIDE DEF doc
  <2> QED BY <2>1, DocumentsAre
<1>2. RecordVerdict(q, v) = Put(q, then)
  BY DEF RecordVerdict
<1> HIDE DEF doc
<1>3. then \in Documents /\ then.applied = doc.applied
  BY <1>1 DEF Documents
<1> HIDE DEF then
<1> QED BY <1>1, <1>2, <1>3, PutKeeps

LEMMA PanelKeeps ==
    ASSUME Queue(review), NEW q \in Questions
    PROVE  /\ Asked(q) => Queue(Skip(q)) /\ Queue(Withdrawn(q))
           /\ q \in Pairs => Queue(MarkApplied(q))
           /\ Queue(UndoApplied(q))
<1> DEFINE doc == IF review[q] = NoDoc THEN New ELSE review[q]
           skipped == [doc EXCEPT !.skipped = TRUE]
           back == [doc EXCEPT !.verdict = NoAnswer, !.chosen = NoAnswer, !.disputed = FALSE]
           done == [doc EXCEPT !.applied = TRUE]
           undone == [doc EXCEPT !.applied = FALSE]
<1>1. doc \in Documents /\ (doc.applied => q.kind = "pair")
  BY DocumentsAre
<1>2. Asked(q) => doc = review[q]
  BY DEF Asked
<1>3. doc = Doc(q)
  BY DEF Doc, Asked
<1> HIDE DEF doc
<1>4. /\ {skipped, back, done, undone} \subseteq Documents
      /\ skipped.applied = doc.applied /\ back.applied = doc.applied /\ undone.applied = FALSE
  BY <1>1 DEF Documents
<1>5. Asked(q) => Skip(q) = Put(q, skipped) /\ Withdrawn(q) \in {Put(q, NoDoc), Put(q, back)}
  BY <1>2 DEF Skip, Withdrawn
<1>6. MarkApplied(q) \in {Put(q, done), review}
  <2>1. CASE Verdict(q) = "same"
    <3>1. review[q] # NoDoc
      <4>1. New.verdict = NoAnswer /\ "same" # NoAnswer
        <5>1. New.verdict = NoAnswer
          BY DEF New
        <5> QED BY <5>1, ReviewAssumption DEF Verdicts
      <4> QED BY <2>1, <4>1 DEF Verdict, Doc, Asked
    <3> QED BY <1>2, <2>1, <3>1 DEF MarkApplied, Asked
  <2>2. CASE Verdict(q) # "same"
    BY <2>2 DEF MarkApplied
  <2> QED BY <2>1, <2>2
<1>7. UndoApplied(q) = Put(q, undone)
  BY <1>3 DEF UndoApplied
<1> HIDE DEF skipped, back, done, undone
<1>8. Queue(Put(q, skipped)) /\ Queue(Put(q, back)) /\ Queue(Put(q, undone)) /\ Queue(Put(q, NoDoc))
  BY <1>1, <1>4, PutKeeps
<1>9. q \in Pairs => Queue(Put(q, done))
  BY <1>1, <1>4, PutKeeps DEF Pairs
<1> QED BY <1>5, <1>6, <1>7, <1>8, <1>9

-----------------------------------------------------------------------------
(* The invariant: plans that fit the records they were made for, a queue    *)
(* that marks pairs only, and a request that knows whom it is about.        *)

Tasked == {"rows", "graph", "load"}
Stages == {"idle", "rows", "keep", "write", "graph", "plan", "list", "fold", "report",
           "load", "nodes", "links", "refold"}
Jobs == [at : Stages, task : Tasked, given : [People -> Contents \cup {Absent}],
         merges : SUBSET Pairings, aliases : SUBSET Pairings,
         held : SUBSET Questions, disputed : SUBSET Questions, separate : SUBSET PeoplePairs,
         said : Answered, runs : 0 .. MaxRuns, died : BOOLEAN]
PlanFits(j) ==
    j.task # "load" => /\ Fits(j.merges, j.given)
                       /\ KeepsApart(j.merges, j.given, Refused(j.said))
Planning == {"rows", "keep", "write", "graph", "plan", "list"}
JobFits(j) == /\ j \in Jobs /\ PlanFits(j)
              /\ j.at \in Planning => j.task # "load"
              /\ j.at = "graph" => j.merges = {}
              /\ j.at = "load" => j.task = "load"
DeskFits ==
    /\ desk.at \notin {"idle", "divide"} => desk.q \in Pairs
    /\ desk.at = "divide" => desk.todo # <<>>
    /\ desk.at \notin {"idle", "divide", "read", "undo"} =>
           desk.keep \in People /\ desk.drop \in People /\ desk.keep # desk.drop
Known == /\ node \in Stores /\ row \in Stores /\ saved \in [People -> Seq(Contents)]
         /\ Queue(review) /\ rule \in Rules
FoldInv == Known /\ JobFits(job) /\ DeskTypeOK /\ DeskFits

LEMMA NothingPlanned ==
    ASSUME NEW store, NEW refused
    PROVE  Fits({}, store) /\ KeepsApart({}, store, refused)
<1>1. ASSUME NEW p \in People, NEW pair \in PeoplePairs PROVE ~(pair \subseteq Gathered({}, p))
  <2> SUFFICES ASSUME pair \subseteq Gathered({}, p) PROVE FALSE
    OBVIOUS
  <2>1. pair \subseteq {p}
    BY DEF Gathered
  <2>2. Cardinality({p}) = 1 /\ IsFiniteSet({p}) /\ Cardinality(pair) = 2
    BY FS_Singleton DEF PeoplePairs
  <2>3. Cardinality(pair) <= Cardinality({p})
    BY <2>1, <2>2, FS_Subset
  <2> QED BY <2>2, <2>3
<1> QED BY <1>1 DEF Fits, KeepsApart

\* A run that has read and planned nothing.
LEMMA IdleIs ==
    ASSUME NEW runs \in 0 .. MaxRuns
    PROVE  Idle(runs) \in Jobs /\ Idle(runs).merges = {}
<1> DEFINE empty == [p \in People |-> Absent]
           none == <<>>
           i == [at |-> "idle", task |-> "rows", given |-> empty, merges |-> {}, aliases |-> {},
                 held |-> {}, disputed |-> {}, separate |-> {}, said |-> none, runs |-> runs, died |-> FALSE]
<1>1. none \in Answered
  <2>1. {} \in SUBSET {s \in SUBSET People : Cardinality(s) >= 2} /\ <<>> \in [{} -> Verdicts]
    OBVIOUS
  <2> QED BY <2>1 DEF Answered
<1>2. empty \in [People -> Contents \cup {Absent}]
  OBVIOUS
<1>3. Idle(runs) = i
  BY Zenon DEF Idle
<1> HIDE DEF empty, none
<1>4. i \in Jobs /\ i.merges = {}
  BY <1>1, <1>2 DEF Jobs, Stages, Tasked
<1> HIDE DEF i
<1> QED BY <1>3, <1>4

LEMMA IdleFits ==
    ASSUME NEW runs \in 0 .. MaxRuns, NEW at \in Stages, NEW task \in Tasked, NEW died \in BOOLEAN,
           at \in Planning => task # "load", at = "load" => task = "load"
    PROVE  JobFits([Idle(runs) EXCEPT !.task = task, !.at = at, !.died = died])
<1> DEFINE i == Idle(runs)
           j == [i EXCEPT !.task = task, !.at = at, !.died = died]
<1>1. i \in Jobs /\ i.merges = {}
  BY IdleIs
<1> HIDE DEF i
<1>2. j \in Jobs /\ j.merges = {} /\ j.at = at /\ j.task = task
  BY <1>1 DEF Jobs
<1> HIDE DEF j
<1>3. JobFits(j)
  BY <1>2, NothingPlanned DEF JobFits, PlanFits
<1> QED BY <1>3 DEF i, j

\* What a run writes down of a plan.
LEMMA PlanWritten ==
    ASSUME NEW store \in Stores, NEW answers \in Answered, NEW j \in Jobs, j.task # "load",
           NEW at \in Stages, at \notin {"graph", "load"}, NEW k,
           LET plan == Planned(store, answers)
               written == [j EXCEPT !.at = at, !.given = store, !.merges = plan.merges,
                                    !.held = plan.held, !.disputed = plan.disputed,
                                    !.separate = plan.separate]
           IN k = [written EXCEPT !.said = answers] \/ (answers = j.said /\ k = written)
    PROVE  JobFits(k)
<1> DEFINE plan == Planned(store, answers)
           merges == plan.merges
           held == plan.held
           disputed == plan.disputed
           separate == plan.separate
           written == [j EXCEPT !.at = at, !.given = store, !.merges = merges, !.held = held,
                                !.disputed = disputed, !.separate = separate]
<1>1. merges \in SUBSET Pairings /\ Fits(merges, store) /\ KeepsApart(merges, store, Refused(answers))
  BY PlannedFits
<1>2. held \in SUBSET Questions /\ disputed \in SUBSET Questions /\ separate \in SUBSET PeoplePairs
  BY PlannedTyped
<1>3. store \in [People -> Contents \cup {Absent}]
  BY DEF Stores
<1>6. k = [written EXCEPT !.said = answers] \/ (answers = j.said /\ k = written)
  OBVIOUS
<1> HIDE DEF merges, held, disputed, separate
<1>7. /\ written \in Jobs /\ written.merges = merges /\ written.given = store
      /\ written.said = j.said /\ written.task = j.task /\ written.at = at
  BY <1>1, <1>2, <1>3 DEF Jobs
<1> HIDE DEF written
<1>4. /\ k \in Jobs /\ k.merges = merges /\ k.given = store /\ k.said = answers
      /\ k.task = j.task /\ k.at = at
  <2>1. CASE k = written
    BY <1>6, <1>7, <2>1 DEF Jobs
  <2>2. CASE k = [written EXCEPT !.said = answers]
    BY <1>7, <2>2 DEF Jobs
  <2> QED BY <1>6, <2>1, <2>2
<1> QED BY <1>1, <1>4 DEF JobFits, PlanFits

\* A run that goes on without a new plan.
LEMMA PlanCarried ==
    ASSUME NEW j, JobFits(j), NEW at \in Stages, at \notin {"graph", "load"},
           at \in Planning => j.task # "load"
    PROVE  JobFits([j EXCEPT !.at = at])
<1> DEFINE k == [j EXCEPT !.at = at]
<1>1. j \in Jobs
  BY DEF JobFits
<1>2. k \in Jobs /\ k.merges = j.merges /\ k.given = j.given /\ k.said = j.said /\ k.task = j.task /\ k.at = at
  BY <1>1 DEF Jobs
<1> HIDE DEF k
<1> QED BY <1>2 DEF JobFits, PlanFits, k

-----------------------------------------------------------------------------
(* The runs keep the invariant. *)

Goes == /\ node' \in Stores /\ row' \in Stores /\ saved' \in [People -> Seq(Contents)]
        /\ Queue(review') /\ rule' \in Rules /\ JobFits(job')
LEMMA GoesOn ==
    ASSUME Goes
    PROVE  Known' /\ JobFits(job)'
<1>1. Queue(review)'
  BY DEF Goes, Queue
<1>2. JobFits(job)'
  BY DEF Goes, JobFits, PlanFits, Planning, Fits, KeepsApart, Refused, Gathered, Disagree, Trusted, Stored, Jobs, Stages, Tasked,
         Pairings, PeoplePairs, Answered
<1>3. Stores' = Stores
  BY DEF Stores, Contents
<1> QED BY <1>1, <1>2, <1>3 DEF Goes, Known, Stores, Contents

LEMMA JobsAre ==
    ASSUME NEW j, JobFits(j)
    PROVE  /\ j \in Jobs /\ j.at \in Stages /\ j.task \in Tasked /\ j.given \in Stores
           /\ j.merges \subseteq Pairings /\ j.aliases \subseteq Pairings /\ j.runs \in 0 .. MaxRuns
           /\ j.said \in Answered /\ j.died \in BOOLEAN
<1>1. j \in Jobs
  BY DEF JobFits
<1> QED BY <1>1 DEF Jobs, Stores

LEMMA BeginFits ==
    ASSUME Known, JobFits(job), NEW task \in Tasked, NEW at \in Stages,
           at \in Planning => task # "load", at = "load" => task = "load", Begin(task, at)
    PROVE  Goes
<1>1. job.runs + 1 \in 0 .. MaxRuns /\ job.died \in BOOLEAN
  <2>1. job.runs < MaxRuns
    BY DEF Begin
  <2>2. MaxRuns \in Nat
    BY RunsAssumption
  <2> QED BY <2>1, <2>2, JobsAre
<1>2. job' = [Idle(job.runs + 1) EXCEPT !.task = task, !.at = at, !.died = job.died]
  BY DEF Begin
<1>3. JobFits(job')
  BY <1>1, <1>2, IdleFits
<1>4. UNCHANGED <<storeVars, review, rule>>
  BY DEF Begin
<1> QED BY <1>3, <1>4 DEF Goes, Known, storeVars

LEMMA EndFits ==
    ASSUME JobFits(job), NEW died \in BOOLEAN
    PROVE  JobFits([Idle(job.runs) EXCEPT !.died = died])
<1> DEFINE i == Idle(job.runs)
           j == [i EXCEPT !.died = died]
<1>0. i.at = "idle"
  BY DEF Idle
<1>1. i \in Jobs /\ i.merges = {}
  BY JobsAre, IdleIs
<1> HIDE DEF i
<1>2. j \in Jobs /\ j.merges = {} /\ j.at \notin Planning /\ j.at # "load"
  BY <1>0, <1>1 DEF Jobs, Planning
<1> HIDE DEF j
<1>3. JobFits(j)
  BY <1>2, NothingPlanned DEF JobFits, PlanFits
<1> QED BY <1>3 DEF i, j

LEMMA StartsKeep ==
    ASSUME Known, JobFits(job), StartRows \/ StartGraph \/ StartLoad
    PROVE  Goes
<1>1. /\ "rows" \in Tasked /\ "graph" \in Tasked /\ "load" \in Tasked
      /\ "rows" \in Stages /\ "graph" \in Stages /\ "load" \in Stages
      /\ "load" \notin Planning /\ "rows" # "load" /\ "graph" # "load"
  BY DEF Tasked, Stages, Planning
<1>2. CASE Begin("rows", "rows")
  BY <1>1, <1>2, BeginFits
<1>3. CASE Begin("graph", "graph")
  BY <1>1, <1>3, BeginFits
<1>4. CASE Begin("load", "load")
  BY <1>1, <1>4, BeginFits
<1> QED BY <1>2, <1>3, <1>4 DEF StartRows, StartGraph, StartLoad

\* a step that writes nothing but what the run goes by
LEMMA JobAlone ==
    ASSUME Known, JobFits(job'), UNCHANGED <<storeVars, review, rule>>
    PROVE  Goes
BY DEF Known, Goes, storeVars

LEMMA QueueTyped ==
    ASSUME Queue(review)
    PROVE  ReviewTypeOK
BY DEF Queue, ReviewTypeOK

LEMMA EndsKeep ==
    ASSUME JobFits(job), End \/ job' = Idle(job.runs)
    PROVE  JobFits(job')
<1>1. CASE End
  BY <1>1, JobsAre, EndFits DEF End
<1>2. CASE job' = Idle(job.runs)
  <2>1. Idle(job.runs) \in Jobs /\ Idle(job.runs).merges = {}
    BY JobsAre, IdleIs
  <2>2. Idle(job.runs).at = "idle" /\ "idle" \notin Planning
    BY DEF Idle, Planning
  <2> HIDE DEF Idle
  <2> QED BY <1>2, <2>1, <2>2, NothingPlanned DEF JobFits, PlanFits
<1> QED BY <1>1, <1>2

LEMMA PlanRowsKeeps ==
    ASSUME Known, JobFits(job), PlanRows
    PROVE  Goes
<1>1. Home(Aliases(row)) \in [People -> People]
  BY AliasesPair, HomeWithin DEF Known
<1> DEFINE at(plan) == IF plan.merges = {} THEN "report" ELSE "keep"
<1>2. PICK answers \in Decisions(Home(Aliases(row))) :
          LET plan == Planned(row, answers)
          IN job' = [job EXCEPT !.at = at(plan), !.given = row, !.merges = plan.merges,
                                !.held = plan.held, !.disputed = plan.disputed,
                                !.separate = plan.separate, !.said = answers]
  BY Zenon DEF PlanRows
<1>3. answers \in Answered
  BY <1>1, QueueTyped, DecisionsAnswer DEF Known
<1>4. \A plan : at(plan) \in Stages /\ at(plan) \notin {"graph", "load"}
  BY DEF Stages
<1>5. job.task # "load" /\ job \in Jobs
  BY DEF PlanRows, JobFits, Planning
<1> HIDE DEF at
<1>7. JobFits(job')
  <2> DEFINE plan == Planned(row, answers)
             here == at(plan)
  <2>1. here \in Stages /\ here \notin {"graph", "load"}
    BY <1>4
  <2>2. job' = [[job EXCEPT !.at = here, !.given = row, !.merges = plan.merges,
                            !.held = plan.held, !.disputed = plan.disputed,
                            !.separate = plan.separate] EXCEPT !.said = answers]
    <3> DEFINE merges == plan.merges
               held == plan.held
               disputed == plan.disputed
               separate == plan.separate
    <3>1. job' = [job EXCEPT !.at = here, !.given = row, !.merges = merges, !.held = held,
                             !.disputed = disputed, !.separate = separate, !.said = answers]
      BY <1>2
    <3> HIDE DEF here, merges, held, disputed, separate
    <3> SUFFICES job' = [[job EXCEPT !.at = here, !.given = row, !.merges = merges, !.held = held,
                                     !.disputed = disputed, !.separate = separate]
                            EXCEPT !.said = answers]
      BY DEF merges, held, disputed, separate
    <3> QED BY <1>5, <3>1 DEF Jobs
  <2> HIDE DEF here
  <2> QED BY <1>3, <1>5, <2>1, <2>2, PlanWritten DEF Known
<1>8. UNCHANGED <<storeVars, review, rule>>
  BY DEF PlanRows
<1> QED BY <1>7, <1>8, JobAlone

LEMMA PreserveKeeps ==
    ASSUME Known, NEW people, people \subseteq Present(row)
    PROVE  Preserve(people) \in [People -> Seq(Contents)]
<1>1. \A p \in people : p \in People /\ row[p] \in Contents
  BY RecordsAre DEF Known, Present
<1>2. ASSUME NEW p \in People PROVE Preserve(people)[p] \in Seq(Contents)
  <2>1. saved[p] \in Seq(Contents)
    BY DEF Known
  <2>2. p \in people => <<row[p]>> \o saved[p] \in Seq(Contents)
    <3> SUFFICES ASSUME p \in people PROVE <<row[p]>> \o saved[p] \in Seq(Contents)
      OBVIOUS
    <3>1. <<row[p]>> \in Seq(Contents)
      BY <1>1
    <3> QED BY <2>1, <3>1
  <2> QED BY <2>1, <2>2 DEF Preserve
<1> QED BY <1>2 DEF Preserve

LEMMA StepFits ==
    ASSUME JobFits(job), NEW from, NEW to \in Stages, Step(from, to), to \notin {"graph", "load"},
           to \in Planning => job.task # "load"
    PROVE  JobFits(job')
BY PlanCarried DEF Step

LEMMA KeepRowsKeeps ==
    ASSUME Known, JobFits(job), KeepRows
    PROVE  Goes
<1> DEFINE people == UNION {{m[1], m[2]} : m \in job.merges}
<1>0. UNCHANGED <<node, row, review, rule>>
  BY DEF KeepRows
<1>1. CASE people \subseteq Present(row)
  <2>1. saved' = Preserve(people) /\ job' = [job EXCEPT !.at = "write"] /\ job.at = "keep"
    BY <1>1 DEF KeepRows
  <2>2. job.task # "load" /\ "write" \in Stages
    BY <2>1 DEF JobFits, Planning, Stages
  <2>3. JobFits(job')
    BY <2>1, <2>2, PlanCarried
  <2>4. saved' \in [People -> Seq(Contents)]
    BY <1>1, <2>1, PreserveKeeps
  <2> QED BY <1>0, <2>3, <2>4 DEF Goes, Known
<1>2. CASE ~(people \subseteq Present(row))
  <2>1. saved' = saved /\ End
    BY <1>2 DEF KeepRows
  <2>2. JobFits(job')
    BY <2>1, EndsKeep
  <2> QED BY <1>0, <2>1, <2>2 DEF Goes, Known
<1> QED BY <1>1, <1>2

LEMMA WriteRowsKeeps ==
    ASSUME Known, JobFits(job), WriteRows
    PROVE  Goes
<1>1. Step("write", "report") /\ row' = FoldRows(job.given, job.merges) /\ UNCHANGED <<node, saved, review, rule>>
  BY DEF WriteRows
<1>2. "report" \in Stages /\ "report" \notin Planning
  BY DEF Stages, Planning
<1>3. JobFits(job')
  BY <1>1, <1>2, StepFits
<1>4. job.task # "load"
  BY <1>1 DEF Step, JobFits, Planning
<1>5. \A m \in job.merges : job.given[m[1]] # Absent
  BY <1>4 DEF JobFits, PlanFits, Fits
<1>6. FoldRows(job.given, job.merges) \in Stores
  BY <1>5, JobsAre, RowsFold
<1> QED BY <1>1, <1>3, <1>6 DEF Goes, Known

LEMMA ReportsKeep ==
    ASSUME Known, JobFits(job), ReportRows \/ ReportGraph
    PROVE  Goes
<1>1. CASE ReportRows
  <2>1. Report(Home(Aliases(FoldRows(job.given, job.merges)))) /\ End /\ UNCHANGED <<storeVars, rule>>
    BY <1>1 DEF ReportRows
  <2>2. Queue(review')
    BY <2>1, Reported DEF Known
  <2> QED BY <2>1, <2>2, EndsKeep DEF Goes, Known, storeVars
<1>2. CASE ReportGraph
  <2>1. Report(Home(Flattened(Aliases(node)))) \/ review' = review
    BY <1>2 DEF ReportGraph
  <2>2. End /\ UNCHANGED <<storeVars, rule>>
    BY <1>2 DEF ReportGraph
  <2>3. Queue(review')
    BY <2>1, Reported DEF Known
  <2> QED BY <2>2, <2>3, EndsKeep DEF Goes, Known, storeVars
<1> QED BY <1>1, <1>2

LEMMA ReadAnswersKeeps ==
    ASSUME Known, JobFits(job), ReadAnswers
    PROVE  Goes
<1>1. UNCHANGED <<storeVars, review, rule>> /\ job.at = "graph"
  BY DEF ReadAnswers
<1>2. CASE Resolves(Aliases(node))
  <2>1. PICK answers \in Decisions(Home(Flattened(Aliases(node)))) :
            job' = [job EXCEPT !.at = "plan", !.said = answers]
    BY <1>2, Zenon DEF ReadAnswers
  <2>2. Home(Flattened(Aliases(node))) \in [People -> People]
    BY <1>2, AliasesPair, FlattenedPairs, HomeWithin DEF Known
  <2>3. answers \in Answered
    BY <2>2, QueueTyped, DecisionsAnswer DEF Known
  <2>4. job \in Jobs /\ job.task # "load" /\ job.merges = {}
    BY <1>1 DEF JobFits, Planning
  <2> DEFINE j == [job EXCEPT !.at = "plan", !.said = answers]
  <2>5. j \in Jobs /\ j.merges = {} /\ j.task # "load" /\ j.at = "plan"
    BY <2>3, <2>4 DEF Jobs, Stages
  <2>6. job' = j
    BY <2>1
  <2> HIDE DEF j
  <2>7. JobFits(j)
    BY <2>5, NothingPlanned DEF JobFits, PlanFits
  <2> QED BY <1>1, <2>6, <2>7, JobAlone
<1>3. CASE ~Resolves(Aliases(node))
  <2>1. End
    BY <1>3 DEF ReadAnswers
  <2> QED BY <1>1, <2>1, EndsKeep, JobAlone
<1> QED BY <1>2, <1>3

LEMMA PlanGraphKeeps ==
    ASSUME Known, JobFits(job), PlanGraph
    PROVE  Goes
<1> DEFINE plan == Planned(node, job.said)
           at == IF plan.merges = {} THEN "report" ELSE "list"
<1>1. UNCHANGED <<storeVars, review, rule>> /\ job.at = "plan"
  BY DEF PlanGraph
<1>2. job' = [job EXCEPT !.at = at, !.given = node, !.merges = plan.merges, !.held = plan.held,
                         !.disputed = plan.disputed, !.separate = plan.separate]
  BY Zenon DEF PlanGraph
<1>3. job \in Jobs /\ job.task # "load" /\ job.said \in Answered
  BY <1>1, JobsAre DEF JobFits, Planning
<1>4. at \in Stages /\ at \notin {"graph", "load"}
  BY DEF Stages
<1> HIDE DEF at
<1>5. JobFits(job')
  BY <1>2, <1>3, <1>4, PlanWritten DEF Known
<1> QED BY <1>1, <1>5, JobAlone

\* What a survivor is to be named by is people.
LEMMA ListedIs ==
    ASSUME JobFits(job), job.task # "load", NEW p \in People, NEW m \in job.merges, m[2] = p
    PROVE  Listed(p) \in Contents
<1> DEFINE duplicates == {k[1] : k \in {k \in job.merges : k[2] = p}}
           ids == job.given[p].ids \cup duplicates \cup UNION {job.given[d].ids : d \in duplicates}
<1>1. \A k \in job.merges : /\ k[1] \in People /\ k[2] \in People
                            /\ job.given[k[1]].ids \subseteq People /\ job.given[k[2]].ids \subseteq People
  <2> SUFFICES ASSUME NEW k \in job.merges
               PROVE  /\ k[1] \in People /\ k[2] \in People
                      /\ job.given[k[1]].ids \subseteq People /\ job.given[k[2]].ids \subseteq People
    OBVIOUS
  <2>1. k \in Pairings /\ job.given[k[1]] # Absent /\ job.given[k[2]] # Absent
    BY DEF JobFits, PlanFits, Fits
  <2>2. k[1] \in People /\ k[2] \in People
    BY <2>1 DEF Pairings
  <2>3. job.given \in Stores
    BY JobsAre
  <2> QED BY <2>1, <2>2, <2>3, RecordsAre
<1>2. ids \subseteq People
  BY <1>1
<1>3. Listed(p) = [ids |-> ids, works |-> {}, orcid |-> NoValue]
  BY DEF Listed
<1> HIDE DEF ids
<1> QED BY <1>2, <1>3 DEF Contents

LEMMA ListGraphKeeps ==
    ASSUME Known, JobFits(job), ListGraph
    PROVE  Goes
<1>1. Step("list", "fold") /\ UNCHANGED <<row, saved, review, rule>>
  BY DEF ListGraph
<1>2. job.task # "load"
  BY <1>1 DEF Step, JobFits, Planning
<1>3. JobFits(job')
  BY <1>1, StepFits DEF Stages, Planning
<1>4. node' = [p \in People |-> IF \E m \in job.merges : m[2] = p
                                THEN UpsertPerson(p, Listed(p)) ELSE node[p]]
  BY DEF ListGraph
<1>5. \A p \in People : (\E m \in job.merges : m[2] = p) => UpsertPerson(p, Listed(p)) \in Contents
  BY <1>2, ListedIs, UpsertIs DEF Known
<1>6. node' \in Stores
  BY <1>4, <1>5 DEF Known, Stores
<1> QED BY <1>1, <1>3, <1>6 DEF Goes, Known

LEMMA FoldsKeep ==
    ASSUME Known, JobFits(job), FoldGraph \/ FoldLoaded \/ Refold
    PROVE  Goes
<1>1. /\ FoldNodes(job.merges) \in Stores
      /\ FoldNodes(Aliases(job.given)) \in Stores
  BY JobsAre, AliasesPair, NodesFold DEF Known
<1>2. node' \in Stores /\ UNCHANGED <<row, saved, review, rule>>
  BY <1>1 DEF FoldGraph, FoldLoaded, Refold, Known
<1>3. JobFits(job')
  <2>1. CASE FoldGraph
    BY <2>1, StepFits DEF FoldGraph, Stages, Planning
  <2>2. CASE FoldLoaded
    BY <2>2, StepFits, EndsKeep DEF FoldLoaded, Stages, Planning
  <2>3. CASE Refold
    BY <2>3, EndsKeep DEF Refold
  <2> QED BY <2>1, <2>2, <2>3
<1> QED BY <1>2, <1>3 DEF Goes, Known

LEMMA ReadLoadKeeps ==
    ASSUME Known, JobFits(job), ReadLoad
    PROVE  Goes
<1> DEFINE known == Flattened(Aliases(node))
           all == Aliases(row) \cup known
<1>1. UNCHANGED <<storeVars, review, rule>> /\ job.at = "load"
  BY DEF ReadLoad
<1>2. CASE Resolves(Aliases(node)) /\ Resolves(all)
  <2>1. known \subseteq Pairings
    BY <1>2, AliasesPair, FlattenedPairs DEF Known
  <2>2. all \subseteq Pairings
    BY <2>1, AliasesPair DEF Known
  <2> DEFINE merges == Flattened(all)
             j == [job EXCEPT !.at = "nodes", !.given = row, !.merges = merges, !.aliases = known]
  <2>3. merges \subseteq Pairings
    BY <1>2, <2>2, FlattenedPairs
  <2>4. job' = j
    BY <1>2 DEF ReadLoad
  <2>5. job \in Jobs /\ row \in [People -> Contents \cup {Absent}]
    BY DEF JobFits, Known, Stores
  <2> HIDE DEF known, all, merges
  <2>6. j \in Jobs /\ j.at = "nodes" /\ j.task = job.task
    BY <2>1, <2>3, <2>5 DEF Jobs, Stages
  <2>7. job.task = "load"
    BY <1>1 DEF JobFits
  <2> HIDE DEF j
  <2>8. JobFits(j)
    BY <2>6, <2>7 DEF JobFits, PlanFits, Planning
  <2> QED BY <1>1, <2>4, <2>8, JobAlone
<1>3. CASE ~(Resolves(Aliases(node)) /\ Resolves(all))
  <2>1. End
    BY <1>3 DEF ReadLoad
  <2> QED BY <1>1, <2>1, EndsKeep, JobAlone
<1> QED BY <1>2, <1>3

LEMMA WithKnownIs ==
    ASSUME JobFits(job), NEW p \in People, job.given[p] # Absent
    PROVE  WithKnown(p) \in Contents
<1> DEFINE more == {m[1] : m \in {m \in job.aliases : m[2] = p}}
<1>1. more \subseteq People
  BY JobsAre DEF Pairings
<1>2. job.given[p] \in Contents
  BY JobsAre, RecordsAre
<1>3. WithKnown(p) = [job.given[p] EXCEPT !.ids = @ \cup more]
  BY DEF WithKnown
<1> HIDE DEF more
<1> QED BY <1>1, <1>2, <1>3 DEF Contents

LEMMA LoadsKeep ==
    ASSUME Known, JobFits(job), LoadNodes \/ LoadLinks
    PROVE  Goes
<1>1. CASE LoadNodes
  <2>1. Step("nodes", "links") /\ UNCHANGED <<row, saved, review, rule>>
    BY <1>1 DEF LoadNodes
  <2>2. JobFits(job')
    BY <2>1, StepFits DEF Stages, Planning
  <2>3. node' = [p \in People |-> IF job.given[p] = Absent THEN node[p] ELSE UpsertPerson(p, WithKnown(p))]
    BY <1>1 DEF LoadNodes
  <2>4. \A p \in People : job.given[p] # Absent => UpsertPerson(p, WithKnown(p)) \in Contents
    BY WithKnownIs, UpsertIs DEF Known
  <2>5. node' \in Stores
    BY <2>3, <2>4 DEF Known, Stores
  <2> QED BY <2>1, <2>2, <2>5 DEF Goes, Known
<1>2. CASE LoadLinks
  <2>1. Step("links", "fold") /\ UNCHANGED <<row, saved, review, rule>>
    BY <1>2 DEF LoadLinks
  <2>2. JobFits(job')
    BY <2>1, StepFits DEF Stages, Planning
  <2> DEFINE linked(p) == [node[p] EXCEPT !.works = @ \cup job.given[p].works]
  <2>3. node' = [p \in People |-> IF Absent \in {job.given[p], node[p]} THEN node[p] ELSE linked(p)]
    BY <1>2 DEF LoadLinks
  <2>4. ASSUME NEW p \in People, job.given[p] # Absent, node[p] # Absent PROVE linked(p) \in Contents
    <3>1. node[p] \in Contents /\ job.given[p] \in Contents
      BY <2>4, JobsAre, RecordsAre DEF Known
    <3> QED BY <3>1 DEF Contents
  <2> HIDE DEF linked
  <2>5. node' \in Stores
    BY <2>3, <2>4 DEF Known, Stores
  <2> QED BY <2>1, <2>2, <2>5 DEF Goes, Known
<1> QED BY <1>1, <1>2

LEMMA DeathKeeps ==
    ASSUME Known, JobFits(job), Die
    PROVE  Goes
<1>1. job' = [Idle(job.runs) EXCEPT !.died = TRUE] /\ UNCHANGED <<storeVars, review, rule>>
  BY DEF Die
<1> QED BY <1>1, EndFits, JobAlone

LEMMA RunsGoOn ==
    ASSUME Known, JobFits(job), RunNext
    PROVE  Goes
<1>1. \/ StartRows \/ StartGraph \/ StartLoad \/ PlanRows \/ KeepRows \/ WriteRows
      \/ ReportRows \/ ReportGraph \/ ReadAnswers \/ PlanGraph \/ ListGraph
      \/ FoldGraph \/ FoldLoaded \/ Refold \/ ReadLoad \/ LoadNodes \/ LoadLinks \/ Die
  BY DEF RunNext
<1> QED BY <1>1, StartsKeep, PlanRowsKeeps, KeepRowsKeeps, WriteRowsKeeps, ReportsKeep, ReadAnswersKeeps,
           PlanGraphKeeps, ListGraphKeeps, FoldsKeep, ReadLoadKeeps, LoadsKeep, DeathKeeps

-----------------------------------------------------------------------------
(* The panel keeps it too. *)

LEMMA AnotherThere ==
    ASSUME NEW S, IsFiniteSet(S), Cardinality(S) = 2, NEW x
    PROVE  \E y \in S : y # x
<1> SUFFICES ASSUME S \subseteq {x} PROVE FALSE
  OBVIOUS
<1>1. IsFiniteSet({x}) /\ Cardinality({x}) = 1
  BY FS_Singleton
<1>2. Cardinality(S) <= Cardinality({x})
  BY <1>1, FS_Subset
<1> QED BY <1>1, <1>2

LEMMA NodeSet ==
    ASSUME node \in Stores, NEW p \in People, NEW record \in Contents \cup {Absent}
    PROVE  [node EXCEPT ![p] = record] \in Stores
BY DEF Stores

\* A request at rest, or that goes from one step to the next.
DeskGoes == DeskTypeOK' /\ DeskFits'
Rests == [at : {"idle"}, q : {NoAnswer}, keep : {NoPerson}, drop : {NoPerson},
          ids : SUBSET People, back : Contents, works : SUBSET Works, orcid : Orcids \cup {NoValue},
          rows : [People -> Contents \cup {Absent}], todo : Seq(SUBSET (Questions \X Verdicts))]
LEMMA RestIs ==
    Resting \in Rests
<1> DEFINE nothing == [p \in People |-> Absent]
           none == <<>>
           rest == [at |-> "idle", q |-> NoAnswer, keep |-> NoPerson, drop |-> NoPerson, ids |-> {},
                    back |-> Bare, works |-> {}, orcid |-> NoValue, rows |-> nothing, todo |-> none]
<1>1. nothing \in [People -> Contents \cup {Absent}] /\ none \in Seq(SUBSET (Questions \X Verdicts))
  OBVIOUS
<1>2. Bare \in Contents
  BY DEF Bare, Contents
<1>3. Resting = rest
  BY Zenon DEF Resting
<1> HIDE DEF nothing, none
<1>4. rest \in Rests
  BY <1>1, <1>2 DEF Rests
<1> QED BY <1>3, <1>4

LEMMA RestFits ==
    ASSUME desk' = Resting, requests' \in 0 .. MaxRequests, crossed' \in BOOLEAN
    PROVE  DeskGoes
<1>1. desk' \in Rests
  BY RestIs
<1> QED BY <1>1 DEF DeskGoes, DeskTypeOK, DeskFits, Rests

LEMMA GoFits ==
    ASSUME DeskTypeOK, DeskFits, NEW to, Go(to), requests' \in 0 .. MaxRequests, crossed' \in BOOLEAN,
           desk.at \notin {"idle", "divide", "read", "undo"},
           to \in {"list", "fold", "mark", "patch", "give", "take", "rows", "verdict", "unmark"}
    PROVE  DeskGoes
<1>1. desk' = [desk EXCEPT !.at = to]
  BY DEF Go
<1>2. /\ desk'.at = to /\ desk'.q = desk.q /\ desk'.keep = desk.keep /\ desk'.drop = desk.drop
  BY <1>1 DEF DeskTypeOK
<1>3. DeskTypeOK'
  BY <1>1 DEF DeskTypeOK
<1>4. DeskFits'
  BY <1>2 DEF DeskFits
<1> QED BY <1>3, <1>4 DEF DeskGoes

LEMMA Requested ==
    ASSUME DeskTypeOK, NEW kind, Request(kind)
    PROVE  requests' \in 0 .. MaxRequests /\ desk.at = "idle"
BY DeskAssumption DEF DeskTypeOK, Request

LEMMA InHand ==
    ASSUME DeskTypeOK, NEW from, At(from)
    PROVE  requests' \in 0 .. MaxRequests /\ desk.at = from
BY DEF DeskTypeOK, At

\* the panel writes what it likes to the queue, or to one node
LEMMA Written ==
    ASSUME Known, JobFits(job), UNCHANGED runVars,
           \/ UNCHANGED storeVars /\ (Queue(review') \/ UNCHANGED review)
           \/ UNCHANGED <<row, saved, review>> /\ node' \in Stores
    PROVE  Goes
BY DEF Known, Goes, storeVars, runVars

LEMMA AnswerKeeps ==
    ASSUME Known, JobFits(job), DeskTypeOK, crossed' \in BOOLEAN,
           NEW q \in Questions, NEW v \in Verdicts, Answer(q, v)
    PROVE  Goes /\ DeskGoes
<1>1. requests' \in 0 .. MaxRequests
  BY Requested DEF Answer
<1>2. Queue(review')
  BY VerdictKept DEF Answer, Known
<1>3. Goes
  BY <1>2, Written DEF Answer
<1>4. DeskGoes
  <2>1. CASE desk' = Resting
    BY <1>1, <2>1, RestFits
  <2>2. CASE q \in Pairs /\ desk' = [Resting EXCEPT !.at = "read", !.q = q]
    <3> DEFINE rest == Resting
    <3>1. rest \in Rests
      BY RestIs
    <3> HIDE DEF rest
    <3>2. desk' = [rest EXCEPT !.at = "read", !.q = q]
      BY <2>2 DEF rest
    <3>3. DeskTypeOK' /\ desk'.at = "read" /\ desk'.q = q
      BY <1>1, <3>1, <3>2 DEF DeskTypeOK, Rests
    <3> QED BY <2>2, <3>3 DEF DeskGoes, DeskFits
  <2> QED BY <2>1, <2>2 DEF Answer
<1> QED BY <1>3, <1>4

LEMMA QueuedKeeps ==
    ASSUME Known, JobFits(job), DeskTypeOK, crossed' \in BOOLEAN,
           NEW q \in Questions, SkipQuestion(q) \/ WithdrawAnswer(q)
    PROVE  Goes /\ DeskGoes
<1>1. requests' \in 0 .. MaxRequests
  BY Requested DEF SkipQuestion, WithdrawAnswer
<1>2. Queue(review')
  BY PanelKeeps DEF SkipQuestion, WithdrawAnswer, MayWithdraw, Known
<1>3. Goes
  BY <1>2, Written DEF SkipQuestion, WithdrawAnswer
<1>4. DeskGoes
  BY <1>1, RestFits DEF SkipQuestion, WithdrawAnswer, Finish
<1> QED BY <1>3, <1>4

\* Dividing a group gives answers about questions, the last about the group.
LEMMA SplitIs ==
    ASSUME NEW q \in Questions, q.kind = "group", NEW same
    PROVE  /\ SplitAnswers(q.members, same) \in Seq(SUBSET (Questions \X Verdicts))
           /\ SplitAnswers(q.members, same) # <<>>
<1> DEFINE answers(chosen, verdict) ==
               {<<Question("pair", pair), verdict>> :
                   pair \in {p \in SUBSET q.members : Cardinality(p) = 2 /\ Cardinality(p \cap same) = chosen}}
<1>1. q.members \subseteq People /\ Cardinality(q.members) >= 2
  BY QuestionsAre
<1>2. Question("group", q.members) \in Questions
  BY <1>1, QuestionsAre
<1>3. ASSUME NEW n, NEW v \in Verdicts PROVE answers(n, v) \in SUBSET (Questions \X Verdicts)
  <2>1. \A pair \in SUBSET q.members : Cardinality(pair) = 2 => Question("pair", pair) \in Questions
    BY <1>1, QuestionsAre DEF PeoplePairs
  <2> DEFINE those == {p \in SUBSET q.members : Cardinality(p) = 2 /\ Cardinality(p \cap same) = n}
  <2>2. \A pair \in those : Question("pair", pair) \in Questions
    BY <2>1
  <2>3. answers(n, v) = {<<Question("pair", pair), v>> : pair \in those}
    BY Zenon
  <2> HIDE DEF those
  <2>4. {<<Question("pair", pair), v>> : pair \in those} \in SUBSET (Questions \X Verdicts)
    BY <2>2
  <2> HIDE DEF answers
  <2> QED BY <2>3, <2>4
<1>4. "same" \in Verdicts /\ "different" \in Verdicts
  BY DEF Verdicts
<1>5. SplitAnswers(q.members, same) =
          <<answers(2, "same"), answers(1, "different"), {<<Question("group", q.members), "different">>}>>
  BY DEF SplitAnswers
<1>6. {<<Question("group", q.members), "different">>} \in SUBSET (Questions \X Verdicts)
  BY <1>2, <1>4
<1> DEFINE a == answers(2, "same")
           b == answers(1, "different")
           c == {<<Question("group", q.members), "different">>}
           U == SUBSET (Questions \X Verdicts)
<1>7. a \in U /\ b \in U /\ c \in U
  <2> HIDE DEF answers
  <2> QED BY <1>3, <1>4, <1>6
<1>8. SplitAnswers(q.members, same) = <<a, b, c>>
  BY <1>5
<1> HIDE DEF a, b, c, U
<1>9. <<a, b, c>> \in Seq(U) /\ <<a, b, c>> # <<>>
  BY <1>7
<1> QED BY <1>8, <1>9 DEF U

LEMMA DivideKeeps ==
    ASSUME Known, JobFits(job), DeskTypeOK, crossed' \in BOOLEAN,
           NEW q \in Questions, NEW same, Divide(q, same)
    PROVE  Goes /\ DeskGoes
<1> DEFINE todo == SplitAnswers(q.members, same)
           rest == Resting
<1>1. requests' \in 0 .. MaxRequests
  BY Requested DEF Divide
<1>2. Goes
  BY Written DEF Divide
<1>3. todo \in Seq(SUBSET (Questions \X Verdicts)) /\ todo # <<>>
  BY SplitIs DEF Divide
<1>4. desk' = [rest EXCEPT !.at = "divide", !.todo = todo]
  BY DEF Divide
<1>5. rest \in Rests
  BY RestIs
<1> HIDE DEF todo, rest
<1>6. DeskTypeOK' /\ desk'.at = "divide" /\ desk'.todo = todo
  BY <1>1, <1>3, <1>4, <1>5 DEF DeskTypeOK, Rests
<1>7. DeskGoes
  BY <1>3, <1>6 DEF DeskGoes, DeskFits
<1> QED BY <1>2, <1>7

LEMMA DivideOneKeeps ==
    ASSUME Known, JobFits(job), DeskTypeOK, DeskFits, crossed' \in BOOLEAN, DivideOne
    PROVE  Goes /\ DeskGoes
<1> DEFINE U == SUBSET (Questions \X Verdicts)
           Left(a) == IF Head(desk.todo) = {a} THEN Tail(desk.todo)
                      ELSE [desk.todo EXCEPT ![1] = @ \ {a}]
<1>1. requests' \in 0 .. MaxRequests /\ desk.at = "divide"
  BY InHand DEF DivideOne
<1>2. desk.todo \in Seq(U) /\ desk.todo # <<>>
  BY <1>1 DEF DeskTypeOK, DeskFits
<1>3. PICK a \in Head(desk.todo) :
          /\ review' = RecordVerdict(a[1], a[2])
          /\ desk' = IF Left(a) = <<>> THEN Resting ELSE [desk EXCEPT !.todo = Left(a)]
  BY Zenon DEF DivideOne
<1>4. a[1] \in Questions /\ a[2] \in Verdicts
  <2>1. Head(desk.todo) \in U
    BY <1>2
  <2> QED BY <2>1
<1>5. Queue(review')
  BY <1>3, <1>4, VerdictKept DEF Known
<1>6. Goes
  BY <1>5, Written DEF DivideOne
<1>7. Left(a) \in Seq(U)
  <2> DEFINE todo == desk.todo
             less == [todo EXCEPT ![1] = @ \ {a}]
  <2>1. Tail(todo) \in Seq(U)
    BY <1>2
  <2>2. less \in Seq(U)
    <3>1. Len(todo) \in Nat /\ Len(todo) > 0 /\ todo \in [1 .. Len(todo) -> U]
      BY <1>2
    <3> HIDE DEF todo
    <3>2. todo[1] \in U
      BY <3>1
    <3>3. todo[1] \ {a} \in U
      BY <3>2
    <3>4. less \in [1 .. Len(todo) -> U]
      <4> HIDE DEF U
      <4> QED BY <3>1, <3>3
    <3> HIDE DEF less, U
    <3> QED BY <3>1, <3>4
  <2> QED BY <2>1, <2>2
<1> HIDE DEF Left
<1>8. DeskGoes
  <2>1. CASE desk' = Resting
    BY <1>1, <2>1, RestFits
  <2>2. CASE desk' = [desk EXCEPT !.todo = Left(a)] /\ Left(a) # <<>>
    <3>1. DeskTypeOK' /\ desk'.at = "divide" /\ desk'.todo = Left(a)
      BY <1>1, <1>7, <2>2 DEF DeskTypeOK
    <3> QED BY <2>2, <3>1 DEF DeskGoes, DeskFits
  <2> QED BY <1>3, <2>1, <2>2
<1> QED BY <1>6, <1>8

\* What a request has read of the two it folds, or written to the one that stays.
Points(store, m) == store[m[2]] # Absent /\ m[1] # m[2] /\ m[1] \in store[m[2]].ids
DeskNames(store, d) ==
    /\ d.at = "list" => /\ store[d.keep] # Absent /\ store[d.drop] # Absent
                        /\ d.ids = (store[d.keep].ids \cup store[d.drop].ids \cup {d.drop}) \ {d.keep}
    /\ d.at = "fold" => Points(store, <<d.drop, d.keep>>)

\* An answer is folded at once, the better ranked of the two naming the other.
LEMMA FoldNowKeeps ==
    ASSUME Known, JobFits(job), DeskTypeOK, DeskFits, crossed' \in BOOLEAN, FoldNow
    PROVE  Goes /\ DeskGoes /\ DeskNames(node', desk')
<1> DEFINE members == desk.q.members
           keep == Canonical(members, WorksOf(node), OrcidsOf(node))
           drop == CHOOSE p \in members : p # keep
           ids == (node[keep].ids \cup node[drop].ids \cup {drop}) \ {keep}
<1>1. requests' \in 0 .. MaxRequests /\ desk.at = "read"
  BY InHand DEF FoldNow
<1>2. Goes
  BY Written DEF FoldNow
<1>3. CASE \E p \in members : node[p] = Absent
  <2>1. desk' = Resting
    BY <1>3, Zenon DEF FoldNow
  <2>2. desk'.at = "idle"
    BY <2>1, RestIs DEF Rests
  <2> QED BY <1>1, <1>2, <2>1, <2>2, RestFits DEF DeskNames
<1>4. CASE ~\E p \in members : node[p] = Absent
  <2>1. desk.q \in Pairs /\ members \in PeoplePairs
    BY <1>1, QuestionsAre DEF DeskFits
  <2>2. members \subseteq People /\ IsFiniteSet(members) /\ members # {} /\ Cardinality(members) = 2
    <3>1. members \subseteq People /\ Cardinality(members) = 2
      BY <2>1 DEF PeoplePairs
    <3>2. IsFiniteSet(members)
      BY <3>1, FoldAssumption, FS_Subset
    <3> QED BY <3>1, <3>2, FS_EmptySet
  <2>3. \A p \in members : WorksOf(node)[p] \in Nat
    BY <2>2, WorksCount DEF Known
  <2>4. keep \in members
    <3> DEFINE works == WorksOf(node)
               orcid == OrcidsOf(node)
    <3>1. members \subseteq Nat /\ \A p \in members : works[p] \in Nat
      BY <2>2, <2>3, FoldAssumption
    <3> HIDE DEF works, orcid, members
    <3>2. Canonical(members, works, orcid) \in members
      BY <2>2, <3>1, CanonicalLeads
    <3> QED BY <3>2 DEF works, orcid, members
  <2> HIDE DEF members, keep
  <2>5. \E p \in members : p # keep
    BY <2>2, <2>4, AnotherThere
  <2>6. drop \in members /\ drop # keep
    BY <2>5
  <2> HIDE DEF drop
  <2>7. node[keep].ids \subseteq People /\ node[drop].ids \subseteq People /\ keep \in People /\ drop \in People
    BY <1>4, <2>2, <2>4, <2>6, RecordsAre DEF Known
  <2>8. ids \in SUBSET People
    BY <2>7
  <2>9. desk' = [desk EXCEPT !.at = "list", !.keep = keep, !.drop = drop, !.ids = ids]
    BY <1>4, Zenon DEF FoldNow, members, keep, drop
  <2> HIDE DEF ids
  <2>10. /\ DeskTypeOK' /\ desk'.at = "list" /\ desk'.q = desk.q
         /\ desk'.keep = keep /\ desk'.drop = drop /\ desk'.ids = ids
    BY <1>1, <2>7, <2>8, <2>9 DEF DeskTypeOK
  <2>11. node' = node /\ node[keep] # Absent /\ node[drop] # Absent
    BY <1>4, <2>4, <2>6 DEF FoldNow, storeVars
  <2>12. DeskNames(node', desk')
    BY <2>10, <2>11 DEF DeskNames, ids
  <2> QED BY <1>2, <2>1, <2>6, <2>7, <2>10, <2>12 DEF DeskGoes, DeskFits
<1> QED BY <1>3, <1>4

LEMMA FoldPairKeeps ==
    ASSUME Known, JobFits(job), DeskTypeOK, DeskFits, crossed' \in BOOLEAN,
           ListNow \/ FoldPair \/ MarkNow
    PROVE  Goes /\ DeskGoes
<1>1. CASE ListNow
  <2>1. requests' \in 0 .. MaxRequests /\ desk.at = "list" /\ Go("fold")
    BY <1>1, InHand DEF ListNow
  <2>2. DeskGoes
    BY <2>1, GoFits
  <2>3. desk.keep \in People /\ desk.ids \subseteq People
    BY <2>1 DEF DeskTypeOK, DeskFits
  <2>4. Stored(desk.keep, node) \in Contents
    BY <2>3, RecordsAre DEF Known
  <2>5. [Stored(desk.keep, node) EXCEPT !.ids = desk.ids] \in Contents
    BY <2>3, <2>4 DEF Contents
  <2>6. node' = SetIds(desk.keep, desk.ids) /\ UNCHANGED <<row, saved, runVars, review>>
    BY <1>1 DEF ListNow
  <2>7. node' \in Stores
    BY <2>3, <2>5, <2>6, NodeSet DEF Known, SetIds
  <2> QED BY <2>2, <2>6, <2>7, Written
<1>2. CASE FoldPair
  <2>1. requests' \in 0 .. MaxRequests /\ desk.at = "fold" /\ Go("mark")
    BY <1>2, InHand DEF FoldPair
  <2>2. DeskGoes
    BY <2>1, GoFits
  <2>3. {<<desk.drop, desk.keep>>} \subseteq Pairings
    BY <2>1 DEF DeskFits, Pairings
  <2>4. node' = FoldNodes({<<desk.drop, desk.keep>>}) /\ UNCHANGED <<row, saved, runVars, review>>
    BY <1>2 DEF FoldPair
  <2>5. node' \in Stores
    BY <2>3, <2>4, NodesFold DEF Known
  <2> QED BY <2>2, <2>4, <2>5, Written
<1>3. CASE MarkNow
  <2>1. requests' \in 0 .. MaxRequests /\ desk.at = "mark" /\ desk' = Resting
    BY <1>3, InHand DEF MarkNow, Finish
  <2>2. desk.q \in Pairs /\ desk.q \in Questions
    BY <2>1, QuestionsAre DEF DeskFits
  <2>3. Queue(review')
    BY <1>3, <2>2, PanelKeeps DEF MarkNow, Known
  <2>4. Goes
    BY <1>3, <2>3, Written DEF MarkNow
  <2> QED BY <2>1, <2>4, RestFits
<1> QED BY <1>1, <1>2, <1>3

-----------------------------------------------------------------------------
(* The undo. *)

LEMMA UndoKeeps ==
    ASSUME Known, JobFits(job), DeskTypeOK, crossed' \in BOOLEAN, NEW q \in Questions, Undo(q)
    PROVE  Goes /\ DeskGoes
<1> DEFINE rest == Resting
<1>1. requests' \in 0 .. MaxRequests
  BY Requested DEF Undo
<1>2. Goes
  BY Written DEF Undo
<1>3. q \in Pairs
  BY DEF Undo, Asked, Known, Queue, Pairs
<1>4. desk' = [rest EXCEPT !.at = "undo", !.q = q] /\ rest \in Rests
  BY RestIs DEF Undo
<1> HIDE DEF rest
<1>5. DeskTypeOK' /\ desk'.at = "undo" /\ desk'.q = q
  BY <1>1, <1>4 DEF DeskTypeOK, Rests
<1> QED BY <1>2, <1>3, <1>5 DEF DeskGoes, DeskFits

\* a row of before a merge, or of before several
LEMMA KeptIs ==
    ASSUME Known, NEW p \in People, NEW allowed
    PROVE  KeptWithin(p, allowed) \in Contents \cup {Absent}
<1> DEFINE fit == {i \in DOMAIN saved[p] : saved[p][i].ids \subseteq allowed}
<1>1. saved[p] \in Seq(Contents)
  BY DEF Known
<1>2. fit \subseteq Nat /\ fit \subseteq 1 .. Len(saved[p])
  BY <1>1
<1>3. KeptWithin(p, allowed) = IF fit = {} THEN Absent ELSE saved[p][Min(fit)]
  BY DEF KeptWithin
<1> HIDE DEF fit
<1>4. CASE fit = {}
  BY <1>3, <1>4
<1>5. CASE fit # {}
  <2>1. Min(fit) \in fit
    BY <1>2, <1>5, MinBelongs
  <2>2. \A i \in 1 .. Len(saved[p]) : saved[p][i] \in Contents
    BY <1>1
  <2>3. saved[p][Min(fit)] \in Contents
    BY <1>2, <2>1, <2>2
  <2> QED BY <1>3, <1>5, <2>3
<1> QED BY <1>4, <1>5

LEMMA RebuiltIs ==
    ASSUME Known, NEW keep, NEW drop, NEW p \in People
    PROVE  /\ SourceRow(keep, p) \in Contents \cup {Absent}
           /\ Rebuilt(keep, drop, p) \in Contents \cup {Absent}
<1>1. row[p] \in Contents \cup {Absent}
  BY DEF Known, Stores
<1>2. SourceRow(keep, p) \in Contents \cup {Absent}
  BY <1>1, KeptIs DEF SourceRow
<1>3. Rebuilt(keep, drop, p) \in {SourceRow(keep, p), KeptWithin(p, Remaining(keep, drop))}
  BY DEF Rebuilt
<1> QED BY <1>2, <1>3, KeptIs

\* The rows a survivor is described by are rebuilt ones.
Parts(keep, drop) == {p \in People : Rebuilt(keep, drop, p) \in Contents}
Described(keep, drop) ==
    [rows : SUBSET {[by |-> p, what |-> Rebuilt(keep, drop, p)] : p \in Parts(keep, drop)},
     covered : SUBSET People, mixed : BOOLEAN]
Takes(keep, drop, done, p) ==
    LET r == Rebuilt(keep, drop, p)
    IN IF r = Absent \/ p \in done.covered THEN done
       ELSE [rows |-> done.rows \cup {[by |-> p, what |-> r]},
             covered |-> done.covered \cup {p} \cup r.ids,
             mixed |-> done.mixed \/ ~(({p} \cup r.ids) \subseteq Remaining(keep, drop))]
LEMMA TakesIs ==
    ASSUME Known, NEW keep, NEW drop, NEW done \in Described(keep, drop), NEW p \in People
    PROVE  Takes(keep, drop, done, p) \in Described(keep, drop)
<1> DEFINE r == Rebuilt(keep, drop, p)
           All == {[by |-> x, what |-> Rebuilt(keep, drop, x)] : x \in Parts(keep, drop)}
           mixed == done.mixed \/ ~(({p} \cup r.ids) \subseteq Remaining(keep, drop))
           then == [rows |-> done.rows \cup {[by |-> p, what |-> r]},
                    covered |-> done.covered \cup {p} \cup r.ids, mixed |-> mixed]
<1>1. CASE r = Absent \/ p \in done.covered
  BY <1>1 DEF Takes
<1>2. CASE ~(r = Absent \/ p \in done.covered)
  <2>1. r \in Contents
    BY <1>2, RebuiltIs
  <2>2. [by |-> p, what |-> r] \in All
    BY <2>1 DEF Parts
  <2>3. r.ids \subseteq People
    BY <2>1 DEF Contents
  <2>4. mixed \in BOOLEAN
    OBVIOUS
  <2>5. done \in [rows : SUBSET All, covered : SUBSET People, mixed : BOOLEAN]
    BY DEF Described
  <2> HIDE DEF mixed, r, All
  <2>6. then \in [rows : SUBSET All, covered : SUBSET People, mixed : BOOLEAN]
    BY <2>2, <2>3, <2>4, <2>5
  <2>7. Takes(keep, drop, done, p) = then
    BY <1>2 DEF Takes, r, mixed
  <2> HIDE DEF then
  <2> QED BY <2>6, <2>7 DEF Described, All
<1> QED BY <1>1, <1>2

LEMMA SourcesAre ==
    ASSUME Known, NEW keep \in People, NEW drop \in People, node[keep] # Absent
    PROVE  Sources(keep, drop) \in Described(keep, drop)
<1> DEFINE others == Remaining(keep, drop) \ {keep}
           line == <<keep>> \o Ordered(others, <)
           n == Cardinality(others) + 1
           T == Described(keep, drop)
           S == 1 .. n
           base == [rows |-> {}, covered |-> {}, mixed |-> FALSE]
           Right(f) == f = [s \in SUBSET S |-> IF s = {} THEN base
                                ELSE Takes(keep, drop, f[s \ {Max(s)}], line[Max(s)])]
           folded == CHOOSE f : Right(f)
           op == [x \in S \X T |-> Takes(keep, drop, x[2], line[x[1]])]
<1>1. others \subseteq People /\ IsFiniteSet(others) /\ others \subseteq Nat
  <2>1. others \subseteq People
    BY RecordsAre DEF Known, Remaining
  <2> QED BY <2>1, FoldAssumption, FS_Subset
<1>2. n \in Nat /\ line \in [S -> People]
  <2> DEFINE up == Ordered(others, <)
             m == Cardinality(others)
  <2>1. up = Upward(others)
    BY Zenon DEF Ordered, Upward
  <2>2. m \in Nat /\ up \in [1 .. m -> others]
    BY <1>1, <2>1, NumbersUp
  <2>3. up \in [1 .. m -> People]
    BY <1>1, <2>2
  <2> HIDE DEF up, m, others
  <2>4. up \in Seq(People) /\ Len(up) = m
    BY <2>2, <2>3
  <2>5. <<keep>> \o up \in Seq(People) /\ Len(<<keep>> \o up) = m + 1
    BY <2>4
  <2> DEFINE whole == <<keep>> \o up
  <2>6. whole \in Seq(People) /\ Len(whole) = m + 1
    BY <2>5
  <2> HIDE DEF whole
  <2>7. whole \in [1 .. m + 1 -> People]
    BY <2>2, <2>6
  <2>8. line = whole /\ n = m + 1
    BY DEF whole, up, m
  <2> HIDE DEF line, n
  <2> QED BY <2>2, <2>7, <2>8
<1>3. base \in T
  BY DEF Described
<1>4. Sources(keep, drop) = folded[S]
  <2>1. DOMAIN line = S
    BY <1>2
  <2> QED BY <2>1 DEF Sources, FoldLeft, MapThenFoldSet, Takes
<1>5. op \in [S \X T -> T] /\ \A i \in S, t \in T : op[<<i, t>>] = Takes(keep, drop, t, line[i])
  <2>1. \A i \in S : line[i] \in People
    BY <1>2
  <2>2. \A i \in S, t \in T : Takes(keep, drop, t, line[i]) \in T
    BY <2>1, TakesIs
  <2> HIDE DEF line, T
  <2> QED BY <2>2
<1>6. \A s \in SUBSET S : s # {} => Max(s) \in s
  <2> SUFFICES ASSUME NEW s \in SUBSET S, s # {} PROVE Max(s) \in s
    OBVIOUS
  <2> HIDE DEF n, line
  <2>1. n \in Nat
    BY <1>2
  <2>2. \A i \in 1 .. n : i \in 0 .. n
    BY <2>1
  <2>3. s \subseteq 0 .. n
    BY <2>2
  <2> QED BY <2>1, <2>3, MaxBelongs
<1> HIDE DEF op, line, n, T, base
<1>7. \E f : Right(f)
  <2>1. PICK f \in [SUBSET S -> T] : FoldsLine(f, n, op, base)
    BY <1>2, <1>3, <1>5, LineFoldExists
  <2>2. ASSUME NEW s \in SUBSET S
        PROVE  f[s] = IF s = {} THEN base ELSE Takes(keep, drop, f[s \ {Max(s)}], line[Max(s)])
    <3>1. f[s] = IF s = {} THEN base ELSE op[<<Max(s), f[s \ {Max(s)}]>>]
      BY <2>1 DEF FoldsLine
    <3>2. s # {} => Max(s) \in S /\ f[s \ {Max(s)}] \in T
      BY <1>6, <2>1
    <3> HIDE DEF S
    <3> QED BY <1>5, <3>1, <3>2
  <2>3. f = [s \in SUBSET S |-> f[s]]
    BY <2>1
  <2>4. Right(f)
    <3> HIDE DEF S
    <3> QED BY <2>2, <2>3
  <2> QED BY <2>4
<1>8. Right(folded)
  BY <1>7
<1> HIDE DEF folded
<1>9. /\ folded[{}] = base
      /\ \A s \in SUBSET S : s # {} => folded[s] = Takes(keep, drop, folded[s \ {Max(s)}], line[Max(s)])
  <2> DEFINE f == folded
             body == [s \in SUBSET S |-> IF s = {} THEN base
                                         ELSE Takes(keep, drop, f[s \ {Max(s)}], line[Max(s)])]
  <2>1. f = body
    BY <1>8
  <2>2. /\ body[{}] = base
        /\ \A s \in SUBSET S : s # {} => body[s] = Takes(keep, drop, f[s \ {Max(s)}], line[Max(s)])
    OBVIOUS
  <2> HIDE DEF body
  <2> QED BY <2>1, <2>2
<1>10. \A s \in SUBSET S : s # {} /\ folded[s \ {Max(s)}] \in T =>
           folded[s] = op[<<Max(s), folded[s \ {Max(s)}]>>]
  BY <1>5, <1>6, <1>9
<1> HIDE DEF Right
<1> DEFINE Good == (0 .. n) \X T
<1>11. <<0, base>> \in Good
  BY <1>2, <1>3
<1>12. \A i \in 1 .. n : \A t \in T : <<i - 1, t>> \in Good => op[<<i, t>>] \in T /\ <<i, op[<<i, t>>]>> \in Good
  <2> SUFFICES ASSUME NEW i \in 1 .. n, NEW t \in T
               PROVE  op[<<i, t>>] \in T /\ <<i, op[<<i, t>>]>> \in Good
    OBVIOUS
  <2>1. op[<<i, t>>] \in T
    BY <1>5
  <2>2. i \in 0 .. n
    BY <1>2
  <2> QED BY <2>1, <2>2
<1>13. folded[1 .. n] \in T
  <2> HIDE DEF Good
  <2> QED BY <1>2, <1>3, <1>9, <1>10, <1>11, <1>12, LineFoldReaches
<1> QED BY <1>4, <1>13 DEF T

LEMMA SurvivorIs ==
    ASSUME Known, NEW keep \in People, NEW drop \in People, node[keep] # Absent
    PROVE  Survivor(keep, drop) \in Contents
<1> DEFINE store == [p \in People |-> Rebuilt(keep, drop, p)]
           extras == Others(keep, drop)
           rows == Sources(keep, drop).rows
           D == {d \in Parts(keep, drop) : d # keep /\ [by |-> d, what |-> store[d]] \in rows}
           base == Stored(keep, store)
<1>1. store \in Stores
  BY RebuiltIs DEF Stores
<1>2. base \in Contents
  BY <1>1, RecordsAre
<1>3. D \subseteq People /\ \A d \in D : store[d] \in Contents
  BY DEF Parts
<1>4. IsFiniteSet(D) /\ D \subseteq Nat
  BY <1>3, FoldAssumption, FS_Subset
<1>5. rows \subseteq {[by |-> p, what |-> Rebuilt(keep, drop, p)] : p \in Parts(keep, drop)}
  BY SourcesAre DEF Described
<1>6. \A p \in Parts(keep, drop) : store[p] = Rebuilt(keep, drop, p)
  BY DEF Parts
<1>7. extras = {s \in rows : s.by # keep}
  BY DEF Others
<1> HIDE DEF store, rows, extras
<1>8. extras = {[by |-> d, what |-> store[d]] : d \in D}
  <2>1. ASSUME NEW e \in extras PROVE \E d \in D : e = [by |-> d, what |-> store[d]]
    <3>1. PICK p \in Parts(keep, drop) : e = [by |-> p, what |-> Rebuilt(keep, drop, p)]
      BY <1>5, <1>7
    <3>2. e = [by |-> p, what |-> store[p]] /\ e \in rows /\ e.by # keep
      BY <1>6, <1>7, <3>1
    <3> QED BY <3>2
  <2>2. ASSUME NEW d \in D PROVE [by |-> d, what |-> store[d]] \in extras
    BY <1>7
  <2> HIDE DEF D
  <2> QED BY <2>1, <2>2
<1> HIDE DEF base, D
<1>9. Swallows(keep, base, D, store, MergeAll(keep, base, extras))
  BY <1>2, <1>3, <1>4, <1>8, MergedAll
<1>10. MergeAll(keep, base, extras) \in Contents
  BY <1>9 DEF Swallows
<1> QED BY <1>10 DEF Survivor, base, extras, store

\* A desk that has taken down what an undo will write.
TakenDown(keep, drop, ids, back, orcid, works, rows) ==
    [desk EXCEPT !.at = "patch", !.keep = keep, !.drop = drop, !.ids = ids, !.back = back,
                 !.orcid = orcid, !.works = works, !.rows = rows]
LEMMA TakenDownFits ==
    ASSUME DeskTypeOK, UNCHANGED requests, crossed' \in BOOLEAN,
           NEW keep \in People, NEW drop \in People, NEW ids \in SUBSET People,
           NEW back \in Contents, NEW orcid \in Orcids \cup {NoValue}, NEW works \in SUBSET Works,
           NEW rows \in [People -> Contents \cup {Absent}],
           desk' = TakenDown(keep, drop, ids, back, orcid, works, rows)
    PROVE  DeskTypeOK' /\ desk'.at = "patch" /\ desk'.keep = keep /\ desk'.drop = drop /\ desk'.q = desk.q
BY DEF DeskTypeOK, TakenDown

LEMMA PatchedIs ==
    ASSUME Known, DeskTypeOK, NEW keep \in People, NEW drop \in People, node[keep] # Absent,
           Divisible(keep, drop), desk' = Patched(keep, drop), UNCHANGED requests, crossed' \in BOOLEAN
    PROVE  DeskTypeOK' /\ desk'.at = "patch" /\ desk'.keep = keep /\ desk'.drop = drop /\ desk'.q = desk.q
<1> DEFINE back == SourceRow(keep, drop)
           whole == Whole(keep, drop)
           known == whole /\ Rebuilt(keep, drop, keep) # Absent
           survivor == Survivor(keep, drop)
           kept == node[keep].ids \ Returning(keep, drop)
           orcid == IF known /\ back.orcid # NoValue THEN survivor.orcid ELSE node[keep].orcid
           works == IF whole
                    THEN back.works \ UNION {s.what.works : s \in Sources(keep, drop).rows}
                    ELSE {}
           rows == [p \in People |->
                        IF ~FromArchive(keep, drop) THEN Absent
                        ELSE IF p = keep THEN [survivor EXCEPT !.ids = kept]
                        ELSE IF p = drop THEN back ELSE Absent]
<1>1. back \in Contents /\ survivor \in Contents /\ node[keep] \in Contents
  <2>1. back # Absent
    BY DEF Divisible
  <2> QED BY <2>1, RebuiltIs, SurvivorIs, RecordsAre DEF Known
<1>2. desk' = TakenDown(keep, drop, kept, back, orcid, works, rows)
  BY Zenon DEF Patched, TakenDown
<1> HIDE DEF back, survivor, whole, known
<1>3. kept \in SUBSET People /\ orcid \in Orcids \cup {NoValue} /\ works \in SUBSET Works
  BY <1>1 DEF Contents
<1> HIDE DEF kept
<1>4. [survivor EXCEPT !.ids = kept] \in Contents
  BY <1>1, <1>3 DEF Contents
<1>5. rows \in [People -> Contents \cup {Absent}]
  BY <1>1, <1>4
<1> HIDE DEF orcid, works, rows
<1> QED BY <1>1, <1>2, <1>3, <1>5, TakenDownFits

LEMMA LookUpKeeps ==
    ASSUME Known, JobFits(job), DeskTypeOK, DeskFits, crossed' \in BOOLEAN, LookUp
    PROVE  Goes /\ DeskGoes /\ desk'.at \in {"idle", "patch"}
<1> DEFINE left == desk.q.members \cap Present(node)
           keep == CHOOSE p \in left : TRUE
           drop == CHOOSE p \in desk.q.members : p # keep
<1>1. requests' \in 0 .. MaxRequests /\ desk.at = "undo" /\ UNCHANGED requests
  BY InHand DEF LookUp, At
<1>2. Goes
  BY Written DEF LookUp
<1>3. CASE desk' = Resting
  BY <1>1, <1>2, <1>3, RestFits, RestIs DEF Rests
<1>4. CASE Cardinality(left) = 1 /\ Divisible(keep, drop) /\ desk' = Patched(keep, drop)
  <2>1. desk.q \in Pairs /\ desk.q.members \in PeoplePairs
    BY <1>1, QuestionsAre DEF DeskFits
  <2>2. desk.q.members \subseteq People /\ IsFiniteSet(desk.q.members) /\ Cardinality(desk.q.members) = 2
    <3>1. desk.q.members \subseteq People /\ Cardinality(desk.q.members) = 2
      BY <2>1 DEF PeoplePairs
    <3> QED BY <3>1, FoldAssumption, FS_Subset
  <2>3. left # {}
    BY <1>4, FS_EmptySet
  <2>4. keep \in left
    BY <2>3
  <2>5. keep \in People /\ node[keep] # Absent
    BY <2>4 DEF Present
  <2> HIDE DEF keep, left
  <2>6. \E p \in desk.q.members : p # keep
    BY <2>2, AnotherThere
  <2>7. drop \in desk.q.members /\ drop # keep
    BY <2>6
  <2> HIDE DEF drop
  <2>8. drop \in People
    BY <2>2, <2>7
  <2>9. DeskTypeOK' /\ desk'.at = "patch" /\ desk'.keep = keep /\ desk'.drop = drop /\ desk'.q = desk.q
    BY <1>1, <1>4, <2>5, <2>8, PatchedIs
  <2> QED BY <1>2, <2>1, <2>5, <2>7, <2>8, <2>9 DEF DeskGoes, DeskFits
<1>5. desk' = Resting \/ (Cardinality(left) = 1 /\ Divisible(keep, drop) /\ desk' = Patched(keep, drop))
  BY Zenon DEF LookUp, Finish
<1> QED BY <1>3, <1>4, <1>5

LEMMA TakenApartKeeps ==
    ASSUME Known, JobFits(job), DeskTypeOK, DeskFits, crossed' \in BOOLEAN,
           PatchSurvivor \/ GiveBack \/ TakeOff
    PROVE  Goes /\ DeskGoes
<1>1. CASE PatchSurvivor
  <2>1. requests' \in 0 .. MaxRequests /\ desk.at = "patch" /\ Go("give")
    BY <1>1, InHand DEF PatchSurvivor
  <2>2. DeskGoes
    BY <2>1, GoFits
  <2>3. desk.keep \in People /\ desk.ids \subseteq People /\ desk.orcid \in Orcids \cup {NoValue}
    BY <2>1 DEF DeskTypeOK, DeskFits
  <2>4. Stored(desk.keep, node).works \subseteq Works
    BY <2>3, RecordsAre DEF Known, Contents
  <2>5. [ids |-> desk.ids, works |-> Stored(desk.keep, node).works, orcid |-> desk.orcid] \in Contents
    BY <2>3, <2>4 DEF Contents
  <2>6. /\ node' = [node EXCEPT ![desk.keep] =
                        [ids |-> desk.ids, works |-> Stored(desk.keep, node).works, orcid |-> desk.orcid]]
        /\ UNCHANGED <<row, saved, runVars, review>>
    BY <1>1 DEF PatchSurvivor
  <2>7. node' \in Stores
    BY <2>3, <2>5, <2>6, NodeSet DEF Known
  <2> QED BY <2>2, <2>6, <2>7, Written
<1>2. CASE GiveBack
  <2>1. requests' \in 0 .. MaxRequests /\ desk.at = "give"
    BY <1>2, InHand DEF GiveBack
  <2>2. DeskGoes
    BY <1>2, <2>1, GoFits, RestFits DEF GiveBack, Finish
  <2>3. desk.drop \in People /\ desk.back \in Contents
    BY <2>1 DEF DeskTypeOK, DeskFits
  <2>4. node' \in {node, [node EXCEPT ![desk.drop] = desk.back]} /\ UNCHANGED <<row, saved, runVars, review>>
    BY <1>2 DEF GiveBack
  <2>5. node' \in Stores
    BY <2>3, <2>4, NodeSet DEF Known
  <2> QED BY <2>2, <2>4, <2>5, Written
<1>3. CASE TakeOff
  <2>1. requests' \in 0 .. MaxRequests /\ desk.at = "take" /\ Go("rows")
    BY <1>3, InHand DEF TakeOff
  <2>2. DeskGoes
    BY <2>1, GoFits
  <2>3. desk.keep \in People
    BY <2>1 DEF DeskFits
  <2>4. UNCHANGED <<row, saved, runVars, review>>
    BY <1>3 DEF TakeOff
  <2>5. node' \in Stores
    <3>1. CASE node[desk.keep] = Absent
      BY <1>3, <3>1 DEF TakeOff, Known
    <3>2. CASE node[desk.keep] # Absent
      <4> DEFINE less == [node[desk.keep] EXCEPT !.works = @ \ desk.works]
      <4>1. node[desk.keep] \in Contents
        BY <2>3, <3>2, RecordsAre DEF Known
      <4>2. less \in Contents
        BY <4>1 DEF Contents
      <4>3. node' = [node EXCEPT ![desk.keep].works = @ \ desk.works]
        BY <1>3, <3>2 DEF TakeOff
      <4>4. node' = [node EXCEPT ![desk.keep] = less]
        BY <4>3
      <4> HIDE DEF less
      <4> QED BY <2>3, <4>2, <4>4, NodeSet DEF Known
    <3> QED BY <3>1, <3>2
  <2> QED BY <2>2, <2>4, <2>5, Written
<1> QED BY <1>1, <1>2, <1>3

LEMMA UndoneKeeps ==
    ASSUME Known, JobFits(job), DeskTypeOK, DeskFits, crossed' \in BOOLEAN,
           RestoreRows \/ UndoneVerdict \/ UndoneMark
    PROVE  Goes /\ DeskGoes
<1>1. CASE RestoreRows
  <2>1. requests' \in 0 .. MaxRequests /\ desk.at = "rows" /\ Go("verdict")
    BY <1>1, InHand DEF RestoreRows
  <2>2. DeskGoes
    BY <2>1, GoFits
  <2>3. row' = [p \in People |-> IF desk.rows[p] = Absent THEN row[p] ELSE desk.rows[p]]
    BY <1>1 DEF RestoreRows
  <2>4. \A p \in People : desk.rows[p] \in Contents \cup {Absent}
    BY DEF DeskTypeOK
  <2>5. row' \in Stores
    BY <2>3, <2>4 DEF Known, Stores
  <2>6. UNCHANGED <<node, saved, runVars, review>>
    BY <1>1 DEF RestoreRows
  <2> QED BY <2>2, <2>5, <2>6 DEF Goes, Known, runVars
<1>2. CASE UndoneVerdict
  <2>1. requests' \in 0 .. MaxRequests /\ desk.at = "verdict" /\ Go("unmark")
    BY <1>2, InHand DEF UndoneVerdict
  <2>2. DeskGoes
    BY <2>1, GoFits
  <2>3. desk.q \in Questions /\ "different" \in Verdicts
    BY <2>1, QuestionsAre DEF DeskFits, Verdicts
  <2>4. Queue(review')
    BY <1>2, <2>3, VerdictKept DEF UndoneVerdict, UndoVerdict, Known
  <2> QED BY <1>2, <2>2, <2>4, Written DEF UndoneVerdict
<1>3. CASE UndoneMark
  <2>1. requests' \in 0 .. MaxRequests /\ desk.at = "unmark" /\ desk' = Resting
    BY <1>3, InHand DEF UndoneMark, Finish
  <2>2. DeskGoes
    BY <2>1, RestFits
  <2>3. desk.q \in Questions
    BY <2>1, QuestionsAre DEF DeskFits
  <2>4. Queue(review')
    BY <1>3, <2>3, PanelKeeps DEF UndoneMark, Known
  <2> QED BY <1>3, <2>2, <2>4, Written DEF UndoneMark
<1> QED BY <1>1, <1>2, <1>3

-----------------------------------------------------------------------------
(* The invariant holds, and with it the types and what is said of plans. *)

LEMMA DeskGoesOn ==
    ASSUME Known, JobFits(job), DeskTypeOK, DeskFits, crossed' \in BOOLEAN, DeskNext
    PROVE  Goes /\ DeskGoes
<1>1. CASE \E q \in Questions :
               \/ \E v \in Verdicts : Answer(q, v)
               \/ SkipQuestion(q) \/ WithdrawAnswer(q) \/ Undo(q)
               \/ \E same \in SUBSET q.members : Divide(q, same)
  <2>1. PICK q \in Questions :
               \/ \E v \in Verdicts : Answer(q, v)
               \/ SkipQuestion(q) \/ WithdrawAnswer(q) \/ Undo(q)
               \/ \E same \in SUBSET q.members : Divide(q, same)
    BY <1>1
  <2>2. CASE \E v \in Verdicts : Answer(q, v)
    BY <2>2, AnswerKeeps
  <2>3. CASE SkipQuestion(q) \/ WithdrawAnswer(q)
    BY <2>3, QueuedKeeps
  <2>4. CASE Undo(q)
    BY <2>4, UndoKeeps
  <2>5. CASE \E same \in SUBSET q.members : Divide(q, same)
    BY <2>5, DivideKeeps
  <2> QED BY <2>1, <2>2, <2>3, <2>4, <2>5
<1>2. CASE DivideOne
  BY <1>2, DivideOneKeeps
<1>3. CASE FoldNow
  BY <1>3, FoldNowKeeps
<1>4. CASE ListNow \/ FoldPair \/ MarkNow
  BY <1>4, FoldPairKeeps
<1>5. CASE LookUp
  BY <1>5, LookUpKeeps
<1>6. CASE PatchSurvivor \/ GiveBack \/ TakeOff
  BY <1>6, TakenApartKeeps
<1>7. CASE RestoreRows \/ UndoneVerdict \/ UndoneMark
  BY <1>7, UndoneKeeps
<1> QED BY <1>1, <1>2, <1>3, <1>4, <1>5, <1>6, <1>7 DEF DeskNext

LEMMA InvariantAtFirst ==
    Init => FoldInv
<1> SUFFICES ASSUME Init PROVE FoldInv
  OBVIOUS
<1>1. PICK orcid \in Holders : row = [p \in People |-> [ids |-> {}, works |-> Own[p], orcid |-> orcid[p]]]
  BY DEF Init
<1>2. \A p \in People : Own[p] \subseteq Works /\ orcid[p] \in Orcids \cup {NoValue}
  BY FoldingAssumption
<1>3. row \in Stores
  BY <1>1, <1>2 DEF Stores, Contents
<1>4. node \in Stores /\ saved \in [People -> Seq(Contents)]
  BY DEF Init, Stores
<1>5. Queue(review)
  BY DEF Init, Queue
<1>6. rule \in Rules /\ job = Idle(0)
  BY DEF Init, RunInit
<1>7. JobFits(job)
  <2>1. 0 \in 0 .. MaxRuns
    BY RunsAssumption
  <2>2. Idle(0) \in Jobs /\ Idle(0).merges = {}
    BY <2>1, IdleIs
  <2>3. Idle(0).at = "idle"
    BY DEF Idle
  <2> HIDE DEF Idle
  <2> QED BY <1>6, <2>2, <2>3, NothingPlanned DEF JobFits, PlanFits, Planning
<1>8. DeskTypeOK /\ DeskFits
  <2>1. desk \in Rests
    BY RestIs DEF Init, DeskInit
  <2>2. requests \in 0 .. MaxRequests
    BY DeskAssumption DEF Init, DeskInit
  <2>3. crossed \in BOOLEAN
    BY DEF Init, DeskInit
  <2> QED BY <2>1, <2>2, <2>3 DEF DeskTypeOK, DeskFits, Rests
<1> QED BY <1>3, <1>4, <1>5, <1>6, <1>7, <1>8 DEF FoldInv, Known

LEMMA InvariantGoesOn ==
    FoldInv /\ [Next]_vars => FoldInv'
<1> SUFFICES ASSUME FoldInv, [Next]_vars PROVE FoldInv'
  OBVIOUS
<1>1. Known /\ JobFits(job) /\ DeskTypeOK /\ DeskFits
  BY DEF FoldInv
<1>2. ASSUME UNCHANGED vars PROVE FoldInv'
  <2>1. Goes
    BY <1>1, <1>2 DEF Goes, Known, vars
  <2>2. DeskTypeOK' /\ DeskFits'
    BY <1>1, <1>2 DEF vars, DeskTypeOK, DeskFits
  <2> QED BY <2>1, <2>2, GoesOn DEF FoldInv
<1>3. ASSUME Next PROVE FoldInv'
  <2>1. crossed' \in BOOLEAN
    BY <1>3 DEF Next
  <2>2. CASE RunNext /\ UNCHANGED deskVars
    <3>1. Goes
      BY <1>1, <2>2, RunsGoOn
    <3>2. DeskTypeOK' /\ DeskFits'
      BY <1>1, <2>1, <2>2 DEF deskVars, DeskTypeOK, DeskFits
    <3> QED BY <3>1, <3>2, GoesOn DEF FoldInv
  <2>3. CASE DeskNext
    BY <1>1, <2>1, <2>3, DeskGoesOn, GoesOn DEF FoldInv, DeskGoes
  <2> QED BY <1>3, <2>2, <2>3 DEF Next
<1> QED BY <1>2, <1>3

LEMMA InvariantSays ==
    FoldInv => TypeOK /\ PlansKeepApart
<1> SUFFICES ASSUME FoldInv PROVE TypeOK /\ PlansKeepApart
  OBVIOUS
<1>1. StoreTypeOK
  BY DEF FoldInv, Known, Stores, StoreTypeOK
<1>2. ReviewTypeOK
  BY QueueTyped DEF FoldInv, Known
<1>3. RunTypeOK
  BY DEF FoldInv, Known, JobFits, Jobs, Stages, Tasked, RunTypeOK
<1>4. DeskTypeOK
  BY DEF FoldInv
<1>5. PlansKeepApart
  BY DEF FoldInv, JobFits, PlanFits, Fits, KeepsApart, Gathered, Joining, PlansKeepApart
<1> QED BY <1>1, <1>2, <1>3, <1>4, <1>5 DEF TypeOK

\* Nodes, rows, kept rows, documents, the run and the request are what their
\* types say, whatever steps of a run and of a request fall between each other
\* and wherever a run dies: no fold, load or undo makes a record of anything
\* that is not one, and every answer is about a question there can be.
THEOREM FoldTypes == Spec => []TypeOK
<1>1. FoldInv => TypeOK
  BY InvariantSays
<1> QED BY <1>1, InvariantAtFirst, InvariantGoesOn, PTL DEF Spec

\* A plan joins no two that an answer read before keeps apart or whose ORCIDs
\* differ, through any number of others, and folds records that are there into
\* ones that stay: for any people, rules and answers.
THEOREM PlansStand == Spec => []PlansKeepApart
<1>1. FoldInv => PlansKeepApart
  BY InvariantSays
<1> QED BY <1>1, InvariantAtFirst, InvariantGoesOn, PTL DEF Spec

-----------------------------------------------------------------------------
(* Nobody is lost: who is named, and what a fold does to it. *)

Names(store, p) == \E x \in Present(store) : x # p /\ p \in store[x].ids
Within(store, p) == store[p] # Absent \/ Names(store, p)
\* what is there stays there, and goes on to name whom it names
Grows(old, new) ==
    \A x \in People : old[x] # Absent =>
        new[x] # Absent /\ \A d : d # x /\ d \in old[x].ids => d \in new[x].ids

LEMMA GrowthKeeps ==
    ASSUME NEW old, NEW new, Grows(old, new)
    PROVE  \A p \in People : /\ Names(old, p) => Names(new, p)
                             /\ Within(old, p) => Within(new, p)
BY DEF Grows, Names, Within, Present

LEMMA PointsName ==
    ASSUME NEW store, NEW m \in Pairings, Points(store, m)
    PROVE  Names(store, m[1])
BY DEF Points, Names, Present, Pairings

\* Whoever leads on is no end.
LEMMA HeldLead ==
    ASSUME NEW merges, merges \subseteq Pairings, Resolves(merges), NEW m \in Held(merges)
    PROVE  /\ m[1] \in People /\ m[2] \in People /\ node[m[1]] # Absent /\ node[m[2]] # Absent /\ m[1] # m[2]
           /\ \A k \in Held(merges) : k[1] # m[2] /\ (k[1] = m[1] => k[2] = m[2])
           /\ m \in Flattened(merges) /\ m[2] \in After(merges, m[1]) /\ Beyond(merges, m[1]) # {}
<1>1. /\ m \in Flattened(merges) /\ node[m[1]] # Absent /\ node[m[2]] # Absent
      /\ \A k \in Held(merges) : k \in Flattened(merges)
  BY DEF Held
<1>2. /\ Beyond(merges, m[1]) # {} /\ m[2] = CHOOSE q \in Ends(merges, m[1]) : TRUE
      /\ \A k \in Held(merges) : Beyond(merges, k[1]) # {} /\ k[2] = CHOOSE q \in Ends(merges, k[1]) : TRUE
  BY <1>1, FlattenedIs
<1>3. PICK q \in People : Ends(merges, m[1]) = {q} /\ q \in After(merges, m[1]) /\ Beyond(merges, q) = {}
  BY <1>2, EndsAre
<1>4. m[2] = q
  BY <1>2, <1>3
<1>5. m[1] \in People /\ m[1] \notin After(merges, m[1])
  BY <1>2, EndsAre
<1> QED BY <1>1, <1>2, <1>3, <1>4, <1>5

\* A fold loses nobody if the records it takes away are named.
LEMMA FoldKeepsAll ==
    ASSUME node \in Stores, NEW merges, merges \subseteq Pairings, Resolves(merges),
           \A m \in Held(merges) : Names(node, m[1])
    PROVE  \A p \in People : Within(node, p) => Within(FoldNodes(merges), p)
<1> DEFINE after == FoldNodes(merges)
<1>1. /\ after \in Stores
      /\ \A p \in People : IF (\E m \in Held(merges) : m[1] = p) \/ node[p] = Absent THEN after[p] = Absent
                           ELSE Swallows(p, node[p], Taken(merges, p), node, after[p])
  BY NodesFold
<1> HIDE DEF after
\* a name a record holds is held on by whoever is left of it
<1>2. ASSUME NEW x \in People, node[x] # Absent, NEW p \in People, p # x, p \in node[x].ids
      PROVE  Within(after, p)
  <2>1. CASE \E m \in Held(merges) : m[1] = x
    <3>1. PICK m \in Held(merges) : m[1] = x
      BY <2>1
    <3>2. m[2] \in People /\ node[m[2]] # Absent /\ \A k \in Held(merges) : k[1] # m[2]
      BY HeldLead
    <3>3. Swallows(m[2], node[m[2]], Taken(merges, m[2]), node, after[m[2]])
      BY <1>1, <3>2
    <3>4. after[m[2]] \in Contents /\ after[m[2]] # Absent
      BY <3>3, FoldAssumption DEF Swallows
    <3>5. CASE p = m[2]
      BY <3>4, <3>5 DEF Within
    <3>6. CASE p # m[2]
      <4>1. x \in Taken(merges, m[2])
        BY <3>1 DEF Taken
      <4>2. p \in after[m[2]].ids
        BY <1>2, <3>3, <3>6, <4>1 DEF Swallows
      <4> QED BY <3>2, <3>4, <3>6, <4>2 DEF Within, Names, Present
    <3> QED BY <3>5, <3>6
  <2>2. CASE ~\E m \in Held(merges) : m[1] = x
    <3>1. Swallows(x, node[x], Taken(merges, x), node, after[x])
      BY <1>1, <1>2, <2>2
    <3>2. after[x] # Absent /\ p \in after[x].ids
      BY <1>2, <3>1, FoldAssumption DEF Swallows
    <3> QED BY <1>2, <3>2 DEF Within, Names, Present
  <2> QED BY <2>1, <2>2
<1>3. ASSUME NEW p \in People, Names(node, p) PROVE Within(after, p)
  BY <1>2, <1>3 DEF Names, Present
<1>4. ASSUME NEW p \in People, node[p] # Absent PROVE Within(after, p)
  <2>1. CASE \E m \in Held(merges) : m[1] = p
    BY <1>3, <2>1
  <2>2. CASE ~\E m \in Held(merges) : m[1] = p
    <3>1. Swallows(p, node[p], Taken(merges, p), node, after[p])
      BY <1>1, <1>4, <2>2
    <3> QED BY <3>1, FoldAssumption DEF Swallows, Within
  <2> QED BY <2>1, <2>2
<1>5. \A p \in People : Within(node, p) => Within(after, p)
  BY <1>3, <1>4 DEF Within
<1> QED BY <1>5 DEF after

\* Merges that are flat resolve, to themselves.
LEMMA FlatResolve ==
    ASSUME NEW merges, merges \subseteq Pairings,
           \A m, k \in merges : (m[1] = k[1] => m = k) /\ m[2] # k[1]
    PROVE  Resolves(merges) /\ Flattened(merges) \subseteq merges
<1>1. ASSUME NEW m \in merges
      PROVE  /\ Beyond(merges, m[1]) = {m[2]} /\ After(merges, m[1]) = {m[2]}
             /\ Ends(merges, m[1]) = {m[2]}
  <2>1. Beyond(merges, m[1]) = {m[2]} /\ Beyond(merges, m[2]) = {}
    BY DEF Beyond
  <2>2. After(merges, m[1]) \subseteq {m[2]}
    BY <2>1, WalkIsWithin
  <2>3. Beyond(merges, m[1]) \subseteq After(merges, m[1])
    BY WalkCloses
  <2>4. After(merges, m[1]) = {m[2]}
    BY <2>1, <2>2, <2>3
  <2> QED BY <2>1, <2>4 DEF Ends
<1>2. Resolves(merges)
  <2>1. ASSUME NEW m \in merges
        PROVE  m[1] \notin After(merges, m[1]) /\ Cardinality(Ends(merges, m[1])) = 1
    BY <1>1, <2>1, FS_Singleton
  <2> QED BY <2>1 DEF Resolves
<1>3. ASSUME NEW m \in Flattened(merges) PROVE m \in merges
  <2>1. /\ m[1] \in People /\ Beyond(merges, m[1]) # {} /\ m = <<m[1], m[2]>>
        /\ m[2] = CHOOSE q \in Ends(merges, m[1]) : TRUE
    BY FlattenedIs
  <2>2. PICK k \in merges : k[1] = m[1]
    BY <2>1 DEF Beyond
  <2>3. m[2] = k[2]
    BY <1>1, <2>1, <2>2
  <2>4. k = <<k[1], k[2]>>
    BY DEF Pairings
  <2> QED BY <2>1, <2>2, <2>3, <2>4
<1> QED BY <1>2, <1>3

LEMMA FlattenedFlat ==
    ASSUME NEW merges, merges \subseteq Pairings, Resolves(merges)
    PROVE  /\ Flattened(merges) \subseteq Pairings
           /\ \A m, k \in Flattened(merges) : (m[1] = k[1] => m = k) /\ m[2] # k[1]
<1>1. Flattened(merges) \subseteq Pairings
  BY FlattenedPairs
<1>2. ASSUME NEW m \in Flattened(merges), NEW k \in Flattened(merges)
      PROVE  (m[1] = k[1] => m = k) /\ m[2] # k[1]
  <2>1. /\ Beyond(merges, m[1]) # {} /\ m = <<m[1], m[2]>> /\ m[2] = CHOOSE q \in Ends(merges, m[1]) : TRUE
        /\ Beyond(merges, k[1]) # {} /\ k = <<k[1], k[2]>> /\ k[2] = CHOOSE q \in Ends(merges, k[1]) : TRUE
    BY FlattenedIs
  <2>2. PICK q \in People : Ends(merges, m[1]) = {q} /\ Beyond(merges, q) = {}
    BY <2>1, EndsAre
  <2>3. m[2] = q
    BY <2>1, <2>2
  <2> QED BY <2>1, <2>2, <2>3
<1> QED BY <1>1, <1>2

-----------------------------------------------------------------------------
(* What a run under way and a request in hand have in the graph already.    *)

\* A load finds whoever the graph names as folded named by the record that
\* stands for him in the end, unless that record has a row to name him in
\* (_keep_graph_merges) or the rows fold nobody into him.  Only lists of the
\* graph that chain, as those of runs that died between naming and folding,
\* could fail this: the second fold of a load would drop the name in between.
AliasesStand ==
    ~crossed /\ job.at = "load" /\ Resolves(Aliases(node)) =>
        \A m \in Flattened(Aliases(node)) :
            \/ m[1] \in node[m[2]].ids
            \/ row[m[2]] # Absent
            \/ \A k \in Aliases(row) : k[2] # m[1]

GraphFits(store, j) ==
    j.at = "fold" /\ j.task = "graph" => \A m \in j.merges : Points(store, m)
Both(j) == Aliases(j.given) \cup j.aliases
Alone(j, p) == \A k \in Aliases(j.given) : k[2] # p
Stands(store, j) ==
    \A m \in j.aliases : /\ Names(store, m[1]) /\ m[1] # m[2]
                         /\ Points(store, m) \/ j.given[m[2]] # Absent \/ Alone(j, m[1])
StandsOn(store, j) ==
    \A m \in j.aliases : /\ Names(store, m[1]) /\ m[1] # m[2]
                         /\ Points(store, m) \/ Alone(j, m[1])
LoadFits(store, j, sure) ==
    /\ j.at \in {"nodes", "links", "refold"} => j.task = "load"
    /\ j.task = "load" =>
          /\ j.at \in {"nodes", "links", "fold", "refold"} => Resolves(Both(j)) /\ j.merges = Flattened(Both(j))
          /\ j.at = "nodes" /\ sure => Stands(store, j)
          /\ j.at \in {"links", "fold"} => (sure => StandsOn(store, j)) /\ Grows(j.given, store)
          /\ j.at = "refold" /\ sure => \A m \in j.merges : Names(store, m[1])
\* sure: whether what a load finds of the graph's lists is known to stand
LossInv(sure) ==
    /\ Rewriting /\ Running => crossed
    /\ ~crossed => GraphFits(node, job) /\ LoadFits(node, job, sure) /\ DeskNames(node, desk)

LEMMA AliasesLead ==
    ASSUME NEW store \in Stores, Resolves(Aliases(store)), NEW m \in Flattened(Aliases(store))
    PROVE  m \in Pairings /\ m[1] # m[2] /\ Names(store, m[1]) /\ store[m[2]] # Absent
<1> DEFINE all == Aliases(store)
<1>1. /\ all \subseteq Pairings
      /\ \A k : k \in all <=> \E p \in Present(store) : \E q \in store[p].ids : k = <<q, p>>
  BY AliasesPair
<1> HIDE DEF all
<1>2. /\ m[1] \in People /\ Beyond(all, m[1]) # {} /\ m = <<m[1], m[2]>>
      /\ m[2] = CHOOSE q \in Ends(all, m[1]) : TRUE
  BY <1>1, FlattenedIs DEF all
<1>3. PICK q \in People : Ends(all, m[1]) = {q} /\ q \in After(all, m[1])
  BY <1>1, <1>2, EndsAre DEF all
<1>4. m[2] = q /\ m[1] \notin After(all, m[1])
  BY <1>1, <1>2, <1>3, EndsAre DEF all
<1>5. \A p : Beyond(all, p) \subseteq Present(store)
  BY <1>1 DEF Beyond
<1>6. After(all, m[1]) \subseteq Present(store)
  BY <1>5, WalkIsWithin
<1>7. PICK y \in Present(store) : y # m[1] /\ m[1] \in store[y].ids
  <2>1. PICK k \in all : k[1] = m[1] /\ k[2] # m[1]
    BY <1>2 DEF Beyond
  <2>2. PICK p \in Present(store) : \E x \in store[p].ids : k = <<x, p>>
    BY <1>1
  <2> QED BY <2>1, <2>2
<1> QED BY <1>2, <1>3, <1>4, <1>6, <1>7 DEF Names, Pairings, Present

LEMMA EndIs ==
    ASSUME End \/ job' = Idle(job.runs)
    PROVE  job'.at = "idle"
<1>1. \A died : [Idle(job.runs) EXCEPT !.died = died].at = "idle"
  BY DEF Idle
<1>2. Idle(job.runs).at = "idle"
  BY DEF Idle
<1> HIDE DEF Idle
<1> QED BY <1>1, <1>2 DEF End

LEMMA IdleLoses ==
    ASSUME NEW sure \in BOOLEAN, NEW store, NEW j,
           j.at \in {"idle", "rows", "keep", "write", "graph", "plan", "list", "report", "load"}
    PROVE  GraphFits(store, j) /\ LoadFits(store, j, sure)
BY DEF GraphFits, LoadFits

LEMMA LoadReads ==
    ASSUME NEW sure \in BOOLEAN, Known, JobFits(job), sure => AliasesStand, ~crossed, ReadLoad
    PROVE  GraphFits(node, job') /\ LoadFits(node, job', sure)
<1> DEFINE known == Flattened(Aliases(node))
           all == Aliases(row) \cup known
<1>1. job.at = "load" /\ job.task = "load" /\ job \in Jobs
  BY DEF ReadLoad, JobFits
<1>2. CASE Resolves(Aliases(node)) /\ Resolves(all)
  <2> DEFINE merges == Flattened(all)
             j == [job EXCEPT !.at = "nodes", !.given = row, !.merges = merges, !.aliases = known]
  <2>1. job' = j
    BY <1>2 DEF ReadLoad
  <2>2. sure => \A m \in known :
            /\ m \in Pairings /\ m[1] # m[2] /\ Names(node, m[1])
            /\ Points(node, m) \/ row[m[2]] # Absent \/ \A k \in Aliases(row) : k[2] # m[1]
    BY <1>1, <1>2, AliasesLead DEF AliasesStand, Points, Known
  <2>3. Resolves(all) /\ merges = Flattened(all) /\ all = Aliases(row) \cup known
    BY <1>2
  <2> HIDE DEF known, all, merges
  <2>4. j.at = "nodes" /\ j.task = "load" /\ j.given = row /\ j.merges = merges /\ j.aliases = known
    BY <1>1 DEF Jobs
  <2> HIDE DEF j
  <2>5. Both(j) = all
    BY <2>3, <2>4 DEF Both
  <2>6. sure => Stands(node, j)
    BY <2>2, <2>4 DEF Stands, Alone
  <2> QED BY <2>1, <2>3, <2>4, <2>5, <2>6 DEF GraphFits, LoadFits
<1>3. CASE ~(Resolves(Aliases(node)) /\ Resolves(all))
  <2>1. End
    BY <1>3 DEF ReadLoad
  <2> QED BY <2>1, EndIs, IdleLoses
<1> QED BY <1>2, <1>3

\* Writing the rows over the nodes leaves every name, and adds the rows'.
LEMMA LoadNodesNames ==
    ASSUME NEW sure \in BOOLEAN, Known, JobFits(job), LoadNodes, LoadFits(node, job, sure)
    PROVE  Grows(node, node') /\ GraphFits(node', job') /\ LoadFits(node', job', sure)
<1>1. job.at = "nodes" /\ job' = [job EXCEPT !.at = "links"] /\ job \in Jobs
  BY DEF LoadNodes, Step, JobFits
<1>2. /\ job'.at = "links" /\ job'.task = job.task /\ job'.given = job.given
      /\ job'.merges = job.merges /\ job'.aliases = job.aliases
  BY <1>1 DEF Jobs
<1>3. node' = [p \in People |-> IF job.given[p] = Absent THEN node[p] ELSE UpsertPerson(p, WithKnown(p))]
  BY DEF LoadNodes
<1>4. ASSUME NEW p \in People, job.given[p] # Absent
      PROVE  /\ node'[p] # Absent
             /\ \A x : x # p => (x \in node'[p].ids <=>
                    \/ x \in job.given[p].ids
                    \/ \E m \in job.aliases : m[2] = p /\ m[1] = x
                    \/ node[p] # Absent /\ x \in node[p].ids)
  <2> DEFINE more == {m[1] : m \in {m \in job.aliases : m[2] = p}}
  <2>1. node'[p] = UpsertPerson(p, WithKnown(p))
    BY <1>3, <1>4
  <2>2. WithKnown(p) \in Contents
    BY <1>4, WithKnownIs
  <2>3. job.given[p] \in Contents
    BY <1>4, JobsAre, RecordsAre
  <2>4. WithKnown(p) = [job.given[p] EXCEPT !.ids = @ \cup more]
    BY DEF WithKnown
  <2>5. \A x : x \in more <=> \E m \in job.aliases : m[2] = p /\ m[1] = x
    OBVIOUS
  <2> HIDE DEF more
  <2>6. WithKnown(p).ids = job.given[p].ids \cup more
    BY <2>3, <2>4 DEF Contents
  <2>7. /\ UpsertPerson(p, WithKnown(p)) \in Contents
        /\ \A x : x # p => (x \in UpsertPerson(p, WithKnown(p)).ids <=>
               x \in WithKnown(p).ids \/ (node[p] # Absent /\ x \in node[p].ids))
    BY <2>2, UpsertIs DEF Known
  <2> QED BY <2>1, <2>5, <2>6, <2>7, FoldAssumption
<1>5. \A p \in People : job.given[p] = Absent => node'[p] = node[p]
  BY <1>3
<1>6. Grows(node, node')
  BY <1>4, <1>5 DEF Grows
<1>7. Grows(job.given, node')
  BY <1>4 DEF Grows
<1>8. job.task = "load" /\ (sure => Stands(node, job)) /\ job.aliases \subseteq Pairings
  BY <1>1, JobsAre DEF LoadFits
<1>9. ASSUME sure, NEW m \in job.aliases
      PROVE  Names(node', m[1]) /\ m[1] # m[2] /\ (Points(node', m) \/ Alone(job, m[1]))
  <2>1. m[1] \in People /\ m[2] \in People
    BY <1>8 DEF Pairings
  <2>2. /\ Names(node, m[1]) /\ m[1] # m[2]
        /\ Points(node, m) \/ job.given[m[2]] # Absent \/ Alone(job, m[1])
    BY <1>8, <1>9 DEF Stands
  <2>3. Names(node', m[1])
    BY <1>6, <2>1, <2>2, GrowthKeeps
  <2>4. Points(node, m) => Points(node', m)
    BY <1>6, <2>1 DEF Points, Grows
  <2>5. job.given[m[2]] # Absent => Points(node', m)
    BY <1>4, <2>1, <2>2 DEF Points
  <2> QED BY <2>2, <2>3, <2>4, <2>5
<1>10. sure => StandsOn(node', job')
  BY <1>2, <1>9 DEF StandsOn, Alone
<1>11. Both(job') = Both(job)
  BY <1>2 DEF Both
<1> QED BY <1>1, <1>2, <1>6, <1>7, <1>8, <1>10, <1>11 DEF GraphFits, LoadFits

LEMMA LoadLinksNames ==
    ASSUME NEW sure \in BOOLEAN, Known, JobFits(job), LoadLinks, LoadFits(node, job, sure)
    PROVE  Grows(node, node') /\ GraphFits(node', job') /\ LoadFits(node', job', sure)
<1>1. job.at = "links" /\ job' = [job EXCEPT !.at = "fold"] /\ job \in Jobs
  BY DEF LoadLinks, Step, JobFits
<1>2. /\ job'.at = "fold" /\ job'.task = job.task /\ job'.given = job.given
      /\ job'.merges = job.merges /\ job'.aliases = job.aliases
  BY <1>1 DEF Jobs
<1>3. \A p \in People : (node[p] # Absent => node'[p] # Absent /\ node'[p].ids = node[p].ids)
  <2> DEFINE linked(p) == [node[p] EXCEPT !.works = @ \cup job.given[p].works]
  <2>1. node' = [p \in People |-> IF Absent \in {job.given[p], node[p]} THEN node[p] ELSE linked(p)]
    BY DEF LoadLinks
  <2>2. ASSUME NEW p \in People, job.given[p] # Absent, node[p] # Absent
        PROVE  linked(p) # Absent /\ linked(p).ids = node[p].ids
    <3>1. node[p] \in Contents /\ job.given[p] \in Contents
      BY <2>2, JobsAre, RecordsAre DEF Known
    <3>2. linked(p) \in Contents /\ linked(p).ids = node[p].ids
      BY <3>1 DEF Contents
    <3> QED BY <3>2, FoldAssumption
  <2> HIDE DEF linked
  <2> QED BY <2>1, <2>2
<1>4. Grows(node, node')
  BY <1>3 DEF Grows
<1>5. /\ job.task = "load" /\ (sure => StandsOn(node, job)) /\ Grows(job.given, node)
      /\ job.aliases \subseteq Pairings
  BY <1>1, JobsAre DEF LoadFits
<1>6. Grows(job'.given, node')
  BY <1>2, <1>4, <1>5 DEF Grows
<1>7. ASSUME sure, NEW m \in job.aliases
      PROVE  Names(node', m[1]) /\ m[1] # m[2] /\ (Points(node', m) \/ Alone(job, m[1]))
  <2>1. m[1] \in People /\ m[2] \in People
    BY <1>5 DEF Pairings
  <2>2. Names(node, m[1]) /\ m[1] # m[2] /\ (Points(node, m) \/ Alone(job, m[1]))
    BY <1>5, <1>7 DEF StandsOn
  <2> QED BY <1>4, <2>1, <2>2, GrowthKeeps DEF Points, Grows
<1>8. sure => StandsOn(node', job')
  BY <1>2, <1>7 DEF StandsOn, Alone
<1>9. Both(job') = Both(job)
  BY <1>2 DEF Both
<1> QED BY <1>1, <1>2, <1>4, <1>5, <1>6, <1>8, <1>9 DEF GraphFits, LoadFits

\* Who is named by a record stays named, unless that record folds into his own.
LEMMA FoldNames ==
    ASSUME node \in Stores, NEW merges, merges \subseteq Pairings, Resolves(merges),
           NEW d \in People, NEW y \in People, node[y] # Absent, y # d, d \in node[y].ids,
           \A m \in Held(merges) : m[1] = y => m[2] # d
    PROVE  Names(FoldNodes(merges), d)
<1> DEFINE after == FoldNodes(merges)
<1>1. \A p \in People : IF (\E m \in Held(merges) : m[1] = p) \/ node[p] = Absent THEN after[p] = Absent
                        ELSE Swallows(p, node[p], Taken(merges, p), node, after[p])
  BY NodesFold
<1> HIDE DEF after
<1>2. CASE \E m \in Held(merges) : m[1] = y
  <2>1. PICK m \in Held(merges) : m[1] = y
    BY <1>2
  <2>2. m[2] \in People /\ node[m[2]] # Absent /\ (\A k \in Held(merges) : k[1] # m[2]) /\ m[2] # d
    BY <2>1, HeldLead
  <2>3. Swallows(m[2], node[m[2]], Taken(merges, m[2]), node, after[m[2]])
    BY <1>1, <2>2
  <2>4. y \in Taken(merges, m[2])
    BY <2>1 DEF Taken
  <2>5. after[m[2]] # Absent /\ d \in after[m[2]].ids
    BY <2>2, <2>3, <2>4, FoldAssumption DEF Swallows
  <2> QED BY <2>2, <2>5 DEF Names, Present, after
<1>3. CASE ~\E m \in Held(merges) : m[1] = y
  <2>1. Swallows(y, node[y], Taken(merges, y), node, after[y])
    BY <1>1, <1>3
  <2>2. after[y] # Absent /\ d \in after[y].ids
    BY <2>1, FoldAssumption DEF Swallows
  <2> QED BY <2>2 DEF Names, Present, after
<1> QED BY <1>2, <1>3

\* A walk along aliases goes on along more of them, and ends at one of them.
LEMMA WalksJoin ==
    ASSUME NEW some, NEW all, all \subseteq Pairings, some \subseteq all, NEW p, NEW q \in After(all, p)
    PROVE  After(some, q) \subseteq After(all, p)
<1>1. \A x : Beyond(some, x) \subseteq Beyond(all, x)
  BY DEF Beyond
<1>2. \A x \in After(all, p) : Beyond(some, x) \subseteq After(all, p)
  BY <1>1, WalkCloses
<1> QED BY <1>2, WalkIsWithin

LEMMA WalksEnd ==
    ASSUME NEW merges, NEW p
    PROVE  After(merges, p) \subseteq {k[2] : k \in merges}
<1>1. \A q : Beyond(merges, q) \subseteq {k[2] : k \in merges}
  BY DEF Beyond
<1> QED BY <1>1, WalkIsWithin

\* Folding what the rows know of leaves everybody named whom the second fold takes.
LEMMA FirstFoldNames ==
    ASSUME Known, NEW j, JobFits(j), Resolves(Aliases(j.given)), Resolves(Both(j)), Grows(j.given, node)
    PROVE  /\ \A m \in Held(Aliases(j.given)) : Names(node, m[1])
           /\ StandsOn(node, j) => \A m \in Flattened(Both(j)) : Names(FoldNodes(Aliases(j.given)), m[1])
<1> DEFINE own == Aliases(j.given)
           all == Both(j)
<1>1. /\ own \subseteq Pairings /\ all \subseteq Pairings /\ own \subseteq all
      /\ all = own \cup j.aliases /\ j.given \in Stores /\ node \in Stores
      /\ \A k : k \in own <=> \E x \in Present(j.given) : \E q \in j.given[x].ids : k = <<q, x>>
  BY JobsAre, AliasesPair DEF Both, Known
<1>2. Resolves(own) /\ Resolves(all)
  OBVIOUS
<1>3. \A p : Alone(j, p) <=> \A k \in own : k[2] # p
  BY DEF Alone
<1> HIDE DEF own, all
<1>4. ASSUME NEW d, Beyond(own, d) # {}
      PROVE  \E y \in People : node[y] # Absent /\ y # d /\ d \in node[y].ids
  <2>1. PICK k \in own : k[1] = d /\ k[2] # d
    BY <1>4 DEF Beyond
  <2>2. PICK x \in Present(j.given) : \E q \in j.given[x].ids : k = <<q, x>>
    BY <1>1
  <2>3. x \in People /\ j.given[x] # Absent /\ x # d /\ d \in j.given[x].ids
    BY <2>1, <2>2 DEF Present
  <2> QED BY <2>3 DEF Grows
<1>5. ASSUME NEW m \in Held(own) PROVE Names(node, m[1])
  <2>1. Beyond(own, m[1]) # {}
    BY <1>1, <1>2, HeldLead
  <2> QED BY <1>4, <2>1 DEF Names, Present
<1>6. ASSUME StandsOn(node, j), NEW m \in Flattened(all) PROVE Names(FoldNodes(own), m[1])
  <2> DEFINE d == m[1]
  <2>1. d \in People /\ Beyond(all, d) # {} /\ d \notin After(all, d)
    BY <1>1, <1>2, FlattenedIs, EndsAre
  <2> HIDE DEF d
  <2>2. CASE Beyond(own, d) # {}
    <3>1. PICK y \in People : node[y] # Absent /\ y # d /\ d \in node[y].ids
      BY <1>4, <2>2
    <3>2. \A k \in Held(own) : k[2] # d
      <4>1. ASSUME NEW k \in Held(own) PROVE Beyond(own, k[2]) = {}
        <5>1. k \in Flattened(own)
          BY DEF Held
        <5>2. Beyond(own, k[1]) # {} /\ k[2] = CHOOSE q \in Ends(own, k[1]) : TRUE
          BY <1>1, <5>1, FlattenedIs
        <5>3. PICK q \in People : Ends(own, k[1]) = {q} /\ Beyond(own, q) = {}
          BY <1>1, <1>2, <5>2, EndsAre
        <5> QED BY <5>2, <5>3
      <4> QED BY <2>2, <4>1
    <3> QED BY <1>1, <1>2, <2>1, <3>1, <3>2, FoldNames DEF d
  <2>3. CASE Beyond(own, d) = {}
    <3>1. PICK k \in all : k[1] = d /\ k[2] # d
      BY <2>1 DEF Beyond
    <3>2. k \in j.aliases
      BY <1>1, <2>3, <3>1 DEF Beyond
    <3>3. Names(node, d) /\ (Points(node, k) \/ Alone(j, d))
      BY <1>6, <3>1, <3>2 DEF StandsOn
    <3>4. k[2] \in People
      BY <1>1 DEF Pairings
    <3>5. CASE Points(node, k)
      <4>1. node[k[2]] # Absent /\ k[2] # d /\ d \in node[k[2]].ids
        BY <3>1, <3>5 DEF Points
      <4>2. k[2] \in After(all, d)
        BY <1>1, <3>1, WalkCloses DEF Beyond
      <4>3. After(own, k[2]) \subseteq After(all, d)
        BY <1>1, <4>2, WalksJoin
      <4>4. \A h \in Held(own) : h[1] = k[2] => h[2] # d
        BY <1>1, <1>2, <2>1, <4>3, HeldLead
      <4> QED BY <1>1, <1>2, <2>1, <3>4, <4>1, <4>4, FoldNames DEF d
    <3>6. CASE Alone(j, d)
      <4>1. PICK y \in People : node[y] # Absent /\ y # d /\ d \in node[y].ids
        BY <3>3 DEF Names, Present
      <4>2. \A h \in Held(own) : h[2] \in {x[2] : x \in own}
        BY <1>1, <1>2, HeldLead, WalksEnd
      <4>3. \A h \in Held(own) : h[2] # d
        BY <1>3, <3>6, <4>2
      <4> QED BY <1>1, <1>2, <2>1, <4>1, <4>3, FoldNames DEF d
    <3> QED BY <3>3, <3>5, <3>6
  <2> QED BY <2>2, <2>3
<1> QED BY <1>5, <1>6 DEF own, all

\* A step that loses nobody, with the run still fitting the graph.
Safe(sure) ==
    /\ sure \/ job.at # "refold" => \A p \in People : Within(node, p) => Within(node', p)
    /\ GraphFits(node', job') /\ LoadFits(node', job', sure)

LEMMA FoldLoadedLoses ==
    ASSUME NEW sure \in BOOLEAN, Known, JobFits(job), FoldLoaded, LoadFits(node, job, sure)
    PROVE  Safe(sure)
<1>1. job.at = "fold" /\ job.task = "load" /\ job \in Jobs
  BY DEF FoldLoaded, JobFits
<1>2. CASE Resolves(Aliases(job.given))
  <2>1. job' = [job EXCEPT !.at = "refold"] /\ node' = FoldNodes(Aliases(job.given))
    BY <1>2 DEF FoldLoaded, Step
  <2>2. /\ job'.at = "refold" /\ job'.task = job.task /\ job'.given = job.given
        /\ job'.merges = job.merges /\ job'.aliases = job.aliases
    BY <1>1, <2>1 DEF Jobs
  <2>3. /\ Resolves(Both(job)) /\ job.merges = Flattened(Both(job))
        /\ sure => StandsOn(node, job)
        /\ Grows(job.given, node)
    BY <1>1 DEF LoadFits
  <2>4. /\ \A m \in Held(Aliases(job.given)) : Names(node, m[1])
        /\ sure => \A m \in Flattened(Both(job)) : Names(node', m[1])
    BY <1>2, <2>1, <2>3, FirstFoldNames
  <2>5. \A p \in People : Within(node, p) => Within(node', p)
    BY <1>2, <2>1, <2>4, JobsAre, AliasesPair, FoldKeepsAll DEF Known
  <2>6. Both(job') = Both(job)
    BY <2>2 DEF Both
  <2> QED BY <1>1, <2>2, <2>3, <2>4, <2>5, <2>6 DEF Safe, GraphFits, LoadFits
<1>3. CASE ~Resolves(Aliases(job.given))
  <2>1. End /\ node' = node
    BY <1>3 DEF FoldLoaded
  <2>2. job'.at = "idle"
    BY <2>1, EndIs
  <2> QED BY <2>1, <2>2, IdleLoses DEF Safe
<1> QED BY <1>2, <1>3

LEMMA RefoldLoses ==
    ASSUME NEW sure \in BOOLEAN, Known, JobFits(job), Refold, LoadFits(node, job, sure)
    PROVE  Safe(sure)
<1>1. job.at = "refold" /\ job' = Idle(job.runs) /\ node' = FoldNodes(job.merges)
  BY DEF Refold
<1>2. job'.at = "idle"
  BY <1>1, EndIs
<1>3. /\ Resolves(Both(job)) /\ job.merges = Flattened(Both(job))
      /\ sure => \A m \in job.merges : Names(node, m[1])
  BY <1>1 DEF LoadFits
<1>4. Both(job) \subseteq Pairings
  BY JobsAre, AliasesPair DEF Both
<1>5. /\ job.merges \subseteq Pairings
      /\ \A m, k \in job.merges : (m[1] = k[1] => m = k) /\ m[2] # k[1]
  BY <1>3, <1>4, FlattenedFlat
<1>6. Resolves(job.merges) /\ Flattened(job.merges) \subseteq job.merges
  BY <1>5, FlatResolve
<1>7. sure => \A m \in Held(job.merges) : Names(node, m[1])
  BY <1>3, <1>6 DEF Held
<1>8. sure => \A p \in People : Within(node, p) => Within(node', p)
  BY <1>1, <1>5, <1>6, <1>7, FoldKeepsAll DEF Known
<1> QED BY <1>1, <1>2, <1>8, IdleLoses DEF Safe

LEMMA ListGraphLoses ==
    ASSUME NEW sure \in BOOLEAN, Known, JobFits(job), ListGraph
    PROVE  Safe(sure)
<1>1. job.at = "list" /\ job' = [job EXCEPT !.at = "fold"] /\ job \in Jobs /\ job.task # "load"
  BY DEF ListGraph, Step, JobFits, Planning
<1>2. job'.at = "fold" /\ job'.task = job.task /\ job'.merges = job.merges
  BY <1>1 DEF Jobs
<1>3. node' = [p \in People |-> IF \E m \in job.merges : m[2] = p
                                THEN UpsertPerson(p, Listed(p)) ELSE node[p]]
  BY DEF ListGraph
<1>4. ASSUME NEW p \in People, NEW m \in job.merges, m[2] = p
      PROVE  /\ node'[p] # Absent /\ (m[1] # p => m[1] \in node'[p].ids)
             /\ \A x : x # p /\ node[p] # Absent /\ x \in node[p].ids => x \in node'[p].ids
  <2>1. node'[p] = UpsertPerson(p, Listed(p))
    BY <1>3, <1>4
  <2>2. Listed(p) \in Contents
    BY <1>1, <1>4, ListedIs
  <2>3. m[1] \in Listed(p).ids
    BY <1>4 DEF Listed
  <2>4. /\ UpsertPerson(p, Listed(p)) \in Contents
        /\ \A x : x # p => (x \in UpsertPerson(p, Listed(p)).ids <=>
               x \in Listed(p).ids \/ (node[p] # Absent /\ x \in node[p].ids))
    BY <2>2, UpsertIs DEF Known
  <2> QED BY <2>1, <2>3, <2>4, FoldAssumption
<1>5. \A p \in People : (~\E m \in job.merges : m[2] = p) => node'[p] = node[p]
  BY <1>3
<1>6. Grows(node, node')
  BY <1>4, <1>5 DEF Grows
<1>7. ASSUME NEW m \in job.merges PROVE Points(node', m)
  <2>1. m \in Pairings /\ m[2] # m[1]
    BY <1>1 DEF JobFits, PlanFits, Fits
  <2>2. m[2] \in People
    BY <2>1 DEF Pairings
  <2> QED BY <1>4, <2>1, <2>2 DEF Points
<1>8. GraphFits(node', job') /\ LoadFits(node', job', sure)
  BY <1>1, <1>2, <1>7 DEF GraphFits, LoadFits
<1> QED BY <1>6, <1>8, GrowthKeeps DEF Safe

LEMMA FoldGraphLoses ==
    ASSUME NEW sure \in BOOLEAN, Known, JobFits(job), FoldGraph, GraphFits(node, job)
    PROVE  Safe(sure)
<1>1. /\ job.at = "fold" /\ job.task = "graph" /\ job' = [job EXCEPT !.at = "report"]
      /\ job \in Jobs /\ node' = FoldNodes(job.merges)
  BY DEF FoldGraph, Step, JobFits
<1>2. job'.at = "report"
  BY <1>1 DEF Jobs
<1>3. /\ job.merges \subseteq Pairings
      /\ \A m, k \in job.merges : (m[1] = k[1] => m = k) /\ m[2] # k[1]
  BY <1>1, JobsAre DEF JobFits, PlanFits, Fits
<1>4. Resolves(job.merges) /\ Flattened(job.merges) \subseteq job.merges
  BY <1>3, FlatResolve
<1>5. ASSUME NEW m \in Held(job.merges) PROVE Names(node, m[1])
  <2>1. m \in job.merges /\ m \in Pairings
    BY <1>3, <1>4 DEF Held
  <2>2. Points(node, m)
    BY <1>1, <2>1 DEF GraphFits
  <2> QED BY <2>1, <2>2, PointsName
<1>6. \A p \in People : Within(node, p) => Within(node', p)
  BY <1>1, <1>3, <1>4, <1>5, FoldKeepsAll DEF Known
<1> QED BY <1>2, <1>6, IdleLoses DEF Safe

\* The other steps of a run leave the graph as it is.
LEMMA OthersLose ==
    ASSUME NEW sure \in BOOLEAN, Known, JobFits(job),
           \/ StartRows \/ StartGraph \/ StartLoad \/ PlanRows \/ KeepRows \/ WriteRows
           \/ ReportRows \/ ReportGraph \/ ReadAnswers \/ PlanGraph \/ Die
    PROVE  Safe(sure)
<1> DEFINE Still == {"idle", "rows", "keep", "write", "graph", "plan", "list", "report", "load"}
<1>1. job \in Jobs /\ job.runs \in 0 .. MaxRuns
  BY JobsAre
<1>2. ASSUME NEW task, NEW at \in Still, Begin(task, at) PROVE job'.at \in Still
  <2> DEFINE i == Idle(job.runs + 1)
  <2>1. job.runs + 1 \in 0 .. MaxRuns
    <3>1. job.runs < MaxRuns
      BY <1>2 DEF Begin
    <3> QED BY <1>1, <3>1, RunsAssumption
  <2>2. i \in Jobs
    BY <2>1, IdleIs
  <2>3. job' = [i EXCEPT !.task = task, !.at = at, !.died = job.died]
    BY <1>2 DEF Begin
  <2> HIDE DEF i
  <2> QED BY <1>2, <2>2, <2>3 DEF Jobs
<1>3. CASE StartRows \/ StartGraph \/ StartLoad
  <2>1. node' = node
    BY <1>3 DEF StartRows, StartGraph, StartLoad, Begin, storeVars
  <2>2. job'.at \in Still
    BY <1>2, <1>3 DEF StartRows, StartGraph, StartLoad
  <2> QED BY <2>1, <2>2, IdleLoses DEF Safe
<1>4. CASE PlanRows
  <2> DEFINE at(plan) == IF plan.merges = {} THEN "report" ELSE "keep"
  <2>1. PICK answers :
            LET plan == Planned(row, answers)
            IN job' = [job EXCEPT !.at = at(plan), !.given = row, !.merges = plan.merges,
                                  !.held = plan.held, !.disputed = plan.disputed,
                                  !.separate = plan.separate, !.said = answers]
    BY <1>4, Zenon DEF PlanRows
  <2>2. \A plan : at(plan) \in Still
    OBVIOUS
  <2> HIDE DEF at
  <2>3. job'.at = at(Planned(row, answers))
    BY <1>1, <2>1 DEF Jobs
  <2>4. node' = node
    BY <1>4 DEF PlanRows, storeVars
  <2> QED BY <2>2, <2>3, <2>4, IdleLoses DEF Safe
<1>5. CASE PlanGraph
  <2> DEFINE plan == Planned(node, job.said)
             at == IF plan.merges = {} THEN "report" ELSE "list"
  <2>1. job' = [job EXCEPT !.at = at, !.given = node, !.merges = plan.merges, !.held = plan.held,
                           !.disputed = plan.disputed, !.separate = plan.separate]
    BY <1>5, Zenon DEF PlanGraph
  <2>2. at \in Still
    OBVIOUS
  <2> HIDE DEF at, plan
  <2>3. job'.at = at
    BY <1>1, <2>1 DEF Jobs
  <2>4. node' = node
    BY <1>5 DEF PlanGraph, storeVars
  <2> QED BY <2>2, <2>3, <2>4, IdleLoses DEF Safe
<1>6. CASE KeepRows \/ WriteRows \/ ReadAnswers
  <2>1. node' = node
    BY <1>6 DEF KeepRows, WriteRows, ReadAnswers, storeVars
  <2>2. \/ End \/ job' = [job EXCEPT !.at = "write"] \/ job' = [job EXCEPT !.at = "report"]
        \/ \E answers : job' = [job EXCEPT !.at = "plan", !.said = answers]
    BY <1>6, Zenon DEF KeepRows, WriteRows, ReadAnswers, Step
  <2>3. job'.at \in Still
    BY <1>1, <2>2, EndIs DEF Jobs
  <2> QED BY <2>1, <2>3, IdleLoses DEF Safe
<1>7. CASE ReportRows \/ ReportGraph
  <2>1. End /\ node' = node
    BY <1>7 DEF ReportRows, ReportGraph, storeVars
  <2> QED BY <2>1, EndIs, IdleLoses DEF Safe
<1>8. CASE Die
  <2>1. job' = [Idle(job.runs) EXCEPT !.died = TRUE]
    BY <1>8 DEF Die
  <2>2. [Idle(job.runs) EXCEPT !.died = TRUE].at = "idle"
    BY DEF Idle
  <2>3. job'.at = "idle"
    BY <2>1, <2>2
  <2>4. node' = node
    BY <1>8 DEF Die, storeVars
  <2> QED BY <2>3, <2>4, IdleLoses DEF Safe
<1> QED BY <1>3, <1>4, <1>5, <1>6, <1>7, <1>8

LEMMA RunsLose ==
    ASSUME NEW sure \in BOOLEAN, Known, JobFits(job), sure => AliasesStand, ~crossed, RunNext,
           GraphFits(node, job), LoadFits(node, job, sure)
    PROVE  Safe(sure)
<1>1. CASE \/ StartRows \/ StartGraph \/ StartLoad \/ PlanRows \/ KeepRows \/ WriteRows
           \/ ReportRows \/ ReportGraph \/ ReadAnswers \/ PlanGraph \/ Die
  BY <1>1, OthersLose
<1>2. CASE ListGraph
  BY <1>2, ListGraphLoses
<1>3. CASE FoldGraph
  BY <1>3, FoldGraphLoses
<1>4. CASE ReadLoad
  <2>1. GraphFits(node, job') /\ LoadFits(node, job', sure)
    BY <1>4, LoadReads
  <2>2. node' = node
    BY <1>4 DEF ReadLoad, storeVars
  <2> QED BY <2>1, <2>2 DEF Safe
<1>5. CASE LoadNodes
  BY <1>5, LoadNodesNames, GrowthKeeps DEF Safe
<1>6. CASE LoadLinks
  BY <1>6, LoadLinksNames, GrowthKeeps DEF Safe
<1>7. CASE FoldLoaded
  BY <1>7, FoldLoadedLoses
<1>8. CASE Refold
  BY <1>8, RefoldLoses
<1> QED BY <1>1, <1>2, <1>3, <1>4, <1>5, <1>6, <1>7, <1>8 DEF RunNext

\* A request loses nobody either, short of an undo.
LEMMA ListNowLoses ==
    ASSUME Known, DeskTypeOK, DeskFits, DeskNames(node, desk), ListNow
    PROVE  Grows(node, node') /\ DeskNames(node', desk')
<1>1. desk.at = "list" /\ desk' = [desk EXCEPT !.at = "fold"] /\ node' = SetIds(desk.keep, desk.ids)
  BY DEF ListNow, At, Go
<1>2. desk'.at = "fold" /\ desk'.keep = desk.keep /\ desk'.drop = desk.drop
  BY <1>1 DEF DeskTypeOK
<1>3. desk.keep \in People /\ desk.drop \in People /\ desk.keep # desk.drop /\ desk.ids \subseteq People
  BY <1>1 DEF DeskFits, DeskTypeOK
<1>4. /\ node[desk.keep] # Absent
      /\ desk.ids = (node[desk.keep].ids \cup node[desk.drop].ids \cup {desk.drop}) \ {desk.keep}
  BY <1>1 DEF DeskNames
<1>5. /\ node'[desk.keep] # Absent /\ node'[desk.keep].ids = desk.ids
      /\ \A p \in People : p # desk.keep => node'[p] = node[p]
  <2> DEFINE named == [node[desk.keep] EXCEPT !.ids = desk.ids]
  <2>1. node[desk.keep] \in Contents
    BY <1>3, <1>4, RecordsAre DEF Known
  <2>2. named \in Contents /\ named.ids = desk.ids
    BY <1>3, <2>1 DEF Contents
  <2>3. node' = [node EXCEPT ![desk.keep] = named]
    BY <1>1, <1>4 DEF SetIds, Stored
  <2> HIDE DEF named
  <2> QED BY <1>3, <2>2, <2>3, FoldAssumption DEF Known, Stores
<1>6. Grows(node, node')
  BY <1>4, <1>5 DEF Grows
<1>7. <<desk.drop, desk.keep>>[1] = desk.drop /\ <<desk.drop, desk.keep>>[2] = desk.keep
  OBVIOUS
<1>8. DeskNames(node', desk')
  BY <1>2, <1>3, <1>4, <1>5, <1>7 DEF DeskNames, Points
<1> QED BY <1>6, <1>8

LEMMA FoldPairLoses ==
    ASSUME Known, DeskTypeOK, DeskFits, DeskNames(node, desk), FoldPair
    PROVE  (\A p \in People : Within(node, p) => Within(node', p)) /\ DeskNames(node', desk')
<1> DEFINE m == <<desk.drop, desk.keep>>
<1>1. desk.at = "fold" /\ desk' = [desk EXCEPT !.at = "mark"] /\ node' = FoldNodes({m})
  BY DEF FoldPair, At, Go
<1>2. desk'.at = "mark"
  BY <1>1 DEF DeskTypeOK
<1>3. m \in Pairings /\ m[2] # m[1]
  BY <1>1 DEF DeskFits, Pairings
<1>4. Points(node, m)
  BY <1>1 DEF DeskNames
<1> HIDE DEF m
<1>5. /\ {m} \subseteq Pairings
      /\ \A h, k \in {m} : (h[1] = k[1] => h = k) /\ h[2] # k[1]
  BY <1>3
<1>6. Resolves({m}) /\ Flattened({m}) \subseteq {m}
  BY <1>5, FlatResolve
<1>7. \A h \in Held({m}) : Names(node, h[1])
  BY <1>3, <1>4, <1>6, PointsName DEF Held
<1> QED BY <1>1, <1>2, <1>5, <1>6, <1>7, FoldKeepsAll DEF Known, DeskNames

\* The steps of a request that write no node.
LEMMA DeskReads ==
    ASSUME Known, JobFits(job), DeskTypeOK, DeskFits, crossed' \in BOOLEAN, DeskNext,
           ~ListNow, ~FoldPair, ~PatchSurvivor, ~GiveBack, ~TakeOff
    PROVE  node' = node /\ job' = job /\ DeskNames(node', desk')
<1> DEFINE Still == {"idle", "read", "divide", "undo", "patch", "verdict", "unmark"}
<1>1. \A at : at \in Still => at \notin {"list", "fold"}
  OBVIOUS
<1>2. ASSUME desk' = Resting PROVE desk'.at \in Still
  BY <1>2, RestIs DEF Rests
<1>3. ASSUME NEW at \in Still, Go(at) PROVE desk'.at \in Still
  BY <1>3 DEF Go, DeskTypeOK
<1>4. CASE \E q \in Questions :
               \/ \E v \in Verdicts : Answer(q, v)
               \/ SkipQuestion(q) \/ WithdrawAnswer(q) \/ Undo(q)
               \/ \E same \in SUBSET q.members : Divide(q, same)
  <2> DEFINE rest == Resting
  <2>1. PICK q \in Questions :
               \/ \E v \in Verdicts : Answer(q, v)
               \/ SkipQuestion(q) \/ WithdrawAnswer(q) \/ Undo(q)
               \/ \E same \in SUBSET q.members : Divide(q, same)
    BY <1>4
  <2>2. node' = node /\ job' = job
    BY <2>1 DEF Answer, SkipQuestion, WithdrawAnswer, Undo, Divide, storeVars, runVars
  <2>3. \/ desk' = rest \/ desk' = [rest EXCEPT !.at = "read", !.q = q]
        \/ desk' = [rest EXCEPT !.at = "undo", !.q = q]
        \/ \E todo : desk' = [rest EXCEPT !.at = "divide", !.todo = todo]
    BY <2>1, Zenon DEF Answer, SkipQuestion, WithdrawAnswer, Undo, Divide, Finish
  <2>4. rest \in Rests
    BY RestIs
  <2> HIDE DEF rest
  <2>5. desk'.at \in Still
    BY <2>3, <2>4 DEF Rests
  <2> QED BY <1>1, <2>2, <2>5 DEF DeskNames
<1>5. CASE DivideOne
  <2>1. node' = node /\ job' = job /\ desk.at = "divide"
    BY <1>5 DEF DivideOne, At, storeVars, runVars
  <2>2. desk' = Resting \/ \E left : desk' = [desk EXCEPT !.todo = left]
    BY <1>5, Zenon DEF DivideOne
  <2>3. desk'.at \in Still
    BY <1>2, <2>1, <2>2 DEF DeskTypeOK
  <2> QED BY <1>1, <2>1, <2>3 DEF DeskNames
<1>6. CASE FoldNow
  <2>1. node' = node /\ job' = job
    BY <1>6 DEF FoldNow, storeVars, runVars
  <2> QED BY <1>6, <2>1, FoldNowKeeps
<1>7. CASE LookUp
  <2>1. node' = node /\ job' = job
    BY <1>7 DEF LookUp, storeVars, runVars
  <2>2. desk'.at \in Still
    BY <1>7, LookUpKeeps
  <2> QED BY <1>1, <2>1, <2>2 DEF DeskNames
<1>8. CASE MarkNow \/ RestoreRows \/ UndoneVerdict \/ UndoneMark
  <2>1. node' = node /\ job' = job
    BY <1>8 DEF MarkNow, RestoreRows, UndoneVerdict, UndoneMark, storeVars, runVars
  <2>2. Go("verdict") \/ Go("unmark") \/ desk' = Resting
    BY <1>8 DEF MarkNow, RestoreRows, UndoneVerdict, UndoneMark, Finish
  <2>3. desk'.at \in Still
    BY <1>2, <1>3, <2>2
  <2> QED BY <1>1, <2>1, <2>3 DEF DeskNames
<1> QED BY <1>4, <1>5, <1>6, <1>7, <1>8 DEF DeskNext

\* The two steps that take a record apart, and the one that takes its works.
LEMMA UndoNames ==
    ASSUME Known, DeskTypeOK, DeskFits, PatchSurvivor \/ GiveBack \/ TakeOff
    PROVE  DeskNames(node', desk') /\ (TakeOff => Grows(node, node'))
<1>1. Go("give") \/ Go("take") \/ Go("rows") \/ desk' = Resting
  BY DEF PatchSurvivor, GiveBack, TakeOff, Finish
<1>2. desk'.at \in {"give", "take", "rows", "idle"}
  BY <1>1, RestIs DEF Go, DeskTypeOK, Rests
<1>3. ASSUME TakeOff PROVE Grows(node, node')
  <2>1. desk.keep \in People
    BY <1>3 DEF TakeOff, At, DeskFits
  <2>2. CASE node[desk.keep] = Absent
    BY <1>3, <2>2 DEF TakeOff, Grows
  <2>3. CASE node[desk.keep] # Absent
    <3> DEFINE less == [node[desk.keep] EXCEPT !.works = @ \ desk.works]
    <3>1. node[desk.keep] \in Contents
      BY <2>1, <2>3, RecordsAre DEF Known
    <3>2. less \in Contents /\ less.ids = node[desk.keep].ids
      BY <3>1 DEF Contents
    <3>3. node' = [node EXCEPT ![desk.keep].works = @ \ desk.works]
      BY <1>3, <2>3 DEF TakeOff
    <3>4. node' = [node EXCEPT ![desk.keep] = less]
      BY <3>3
    <3> HIDE DEF less
    <3> QED BY <2>1, <3>2, <3>4, FoldAssumption DEF Known, Stores, Grows
  <2> QED BY <2>2, <2>3
<1> QED BY <1>2, <1>3 DEF DeskNames

\* Whoever is under way or in hand, everybody published stays so.
LEMMA NobodyGoes ==
    ASSUME NEW sure \in BOOLEAN, FoldInv, LossInv(sure), sure => AliasesStand, [Next]_vars
    PROVE  /\ LossInv(sure)'
           /\ ~crossed' /\ desk.at \notin {"patch", "give"} /\ (sure \/ job.at # "refold") =>
                  \A p \in People : Within(node, p) => Within(node', p)
<1> DEFINE Kept == \A p \in People : Within(node, p) => Within(node', p)
           Fit == GraphFits(node', job') /\ LoadFits(node', job', sure) /\ DeskNames(node', desk')
<1>1. Known /\ JobFits(job) /\ DeskTypeOK /\ DeskFits
  BY DEF FoldInv
<1>2. /\ Rewriting /\ Running => crossed
      /\ ~crossed => GraphFits(node, job) /\ LoadFits(node, job, sure) /\ DeskNames(node, desk)
  BY DEF LossInv
<1>3. CASE UNCHANGED vars
  <2>1. UNCHANGED <<node, job, desk, crossed>>
    BY <1>3 DEF vars
  <2> QED BY <1>2, <2>1 DEF LossInv, Rewriting, Running
<1>4. CASE Next
  <2>1. crossed' = (crossed \/ (Rewriting' /\ Running')) /\ crossed' \in BOOLEAN
    BY <1>4 DEF Next
  <2>2. ASSUME ~crossed'
        PROVE  Fit /\ (desk.at \notin {"patch", "give"} /\ (sure \/ job.at # "refold") => Kept)
    <3>1. ~crossed /\ ~(Rewriting' /\ Running')
      BY <2>1, <2>2
    <3>2. GraphFits(node, job) /\ LoadFits(node, job, sure) /\ DeskNames(node, desk) /\ ~(Rewriting /\ Running)
      BY <1>2, <3>1
    <3>3. CASE RunNext /\ desk' = desk
      <4>1. Safe(sure)
        BY <1>1, <3>1, <3>2, <3>3, RunsLose
      <4>2. CASE ~Rewriting
        <5>1. DeskNames(node', desk')
          BY <3>3, <4>2 DEF Rewriting, DeskNames
        <5> QED BY <4>1, <5>1 DEF Safe
      <4>3. CASE Rewriting
        <5>1. job.at = "idle"
          BY <3>2, <4>3 DEF Running
        <5>2. node' = node
          BY <3>3, <5>1 DEF RunNext, StartRows, StartGraph, StartLoad, Begin, storeVars, PlanRows, KeepRows,
                WriteRows, Step, ReportRows, ReadAnswers, PlanGraph, ListGraph, FoldGraph, ReportGraph,
                ReadLoad, LoadNodes, LoadLinks, FoldLoaded, Refold, Die
        <5> QED BY <3>2, <3>3, <4>1, <5>2 DEF Safe
      <4> QED BY <4>2, <4>3
    <3>4. CASE DeskNext
      <4>1. CASE ~ListNow /\ ~FoldPair /\ ~PatchSurvivor /\ ~GiveBack /\ ~TakeOff
        <5>1. node' = node /\ job' = job /\ DeskNames(node', desk')
          BY <1>1, <2>1, <3>4, <4>1, DeskReads
        <5> QED BY <3>2, <5>1
      <4>2. CASE ListNow \/ FoldPair \/ PatchSurvivor \/ GiveBack \/ TakeOff
        <5>1. Rewriting /\ job' = job
          BY <4>2 DEF Rewriting, ListNow, FoldPair, PatchSurvivor, GiveBack, TakeOff, At, runVars
        <5>2. job'.at = "idle"
          BY <3>2, <5>1 DEF Running
        <5>3. GraphFits(node', job') /\ LoadFits(node', job', sure)
          BY <5>2, IdleLoses
        <5>4. CASE ListNow
          BY <1>1, <3>2, <5>3, <5>4, ListNowLoses, GrowthKeeps
        <5>5. CASE FoldPair
          BY <1>1, <3>2, <5>3, <5>5, FoldPairLoses
        <5>6. CASE PatchSurvivor \/ GiveBack
          BY <1>1, <5>3, <5>6, UndoNames DEF PatchSurvivor, GiveBack, At
        <5>7. CASE TakeOff
          BY <1>1, <5>3, <5>7, UndoNames, GrowthKeeps
        <5> QED BY <4>2, <5>4, <5>5, <5>6, <5>7
      <4> QED BY <4>1, <4>2
    <3> QED BY <1>4, <3>3, <3>4 DEF Next, deskVars
  <2>3. LossInv(sure)'
    BY <2>1, <2>2 DEF LossInv
  <2> QED BY <2>2, <2>3
<1> QED BY <1>3, <1>4

LEMMA NobodyAtFirst ==
    ASSUME NEW sure \in BOOLEAN
    PROVE  Init => LossInv(sure)
<1> SUFFICES ASSUME Init PROVE LossInv(sure)
  OBVIOUS
<1>1. job.at = "idle" /\ desk.at = "idle"
  <2>1. Idle(0).at = "idle"
    BY DEF Idle
  <2> QED BY <2>1, RestIs DEF Init, RunInit, DeskInit, Rests
<1>2. GraphFits(node, job) /\ LoadFits(node, job, sure)
  BY <1>1, IdleLoses
<1> QED BY <1>1, <1>2 DEF LossInv, Rewriting, DeskNames

\* No step of a run or of an answer but the second fold of a load loses
\* anybody who was published, and no death of a run does: a survivor names
\* whom it swallows before the fold (dedup_graph_persons, merge_nodes,
\* jsonl_loader), for any people, rules and answers.
THEOREM NobodyGoesMissing ==
    Spec => [][~crossed' /\ desk.at \notin {"patch", "give"} /\ job.at # "refold" =>
                  \A p \in People : Published(p) => Published(p)']_vars
<1> DEFINE Stays == ~crossed' /\ desk.at \notin {"patch", "give"} /\ job.at # "refold" =>
                        \A p \in People : Published(p) => Published(p)'
<1>1. FoldInv /\ LossInv(FALSE) /\ [Next]_vars => LossInv(FALSE)' /\ [Stays]_vars
  <2> SUFFICES ASSUME FoldInv, LossInv(FALSE), [Next]_vars PROVE LossInv(FALSE)' /\ Stays
    OBVIOUS
  <2>1. /\ LossInv(FALSE)'
        /\ ~crossed' /\ desk.at \notin {"patch", "give"} /\ job.at # "refold" =>
               \A p \in People : Within(node, p) => Within(node', p)
    BY NobodyGoes
  <2>2. \A p \in People : (Published(p) => Within(node, p)) /\ (Within(node', p) => Published(p)')
    BY DEF Published, NamedBy, Within, Names, Present
  <2> QED BY <2>1, <2>2
<1>2. Init => FoldInv /\ LossInv(FALSE)
  BY InvariantAtFirst, NobodyAtFirst
<1>3. Spec => [][Stays]_vars
  BY <1>1, <1>2, InvariantGoesOn, PTL DEF Spec
<1> QED BY <1>3

\* Nor does that fold, so that nobody published is ever lost, wherever what a
\* load finds of the graph's lists stands.
THEOREM NobodyLostWhileAliasesStand == Spec /\ []AliasesStand => NobodyIsLost
<1> DEFINE Stays == ~crossed' /\ desk.at \notin {"patch", "give"} =>
                        \A p \in People : Published(p) => Published(p)'
<1>1. FoldInv /\ LossInv(TRUE) /\ AliasesStand /\ [Next]_vars => LossInv(TRUE)' /\ [Stays]_vars
  <2> SUFFICES ASSUME FoldInv, LossInv(TRUE), AliasesStand, [Next]_vars PROVE LossInv(TRUE)' /\ Stays
    OBVIOUS
  <2>1. /\ LossInv(TRUE)'
        /\ ~crossed' /\ desk.at \notin {"patch", "give"} =>
               \A p \in People : Within(node, p) => Within(node', p)
    BY NobodyGoes
  <2>2. \A p \in People : (Published(p) => Within(node, p)) /\ (Within(node', p) => Published(p)')
    BY DEF Published, NamedBy, Within, Names, Present
  <2> QED BY <2>1, <2>2
<1>2. Init => FoldInv /\ LossInv(TRUE)
  BY InvariantAtFirst, NobodyAtFirst
<1>3. Spec /\ []AliasesStand => [][Stays]_vars
  BY <1>1, <1>2, InvariantGoesOn, PTL DEF Spec
<1> QED BY <1>3 DEF NobodyIsLost
=============================================================================
