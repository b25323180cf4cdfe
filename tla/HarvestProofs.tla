---------------------------- MODULE HarvestProofs ----------------------------
(***************************************************************************)
(* What the stages of Harvest keep true of each other's rows, whatever     *)
(* papers, texts, links, repositories and answers there are.  A run reads  *)
(* everything, and then writes one collection after another: the           *)
(* invariant says what holds of each collection by itself (Writes), and of *)
(* the rows together with the writes still to be made (the parts below).   *)
(***************************************************************************)
EXTENDS Harvest, FoldLemmas

-----------------------------------------------------------------------------
(* What holds of each collection by itself. *)

\* a survivor's ledger, and what it has swallowed
Swallows(table, p) ==
    /\ table[p].versions = IF table[p].merged = {} THEN {} ELSE {p} \cup table[p].merged
    /\ \A q \in table[p].merged : table[q] = Absent
    /\ \A q \in Present(table) \ {p} : table[p].merged \cap table[q].merged = {}
PublicationTables == {table \in PublicationRows : \A p \in Present(table) : Swallows(table, p)}

\* a link with a verdict on all its evidence, seen in PDFs that mention it
SoundLink(u, link) ==
    /\ link.status = "classified" => link.judged = link.found
    /\ \A e \in link.found : e.pdf # NoDoc => e.doc \in Docs /\ <<e.doc, u>> \in Mentions
SoundLinks(u) == {link \in Link : SoundLink(u, link)}
LinkTables ==
    {table \in LinkRows :
        \A p \in Pubs : table[p] # Absent => \A u \in Urls : table[p][u] \in SoundLinks(u) \cup {Absent}}

PersonTables == [authored : SUBSET Pubs, contributed : SUBSET Urls]
AllRows == [publications : PublicationTables, persons : PersonTables,
            repo_links : LinkTables, repositories : RepositoryRowsSet]

Collections == {"publications", "persons", "repo_links", "repositories"}
Writes == [collection : {"publications"}, table : PublicationTables]
     \cup [collection : {"persons"}, table : PersonTables]
     \cup [collection : {"repo_links"}, table : LinkTables]
     \cup [collection : {"repositories"}, table : RepositoryRowsSet]

\* what a collection is going to be once the writes are made
Becomes(now, todo, c, table) ==
    \/ \E i \in 1 .. Len(todo) :
          /\ todo[i].collection = c /\ todo[i].table = table
          /\ \A k \in i + 1 .. Len(todo) : todo[k].collection # c
    \/ /\ \A i \in 1 .. Len(todo) : todo[i].collection # c
       /\ now[c] = table

-----------------------------------------------------------------------------
(* The parts of the invariant. *)

TablesInv ==
    /\ rows \in AllRows
    /\ files \in [Pubs -> Docs \cup {NoDoc}] /\ raw \subseteq Pubs /\ renamed \in 0 .. Renames
    /\ GitHubTypeOK
JobInv ==
    /\ job \in [stage : Stages \cup {"idle"}, todo : Seq(Writes), runs : 0 .. MaxRuns,
                begun : BOOLEAN, last : Stages \cup {"none"}, torn : BOOLEAN]
    /\ Len(job.todo) <= 7
    /\ job.stage = "idle" <=> job.todo = <<>>
    /\ job.stage = "idle" => ~job.begun

\* Unless a run has died between two writes: papers that count as judged have
\* nothing left to judge and papers have authors, now and once all is written;
\* the ledgers are whole at every write.
AllJudged(publications, links) ==
    \A p \in Present(publications) : publications[p].judged = "completed" =>
        \A u \in LinksOf(links, p) : links[p][u].status = "classified"
AllAuthored(publications, persons) == Present(publications) \subseteq persons.authored
Listed(table) == \A p \in Present(table) : table[p].listed = table[p].versions
WillBeWhole(now, todo) ==
    /\ \A publications, links : Becomes(now, todo, "publications", publications)
                /\ Becomes(now, todo, "repo_links", links) => AllJudged(publications, links)
    /\ \A publications, persons : Becomes(now, todo, "publications", publications)
                /\ Becomes(now, todo, "persons", persons) => AllAuthored(publications, persons)
ListedThroughout(now, todo) ==
    /\ Listed(now.publications)
    /\ \A i \in 1 .. Len(todo) : todo[i].collection = "publications" => Listed(todo[i].table)
WholeInv ==
    ~job.torn =>
        /\ ~job.begun => /\ AllJudged(rows.publications, rows.repo_links)
                         /\ AllAuthored(rows.publications, rows.persons)
        /\ WillBeWhole(rows, job.todo) /\ ListedThroughout(rows, job.todo)

\* The one write of links there may be keeps the evidence there is.
Keeps(texts, table, other) ==
    \A s \in Evidence(table) : texts[s[2].pdf] = s[2].doc => s \in Evidence(other)
KeepsEvidence(now, todo, texts) ==
    \A i \in 1 .. Len(todo) : todo[i].collection = "repo_links" =>
        /\ Keeps(texts, now.repo_links, todo[i].table)
        /\ \A k \in 1 .. Len(todo) : todo[k].collection = "repo_links" => k = i

\* Every write finds what it names by then, and what could be found still can be.
Kinds == {"publications", "repositories"}
Refers(kind, c, table) ==
    IF kind = "publications"
    THEN IF c = "persons" THEN table.authored
         ELSE IF c = "repo_links" THEN Present(table)
         ELSE IF c = "repositories" THEN UNION {table[u].pubs : u \in Present(table)}
         ELSE {}
    ELSE IF c = "persons" THEN table.contributed ELSE {}
Known(table) == {k \in DOMAIN table : StandsFor(table, k) # {}}
Resolves(now, todo, kind) ==
    /\ \A c \in Collections : Refers(kind, c, now[c]) \subseteq Known(now[kind])
    /\ \A i \in 1 .. Len(todo) :
          /\ todo[i].collection = kind =>
                /\ Known(now[kind]) \subseteq Known(todo[i].table)
                /\ \A k \in i + 1 .. Len(todo) : todo[k].collection = kind =>
                      Known(todo[i].table) \subseteq Known(todo[k].table)
          /\ \/ Refers(kind, todo[i].collection, todo[i].table) \subseteq Known(now[kind])
             \/ \E k \in 1 .. i - 1 :
                   /\ todo[k].collection = kind
                   /\ Refers(kind, todo[i].collection, todo[i].table) \subseteq Known(todo[k].table)

\* The names of a row all lead to the repository it is of, or it has but one.
NamesOf(id, row) == {id, row.url} \cup row.cited \cup row.merged
LeadsTo(at, id, row) ==
    \/ row.github = Nobody /\ NamesOf(id, row) = {id}
    \/ \E r \in Repos : row.github \in {r, Nobody} /\ \A u \in NamesOf(id, row) : at[u] = r
OneHost(at, table) == \A id \in Present(table) : LeadsTo(at, id, table[id])
\* No two rows are of one repository on GitHub.
OneEach(table) ==
    \A id, other \in Present(table) :
        table[id].github = table[other].github /\ table[id].github # Nobody => id = other
OneHosts(now, todo, at) ==
    /\ OneHost(at, now.repositories)
    /\ \A i \in 1 .. Len(todo) : todo[i].collection = "repositories" => OneHost(at, todo[i].table)
GitHubInv ==
    /\ \A r \in Repos : host[home[r]] = r
    /\ OneHosts(rows, job.todo, host)
    /\ job.last = "dedup" =>
          \A table : Becomes(rows, job.todo, "repositories", table) => OneEach(table)

HarvestInv ==
    /\ TablesInv /\ JobInv /\ WholeInv /\ KeepsEvidence(rows, job.todo, files)
    /\ \A kind \in Kinds : Resolves(rows, job.todo, kind)
    /\ GitHubInv

-----------------------------------------------------------------------------
(* One write after another. *)

\* a write is of one of the four collections, with a table of its kind
LEMMA WriteKinds ==
    ASSUME NEW w \in Writes
    PROVE  /\ w.collection \in Collections
           /\ w.collection = "publications" => w.table \in PublicationTables
           /\ w.collection = "persons" => w.table \in PersonTables
           /\ w.collection = "repo_links" => w.table \in LinkTables
           /\ w.collection = "repositories" => w.table \in RepositoryRowsSet
BY DEF Writes, Collections

LEMMA WriteMade ==
    /\ \A table \in PublicationTables : Write("publications", table) \in Writes
    /\ \A table \in PersonTables : Write("persons", table) \in Writes
    /\ \A table \in LinkTables : Write("repo_links", table) \in Writes
    /\ \A table \in RepositoryRowsSet : Write("repositories", table) \in Writes
BY DEF Write, Writes

\* what is left of the writes when the first is made
Left(todo) == IF Len(todo) = 1 THEN <<>> ELSE Tail(todo)
LEMMA Rest ==
    ASSUME NEW todo \in Seq(Writes), todo # <<>>
    PROVE  /\ Len(todo) \in Nat /\ Len(todo) >= 1
           /\ Head(todo) = todo[1] /\ todo[1] \in Writes
           /\ Left(todo) \in Seq(Writes) /\ Len(Left(todo)) = Len(todo) - 1
           /\ \A i \in 1 .. Len(Left(todo)) : i + 1 \in 2 .. Len(todo) /\ Left(todo)[i] = todo[i + 1]
           /\ Left(todo) = <<>> <=> Len(todo) = 1
<1>1. Len(todo) \in Nat /\ Len(todo) >= 1 /\ Head(todo) = todo[1] /\ todo[1] \in Writes
  OBVIOUS
<1>2. Tail(todo) \in Seq(Writes) /\ Len(Tail(todo)) = Len(todo) - 1
  OBVIOUS
<1>3. \A i \in 1 .. Len(todo) - 1 : Tail(todo)[i] = todo[i + 1]
  OBVIOUS
<1>4. Left(todo) \in Seq(Writes) /\ Len(Left(todo)) = Len(todo) - 1
  BY <1>1, <1>2 DEF Left
<1>5. \A i \in 1 .. Len(Left(todo)) : i + 1 \in 2 .. Len(todo) /\ Left(todo)[i] = todo[i + 1]
  BY <1>1, <1>3, <1>4 DEF Left
<1>6. Left(todo) = <<>> <=> Len(todo) = 1
  <2>1. CASE Len(todo) = 1
    BY <2>1 DEF Left
  <2>2. CASE Len(todo) # 1
    <3>1. Len(Left(todo)) # 0 /\ Len(<<>>) = 0
      BY <1>1, <1>4, <2>2
    <3> QED BY <2>2, <3>1
  <2> QED BY <2>1, <2>2
<1> QED BY <1>1, <1>4, <1>5, <1>6

After(now, w) == [now EXCEPT ![w.collection] = w.table]
LEMMA AfterRows ==
    ASSUME NEW now \in AllRows, NEW w \in Writes
    PROVE  /\ After(now, w) \in AllRows
           /\ \A c \in Collections : After(now, w)[c] = IF c = w.collection THEN w.table ELSE now[c]
<1>1. CASE w.collection = "publications"
  BY <1>1, WriteKinds DEF After, AllRows, Collections
<1>2. CASE w.collection = "persons"
  BY <1>2, WriteKinds DEF After, AllRows, Collections
<1>3. CASE w.collection = "repo_links"
  BY <1>3, WriteKinds DEF After, AllRows, Collections
<1>4. CASE w.collection = "repositories"
  BY <1>4, WriteKinds DEF After, AllRows, Collections
<1> QED BY <1>1, <1>2, <1>3, <1>4, WriteKinds DEF Collections

\* what a collection is going to be does not change with a write
LEMMA BecomesStill ==
    ASSUME NEW now \in AllRows, NEW todo \in Seq(Writes), todo # <<>>, NEW c \in Collections,
           NEW table, Becomes(After(now, todo[1]), Left(todo), c, table)
    PROVE  Becomes(now, todo, c, table)
<1> DEFINE then == After(now, todo[1])
           left == Left(todo)
<1>1. /\ Len(todo) \in Nat /\ Len(todo) >= 1 /\ Len(left) = Len(todo) - 1 /\ todo[1] \in Writes
      /\ \A i \in 1 .. Len(left) : i + 1 \in 2 .. Len(todo) /\ left[i] = todo[i + 1]
  BY Rest
<1>2. then[c] = IF c = todo[1].collection THEN todo[1].table ELSE now[c]
  BY <1>1, AfterRows
<1> HIDE DEF then, left
<1>3. \A k \in 2 .. Len(todo) : k - 1 \in 1 .. Len(left) /\ left[k - 1] = todo[k]
  <2> SUFFICES ASSUME NEW k \in 2 .. Len(todo) PROVE k - 1 \in 1 .. Len(left) /\ left[k - 1] = todo[k]
    OBVIOUS
  <2>1. k - 1 \in 1 .. Len(left) /\ (k - 1) + 1 = k
    BY <1>1
  <2> QED BY <1>1, <2>1
<1>4. ASSUME NEW i \in 1 .. Len(left), left[i].collection = c, left[i].table = table,
             \A k \in i + 1 .. Len(left) : left[k].collection # c
      PROVE  Becomes(now, todo, c, table)
  <2>1. i + 1 \in 1 .. Len(todo) /\ todo[i + 1].collection = c /\ todo[i + 1].table = table
    BY <1>1, <1>4
  <2>2. ASSUME NEW k \in (i + 1) + 1 .. Len(todo) PROVE todo[k].collection # c
    <3>1. k \in 2 .. Len(todo) /\ k - 1 \in i + 1 .. Len(left)
      BY <1>1
    <3> QED BY <1>3, <1>4, <3>1
  <2> QED BY <2>1, <2>2 DEF Becomes
<1>5. ASSUME \A i \in 1 .. Len(left) : left[i].collection # c, then[c] = table
      PROVE  Becomes(now, todo, c, table)
  <2>1. \A k \in 2 .. Len(todo) : todo[k].collection # c
    BY <1>3, <1>5
  <2>2. CASE c = todo[1].collection
    <3>1. 1 \in 1 .. Len(todo) /\ todo[1].collection = c /\ todo[1].table = table
      BY <1>1, <1>2, <1>5, <2>2
    <3>2. \A k \in 1 + 1 .. Len(todo) : todo[k].collection # c
      BY <2>1
    <3> QED BY <3>1, <3>2 DEF Becomes
  <2>3. CASE c # todo[1].collection
    <3>1. \A k \in 1 .. Len(todo) : todo[k].collection # c
      BY <1>1, <2>1, <2>3
    <3> QED BY <1>2, <1>5, <2>3, <3>1 DEF Becomes
  <2> QED BY <2>2, <2>3
<1>6. Becomes(then, left, c, table)
  BY DEF then, left
<1> QED BY <1>4, <1>5, <1>6 DEF Becomes

\* with nothing to write it is what it is
LEMMA BecomesNow ==
    ASSUME NEW now, NEW c, NEW table
    PROVE  Becomes(now, <<>>, c, table) <=> now[c] = table
BY DEF Becomes

LEMMA WholeStill ==
    ASSUME NEW now \in AllRows, NEW todo \in Seq(Writes), todo # <<>>
    PROVE  /\ WillBeWhole(now, todo) => WillBeWhole(After(now, todo[1]), Left(todo))
           /\ ListedThroughout(now, todo) => ListedThroughout(After(now, todo[1]), Left(todo))
<1>1. "publications" \in Collections /\ "persons" \in Collections /\ "repo_links" \in Collections
  BY DEF Collections
<1>2. WillBeWhole(now, todo) => WillBeWhole(After(now, todo[1]), Left(todo))
  BY <1>1, BecomesStill DEF WillBeWhole
<1>3. ASSUME ListedThroughout(now, todo) PROVE ListedThroughout(After(now, todo[1]), Left(todo))
  <2>1. /\ 1 \in 1 .. Len(todo) /\ todo[1] \in Writes
        /\ \A i \in 1 .. Len(Left(todo)) : i + 1 \in 1 .. Len(todo) /\ Left(todo)[i] = todo[i + 1]
    BY Rest
  <2>2. /\ After(now, todo[1]) \in AllRows
        /\ After(now, todo[1])["publications"] = IF "publications" = todo[1].collection
                                                 THEN todo[1].table ELSE now["publications"]
    BY <1>1, <2>1, AfterRows
  <2>3. Listed(After(now, todo[1]).publications)
    BY <1>3, <2>1, <2>2 DEF ListedThroughout
  <2> QED BY <1>3, <2>1, <2>3 DEF ListedThroughout
<1> QED BY <1>2, <1>3

LEMMA EvidenceStill ==
    ASSUME NEW now \in AllRows, NEW todo \in Seq(Writes), todo # <<>>, NEW texts,
           KeepsEvidence(now, todo, texts)
    PROVE  /\ KeepsEvidence(After(now, todo[1]), Left(todo), texts)
           /\ Keeps(texts, now.repo_links, After(now, todo[1]).repo_links)
<1> DEFINE then == After(now, todo[1])
           left == Left(todo)
<1>1. /\ Len(todo) \in Nat /\ Len(left) = Len(todo) - 1 /\ 1 \in 1 .. Len(todo) /\ todo[1] \in Writes
      /\ \A i \in 1 .. Len(left) : i + 1 \in 2 .. Len(todo) /\ left[i] = todo[i + 1]
  BY Rest
<1>2. then.repo_links = IF "repo_links" = todo[1].collection THEN todo[1].table ELSE now.repo_links
  <2>1. "repo_links" \in Collections
    BY DEF Collections
  <2>2. then \in AllRows /\ then["repo_links"] = IF "repo_links" = todo[1].collection
                                                 THEN todo[1].table ELSE now["repo_links"]
    BY <1>1, <2>1, AfterRows
  <2> QED BY <2>2
<1> HIDE DEF then, left
<1>3. Keeps(texts, now.repo_links, then.repo_links)
  BY <1>1, <1>2 DEF KeepsEvidence, Keeps
<1>4. KeepsEvidence(then, left, texts)
  <2> SUFFICES ASSUME NEW i \in 1 .. Len(left), left[i].collection = "repo_links"
               PROVE  /\ Keeps(texts, then.repo_links, left[i].table)
                      /\ \A k \in 1 .. Len(left) : left[k].collection = "repo_links" => k = i
    BY DEF KeepsEvidence
  <2>1. /\ i + 1 \in 1 .. Len(todo) /\ i + 1 # 1 /\ left[i] = todo[i + 1]
        /\ todo[i + 1].collection = "repo_links"
    BY <1>1
  <2>2. /\ Keeps(texts, now.repo_links, todo[i + 1].table)
        /\ \A k \in 1 .. Len(todo) : todo[k].collection = "repo_links" => k = i + 1
    BY <2>1 DEF KeepsEvidence
  <2>3. then.repo_links = now.repo_links
    BY <1>1, <1>2, <2>1, <2>2
  <2>4. ASSUME NEW k \in 1 .. Len(left), left[k].collection = "repo_links" PROVE k = i
    <3>1. k + 1 \in 1 .. Len(todo) /\ todo[k + 1].collection = "repo_links"
      BY <1>1, <2>4
    <3>2. k + 1 = i + 1
      BY <2>2, <3>1
    <3> QED BY <3>2
  <2> QED BY <2>1, <2>2, <2>3, <2>4
<1> QED BY <1>3, <1>4 DEF then, left

LEMMA ResolvesStill ==
    ASSUME NEW now \in AllRows, NEW todo \in Seq(Writes), todo # <<>>, NEW kind \in Kinds,
           Resolves(now, todo, kind)
    PROVE  Resolves(After(now, todo[1]), Left(todo), kind)
<1> DEFINE then == After(now, todo[1])
           left == Left(todo)
           R(w) == Refers(kind, w.collection, w.table)
<1>1. /\ Len(todo) \in Nat /\ Len(left) = Len(todo) - 1 /\ 1 \in 1 .. Len(todo) /\ todo[1] \in Writes
      /\ \A i \in 1 .. Len(left) : i + 1 \in 2 .. Len(todo) /\ left[i] = todo[i + 1]
  BY Rest
<1>2. \A c \in Collections : then[c] = IF c = todo[1].collection THEN todo[1].table ELSE now[c]
  BY <1>1, AfterRows
<1>3. kind \in Collections
  BY DEF Kinds, Collections
<1> HIDE DEF then, left
<1>4. Known(now[kind]) \subseteq Known(then[kind])
  BY <1>1, <1>2, <1>3 DEF Resolves
<1>5. ASSUME NEW c \in Collections PROVE Refers(kind, c, then[c]) \subseteq Known(then[kind])
  <2>1. CASE c = todo[1].collection
    <3>1. R(todo[1]) \subseteq Known(now[kind])
      <4>1. ~ \E k \in 1 .. 1 - 1 : TRUE
        OBVIOUS
      <4> QED BY <1>1, <4>1 DEF Resolves
    <3> QED BY <1>2, <1>4, <2>1, <3>1
  <2>2. CASE c # todo[1].collection
    BY <1>2, <1>4, <2>2 DEF Resolves
  <2> QED BY <2>1, <2>2
<1>6. ASSUME NEW i \in 1 .. Len(left), left[i].collection = kind
      PROVE  /\ Known(then[kind]) \subseteq Known(left[i].table)
             /\ \A k \in i + 1 .. Len(left) : left[k].collection = kind =>
                    Known(left[i].table) \subseteq Known(left[k].table)
  <2>1. i + 1 \in 2 .. Len(todo) /\ left[i] = todo[i + 1]
    BY <1>1
  <2>2. Known(then[kind]) \subseteq Known(left[i].table)
    <3>1. CASE kind = todo[1].collection
      <4>1. i + 1 \in 1 + 1 .. Len(todo)
        BY <2>1
      <4>2. \A k \in 1 + 1 .. Len(todo) : todo[k].collection = kind =>
                Known(todo[1].table) \subseteq Known(todo[k].table)
        BY <1>1, <3>1 DEF Resolves
      <4>3. then[kind] = todo[1].table
        BY <1>2, <1>3, <3>1
      <4> QED BY <1>6, <2>1, <4>1, <4>2, <4>3
    <3>2. CASE kind # todo[1].collection
      <4>1. i + 1 \in 1 .. Len(todo)
        BY <2>1
      <4> QED BY <1>2, <1>3, <1>6, <2>1, <3>2, <4>1 DEF Resolves
    <3> QED BY <3>1, <3>2
  <2>3. ASSUME NEW k \in i + 1 .. Len(left), left[k].collection = kind
        PROVE  Known(left[i].table) \subseteq Known(left[k].table)
    <3>1. k \in 1 .. Len(left) /\ k + 1 \in (i + 1) + 1 .. Len(todo) /\ i + 1 \in 1 .. Len(todo)
      BY <1>1
    <3>2. left[k] = todo[k + 1]
      BY <1>1, <3>1
    <3>3. \A m \in (i + 1) + 1 .. Len(todo) : todo[m].collection = kind =>
              Known(todo[i + 1].table) \subseteq Known(todo[m].table)
      BY <1>6, <2>1, <3>1 DEF Resolves
    <3> QED BY <2>1, <2>3, <3>1, <3>2, <3>3
  <2> QED BY <2>2, <2>3
<1>7. ASSUME NEW i \in 1 .. Len(left)
      PROVE  \/ R(left[i]) \subseteq Known(then[kind])
             \/ \E k \in 1 .. i - 1 : left[k].collection = kind /\ R(left[i]) \subseteq Known(left[k].table)
  <2>1. i + 1 \in 1 .. Len(todo) /\ left[i] = todo[i + 1]
    BY <1>1
  <2>2. CASE R(todo[i + 1]) \subseteq Known(now[kind])
    BY <1>4, <2>1, <2>2
  <2>3. ASSUME NEW k \in 1 .. (i + 1) - 1, todo[k].collection = kind,
               R(todo[i + 1]) \subseteq Known(todo[k].table)
        PROVE  \/ R(left[i]) \subseteq Known(then[kind])
               \/ \E m \in 1 .. i - 1 : left[m].collection = kind /\ R(left[i]) \subseteq Known(left[m].table)
    <3>1. CASE k = 1
      BY <1>2, <1>3, <2>1, <2>3, <3>1
    <3>2. CASE k # 1
      <4>1. k - 1 \in 1 .. i - 1 /\ k - 1 \in 1 .. Len(left) /\ (k - 1) + 1 = k
        BY <1>1, <3>2
      <4>2. left[k - 1] = todo[k]
        BY <1>1, <4>1
      <4> QED BY <2>1, <2>3, <4>1, <4>2
    <3> QED BY <3>1, <3>2
  <2>4. \/ R(todo[i + 1]) \subseteq Known(now[kind])
        \/ \E k \in 1 .. (i + 1) - 1 : todo[k].collection = kind /\ R(todo[i + 1]) \subseteq Known(todo[k].table)
    BY <2>1 DEF Resolves
  <2> QED BY <2>2, <2>3, <2>4
<1>8. Resolves(then, left, kind)
  BY <1>5, <1>6, <1>7 DEF Resolves
<1> QED BY <1>8 DEF then, left

LEMMA HostsStill ==
    ASSUME NEW now \in AllRows, NEW todo \in Seq(Writes), todo # <<>>, NEW at,
           OneHosts(now, todo, at)
    PROVE  OneHosts(After(now, todo[1]), Left(todo), at)
<1>1. /\ 1 \in 1 .. Len(todo) /\ todo[1] \in Writes
      /\ \A i \in 1 .. Len(Left(todo)) : i + 1 \in 1 .. Len(todo) /\ Left(todo)[i] = todo[i + 1]
  BY Rest
<1>2. /\ After(now, todo[1]) \in AllRows
      /\ After(now, todo[1])["repositories"] = IF "repositories" = todo[1].collection
                                               THEN todo[1].table ELSE now["repositories"]
  <2>1. "repositories" \in Collections
    BY DEF Collections
  <2> QED BY <1>1, <2>1, AfterRows
<1>3. OneHost(at, After(now, todo[1]).repositories)
  BY <1>1, <1>2 DEF OneHosts
<1> QED BY <1>1, <1>3 DEF OneHosts

LEMMA WriteStep == HarvestInv /\ WriteNext /\ UNCHANGED <<files, github, raw>> => HarvestInv'
<1> SUFFICES ASSUME HarvestInv, WriteNext, UNCHANGED <<files, github, raw>>
             PROVE  HarvestInv'
  OBVIOUS
<1> DEFINE todo == job.todo
<1>1. /\ rows \in AllRows /\ todo \in Seq(Writes) /\ todo # <<>> /\ job.stage # "idle"
      /\ job.stage \in Stages /\ job.runs \in 0 .. MaxRuns /\ job.begun \in BOOLEAN
      /\ job.last \in Stages \cup {"none"} /\ job.torn \in BOOLEAN /\ Len(todo) <= 7
  BY DEF HarvestInv, TablesInv, JobInv, WriteNext
<1>2. /\ Head(todo) = todo[1] /\ todo[1] \in Writes /\ Left(todo) \in Seq(Writes)
      /\ Len(todo) \in Nat /\ Len(Left(todo)) = Len(todo) - 1
      /\ Left(todo) = <<>> <=> Len(todo) = 1
  BY <1>1, Rest
<1>3. rows' = After(rows, todo[1])
  BY <1>2 DEF WriteNext, After
<1>4. job' = [job EXCEPT !.stage = IF Len(todo) = 1 THEN "idle" ELSE job.stage, !.todo = Left(todo),
                         !.begun = (Len(todo) # 1)]
  <2>1. CASE Len(todo) = 1
    BY <1>1, <2>1 DEF WriteNext, Left, HarvestInv, JobInv
  <2>2. CASE Len(todo) # 1
    BY <1>1, <2>2 DEF WriteNext, Left, HarvestInv, JobInv
  <2> QED BY <2>1, <2>2
<1>5. JobInv'
  <2>1. job' \in [stage : Stages \cup {"idle"}, todo : Seq(Writes), runs : 0 .. MaxRuns,
                  begun : BOOLEAN, last : Stages \cup {"none"}, torn : BOOLEAN]
    BY <1>1, <1>2, <1>4 DEF HarvestInv, JobInv
  <2>2. /\ job'.todo = Left(todo) /\ job'.begun = (Len(todo) # 1)
        /\ job'.stage = IF Len(todo) = 1 THEN "idle" ELSE job.stage
    BY <1>4 DEF HarvestInv, JobInv
  <2>3. Len(job'.todo) <= 7
    BY <1>1, <1>2, <2>2
  <2>4. job'.stage = "idle" <=> job'.todo = <<>>
    BY <1>1, <1>2, <2>2
  <2>5. job'.stage = "idle" => ~job'.begun
    BY <1>1, <2>2
  <2> QED BY <2>1, <2>3, <2>4, <2>5 DEF JobInv
<1>6. /\ job'.todo = Left(todo) /\ job'.torn = job.torn /\ job'.last = job.last
      /\ ~job'.begun => Left(todo) = <<>>
  BY <1>2, <1>4 DEF HarvestInv, JobInv
<1>7. rows' \in AllRows
  BY <1>1, <1>2, <1>3, AfterRows
<1>8. TablesInv'
  BY <1>7 DEF HarvestInv, TablesInv, github, GitHubTypeOK
<1> HIDE DEF todo
<1>9. WholeInv'
  <2> SUFFICES ASSUME ~job.torn PROVE
        /\ ~job'.begun => /\ AllJudged(rows'.publications, rows'.repo_links)
                          /\ AllAuthored(rows'.publications, rows'.persons)
        /\ WillBeWhole(rows', job'.todo) /\ ListedThroughout(rows', job'.todo)
    BY <1>6 DEF WholeInv
  <2>1. WillBeWhole(rows', job'.todo) /\ ListedThroughout(rows', job'.todo)
    BY <1>1, <1>3, <1>6, WholeStill DEF HarvestInv, WholeInv, todo
  <2>2. ASSUME ~job'.begun
        PROVE  AllJudged(rows'.publications, rows'.repo_links) /\ AllAuthored(rows'.publications, rows'.persons)
    <3>1. /\ Becomes(rows', job'.todo, "publications", rows'["publications"])
          /\ Becomes(rows', job'.todo, "persons", rows'["persons"])
          /\ Becomes(rows', job'.todo, "repo_links", rows'["repo_links"])
      BY <1>6, <2>2, BecomesNow
    <3>2. /\ AllJudged(rows'["publications"], rows'["repo_links"])
          /\ AllAuthored(rows'["publications"], rows'["persons"])
      BY <2>1, <3>1 DEF WillBeWhole
    <3> QED BY <1>7, <3>2
  <2> QED BY <2>1, <2>2
<1>10. KeepsEvidence(rows', job'.todo, files')
  BY <1>1, <1>3, <1>6, EvidenceStill DEF HarvestInv, todo
<1>11. \A kind \in Kinds : Resolves(rows', job'.todo, kind)
  BY <1>1, <1>3, <1>6, ResolvesStill DEF HarvestInv, todo
<1>12. GitHubInv'
  <2>1. host' = host /\ home' = home
    BY DEF github
  <2>2. OneHosts(rows', job'.todo, host')
    BY <1>1, <1>3, <1>6, <2>1, HostsStill DEF HarvestInv, GitHubInv, todo
  <2>3. ASSUME job'.last = "dedup", NEW table, Becomes(rows', job'.todo, "repositories", table)
        PROVE  OneEach(table)
    <3>1. "repositories" \in Collections
      BY DEF Collections
    <3>2. Becomes(rows, todo, "repositories", table)
      BY <1>1, <1>3, <1>6, <2>3, <3>1, BecomesStill
    <3> QED BY <1>6, <2>3, <3>2 DEF HarvestInv, GitHubInv, todo
  <2> QED BY <2>1, <2>2, <2>3 DEF HarvestInv, GitHubInv
<1> QED BY <1>5, <1>8, <1>9, <1>10, <1>11, <1>12 DEF HarvestInv

-----------------------------------------------------------------------------
(* What does not write. *)

\* with nothing left to write only the rows matter
LEMMA AtRestSays ==
    /\ \A now : (WillBeWhole(now, <<>>) /\ ListedThroughout(now, <<>>) <=>
                    /\ AllJudged(now["publications"], now["repo_links"])
                    /\ AllAuthored(now["publications"], now["persons"]) /\ Listed(now.publications))
    /\ \A now, texts : KeepsEvidence(now, <<>>, texts)
    /\ \A now, todo, kind : Resolves(now, todo, kind) => Resolves(now, <<>>, kind)
    /\ \A now, todo, at : OneHosts(now, todo, at) => OneHosts(now, <<>>, at)
<1>1. \A i \in 1 .. Len(<<>>) : FALSE
  OBVIOUS
<1>2. ASSUME NEW now
      PROVE  WillBeWhole(now, <<>>) /\ ListedThroughout(now, <<>>) <=>
                    /\ AllJudged(now["publications"], now["repo_links"])
                    /\ AllAuthored(now["publications"], now["persons"]) /\ Listed(now.publications)
  BY <1>1, BecomesNow DEF WillBeWhole, ListedThroughout
<1> QED BY <1>1, <1>2 DEF KeepsEvidence, Resolves, OneHosts

LEMMA DieStep == HarvestInv /\ Die /\ UNCHANGED <<files, github, raw>> => HarvestInv'
<1> SUFFICES ASSUME HarvestInv, Die, UNCHANGED <<files, github, raw>>
             PROVE  HarvestInv'
  OBVIOUS
<1>1. /\ job \in [stage : Stages \cup {"idle"}, todo : Seq(Writes), runs : 0 .. MaxRuns,
                  begun : BOOLEAN, last : Stages \cup {"none"}, torn : BOOLEAN]
      /\ rows \in AllRows /\ rows' = rows
  BY DEF HarvestInv, TablesInv, JobInv, Die
<1>2. /\ job' = [job EXCEPT !.stage = "idle", !.todo = <<>>, !.begun = FALSE, !.last = "none",
                            !.torn = job.torn \/ job.begun]
      /\ job.torn \in BOOLEAN /\ job.begun \in BOOLEAN
  BY <1>1 DEF Die
<1>3. JobInv'
  <2>1. <<>> \in Seq(Writes) /\ Len(<<>>) <= 7
    OBVIOUS
  <2> QED BY <1>1, <1>2, <2>1 DEF JobInv
<1>4. /\ job'.todo = <<>> /\ job'.last = "none" /\ job'.begun = FALSE
      /\ job'.torn = (job.torn \/ job.begun)
  BY <1>1, <1>2
<1>5. TablesInv'
  BY <1>1 DEF HarvestInv, TablesInv, github, GitHubTypeOK
<1>6. WholeInv'
  <2> SUFFICES ASSUME ~job.torn, ~job.begun
               PROVE  /\ AllJudged(rows.publications, rows.repo_links)
                      /\ AllAuthored(rows.publications, rows.persons)
                      /\ WillBeWhole(rows, <<>>) /\ ListedThroughout(rows, <<>>)
    BY <1>1, <1>2, <1>4 DEF WholeInv
  <2>1. /\ AllJudged(rows.publications, rows.repo_links)
        /\ AllAuthored(rows.publications, rows.persons) /\ Listed(rows.publications)
    BY DEF HarvestInv, WholeInv, ListedThroughout
  <2>2. WillBeWhole(rows, <<>>) /\ ListedThroughout(rows, <<>>)
    BY <1>1, <2>1, AtRestSays
  <2> QED BY <2>1, <2>2
<1>7. KeepsEvidence(rows', job'.todo, files')
  BY <1>4, AtRestSays
<1>8. \A kind \in Kinds : Resolves(rows', job'.todo, kind)
  BY <1>1, <1>4, AtRestSays DEF HarvestInv
<1>9. GitHubInv'
  <2>1. host' = host /\ home' = home
    BY DEF github
  <2>2. OneHosts(rows', job'.todo, host')
    BY <1>1, <1>4, <2>1, AtRestSays DEF HarvestInv, GitHubInv
  <2> QED BY <1>4, <2>1, <2>2 DEF HarvestInv, GitHubInv
<1> QED BY <1>3, <1>5, <1>6, <1>7, <1>8, <1>9 DEF HarvestInv

LEMMA CollectStep == HarvestInv /\ Collect => HarvestInv'
BY DEF HarvestInv, Collect, github, TablesInv, JobInv, WholeInv, GitHubInv, GitHubTypeOK

\* a name that leads nowhere is given to nobody's row
LEMMA RenameStep == HarvestInv /\ RenameNext => HarvestInv'
<1> SUFFICES ASSUME HarvestInv, RenameNext PROVE HarvestInv'
  OBVIOUS
<1>1. PICK r \in Repos, u \in Urls :
        /\ job.stage = "idle" /\ host[u] = Nobody
        /\ host' = [host EXCEPT ![u] = r] /\ home' = [home EXCEPT ![r] = u]
        /\ rows' = rows /\ files' = files /\ job' = job /\ raw' = raw
        /\ renamed < Renames /\ renamed' = renamed + 1
  BY DEF RenameNext, Rename
<1>2. /\ host \in [Urls -> Repos \cup {Nobody}] /\ home \in [Repos -> Urls]
      /\ rows \in AllRows /\ renamed \in 0 .. Renames /\ Renames \in Nat /\ Nobody \notin Repos
  BY GroupAssumption, RepositoriesAssumption DEF HarvestInv, TablesInv, GitHubTypeOK
<1>3. TablesInv'
  BY <1>1, <1>2 DEF HarvestInv, TablesInv, GitHubTypeOK
<1>4. \A v \in Urls : host[v] # Nobody => host'[v] = host[v]
  BY <1>1, <1>2
<1>5. ASSUME NEW q \in Repos PROVE host'[home'[q]] = q
  <2>1. host[home[q]] = q
    BY DEF HarvestInv, GitHubInv
  <2>2. CASE q = r
    BY <1>1, <1>2, <2>2
  <2>3. CASE q # r
    BY <1>1, <1>2, <1>4, <2>1, <2>3
  <2> QED BY <2>2, <2>3
<1>6. ASSUME NEW table \in RepositoryRowsSet, OneHost(host, table) PROVE OneHost(host', table)
  <2> SUFFICES ASSUME NEW id \in Present(table) PROVE LeadsTo(host', id, table[id])
    BY DEF OneHost
  <2>1. id \in Urls /\ NamesOf(id, table[id]) \subseteq Urls
    BY DEF Present, RepositoryRowsSet, Repository, NamesOf
  <2> QED BY SMTT(40), <1>2, <1>4, <1>6, <2>1 DEF OneHost, LeadsTo
<1>7. job.todo = <<>>
  BY <1>1 DEF HarvestInv, JobInv
<1>8. OneHosts(rows', job'.todo, host')
  <2>1. OneHost(host, rows.repositories) /\ rows.repositories \in RepositoryRowsSet
    BY <1>2 DEF HarvestInv, GitHubInv, OneHosts, AllRows
  <2>2. OneHost(host', rows.repositories)
    BY <1>6, <2>1
  <2> QED BY <1>1, <1>7, <2>2 DEF OneHosts
<1> QED BY <1>1, <1>3, <1>5, <1>8 DEF HarvestInv, JobInv, WholeInv, GitHubInv

-----------------------------------------------------------------------------
(* What starts: the writes a run has before it are to leave things whole.  *)

Leaves(writes, texts) ==
    /\ writes \in Seq(Writes) /\ Len(writes) <= 7
    /\ ~job.torn => WillBeWhole(rows, writes) /\ ListedThroughout(rows, writes)
    /\ KeepsEvidence(rows, writes, texts)
    /\ \A kind \in Kinds : Resolves(rows, writes, kind)
    /\ OneHosts(rows, writes, host)

LEMMA StartStep ==
    ASSUME HarvestInv, NEW stage \in Stages \ {"idle"}, NEW selection, NEW writes,
           MayStart(stage), Started(stage, selection, writes), UNCHANGED <<rows, github, raw>>,
           files' \in [Pubs -> Docs \cup {NoDoc}], Leaves(writes, files'),
           selection = All /\ stage = "dedup" =>
               \A table : Becomes(rows, writes, "repositories", table) => OneEach(table)
    PROVE  HarvestInv'
<1>1. /\ job \in [stage : Stages \cup {"idle"}, todo : Seq(Writes), runs : 0 .. MaxRuns,
                  begun : BOOLEAN, last : Stages \cup {"none"}, torn : BOOLEAN]
      /\ rows \in AllRows /\ rows' = rows /\ MaxRuns \in Nat /\ job.runs < MaxRuns
  BY RowsAssumption DEF HarvestInv, TablesInv, JobInv, MayStart
<1>2. job' = [job EXCEPT !.stage = IF writes = <<>> THEN "idle" ELSE stage, !.todo = writes,
                         !.runs = job.runs + 1, !.begun = FALSE,
                         !.last = IF selection = All THEN stage ELSE "none"]
  BY <1>1 DEF Started
<1>3. writes \in Seq(Writes) /\ Len(writes) <= 7
  BY DEF Leaves
<1>4. /\ job'.todo = writes /\ job'.begun = FALSE /\ job'.torn = job.torn
      /\ job'.stage = (IF writes = <<>> THEN "idle" ELSE stage)
      /\ job'.last = IF selection = All THEN stage ELSE "none"
  BY <1>1, <1>2
<1>5. JobInv'
  <2>1. job' \in [stage : Stages \cup {"idle"}, todo : Seq(Writes), runs : 0 .. MaxRuns,
                  begun : BOOLEAN, last : Stages \cup {"none"}, torn : BOOLEAN]
    <3>1. job.runs + 1 \in 0 .. MaxRuns
      BY <1>1
    <3>2. /\ (IF writes = <<>> THEN "idle" ELSE stage) \in Stages \cup {"idle"}
          /\ (IF selection = All THEN stage ELSE "none") \in Stages \cup {"none"}
      OBVIOUS
    <3> QED BY <1>1, <1>2, <1>3, <3>1, <3>2
  <2> QED BY <1>3, <1>4, <2>1 DEF JobInv
<1>6. TablesInv'
  BY <1>1 DEF HarvestInv, TablesInv, github, GitHubTypeOK
<1>7. WholeInv'
  <2> SUFFICES ASSUME ~job.torn
               PROVE  /\ AllJudged(rows.publications, rows.repo_links)
                      /\ AllAuthored(rows.publications, rows.persons)
                      /\ WillBeWhole(rows, writes) /\ ListedThroughout(rows, writes)
    BY <1>1, <1>4 DEF WholeInv
  <2>1. ~job.begun
    BY DEF HarvestInv, JobInv, MayStart
  <2> QED BY <2>1 DEF HarvestInv, WholeInv, Leaves
<1>8. KeepsEvidence(rows', job'.todo, files') /\ \A kind \in Kinds : Resolves(rows', job'.todo, kind)
  BY <1>1, <1>4 DEF Leaves
<1>9. GitHubInv'
  BY <1>1, <1>4 DEF HarvestInv, GitHubInv, Leaves, github
<1> QED BY <1>5, <1>6, <1>7, <1>8, <1>9 DEF HarvestInv

-----------------------------------------------------------------------------
(* Stages that leave every paper where it is: the search, the verdicts.    *)

LEMMA TablesType ==
    ASSUME HarvestInv
    PROVE  /\ rows \in AllRows /\ rows.publications \in PublicationTables
           /\ rows.persons \in PersonTables /\ rows.repo_links \in LinkTables
           /\ rows.repositories \in RepositoryRowsSet
           /\ rows["publications"] = rows.publications /\ rows["persons"] = rows.persons
           /\ rows["repo_links"] = rows.repo_links /\ rows["repositories"] = rows.repositories
           /\ files \in [Pubs -> Docs \cup {NoDoc}] /\ raw \subseteq Pubs
           /\ Present(rows.publications) \subseteq Pubs
           /\ \A p \in Present(rows.publications) : rows.publications[p] \in Publication
BY DEF HarvestInv, TablesInv, AllRows, PublicationTables, PublicationRows, Present

\* what a collection becomes is its last write
LEMMA BecomesLast ==
    ASSUME NEW now, NEW todo, Len(todo) \in Nat, NEW c, NEW table, Becomes(now, todo, c, table)
    PROVE  /\ \A i \in 1 .. Len(todo) :
                  /\ todo[i].collection = c
                  /\ \A k \in i + 1 .. Len(todo) : todo[k].collection # c
                  => table = todo[i].table
           /\ (\A i \in 1 .. Len(todo) : todo[i].collection # c) => table = now[c]
<1> SUFFICES ASSUME NEW i \in 1 .. Len(todo), todo[i].collection = c,
                    \A k \in i + 1 .. Len(todo) : todo[k].collection # c
             PROVE  table = todo[i].table
  BY DEF Becomes
<1>1. PICK m \in 1 .. Len(todo) :
          /\ todo[m].collection = c /\ todo[m].table = table
          /\ \A k \in m + 1 .. Len(todo) : todo[k].collection # c
  BY DEF Becomes
<1>2. ~ (m \in i + 1 .. Len(todo)) /\ ~ (i \in m + 1 .. Len(todo))
  BY <1>1
<1>3. m = i
  BY <1>2
<1> QED BY <1>1, <1>3

\* the papers of a table, as they were
SameLedger(table, other) ==
    \A p \in Pubs : /\ table[p] = Absent <=> other[p] = Absent
                    /\ table[p] # Absent => /\ table[p].merged = other[p].merged
                                            /\ table[p].versions = other[p].versions
                                            /\ table[p].listed = other[p].listed

LEMMA SameLedgerKept ==
    ASSUME NEW table \in PublicationRows, NEW other \in PublicationTables, SameLedger(table, other)
    PROVE  /\ table \in PublicationTables
           /\ Present(table) = Present(other) /\ Known(table) = Known(other)
           /\ Listed(other) => Listed(table)
<1>1. /\ DOMAIN table = Pubs /\ DOMAIN other = Pubs
      /\ other \in PublicationRows /\ \A p \in Present(other) : Swallows(other, p)
  BY DEF PublicationTables, PublicationRows
<1>2. Present(table) = Present(other) /\ Present(table) \subseteq Pubs
  BY <1>1 DEF Present, SameLedger
<1>3. \A p \in Present(table) : /\ table[p].merged = other[p].merged
                                /\ table[p].versions = other[p].versions
                                /\ table[p].listed = other[p].listed
  BY <1>1 DEF Present, SameLedger
<1>4. ASSUME NEW p \in Present(table) PROVE Swallows(table, p)
  <2>1. \A q \in table[p].merged : table[q] = Absent
    <3>1. \A q \in other[p].merged : q \in Pubs /\ other[q] = Absent
      <4>1. other[p].merged \subseteq Pubs
        BY <1>1, <1>2 DEF PublicationRows, Publication, Present
      <4> QED BY <1>1, <1>2, <4>1 DEF Swallows
    <3> QED BY <1>2, <1>3, <3>1 DEF SameLedger
  <2> QED BY <1>1, <1>2, <1>3, <2>1 DEF Swallows
<1>5. Known(table) = Known(other)
  BY <1>1, <1>2, <1>3 DEF Known, StandsFor
<1> QED BY <1>2, <1>3, <1>4, <1>5 DEF PublicationTables, Listed

LEMMA PapersAndLinks ==
    ASSUME HarvestInv, job.stage = "idle", NEW papers \in PublicationRows, NEW links \in LinkTables, NEW texts,
           SameLedger(papers, rows.publications),
           ~job.torn => AllJudged(papers, links),
           Keeps(texts, rows.repo_links, links), Present(links) \subseteq Known(rows.publications)
    PROVE  Leaves(<<Write("publications", papers), Write("repo_links", links)>>, texts)
<1> DEFINE writes == <<Write("publications", papers), Write("repo_links", links)>>
<1>1. /\ papers \in PublicationTables /\ Present(papers) = Present(rows.publications)
      /\ Known(papers) = Known(rows.publications) /\ (Listed(rows.publications) => Listed(papers))
  BY TablesType, SameLedgerKept
<1>2. /\ Len(writes) = 2 /\ writes \in Seq(Writes)
      /\ writes[1].collection = "publications" /\ writes[1].table = papers
      /\ writes[2].collection = "repo_links" /\ writes[2].table = links
  <2>1. Write("publications", papers) \in Writes /\ Write("repo_links", links) \in Writes
    BY <1>1, WriteMade
  <2> QED BY <2>1 DEF Write
<1>3. \A i \in 1 .. Len(writes) : i = 1 \/ i = 2
  BY <1>2
<1> HIDE DEF writes
<1>4. ASSUME NEW table, Becomes(rows, writes, "publications", table) PROVE table = papers
  BY <1>2, <1>4, BecomesLast
<1>5. ASSUME NEW table, Becomes(rows, writes, "repo_links", table) PROVE table = links
  BY <1>2, <1>5, BecomesLast
<1>6. ASSUME NEW table, Becomes(rows, writes, "persons", table) PROVE table = rows.persons
  <2>1. \A i \in 1 .. Len(writes) : writes[i].collection # "persons"
    BY <1>2, <1>3
  <2> QED BY <1>2, <1>6, <2>1, BecomesLast, TablesType
<1>7. ~job.torn => WillBeWhole(rows, writes) /\ ListedThroughout(rows, writes)
  <2> SUFFICES ASSUME ~job.torn PROVE WillBeWhole(rows, writes) /\ ListedThroughout(rows, writes)
    OBVIOUS
  <2>1. Listed(rows.publications) /\ AllAuthored(rows.publications, rows.persons)
    BY DEF HarvestInv, JobInv, WholeInv, ListedThroughout
  <2>2. AllAuthored(papers, rows.persons)
    BY <1>1, <2>1 DEF AllAuthored
  <2>3. ListedThroughout(rows, writes)
    BY <1>1, <1>2, <1>3, <2>1 DEF ListedThroughout
  <2> QED BY <1>4, <1>5, <1>6, <2>2, <2>3 DEF WillBeWhole
<1>8. KeepsEvidence(rows, writes, texts)
  BY <1>2, <1>3 DEF KeepsEvidence
<1>9. ASSUME NEW kind \in Kinds PROVE Resolves(rows, writes, kind)
  <2>1. \A c \in Collections : Refers(kind, c, rows[c]) \subseteq Known(rows[kind])
    BY DEF HarvestInv, Resolves
  <2>2. kind = "publications" \/ kind = "repositories"
    BY DEF Kinds
  <2>3. CASE kind = "publications"
    <3>1. /\ Refers(kind, writes[1].collection, writes[1].table) = {}
          /\ Refers(kind, writes[2].collection, writes[2].table) = Present(links)
      BY <1>2, <2>3 DEF Refers
    <3> QED BY <1>1, <1>2, <1>3, <2>1, <2>3, <3>1, TablesType DEF Resolves
  <2>4. CASE kind = "repositories"
    <3>1. /\ Refers(kind, writes[1].collection, writes[1].table) = {}
          /\ Refers(kind, writes[2].collection, writes[2].table) = {}
      BY <1>2, <2>4 DEF Refers
    <3> QED BY <1>2, <1>3, <2>1, <2>4, <3>1 DEF Resolves
  <2> QED BY <2>2, <2>3, <2>4
<1>10. OneHosts(rows, writes, host)
  BY <1>2, <1>3 DEF HarvestInv, GitHubInv, OneHosts
<1>11. Leaves(writes, texts)
  BY <1>2, <1>7, <1>8, <1>9, <1>10 DEF Leaves
<1> QED BY <1>11 DEF writes

\* a paper that is there is found
LEMMA PresentKnown ==
    ASSUME NEW table
    PROVE  Present(table) \subseteq Known(table)
BY DEF Present, Known, StandsFor

\* What a search has read of PDFs: its own in full, a version's as it is on disk.
LEMMA PagesSay ==
    ASSUME HarvestInv, NEW p \in Present(rows.publications), NEW r \in PdfPages(p)
    PROVE  /\ DOMAIN r.files \subseteq Pubs
           /\ \A v \in DOMAIN r.files : r.files[v] \in Docs
           /\ \A v \in DOMAIN r.files \ {p} : rows.publications[v] = Absent /\ r.files[v] = files[v]
<1> DEFINE row == rows.publications[p]
           versions == {v \in (row.merged \cup row.versions) \ {p} : files[v] # NoDoc}
           none == [doc |-> NoDoc, failed |-> FALSE]
           Read(readable, primary) ==
              [files |-> [v \in (versions \cap readable) \cup {q \in {p} : primary.doc # NoDoc} |->
                              IF v = p THEN primary.doc ELSE files[v]],
               failed |-> (versions \ readable) \cup {q \in {p} : primary.failed}]
<1>1. PICK readable \in SUBSET (versions \cup {p}) :
         \E primary \in Primary(p, readable) \cup {none} : r = Read(readable, primary)
  <2> DEFINE asked(readable) == versions = {} \/ files[p] # NoDoc \/ versions \cap readable = {}
             From(readable) == IF asked(readable) THEN Primary(p, readable) ELSE {none}
  <2>1. PdfPages(p) = UNION {{Read(readable, primary) : primary \in From(readable)} :
                                readable \in SUBSET (versions \cup {p})}
    BY DEF PdfPages
  <2>2. \A readable : From(readable) \subseteq Primary(p, readable) \cup {none}
    OBVIOUS
  <2> HIDE DEF From, Read, versions, none
  <2>3. PICK readable \in SUBSET (versions \cup {p}) :
            r \in {Read(readable, primary) : primary \in From(readable)}
    BY <2>1
  <2> QED BY <2>2, <2>3
<1>2. PICK primary \in Primary(p, readable) \cup {none} : r = Read(readable, primary)
  BY <1>1
<1>3. /\ p \in Pubs /\ row \in Publication /\ files \in [Pubs -> Docs \cup {NoDoc}]
      /\ rows.publications \in PublicationTables
  BY TablesType
<1>4. row.versions \subseteq {p} \cup row.merged /\ \A q \in row.merged : rows.publications[q] = Absent
  BY <1>3 DEF PublicationTables, Swallows
<1>5. row.merged \subseteq Pubs /\ row.sources \subseteq Docs
  BY <1>3 DEF Publication
<1>6. \A v \in versions : v \in Pubs /\ v # p /\ files[v] \in Docs /\ rows.publications[v] = Absent
  BY <1>3, <1>4, <1>5
<1>7. primary.doc # NoDoc => primary.doc \in Docs
  BY <1>3, <1>5 DEF Primary
<1>8. DOMAIN r.files = (versions \cap readable) \cup {q \in {p} : primary.doc # NoDoc}
  BY <1>2
<1>9. \A v \in DOMAIN r.files : r.files[v] = IF v = p THEN primary.doc ELSE files[v]
  BY <1>2, <1>8
<1> HIDE DEF versions
<1> QED BY <1>3, <1>6, <1>7, <1>8, <1>9

LEMMA MissingSays ==
    ASSUME NEW p, NEW parsed, rows.repo_links[p] # Absent, NEW u \in LinksOf(rows.repo_links, p),
           NEW e \in rows.repo_links[p][u].found, e.pdf \notin parsed, e.pdf # NoDoc
    PROVE  e.pdf \in Missing(p, parsed)
<1> DEFINE all == {{o.pdf : o \in rows.repo_links[p][x].found} : x \in LinksOf(rows.repo_links, p)}
           here == {o.pdf : o \in rows.repo_links[p][u].found}
<1>1. here \in all /\ e.pdf \in here
  OBVIOUS
<1>2. Missing(p, parsed) = (UNION all) \ (parsed \cup {NoDoc})
  BY DEF Missing
<1> HIDE DEF all, here
<1> QED BY <1>1, <1>2

\* What a search makes of a paper, and the evidence it leaves to a link.
LEMMA SearchedSays ==
    ASSUME HarvestInv, NEW p \in Present(rows.publications), NEW r \in PdfPages(p)
    PROVE  /\ Searched(p, r).pub \in Publication
           /\ Searched(p, r).pub.merged = rows.publications[p].merged
           /\ Searched(p, r).pub.versions = rows.publications[p].versions
           /\ Searched(p, r).pub.listed = rows.publications[p].listed
           /\ Searched(p, r).pub.judged = "none"
           /\ Searched(p, r).links \in [Urls -> Link \cup {Absent}]
           /\ \A u \in Urls : Searched(p, r).links[u] \in SoundLinks(u) \cup {Absent}
           /\ \A u \in LinksOf(rows.repo_links, p) : \A e \in rows.repo_links[p][u].found :
                 /\ e.pdf # NoDoc
                 /\ e.pdf \in DOMAIN r.files => r.files[e.pdf] = e.doc
                 => Searched(p, r).links[u] # Absent /\ e \in Searched(p, r).links[u].found
<1> DEFINE parsed == DOMAIN r.files
           failed == r.failed \cup Missing(p, parsed)
           abstract(u) == {[pdf |-> NoDoc, doc |-> d] : d \in {d \in {AbstractOf[p]} : u \in Mentioned(d)}}
           read(u) == {[pdf |-> v, doc |-> r.files[v]] : v \in {v \in parsed : u \in Mentioned(r.files[v])}}
           seen(u) == abstract(u) \cup read(u) \cup Preserved(p, u, failed)
           link(u) == IF DepositOf[p] = u THEN Settled(IF seen(u) = {} THEN {Title} ELSE seen(u))
                      ELSE IF seen(u) = {} THEN Absent ELSE Pending(seen(u))
           links == [u \in Urls |-> link(u)]
           pub == [rows.publications[p] EXCEPT
                      !.judged = "none",
                      !.found = IF failed # {} THEN "failed"
                                ELSE IF Present(links) = {} THEN "empty" ELSE "completed"]
<1>1. Searched(p, r) = [links |-> links, pub |-> pub]
  BY DEF Searched
<1>2. p \in Pubs /\ rows.publications[p] \in Publication
  BY TablesType
<1>3. pub \in Publication /\ pub.merged = rows.publications[p].merged
      /\ pub.versions = rows.publications[p].versions /\ pub.listed = rows.publications[p].listed
      /\ pub.judged = "none"
  <2> HIDE DEF failed, links
  <2> QED BY <1>2 DEF Publication, States
\* the evidence there was
<1>4. ASSUME NEW u \in LinksOf(rows.repo_links, p)
      PROVE  /\ u \in Urls /\ rows.repo_links[p][u] \in SoundLinks(u)
             /\ rows.repo_links[p] # Absent
  <2>1. rows.repo_links \in LinkTables
    BY TablesType
  <2>2. rows.repo_links[p] # Absent /\ u \in Present(rows.repo_links[p])
    BY <1>4 DEF LinksOf
  <2>3. rows.repo_links[p] \in [Urls -> Link \cup {Absent}]
    BY <1>2, <2>1, <2>2 DEF LinkTables, LinkRows
  <2>4. u \in Urls /\ rows.repo_links[p][u] # Absent
    BY <2>2, <2>3 DEF Present
  <2> QED BY <1>2, <2>1, <2>2, <2>4 DEF LinkTables
<1>5. /\ parsed \subseteq Pubs /\ \A v \in parsed : r.files[v] \in Docs
  BY PagesSay
<1>6. ASSUME NEW u \in Urls
      PROVE  /\ seen(u) \subseteq Places
             /\ \A e \in seen(u) : e.pdf # NoDoc => e.doc \in Docs /\ <<e.doc, u>> \in Mentions
  <2>1. abstract(u) \subseteq Places /\ \A e \in abstract(u) : e.pdf = NoDoc
    BY <1>2, HarvestAssumption DEF Places
  <2>2. /\ read(u) \subseteq Places
        /\ \A e \in read(u) : e.doc \in Docs /\ <<e.doc, u>> \in Mentions
    <3>1. \A v \in parsed : u \in Mentioned(r.files[v]) =>
             /\ [pdf |-> v, doc |-> r.files[v]] \in Places
             /\ [pdf |-> v, doc |-> r.files[v]].doc \in Docs
             /\ <<[pdf |-> v, doc |-> r.files[v]].doc, u>> \in Mentions
      BY <1>5 DEF Places, Mentioned
    <3> HIDE DEF parsed
    <3> QED BY <3>1
  <2>3. /\ Preserved(p, u, failed) \subseteq Places
        /\ \A e \in Preserved(p, u, failed) : e.pdf # NoDoc => e.doc \in Docs /\ <<e.doc, u>> \in Mentions
    <3> HIDE DEF failed
    <3> QED BY <1>4 DEF Preserved, SoundLinks, SoundLink, Link
  <2> HIDE DEF abstract, read, failed
  <2> QED BY <2>1, <2>2, <2>3
<1>7. Title \in Places /\ Title.pdf = NoDoc
  BY DEF Title, Places
<1> HIDE DEF seen
<1>8. ASSUME NEW u \in Urls PROVE link(u) \in SoundLinks(u) \cup {Absent}
  <2>1. CASE DepositOf[p] = u
    <3> DEFINE found == IF seen(u) = {} THEN {Title} ELSE seen(u)
    <3>1. found \subseteq Places /\ \A e \in found : e.pdf # NoDoc => e.doc \in Docs /\ <<e.doc, u>> \in Mentions
      BY <1>6, <1>7
    <3>2. link(u) = Settled(found)
      BY <2>1
    <3> HIDE DEF found
    <3>3. Settled(found) \in Link /\ Settled(found).found = found /\ Settled(found).judged = found
      BY <3>1 DEF Settled, Link
    <3> HIDE DEF link
    <3> QED BY <3>1, <3>2, <3>3 DEF SoundLinks, SoundLink
  <2>2. CASE DepositOf[p] # u
    <3>1. /\ Pending(seen(u)) \in Link /\ Pending(seen(u)).found = seen(u)
          /\ Pending(seen(u)).status # "classified"
      BY <1>6 DEF Pending, Link
    <3>2. link(u) = Absent \/ link(u) = Pending(seen(u))
      BY <2>2
    <3> HIDE DEF link
    <3> QED BY <1>6, <3>1, <3>2 DEF SoundLinks, SoundLink
  <2> QED BY <2>1, <2>2
<1>9. links \in [Urls -> Link \cup {Absent}]
  <2> HIDE DEF link
  <2> QED BY <1>8 DEF SoundLinks
<1>10. ASSUME NEW u \in LinksOf(rows.repo_links, p), NEW e \in rows.repo_links[p][u].found,
              e.pdf # NoDoc, e.pdf \in parsed => r.files[e.pdf] = e.doc
       PROVE  e \in seen(u)
  <2>0. u \in Urls /\ e \in Places /\ e.doc \in Docs /\ <<e.doc, u>> \in Mentions
    BY <1>4, <1>10 DEF SoundLinks, SoundLink, Link
  <2>1. CASE e.pdf \in parsed
    <3>1. e = [pdf |-> e.pdf, doc |-> r.files[e.pdf]] /\ u \in Mentioned(r.files[e.pdf])
      BY <1>10, <2>0, <2>1 DEF Places, Mentioned
    <3> QED BY <2>1, <3>1 DEF seen
  <2>2. CASE e.pdf \notin parsed
    <3>1. e.pdf \in Missing(p, parsed)
      BY <1>4, <1>10, <2>2, MissingSays
    <3>2. e \in Preserved(p, u, failed)
      BY <3>1 DEF Preserved
    <3> QED BY <3>2 DEF seen
  <2> QED BY <2>1, <2>2
<1>11. ASSUME NEW u \in Urls, seen(u) # {} PROVE link(u) # Absent /\ link(u).found = seen(u)
  <2>1. seen(u) \subseteq Places
    BY <1>6
  <2>2. link(u) = Settled(seen(u)) \/ link(u) = Pending(seen(u))
    BY <1>11
  <2>3. Settled(seen(u)) \in Link /\ Pending(seen(u)) \in Link
    BY <2>1 DEF Settled, Pending, Link
  <2>4. Settled(seen(u)).found = seen(u) /\ Pending(seen(u)).found = seen(u)
    BY DEF Settled, Pending
  <2> HIDE DEF link
  <2> QED BY <2>2, <2>3, <2>4, RowsAssumption
<1>12. \A u \in Urls : links[u] = link(u)
  OBVIOUS
<1> HIDE DEF links, link, pub
<1>13. /\ \A u \in Urls : links[u] \in SoundLinks(u) \cup {Absent}
       /\ \A u \in LinksOf(rows.repo_links, p) : \A e \in rows.repo_links[p][u].found :
             e.pdf # NoDoc /\ (e.pdf \in parsed => r.files[e.pdf] = e.doc)
             => links[u] # Absent /\ e \in links[u].found
  BY <1>4, <1>8, <1>10, <1>11, <1>12
<1> QED BY <1>1, <1>3, <1>9, <1>13

LEMMA SearchStep ==
    ASSUME HarvestInv, NEW force \in BOOLEAN, NEW selection \in Selections,
           FindCodeLinks(force, selection), UNCHANGED <<github, raw>>
    PROVE  HarvestInv'
<1> DEFINE chosen == {p \in Present(rows.publications) :
                        Selected(selection, p) /\ NeedsAttempt(force, rows.publications[p].found)}
<1>1. PICK read \in Picks([p \in chosen |-> PdfPages(p)]) :
            /\ files' = [p \in Pubs |-> IF p \in chosen /\ p \in DOMAIN read[p].files
                                        THEN read[p].files[p] ELSE files[p]]
            /\ Started("code_links", selection,
                   <<Write("publications", [p \in Pubs |->
                        IF p \in chosen THEN Searched(p, read[p]).pub ELSE rows.publications[p]]),
                     Write("repo_links", [p \in Pubs |->
                        IF p \in chosen THEN Searched(p, read[p]).links ELSE rows.repo_links[p]])>>)
  BY DEF FindCodeLinks
<1> DEFINE papers == [p \in Pubs |-> IF p \in chosen THEN Searched(p, read[p]).pub ELSE rows.publications[p]]
           links == [p \in Pubs |-> IF p \in chosen THEN Searched(p, read[p]).links ELSE rows.repo_links[p]]
<1>2. \A p \in chosen : p \in Present(rows.publications) /\ p \in Pubs /\ read[p] \in PdfPages(p)
  BY <1>1, TablesType DEF Picks
<1>3. \A p \in Pubs : rows.publications[p] = Absent => p \notin chosen
  BY DEF Present
<1> HIDE DEF chosen
<1>4. /\ rows.publications \in PublicationRows /\ rows.repo_links \in LinkTables
      /\ rows.repo_links \in LinkRows /\ DOMAIN rows.repo_links = Pubs
      /\ files \in [Pubs -> Docs \cup {NoDoc}]
  BY TablesType DEF PublicationTables, LinkTables, LinkRows
<1>5. \A p \in chosen : /\ Searched(p, read[p]).pub \in Publication
                        /\ Searched(p, read[p]).pub.merged = rows.publications[p].merged
                        /\ Searched(p, read[p]).pub.versions = rows.publications[p].versions
                        /\ Searched(p, read[p]).pub.listed = rows.publications[p].listed
                        /\ Searched(p, read[p]).pub.judged = "none"
                        /\ Searched(p, read[p]).links \in [Urls -> Link \cup {Absent}]
                        /\ \A u \in Urls : Searched(p, read[p]).links[u] \in SoundLinks(u) \cup {Absent}
  BY <1>2, SearchedSays
<1>6. papers \in PublicationRows
  BY <1>4, <1>5 DEF PublicationRows
<1>7. SameLedger(papers, rows.publications)
  BY <1>3, <1>5, RowsAssumption DEF SameLedger
<1>8. links \in LinkTables
  <2>1. links \in LinkRows
    BY <1>4, <1>5 DEF LinkRows
  <2>2. ASSUME NEW p \in Pubs, links[p] # Absent, NEW u \in Urls
        PROVE  links[p][u] \in SoundLinks(u) \cup {Absent}
    BY <1>4, <1>5, <2>2 DEF LinkTables
  <2> QED BY <2>1, <2>2 DEF LinkTables
<1>9. files' \in [Pubs -> Docs \cup {NoDoc}]
  BY <1>1, <1>2, <1>4, PagesSay
<1>10. ~job.torn => AllJudged(papers, links)
  <2> SUFFICES ASSUME ~job.torn, NEW p \in Present(papers), papers[p].judged = "completed",
                      NEW u \in LinksOf(links, p)
               PROVE  links[p][u].status = "classified"
    BY DEF AllJudged
  <2>1. p \in Pubs /\ p \notin chosen
    BY <1>5 DEF Present
  <2>2. papers[p] = rows.publications[p] /\ links[p] = rows.repo_links[p]
    BY <2>1
  <2>3. AllJudged(rows.publications, rows.repo_links)
    BY DEF HarvestInv, JobInv, WholeInv, FindCodeLinks, MayStart
  <2>4. p \in Present(rows.publications) /\ u \in LinksOf(rows.repo_links, p)
    <3>1. DOMAIN rows.publications = Pubs
      BY <1>4 DEF PublicationRows
    <3> QED BY <2>1, <2>2, <3>1 DEF Present, LinksOf
  <2> QED BY <2>2, <2>3, <2>4 DEF AllJudged
<1>11. Keeps(files', rows.repo_links, links)
  <2> SUFFICES ASSUME NEW s \in Evidence(rows.repo_links), files'[s[2].pdf] = s[2].doc
               PROVE  s \in Evidence(links)
    BY DEF Keeps
  <2>1. s \in Urls \X Places /\ s[2].pdf # NoDoc
    BY DEF Evidence
  <2>2. PICK p \in Present(rows.repo_links) : /\ rows.repo_links[p][s[1]] # Absent
                                              /\ s[2] \in rows.repo_links[p][s[1]].found
    BY DEF Evidence
  <2>3. p \in Pubs /\ rows.repo_links[p] # Absent /\ rows.repo_links[p] \in [Urls -> Link \cup {Absent}]
    BY <1>4, <2>2 DEF Present, LinkRows
  <2>4. s[1] \in LinksOf(rows.repo_links, p)
    BY <2>1, <2>2, <2>3 DEF LinksOf, Present
  <2>5. links[p] # Absent /\ links[p][s[1]] # Absent /\ s[2] \in links[p][s[1]].found
    <3>1. CASE p \notin chosen
      BY <2>2, <2>3, <3>1
    <3>2. CASE p \in chosen
      <4>1. ASSUME s[2].pdf \in DOMAIN read[p].files PROVE read[p].files[s[2].pdf] = s[2].doc
        <5> DEFINE v == s[2].pdf
        <5>1. v \in Pubs
          BY <1>2, <3>2, <4>1, PagesSay
        <5>2. CASE v = p
          BY <1>1, <2>3, <3>2, <4>1, <5>2
        <5>3. CASE v # p
          <6>1. rows.publications[v] = Absent /\ read[p].files[v] = files[v]
            BY <1>2, <3>2, <4>1, <5>3, PagesSay
          <6>2. files'[v] = files[v]
            BY <1>1, <1>3, <5>1, <6>1
          <6> QED BY <6>1, <6>2
        <5> QED BY <5>2, <5>3
      <4>2. Searched(p, read[p]).links[s[1]] # Absent /\ s[2] \in Searched(p, read[p]).links[s[1]].found
        BY <1>2, <2>1, <2>2, <2>4, <3>2, <4>1, SearchedSays
      <4>3. links[p] = Searched(p, read[p]).links /\ links[p] # Absent
        BY <1>5, <2>3, <3>2, RowsAssumption
      <4> QED BY <4>2, <4>3
    <3> QED BY <3>1, <3>2
  <2>6. p \in Present(links)
    BY <2>3, <2>5 DEF Present
  <2> HIDE DEF links
  <2> QED BY <2>1, <2>5, <2>6 DEF Evidence
<1>12. Present(links) \subseteq Known(rows.publications)
  <2> SUFFICES ASSUME NEW p \in Present(links) PROVE p \in Known(rows.publications)
    OBVIOUS
  <2>1. p \in Pubs /\ links[p] # Absent
    BY DEF Present
  <2>2. CASE p \in chosen
    BY <1>2, <2>2, PresentKnown
  <2>3. CASE p \notin chosen
    <3>1. p \in Present(rows.repo_links)
      BY <1>4, <2>1, <2>3 DEF Present
    <3>2. "repo_links" \in Collections /\ "publications" \in Kinds
      BY DEF Collections, Kinds
    <3>3. Refers("publications", "repo_links", rows["repo_links"]) \subseteq Known(rows["publications"])
      BY <3>2 DEF HarvestInv, Resolves
    <3> QED BY <3>1, <3>3, TablesType DEF Refers
  <2> QED BY <2>2, <2>3
<1>13. job.stage = "idle" /\ "code_links" \in Stages /\ MayStart("code_links") /\ rows' = rows
  BY DEF FindCodeLinks, MayStart
<1> DEFINE writes == <<Write("publications", papers), Write("repo_links", links)>>
<1>14. Leaves(writes, files')
  <2> HIDE DEF papers, links
  <2> QED BY <1>6, <1>7, <1>8, <1>10, <1>11, <1>12, <1>13, PapersAndLinks
<1>15. Started("code_links", selection, writes)
  BY <1>1
<1> HIDE DEF writes
<1> QED
  BY <1>9, <1>13, <1>14, <1>15, StartStep

\* A verdict, or the lack of one, leaves a link its evidence.
LEMMA VerdictSays ==
    ASSUME NEW u, NEW link \in SoundLinks(u)
    PROVE  /\ \A reply \in Replies : /\ Judged(link, reply) \in SoundLinks(u)
                                     /\ Judged(link, reply).found = link.found
                                     /\ reply # "silence" => Judged(link, reply).status = "classified"
           /\ LeftOpen(link) \in SoundLinks(u) /\ LeftOpen(link).found = link.found
           /\ LeftOpen(link).status = "classified"
           /\ Reset(link) \in SoundLinks(u) /\ Reset(link).found = link.found
           /\ link # Absent /\ link \in Link
<1>1. link \in Link /\ SoundLink(u, link)
  BY DEF SoundLinks
<1>2. ASSUME NEW reply \in Replies
      PROVE  /\ Judged(link, reply) \in SoundLinks(u)
             /\ Judged(link, reply).found = link.found
             /\ reply # "silence" => Judged(link, reply).status = "classified"
  <2>1. reply \in {"own", "other", "unsure", "silence"}
    BY HarvestAssumption
  <2> QED BY <1>1, <2>1 DEF Judged, Link, SoundLinks, SoundLink
<1>3. LeftOpen(link) \in SoundLinks(u) /\ LeftOpen(link).found = link.found
      /\ LeftOpen(link).status = "classified"
  BY <1>1 DEF LeftOpen, Link, SoundLinks, SoundLink
<1>4. Reset(link) \in SoundLinks(u) /\ Reset(link).found = link.found
  BY <1>1 DEF Reset, Link, SoundLinks, SoundLink
<1> QED BY <1>1, <1>2, <1>3, <1>4, RowsAssumption

LEMMA LinkThere ==
    ASSUME NEW table \in LinkTables, NEW p \in Pubs
    PROVE  /\ DOMAIN table = Pubs
           /\ table[p] # Absent => /\ table[p] \in [Urls -> Link \cup {Absent}]
                                   /\ \A u \in Urls : table[p][u] \in SoundLinks(u) \cup {Absent}
           /\ \A u : u \in LinksOf(table, p) <=>
                         table[p] # Absent /\ u \in Urls /\ table[p][u] # Absent
BY DEF LinkTables, LinkRows, LinksOf, Present

\* evidence that stays in its paper
LEMMA KeptInPlace ==
    ASSUME NEW table \in LinkTables, NEW other \in LinkTables, NEW texts,
           \A p \in Pubs : table[p] # Absent =>
              other[p] # Absent /\ \A u \in Urls : table[p][u] # Absent =>
                  other[p][u] # Absent /\ table[p][u].found \subseteq other[p][u].found
    PROVE  Keeps(texts, table, other)
<1> SUFFICES ASSUME NEW s \in Evidence(table) PROVE s \in Evidence(other)
  BY DEF Keeps
<1>1. s \in Urls \X Places /\ s[2].pdf # NoDoc
  BY DEF Evidence
<1>2. PICK p \in Present(table) : table[p][s[1]] # Absent /\ s[2] \in table[p][s[1]].found
  BY DEF Evidence
<1>3. p \in Pubs /\ table[p] # Absent /\ DOMAIN other = Pubs
  BY <1>2 DEF Present, LinkTables, LinkRows
<1>4. other[p] # Absent /\ other[p][s[1]] # Absent /\ s[2] \in other[p][s[1]].found
  BY <1>1, <1>2, <1>3
<1>5. p \in Present(other)
  BY <1>3, <1>4 DEF Present
<1> QED BY <1>1, <1>4, <1>5 DEF Evidence

LEMMA VerdictStep ==
    ASSUME HarvestInv, NEW force \in BOOLEAN, NEW selection \in Selections,
           JudgeLinks(force, selection), UNCHANGED <<github, raw>>
    PROVE  HarvestInv'
<1> DEFINE was == rows.repo_links
           chosen == {p \in Present(rows.publications) :
                        /\ was[p] # Absent /\ Selected(selection, p)
                        /\ NeedsAttempt(force, rows.publications[p].judged)}
           asked == {pu \in chosen \X Urls :
                        /\ pu[2] \in LinksOf(was, pu[1])
                        /\ Asked(pu[2], was[pu[1]][pu[2]], force)}
           after(reply, p, u) == IF was[p][u] = Absent THEN Absent
                                 ELSE IF <<p, u>> \in asked THEN Judged(was[p][u], reply[<<p, u>>])
                                 ELSE IF Ambiguous(u, was[p][u]) THEN LeftOpen(was[p][u])
                                 ELSE was[p][u]
           failed(reply, p) == \E u \in Urls : <<p, u>> \in asked /\ reply[<<p, u>>] = "silence"
           pub(reply, p) == [rows.publications[p] EXCEPT
                    !.judged = IF failed(reply, p) THEN "failed"
                               ELSE IF LinksOf(was, p) = {} THEN "empty" ELSE "completed",
                    !.code = IF failed(reply, p) THEN @ ELSE {u \in Urls : Own(u, after(reply, p, u))}]
<1>1. PICK reply \in [asked -> Replies] :
            Started("link_relevance", selection,
                   <<Write("publications", [p \in Pubs |->
                        IF p \in chosen THEN pub(reply, p) ELSE rows.publications[p]]),
                     Write("repo_links", [p \in Pubs |->
                        IF p \in chosen THEN [u \in Urls |-> after(reply, p, u)] ELSE was[p]])>>)
  BY DEF JudgeLinks
<1> DEFINE papers == [p \in Pubs |-> IF p \in chosen THEN pub(reply, p) ELSE rows.publications[p]]
           links == [p \in Pubs |-> IF p \in chosen THEN [u \in Urls |-> after(reply, p, u)] ELSE was[p]]
<1>2. \A p \in chosen : p \in Present(rows.publications) /\ p \in Pubs /\ was[p] # Absent
  BY TablesType
<1>3. \A p \in Pubs : rows.publications[p] = Absent => p \notin chosen
  BY DEF Present
<1>4. /\ rows.publications \in PublicationRows /\ was \in LinkTables /\ was \in LinkRows
      /\ DOMAIN rows.publications = Pubs
  BY TablesType DEF PublicationTables, PublicationRows, LinkTables
<1>5. ASSUME NEW p \in chosen, NEW u \in Urls, was[p][u] # Absent
      PROVE  /\ was[p][u] \in SoundLinks(u) /\ u \in LinksOf(was, p)
             /\ after(reply, p, u) \in SoundLinks(u) /\ after(reply, p, u).found = was[p][u].found
             /\ after(reply, p, u) # Absent
             /\ ~failed(reply, p) => after(reply, p, u).status = "classified"
  <2>1. was[p][u] \in SoundLinks(u) /\ u \in LinksOf(was, p)
    BY <1>2, <1>4, <1>5, LinkThere
  <2>2. /\ \A rep \in Replies : /\ Judged(was[p][u], rep) \in SoundLinks(u)
                                /\ Judged(was[p][u], rep).found = was[p][u].found
                                /\ rep # "silence" => Judged(was[p][u], rep).status = "classified"
        /\ LeftOpen(was[p][u]) \in SoundLinks(u) /\ LeftOpen(was[p][u]).found = was[p][u].found
        /\ LeftOpen(was[p][u]).status = "classified"
    BY <2>1, VerdictSays
  <2>3. CASE <<p, u>> \in asked
    <3>1. reply[<<p, u>>] \in Replies
      <4> HIDE DEF asked
      <4> QED BY <1>1, <2>3
    <3>2. after(reply, p, u) = Judged(was[p][u], reply[<<p, u>>])
      BY <1>5, <2>3
    <3>3. ~failed(reply, p) => reply[<<p, u>>] # "silence"
      BY <2>3
    <3>4. after(reply, p, u) # Absent
      BY <2>2, <3>1, <3>2, VerdictSays
    <3> HIDE DEF after, asked, failed
    <3> QED BY <2>1, <2>2, <3>1, <3>2, <3>3, <3>4
  <2>4. CASE <<p, u>> \notin asked
    <3>1. Ambiguous(u, was[p][u]) \/ was[p][u].status = "classified"
      <4>1. <<p, u>> \in chosen \X Urls /\ <<p, u>>[1] = p /\ <<p, u>>[2] = u
        OBVIOUS
      <4>2. ~Asked(u, was[p][u], force)
        <5> HIDE DEF chosen
        <5> QED BY <2>1, <2>4, <4>1
      <4> QED BY <4>2 DEF Asked
    <3>2. after(reply, p, u) = IF Ambiguous(u, was[p][u]) THEN LeftOpen(was[p][u]) ELSE was[p][u]
      BY <1>5, <2>4
    <3>3. LeftOpen(was[p][u]) # Absent
      BY <2>2, VerdictSays
    <3> HIDE DEF after, asked, failed
    <3> QED BY <1>5, <2>1, <2>2, <3>1, <3>2, <3>3
  <2> QED BY <2>3, <2>4
<1>6. \A p, u : was[p][u] = Absent => after(reply, p, u) = Absent
  OBVIOUS
<1> HIDE DEF after
<1>7. ASSUME NEW p \in chosen
      PROVE  /\ pub(reply, p) \in Publication /\ pub(reply, p).merged = rows.publications[p].merged
             /\ pub(reply, p).versions = rows.publications[p].versions
             /\ pub(reply, p).listed = rows.publications[p].listed
             /\ pub(reply, p).judged = "completed" => ~failed(reply, p)
  <2>1. rows.publications[p] \in Publication
    BY <1>2, TablesType
  <2> DEFINE own == {u \in Urls : Own(u, after(reply, p, u))}
  <2>2. own \subseteq Urls
    OBVIOUS
  <2> HIDE DEF own, failed
  <2> QED BY <2>1, <2>2 DEF Publication, States, own
<1> HIDE DEF pub, failed
<1>8. papers \in PublicationRows
  <2> HIDE DEF chosen
  <2> QED BY <1>4, <1>7 DEF PublicationRows
<1>9. SameLedger(papers, rows.publications)
  <2> HIDE DEF chosen
  <2> QED BY <1>3, <1>7, RowsAssumption DEF SameLedger
<1>10. links \in LinkTables
  <2>1. \A p \in chosen : /\ [u \in Urls |-> after(reply, p, u)] \in [Urls -> Link \cup {Absent}]
                          /\ \A u \in Urls : after(reply, p, u) \in SoundLinks(u) \cup {Absent}
    <3> HIDE DEF chosen
    <3> QED BY <1>5, <1>6 DEF SoundLinks
  <2> HIDE DEF chosen
  <2>2. links \in LinkRows
    BY <1>4, <2>1 DEF LinkRows
  <2>3. ASSUME NEW p \in Pubs, links[p] # Absent, NEW u \in Urls
        PROVE  links[p][u] \in SoundLinks(u) \cup {Absent}
    BY <1>4, <2>1, <2>3 DEF LinkTables
  <2> QED BY <2>2, <2>3 DEF LinkTables
<1>11. \A p \in chosen : links[p] # Absent
  BY <1>2, <1>5, <1>6, RowsAssumption DEF SoundLinks
<1>12. Keeps(files', rows.repo_links, links)
  <2>1. ASSUME NEW p \in Pubs, was[p] # Absent
        PROVE  links[p] # Absent /\ \A u \in Urls : was[p][u] # Absent =>
                   links[p][u] # Absent /\ was[p][u].found \subseteq links[p][u].found
    <3>1. CASE p \in chosen
      <4>1. \A u \in Urls : links[p][u] = after(reply, p, u)
        BY <3>1
      <4> HIDE DEF chosen, links
      <4> QED BY <1>5, <1>11, <3>1, <4>1
    <3>2. CASE p \notin chosen
      BY <2>1, <3>2
    <3> QED BY <3>1, <3>2
  <2> HIDE DEF links
  <2> QED BY <1>4, <1>10, <2>1, KeptInPlace
<1>13. ~job.torn => AllJudged(papers, links)
  <2> SUFFICES ASSUME ~job.torn, NEW p \in Present(papers), papers[p].judged = "completed",
                      NEW u \in LinksOf(links, p)
               PROVE  links[p][u].status = "classified"
    BY DEF AllJudged
  <2>1. p \in Pubs /\ links[p] # Absent /\ u \in Urls /\ links[p][u] # Absent
    BY <1>10, LinkThere DEF Present
  <2>2. CASE p \in chosen
    <3>1. papers[p] = pub(reply, p) /\ links[p][u] = after(reply, p, u)
      BY <2>1, <2>2
    <3> HIDE DEF chosen
    <3> QED BY <1>5, <1>6, <1>7, <2>1, <2>2, <3>1
  <2>3. CASE p \notin chosen
    <3>1. papers[p] = rows.publications[p] /\ links[p] = was[p]
      BY <2>1, <2>3
    <3>2. AllJudged(rows.publications, rows.repo_links)
      BY DEF HarvestInv, JobInv, WholeInv, JudgeLinks, MayStart
    <3>3. p \in Present(rows.publications) /\ u \in LinksOf(rows.repo_links, p)
      BY <1>4, <2>1, <3>1, LinkThere DEF Present
    <3> QED BY <3>1, <3>2, <3>3 DEF AllJudged
  <2> QED BY <2>2, <2>3
<1>14. Present(links) \subseteq Known(rows.publications)
  <2> SUFFICES ASSUME NEW p \in Present(links) PROVE p \in Known(rows.publications)
    OBVIOUS
  <2>1. p \in Pubs /\ links[p] # Absent
    BY DEF Present
  <2>2. CASE p \in chosen
    BY <1>2, <2>2, PresentKnown
  <2>3. CASE p \notin chosen
    <3>1. p \in Present(rows.repo_links)
      BY <1>4, <2>1, <2>3, LinkThere DEF Present
    <3>2. "repo_links" \in Collections /\ "publications" \in Kinds
      BY DEF Collections, Kinds
    <3>3. Refers("publications", "repo_links", rows["repo_links"]) \subseteq Known(rows["publications"])
      BY <3>2 DEF HarvestInv, Resolves
    <3> QED BY <3>1, <3>3, TablesType DEF Refers
  <2> QED BY <2>2, <2>3
<1>15. /\ job.stage = "idle" /\ "link_relevance" \in Stages /\ MayStart("link_relevance")
       /\ rows' = rows /\ files' = files /\ files \in [Pubs -> Docs \cup {NoDoc}]
  BY TablesType DEF JudgeLinks, MayStart
<1> DEFINE writes == <<Write("publications", papers), Write("repo_links", links)>>
<1>16. Leaves(writes, files')
  <2> HIDE DEF papers, links
  <2> QED BY <1>8, <1>9, <1>10, <1>12, <1>13, <1>14, <1>15, PapersAndLinks
<1>17. Started("link_relevance", selection, writes)
  BY <1>1 DEF pub, after
<1> HIDE DEF writes
<1> QED
  BY <1>15, <1>16, <1>17, StartStep

-----------------------------------------------------------------------------
(* What was collected becomes papers and their authors. *)

LEMMA PaperThere ==
    ASSUME NEW table \in PublicationTables
    PROVE  /\ DOMAIN table = Pubs /\ Present(table) \subseteq Pubs
           /\ \A p \in Present(table) : table[p] \in Publication /\ Swallows(table, p)
           /\ \A p : p \in Present(table) <=> p \in Pubs /\ table[p] # Absent
BY DEF PublicationTables, PublicationRows, Present

\* an id belongs to one paper, its own or the one that swallowed it
LEMMA OneOwner ==
    ASSUME NEW table \in PublicationTables, NEW p \in Present(table), NEW q \in Present(table), NEW x,
           x = p \/ x \in table[p].merged, x = q \/ x \in table[q].merged
    PROVE  p = q
<1>1. Swallows(table, p) /\ Swallows(table, q) /\ table[p] # Absent /\ table[q] # Absent
  BY PaperThere
<1>2. CASE x = p
  BY <1>1, <1>2 DEF Swallows
<1>3. CASE x \in table[p].merged /\ x # p
  <2>1. table[x] = Absent
    BY <1>1, <1>3 DEF Swallows
  <2>2. x \in table[q].merged
    BY <1>1, <2>1
  <2> QED BY <1>1, <1>3, <2>2 DEF Swallows
<1> QED BY <1>2, <1>3

LEMMA NormalizeStep == HarvestInv /\ Normalize => HarvestInv'
<1> SUFFICES ASSUME HarvestInv, Normalize PROVE HarvestInv'
  OBVIOUS
<1> DEFINE was == rows.publications
           aliases == {AliasOf(p) : p \in raw}
           papers == [p \in Pubs |-> IF p \in raw /\ AliasOf(p) = p THEN Normalized(p) ELSE was[p]]
           persons == [rows.persons EXCEPT !.authored = @ \cup aliases]
           writes == <<Write("publications", papers), Write("persons", persons)>>
<1>1. /\ job.stage = "idle" /\ "normalize" \in Stages /\ MayStart("normalize")
      /\ Started("normalize", All, writes) /\ UNCHANGED <<rows, files, github, raw>>
  BY DEF Normalize, MayStart
<1>2. /\ was \in PublicationTables /\ rows.persons \in PersonTables /\ raw \subseteq Pubs
      /\ was \in PublicationRows /\ files \in [Pubs -> Docs \cup {NoDoc}]
      /\ rows["publications"] = was /\ rows["persons"] = rows.persons
      /\ rows["repo_links"] = rows.repo_links /\ rows["repositories"] = rows.repositories
  BY TablesType DEF PublicationTables
<1>3. ASSUME NEW p \in raw
      PROVE  \/ AliasOf(p) = p /\ \A q \in Present(was) : p \notin was[q].merged
             \/ AliasOf(p) \in Present(was) /\ p \in was[AliasOf(p)].merged /\ AliasOf(p) # p
  <2> DEFINE into == {q \in Present(was) : p \in was[q].merged}
  <2>1. CASE into = {}
    <3>1. AliasOf(p) = p
      BY <2>1 DEF AliasOf
    <3> QED BY <2>1, <3>1
  <2>2. CASE into # {}
    <3>1. AliasOf(p) \in into
      BY <2>2 DEF AliasOf
    <3>2. was[p] = Absent /\ was[AliasOf(p)] # Absent
      BY <1>2, <3>1, PaperThere DEF Swallows
    <3> QED BY <3>1, <3>2
  <2> QED BY <2>1, <2>2
<1>4. ASSUME NEW p \in raw
      PROVE  /\ Normalized(p) \in Publication /\ Normalized(p) # Absent
             /\ was[p] # Absent => /\ Normalized(p).merged = was[p].merged
                                   /\ Normalized(p).versions = was[p].versions
                                   /\ Normalized(p).listed = was[p].listed
                                   /\ Normalized(p).judged = was[p].judged
             /\ was[p] = Absent => /\ Normalized(p).merged = {} /\ Normalized(p).versions = {}
                                   /\ Normalized(p).listed = {} /\ Normalized(p).judged = "none"
  <2>1. p \in Pubs /\ PdfOf[p] \subseteq Docs /\ (was[p] # Absent => was[p] \in Publication)
    BY <1>2, GroupAssumption, PaperThere
  <2>2. NoPublication \in Publication
    BY DEF NoPublication, Publication, States
  <2> DEFINE row == IF was[p] = Absent THEN NoPublication ELSE was[p]
  <2>3. row \in Publication /\ Normalized(p) = [row EXCEPT !.sources = @ \cup PdfOf[p]]
    BY <2>1, <2>2 DEF Normalized
  <2>4. /\ Normalized(p) \in Publication /\ Normalized(p).merged = row.merged
        /\ Normalized(p).versions = row.versions /\ Normalized(p).listed = row.listed
        /\ Normalized(p).judged = row.judged
    <3> HIDE DEF row
    <3> QED BY <2>1, <2>3 DEF Publication
  <2> QED BY <2>4, RowsAssumption DEF NoPublication
<1> DEFINE fresh == {p \in raw : AliasOf(p) = p /\ was[p] = Absent}
<1>5. /\ papers \in PublicationRows
      /\ \A p \in Pubs : papers[p] # Absent <=> was[p] # Absent \/ p \in fresh
      /\ \A p \in Pubs : was[p] # Absent => /\ papers[p].merged = was[p].merged
                                            /\ papers[p].versions = was[p].versions
                                            /\ papers[p].listed = was[p].listed
                                            /\ papers[p].judged = was[p].judged
      /\ \A p \in fresh : /\ papers[p].merged = {} /\ papers[p].versions = {}
                          /\ papers[p].listed = {} /\ papers[p].judged = "none"
  BY <1>2, <1>4 DEF PublicationRows
<1>6. \A q \in Present(was) : \A p \in was[q].merged : p \notin fresh /\ was[p] = Absent /\ p \in Pubs
  <2> SUFFICES ASSUME NEW q \in Present(was), NEW p \in was[q].merged
               PROVE  p \notin fresh /\ was[p] = Absent /\ p \in Pubs
    OBVIOUS
  <2>1. was[p] = Absent /\ p \in Pubs
    BY <1>2, PaperThere DEF Swallows, Publication
  <2>2. p \in raw => AliasOf(p) # p
    BY <1>3
  <2> QED BY <2>1, <2>2
<1>7. fresh \subseteq Pubs
  BY <1>2
<1> HIDE DEF papers, fresh, was
<1>8. Present(papers) = Present(was) \cup fresh /\ Present(was) \subseteq Present(papers) /\ DOMAIN papers = Pubs
  BY <1>2, <1>5, <1>7, PaperThere DEF Present, PublicationRows
<1>9. papers \in PublicationTables
  <2> SUFFICES ASSUME NEW p \in Present(papers) PROVE Swallows(papers, p)
    BY <1>5 DEF PublicationTables
  <2>1. CASE p \in fresh
    BY <1>5, <2>1 DEF Swallows
  <2>2. CASE p \notin fresh
    <3>1. p \in Present(was) /\ p \in Pubs /\ was[p] # Absent /\ Swallows(was, p)
      BY <1>2, <1>8, <2>2, PaperThere
    <3>2. papers[p].merged = was[p].merged /\ papers[p].versions = was[p].versions
      BY <1>5, <3>1
    <3>3. \A q \in papers[p].merged : papers[q] = Absent
      BY <1>5, <1>6, <3>1, <3>2
    <3>4. ASSUME NEW q \in Present(papers) \ {p} PROVE papers[p].merged \cap papers[q].merged = {}
      <4>1. CASE q \in fresh
        BY <1>5, <4>1
      <4>2. CASE q \in Present(was)
        <5>1. q \in Pubs /\ was[q] # Absent
          BY <1>2, <4>2, PaperThere
        <5>2. papers[q].merged = was[q].merged
          BY <1>5, <5>1
        <5> QED BY <3>1, <3>2, <3>4, <4>2, <5>2 DEF Swallows
      <4> QED BY <1>8, <3>4, <4>1, <4>2
    <3> QED BY <3>1, <3>2, <3>3, <3>4 DEF Swallows
  <2> QED BY <2>1, <2>2
<1>10. Known(was) \subseteq Known(papers)
  <2> SUFFICES ASSUME NEW x \in Known(was) PROVE x \in Known(papers)
    OBVIOUS
  <2>1. x \in Pubs
    BY <1>2, PaperThere DEF Known
  <2>2. PICK q \in Present(was) : q = x \/ x \in was[q].merged
    BY DEF Known, StandsFor
  <2>3. q \in Present(papers) /\ papers[q].merged = was[q].merged
    BY <1>2, <1>5, <1>8, PaperThere
  <2> QED BY <1>8, <2>1, <2>2, <2>3 DEF Known, StandsFor
<1>11. persons \in PersonTables /\ persons.authored = rows.persons.authored \cup aliases
       /\ persons.contributed = rows.persons.contributed
  <2>1. aliases \subseteq Pubs
    BY <1>2, <1>3, PaperThere
  <2> HIDE DEF aliases
  <2> QED BY <1>2, <2>1 DEF PersonTables
<1>12. \A p \in raw : AliasOf(p) \in Known(papers)
  <2> SUFFICES ASSUME NEW p \in raw PROVE AliasOf(p) \in Known(papers)
    OBVIOUS
  <2>1. CASE AliasOf(p) \in Present(was)
    BY <1>8, <2>1, PresentKnown
  <2>2. CASE AliasOf(p) \notin Present(was)
    <3>1. AliasOf(p) = p /\ p \in Pubs /\ was[p] = Absent
      BY <1>2, <1>3, <2>2, PaperThere
    <3> QED BY <1>8, <3>1, PresentKnown DEF fresh
  <2> QED BY <2>1, <2>2
<1>13. /\ Len(writes) = 2 /\ writes \in Seq(Writes)
       /\ writes[1].collection = "publications" /\ writes[1].table = papers
       /\ writes[2].collection = "persons" /\ writes[2].table = persons
  <2>1. Write("publications", papers) \in Writes /\ Write("persons", persons) \in Writes
    BY <1>9, <1>11, WriteMade
  <2> HIDE DEF persons
  <2> QED BY <2>1 DEF Write
<1>14. \A i \in 1 .. Len(writes) : i = 1 \/ i = 2
  BY <1>13
<1>15. \A p \in raw : AliasOf(p) \in aliases
  OBVIOUS
<1>16. aliases \subseteq Known(papers)
  BY <1>12
<1> HIDE DEF writes, persons, aliases
<1>17. ~job.torn => WillBeWhole(rows, writes) /\ ListedThroughout(rows, writes)
  <2> SUFFICES ASSUME ~job.torn PROVE WillBeWhole(rows, writes) /\ ListedThroughout(rows, writes)
    OBVIOUS
  <2>0. Len(writes) \in Nat
    BY <1>13
  <2>1. ASSUME NEW table, Becomes(rows, writes, "publications", table) PROVE table = papers
    <3>1. /\ 1 \in 1 .. Len(writes)
          /\ \A k \in 1 + 1 .. Len(writes) : writes[k].collection # "publications"
      BY <1>13, <1>14
    <3>2. \A i \in 1 .. Len(writes) :
              /\ writes[i].collection = "publications"
              /\ \A k \in i + 1 .. Len(writes) : writes[k].collection # "publications"
              => table = writes[i].table
      BY <2>0, <2>1, BecomesLast
    <3> QED BY <1>13, <3>1, <3>2
  <2>2. ASSUME NEW table, Becomes(rows, writes, "persons", table) PROVE table = persons
    <3>1. /\ 2 \in 1 .. Len(writes)
          /\ \A k \in 2 + 1 .. Len(writes) : writes[k].collection # "persons"
      BY <1>13
    <3>2. \A i \in 1 .. Len(writes) :
              /\ writes[i].collection = "persons"
              /\ \A k \in i + 1 .. Len(writes) : writes[k].collection # "persons"
              => table = writes[i].table
      BY <2>0, <2>2, BecomesLast
    <3> QED BY <1>13, <3>1, <3>2
  <2>3. ASSUME NEW table, Becomes(rows, writes, "repo_links", table) PROVE table = rows.repo_links
    <3>1. \A i \in 1 .. Len(writes) : writes[i].collection # "repo_links"
      BY <1>13, <1>14
    <3> QED BY <1>2, <2>0, <2>3, <3>1, BecomesLast
  <2>4. /\ Listed(was) /\ AllAuthored(was, rows.persons) /\ AllJudged(was, rows.repo_links)
    BY <1>1 DEF HarvestInv, JobInv, WholeInv, ListedThroughout, was
  <2>5. AllJudged(papers, rows.repo_links)
    <3> SUFFICES ASSUME NEW p \in Present(papers), papers[p].judged = "completed"
                 PROVE  p \in Present(was) /\ was[p].judged = "completed"
      BY <2>4 DEF AllJudged
    <3>1. p \in Present(was)
      BY <1>5, <1>8
    <3>2. p \in Pubs /\ was[p] # Absent
      BY <1>2, <3>1, PaperThere
    <3> QED BY <1>5, <3>1, <3>2
  <2>6. AllAuthored(papers, persons)
    BY <1>8, <1>11, <1>15, <2>4 DEF AllAuthored, fresh
  <2>7. Listed(papers)
    <3> SUFFICES ASSUME NEW p \in Present(papers) PROVE papers[p].listed = papers[p].versions
      BY DEF Listed
    <3>1. CASE p \in fresh
      BY <1>5, <3>1
    <3>2. CASE p \in Present(was)
      <4>1. p \in Pubs /\ was[p] # Absent
        BY <1>2, <3>2, PaperThere
      <4> QED BY <1>5, <2>4, <3>2, <4>1 DEF Listed
    <3> QED BY <1>8, <3>1, <3>2
  <2>8. ListedThroughout(rows, writes)
    BY <1>13, <1>14, <2>4, <2>7 DEF ListedThroughout, was
  <2> QED BY <2>1, <2>2, <2>3, <2>5, <2>6, <2>8 DEF WillBeWhole
<1>18. KeepsEvidence(rows, writes, files')
  BY <1>13, <1>14 DEF KeepsEvidence
<1>19. ASSUME NEW kind \in Kinds PROVE Resolves(rows, writes, kind)
  <2>1. \A c \in Collections : Refers(kind, c, rows[c]) \subseteq Known(rows[kind])
    BY DEF HarvestInv, Resolves
  <2>2. "persons" \in Collections
    BY DEF Collections
  <2>3. CASE kind = "publications"
    <3>1. /\ Refers(kind, writes[1].collection, writes[1].table) = {}
          /\ Refers(kind, writes[2].collection, writes[2].table) = rows.persons.authored \cup aliases
          /\ Refers(kind, "persons", rows["persons"]) = rows.persons.authored
      BY <1>2, <1>11, <1>13, <2>3 DEF Refers
    <3>2. rows.persons.authored \subseteq Known(was) /\ rows[kind] = was
      BY <1>2, <2>1, <2>2, <2>3, <3>1
    <3>3. rows.persons.authored \cup aliases \subseteq Known(papers)
      BY <1>10, <1>16, <3>2
    <3> QED BY <1>10, <1>13, <1>14, <2>1, <2>3, <3>1, <3>2, <3>3 DEF Resolves
  <2>4. CASE kind = "repositories"
    <3>1. /\ Refers(kind, writes[1].collection, writes[1].table) = {}
          /\ Refers(kind, writes[2].collection, writes[2].table) = rows.persons.contributed
          /\ Refers(kind, "persons", rows["persons"]) = rows.persons.contributed
      BY <1>2, <1>11, <1>13, <2>4 DEF Refers
    <3> QED BY <1>13, <1>14, <2>1, <2>2, <2>4, <3>1 DEF Resolves
  <2> QED BY <2>3, <2>4 DEF Kinds
<1>20. OneHosts(rows, writes, host)
  BY <1>13, <1>14 DEF HarvestInv, GitHubInv, OneHosts
<1>21. Len(writes) <= 7
  BY <1>13
<1>22. Leaves(writes, files')
  BY <1>13, <1>17, <1>18, <1>19, <1>20, <1>21 DEF Leaves
<1>23. files' \in [Pubs -> Docs \cup {NoDoc}]
  BY <1>1, <1>2
<1> QED
  BY <1>1, <1>22, <1>23, StartStep

-----------------------------------------------------------------------------
(* Repositories: rows folded into one.                                     *)

\* What a row keeps, and what the rows folded into it bring.
LEMMA FoldAllSays ==
    ASSUME NEW losers, IsFiniteSet(losers), losers \subseteq Urls, NEW winner \in Repository, NEW table,
           \A id \in losers : table[id] \in Repository
    PROVE  LET row == FoldAll(winner, losers, table)
           IN /\ row \in Repository
              /\ row.url = winner.url /\ row.github = winner.github /\ row.owner = winner.owner
              /\ row.pubs = winner.pubs \cup UNION {table[id].pubs : id \in losers}
              /\ row.cited = winner.cited \cup UNION {table[id].cited : id \in losers}
              /\ row.merged = winner.merged \cup losers \cup UNION {table[id].merged : id \in losers}
<1> DEFINE op == [x \in losers \X Repository |-> FoldInto(x[2], table[x[1]], x[1])]
           PubsOf(s) == UNION {table[id].pubs : id \in s}
           CitedOf(s) == UNION {table[id].cited : id \in s}
           MergedOf(s) == UNION {table[id].merged : id \in s}
           Sum(s, row) ==
              /\ row.url = winner.url /\ row.github = winner.github /\ row.owner = winner.owner
              /\ row.pubs = winner.pubs \cup PubsOf(s) /\ row.cited = winner.cited \cup CitedOf(s)
              /\ row.merged = winner.merged \cup s \cup MergedOf(s)
           Good == {x \in (SUBSET losers) \X Repository : Sum(x[1], x[2])}
           Right(iter) == iter = [s \in SUBSET losers |->
              IF s = {} THEN winner ELSE FoldInto(iter[s \ {Picked(s)}], table[Picked(s)], Picked(s))]
           folded == CHOOSE iter : Right(iter)
<1>1. FoldAll(winner, losers, table) = folded[losers]
  BY DEF FoldAll, FoldSet, MapThenFoldSet, Picked
<1>2. ASSUME NEW id \in losers, NEW row \in Repository
      PROVE  /\ FoldInto(row, table[id], id) \in Repository
             /\ FoldInto(row, table[id], id).url = row.url
             /\ FoldInto(row, table[id], id).github = row.github
             /\ FoldInto(row, table[id], id).owner = row.owner
             /\ FoldInto(row, table[id], id).pubs = row.pubs \cup table[id].pubs
             /\ FoldInto(row, table[id], id).cited = row.cited \cup table[id].cited
             /\ FoldInto(row, table[id], id).merged = row.merged \cup {id} \cup table[id].merged
  BY <1>2 DEF FoldInto, Repository
<1>3. op \in [losers \X Repository -> Repository]
  BY <1>2
<1>4. \A id \in losers, row \in Repository : op[<<id, row>>] = FoldInto(row, table[id], id)
  OBVIOUS
<1> HIDE DEF op
<1>5. \E f : Right(f)
  <2>1. PICK f \in [SUBSET losers -> Repository] : FoldsBy(f, losers, op, winner)
    BY <1>3, FoldExists
  <2>2. ASSUME NEW s \in SUBSET losers, s # {}
        PROVE  op[<<Picked(s), f[s \ {Picked(s)}]>>]
               = FoldInto(f[s \ {Picked(s)}], table[Picked(s)], Picked(s))
    <3>1. Picked(s) \in losers /\ f[s \ {Picked(s)}] \in Repository
      BY <2>1, <2>2 DEF Picked
    <3> QED BY <1>4, <3>1
  <2>3. Right(f)
    BY <2>1, <2>2 DEF FoldsBy
  <2> QED BY <2>3
<1>6. Right(folded)
  <2> HIDE DEF Right
  <2> QED BY <1>5
<1>7. folded[{}] = winner
  BY <1>6
<1>8. ASSUME NEW s \in SUBSET losers, s # {}, folded[s \ {Picked(s)}] \in Repository
      PROVE  folded[s] = op[<<Picked(s), folded[s \ {Picked(s)}]>>]
  <2>1. folded[s] = FoldInto(folded[s \ {Picked(s)}], table[Picked(s)], Picked(s))
    BY <1>6, <1>8
  <2>2. Picked(s) \in losers
    BY <1>8 DEF Picked
  <2> QED BY <1>4, <1>8, <2>1, <2>2
<1>9. <<{}, winner>> \in Good
  OBVIOUS
<1>10. ASSUME NEW s \in SUBSET losers, NEW id \in losers \ s, NEW row \in Repository, <<s, row>> \in Good
       PROVE  op[<<id, row>>] \in Repository /\ <<s \cup {id}, op[<<id, row>>]>> \in Good
  <2>1. Sum(s, row)
    BY <1>10
  <2>3. /\ PubsOf(s \cup {id}) = PubsOf(s) \cup table[id].pubs
        /\ CitedOf(s \cup {id}) = CitedOf(s) \cup table[id].cited
        /\ MergedOf(s \cup {id}) = MergedOf(s) \cup table[id].merged
    OBVIOUS
  <2> HIDE DEF PubsOf, CitedOf, MergedOf
  <2> DEFINE into == FoldInto(row, table[id], id)
  <2>4. /\ into \in Repository /\ op[<<id, row>>] = into
        /\ into.url = row.url /\ into.github = row.github /\ into.owner = row.owner
        /\ into.pubs = row.pubs \cup table[id].pubs /\ into.cited = row.cited \cup table[id].cited
        /\ into.merged = row.merged \cup {id} \cup table[id].merged
    BY <1>2, <1>4
  <2> HIDE DEF into
  <2>5. /\ row.pubs = winner.pubs \cup PubsOf(s) /\ row.cited = winner.cited \cup CitedOf(s)
        /\ row.merged = winner.merged \cup s \cup MergedOf(s)
    BY <2>1
  <2>6. into.pubs = winner.pubs \cup PubsOf(s \cup {id})
    BY <2>3, <2>4, <2>5
  <2>7. into.cited = winner.cited \cup CitedOf(s \cup {id})
    BY <2>3, <2>4, <2>5
  <2>8. into.merged = winner.merged \cup (s \cup {id}) \cup MergedOf(s \cup {id})
    BY <2>3, <2>4, <2>5
  <2>9. Sum(s \cup {id}, into)
    BY <2>1, <2>4, <2>6, <2>7, <2>8
  <2>10. s \cup {id} \in SUBSET losers
    OBVIOUS
  <2> HIDE DEF Sum
  <2>11. <<s \cup {id}, into>> \in Good
    BY <2>4, <2>9, <2>10
  <2> QED BY <2>4, <2>11
<1>11. folded[losers] \in Repository /\ <<losers, folded[losers]>> \in Good
  <2> HIDE DEF folded, Good
  <2>1. \A s \in SUBSET losers : s # {} /\ folded[s \ {Picked(s)}] \in Repository =>
            folded[s] = op[<<Picked(s), folded[s \ {Picked(s)}]>>]
    BY <1>8
  <2>2. \A s \in SUBSET losers : \A id \in losers \ s : \A row \in Repository : <<s, row>> \in Good =>
            op[<<id, row>>] \in Repository /\ <<s \cup {id}, op[<<id, row>>]>> \in Good
    BY <1>10
  <2> QED BY <1>7, <1>9, <2>1, <2>2, FoldReaches
<1>12. Sum(losers, folded[losers])
  BY <1>11
<1> QED BY <1>1, <1>11, <1>12

\* the same, from the id: all names of a row lead where its id does
LEMMA LeadsSay ==
    ASSUME GitHubTypeOK, NEW id \in Urls, NEW row \in Repository
    PROVE  LeadsTo(host, id, row) <=>
              /\ \A u \in NamesOf(id, row) : host[u] = host[id]
              /\ row.github \in {host[id], Nobody}
              /\ host[id] = Nobody => NamesOf(id, row) = {id}
<1>1. host[id] \in Repos \cup {Nobody} /\ row.github \in Repos \cup {Nobody} /\ Nobody \notin Repos
  BY RepositoriesAssumption DEF GitHubTypeOK, Repository
<1>2. id \in NamesOf(id, row)
  BY DEF NamesOf
<1> QED BY <1>1, <1>2 DEF LeadsTo

\* Rows that are sound by themselves.
RowsOf(table, papers) ==
    /\ table \in RepositoryRowsSet /\ OneHost(host, table)
    /\ \A id \in Present(table) : table[id].pubs \subseteq papers

LEMMA RowThere ==
    ASSUME NEW table \in RepositoryRowsSet
    PROVE  /\ DOMAIN table = Urls /\ Present(table) \subseteq Urls
           /\ \A id \in Present(table) : table[id] \in Repository
           /\ \A id : id \in Present(table) <=> id \in Urls /\ table[id] # Absent
BY DEF RepositoryRowsSet, Present

LEMMA KnownGrows ==
    ASSUME NEW table, NEW other, DOMAIN table = DOMAIN other,
           \A id \in Present(table) : id \in Present(other) /\ table[id].merged \subseteq other[id].merged
    PROVE  Known(table) \subseteq Known(other)
BY DEF Known, StandsFor

LEMMA EnrichedSays ==
    ASSUME GitHubTypeOK, \A r \in Repos : host[home[r]] = r,
           NEW id \in Urls, NEW asked \in Urls, host[asked] = host[id],
           NEW row \in Repository, LeadsTo(host, id, row), NEW outcome
    PROVE  LET after == Enriched(row, asked, outcome)
           IN /\ after \in Repository /\ LeadsTo(host, id, after)
              /\ after.pubs = row.pubs /\ after.merged = row.merged
<1> DEFINE after == Enriched(row, asked, outcome)
<1>1. host[asked] \in Repos \cup {Nobody} /\ \A r \in Repos : home[r] \in Urls
  BY DEF GitHubTypeOK
<1>2. after \in Repository
  <2>1. CASE outcome = "failed" \/ host[asked] = Nobody
    BY <2>1 DEF Enriched, Repository, States
  <2>2. CASE ~ (outcome = "failed" \/ host[asked] = Nobody)
    BY <1>1, <2>2 DEF Enriched, Repository, States
  <2> QED BY <2>1, <2>2
<1>3. /\ after.pubs = row.pubs /\ after.merged = row.merged /\ after.cited = row.cited
      /\ \/ after.url = row.url /\ after.github = row.github
         \/ host[asked] # Nobody /\ after.url = home[host[asked]] /\ after.github = host[asked]
  BY DEF Enriched, Repository
<1> HIDE DEF after
<1>4. /\ \A u \in NamesOf(id, row) : host[u] = host[id]
      /\ row.github \in {host[id], Nobody}
      /\ host[id] = Nobody => NamesOf(id, row) = {id}
  BY LeadsSay
<1>5. /\ \A u \in NamesOf(id, after) : host[u] = host[id]
      /\ after.github \in {host[id], Nobody}
      /\ host[id] = Nobody => NamesOf(id, after) = {id}
  <2>1. CASE after.url = row.url /\ after.github = row.github
    BY <1>3, <1>4, <2>1 DEF NamesOf
  <2>2. CASE host[asked] # Nobody /\ after.url = home[host[asked]] /\ after.github = host[asked]
    BY <1>1, <1>3, <1>4, <2>2 DEF NamesOf
  <2> QED BY <1>3, <2>1, <2>2
<1>6. LeadsTo(host, id, after)
  BY <1>2, <1>5, LeadsSay
<1> QED BY <1>2, <1>3, <1>6 DEF after

\* rows that lead to one repository fold into a row that does
LEMMA FoldAllLeads ==
    ASSUME GitHubTypeOK, NEW table \in RepositoryRowsSet, OneHost(host, table),
           NEW id \in Present(table), NEW losers \in SUBSET Present(table),
           \A other \in losers : host[other] = host[id], host[id] = Nobody => losers = {}
    PROVE  LeadsTo(host, id, FoldAll(table[id], losers, table))
<1> DEFINE row == FoldAll(table[id], losers, table)
<1>1. /\ id \in Urls /\ table[id] \in Repository /\ losers \subseteq Urls /\ IsFiniteSet(losers)
      /\ \A other \in losers : other \in Urls /\ table[other] \in Repository
  <2>1. losers \subseteq Urls
    BY RowThere
  <2> QED BY <2>1, RowThere, RowsAssumption, FS_Subset
<1>2. /\ row \in Repository /\ row.url = table[id].url /\ row.github = table[id].github
      /\ row.cited = table[id].cited \cup UNION {table[x].cited : x \in losers}
      /\ row.merged = table[id].merged \cup losers \cup UNION {table[x].merged : x \in losers}
  BY <1>1, FoldAllSays
<1> HIDE DEF row
<1>3. /\ \A u \in NamesOf(id, table[id]) : host[u] = host[id]
      /\ table[id].github \in {host[id], Nobody}
      /\ host[id] = Nobody => NamesOf(id, table[id]) = {id}
  BY <1>1, LeadsSay DEF OneHost
<1>4. ASSUME NEW other \in losers PROVE \A u \in NamesOf(other, table[other]) : host[u] = host[id]
  <2>1. \A u \in NamesOf(other, table[other]) : host[u] = host[other]
    BY <1>1, LeadsSay DEF OneHost
  <2> QED BY <2>1
<1>5. \A u \in NamesOf(id, row) : host[u] = host[id]
  <2> SUFFICES ASSUME NEW u \in NamesOf(id, row) PROVE host[u] = host[id]
    OBVIOUS
  <2>1. u \in NamesOf(id, table[id]) \/ \E x \in losers : u \in NamesOf(x, table[x])
    BY <1>2 DEF NamesOf
  <2> QED BY <1>3, <1>4, <2>1
<1>6. host[id] = Nobody => NamesOf(id, row) = {id}
  <2> SUFFICES ASSUME host[id] = Nobody PROVE NamesOf(id, row) = NamesOf(id, table[id])
    BY <1>3
  <2>1. losers = {}
    OBVIOUS
  <2>2. row.cited = table[id].cited /\ row.merged = table[id].merged
    BY <1>2, <2>1
  <2> QED BY <1>2, <2>2 DEF NamesOf
<1>7. LeadsTo(host, id, row)
  BY <1>1, <1>2, <1>3, <1>5, <1>6, LeadsSay
<1> QED BY <1>7 DEF row

\* the first pass before its fetches
LEMMA LinkedSays ==
    ASSUME HarvestInv, NEW selection
    PROVE  LET linked == Linked(Cited(selection))
           IN /\ RowsOf(linked, Known(rows.publications))
              /\ \A id \in Present(rows.repositories) :
                    id \in Present(linked) /\ linked[id].merged = rows.repositories[id].merged
              /\ \A c \in Cited(selection) : c[2] \in Present(linked)
<1> DEFINE repos == rows.repositories
           papers == Known(rows.publications)
           cited == Cited(selection)
           known == Disclaimed(cited)
           citing(u) == {p \in Pubs : <<p, u>> \in cited}
           row == [u \in Urls |-> IF known[u] = Absent THEN Unchecked(u) ELSE known[u]]
           more == [u \in Urls |-> {p \in citing(u) : Implements(p, u)}]
           after == [u \in Urls |-> [row[u] EXCEPT !.pubs = @ \cup more[u], !.cited = @ \cup {u}]]
           linked == Linked(cited)
<1>1. /\ repos \in RepositoryRowsSet /\ OneHost(host, repos) /\ GitHubTypeOK
      /\ \A id \in Present(repos) : repos[id].pubs \subseteq papers
      /\ Present(rows.repo_links) \subseteq papers /\ Present(rows.repo_links) \subseteq Pubs
  <2>1. /\ repos \in RepositoryRowsSet /\ GitHubTypeOK /\ rows.repo_links \in LinkTables
        /\ rows["repositories"] = repos /\ rows["repo_links"] = rows.repo_links
        /\ rows["publications"] = rows.publications
    BY TablesType DEF HarvestInv, TablesInv
  <2>2. Present(rows.repo_links) \subseteq Pubs
    BY <2>1 DEF LinkTables, LinkRows, Present
  <2>3. OneHost(host, repos)
    BY DEF HarvestInv, GitHubInv, OneHosts
  <2>4. \A c \in Collections : Refers("publications", c, rows[c]) \subseteq Known(rows["publications"])
    BY DEF HarvestInv, Resolves, Kinds
  <2>5. Refers("publications", "repositories", rows["repositories"]) = UNION {repos[u].pubs : u \in Present(repos)}
    BY <2>1 DEF Refers
  <2>6. Refers("publications", "repo_links", rows["repo_links"]) = Present(rows.repo_links)
    BY <2>1 DEF Refers
  <2>7. UNION {repos[u].pubs : u \in Present(repos)} \subseteq papers /\ Present(rows.repo_links) \subseteq papers
    BY <2>1, <2>4, <2>5, <2>6 DEF Collections
  <2> QED BY <2>1, <2>2, <2>3, <2>7
<1>2. \A c \in cited : c[1] \in Present(rows.repo_links) /\ c[2] \in Urls /\ c = <<c[1], c[2]>>
  BY DEF Cited
<1>3. ASSUME NEW id \in Present(repos)
      PROVE  /\ id \in Urls /\ known[id] \in Repository /\ LeadsTo(host, id, known[id])
             /\ known[id].pubs \subseteq papers /\ known[id].merged = repos[id].merged
  <2>1. id \in Urls /\ repos[id] \in Repository /\ repos[id] # Absent /\ repos[id].pubs \subseteq papers
    BY <1>1, RowThere
  <2>2. known[id] = [repos[id] EXCEPT !.pubs =
                        @ \ {p \in Pubs : \E u \in KnownBy(repos[id], id) : <<p, u>> \in cited}]
    BY <2>1 DEF Disclaimed
  <2> HIDE DEF known
  <2>3. /\ known[id] \in Repository /\ known[id].pubs \subseteq papers
        /\ known[id].url = repos[id].url /\ known[id].github = repos[id].github
        /\ known[id].cited = repos[id].cited /\ known[id].merged = repos[id].merged
    BY <2>1, <2>2 DEF Repository
  <2>4. NamesOf(id, known[id]) = NamesOf(id, repos[id])
    BY <2>3 DEF NamesOf
  <2>5. LeadsTo(host, id, known[id])
    BY <1>1, <2>3, <2>4 DEF OneHost, LeadsTo
  <2> QED BY <2>1, <2>3, <2>5
<1>4. \A u \in Urls : u \notin Present(repos) => known[u] = Absent
  BY <1>1, RowThere DEF Disclaimed
<1>5. \A id \in Present(repos) : known[id] # Absent
  BY <1>3, RepositoriesAssumption
<1> HIDE DEF known
<1>6. ASSUME NEW u \in Urls
      PROVE  row[u] \in Repository /\ LeadsTo(host, u, row[u]) /\ row[u].pubs \subseteq papers
  <2>1. /\ Unchecked(u) \in Repository /\ Unchecked(u).pubs = {}
        /\ Unchecked(u).github = Nobody /\ NamesOf(u, Unchecked(u)) = {u}
    BY DEF Unchecked, Repository, States, NamesOf
  <2>2. LeadsTo(host, u, Unchecked(u))
    BY <2>1 DEF LeadsTo
  <2> QED BY <1>3, <1>4, <2>1, <2>2
<1> HIDE DEF row
<1>7. ASSUME NEW u \in Urls
      PROVE  /\ after[u] \in Repository /\ LeadsTo(host, u, after[u]) /\ after[u].pubs \subseteq papers
             /\ after[u].merged = row[u].merged
  <2>1. more[u] \subseteq papers /\ more[u] \subseteq Pubs
    BY <1>1, <1>2
  <2>5. after[u] = [row[u] EXCEPT !.pubs = row[u].pubs \cup more[u], !.cited = row[u].cited \cup {u}]
    BY DEF after
  <2> HIDE DEF more, after
  <2>2. /\ after[u] \in Repository /\ after[u].pubs = row[u].pubs \cup more[u]
        /\ after[u].url = row[u].url /\ after[u].github = row[u].github
        /\ after[u].cited = row[u].cited \cup {u} /\ after[u].merged = row[u].merged
    <3>1. row[u] \in Repository
      BY <1>6
    <3>2. row[u].pubs \cup more[u] \in SUBSET Pubs /\ row[u].cited \cup {u} \in SUBSET Urls
      BY <2>1, <3>1 DEF Repository
    <3>3. after[u] \in Repository
      BY <2>5, <3>1, <3>2 DEF Repository
    <3>4. row[u] = [url |-> row[u].url, github |-> row[u].github, owner |-> row[u].owner,
                    pubs |-> row[u].pubs, cited |-> row[u].cited, merged |-> row[u].merged,
                    state |-> row[u].state]
      BY <3>1 DEF Repository
    <3> QED BY <2>5, <3>3, <3>4
  <2>3. NamesOf(u, after[u]) = NamesOf(u, row[u])
    BY <2>2 DEF NamesOf
  <2>4. LeadsTo(host, u, after[u])
    BY <1>6, <2>2, <2>3 DEF LeadsTo
  <2> QED BY <1>6, <2>1, <2>2, <2>4
<1>8. \A u \in Urls : linked[u] = IF citing(u) = {} THEN known[u] ELSE after[u]
  BY DEF Linked, known, row
<1>9. DOMAIN linked = Urls
  BY DEF Linked
<1>10. linked = [u \in Urls |-> linked[u]]
  BY DEF Linked
<1> HIDE DEF after, linked, citing
<1>11. ASSUME NEW u \in Urls
       PROVE  \/ linked[u] = Absent
              \/ /\ linked[u] \in Repository /\ LeadsTo(host, u, linked[u])
                 /\ linked[u].pubs \subseteq papers
  BY <1>3, <1>4, <1>7, <1>8
<1>12. linked \in RepositoryRowsSet
  BY <1>10, <1>11 DEF RepositoryRowsSet
<1>13. RowsOf(linked, papers)
  BY <1>9, <1>11, <1>12 DEF RowsOf, OneHost, Present
<1>14. ASSUME NEW id \in Present(repos)
       PROVE  id \in Present(linked) /\ linked[id].merged = repos[id].merged
  <2>1. row[id] = known[id] /\ id \in Urls
    BY <1>3, <1>5 DEF row
  <2>2. linked[id].merged = repos[id].merged /\ linked[id] \in Repository
    BY <1>3, <1>7, <1>8, <2>1
  <2> QED BY <1>12, <2>1, <2>2, RowThere, RepositoriesAssumption
<1>15. ASSUME NEW c \in cited PROVE c[2] \in Present(linked)
  <2>1. c[2] \in Urls /\ c[1] \in citing(c[2])
    BY <1>1, <1>2 DEF citing
  <2>2. linked[c[2]] = after[c[2]] /\ after[c[2]] \in Repository
    BY <1>7, <1>8, <2>1
  <2> QED BY <1>12, <2>1, <2>2, RowThere, RepositoriesAssumption
<1> QED BY <1>13, <1>14, <1>15 DEF linked

\* the second pass: rows of one name are rows of one repository
LEMMA SecondPassSays ==
    ASSUME GitHubTypeOK, \A r \in Repos : host[home[r]] = r,
           NEW papers, NEW once, RowsOf(once, papers),
           NEW repos \in RepositoryRowsSet, OneHost(host, repos),
           NEW unlinked \in [Urls -> SUBSET Present(repos)],
           \A u \in Urls : \A id \in unlinked[u] : repos[id].url = u /\ id \in Present(once),
           NEW again, NEW outcome, NEW table \in SecondPass(once, unlinked, again, outcome)
    PROVE  RowsOf(table, papers) /\ Known(once) \subseteq Known(table)
<1> DEFINE offers == [u \in Urls |-> IF unlinked[u] = {} THEN {u} ELSE Winners(unlinked[u], once)]
           Folded(u, id) == FoldAll(once[id], unlinked[u] \ {id}, once)
           Row(u, id) == IF u \in again THEN Enriched(Folded(u, id), u, outcome[u]) ELSE Folded(u, id)
           Lost(winner, id) == \E u \in Urls : id \in unlinked[u] \ {winner[u]}
           Kept(id) == \A u \in Urls : id \notin unlinked[u]
           Of(id) == CHOOSE u \in Urls : id \in unlinked[u]
           after(winner) == [id \in Urls |-> IF Lost(winner, id) THEN Absent
                                             ELSE IF Kept(id) THEN once[id] ELSE Row(Of(id), id)]
<1>1. PICK winner \in Picks(offers) : table = after(winner)
  BY DEF SecondPass
<1>2. \A u \in Urls : unlinked[u] # {} => winner[u] \in unlinked[u]
  BY DEF Picks, Winners
<1>3. /\ once \in RepositoryRowsSet /\ OneHost(host, once)
      /\ \A id \in Present(once) : once[id].pubs \subseteq papers
  BY DEF RowsOf
<1>4. \A u \in Urls : \A id \in unlinked[u] : id \in Present(repos) /\ id \in Urls
  BY RowThere
<1>5. \A u, v \in Urls : \A id : id \in unlinked[u] /\ id \in unlinked[v] => u = v
  OBVIOUS
<1>6. ASSUME NEW u \in Urls, NEW id \in unlinked[u]
      PROVE  /\ Of(id) = u /\ ~Kept(id) /\ (Lost(winner, id) <=> id # winner[u])
             /\ id # winner[u] => table[id] = Absent
             /\ id = winner[u] => table[id] = Row(u, id)
  <2>1. Of(id) = u
    BY <1>5
  <2>2. Lost(winner, id) <=> id # winner[u]
    BY <1>5
  <2>3. ~Kept(id)
    OBVIOUS
  <2>4. id \in Urls
    BY <1>4
  <2> HIDE DEF Of, Lost, Kept, Row
  <2> QED BY <1>1, <2>1, <2>2, <2>3, <2>4
<1>7. ASSUME NEW id \in Urls, Kept(id) PROVE table[id] = once[id]
  <2>1. ~Lost(winner, id)
    BY <1>7
  <2> HIDE DEF Of, Lost, Kept, Row
  <2> QED BY <1>1, <1>7, <2>1
<1> HIDE DEF Of, Lost, after, offers
<1>8. ASSUME NEW u \in Urls, NEW id \in unlinked[u]
      PROVE  host[id] = host[u] /\ (host[u] = Nobody => id = u)
  <2>1. id \in Urls /\ repos[id] \in Repository /\ LeadsTo(host, id, repos[id]) /\ repos[id].url = u
    BY <1>4, RowThere DEF OneHost
  <2>2. u \in NamesOf(id, repos[id])
    BY <2>1 DEF NamesOf
  <2> QED BY <2>1, <2>2, LeadsSay
<1>9. ASSUME NEW u \in Urls, NEW id \in unlinked[u]
      PROVE  /\ Folded(u, id) \in Repository /\ LeadsTo(host, id, Folded(u, id))
             /\ Folded(u, id).pubs \subseteq papers
             /\ \A x \in unlinked[u] : /\ x = id \/ x \in Folded(u, id).merged
                                       /\ once[x].merged \subseteq Folded(u, id).merged
  <2> DEFINE losers == unlinked[u] \ {id}
  <2>1. /\ id \in Present(once) /\ losers \subseteq Present(once) /\ losers \subseteq Urls
        /\ IsFiniteSet(losers) /\ id \in Urls /\ once[id] \in Repository
        /\ \A x \in losers : once[x] \in Repository /\ once[x].pubs \subseteq papers
        /\ once[id].pubs \subseteq papers
    <3>1. id \in Present(once) /\ losers \subseteq Present(once)
      OBVIOUS
    <3>2. losers \subseteq Urls
      BY <1>4
    <3>3. IsFiniteSet(losers)
      BY <3>2, RowsAssumption, FS_Subset
    <3> HIDE DEF losers
    <3> QED BY <1>3, <1>4, <3>1, <3>2, <3>3, RowThere
  <2>2. \A x \in losers : host[x] = host[id]
    BY <1>8
  <2>3. host[id] = Nobody => losers = {}
    BY <1>8
  <2> HIDE DEF losers
  <2>4. LeadsTo(host, id, FoldAll(once[id], losers, once))
    BY <1>3, <2>1, <2>2, <2>3, FoldAllLeads
  <2> DEFINE row == FoldAll(once[id], losers, once)
  <2>5. /\ row \in Repository
        /\ row.pubs = once[id].pubs \cup UNION {once[x].pubs : x \in losers}
        /\ row.merged = once[id].merged \cup losers \cup UNION {once[x].merged : x \in losers}
    BY <2>1, FoldAllSays
  <2>6. row = Folded(u, id)
    BY DEF losers
  <2> HIDE DEF row, Folded
  <2>7. row.pubs \subseteq papers
    BY <2>1, <2>5
  <2>8. \A x \in unlinked[u] : x = id \/ x \in losers
    BY DEF losers
  <2>9. \A x \in unlinked[u] : /\ x = id \/ x \in row.merged
                               /\ once[x].merged \subseteq row.merged
    BY <2>5, <2>8
  <2> QED BY <2>4, <2>5, <2>6, <2>7, <2>9 DEF row
<1> HIDE DEF Folded
<1>10. ASSUME NEW u \in Urls, NEW id \in unlinked[u]
       PROVE  /\ Row(u, id) \in Repository /\ LeadsTo(host, id, Row(u, id))
              /\ Row(u, id).pubs \subseteq papers /\ Row(u, id).merged = Folded(u, id).merged
  <2>1. id \in Urls /\ host[u] = host[id]
    BY <1>4, <1>8
  <2>2. /\ Enriched(Folded(u, id), u, outcome[u]) \in Repository
        /\ LeadsTo(host, id, Enriched(Folded(u, id), u, outcome[u]))
        /\ Enriched(Folded(u, id), u, outcome[u]).pubs = Folded(u, id).pubs
        /\ Enriched(Folded(u, id), u, outcome[u]).merged = Folded(u, id).merged
    BY <1>9, <2>1, EnrichedSays
  <2> QED BY <1>9, <2>2
<1> HIDE DEF Row
<1>11. ASSUME NEW id \in Urls
       PROVE  \/ table[id] = Absent
              \/ table[id] \in Repository /\ LeadsTo(host, id, table[id]) /\ table[id].pubs \subseteq papers
  <2>1. CASE Kept(id)
    BY <1>3, <1>7, <2>1, RowThere DEF OneHost
  <2>2. ASSUME NEW u \in Urls, id \in unlinked[u]
        PROVE  \/ table[id] = Absent
               \/ table[id] \in Repository /\ LeadsTo(host, id, table[id]) /\ table[id].pubs \subseteq papers
    BY <1>6, <1>10, <2>2
  <2> QED BY <2>1, <2>2
<1>12. table \in RepositoryRowsSet
  <2>1. table = [id \in Urls |-> table[id]]
    BY <1>1 DEF after
  <2> HIDE DEF Kept
  <2> QED BY <1>11, <2>1 DEF RepositoryRowsSet
<1>13. RowsOf(table, papers)
  BY <1>11, <1>12, RowThere DEF RowsOf, OneHost
<1>14. ASSUME NEW k \in Known(once) PROVE k \in Known(table)
  <2>1. k \in Urls
    BY <1>3, RowThere DEF Known
  <2>2. PICK x \in Present(once) : x = k \/ k \in once[x].merged
    BY DEF Known, StandsFor
  <2>3. x \in Urls /\ once[x] # Absent
    BY <1>3, RowThere
  <2>4. CASE Kept(x)
    <3>1. x \in Present(table) /\ table[x] = once[x]
      BY <1>7, <1>12, <2>3, <2>4, RowThere
    <3> QED BY <1>12, <2>1, <2>2, <3>1, RowThere DEF Known, StandsFor
  <2>5. ASSUME NEW u \in Urls, x \in unlinked[u] PROVE k \in Known(table)
    <3> DEFINE w == winner[u]
    <3>1. w \in unlinked[u] /\ w \in Urls
      BY <1>2, <1>4, <2>5
    <3>2. table[w] = Row(u, w) /\ Row(u, w) \in Repository /\ Row(u, w).merged = Folded(u, w).merged
      BY <1>6, <1>10, <3>1
    <3>3. w \in Present(table) /\ table[w].merged = Folded(u, w).merged
      BY <1>12, <3>1, <3>2, RowThere, RepositoriesAssumption
    <3>4. (x = w \/ x \in table[w].merged) /\ once[x].merged \subseteq table[w].merged
      BY <1>9, <2>5, <3>1, <3>3
    <3> HIDE DEF w
    <3>5. k = w \/ k \in table[w].merged
      BY <2>2, <3>4
    <3> QED BY <1>12, <2>1, <3>3, <3>5, RowThere DEF Known, StandsFor
  <2> QED BY <2>4, <2>5
<1> QED BY <1>13, <1>14

\* rows that take one name are rows of one repository
LEMMA RekeyedSays ==
    ASSUME GitHubTypeOK, NEW papers, NEW table, RowsOf(table, papers), NEW stored,
           NEW result \in Rekeyed(table, stored)
    PROVE  RowsOf(result, papers) /\ Known(table) \subseteq Known(result)
<1> DEFINE same == [u \in Urls |-> {id \in Present(table) : CanonicalId(table[id], id) = u}]
           first(u) == IF same[u] \cap stored # {} THEN same[u] \cap stored ELSE same[u]
           Folded(u, w) == FoldAll(table[w], same[u] \ {w}, table)
           kept(u, w) == [Folded(u, w) EXCEPT !.merged = (@ \cup {w}) \ {u}]
           offers == [u \in Urls |-> IF same[u] = {} THEN {Absent} ELSE {kept(u, w) : w \in first(u)}]
<1>1. result \in Picks(offers)
  <2>1. \A u \in Urls : same[u] = {id \in Present(table) : CanonicalId(table[id], id) = u}
    OBVIOUS
  <2> QED BY DEF Rekeyed
<1>2. /\ table \in RepositoryRowsSet /\ OneHost(host, table)
      /\ \A id \in Present(table) : table[id].pubs \subseteq papers
  BY DEF RowsOf
<1>3. /\ DOMAIN result = Urls /\ result = [u \in Urls |-> result[u]]
      /\ \A u \in Urls : result[u] \in offers[u]
  <2>1. DOMAIN offers = Urls
    OBVIOUS
  <2> HIDE DEF offers
  <2> QED BY <1>1, <2>1 DEF Picks
<1>4. ASSUME NEW u \in Urls, same[u] = {} PROVE result[u] = Absent
  BY <1>3, <1>4
<1>5. ASSUME NEW u \in Urls, same[u] # {}
      PROVE  \E w \in same[u] : result[u] = kept(u, w)
  <2>1. first(u) \subseteq same[u]
    OBVIOUS
  <2> HIDE DEF same, first, kept
  <2>2. offers[u] = {kept(u, w) : w \in first(u)}
    BY <1>5
  <2> QED BY <1>3, <2>1, <2>2
<1>6. ASSUME NEW u \in Urls, NEW id \in same[u]
      PROVE  /\ id \in Present(table) /\ id \in Urls /\ table[id] \in Repository
             /\ host[id] = host[u] /\ (host[u] = Nobody => id = u)
  <2>1. id \in Present(table) /\ u \in {id, table[id].url}
    BY DEF CanonicalId
  <2>2. id \in Urls /\ table[id] \in Repository /\ LeadsTo(host, id, table[id]) /\ u \in NamesOf(id, table[id])
    BY <1>2, <2>1, RowThere DEF OneHost, NamesOf
  <2> QED BY <2>1, <2>2, LeadsSay
<1>7. ASSUME NEW id \in Present(table) PROVE \E u \in Urls : id \in same[u]
  <2>1. id \in Urls /\ table[id] \in Repository
    BY <1>2, RowThere
  <2>2. CanonicalId(table[id], id) \in Urls
    BY <2>1 DEF CanonicalId, Repository
  <2> QED BY <2>2
<1> HIDE DEF same, offers
<1>8. ASSUME NEW u \in Urls, NEW w \in same[u]
      PROVE  /\ Folded(u, w) \in Repository /\ LeadsTo(host, w, Folded(u, w))
             /\ Folded(u, w).pubs \subseteq papers
             /\ \A x \in same[u] : /\ x = w \/ x \in Folded(u, w).merged
                                   /\ table[x].merged \subseteq Folded(u, w).merged
  <2> DEFINE losers == same[u] \ {w}
  <2>1. /\ w \in Present(table) /\ losers \subseteq Present(table) /\ losers \subseteq Urls
        /\ IsFiniteSet(losers) /\ w \in Urls /\ table[w] \in Repository
        /\ \A x \in losers : table[x] \in Repository /\ table[x].pubs \subseteq papers
        /\ table[w].pubs \subseteq papers
    <3>1. w \in Present(table) /\ losers \subseteq Present(table)
      BY <1>6
    <3>2. losers \subseteq Urls
      BY <1>6
    <3>3. IsFiniteSet(losers)
      BY <3>2, RowsAssumption, FS_Subset
    <3> HIDE DEF losers
    <3> QED BY <1>2, <1>6, <3>1, <3>2, <3>3, RowThere
  <2>2. \A x \in losers : host[x] = host[w]
    BY <1>6
  <2>3. host[w] = Nobody => losers = {}
    BY <1>6
  <2> HIDE DEF losers
  <2>4. LeadsTo(host, w, FoldAll(table[w], losers, table))
    BY <1>2, <2>1, <2>2, <2>3, FoldAllLeads
  <2> DEFINE row == FoldAll(table[w], losers, table)
  <2>5. /\ row \in Repository
        /\ row.pubs = table[w].pubs \cup UNION {table[x].pubs : x \in losers}
        /\ row.merged = table[w].merged \cup losers \cup UNION {table[x].merged : x \in losers}
    BY <2>1, FoldAllSays
  <2>6. row = Folded(u, w)
    BY DEF losers
  <2> HIDE DEF row, Folded
  <2>7. row.pubs \subseteq papers
    BY <2>1, <2>5
  <2>8. \A x \in same[u] : x = w \/ x \in losers
    BY DEF losers
  <2>9. \A x \in same[u] : /\ x = w \/ x \in row.merged
                           /\ table[x].merged \subseteq row.merged
    BY <2>5, <2>8
  <2> QED BY <2>4, <2>5, <2>6, <2>7, <2>9 DEF row
<1> HIDE DEF Folded
<1>9. ASSUME NEW u \in Urls, NEW w \in same[u]
      PROVE  /\ kept(u, w) \in Repository /\ LeadsTo(host, u, kept(u, w))
             /\ kept(u, w).pubs \subseteq papers
             /\ kept(u, w).merged = (Folded(u, w).merged \cup {w}) \ {u}
  <2> DEFINE row == Folded(u, w)
             then == kept(u, w)
  <2>1. /\ row \in Repository /\ row.pubs \subseteq papers /\ w \in Urls
        /\ host[w] = host[u] /\ (host[u] = Nobody => w = u)
        /\ \A v \in NamesOf(w, row) : host[v] = host[w]
        /\ row.github \in {host[w], Nobody}
        /\ host[w] = Nobody => NamesOf(w, row) = {w}
    BY <1>6, <1>8, LeadsSay
  <2>2. then = [row EXCEPT !.merged = (row.merged \cup {w}) \ {u}]
    OBVIOUS
  <2> HIDE DEF row, kept, then
  <2>3. /\ then \in Repository /\ then.pubs = row.pubs /\ then.url = row.url
        /\ then.github = row.github /\ then.cited = row.cited
        /\ then.merged = (row.merged \cup {w}) \ {u}
    <3>1. (row.merged \cup {w}) \ {u} \in SUBSET Urls
      BY <2>1 DEF Repository
    <3> QED BY <2>1, <2>2, <3>1 DEF Repository
  <2>4. \A v \in NamesOf(u, then) : v = u \/ v \in NamesOf(w, row)
    BY <2>3 DEF NamesOf
  <2>5. u \in NamesOf(u, then)
    BY DEF NamesOf
  <2>6. /\ \A v \in NamesOf(u, then) : host[v] = host[u]
        /\ then.github \in {host[u], Nobody}
        /\ host[u] = Nobody => NamesOf(u, then) = {u}
    BY <2>1, <2>3, <2>4, <2>5
  <2>7. LeadsTo(host, u, then)
    BY <2>3, <2>6, LeadsSay
  <2> QED BY <2>1, <2>3, <2>7 DEF then, row
<1> HIDE DEF kept
<1>10. ASSUME NEW u \in Urls
       PROVE  \/ result[u] = Absent
              \/ result[u] \in Repository /\ LeadsTo(host, u, result[u]) /\ result[u].pubs \subseteq papers
  BY <1>4, <1>5, <1>9
<1>11. result \in RepositoryRowsSet
  BY <1>3, <1>10 DEF RepositoryRowsSet
<1>12. RowsOf(result, papers)
  BY <1>10, <1>11, RowThere DEF RowsOf, OneHost
<1>13. ASSUME NEW k \in Known(table) PROVE k \in Known(result)
  <2>1. k \in Urls
    BY <1>2, RowThere DEF Known
  <2>2. PICK x \in Present(table) : x = k \/ k \in table[x].merged
    BY DEF Known, StandsFor
  <2>3. PICK u \in Urls : x \in same[u]
    BY <1>7
  <2>4. PICK w \in same[u] : result[u] = kept(u, w)
    BY <1>5, <2>3
  <2>5. /\ u \in Present(result) /\ result[u].merged = (Folded(u, w).merged \cup {w}) \ {u}
    BY <1>9, <1>11, <2>4, RowThere, RepositoriesAssumption
  <2>6. (x = w \/ x \in Folded(u, w).merged) /\ table[x].merged \subseteq Folded(u, w).merged
    BY <1>8, <2>3
  <2>7. k = u \/ k \in result[u].merged
    BY <2>2, <2>5, <2>6
  <2> QED BY <1>11, <2>1, <2>5, <2>7, RowThere DEF Known, StandsFor
<1> QED BY <1>12, <1>13

\* what a run that rewrites the repositories alone leaves
LEMMA RepositoriesAlone ==
    ASSUME HarvestInv, job.stage = "idle", NEW result, RowsOf(result, Known(rows.publications)),
           Known(rows.repositories) \subseteq Known(result), NEW texts
    PROVE  Leaves(<<Write("repositories", result)>>, texts)
<1> DEFINE writes == <<Write("repositories", result)>>
<1>1. /\ Len(writes) = 1 /\ writes \in Seq(Writes)
      /\ writes[1].collection = "repositories" /\ writes[1].table = result
      /\ \A i \in 1 .. Len(writes) : i = 1
  <2>1. Write("repositories", result) \in Writes
    BY WriteMade DEF RowsOf
  <2> QED BY <2>1 DEF Write
<1>2. /\ rows["publications"] = rows.publications /\ rows["persons"] = rows.persons
      /\ rows["repo_links"] = rows.repo_links /\ rows["repositories"] = rows.repositories
  BY TablesType
<1>3. OneHost(host, rows.repositories) /\ OneHost(host, result)
  BY DEF HarvestInv, GitHubInv, OneHosts, RowsOf
<1> HIDE DEF writes
<1>4. ASSUME NEW c, c # "repositories", NEW table, Becomes(rows, writes, c, table) PROVE table = rows[c]
  BY <1>1, <1>4 DEF Becomes
<1>5. ~job.torn => WillBeWhole(rows, writes) /\ ListedThroughout(rows, writes)
  <2> SUFFICES ASSUME ~job.torn PROVE WillBeWhole(rows, writes) /\ ListedThroughout(rows, writes)
    OBVIOUS
  <2>1. /\ Listed(rows.publications) /\ AllAuthored(rows.publications, rows.persons)
        /\ AllJudged(rows.publications, rows.repo_links)
    BY DEF HarvestInv, JobInv, WholeInv, ListedThroughout
  <2>2. ListedThroughout(rows, writes)
    BY <1>1, <2>1 DEF ListedThroughout
  <2>3. WillBeWhole(rows, writes)
    BY <1>2, <1>4, <2>1 DEF WillBeWhole
  <2> QED BY <2>2, <2>3
<1>6. KeepsEvidence(rows, writes, texts)
  BY <1>1 DEF KeepsEvidence
<1>7. ASSUME NEW kind \in Kinds PROVE Resolves(rows, writes, kind)
  <2>1. \A c \in Collections : Refers(kind, c, rows[c]) \subseteq Known(rows[kind])
    BY DEF HarvestInv, Resolves
  <2>2. Refers(kind, writes[1].collection, writes[1].table) \subseteq Known(rows[kind])
    <3>1. CASE kind = "publications"
      <4>1. Refers(kind, writes[1].collection, writes[1].table) = UNION {result[u].pubs : u \in Present(result)}
        BY <1>1, <3>1 DEF Refers
      <4> QED BY <1>2, <3>1, <4>1 DEF RowsOf
    <3>2. CASE kind = "repositories"
      <4>1. Refers(kind, writes[1].collection, writes[1].table) = {}
        BY <1>1, <3>2 DEF Refers
      <4> QED BY <4>1
    <3> QED BY <3>1, <3>2 DEF Kinds
  <2>3. writes[1].collection = kind => Known(rows[kind]) \subseteq Known(writes[1].table)
    BY <1>1, <1>2
  <2> QED BY <1>1, <2>1, <2>2, <2>3 DEF Resolves
<1>8. OneHosts(rows, writes, host)
  BY <1>1, <1>3 DEF OneHosts
<1>9. Leaves(writes, texts)
  BY <1>1, <1>5, <1>6, <1>7, <1>8 DEF Leaves
<1> QED BY <1>9 DEF writes

LEMMA FetchStep ==
    ASSUME HarvestInv, NEW force \in BOOLEAN, NEW selection \in Selections,
           FetchRepositories(force, selection), UNCHANGED <<github, raw>>
    PROVE  HarvestInv'
<1> DEFINE repos == rows.repositories
           papers == Known(rows.publications)
           needs(id) == repos[id] # Absent /\ NeedsAttempt(force, repos[id].state)
           unlinked == [u \in Urls |-> {id \in Present(repos) : needs(id) /\ repos[id].url = u}]
           cited == Cited(selection)
           linked == Linked(cited)
           wanted == {u \in {c[2] : c \in cited} : repos[u] = Absent \/ needs(u)}
           others(u) == {v \in wanted \ {u} : linked[v].url = u}
           fetched(skipped) == wanted \ skipped
           attempted(skipped) == fetched(skipped) \cup {linked[u].url : u \in fetched(skipped)}
           again(skipped) == {u \in Urls : unlinked[u] # {} /\ u \notin attempted(skipped)}
           once(skipped, outcome) ==
              [u \in Urls |-> IF u \in fetched(skipped) THEN Enriched(linked[u], u, outcome[u]) ELSE linked[u]]
<1>1. /\ MayStart("repositories") /\ UNCHANGED <<rows, files, host, home>>
      /\ \E skipped \in SUBSET {u \in wanted : others(u) # {}} :
         \E outcome \in [fetched(skipped) \cup again(skipped) -> Outcomes] :
         \E table \in SecondPass(once(skipped, outcome), unlinked, again(skipped), outcome) :
         \E result \in Rekeyed(table, Present(repos)) :
            Started("repositories", selection, <<Write("repositories", result)>>)
  BY DEF FetchRepositories
<1>2. PICK skipped, outcome, table, result :
        /\ table \in SecondPass(once(skipped, outcome), unlinked, again(skipped), outcome)
        /\ result \in Rekeyed(table, Present(repos))
        /\ Started("repositories", selection, <<Write("repositories", result)>>)
  <2> HIDE DEF unlinked, again, once, repos, wanted, others, fetched
  <2> DEFINE skips == SUBSET {u \in wanted : others(u) # {}}
             outcomes(skipped) == [fetched(skipped) \cup again(skipped) -> Outcomes]
  <2>1. \E skipped \in skips : \E outcome \in outcomes(skipped) :
           \E table \in SecondPass(once(skipped, outcome), unlinked, again(skipped), outcome) :
           \E result \in Rekeyed(table, Present(repos)) :
              Started("repositories", selection, <<Write("repositories", result)>>)
    BY <1>1
  <2> HIDE DEF skips, outcomes
  <2> QED BY <2>1
<1>3. /\ RowsOf(linked, papers)
      /\ \A id \in Present(repos) : id \in Present(linked) /\ linked[id].merged = repos[id].merged
      /\ \A c \in cited : c[2] \in Present(linked)
  BY LinkedSays
<1>4. /\ repos \in RepositoryRowsSet /\ OneHost(host, repos) /\ GitHubTypeOK
      /\ \A r \in Repos : host[home[r]] = r
  BY TablesType DEF HarvestInv, TablesInv, GitHubInv, OneHosts
<1> DEFINE first == once(skipped, outcome)
<1>5. \A u \in fetched(skipped) : u \in Present(linked)
  BY <1>3
<1>6. /\ DOMAIN first = Urls
      /\ \A u \in Urls : first[u] = IF u \in fetched(skipped) THEN Enriched(linked[u], u, outcome[u]) ELSE linked[u]
      /\ first = [u \in Urls |-> first[u]]
  OBVIOUS
<1> HIDE DEF first, linked, papers, fetched
<1>7. ASSUME NEW u \in Present(linked)
      PROVE  /\ u \in Urls /\ first[u] \in Repository /\ LeadsTo(host, u, first[u])
             /\ first[u].pubs \subseteq papers /\ first[u].merged = linked[u].merged
  <2>1. u \in Urls /\ linked[u] \in Repository /\ LeadsTo(host, u, linked[u]) /\ linked[u].pubs \subseteq papers
    BY <1>3, RowThere DEF RowsOf, OneHost
  <2>2. /\ Enriched(linked[u], u, outcome[u]) \in Repository
        /\ LeadsTo(host, u, Enriched(linked[u], u, outcome[u]))
        /\ Enriched(linked[u], u, outcome[u]).pubs = linked[u].pubs
        /\ Enriched(linked[u], u, outcome[u]).merged = linked[u].merged
    BY <1>4, <2>1, EnrichedSays
  <2> QED BY <1>6, <2>1, <2>2
<1>8. \A u \in Urls : u \notin Present(linked) => first[u] = Absent
  BY <1>3, <1>5, <1>6, RowThere DEF RowsOf
<1>9. first \in RepositoryRowsSet
  BY <1>6, <1>7, <1>8 DEF RepositoryRowsSet
<1>10. RowsOf(first, papers)
  BY <1>7, <1>8, <1>9, RowThere DEF RowsOf, OneHost
<1>11. \A id \in Present(repos) : id \in Present(first) /\ first[id].merged = repos[id].merged
  BY <1>3, <1>7, <1>9, RowThere, RepositoriesAssumption
<1>12. Known(repos) \subseteq Known(first)
  <2>1. DOMAIN repos = DOMAIN first
    BY <1>4, <1>6, RowThere
  <2> HIDE DEF repos
  <2> QED BY <1>11, <2>1, KnownGrows
<1>13. /\ unlinked \in [Urls -> SUBSET Present(repos)]
       /\ \A u \in Urls : \A id \in unlinked[u] : repos[id].url = u /\ id \in Present(first)
  BY <1>11
<1>14. table \in SecondPass(first, unlinked, again(skipped), outcome)
  BY <1>2 DEF first
<1> HIDE DEF unlinked, again, repos
<1>15. RowsOf(table, papers) /\ Known(first) \subseteq Known(table)
  BY <1>4, <1>10, <1>13, <1>14, SecondPassSays
<1>16. RowsOf(result, papers) /\ Known(table) \subseteq Known(result)
  BY <1>2, <1>4, <1>15, RekeyedSays
<1>17. Known(repos) \subseteq Known(result)
  BY <1>12, <1>15, <1>16
<1>18. Leaves(<<Write("repositories", result)>>, files')
  <2>1. job.stage = "idle"
    BY <1>1 DEF MayStart
  <2> QED BY <1>16, <1>17, <2>1, RepositoriesAlone DEF repos, papers
<1>19. files' \in [Pubs -> Docs \cup {NoDoc}] /\ "repositories" \in Stages \ {"idle"}
  BY <1>1, TablesType DEF MayStart
<1> QED BY <1>1, <1>2, <1>18, <1>19, StartStep

-----------------------------------------------------------------------------
(* Papers recorded twice: who stands for whom.                             *)

\* only papers that are there are paired
LEMMA PairsSay ==
    ASSUME HarvestInv, NEW selection, NEW pairs \in PairsByKey(selection)
    PROVE  UNION pairs \subseteq Present(rows.publications) /\ UNION pairs \subseteq Pubs
           /\ IsFiniteSet(UNION pairs)
<1> DEFINE there == Present(rows.publications)
           bucket(k) == {p \in there : k \in KeysOf[p]}
           keys == UNION {KeysOf[p] : p \in there}
           paired(k, first) == {{first, q} : q \in {q \in bucket(k) \ {first} :
                                   Selected(selection, first) \/ Selected(selection, q)}}
           offers == [k \in keys |-> bucket(k)]
<1>1. PICK first \in Picks(offers) : pairs = UNION {paired(k, first[k]) : k \in keys}
  BY DEF PairsByKey
<1>2. \A k \in keys : first[k] \in bucket(k)
  BY DEF Picks
<1>3. ASSUME NEW pair \in pairs PROVE pair \subseteq there
  <2>1. PICK k \in keys : pair \in paired(k, first[k])
    <3> HIDE DEF keys, paired
    <3> QED BY <1>1
  <2>2. PICK q \in bucket(k) : pair = {first[k], q}
    BY <2>1
  <2> QED BY <1>2, <2>1, <2>2
<1>4. UNION pairs \subseteq there
  BY <1>3
<1> QED BY <1>4, TablesType, HarvestAssumption, FS_Subset

\* the least of a component stands for all of it
LEMMA IdMapSays ==
    ASSUME NEW pairs, UNION pairs \subseteq Pubs, IsFiniteSet(UNION pairs)
    PROVE  /\ IdMap(pairs) \in [Pubs -> Pubs]
           /\ \A p \in Pubs : IdMap(pairs)[IdMap(pairs)[p]] = IdMap(pairs)[p]
           /\ \A p \in Pubs : IdMap(pairs)[p] # p => p \in UNION pairs /\ IdMap(pairs)[p] \in UNION pairs
<1> DEFINE nodes == UNION pairs
           C(p) == Component(p, nodes, pairs)
           map == IdMap(pairs)
<1>1. Grouped(pairs) = {C(p) : p \in nodes}
  BY DEF Grouped, Components
<1>2. map = [p \in Pubs |-> IF p \in nodes THEN Min(CHOOSE g \in Grouped(pairs) : p \in g) ELSE p]
  BY DEF IdMap
<1>3. /\ \A p \in nodes : p \in C(p) /\ C(p) \subseteq nodes
      /\ \A p \in nodes : \A q \in C(p) : C(q) = C(p)
  <2> HIDE DEF nodes
  <2> QED BY ComponentsPart DEF nodes
<1> HIDE DEF C, nodes, map
<1>4. ASSUME NEW p \in nodes PROVE (CHOOSE g \in Grouped(pairs) : p \in g) = C(p)
  <2>1. \A g \in Grouped(pairs) : p \in g => g = C(p)
    BY <1>1, <1>3
  <2>2. C(p) \in Grouped(pairs) /\ p \in C(p)
    BY <1>1, <1>3
  <2> QED BY <2>1, <2>2
<1>5. ASSUME NEW p \in nodes PROVE p \in Pubs /\ map[p] = Min(C(p)) /\ map[p] \in C(p) /\ map[p] \in nodes
  <2>1. p \in Pubs /\ C(p) \subseteq Nat /\ C(p) # {}
    BY <1>3, HarvestAssumption DEF nodes
  <2>2. Min(C(p)) \in C(p)
    BY <2>1, MinBelongs
  <2> QED BY <1>2, <1>3, <1>4, <2>1, <2>2
<1>6. \A p \in Pubs : p \notin nodes => map[p] = p
  BY <1>2
<1>7. ASSUME NEW p \in nodes PROVE map[map[p]] = map[p]
  <2>1. map[p] \in nodes /\ C(map[p]) = C(p)
    BY <1>3, <1>5
  <2> QED BY <1>5, <2>1
<1>8. \A p \in Pubs : map[p] \in Pubs
  BY <1>5, <1>6
<1>9. map \in [Pubs -> Pubs]
  BY <1>2, <1>8
<1> QED BY <1>5, <1>6, <1>7, <1>9 DEF map, nodes

\* the survivor's ledger once every twin is folded into it
LEMMA MergedSays ==
    ASSUME NEW twins \in SUBSET Pubs, NEW base \in Publication, NEW table,
           \A q \in twins : table[q] \in Publication
    PROVE  LET row == MergeAll(base, twins, table)
               authored == rows.persons.authored
           IN /\ row \in Publication
              /\ \A x : x \in row.merged <=>
                    x \in base.merged \/ x \in twins \/ \E q \in twins : x \in table[q].merged
              /\ \A x : x \in row.versions <=>
                    x \in base.versions \/ x \in twins \/ \E q \in twins : x \in table[q].versions
              /\ \A x : x \in row.listed <=>
                    x \in base.listed \/ x \in twins \cap authored \/ \E q \in twins : x \in table[q].listed
<1> DEFINE authored == rows.persons.authored
           op == [x \in twins \X Publication |-> MergePublication(x[2], table[x[1]], x[1])]
           MergedOf(s) == UNION {table[q].merged : q \in s}
           VersionsOf(s) == UNION {table[q].versions : q \in s}
           ListedOf(s) == UNION {table[q].listed : q \in s}
           Sum(s, row) ==
              /\ row.merged = base.merged \cup s \cup MergedOf(s)
              /\ row.versions = base.versions \cup s \cup VersionsOf(s)
              /\ row.listed = base.listed \cup (s \cap authored) \cup ListedOf(s)
           Good == {x \in (SUBSET twins) \X Publication : Sum(x[1], x[2])}
           Right(iter) == iter = [s \in SUBSET twins |->
              IF s = {} THEN base ELSE MergePublication(iter[s \ {Picked(s)}], table[Picked(s)], Picked(s))]
           folded == CHOOSE iter : Right(iter)
<1>1. MergeAll(base, twins, table) = folded[twins]
  BY DEF MergeAll, FoldSet, MapThenFoldSet, Picked
<1>2. ASSUME NEW id \in twins, NEW row \in Publication
      PROVE  LET then == MergePublication(row, table[id], id)
             IN /\ then \in Publication
                /\ then.merged = row.merged \cup table[id].merged \cup {id}
                /\ then.versions = row.versions \cup {id} \cup table[id].versions
                /\ then.listed = row.listed \cup ({id} \cap authored) \cup table[id].listed
  <2> DEFINE extra == table[id]
  <2>1. extra \in Publication /\ id \in Pubs /\ {id} \cap authored \in SUBSET Pubs
    OBVIOUS
  <2> HIDE DEF extra, authored
  <2> DEFINE in == Entered(row, id)
  <2>2. in = [row EXCEPT !.versions = row.versions \cup {id}, !.listed = row.listed \cup ({id} \cap authored)]
    BY DEF Entered, authored
  <2>3. /\ in \in Publication /\ in.versions = row.versions \cup {id}
        /\ in.listed = row.listed \cup ({id} \cap authored) /\ in.merged = row.merged
    <3> HIDE DEF in
    <3> QED BY <1>2, <2>1, <2>2 DEF Publication
  <2> HIDE DEF in
  <2> DEFINE then == MergePublication(row, extra, id)
  <2>4. then = [in EXCEPT !.code = in.code \cup extra.code, !.sources = in.sources \cup extra.sources,
                 !.merged = in.merged \cup extra.merged \cup {id},
                 !.versions = in.versions \cup extra.versions, !.listed = in.listed \cup extra.listed,
                 !.found = IF in.found = "none" THEN extra.found ELSE in.found,
                 !.judged = IF in.judged = "none" THEN extra.judged ELSE in.judged]
    BY DEF MergePublication, in
  <2> HIDE DEF then
  <2>5. /\ in.code \cup extra.code \in SUBSET Urls /\ in.sources \cup extra.sources \in SUBSET Docs
        /\ in.merged \cup extra.merged \cup {id} \in SUBSET Pubs
        /\ in.versions \cup extra.versions \in SUBSET Pubs /\ in.listed \cup extra.listed \in SUBSET Pubs
        /\ (IF in.found = "none" THEN extra.found ELSE in.found) \in States
        /\ (IF in.judged = "none" THEN extra.judged ELSE in.judged) \in States
    BY <2>1, <2>3 DEF Publication
  <2>6. /\ then \in Publication
        /\ then.merged = in.merged \cup extra.merged \cup {id}
        /\ then.versions = in.versions \cup extra.versions
        /\ then.listed = in.listed \cup extra.listed
    BY ZenonT(60), <2>3, <2>4, <2>5 DEF Publication
  <2> QED BY <2>3, <2>6 DEF then, extra
<1>3. op \in [twins \X Publication -> Publication]
  BY <1>2
<1>4. \A id \in twins, row \in Publication : op[<<id, row>>] = MergePublication(row, table[id], id)
  OBVIOUS
<1> HIDE DEF op
<1>0. IsFiniteSet(twins)
  BY HarvestAssumption, FS_Subset
<1>5. \E f : Right(f)
  <2>1. PICK f \in [SUBSET twins -> Publication] : FoldsBy(f, twins, op, base)
    BY <1>0, <1>3, FoldExists
  <2>2. ASSUME NEW s \in SUBSET twins, s # {}
        PROVE  op[<<Picked(s), f[s \ {Picked(s)}]>>]
               = MergePublication(f[s \ {Picked(s)}], table[Picked(s)], Picked(s))
    <3>1. Picked(s) \in twins /\ f[s \ {Picked(s)}] \in Publication
      BY <2>1, <2>2 DEF Picked
    <3> QED BY <1>4, <3>1
  <2>3. Right(f)
    BY <2>1, <2>2 DEF FoldsBy
  <2> QED BY <2>3
<1>6. Right(folded)
  <2> HIDE DEF Right
  <2> QED BY <1>5
<1>7. folded[{}] = base
  BY <1>6
<1>8. \A s \in SUBSET twins : s # {} /\ folded[s \ {Picked(s)}] \in Publication =>
          folded[s] = op[<<Picked(s), folded[s \ {Picked(s)}]>>]
  <2> SUFFICES ASSUME NEW s \in SUBSET twins, s # {}, folded[s \ {Picked(s)}] \in Publication
               PROVE  folded[s] = op[<<Picked(s), folded[s \ {Picked(s)}]>>]
    OBVIOUS
  <2>1. folded[s] = MergePublication(folded[s \ {Picked(s)}], table[Picked(s)], Picked(s))
    BY <1>6
  <2>2. Picked(s) \in twins
    BY DEF Picked
  <2> QED BY <1>4, <2>1, <2>2
<1>9. <<{}, base>> \in Good
  OBVIOUS
<1>10. \A s \in SUBSET twins : \A id \in twins \ s : \A row \in Publication : <<s, row>> \in Good =>
           op[<<id, row>>] \in Publication /\ <<s \cup {id}, op[<<id, row>>]>> \in Good
  <2> SUFFICES ASSUME NEW s \in SUBSET twins, NEW id \in twins \ s, NEW row \in Publication, <<s, row>> \in Good
               PROVE  op[<<id, row>>] \in Publication /\ <<s \cup {id}, op[<<id, row>>]>> \in Good
    OBVIOUS
  <2>1. Sum(s, row)
    OBVIOUS
  <2>2. /\ MergedOf(s \cup {id}) = MergedOf(s) \cup table[id].merged
        /\ VersionsOf(s \cup {id}) = VersionsOf(s) \cup table[id].versions
        /\ ListedOf(s \cup {id}) = ListedOf(s) \cup table[id].listed
    OBVIOUS
  <2> HIDE DEF MergedOf, VersionsOf, ListedOf
  <2> DEFINE then == MergePublication(row, table[id], id)
  <2>3. /\ then \in Publication /\ op[<<id, row>>] = then
        /\ then.merged = row.merged \cup table[id].merged \cup {id}
        /\ then.versions = row.versions \cup {id} \cup table[id].versions
        /\ then.listed = row.listed \cup ({id} \cap authored) \cup table[id].listed
    BY <1>2, <1>4
  <2> HIDE DEF then, authored
  <2>4. /\ row.merged = base.merged \cup s \cup MergedOf(s)
        /\ row.versions = base.versions \cup s \cup VersionsOf(s)
        /\ row.listed = base.listed \cup (s \cap authored) \cup ListedOf(s)
    BY <2>1
  <2>5. then.merged = base.merged \cup (s \cup {id}) \cup MergedOf(s \cup {id})
    BY <2>2, <2>3, <2>4
  <2>6. then.versions = base.versions \cup (s \cup {id}) \cup VersionsOf(s \cup {id})
    BY <2>2, <2>3, <2>4
  <2>7. then.listed = base.listed \cup ((s \cup {id}) \cap authored) \cup ListedOf(s \cup {id})
    BY <2>2, <2>3, <2>4
  <2>8. Sum(s \cup {id}, then)
    BY <2>5, <2>6, <2>7
  <2>9. s \cup {id} \in SUBSET twins
    OBVIOUS
  <2> HIDE DEF Sum
  <2>10. <<s \cup {id}, then>> \in Good
    BY <2>3, <2>8, <2>9
  <2> QED BY <2>3, <2>10
<1>11. folded[twins] \in Publication /\ <<twins, folded[twins]>> \in Good
  <2> HIDE DEF folded, Good
  <2> QED BY <1>0, <1>7, <1>8, <1>9, <1>10, FoldReaches
<1>12. Sum(twins, folded[twins])
  BY <1>11
<1> DEFINE row == MergeAll(base, twins, table)
<1>13. /\ row \in Publication /\ row.merged = base.merged \cup twins \cup MergedOf(twins)
       /\ row.versions = base.versions \cup twins \cup VersionsOf(twins)
       /\ row.listed = base.listed \cup (twins \cap authored) \cup ListedOf(twins)
  BY <1>1, <1>11, <1>12
<1> HIDE DEF row
<1>14. \A x : /\ x \in row.merged <=> x \in base.merged \/ x \in twins \/ \E q \in twins : x \in table[q].merged
              /\ x \in row.versions <=> x \in base.versions \/ x \in twins \/ \E q \in twins : x \in table[q].versions
              /\ x \in row.listed <=>
                    x \in base.listed \/ x \in twins \cap authored \/ \E q \in twins : x \in table[q].listed
  BY <1>13
<1> QED BY <1>13, <1>14 DEF row

\* each paper has one that stands for it, another of those that are there
StandIns(map) ==
    /\ map \in [Pubs -> Pubs]
    /\ \A p \in Pubs : map[map[p]] = map[p]
    /\ \A p \in Pubs : map[p] # p => p \in Present(rows.publications) /\ map[p] \in Present(rows.publications)

LEMMA RefreshedSays ==
    ASSUME HarvestInv
    PROVE  /\ DOMAIN Refreshed = Pubs
           /\ \A p \in Pubs : Refreshed[p] = Absent <=> rows.publications[p] = Absent
           /\ \A p \in Present(rows.publications) :
                 LET row == Refreshed[p]
                     was == rows.publications[p]
                 IN /\ row \in Publication /\ row.merged = was.merged /\ row.versions = was.versions
                    /\ row.judged = was.judged
                    /\ was.listed = was.versions => row.listed = row.versions
<1> DEFINE was == rows.publications
           known == rows.persons.authored # {}
<1>1. /\ was \in PublicationTables /\ raw \subseteq Pubs
      /\ \A p \in Pubs : was[p] # Absent => was[p] \in Publication
      /\ \A p \in Present(was) : p \in Pubs /\ was[p] # Absent /\ was[p] \in Publication
  BY TablesType, PaperThere
<1>2. ASSUME NEW row \in Publication, NEW more \in SUBSET row.versions
      PROVE  LET then == [row EXCEPT !.listed = @ \cup more]
             IN /\ then \in Publication /\ then.merged = row.merged /\ then.versions = row.versions
                /\ then.judged = row.judged /\ then.listed = row.listed \cup more
  <2>1. row.listed \cup more \in SUBSET Pubs
    BY <1>2 DEF Publication
  <2> QED BY <1>2, <2>1 DEF Publication
<1>3. /\ DOMAIN Refreshed = Pubs
      /\ \A p \in Pubs : Refreshed[p] =
            IF was[p] = Absent \/ ~known THEN was[p]
            ELSE [was[p] EXCEPT !.listed = @ \cup (was[p].versions \cap raw)]
  BY DEF Refreshed
<1> HIDE DEF was, known
<1>4. ASSUME NEW p \in Pubs, was[p] # Absent
      PROVE  /\ Refreshed[p] \in Publication /\ Refreshed[p] # Absent
             /\ Refreshed[p].merged = was[p].merged /\ Refreshed[p].versions = was[p].versions
             /\ Refreshed[p].judged = was[p].judged
             /\ was[p].listed = was[p].versions => Refreshed[p].listed = Refreshed[p].versions
  <2>1. CASE ~known
    BY <1>1, <1>3, <1>4, <2>1
  <2>2. CASE known
    <3> DEFINE row == was[p]
               more == row.versions \cap raw
               then == [row EXCEPT !.listed = @ \cup more]
    <3>1. row \in Publication /\ more \in SUBSET row.versions /\ Refreshed[p] = then
      BY <1>1, <1>3, <1>4, <2>2
    <3>2. /\ then \in Publication /\ then.merged = row.merged /\ then.versions = row.versions
          /\ then.judged = row.judged /\ then.listed = row.listed \cup more
      BY <1>2, <3>1
    <3> HIDE DEF then
    <3> QED BY <3>1, <3>2, RowsAssumption
  <2> QED BY <2>1, <2>2
<1>5. \A p \in Pubs : was[p] = Absent => Refreshed[p] = Absent
  BY <1>3
<1> QED BY <1>1, <1>3, <1>4, <1>5 DEF was

\* a fold leaves those who stand for themselves, with all they have swallowed
LEMMA FoldedPapersSay ==
    ASSUME HarvestInv, NEW map, StandIns(map)
    PROVE  LET papers == FoldedPublications(map)
               was == rows.publications
           IN /\ papers \in PublicationTables
              /\ \A p : p \in Present(papers) <=> p \in Present(was) /\ map[p] = p
              /\ Known(was) \subseteq Known(papers)
              /\ \A p \in Present(papers) :
                    (\A q \in Pubs : map[q] = p => q = p) => papers[p].judged = was[p].judged
              /\ Listed(was) /\ AllAuthored(was, rows.persons) => Listed(papers)
<1> DEFINE was == rows.publications
           table == Refreshed
           authored == rows.persons.authored
           twins == [p \in Pubs |-> {q \in Present(table) : map[q] = p} \ {p}]
           Row(p) == IF twins[p] = {} THEN table[p] ELSE MergeAll(Entered(table[p], p), twins[p], table)
           papers == FoldedPublications(map)
<1>1. /\ was \in PublicationTables /\ DOMAIN was = Pubs
      /\ \A p : p \in Present(was) <=> p \in Pubs /\ was[p] # Absent
      /\ \A p \in Present(was) : Swallows(was, p) /\ was[p] \in Publication
      /\ map \in [Pubs -> Pubs] /\ \A p \in Pubs : map[map[p]] = map[p]
      /\ \A p \in Pubs : map[p] # p => p \in Present(was) /\ map[p] \in Present(was)
  BY TablesType, PaperThere DEF StandIns
<1>2. /\ DOMAIN table = Pubs
      /\ \A p \in Pubs : table[p] = Absent <=> was[p] = Absent
      /\ \A p \in Present(was) :
            /\ table[p] \in Publication /\ table[p].merged = was[p].merged
            /\ table[p].versions = was[p].versions /\ table[p].judged = was[p].judged
            /\ was[p].listed = was[p].versions => table[p].listed = table[p].versions
  BY RefreshedSays
<1>3. papers = [p \in Pubs |-> IF table[p] = Absent \/ map[p] # p THEN Absent ELSE Row(p)]
  BY DEF FoldedPublications
<1>4. Present(table) = Present(was)
  BY <1>1, <1>2 DEF Present
<1> HIDE DEF was, table, papers, Row
<1>5. \A p \in Pubs : \A q : q \in twins[p] <=> q \in Present(was) /\ map[q] = p /\ q # p
  BY <1>4
<1> HIDE DEF twins
<1>6. ASSUME NEW p \in Present(was), map[p] = p
      PROVE  /\ Row(p) \in Publication
             /\ \A x : x \in Row(p).merged <=>
                   x \in twins[p] \/ x \in was[p].merged \/ \E q \in twins[p] : x \in was[q].merged
             /\ twins[p] = {} => Row(p).versions = was[p].versions /\ Row(p).judged = was[p].judged
             /\ twins[p] # {} => Row(p).versions = {p} \cup Row(p).merged
             /\ Listed(was) /\ AllAuthored(was, rows.persons) => Row(p).listed = Row(p).versions
  <2>1. CASE twins[p] = {}
    <3>1. Row(p) = table[p]
      BY <2>1 DEF Row
    <3> QED BY <1>2, <1>6, <2>1, <3>1 DEF Listed
  <2>2. CASE twins[p] # {}
    <3> DEFINE base == Entered(table[p], p)
               row == MergeAll(base, twins[p], table)
    <3>1. /\ p \in Pubs /\ twins[p] \in SUBSET Pubs /\ table[p] \in Publication
          /\ \A q \in twins[p] : table[q] \in Publication /\ q \in Present(was)
      BY <1>1, <1>2, <1>5, <1>6
    <3>2. base = [table[p] EXCEPT !.versions = table[p].versions \cup {p},
                                  !.listed = table[p].listed \cup ({p} \cap authored)]
      BY DEF Entered
    <3> HIDE DEF base, authored
    <3>3. /\ base \in Publication /\ base.merged = table[p].merged
          /\ base.versions = table[p].versions \cup {p}
          /\ base.listed = table[p].listed \cup ({p} \cap authored)
      <4>1. /\ table[p].versions \cup {p} \in SUBSET Pubs
            /\ table[p].listed \cup ({p} \cap authored) \in SUBSET Pubs
        BY <3>1 DEF Publication
      <4> QED BY <3>1, <3>2, <4>1 DEF Publication
    <3>4. /\ row \in Publication
          /\ \A x : x \in row.merged <=>
                x \in base.merged \/ x \in twins[p] \/ \E q \in twins[p] : x \in table[q].merged
          /\ \A x : x \in row.versions <=>
                x \in base.versions \/ x \in twins[p] \/ \E q \in twins[p] : x \in table[q].versions
          /\ \A x : x \in row.listed <=>
                x \in base.listed \/ x \in twins[p] \cap authored \/ \E q \in twins[p] : x \in table[q].listed
      BY <3>1, <3>3, MergedSays DEF authored
    <3>5. Row(p) = row
      BY <2>2 DEF Row, base
    <3> HIDE DEF row
    <3>6. ASSUME NEW x
          PROVE  /\ x \in row.merged <=>
                    x \in twins[p] \/ x \in was[p].merged \/ \E q \in twins[p] : x \in was[q].merged
                 /\ x \in row.versions <=>
                    x = p \/ x \in twins[p] \/ x \in was[p].versions \/ \E q \in twins[p] : x \in was[q].versions
      <4>1. /\ x \in row.merged <=>
               x \in twins[p] \/ x \in table[p].merged \/ \E q \in twins[p] : x \in table[q].merged
            /\ x \in row.versions <=>
               x = p \/ x \in twins[p] \/ x \in table[p].versions \/ \E q \in twins[p] : x \in table[q].versions
        BY <3>3, <3>4
      <4> QED BY <1>2, <1>6, <3>1, <4>1
    <3>7. row.versions = {p} \cup row.merged
      <4>0. \A q \in Present(was) : was[q].versions = IF was[q].merged = {} THEN {} ELSE {q} \cup was[q].merged
        BY <1>1 DEF Swallows
      <4>1. \A q \in Present(was) : /\ \A x \in was[q].versions : x = q \/ x \in was[q].merged
                                    /\ \A x \in was[q].merged : x \in was[q].versions
        BY <4>0
      <4>2. \A x : x \in row.versions <=> x = p \/ x \in row.merged
        BY <1>6, <3>1, <3>6, <4>1
      <4> QED BY <4>2
    <3>8. ASSUME Listed(was), AllAuthored(was, rows.persons) PROVE row.listed = row.versions
      <4>1. p \in authored /\ twins[p] \subseteq authored
        BY <1>6, <3>1, <3>8 DEF AllAuthored, authored
      <4>2. \A q \in {p} \cup twins[p] : table[q].listed = table[q].versions
        BY <1>2, <1>6, <3>1, <3>8 DEF Listed
      <4>3. base.listed = base.versions
        BY <3>3, <4>1, <4>2
      <4>4. \A x : x \in row.listed <=> x \in row.versions
        BY <3>4, <4>1, <4>2, <4>3
      <4> QED BY <4>4
    <3> QED BY <2>2, <3>4, <3>5, <3>6, <3>7, <3>8
  <2> QED BY <2>1, <2>2
<1>7. \A p : p \in Present(papers) <=> p \in Present(was) /\ map[p] = p
  <2>1. \A p \in Pubs : papers[p] # Absent <=> p \in Present(was) /\ map[p] = p
    BY <1>1, <1>2, <1>3, <1>6, RowsAssumption
  <2>2. DOMAIN papers = Pubs
    BY <1>3
  <2> QED BY <1>1, <2>1, <2>2 DEF Present
<1>8. \A p \in Present(papers) : p \in Pubs /\ papers[p] = Row(p)
  BY <1>1, <1>2, <1>3, <1>7
<1>9. papers \in PublicationRows
  BY <1>1, <1>2, <1>3, <1>6 DEF PublicationRows
<1>10. \A p \in Pubs : p \notin Present(papers) => papers[p] = Absent
  BY <1>9 DEF Present, PublicationRows
<1>11. ASSUME NEW p \in Present(papers) PROVE Swallows(papers, p)
  <2>1. p \in Present(was) /\ map[p] = p /\ p \in Pubs /\ papers[p] = Row(p)
    BY <1>7, <1>8
  <2>2. ASSUME NEW x \in papers[p].merged
        PROVE  \/ x \in twins[p]
               \/ \E q \in Present(was) : map[q] = p /\ x \in was[q].merged
    BY <1>5, <1>6, <2>1, <2>2
  <2>3. ASSUME NEW x \in papers[p].merged PROVE papers[x] = Absent
    <3>1. CASE x \in twins[p]
      BY <1>1, <1>5, <1>7, <1>10, <2>1, <3>1
    <3>2. ASSUME NEW q \in Present(was), x \in was[q].merged PROVE papers[x] = Absent
      <4>1. was[x] = Absent /\ x \in Pubs
        BY <1>1, <3>2 DEF Swallows, Publication
      <4> QED BY <1>1, <1>7, <1>10, <4>1
    <3> QED BY <2>2, <2>3, <3>1, <3>2
  <2>4. ASSUME NEW other \in Present(papers) \ {p}, NEW x \in papers[p].merged, x \in papers[other].merged
        PROVE  FALSE
    <3>1. other \in Present(was) /\ map[other] = other /\ other \in Pubs /\ papers[other] = Row(other)
      BY <1>7, <1>8
    <3>2. \/ x \in twins[other]
          \/ \E q \in Present(was) : map[q] = other /\ x \in was[q].merged
      BY <1>5, <1>6, <2>4, <3>1
    <3>3. \A q \in Present(was) : x \in was[q].merged => x \notin Present(was)
      BY <1>1 DEF Swallows
    <3>4. \A q, o \in Present(was) : x \in was[q].merged /\ x \in was[o].merged => q = o
      BY <1>1, OneOwner
    <3> QED BY <1>5, <2>1, <2>2, <2>4, <3>1, <3>2, <3>3, <3>4
  <2>5. papers[p].versions = IF papers[p].merged = {} THEN {} ELSE {p} \cup papers[p].merged
    <3>1. CASE twins[p] = {}
      <4>1. \A x : x \in Row(p).merged <=> x \in was[p].merged
        BY <1>6, <2>1, <3>1
      <4>2. Row(p).merged = was[p].merged
        BY <4>1
      <4>3. Row(p).versions = was[p].versions
        BY <1>6, <2>1, <3>1
      <4> QED BY <1>1, <2>1, <4>2, <4>3 DEF Swallows
    <3>2. CASE twins[p] # {}
      <4>1. Row(p).versions = {p} \cup Row(p).merged /\ Row(p).merged # {}
        BY <1>6, <2>1, <3>2
      <4> QED BY <2>1, <4>1
    <3> QED BY <3>1, <3>2
  <2> QED BY <2>3, <2>4, <2>5 DEF Swallows
<1>12. papers \in PublicationTables
  BY <1>9, <1>11 DEF PublicationTables
<1>13. ASSUME NEW k \in Known(was) PROVE k \in Known(papers)
  <2>1. k \in Pubs
    BY <1>1 DEF Known
  <2>2. PICK x \in Present(was) : x = k \/ k \in was[x].merged
    BY DEF Known, StandsFor
  <2> DEFINE p == map[x]
  <2>3. p \in Pubs /\ map[p] = p /\ p \in Present(was)
    BY <1>1
  <2>4. x = p \/ x \in twins[p]
    BY <1>1, <1>5, <2>3
  <2> HIDE DEF p
  <2>5. p \in Present(papers) /\ papers[p] = Row(p)
    BY <1>7, <1>8, <2>3
  <2>6. k = p \/ k \in papers[p].merged
    BY <1>6, <2>2, <2>3, <2>4, <2>5
  <2>7. DOMAIN papers = Pubs
    BY <1>3
  <2> QED BY <2>1, <2>5, <2>6, <2>7 DEF Known, StandsFor
<1>14. ASSUME NEW p \in Present(papers), \A q \in Pubs : map[q] = p => q = p
       PROVE  papers[p].judged = was[p].judged
  <2>1. p \in Present(was) /\ map[p] = p /\ p \in Pubs /\ papers[p] = Row(p)
    BY <1>7, <1>8
  <2>2. twins[p] = {}
    BY <1>1, <1>5, <1>14, <2>1
  <2> QED BY <1>6, <2>1, <2>2
<1>15. Listed(was) /\ AllAuthored(was, rows.persons) => Listed(papers)
  <2> SUFFICES ASSUME Listed(was), AllAuthored(was, rows.persons), NEW p \in Present(papers)
               PROVE  papers[p].listed = papers[p].versions
    BY DEF Listed
  <2>1. p \in Present(was) /\ map[p] = p /\ papers[p] = Row(p)
    BY <1>7, <1>8
  <2> QED BY <1>6, <2>1
<1> QED BY <1>7, <1>12, <1>13, <1>14, <1>15 DEF papers, was

-----------------------------------------------------------------------------
(* The links of papers that are one.                                       *)

\* two links that are one have the evidence of both, and a verdict only on all of it
LEMMA MergedLinkSays ==
    ASSUME NEW u, NEW base \in SoundLinks(u), NEW extra \in SoundLinks(u)
    PROVE  LET link == MergeCodeLink(base, extra)
           IN link \in SoundLinks(u) /\ link.found = base.found \cup extra.found
<1> DEFINE found == base.found \cup extra.found
           classified == {l \in {base, extra} : l.status = "classified"}
           covering == {l \in classified : l.found = found}
           both == [base EXCEPT !.found = found]
           agreed == [base EXCEPT !.found = found, !.deposit = base.deposit \/ extra.deposit,
                                  !.judged = base.judged \cup extra.judged]
           kept == [base EXCEPT !.found = found,
                        !.status = IF "failed" \in {base.status, extra.status} THEN "failed" ELSE base.status]
           link == MergeCodeLink(base, extra)
<1>1. /\ base \in Link /\ extra \in Link /\ found \in SUBSET Places
      /\ \A e \in found : e.pdf # NoDoc => e.doc \in Docs /\ <<e.doc, u>> \in Mentions
      /\ base.status = "classified" => base.judged = base.found
      /\ extra.status = "classified" => extra.judged = extra.found
  BY DEF SoundLinks, SoundLink, Link
<1>2. link = IF base.status = "classified" /\ extra.status = "classified"
             THEN IF base.verdict = extra.verdict THEN agreed ELSE Reset(both)
             ELSE IF classified # {}
             THEN IF covering # {} THEN CHOOSE l \in covering : TRUE ELSE Reset(both)
             ELSE kept
  BY DEF MergeCodeLink
<1>3. Reset(both) \in SoundLinks(u) /\ Reset(both).found = found
  <2>1. both \in Link /\ both.found = found
    BY <1>1 DEF Link
  <2>2. Reset(both) = [both EXCEPT !.status = "pending", !.verdict = "unsure", !.deposit = FALSE, !.judged = {}]
    BY DEF Reset
  <2> HIDE DEF both, found
  <2>3. /\ Reset(both) \in Link /\ Reset(both).found = found /\ Reset(both).status = "pending"
    BY <2>1, <2>2 DEF Link
  <2> QED BY <1>1, <2>3 DEF SoundLinks, SoundLink
<1>4. CASE base.status = "classified" /\ extra.status = "classified"
  <2>1. CASE base.verdict = extra.verdict
    <3>1. link = agreed
      BY <1>2, <1>4, <2>1
    <3>2. base.judged \cup extra.judged = found /\ (base.deposit \/ extra.deposit) \in BOOLEAN
      BY <1>1, <1>4 DEF Link
    <3> HIDE DEF link, found
    <3>3. /\ link \in Link /\ link.found = found /\ link.judged = found
      BY <1>1, <3>1, <3>2 DEF Link
    <3> QED BY <1>1, <3>3 DEF SoundLinks, SoundLink, link, found
  <2>2. CASE base.verdict # extra.verdict
    BY <1>2, <1>3, <1>4, <2>2
  <2> QED BY <2>1, <2>2
<1>5. CASE ~ (base.status = "classified" /\ extra.status = "classified") /\ classified # {}
  <2>1. CASE covering # {}
    <3>1. link = CHOOSE l \in covering : TRUE
      BY <1>2, <1>5, <2>1
    <3>2. link \in covering
      <4> HIDE DEF covering, link
      <4> QED BY <2>1, <3>1
    <3> QED BY <3>2
  <2>2. CASE covering = {}
    BY <1>2, <1>3, <1>5, <2>2
  <2> QED BY <2>1, <2>2
<1>6. CASE ~ (base.status = "classified" /\ extra.status = "classified") /\ classified = {}
  <2>1. link = kept
    BY <1>2, <1>6
  <2>2. base.status # "classified"
    BY <1>6
  <2> HIDE DEF link, found
  <2>3. link \in Link /\ link.found = found /\ link.status # "classified"
    BY <1>1, <2>1, <2>2 DEF Link
  <2> QED BY <1>1, <2>3 DEF SoundLinks, SoundLink, link, found
<1> QED BY <1>4, <1>5, <1>6

LinkSets == {links \in [Urls -> Link \cup {Absent}] : \A u \in Urls : links[u] \in SoundLinks(u) \cup {Absent}}
Covers(links, other) ==
    \A u \in Urls : other[u] # Absent => links[u] # Absent /\ other[u].found \subseteq links[u].found

LEMMA MergedTwoSay ==
    ASSUME NEW one \in LinkSets, NEW other \in LinkSets
    PROVE  /\ MergeLinks(one, other) \in LinkSets
           /\ Covers(MergeLinks(one, other), one) /\ Covers(MergeLinks(one, other), other)
<1> DEFINE links == MergeLinks(one, other)
<1>1. /\ links = [u \in Urls |-> IF one[u] = Absent THEN other[u]
                                 ELSE IF other[u] = Absent THEN one[u]
                                 ELSE MergeCodeLink(one[u], other[u])]
      /\ \A u \in Urls : one[u] \in SoundLinks(u) \cup {Absent} /\ other[u] \in SoundLinks(u) \cup {Absent}
  BY DEF MergeLinks, LinkSets
<1> HIDE DEF links
<1>2. ASSUME NEW u \in Urls
      PROVE  /\ links[u] \in SoundLinks(u) \cup {Absent}
             /\ one[u] # Absent => links[u] # Absent /\ one[u].found \subseteq links[u].found
             /\ other[u] # Absent => links[u] # Absent /\ other[u].found \subseteq links[u].found
  <2>1. CASE one[u] = Absent \/ other[u] = Absent
    BY <1>1, <2>1
  <2>2. CASE one[u] # Absent /\ other[u] # Absent
    <3>1. links[u] = MergeCodeLink(one[u], other[u])
      BY <1>1, <2>2
    <3>2. one[u] \in SoundLinks(u) /\ other[u] \in SoundLinks(u)
      BY <1>1, <2>2
    <3>3. links[u] \in SoundLinks(u) /\ links[u].found = one[u].found \cup other[u].found
      BY <3>1, <3>2, MergedLinkSays
    <3>4. links[u] # Absent
      BY <3>3, RowsAssumption DEF SoundLinks
    <3> QED BY <3>3, <3>4
  <2> QED BY <2>1, <2>2
<1>3. links \in LinkSets
  BY <1>1, <1>2 DEF LinkSets, SoundLinks
<1> QED BY <1>2, <1>3 DEF Covers, links

LEMMA MergedAllSay ==
    ASSUME NEW others, IsFiniteSet(others), NEW base \in LinkSets, NEW table,
           \A q \in others : table[q] \in LinkSets
    PROVE  LET links == MergeAllLinks(base, others, table)
           IN /\ links \in LinkSets /\ Covers(links, base)
              /\ \A q \in others : Covers(links, table[q])
              /\ others = {} => links = base
<1> DEFINE op == [x \in others \X LinkSets |-> MergeLinks(x[2], table[x[1]])]
           Sum(s, links) == Covers(links, base) /\ \A q \in s : Covers(links, table[q])
           Good == {x \in (SUBSET others) \X LinkSets : Sum(x[1], x[2])}
           Right(iter) == iter = [s \in SUBSET others |->
              IF s = {} THEN base ELSE MergeLinks(iter[s \ {Picked(s)}], table[Picked(s)])]
           folded == CHOOSE iter : Right(iter)
<1>1. MergeAllLinks(base, others, table) = folded[others]
  BY DEF MergeAllLinks, FoldSet, MapThenFoldSet, Picked
<1>2. ASSUME NEW q \in others, NEW links \in LinkSets
      PROVE  LET then == MergeLinks(links, table[q])
             IN then \in LinkSets /\ Covers(then, links) /\ Covers(then, table[q])
  BY MergedTwoSay
<1>3. op \in [others \X LinkSets -> LinkSets]
  BY <1>2
<1>4. \A q \in others, links \in LinkSets : op[<<q, links>>] = MergeLinks(links, table[q])
  OBVIOUS
<1> HIDE DEF op
<1>5. \E f : Right(f)
  <2>1. PICK f \in [SUBSET others -> LinkSets] : FoldsBy(f, others, op, base)
    BY <1>3, FoldExists
  <2>2. ASSUME NEW s \in SUBSET others, s # {}
        PROVE  op[<<Picked(s), f[s \ {Picked(s)}]>>] = MergeLinks(f[s \ {Picked(s)}], table[Picked(s)])
    <3>1. Picked(s) \in others /\ f[s \ {Picked(s)}] \in LinkSets
      BY <2>1, <2>2 DEF Picked
    <3> QED BY <1>4, <3>1
  <2>3. Right(f)
    BY <2>1, <2>2 DEF FoldsBy
  <2> QED BY <2>3
<1>6. Right(folded)
  <2> HIDE DEF Right
  <2> QED BY <1>5
<1>7. folded[{}] = base
  BY <1>6
<1>8. \A s \in SUBSET others : s # {} /\ folded[s \ {Picked(s)}] \in LinkSets =>
          folded[s] = op[<<Picked(s), folded[s \ {Picked(s)}]>>]
  <2> SUFFICES ASSUME NEW s \in SUBSET others, s # {}, folded[s \ {Picked(s)}] \in LinkSets
               PROVE  folded[s] = op[<<Picked(s), folded[s \ {Picked(s)}]>>]
    OBVIOUS
  <2>1. folded[s] = MergeLinks(folded[s \ {Picked(s)}], table[Picked(s)])
    BY <1>6
  <2>2. Picked(s) \in others
    BY DEF Picked
  <2> QED BY <1>4, <2>1, <2>2
<1>9. <<{}, base>> \in Good
  BY DEF Covers
<1>10. \A s \in SUBSET others : \A q \in others \ s : \A links \in LinkSets : <<s, links>> \in Good =>
           op[<<q, links>>] \in LinkSets /\ <<s \cup {q}, op[<<q, links>>]>> \in Good
  <2> SUFFICES ASSUME NEW s \in SUBSET others, NEW q \in others \ s, NEW links \in LinkSets, <<s, links>> \in Good
               PROVE  op[<<q, links>>] \in LinkSets /\ <<s \cup {q}, op[<<q, links>>]>> \in Good
    OBVIOUS
  <2> DEFINE then == MergeLinks(links, table[q])
  <2>1. Sum(s, links)
    OBVIOUS
  <2>2. then \in LinkSets /\ Covers(then, links) /\ Covers(then, table[q]) /\ op[<<q, links>>] = then
    BY <1>2, <1>4
  <2> HIDE DEF then
  <2>3. ASSUME NEW other, Covers(links, other) PROVE Covers(then, other)
    BY <2>2, <2>3 DEF Covers
  <2>4. Sum(s \cup {q}, then)
    BY <2>1, <2>2, <2>3
  <2> QED BY <2>2, <2>4
<1>11. folded[others] \in LinkSets /\ <<others, folded[others]>> \in Good
  <2> HIDE DEF folded, Good
  <2> QED BY <1>7, <1>8, <1>9, <1>10, FoldReaches
<1>12. Sum(others, folded[others])
  BY <1>11
<1> QED BY <1>1, <1>7, <1>11, <1>12

\* the links of those who stand for others have the evidence of all of them
LEMMA RepointedSays ==
    ASSUME HarvestInv, NEW map, StandIns(map)
    PROVE  LET links == RepointedLinks(map)
               was == rows.repo_links
           IN /\ links \in LinkTables
              /\ \A p : p \in Present(links) <=> \E q \in Present(was) : map[q] = p
              /\ \A texts : Keeps(texts, was, links)
              /\ \A p \in Pubs : (\A q \in Pubs : map[q] = p <=> q = p) => links[p] = was[p]
<1> DEFINE was == rows.repo_links
           links == RepointedLinks(map)
           from == [p \in Pubs |-> {q \in Present(was) : map[q] = p}]
           Row(p) == MergeAllLinks(was[Min(from[p])], from[p] \ {Min(from[p])}, was)
<1>1. /\ was \in LinkTables /\ DOMAIN was = Pubs /\ map \in [Pubs -> Pubs]
      /\ Pubs \subseteq Nat /\ IsFiniteSet(Pubs)
  BY TablesType, LinkThere, HarvestAssumption DEF StandIns, LinkTables, LinkRows
<1>2. links = [p \in Pubs |-> IF from[p] = {} THEN Absent ELSE Row(p)]
  BY DEF RepointedLinks
<1>3. \A p \in Pubs : p \in Present(was) <=> was[p] # Absent
  BY <1>1 DEF Present
<1>4. \A p \in Pubs : \A q : q \in from[p] <=> q \in Pubs /\ was[q] # Absent /\ map[q] = p
  BY <1>1, <1>3 DEF Present
<1>5. \A q \in Pubs : was[q] # Absent => was[q] \in LinkSets
  BY <1>1, LinkThere DEF LinkSets
<1> HIDE DEF was, links, from, Row
<1>6. ASSUME NEW p \in Pubs, from[p] # {}
      PROVE  /\ Row(p) \in LinkSets
             /\ \A q \in from[p] : Covers(Row(p), was[q])
             /\ from[p] = {p} => Row(p) = was[p]
  <2> DEFINE first == Min(from[p])
             others == from[p] \ {first}
  <2>1. first \in from[p]
    <3>1. from[p] \subseteq Nat
      BY <1>1, <1>4
    <3> QED BY <1>6, <3>1, MinBelongs
  <2>2. IsFiniteSet(others)
    <3>1. others \subseteq Pubs
      BY <1>4
    <3> QED BY <1>1, <3>1, FS_Subset
  <2>3. was[first] \in LinkSets /\ \A q \in others : was[q] \in LinkSets
    BY <1>4, <1>5, <2>1
  <2>4. Row(p) = MergeAllLinks(was[first], others, was)
    BY DEF Row
  <2> HIDE DEF first
  <2>5. /\ Row(p) \in LinkSets /\ Covers(Row(p), was[first])
        /\ \A q \in others : Covers(Row(p), was[q])
        /\ others = {} => Row(p) = was[first]
    <3> HIDE DEF others
    <3> QED BY <2>2, <2>3, <2>4, MergedAllSay
  <2> QED BY <2>1, <2>5
<1>7. links \in LinkTables
  <2>1. \A p \in Pubs : links[p] \in LinkSets \cup {Absent}
    BY <1>2, <1>6
  <2> QED BY <1>2, <2>1 DEF LinkTables, LinkRows, LinkSets
<1>8. \A p \in Pubs : from[p] # {} => links[p] = Row(p) /\ links[p] # Absent
  BY <1>2, <1>6, RowsAssumption DEF LinkSets
<1>9. \A p \in Pubs : from[p] = {} => links[p] = Absent
  BY <1>2
<1>10. ASSUME NEW p PROVE p \in Present(links) <=> \E q \in Present(was) : map[q] = p
  <2>1. DOMAIN links = Pubs
    BY <1>2
  <2>2. p \in Present(links) <=> p \in Pubs /\ from[p] # {}
    BY <1>8, <1>9, <2>1 DEF Present
  <2>3. \A q \in Present(was) : q \in Pubs /\ was[q] # Absent /\ map[q] \in Pubs
    BY <1>1 DEF Present
  <2> QED BY <1>3, <1>4, <2>2, <2>3
<1>11. ASSUME NEW texts PROVE Keeps(texts, was, links)
  <2>1. ASSUME NEW s \in Evidence(was) PROVE s \in Evidence(links)
    <3>1. /\ s \in Urls \X Places /\ s[2].pdf # NoDoc
      BY DEF Evidence
    <3>2. PICK q \in Present(was) : was[q][s[1]] # Absent /\ s[2] \in was[q][s[1]].found
      BY DEF Evidence
    <3> DEFINE p == map[q]
    <3>3. q \in Pubs /\ p \in Pubs /\ was[q] # Absent /\ s[1] \in Urls
      BY <1>1, <1>3, <3>1 DEF Present
    <3>4. q \in from[p]
      BY <1>4, <3>3
    <3> HIDE DEF p
    <3>5. links[p] = Row(p) /\ p \in Present(links) /\ Covers(links[p], was[q])
      BY <1>6, <1>8, <1>10, <3>3, <3>4, <1>2 DEF Present
    <3> QED BY <3>1, <3>2, <3>3, <3>5 DEF Evidence, Covers
  <2> QED BY <2>1 DEF Keeps
<1>12. ASSUME NEW p \in Pubs, \A q \in Pubs : map[q] = p <=> q = p PROVE links[p] = was[p]
  <2>1. CASE was[p] = Absent
    <3>1. from[p] = {}
      BY <1>4, <1>12, <2>1
    <3> QED BY <1>9, <2>1, <3>1
  <2>2. CASE was[p] # Absent
    <3>1. from[p] = {p}
      BY <1>4, <1>12, <2>2
    <3> QED BY <1>6, <1>8, <3>1
  <2> QED BY <2>1, <2>2
<1> QED BY <1>7, <1>10, <1>11, <1>12 DEF links, was

-----------------------------------------------------------------------------
(* The repositories of papers that are one, and those that are one.        *)

\* who stands for a paper that can be found can be found
LEMMA StandInsKnown ==
    ASSUME HarvestInv, NEW map, StandIns(map), NEW p \in Known(rows.publications)
    PROVE  map[p] \in Known(rows.publications)
<1>1. Present(rows.publications) \subseteq Known(rows.publications)
  BY PresentKnown
<1>2. p \in Pubs
  BY TablesType, PaperThere DEF Known
<1> QED BY <1>1, <1>2 DEF StandIns

\* the claims move with the papers, and nothing else does
LEMMA MovedSays ==
    ASSUME HarvestInv, NEW map, StandIns(map)
    PROVE  /\ RowsOf(Moved(map), Known(rows.publications))
           /\ Known(Moved(map)) = Known(rows.repositories)
<1> DEFINE was == rows.repositories
           papers == Known(rows.publications)
           moved == Moved(map)
<1>1. /\ was \in RepositoryRowsSet /\ OneHost(host, was) /\ DOMAIN was = Urls
      /\ \A u : u \in Present(was) <=> u \in Urls /\ was[u] # Absent
      /\ \A u \in Present(was) : was[u] \in Repository
  BY TablesType, RowThere DEF HarvestInv, GitHubInv, OneHosts
<1>2. \A u \in Present(was) : was[u].pubs \subseteq papers
  <2>1. Refers("publications", "repositories", was) \subseteq papers
    BY TablesType DEF HarvestInv, Resolves, Kinds, Collections
  <2>2. UNION {was[u].pubs : u \in Present(was)} \subseteq papers
    BY <2>1 DEF Refers
  <2> QED BY <2>2
<1>3. \A p \in papers : map[p] \in papers
  BY StandInsKnown
<1>4. map \in [Pubs -> Pubs]
  BY DEF StandIns
<1>5. /\ DOMAIN moved = Urls
      /\ \A u \in Urls : moved[u] = IF ~Folds(map) \/ was[u] = Absent THEN was[u]
                                    ELSE [was[u] EXCEPT !.pubs = {map[p] : p \in was[u].pubs}]
  BY DEF Moved
<1> HIDE DEF was, papers, moved
<1>6. ASSUME NEW u \in Present(was)
      PROVE  /\ moved[u] \in Repository /\ moved[u].url = was[u].url /\ moved[u].github = was[u].github
             /\ moved[u].cited = was[u].cited /\ moved[u].merged = was[u].merged
             /\ moved[u].pubs \subseteq papers
  <2> DEFINE pubs == {map[p] : p \in was[u].pubs}
  <2>1. was[u] \in Repository /\ u \in Urls /\ was[u] # Absent
    BY <1>1
  <2>2. pubs \in SUBSET Pubs
    BY <1>4, <2>1 DEF Repository
  <2>3. pubs \subseteq papers
    BY <1>2, <1>3
  <2> HIDE DEF pubs
  <2>4. [was[u] EXCEPT !.pubs = pubs] \in Repository
    BY <2>1, <2>2 DEF Repository
  <2>5. moved[u] = was[u] \/ moved[u] = [was[u] EXCEPT !.pubs = pubs]
    BY <1>5, <2>1 DEF pubs
  <2> QED BY <1>2, <2>1, <2>3, <2>4, <2>5 DEF Repository
<1>7. \A u \in Urls : u \notin Present(was) => moved[u] = Absent
  BY <1>1, <1>5
<1>8. moved \in RepositoryRowsSet
  <2>1. moved = [u \in Urls |-> moved[u]]
    BY DEF moved, Moved
  <2>2. \A u \in Urls : moved[u] \in Repository \cup {Absent}
    BY <1>6, <1>7
  <2> QED BY <2>1, <2>2 DEF RepositoryRowsSet
<1>9. Present(moved) = Present(was)
  <2>1. \A u \in Urls : moved[u] = Absent <=> was[u] = Absent
    BY <1>1, <1>6, <1>7, RepositoriesAssumption
  <2> QED BY <1>1, <1>5, <2>1 DEF Present
<1>10. OneHost(host, moved)
  BY <1>1, <1>6, <1>9 DEF OneHost, LeadsTo, NamesOf
<1>11. RowsOf(moved, papers)
  BY <1>6, <1>8, <1>9, <1>10 DEF RowsOf
<1>12. Known(moved) = Known(was)
  BY <1>1, <1>5, <1>6, <1>9 DEF Known, StandsFor
<1> QED BY <1>11, <1>12 DEF was, papers, moved

\* rows folded into one have the names of all
LEMMA MergedRepositoriesSay ==
    ASSUME NEW others, IsFiniteSet(others), others \subseteq Urls, NEW base \in Repository, NEW table,
           \A id \in others : table[id] \in Repository
    PROVE  LET row == MergeRepositories(base, others, table)
           IN /\ row \in Repository /\ row.url = base.url
              /\ \A x : x \in row.pubs <=> x \in base.pubs \/ \E id \in others : x \in table[id].pubs
              /\ \A x : x \in row.cited <=>
                    x \in base.cited \/ \E id \in others : x = table[id].url \/ x \in table[id].cited
              /\ \A x : x \in row.merged <=>
                    x \in base.merged \/ x \in others \/ \E id \in others : x \in table[id].merged
              /\ row.github = base.github \/ \E id \in others : row.github = table[id].github
<1> DEFINE op == [x \in others \X Repository |-> MergeRepository(x[2], table[x[1]], x[1])]
           Sum(s, row) ==
              /\ row.url = base.url
              /\ \A x : x \in row.pubs <=> x \in base.pubs \/ \E id \in s : x \in table[id].pubs
              /\ \A x : x \in row.cited <=>
                    x \in base.cited \/ \E id \in s : x = table[id].url \/ x \in table[id].cited
              /\ \A x : x \in row.merged <=>
                    x \in base.merged \/ x \in s \/ \E id \in s : x \in table[id].merged
              /\ row.github = base.github \/ \E id \in s : row.github = table[id].github
           Good == {x \in (SUBSET others) \X Repository : Sum(x[1], x[2])}
           Right(iter) == iter = [s \in SUBSET others |->
              IF s = {} THEN base ELSE MergeRepository(iter[s \ {Picked(s)}], table[Picked(s)], Picked(s))]
           folded == CHOOSE iter : Right(iter)
<1>1. MergeRepositories(base, others, table) = folded[others]
  BY DEF MergeRepositories, FoldSet, MapThenFoldSet, Picked
<1>2. ASSUME NEW id \in others, NEW row \in Repository
      PROVE  LET then == MergeRepository(row, table[id], id)
             IN /\ then \in Repository /\ then.url = row.url
                /\ then.pubs = row.pubs \cup table[id].pubs
                /\ then.cited = row.cited \cup table[id].cited \cup {table[id].url}
                /\ then.merged = row.merged \cup table[id].merged \cup {id}
                /\ then.github = IF row.github = Nobody THEN table[id].github ELSE row.github
  <2> DEFINE extra == table[id]
             then == MergeRepository(row, extra, id)
  <2>1. extra \in Repository /\ id \in Urls
    OBVIOUS
  <2> HIDE DEF extra
  <2>2. /\ row.pubs \cup extra.pubs \in SUBSET Pubs
        /\ row.cited \cup extra.cited \cup {extra.url} \in SUBSET Urls
        /\ row.merged \cup extra.merged \cup {id} \in SUBSET Urls
        /\ (row.owner \/ extra.owner) \in BOOLEAN
        /\ row.github \in Repos \cup {Nobody} /\ extra.github \in Repos \cup {Nobody}
        /\ row.state \in States /\ extra.state \in States
    BY <1>2, <2>1 DEF Repository
  <2>3. then = [row EXCEPT !.pubs = row.pubs \cup extra.pubs,
                           !.cited = row.cited \cup extra.cited \cup {extra.url},
                           !.merged = row.merged \cup extra.merged \cup {id},
                           !.github = IF row.github = Nobody THEN extra.github ELSE row.github,
                           !.owner = row.owner \/ extra.owner,
                           !.state = IF row.state = "none" THEN extra.state ELSE row.state]
    BY DEF MergeRepository
  <2> HIDE DEF then
  <2>4. then \in Repository
    <3> DEFINE pubs == row.pubs \cup extra.pubs
               cited == row.cited \cup extra.cited \cup {extra.url}
               merged == row.merged \cup extra.merged \cup {id}
               owner == row.owner \/ extra.owner
               number == IF row.github = Nobody THEN extra.github ELSE row.github
               state == IF row.state = "none" THEN extra.state ELSE row.state
    <3>1. /\ pubs \in SUBSET Pubs /\ cited \in SUBSET Urls /\ merged \in SUBSET Urls /\ owner \in BOOLEAN
          /\ number \in Repos \cup {Nobody} /\ state \in States
          /\ then = [row EXCEPT !.pubs = pubs, !.cited = cited, !.merged = merged, !.github = number,
                                !.owner = owner, !.state = state]
      BY <2>2, <2>3
    <3> HIDE DEF pubs, cited, merged, owner, number, state
    <3> QED BY <1>2, <3>1 DEF Repository
  <2>5. /\ then.url = row.url
        /\ then.pubs = row.pubs \cup extra.pubs
        /\ then.cited = row.cited \cup extra.cited \cup {extra.url}
        /\ then.merged = row.merged \cup extra.merged \cup {id}
        /\ then.github = IF row.github = Nobody THEN extra.github ELSE row.github
    BY <1>2, <2>3 DEF Repository
  <2> QED BY <2>4, <2>5 DEF then, extra
<1>3. op \in [others \X Repository -> Repository]
  BY <1>2
<1>4. \A id \in others, row \in Repository : op[<<id, row>>] = MergeRepository(row, table[id], id)
  OBVIOUS
<1> HIDE DEF op
<1>5. \E f : Right(f)
  <2>1. PICK f \in [SUBSET others -> Repository] : FoldsBy(f, others, op, base)
    BY <1>3, FoldExists
  <2>2. ASSUME NEW s \in SUBSET others, s # {}
        PROVE  op[<<Picked(s), f[s \ {Picked(s)}]>>]
               = MergeRepository(f[s \ {Picked(s)}], table[Picked(s)], Picked(s))
    <3>1. Picked(s) \in others /\ f[s \ {Picked(s)}] \in Repository
      BY <2>1, <2>2 DEF Picked
    <3> QED BY <1>4, <3>1
  <2>3. Right(f)
    BY <2>1, <2>2 DEF FoldsBy
  <2> QED BY <2>3
<1>6. Right(folded)
  <2> HIDE DEF Right
  <2> QED BY <1>5
<1>7. folded[{}] = base
  BY <1>6
<1>8. \A s \in SUBSET others : s # {} /\ folded[s \ {Picked(s)}] \in Repository =>
          folded[s] = op[<<Picked(s), folded[s \ {Picked(s)}]>>]
  <2> SUFFICES ASSUME NEW s \in SUBSET others, s # {}, folded[s \ {Picked(s)}] \in Repository
               PROVE  folded[s] = op[<<Picked(s), folded[s \ {Picked(s)}]>>]
    OBVIOUS
  <2>1. folded[s] = MergeRepository(folded[s \ {Picked(s)}], table[Picked(s)], Picked(s))
    BY <1>6
  <2>2. Picked(s) \in others
    BY DEF Picked
  <2> QED BY <1>4, <2>1, <2>2
<1>9. <<{}, base>> \in Good
  OBVIOUS
<1>10. \A s \in SUBSET others : \A id \in others \ s : \A row \in Repository : <<s, row>> \in Good =>
           op[<<id, row>>] \in Repository /\ <<s \cup {id}, op[<<id, row>>]>> \in Good
  <2> SUFFICES ASSUME NEW s \in SUBSET others, NEW id \in others \ s, NEW row \in Repository, <<s, row>> \in Good
               PROVE  op[<<id, row>>] \in Repository /\ <<s \cup {id}, op[<<id, row>>]>> \in Good
    OBVIOUS
  <2> DEFINE then == MergeRepository(row, table[id], id)
  <2>1. Sum(s, row)
    OBVIOUS
  <2>2. /\ then \in Repository /\ op[<<id, row>>] = then /\ then.url = row.url
        /\ then.pubs = row.pubs \cup table[id].pubs
        /\ then.cited = row.cited \cup table[id].cited \cup {table[id].url}
        /\ then.merged = row.merged \cup table[id].merged \cup {id}
        /\ then.github = IF row.github = Nobody THEN table[id].github ELSE row.github
    BY <1>2, <1>4
  <2> HIDE DEF then
  <2>3. ASSUME NEW x
        PROVE  /\ x \in then.pubs <=> x \in base.pubs \/ \E other \in s \cup {id} : x \in table[other].pubs
               /\ x \in then.cited <=>
                     x \in base.cited \/ \E other \in s \cup {id} : x = table[other].url \/ x \in table[other].cited
               /\ x \in then.merged <=>
                     x \in base.merged \/ x \in s \cup {id} \/ \E other \in s \cup {id} : x \in table[other].merged
    BY <2>1, <2>2
  <2>4. then.github = base.github \/ \E other \in s \cup {id} : then.github = table[other].github
    BY <2>1, <2>2
  <2>5. Sum(s \cup {id}, then)
    BY <2>1, <2>2, <2>3, <2>4
  <2>6. s \cup {id} \in SUBSET others
    OBVIOUS
  <2> HIDE DEF Sum
  <2>7. <<s \cup {id}, then>> \in Good
    BY <2>2, <2>5, <2>6
  <2> QED BY <2>2, <2>7
<1>11. folded[others] \in Repository /\ <<others, folded[others]>> \in Good
  <2> HIDE DEF folded, Good
  <2> QED BY <1>7, <1>8, <1>9, <1>10, FoldReaches
<1>12. Sum(others, folded[others])
  BY <1>11
<1> QED BY <1>1, <1>11, <1>12

\* rows taken for one lead to one repository
LEMMA SameLeads ==
    ASSUME GitHubTypeOK, NEW table \in RepositoryRowsSet, OneHost(host, table),
           NEW x \in Present(table), NEW y \in Present(table), SameRepository(table[x], table[y])
    PROVE  host[x] = host[y] /\ (host[x] = Nobody => x = y)
<1>1. x \in Urls /\ y \in Urls /\ table[x] \in Repository /\ table[y] \in Repository
  BY RowThere
<1>2. /\ \A u \in NamesOf(x, table[x]) : host[u] = host[x]
      /\ table[x].github \in {host[x], Nobody}
      /\ host[x] = Nobody => NamesOf(x, table[x]) = {x}
  BY <1>1, LeadsSay DEF OneHost
<1>3. /\ \A u \in NamesOf(y, table[y]) : host[u] = host[y]
      /\ table[y].github \in {host[y], Nobody}
      /\ host[y] = Nobody => NamesOf(y, table[y]) = {y}
  BY <1>1, LeadsSay DEF OneHost
<1>4. CASE table[x].github = table[y].github /\ table[x].github # Nobody
  BY <1>2, <1>3, <1>4
<1>5. ASSUME NEW u \in NamesOf(x, table[x]), u \in NamesOf(y, table[y])
      PROVE  host[x] = host[y] /\ (host[x] = Nobody => x = y)
  BY <1>2, <1>3, <1>5
<1>6. CASE table[x].url = table[y].url
  BY <1>5, <1>6 DEF NamesOf
<1>7. CASE table[x].cited \cap table[y].cited # {}
  <2>1. PICK u : u \in table[x].cited /\ u \in table[y].cited
    BY <1>7
  <2> QED BY <1>5, <2>1 DEF NamesOf
<1> QED BY <1>4, <1>6, <1>7 DEF SameRepository

\* what two rows have in common that are taken for one
Sames(table) ==
    {{p[1], p[2]} : p \in {p \in Present(table) \X Present(table) : SameRepository(table[p[1]], table[p[2]])}}
GroupOf(table, id) == Component(id, Present(table), Sames(table))

LEMMA GroupsSay ==
    ASSUME GitHubTypeOK, NEW table \in RepositoryRowsSet, OneHost(host, table)
    PROVE  /\ RepositoryGroups(table) = {GroupOf(table, id) : id \in Present(table)}
           /\ \A id \in Present(table) :
                 /\ id \in GroupOf(table, id) /\ GroupOf(table, id) \subseteq Present(table)
                 /\ \A x \in GroupOf(table, id) :
                       /\ GroupOf(table, x) = GroupOf(table, id)
                       /\ host[x] = host[id] /\ (host[id] = Nobody => x = id)
           /\ \A x, y \in Present(table) :
                 SameRepository(table[x], table[y]) => GroupOf(table, x) = GroupOf(table, y)
<1> DEFINE there == Present(table)
           same == Sames(table)
<1>1. RepositoryGroups(table) = {GroupOf(table, id) : id \in there}
  BY DEF RepositoryGroups, Components, GroupOf, Sames
<1>2. there \subseteq Urls /\ IsFiniteSet(there) /\ Cardinality(there) \in Nat
  BY RowThere, RowsAssumption, FS_Subset, FS_CardinalityType
<1>3. \A x, y : {x, y} \in same =>
          \E a, b \in there : {a, b} = {x, y} /\ SameRepository(table[a], table[b])
  BY DEF Sames
<1>4. \A x, y \in there : SameRepository(table[x], table[y]) => {x, y} \in same
  <2> SUFFICES ASSUME NEW x \in there, NEW y \in there, SameRepository(table[x], table[y]) PROVE {x, y} \in same
    OBVIOUS
  <2> DEFINE p == <<x, y>>
  <2>1. p \in there \X there /\ p[1] = x /\ p[2] = y
    OBVIOUS
  <2> HIDE DEF p
  <2> QED BY <2>1 DEF Sames
<1> HIDE DEF same
<1>5. /\ \A p \in there : p \in GroupOf(table, p) /\ GroupOf(table, p) \subseteq there
      /\ \A p \in there : \A q \in GroupOf(table, p) : GroupOf(table, q) = GroupOf(table, p)
  BY <1>2, ComponentsPart DEF GroupOf, same
<1>6. \A p \in there : \A x \in GroupOf(table, p) : \A q \in there :
          {x, q} \in same => q \in GroupOf(table, p)
  BY <1>2, BallCloses DEF GroupOf, same
<1>7. \A x, y \in there : {x, y} \in same => host[x] = host[y] /\ (host[x] = Nobody => x = y)
  <2> SUFFICES ASSUME NEW x \in there, NEW y \in there, {x, y} \in same
               PROVE  host[x] = host[y] /\ (host[x] = Nobody => x = y)
    OBVIOUS
  <2>1. PICK a, b \in there : {a, b} = {x, y} /\ SameRepository(table[a], table[b])
    BY <1>3
  <2>2. host[a] = host[b] /\ (host[a] = Nobody => a = b)
    BY <2>1, SameLeads
  <2> QED BY <2>1, <2>2
<1>8. ASSUME NEW p \in there, NEW x \in GroupOf(table, p)
      PROVE  host[x] = host[p] /\ (host[p] = Nobody => x = p)
  <2> DEFINE D == {q \in there : host[q] = host[p] /\ (host[p] = Nobody => q = p)}
  <2>1. {p} \subseteq D /\ \A y \in D : \A q \in there : {y, q} \in same => q \in D
    BY <1>7
  <2> HIDE DEF D
  <2>2. \A n \in Nat : Ball({p}, same, there)[n] \subseteq D
    BY <2>1, BallStaysWithin
  <2>3. x \in D
    BY <1>2, <2>2 DEF GroupOf, Component, same
  <2> QED BY <2>3 DEF D
<1>9. ASSUME NEW x \in there, NEW y \in there, SameRepository(table[x], table[y])
      PROVE  GroupOf(table, x) = GroupOf(table, y)
  <2>1. {x, y} \in same
    BY <1>4, <1>9
  <2>2. x \in GroupOf(table, x)
    BY <1>5
  <2>3. y \in GroupOf(table, x)
    BY <1>6, <2>1, <2>2
  <2> QED BY <1>5, <2>3
<1> QED BY <1>1, <1>5, <1>8, <1>9 DEF there

\* the fold of the group leaves one row of each repository, with all its names
LEMMA FoldedRepositoriesSay ==
    ASSUME GitHubTypeOK, NEW papers, NEW table, RowsOf(table, papers), NEW folded \in FoldedRepositories(table)
    PROVE  /\ RowsOf(folded.table, papers) /\ OneEach(folded.table)
           /\ Known(table) \subseteq Known(folded.table)
           /\ \A u \in Known(table) : folded.home[u] \in Known(table)
<1> DEFINE there == Present(table)
           groups == RepositoryGroups(table)
           Group(id) == GroupOf(table, id)
           Its(id) == CHOOSE g \in groups : id \in g
           after == folded.table
           Row(id) == MergeRepositories(table[id], Its(id) \ {id}, table)
<1>1. /\ table \in RepositoryRowsSet /\ OneHost(host, table) /\ DOMAIN table = Urls
      /\ \A id : id \in there <=> id \in Urls /\ table[id] # Absent
      /\ \A id \in there : table[id] \in Repository /\ table[id].pubs \subseteq papers
  BY RowThere DEF RowsOf
<1>2. /\ groups = {Group(id) : id \in there}
      /\ \A id \in there : /\ id \in Group(id) /\ Group(id) \subseteq there
                           /\ \A x \in Group(id) : /\ Group(x) = Group(id) /\ host[x] = host[id]
                                                   /\ host[id] = Nobody => x = id
      /\ \A x, y \in there : SameRepository(table[x], table[y]) => Group(x) = Group(y)
  BY <1>1, GroupsSay
<1>3. PICK stays \in [groups -> Urls] :
         /\ \A g \in groups : stays[g] \in Standing(g, table)
         /\ after = [id \in Urls |-> IF id \notin {stays[g] : g \in groups} THEN Absent ELSE Row(id)]
         /\ folded.home = [id \in Urls |-> IF \E g \in groups : id \in g THEN stays[Its(id)] ELSE id]
  <2> DEFINE Result(s) ==
               [table |-> [id \in Urls |-> IF id \notin {s[g] : g \in groups} THEN Absent ELSE Row(id)],
                home |-> [id \in Urls |-> IF \E g \in groups : id \in g THEN s[Its(id)] ELSE id]]
  <2>1. folded \in {Result(s) : s \in {s \in [groups -> Urls] : \A g \in groups : s[g] \in Standing(g, table)}}
    BY DEF FoldedRepositories
  <2>2. PICK s \in [groups -> Urls] : (\A g \in groups : s[g] \in Standing(g, table)) /\ folded = Result(s)
    <3> HIDE DEF Result, groups
    <3> QED BY <2>1
  <2> QED BY <2>2
<1> HIDE DEF groups, after, Row, there, Group
<1>4. ASSUME NEW id \in there PROVE Its(id) = Group(id) /\ Group(id) \in groups
  <2>1. Group(id) \in groups /\ id \in Group(id)
    BY <1>2
  <2>2. \A g \in groups : id \in g => g = Group(id)
    BY <1>2
  <2> QED BY <2>1, <2>2
<1> HIDE DEF Its
<1>5. \A g \in groups : stays[g] \in g /\ stays[g] \in there /\ Group(stays[g]) = g
  <2> SUFFICES ASSUME NEW g \in groups PROVE stays[g] \in g /\ stays[g] \in there /\ Group(stays[g]) = g
    OBVIOUS
  <2>1. PICK id \in there : g = Group(id)
    BY <1>2
  <2>2. stays[g] \in g
    BY <1>3 DEF Standing
  <2> QED BY <1>2, <2>1, <2>2
<1> DEFINE stands == {stays[g] : g \in groups}
<1>6. \A id \in stands : id \in there /\ id \in Urls /\ stays[Group(id)] = id
  BY <1>1, <1>5
<1>7. \A id \in Urls : after[id] = IF id \in stands THEN Row(id) ELSE Absent
  BY <1>3
<1>8. DOMAIN after = Urls
  BY <1>3
<1> HIDE DEF stands
<1>9. ASSUME NEW id \in stands
      PROVE  LET others == Group(id) \ {id}
                 row == Row(id)
             IN /\ row \in Repository /\ row.url = table[id].url
                /\ \A x : x \in row.pubs <=> x \in table[id].pubs \/ \E y \in others : x \in table[y].pubs
                /\ \A x : x \in row.cited <=>
                      x \in table[id].cited \/ \E y \in others : x = table[y].url \/ x \in table[y].cited
                /\ \A x : x \in row.merged <=>
                      x \in table[id].merged \/ x \in others \/ \E y \in others : x \in table[y].merged
                /\ row.github = table[id].github \/ \E y \in others : row.github = table[y].github
  <2> DEFINE others == Group(id) \ {id}
  <2>1. /\ id \in there /\ others \subseteq there /\ Its(id) = Group(id)
    BY <1>2, <1>4, <1>6
  <2>2. /\ table[id] \in Repository /\ others \subseteq Urls /\ IsFiniteSet(others)
        /\ \A y \in others : table[y] \in Repository
    <3>1. others \subseteq Urls /\ table[id] \in Repository /\ \A y \in others : table[y] \in Repository
      BY <1>1, <2>1
    <3> QED BY <3>1, RowsAssumption, FS_Subset
  <2>3. Row(id) = MergeRepositories(table[id], others, table)
    BY <2>1 DEF Row
  <2> HIDE DEF others
  <2>4. /\ Row(id) \in Repository /\ Row(id).url = table[id].url
        /\ \A x : x \in Row(id).pubs <=> x \in table[id].pubs \/ \E y \in others : x \in table[y].pubs
        /\ \A x : x \in Row(id).cited <=>
              x \in table[id].cited \/ \E y \in others : x = table[y].url \/ x \in table[y].cited
        /\ \A x : x \in Row(id).merged <=>
              x \in table[id].merged \/ x \in others \/ \E y \in others : x \in table[y].merged
        /\ Row(id).github = table[id].github \/ \E y \in others : Row(id).github = table[y].github
    BY <2>2, <2>3, MergedRepositoriesSay
  <2> QED BY <2>4 DEF others
<1>10. Present(after) = stands
  <2>1. \A id \in Urls : after[id] # Absent <=> id \in stands
    BY <1>7, <1>9, RepositoriesAssumption
  <2> QED BY <1>6, <1>8, <2>1 DEF Present
<1>11. after \in RepositoryRowsSet
  <2>1. \A id \in Urls : after[id] \in Repository \cup {Absent}
    BY <1>7, <1>9
  <2>2. after = [id \in Urls |-> after[id]]
    BY <1>3
  <2> QED BY <2>1, <2>2 DEF RepositoryRowsSet
<1>12. ASSUME NEW id \in stands PROVE after[id].pubs \subseteq papers
  <2>1. after[id] = Row(id) /\ id \in there /\ Group(id) \subseteq there
    BY <1>2, <1>6, <1>7
  <2> QED BY <1>1, <1>9, <2>1
<1>13. ASSUME NEW id \in stands PROVE LeadsTo(host, id, after[id])
  <2>1. after[id] = Row(id) /\ id \in there /\ id \in Urls /\ Group(id) \subseteq there
    BY <1>2, <1>6, <1>7
  <2>2. ASSUME NEW y \in Group(id)
        PROVE  /\ \A u \in NamesOf(y, table[y]) : host[u] = host[id]
               /\ table[y].github \in {host[id], Nobody}
               /\ host[id] = Nobody => y = id /\ NamesOf(y, table[y]) = {id}
    <3>1. y \in there /\ y \in Urls /\ table[y] \in Repository /\ LeadsTo(host, y, table[y])
      BY <1>1, <2>1 DEF OneHost, there
    <3>2. host[y] = host[id] /\ (host[id] = Nobody => y = id)
      BY <1>2, <2>1
    <3>3. /\ \A u \in NamesOf(y, table[y]) : host[u] = host[y]
          /\ table[y].github \in {host[y], Nobody}
          /\ host[y] = Nobody => NamesOf(y, table[y]) = {y}
      BY <3>1, LeadsSay
    <3> QED BY <3>2, <3>3
  <2>3. id \in Group(id)
    BY <1>2, <2>1
  <2>4. ASSUME NEW u \in NamesOf(id, Row(id)) PROVE \E y \in Group(id) : u \in NamesOf(y, table[y])
    <3>1. u = id \/ u = Row(id).url \/ u \in Row(id).cited \/ u \in Row(id).merged
      BY <2>4 DEF NamesOf
    <3> QED BY <1>9, <2>3, <3>1 DEF NamesOf
  <2>5. \A u \in NamesOf(id, Row(id)) : host[u] = host[id] /\ (host[id] = Nobody => u = id)
    BY <2>2, <2>4
  <2>6. Row(id).github \in {host[id], Nobody}
    BY <1>9, <2>2, <2>3
  <2>7. id \in NamesOf(id, Row(id)) /\ Row(id) \in Repository
    BY <1>9 DEF NamesOf
  <2> QED BY <2>1, <2>5, <2>6, <2>7, LeadsSay
<1>14. RowsOf(after, papers)
  BY <1>10, <1>11, <1>12, <1>13 DEF RowsOf, OneHost
<1>15. OneEach(after)
  <2> SUFFICES ASSUME NEW id \in stands, NEW other \in stands,
                      after[id].github = after[other].github, after[id].github # Nobody
               PROVE  id = other
    BY <1>10 DEF OneEach
  <2>1. ASSUME NEW x \in stands PROVE \E y \in Group(x) : y \in there /\ after[x].github = table[y].github
    <3>1. x \in there /\ x \in Urls /\ after[x] = Row(x) /\ x \in Group(x) /\ Group(x) \subseteq there
      BY <1>2, <1>6, <1>7
    <3> QED BY <1>9, <3>1
  <2>2. PICK a \in Group(id) : a \in there /\ after[id].github = table[a].github
    BY <2>1
  <2>3. PICK b \in Group(other) : b \in there /\ after[other].github = table[b].github
    BY <2>1
  <2>4. Group(a) = Group(b)
    <3>1. table[a].github = table[b].github /\ table[a].github # Nobody
      BY <2>2, <2>3
    <3>2. SameRepository(table[a], table[b])
      BY <3>1 DEF SameRepository
    <3> QED BY <1>2, <2>2, <2>3, <3>2
  <2>5. Group(id) = Group(other)
    BY <1>2, <1>6, <2>2, <2>3, <2>4
  <2> QED BY <1>6, <2>5
<1>16. \A id \in there : stays[Group(id)] \in stands /\ id \in Group(stays[Group(id)])
  BY <1>2, <1>4, <1>5 DEF stands
<1>17. ASSUME NEW k \in Known(table) PROVE k \in Known(after)
  <2>1. PICK x \in there : x = k \/ k \in table[x].merged
    BY DEF Known, StandsFor, there
  <2>2. k \in Urls
    BY <1>1 DEF Known
  <2> DEFINE id == stays[Group(x)]
  <2>3. id \in stands /\ x \in Group(id)
    BY <1>16
  <2> HIDE DEF id
  <2>4. id = k \/ k \in Row(id).merged
    BY <1>9, <2>1, <2>3
  <2>5. after[id] = Row(id) /\ id \in Present(after)
    BY <1>6, <1>7, <1>10, <2>3
  <2> QED BY <1>8, <2>2, <2>4, <2>5 DEF Known, StandsFor
<1>18. ASSUME NEW u \in Known(table) PROVE folded.home[u] \in Known(table)
  <2>1. u \in Urls
    BY <1>1 DEF Known
  <2>2. CASE \E g \in groups : u \in g
    <3>1. u \in there
      BY <1>2, <2>2
    <3>2. folded.home[u] = stays[Group(u)]
      BY <1>3, <1>4, <2>1, <2>2, <3>1
    <3>3. stays[Group(u)] \in there
      BY <1>6, <1>16, <3>1
    <3> QED BY <3>2, <3>3, PresentKnown DEF there
  <2>3. CASE ~ \E g \in groups : u \in g
    BY <1>3, <1>18, <2>1, <2>3
  <2> QED BY <2>2, <2>3
<1> QED BY <1>14, <1>15, <1>17, <1>18 DEF after

-----------------------------------------------------------------------------
(* The fold of papers and of repositories, all of its writes.              *)

\* nothing but what is to be judged again changes
LEMMA AgainSays ==
    ASSUME NEW papers \in PublicationTables, NEW retry \in SUBSET Present(papers)
    PROVE  LET again == Again(papers, retry)
           IN /\ again \in PublicationTables
              /\ Present(again) = Present(papers) /\ Known(again) = Known(papers)
              /\ Listed(papers) => Listed(again)
              /\ \A p \in Present(again) : again[p].judged = "completed" =>
                    p \notin retry /\ papers[p].judged = "completed"
              /\ retry = {} => again = papers
<1> DEFINE again == Again(papers, retry)
<1>1. /\ DOMAIN papers = Pubs /\ papers = [p \in Pubs |-> papers[p]]
      /\ \A p \in Present(papers) : p \in Pubs /\ papers[p] \in Publication
      /\ \A p \in Pubs : papers[p] \in Publication \cup {Absent}
  BY PaperThere DEF PublicationTables, PublicationRows
<1>2. \A p \in Pubs : again[p] = IF p \in retry THEN [papers[p] EXCEPT !.judged = "none"] ELSE papers[p]
  BY DEF Again
<1>3. DOMAIN again = Pubs /\ again = [p \in Pubs |-> again[p]]
  BY DEF Again
<1> HIDE DEF again
<1>4. ASSUME NEW p \in retry
      PROVE  /\ again[p] \in Publication /\ again[p].judged = "none"
             /\ again[p].merged = papers[p].merged /\ again[p].versions = papers[p].versions
             /\ again[p].listed = papers[p].listed
  <2>1. papers[p] \in Publication /\ again[p] = [papers[p] EXCEPT !.judged = "none"] /\ "none" \in States
    BY <1>1, <1>2, <1>4 DEF States
  <2>2. again[p] \in Publication
    BY <2>1 DEF Publication
  <2> QED BY <2>1, <2>2 DEF Publication
<1>5. again \in PublicationRows
  <2>1. \A p \in Pubs : again[p] \in Publication \cup {Absent}
    BY <1>1, <1>2, <1>4
  <2> QED BY <1>3, <2>1 DEF PublicationRows
<1>6. SameLedger(again, papers)
  <2>1. \A p \in retry : again[p] # Absent /\ papers[p] # Absent
    BY <1>1, <1>4, RowsAssumption
  <2> QED BY <1>2, <1>4, <2>1 DEF SameLedger
<1>7. /\ again \in PublicationTables
      /\ Present(again) = Present(papers) /\ Known(again) = Known(papers)
      /\ Listed(papers) => Listed(again)
  BY <1>5, <1>6, SameLedgerKept
<1>8. \A p \in Present(again) : again[p].judged = "completed" =>
          p \notin retry /\ papers[p].judged = "completed"
  BY <1>1, <1>2, <1>4, <1>7
<1>9. retry = {} => again = papers
  BY <1>1, <1>2, <1>3
<1> QED BY <1>7, <1>8, <1>9 DEF again

\* one list after another
LEMMA Appended ==
    ASSUME NEW one \in Seq(Writes), NEW two \in Seq(Writes)
    PROVE  /\ one \o two \in Seq(Writes)
           /\ Len(one) \in Nat /\ Len(two) \in Nat /\ Len(one \o two) = Len(one) + Len(two)
           /\ \A i \in 1 .. Len(one) : (one \o two)[i] = one[i]
           /\ \A i \in 1 .. Len(one \o two) : i > Len(one) =>
                 i - Len(one) \in 1 .. Len(two) /\ (one \o two)[i] = two[i - Len(one)]
OBVIOUS

\* what is to become of a collection the later of two lists does not write
LEMMA BecomesBefore ==
    ASSUME NEW now, NEW one \in Seq(Writes), NEW two \in Seq(Writes), NEW c, NEW table,
           \A i \in 1 .. Len(two) : two[i].collection # c, Becomes(now, one \o two, c, table)
    PROVE  Becomes(now, one, c, table)
<1> DEFINE all == one \o two
<1>1. /\ Len(one) \in Nat /\ Len(two) \in Nat /\ Len(all) = Len(one) + Len(two)
      /\ \A i \in 1 .. Len(one) : all[i] = one[i]
      /\ \A i \in 1 .. Len(all) : i > Len(one) => i - Len(one) \in 1 .. Len(two) /\ all[i] = two[i - Len(one)]
  BY Appended
<1> HIDE DEF all
<1>2. \A i \in 1 .. Len(all) : i > Len(one) => all[i].collection # c
  BY <1>1
<1>3. \A i \in 1 .. Len(one) : i \in 1 .. Len(all)
  BY <1>1
<1>4. ASSUME NEW i \in 1 .. Len(all), all[i].collection = c, all[i].table = table,
             \A k \in i + 1 .. Len(all) : all[k].collection # c
      PROVE  Becomes(now, one, c, table)
  <2>1. i \in 1 .. Len(one)
    BY <1>1, <1>2, <1>4
  <2>2. \A k \in i + 1 .. Len(one) : k \in i + 1 .. Len(all) /\ k \in 1 .. Len(one)
    BY <1>1, <2>1
  <2>3. \A k \in i + 1 .. Len(one) : one[k].collection # c
    BY <1>1, <1>4, <2>2
  <2> QED BY <1>1, <1>4, <2>1, <2>3 DEF Becomes
<1>5. ASSUME \A i \in 1 .. Len(all) : all[i].collection # c, now[c] = table
      PROVE  Becomes(now, one, c, table)
  BY <1>1, <1>3, <1>5 DEF Becomes
<1> QED BY <1>4, <1>5 DEF Becomes, all

\* The writes for papers that are one: papers and whatever points at them, and
\* what each collection is to become by them.
PaperSteps(writes, papers, persons, links, again, repositories) ==
    /\ writes \in Seq(Writes) /\ Len(writes) <= 5
    /\ \A i \in 1 .. Len(writes) :
          \/ writes[i] = Write("publications", papers)
          \/ writes[i] = Write("publications", again)
          \/ writes[i] = Write("persons", persons)
          \/ i = 3 /\ writes[i] = Write("repo_links", links)
          \/ writes[i] = Write("repositories", repositories)
    /\ \A table : Becomes(rows, writes, "publications", table) => table = again
    /\ \A table : Becomes(rows, writes, "repo_links", table) => table = links
    /\ \A table : Becomes(rows, writes, "repositories", table) => table = repositories

LEMMA OneMore ==
    ASSUME NEW one \in Seq(Writes), NEW w \in Writes
    PROVE  /\ one \o <<w>> \in Seq(Writes) /\ Len(one \o <<w>>) = Len(one) + 1
           /\ \A i \in 1 .. Len(one) : (one \o <<w>>)[i] = one[i]
           /\ (one \o <<w>>)[Len(one) + 1] = w
<1> DEFINE two == <<w>>
           all == one \o two
<1>1. two \in Seq(Writes) /\ Len(two) = 1 /\ two[1] = w
  OBVIOUS
<1> HIDE DEF two
<1>2. /\ all \in Seq(Writes)
      /\ Len(one) \in Nat /\ Len(two) \in Nat /\ Len(all) = Len(one) + Len(two)
      /\ \A i \in 1 .. Len(one) : all[i] = one[i]
      /\ \A i \in 1 .. Len(all) : i > Len(one) =>
            i - Len(one) \in 1 .. Len(two) /\ all[i] = two[i - Len(one)]
  BY <1>1, Appended
<1> HIDE DEF all
<1>3. all[Len(one) + 1] = w /\ Len(all) = Len(one) + 1
  <2> DEFINE i == Len(one) + 1
  <2>1. i \in 1 .. Len(all) /\ i > Len(one) /\ i - Len(one) = 1
    BY <1>1, <1>2
  <2> HIDE DEF i
  <2>2. all[i] = w
    BY <1>1, <1>2, <2>1
  <2> QED BY <1>1, <1>2, <2>2 DEF i
<1> QED BY <1>2, <1>3 DEF all, two

LEMMA FourAndFive ==
    ASSUME NEW a \in Writes, NEW b \in Writes, NEW c \in Writes, NEW d \in Writes, NEW e \in Writes
    PROVE  /\ LET four == <<a, b, c>> \o <<>> \o <<e>>
              IN /\ four \in Seq(Writes) /\ Len(four) = 4
                 /\ four[1] = a /\ four[2] = b /\ four[3] = c /\ four[4] = e
           /\ LET five == <<a, b, c>> \o <<d>> \o <<e>>
              IN /\ five \in Seq(Writes) /\ Len(five) = 5
                 /\ five[1] = a /\ five[2] = b /\ five[3] = c /\ five[4] = d /\ five[5] = e
<1> DEFINE three == <<a, b, c>>
<1>1. three \in Seq(Writes) /\ Len(three) = 3 /\ three[1] = a /\ three[2] = b /\ three[3] = c
  OBVIOUS
<1> HIDE DEF three
<1>2. three \o <<>> = three
  BY <1>1
<1>3. ASSUME NEW w \in Writes
      PROVE  LET four == three \o <<w>>
             IN four \in Seq(Writes) /\ Len(four) = 4 /\ four[1] = a /\ four[2] = b /\ four[3] = c /\ four[4] = w
  <2> DEFINE four == three \o <<w>>
  <2>1. /\ four \in Seq(Writes) /\ Len(four) = Len(three) + 1
        /\ \A i \in 1 .. Len(three) : four[i] = three[i]
        /\ four[Len(three) + 1] = w
    BY <1>1, OneMore
  <2> HIDE DEF four
  <2>2. four \in Seq(Writes) /\ Len(four) = 4 /\ four[1] = a /\ four[2] = b /\ four[3] = c /\ four[4] = w
    BY <1>1, <2>1
  <2> QED BY <2>2 DEF four
<1> DEFINE four == three \o <<d>>
           five == four \o <<e>>
<1>4. four \in Seq(Writes) /\ Len(four) = 4 /\ four[1] = a /\ four[2] = b /\ four[3] = c /\ four[4] = d
  BY <1>3
<1> HIDE DEF four
<1>5. /\ five \in Seq(Writes) /\ Len(five) = 5
      /\ five[1] = a /\ five[2] = b /\ five[3] = c /\ five[4] = d /\ five[5] = e
  <2>1. /\ five \in Seq(Writes) /\ Len(five) = Len(four) + 1
        /\ \A i \in 1 .. Len(four) : five[i] = four[i]
        /\ five[Len(four) + 1] = e
    BY <1>4, OneMore
  <2> HIDE DEF five
  <2> QED BY <1>4, <2>1
<1> QED BY <1>2, <1>3, <1>5 DEF three, four

LEMMA PaperStepsAre ==
    ASSUME rows \in AllRows,
           NEW map, NEW retry, NEW papers \in PublicationTables, NEW persons \in PersonTables,
           NEW links \in LinkTables,
           Again(papers, retry) \in PublicationTables, Moved(map) \in RepositoryRowsSet,
           retry = {} => Again(papers, retry) = papers,
           ~Folds(map) => /\ links = rows.repo_links /\ Moved(map) = rows.repositories /\ retry = {},
           papers = rows.publications => ~Folds(map)
    PROVE  PaperSteps(PaperWrites(map, papers, persons, links, retry),
                      papers, persons, links, Again(papers, retry), Moved(map))
<1> DEFINE again == Again(papers, retry)
           repositories == Moved(map)
           wp == Write("publications", papers)
           wn == Write("persons", persons)
           wl == Write("repo_links", links)
           wa == Write("publications", again)
           wr == Write("repositories", repositories)
           writes == PaperWrites(map, papers, persons, links, retry)
<1> SUFFICES PaperSteps(writes, papers, persons, links, again, repositories)
  OBVIOUS
<1>1. wp \in Writes /\ wn \in Writes /\ wl \in Writes /\ wa \in Writes /\ wr \in Writes
  BY WriteMade
<1>2. /\ wp.collection = "publications" /\ wp.table = papers
      /\ wn.collection = "persons" /\ wn.table = persons
      /\ wl.collection = "repo_links" /\ wl.table = links
      /\ wa.collection = "publications" /\ wa.table = again
      /\ wr.collection = "repositories" /\ wr.table = repositories
  BY DEF Write
<1>3. /\ rows["publications"] = rows.publications /\ rows["repo_links"] = rows.repo_links
      /\ rows["repositories"] = rows.repositories
  BY DEF AllRows
<1>4. /\ papers = rows.publications => writes = <<>>
      /\ papers # rows.publications /\ ~Folds(map) => writes = <<wp>>
      /\ papers # rows.publications /\ Folds(map) => writes \in Seq(Writes)
      /\ papers # rows.publications /\ Folds(map) /\ retry = {} =>
            /\ Len(writes) = 4 /\ writes[1] = wp /\ writes[2] = wn /\ writes[3] = wl /\ writes[4] = wr
      /\ papers # rows.publications /\ Folds(map) /\ retry # {} =>
            /\ Len(writes) = 5 /\ writes[1] = wp /\ writes[2] = wn /\ writes[3] = wl /\ writes[4] = wa
            /\ writes[5] = wr
  <2>1. writes = IF papers = rows.publications THEN <<>>
                 ELSE IF ~Folds(map) THEN <<wp>>
                 ELSE <<wp, wn, wl>> \o (IF retry = {} THEN <<>> ELSE <<wa>>) \o <<wr>>
    BY DEF PaperWrites
  <2> HIDE DEF writes, wp, wn, wl, wa, wr
  <2> DEFINE four == <<wp, wn, wl>> \o <<>> \o <<wr>>
             five == <<wp, wn, wl>> \o <<wa>> \o <<wr>>
  <2>2. /\ four \in Seq(Writes) /\ Len(four) = 4
        /\ four[1] = wp /\ four[2] = wn /\ four[3] = wl /\ four[4] = wr
        /\ five \in Seq(Writes) /\ Len(five) = 5
        /\ five[1] = wp /\ five[2] = wn /\ five[3] = wl /\ five[4] = wa /\ five[5] = wr
    BY <1>1, FourAndFive
  <2>3. /\ papers = rows.publications => writes = <<>>
        /\ papers # rows.publications /\ ~Folds(map) => writes = <<wp>>
        /\ papers # rows.publications /\ Folds(map) => writes = IF retry = {} THEN four ELSE five
    BY <2>1
  <2> HIDE DEF four, five
  <2> QED BY <2>2, <2>3
<1>0. /\ again \in PublicationTables /\ repositories \in RepositoryRowsSet
      /\ retry = {} => again = papers
      /\ ~Folds(map) => links = rows.repo_links /\ repositories = rows.repositories /\ retry = {}
  OBVIOUS
<1> HIDE DEF wp, wn, wl, wa, wr, writes, again, repositories
<1>5. CASE papers = rows.publications
  <2>1. writes = <<>> /\ again = papers /\ links = rows.repo_links /\ repositories = rows.repositories
    BY <1>0, <1>4, <1>5
  <2>2. \A c, table : Becomes(rows, writes, c, table) => table = rows[c]
    BY <2>1, BecomesNow
  <2> QED BY <1>3, <1>5, <2>1, <2>2 DEF PaperSteps
<1>6. CASE papers # rows.publications /\ ~Folds(map)
  <2>1. /\ writes = <<wp>> /\ again = papers /\ links = rows.repo_links /\ repositories = rows.repositories
    BY <1>0, <1>4, <1>6
  <2>2. /\ Len(writes) = 1 /\ writes[1] = wp /\ writes \in Seq(Writes)
        /\ \A i \in 1 .. Len(writes) : i = 1
    BY <1>1, <2>1
  <2>3. \A table : Becomes(rows, writes, "publications", table) => table = again
    <3>1. \A k \in 1 + 1 .. Len(writes) : writes[k].collection # "publications"
      BY <2>2
    <3>2. again = papers
      BY <2>1
    <3> QED BY <1>2, <2>2, <3>1, <3>2, BecomesLast
  <2>4. \A c, table : c # "publications" /\ Becomes(rows, writes, c, table) => table = rows[c]
    BY <1>2, <2>2, BecomesLast
  <2> QED BY <1>3, <2>1, <2>2, <2>3, <2>4 DEF PaperSteps, wp
<1>7. CASE papers # rows.publications /\ Folds(map) /\ retry = {}
  <2>1. again = papers
    BY <1>0, <1>7
  <2>2. /\ Len(writes) = 4 /\ writes[1] = wp /\ writes[2] = wn /\ writes[3] = wl /\ writes[4] = wr
        /\ writes \in Seq(Writes)
    BY <1>4, <1>7
  <2>3. \A i \in 1 .. Len(writes) : i = 1 \/ i = 2 \/ i = 3 \/ i = 4
    BY <2>2
  <2>4. \A table : Becomes(rows, writes, "publications", table) => table = again
    <3>1. \A k \in 1 + 1 .. Len(writes) : writes[k].collection # "publications"
      BY <1>2, <2>2, <2>3
    <3> QED BY <1>2, <2>1, <2>2, <3>1, BecomesLast
  <2>5. \A table : Becomes(rows, writes, "repo_links", table) => table = links
    <3>1. \A k \in 3 + 1 .. Len(writes) : writes[k].collection # "repo_links"
      BY <1>2, <2>2, <2>3
    <3> QED BY SMTT(40), <1>2, <2>2, <3>1, BecomesLast
  <2>6. \A table : Becomes(rows, writes, "repositories", table) => table = repositories
    BY <1>2, <2>2, BecomesLast
  <2> QED BY <2>2, <2>3, <2>4, <2>5, <2>6 DEF PaperSteps, wp, wn, wl, wr
<1>8. CASE papers # rows.publications /\ Folds(map) /\ retry # {}
  <2>2. /\ Len(writes) = 5 /\ writes[1] = wp /\ writes[2] = wn /\ writes[3] = wl /\ writes[4] = wa
        /\ writes[5] = wr /\ writes \in Seq(Writes)
    BY <1>4, <1>8
  <2>3. \A i \in 1 .. Len(writes) : i = 1 \/ i = 2 \/ i = 3 \/ i = 4 \/ i = 5
    BY <2>2
  <2>4. \A table : Becomes(rows, writes, "publications", table) => table = again
    <3>1. \A k \in 4 + 1 .. Len(writes) : writes[k].collection # "publications"
      BY <1>2, <2>2, <2>3
    <3> QED BY <1>2, <2>2, <3>1, BecomesLast
  <2>5. \A table : Becomes(rows, writes, "repo_links", table) => table = links
    <3>1. \A k \in 3 + 1 .. Len(writes) : writes[k].collection # "repo_links"
      BY <1>2, <2>2, <2>3
    <3> QED BY <1>2, <2>2, <3>1, BecomesLast
  <2>6. \A table : Becomes(rows, writes, "repositories", table) => table = repositories
    BY <1>2, <2>2, BecomesLast
  <2> QED BY <2>2, <2>3, <2>4, <2>5, <2>6 DEF PaperSteps, wp, wn, wl, wa, wr
<1> QED BY <1>5, <1>6, <1>7, <1>8

\* What a fold is to leave of each collection, and why it may.
FoldSays(writes, papers, again, persons, links, repositories, result, then, texts) ==
    /\ papers \in PublicationTables /\ again \in PublicationTables
    /\ persons \in PersonTables /\ then \in PersonTables /\ links \in LinkTables
    /\ PaperSteps(writes, papers, persons, links, again, repositories)
    /\ Known(rows.publications) \subseteq Known(papers) /\ Known(again) = Known(papers)
    /\ Present(papers) \subseteq Present(rows.publications) /\ Present(again) = Present(papers)
    /\ ~job.torn => /\ Listed(papers) /\ Listed(again) /\ AllJudged(again, links)
                    /\ AllAuthored(papers, persons)
    /\ then.authored = persons.authored
    /\ persons.authored \subseteq Known(rows.publications)
    /\ Present(links) \subseteq Known(rows.publications)
    /\ persons.contributed \subseteq Known(rows.repositories)
    /\ then.contributed \subseteq Known(rows.repositories)
    /\ RowsOf(repositories, Known(rows.publications)) /\ RowsOf(result, Known(rows.publications))
    /\ Known(rows.repositories) \subseteq Known(repositories) /\ Known(repositories) \subseteq Known(result)
    /\ Keeps(texts, rows.repo_links, links)

\* the writes for repositories that are one, if any are
LastWrites(repositories, result, then) ==
    IF result = repositories THEN <<>>
    ELSE <<Write("repositories", result), Write("persons", then)>>

\* The writes of such a fold leave the rows as they should be.
LEMMA FoldLeaves ==
    ASSUME HarvestInv, job.stage = "idle",
           NEW papers, NEW again, NEW persons, NEW then, NEW links,
           NEW repositories, NEW result, NEW writes, NEW texts,
           FoldSays(writes, papers, again, persons, links, repositories, result, then, texts)
    PROVE  LET all == writes \o LastWrites(repositories, result, then)
           IN /\ Leaves(all, texts)
              /\ \A table : Becomes(rows, all, "repositories", table) => table = result
<1>0. /\ papers \in PublicationTables /\ again \in PublicationTables
      /\ persons \in PersonTables /\ then \in PersonTables /\ links \in LinkTables
      /\ PaperSteps(writes, papers, persons, links, again, repositories)
      /\ Known(rows.publications) \subseteq Known(papers) /\ Known(again) = Known(papers)
      /\ Present(papers) \subseteq Present(rows.publications) /\ Present(again) = Present(papers)
      /\ ~job.torn => /\ Listed(papers) /\ Listed(again) /\ AllJudged(again, links)
                      /\ AllAuthored(papers, persons)
      /\ then.authored = persons.authored
      /\ persons.authored \subseteq Known(rows.publications)
      /\ Present(links) \subseteq Known(rows.publications)
      /\ persons.contributed \subseteq Known(rows.repositories)
      /\ then.contributed \subseteq Known(rows.repositories)
      /\ RowsOf(repositories, Known(rows.publications)) /\ RowsOf(result, Known(rows.publications))
      /\ Known(rows.repositories) \subseteq Known(repositories) /\ Known(repositories) \subseteq Known(result)
      /\ Keeps(texts, rows.repo_links, links)
  BY DEF FoldSays
<1> USE <1>0
<1> DEFINE known == Known(rows.publications)
           found == Known(rows.repositories)
           tail == LastWrites(repositories, result, then)
           all == writes \o tail
           n == Len(writes)
<1>1. /\ writes \in Seq(Writes) /\ n \in Nat /\ n <= 5
      /\ repositories \in RepositoryRowsSet /\ result \in RepositoryRowsSet
      /\ OneHost(host, repositories) /\ OneHost(host, result)
      /\ \A u \in Present(repositories) : repositories[u].pubs \subseteq known
      /\ \A u \in Present(result) : result[u].pubs \subseteq known
  BY DEF PaperSteps, RowsOf
<1>2. /\ tail \in Seq(Writes) /\ Len(tail) <= 2
      /\ \A i \in 1 .. Len(tail) : result # repositories /\ (i = 1 \/ i = 2)
      /\ result # repositories => /\ Len(tail) = 2 /\ tail[1] = Write("repositories", result)
                                  /\ tail[2] = Write("persons", then)
      /\ result = repositories => tail = <<>>
  <2>1. Write("repositories", result) \in Writes /\ Write("persons", then) \in Writes
    BY <1>1, WriteMade
  <2> QED BY <2>1 DEF LastWrites
<1> HIDE DEF tail, known, found
<1>3. /\ all \in Seq(Writes) /\ Len(all) = n + Len(tail) /\ Len(tail) \in Nat
      /\ \A i \in 1 .. n : all[i] = writes[i]
      /\ \A i \in 1 .. Len(all) : i > n => i - n \in 1 .. Len(tail) /\ all[i] = tail[i - n]
  BY <1>1, <1>2, Appended
<1> HIDE DEF all
<1>4. ASSUME NEW i \in 1 .. Len(all)
      PROVE  \/ i <= n /\ all[i] = Write("publications", papers)
             \/ i <= n /\ all[i] = Write("publications", again)
             \/ i <= n /\ all[i] = Write("persons", persons)
             \/ i = 3 /\ all[i] = Write("repo_links", links)
             \/ i <= n /\ all[i] = Write("repositories", repositories)
             \/ i = n + 1 /\ all[i] = Write("repositories", result)
             \/ i = n + 2 /\ all[i] = Write("persons", then)
  <2>1. CASE i <= n
    <3>1. i \in 1 .. n
      BY <1>1, <1>3, <2>1
    <3> QED BY <1>3, <2>1, <3>1 DEF PaperSteps
  <2>2. CASE i > n
    <3>1. i - n \in 1 .. Len(tail) /\ all[i] = tail[i - n]
      BY <1>3, <2>2
    <3>2. i - n = 1 \/ i - n = 2
      BY <1>2, <3>1
    <3> QED BY <1>1, <1>2, <3>1, <3>2
  <2> QED BY <1>1, <1>3, <2>1, <2>2
<1>5. ASSUME NEW i \in 1 .. Len(all)
      PROVE  /\ all[i].collection = "publications" => i <= n /\ all[i].table \in {papers, again}
             /\ all[i].collection = "persons" =>
                   /\ all[i].table.authored = persons.authored
                   /\ all[i].table.contributed \subseteq found
             /\ all[i].collection = "repo_links" => i = 3 /\ all[i].table = links
             /\ all[i].collection = "repositories" =>
                   \/ i <= n /\ all[i].table = repositories
                   \/ i = n + 1 /\ all[i].table = result
             /\ all[i].collection \in Collections
  BY <1>4 DEF Write, Collections, found
<1>6. \A c, table : c \notin {"repositories", "persons"} /\ Becomes(rows, all, c, table) =>
          Becomes(rows, writes, c, table)
  <2> SUFFICES ASSUME NEW c, NEW table, c # "repositories", c # "persons", Becomes(rows, all, c, table)
               PROVE  Becomes(rows, writes, c, table)
    OBVIOUS
  <2>1. \A i \in 1 .. Len(tail) : tail[i].collection # c
    BY <1>2 DEF Write
  <2> QED BY <1>1, <1>2, <2>1, BecomesBefore DEF all
<1>7. /\ \A table : Becomes(rows, all, "publications", table) => table = again
      /\ \A table : Becomes(rows, all, "repo_links", table) => table = links
  BY <1>6 DEF PaperSteps
<1>8. ASSUME NEW table, Becomes(rows, all, "persons", table)
      PROVE  table.authored = persons.authored \/ table = rows.persons
  BY <1>5, <1>8, TablesType DEF Becomes
<1>9. ASSUME NEW table, Becomes(rows, all, "repositories", table) PROVE table = result
  <2>1. CASE result = repositories
    <3>1. tail = <<>>
      BY <1>2, <2>1
    <3>2. \A i \in 1 .. Len(tail) : tail[i].collection # "repositories"
      BY <1>2, <2>1
    <3>3. Becomes(rows, writes, "repositories", table)
      BY <1>1, <1>2, <1>9, <3>2, BecomesBefore DEF all
    <3> QED BY <2>1, <3>3 DEF PaperSteps
  <2>2. CASE result # repositories
    <3>0. n \in Nat /\ Len(all) = n + 2
      <4>1. Len(tail) = 2
        BY <1>2, <2>2
      <4> QED BY <1>1, <1>3, <4>1
    <3>1. n + 1 \in 1 .. Len(all) /\ n + 1 > n /\ (n + 1) - n = 1
      BY <3>0
    <3>2. all[n + 1] = Write("repositories", result)
      BY <1>2, <1>3, <2>2, <3>1
    <3>3. \A k \in (n + 1) + 1 .. Len(all) : k \in 1 .. Len(all) /\ k > n + 1
      BY <3>0
    <3>4. \A k \in (n + 1) + 1 .. Len(all) : all[k].collection # "repositories"
      BY <1>1, <1>5, <3>3
    <3>5. all[n + 1].collection = "repositories" /\ all[n + 1].table = result
      BY <3>2 DEF Write
    <3>6. Len(all) \in Nat
      BY <3>0
    <3> QED BY <1>9, <3>1, <3>4, <3>5, <3>6, BecomesLast
  <2> QED BY <2>1, <2>2
<1>10. ~job.torn => WillBeWhole(rows, all) /\ ListedThroughout(rows, all)
  <2> SUFFICES ASSUME ~job.torn PROVE WillBeWhole(rows, all) /\ ListedThroughout(rows, all)
    OBVIOUS
  <2>1. Listed(rows.publications) /\ AllAuthored(rows.publications, rows.persons)
    BY DEF HarvestInv, JobInv, WholeInv, ListedThroughout
  <2>2. ListedThroughout(rows, all)
    BY <1>5, <2>1 DEF ListedThroughout
  <2>3. AllAuthored(again, persons) /\ AllAuthored(again, rows.persons)
    BY <2>1 DEF AllAuthored
  <2>4. \A table : Becomes(rows, all, "persons", table) => AllAuthored(again, table)
    BY <1>8, <2>3 DEF AllAuthored
  <2> QED BY <1>7, <2>2, <2>4 DEF WillBeWhole
<1>11. KeepsEvidence(rows, all, texts)
  BY <1>5 DEF KeepsEvidence
<1>12. ASSUME NEW kind \in Kinds PROVE Resolves(rows, all, kind)
  <2>1. \A c \in Collections : Refers(kind, c, rows[c]) \subseteq Known(rows[kind])
    BY DEF HarvestInv, Resolves
  <2>2. kind = "publications" \/ kind = "repositories"
    BY DEF Kinds
  <2>3. rows["publications"] = rows.publications /\ rows["repositories"] = rows.repositories
    BY TablesType
  <2>4. ASSUME NEW i \in 1 .. Len(all) PROVE Refers(kind, all[i].collection, all[i].table) \subseteq Known(rows[kind])
    <3> DEFINE c == all[i].collection
               table == all[i].table
    <3>1. CASE kind = "publications"
      <4>1. /\ c = "persons" => table.authored = persons.authored
            /\ c = "repo_links" => table = links
            /\ c = "repositories" => table = repositories \/ table = result
        BY <1>5
      <4> HIDE DEF c, table
      <4>2. c = "persons" => table.authored \subseteq known
        BY <4>1 DEF known
      <4>3. c = "repo_links" => Present(table) \subseteq known
        BY <4>1 DEF known
      <4>4. c = "repositories" => UNION {table[u].pubs : u \in Present(table)} \subseteq known
        BY <1>1, <4>1
      <4>5. Refers(kind, c, table) \subseteq known
        BY <3>1, <4>2, <4>3, <4>4 DEF Refers
      <4> QED BY <2>3, <3>1, <4>5 DEF known, c, table
    <3>2. CASE kind = "repositories"
      <4>1. c = "persons" => table.contributed \subseteq found
        BY <1>5
      <4> HIDE DEF c, table
      <4>2. Refers(kind, c, table) \subseteq found
        BY <3>2, <4>1 DEF Refers
      <4> QED BY <2>3, <3>2, <4>2 DEF found, c, table
    <3> QED BY <2>2, <3>1, <3>2
  <2>5. ASSUME NEW i \in 1 .. Len(all), all[i].collection = kind
        PROVE  /\ Known(rows[kind]) \subseteq Known(all[i].table)
               /\ \A k \in i + 1 .. Len(all) : all[k].collection = kind =>
                     Known(all[i].table) \subseteq Known(all[k].table)
    <3>1. \A k \in i + 1 .. Len(all) : k \in 1 .. Len(all) /\ k > i
      BY <1>1, <1>3
    <3>2. CASE kind = "publications"
      <4>1. all[i].table = papers \/ all[i].table = again
        BY <1>5, <2>5, <3>2
      <4>2. \A k \in i + 1 .. Len(all) : all[k].collection = kind => all[k].table = papers \/ all[k].table = again
        BY <1>5, <3>1, <3>2
      <4> QED BY <2>3, <3>2, <4>1, <4>2
    <3>3. CASE kind = "repositories"
      <4>1. \/ i <= n /\ all[i].table = repositories
            \/ i = n + 1 /\ all[i].table = result
        BY <1>5, <2>5, <3>3
      <4>2. \A k \in i + 1 .. Len(all) : all[k].collection = kind =>
               \/ k <= n /\ all[k].table = repositories
               \/ k = n + 1 /\ all[k].table = result
        BY <1>5, <3>1, <3>3
      <4>3. \A k \in i + 1 .. Len(all) : all[k].collection = kind =>
               all[i].table = repositories /\ all[k].table \in {repositories, result}
        BY <1>1, <3>1, <4>1, <4>2
      <4>4. found \subseteq Known(all[i].table)
        BY <4>1 DEF found
      <4> QED BY <2>3, <3>3, <4>3, <4>4 DEF found
    <3> QED BY <2>2, <3>2, <3>3
  <2> QED BY <2>1, <2>4, <2>5 DEF Resolves
<1>13. OneHosts(rows, all, host)
  BY <1>1, <1>5 DEF HarvestInv, GitHubInv, OneHosts
<1>14. Leaves(all, texts)
  BY <1>1, <1>2, <1>3, <1>10, <1>11, <1>12, <1>13 DEF Leaves
<1> QED BY <1>9, <1>14 DEF all, tail

\* papers that are to be judged again stand for others
LEMMA RetrySays ==
    ASSUME HarvestInv, NEW map, StandIns(map), NEW links, NEW p \in ToRetry(map, links)
    PROVE  p \in Present(FoldedPublications(map))
<1>1. PICK q \in Pubs : map[q] # q /\ p = map[q]
  BY DEF ToRetry
<1>2. p \in Present(rows.publications) /\ map[p] = p
  BY <1>1 DEF StandIns
<1> QED BY <1>2, FoldedPapersSay

\* what counts as judged after a fold has nothing left to judge
LEMMA FoldedJudged ==
    ASSUME HarvestInv, NEW map, StandIns(map), AllJudged(rows.publications, rows.repo_links)
    PROVE  LET links == RepointedLinks(map)
           IN AllJudged(Again(FoldedPublications(map), ToRetry(map, links)), links)
<1> DEFINE was == rows.publications
           papers == FoldedPublications(map)
           links == RepointedLinks(map)
           retry == ToRetry(map, links)
           again == Again(papers, retry)
<1>1. /\ papers \in PublicationTables
      /\ \A p : p \in Present(papers) <=> p \in Present(was) /\ map[p] = p
      /\ \A p \in Present(papers) :
            (\A q \in Pubs : map[q] = p => q = p) => papers[p].judged = was[p].judged
  BY FoldedPapersSay
<1>2. \A p \in Pubs : (\A q \in Pubs : map[q] = p <=> q = p) => links[p] = rows.repo_links[p]
  BY RepointedSays
<1>3. \A p \in retry : p \in Present(papers)
  BY RetrySays
<1>4. \A p \in Pubs : p \notin retry /\ (\E q \in Pubs : map[q] = p /\ q # p) =>
          \A u \in LinksOf(links, p) : links[p][u].status = "classified"
  BY DEF ToRetry
<1>5. Present(was) \subseteq Pubs
  BY TablesType
<1> HIDE DEF papers, links, retry, again, was
<1>6. /\ Present(again) = Present(papers)
      /\ \A p \in Present(again) : again[p].judged = "completed" => p \notin retry /\ papers[p].judged = "completed"
  BY <1>1, <1>3, AgainSays DEF again
<1>7. ASSUME NEW p \in Present(again), again[p].judged = "completed", NEW u \in LinksOf(links, p)
      PROVE  links[p][u].status = "classified"
  <2>1. p \notin retry /\ papers[p].judged = "completed" /\ p \in Present(papers) /\ p \in Present(was)
        /\ map[p] = p /\ p \in Pubs
    BY <1>1, <1>5, <1>6, <1>7
  <2>2. CASE \E q \in Pubs : map[q] = p /\ q # p
    BY <1>4, <1>7, <2>1, <2>2
  <2>3. CASE \A q \in Pubs : map[q] = p => q = p
    <3>1. was[p].judged = "completed" /\ links[p] = rows.repo_links[p]
      BY <1>1, <1>2, <2>1, <2>3
    <3>2. u \in LinksOf(rows.repo_links, p)
      BY <1>7, <3>1 DEF LinksOf
    <3> QED BY <2>1, <3>1, <3>2 DEF AllJudged, was
  <2> QED BY <2>2, <2>3
<1> QED BY <1>7 DEF AllJudged, again, retry, papers, links

LEMMA DedupStep ==
    ASSUME HarvestInv, NEW selection \in Selections, Dedup(selection)
    PROVE  HarvestInv'
<1>1. MayStart("dedup") /\ UNCHANGED <<rows, files, github, raw>>
  BY DEF Dedup
<1>2. PICK map : StandIns(map) /\ DedupBy(map, selection)
  <2>1. PICK pairs \in PairsByKey(selection) : DedupBy(IdMap(pairs), selection)
    BY DEF Dedup
  <2>2. UNION pairs \subseteq Present(rows.publications) /\ UNION pairs \subseteq Pubs /\ IsFiniteSet(UNION pairs)
    BY PairsSay
  <2>3. StandIns(IdMap(pairs))
    BY <2>2, IdMapSays DEF StandIns
  <2> QED BY <2>1, <2>3
<1> DEFINE was == rows.publications
           papers == FoldedPublications(map)
           links == RepointedLinks(map)
           retry == ToRetry(map, links)
           again == Again(papers, retry)
           persons == [rows.persons EXCEPT !.authored = {map[p] : p \in rows.persons.authored}]
           repositories == Moved(map)
           alone == [table |-> repositories, home |-> [u \in Urls |-> u]]
           list == PaperWrites(map, papers, persons, links, retry)
           after(folded) == [persons EXCEPT !.contributed = {folded.home[u] : u \in persons.contributed}]
           tail(folded) == IF folded.table = repositories THEN <<>>
                           ELSE <<Write("repositories", folded.table), Write("persons", after(folded))>>
<1>3. PICK folded \in IF selection = All THEN FoldedRepositories(repositories) ELSE {alone} :
          Started("dedup", selection, list \o tail(folded))
  BY <1>2, Zenon DEF DedupBy
<1>4. /\ was \in PublicationTables /\ rows \in AllRows
      /\ rows.persons \in PersonTables /\ files \in [Pubs -> Docs \cup {NoDoc}]
      /\ Present(was) \subseteq Pubs /\ GitHubTypeOK /\ job.stage = "idle"
      /\ rows["publications"] = was /\ rows["persons"] = rows.persons
      /\ rows["repo_links"] = rows.repo_links /\ rows["repositories"] = rows.repositories
  BY <1>1, TablesType DEF HarvestInv, TablesInv, MayStart
<1>5. /\ papers \in PublicationTables
      /\ \A p : p \in Present(papers) <=> p \in Present(was) /\ map[p] = p
      /\ Known(was) \subseteq Known(papers)
      /\ Listed(was) /\ AllAuthored(was, rows.persons) => Listed(papers)
  BY <1>2, FoldedPapersSay
<1>6. /\ links \in LinkTables /\ \A p : p \in Present(links) <=> \E q \in Present(rows.repo_links) : map[q] = p
      /\ Keeps(files', rows.repo_links, links)
      /\ \A p \in Pubs : (\A q \in Pubs : map[q] = p <=> q = p) => links[p] = rows.repo_links[p]
  BY <1>2, RepointedSays
<1>7. retry \subseteq Present(papers)
  BY <1>2, RetrySays
<1>8. RowsOf(repositories, Known(was)) /\ Known(repositories) = Known(rows.repositories)
  BY <1>2, MovedSays
<1>9. map \in [Pubs -> Pubs] /\ \A p \in Known(was) : map[p] \in Known(was)
  BY <1>2, StandInsKnown DEF StandIns
<1>10. /\ rows.persons.authored \subseteq Known(was) /\ Present(rows.repo_links) \subseteq Known(was)
       /\ rows.persons.contributed \subseteq Known(rows.repositories)
  <2>1. \A kind \in Kinds : \A c \in Collections : Refers(kind, c, rows[c]) \subseteq Known(rows[kind])
    BY DEF HarvestInv, Resolves
  <2>2. /\ Refers("publications", "persons", rows.persons) \subseteq Known(was)
        /\ Refers("publications", "repo_links", rows.repo_links) \subseteq Known(was)
        /\ Refers("repositories", "persons", rows.persons) \subseteq Known(rows.repositories)
    BY <1>4, <2>1 DEF Kinds, Collections
  <2> QED BY <2>2 DEF Refers
<1>11. ~Folds(map) => links = rows.repo_links /\ repositories = rows.repositories /\ retry = {}
  <2> SUFFICES ASSUME ~Folds(map) PROVE links = rows.repo_links /\ repositories = rows.repositories /\ retry = {}
    OBVIOUS
  <2>1. retry = {}
    BY DEF ToRetry, Folds
  <2>2. links = rows.repo_links
    <3>1. \A p \in Pubs : links[p] = rows.repo_links[p]
      BY <1>6 DEF Folds
    <3>2. rows.repo_links \in LinkTables
      BY TablesType
    <3> HIDE DEF links
    <3> QED BY <1>6, <3>1, <3>2 DEF LinkTables, LinkRows
  <2>3. repositories = rows.repositories
    <3>1. rows.repositories \in RepositoryRowsSet
      BY TablesType
    <3>2. repositories = [u \in Urls |-> rows.repositories[u]]
      BY DEF Moved
    <3> QED BY <3>1, <3>2 DEF RepositoryRowsSet
  <2> QED BY <2>1, <2>2, <2>3
<1>12. papers = was => ~Folds(map)
  BY <1>2, <1>5 DEF StandIns, Folds
<1> HIDE DEF papers, links, retry, repositories, was
<1>13. /\ again \in PublicationTables /\ Present(again) = Present(papers) /\ Known(again) = Known(papers)
       /\ Listed(papers) => Listed(again)
       /\ retry = {} => again = papers
  BY <1>5, <1>7, AgainSays
<1> HIDE DEF again
<1>14. /\ persons \in PersonTables /\ persons.contributed = rows.persons.contributed
       /\ persons.authored = {map[p] : p \in rows.persons.authored}
       /\ persons.authored \subseteq Known(was)
  <2> DEFINE authored == {map[p] : p \in rows.persons.authored}
  <2>1. authored \in SUBSET Pubs
    BY <1>4, <1>9 DEF PersonTables
  <2>2. authored \subseteq Known(was)
    BY <1>9, <1>10
  <2> HIDE DEF authored
  <2> QED BY <1>4, <2>1, <2>2 DEF PersonTables, authored
<1> HIDE DEF persons
<1>15. /\ RowsOf(folded.table, Known(was)) /\ Known(repositories) \subseteq Known(folded.table)
       /\ \A u \in Known(repositories) : folded.home[u] \in Known(repositories)
       /\ selection = All => OneEach(folded.table)
  <2>1. CASE selection = All
    BY <1>3, <1>4, <1>8, <2>1, FoldedRepositoriesSay
  <2>2. CASE selection # All
    <3>1. folded = alone
      BY <1>3, <2>2
    <3>2. folded.table = repositories /\ \A u \in Urls : folded.home[u] = u
      BY <3>1
    <3>3. Known(repositories) \subseteq Urls
      BY <1>8, RowThere DEF Known, RowsOf
    <3> QED BY <1>8, <2>2, <3>2, <3>3
  <2> QED BY <2>1, <2>2
<1>16. /\ after(folded) \in PersonTables /\ after(folded).authored = persons.authored
       /\ after(folded).contributed \subseteq Known(rows.repositories)
  <2> DEFINE contributed == {folded.home[u] : u \in persons.contributed}
  <2>1. contributed \subseteq Known(rows.repositories)
    BY <1>8, <1>10, <1>14, <1>15
  <2>2. contributed \in SUBSET Urls
    <3>1. Known(repositories) \subseteq Urls
      BY <1>8, RowThere DEF Known, RowsOf
    <3> QED BY <1>8, <2>1, <3>1
  <2> HIDE DEF contributed
  <2> QED BY <1>14, <2>1, <2>2 DEF PersonTables, contributed
<1>17. PaperSteps(list, papers, persons, links, again, repositories)
  <2>1. repositories \in RepositoryRowsSet
    BY <1>8 DEF RowsOf
  <2> QED BY <1>4, <1>5, <1>6, <1>11, <1>12, <1>13, <1>14, <2>1, PaperStepsAre DEF was, again, repositories, list
<1>18. ~job.torn => /\ Listed(papers) /\ Listed(again) /\ AllJudged(again, links)
                    /\ AllAuthored(papers, persons)
  <2> SUFFICES ASSUME ~job.torn
               PROVE  Listed(papers) /\ Listed(again) /\ AllJudged(again, links) /\ AllAuthored(papers, persons)
    OBVIOUS
  <2>1. Listed(was) /\ AllAuthored(was, rows.persons) /\ AllJudged(was, rows.repo_links)
    BY <1>4 DEF HarvestInv, JobInv, WholeInv, ListedThroughout, was
  <2>2. AllJudged(again, links)
    BY <1>2, <2>1, FoldedJudged DEF again, papers, retry, links, was
  <2>3. AllAuthored(papers, persons)
    <3>1. \A p \in Present(papers) : p \in rows.persons.authored /\ map[p] = p
      BY <1>5, <2>1 DEF AllAuthored
    <3> QED BY <1>14, <3>1 DEF AllAuthored
  <2> QED BY <1>5, <1>13, <2>1, <2>2, <2>3
<1>19. Present(papers) \subseteq Present(was) /\ Present(links) \subseteq Known(was)
  BY <1>5, <1>6, <1>9, <1>10
<1> HIDE DEF list, after, tail
<1> DEFINE all == list \o tail(folded)
<1>20. /\ Leaves(all, files')
       /\ \A table : Becomes(rows, all, "repositories", table) => table = folded.table
  <2> DEFINE result == folded.table
             then == after(folded)
             texts == files'
  <2>1. /\ papers \in PublicationTables /\ again \in PublicationTables /\ persons \in PersonTables
        /\ then \in PersonTables /\ links \in LinkTables
        /\ PaperSteps(list, papers, persons, links, again, repositories)
        /\ job.stage = "idle"
    BY <1>4, <1>5, <1>6, <1>13, <1>14, <1>16, <1>17
  <2>2. /\ Known(rows.publications) \subseteq Known(papers) /\ Known(again) = Known(papers)
        /\ Present(papers) \subseteq Present(rows.publications) /\ Present(again) = Present(papers)
    BY <1>5, <1>13, <1>19 DEF was
  <2>3. ~job.torn => /\ Listed(papers) /\ Listed(again) /\ AllJudged(again, links)
                     /\ AllAuthored(papers, persons)
    BY <1>18
  <2>4. /\ then.authored = persons.authored
        /\ persons.authored \subseteq Known(rows.publications)
        /\ Present(links) \subseteq Known(rows.publications)
        /\ persons.contributed \subseteq Known(rows.repositories)
        /\ then.contributed \subseteq Known(rows.repositories)
    BY <1>10, <1>14, <1>16, <1>19 DEF was
  <2>5. /\ RowsOf(repositories, Known(rows.publications)) /\ RowsOf(result, Known(rows.publications))
        /\ Known(rows.repositories) \subseteq Known(repositories) /\ Known(repositories) \subseteq Known(result)
        /\ Keeps(texts, rows.repo_links, links)
    BY <1>6, <1>8, <1>15 DEF was
  <2> HIDE DEF result, then, texts
  <2>6. LET both == list \o LastWrites(repositories, result, then)
        IN /\ Leaves(both, texts)
           /\ \A table : Becomes(rows, both, "repositories", table) => table = result
    <3>1. FoldSays(list, papers, again, persons, links, repositories, result, then, texts)
      BY <2>1, <2>2, <2>3, <2>4, <2>5 DEF FoldSays
    <3> QED BY <2>1, <3>1, FoldLeaves
  <2> QED BY <2>6 DEF tail, result, then, texts, LastWrites
<1>21. files' \in [Pubs -> Docs \cup {NoDoc}] /\ "dedup" \in Stages \ {"idle"}
  BY <1>1, <1>4 DEF MayStart
<1>22. selection = All => \A table : Becomes(rows, all, "repositories", table) => OneEach(table)
  BY <1>15, <1>20
<1>23. Started("dedup", selection, all)
  BY <1>3
<1> HIDE DEF all
<1> QED BY <1>1, <1>20, <1>21, <1>22, <1>23, StartStep

-----------------------------------------------------------------------------
(* The invariant holds, and what it says of the rows a reader finds.       *)

LEMMA HarvestFirst == Init => HarvestInv
<1> SUFFICES ASSUME Init PROVE HarvestInv
  OBVIOUS
<1>1. PICK imported \in Imported :
        rows = [publications |-> [p \in Pubs |->
                    IF p \in raw THEN [NoPublication EXCEPT !.sources = PdfOf[p]] ELSE Absent],
                persons |-> [authored |-> raw, contributed |-> Present(imported)],
                repo_links |-> [p \in Pubs |-> Absent], repositories |-> imported]
  BY DEF Init
<1> DEFINE papers == [p \in Pubs |-> IF p \in raw THEN [NoPublication EXCEPT !.sources = PdfOf[p]] ELSE Absent]
           persons == [authored |-> raw, contributed |-> Present(imported)]
           links == [p \in Pubs |-> Absent]
<1>2. /\ raw \in Found /\ raw \subseteq Pubs /\ PdfOf \in [Pubs -> SUBSET Docs] /\ Names \subseteq Urls
      /\ Renames \in Nat /\ MaxRuns \in Nat /\ imported \in RepositoryRowsSet
      /\ \A u \in Present(imported) :
            /\ imported[u].pubs \subseteq raw /\ imported[u].github \in Repos /\ imported[u].url = u
            /\ imported[u].cited \subseteq {u} /\ imported[u].merged = {}
  BY GroupAssumption, RowsAssumption DEF Init
<1>3. rows.publications = papers /\ rows.persons = persons /\ rows.repo_links = links /\ rows.repositories = imported
  BY <1>1
<1>4. /\ DOMAIN papers = Pubs /\ \A p : p \in Present(papers) <=> p \in raw
      /\ papers \in PublicationTables /\ Listed(papers)
      /\ \A p \in raw : papers[p].judged = "none" /\ papers[p].merged = {}
  <2>1. ASSUME NEW p \in raw
        PROVE  /\ papers[p] \in Publication /\ papers[p].merged = {} /\ papers[p].versions = {}
               /\ papers[p].listed = {} /\ papers[p].judged = "none"
    BY <1>2, <2>1 DEF NoPublication, Publication, States
  <2>2. \A p \in Pubs : p \notin raw => papers[p] = Absent
    OBVIOUS
  <2>3. DOMAIN papers = Pubs /\ papers = [p \in Pubs |-> papers[p]]
    OBVIOUS
  <2> HIDE DEF papers
  <2>4. \A p : p \in Present(papers) <=> p \in raw
    <3>1. \A p \in raw : papers[p] # Absent
      BY <2>1, RowsAssumption
    <3> QED BY <1>2, <2>2, <2>3, <3>1 DEF Present
  <2>5. papers \in PublicationRows
    <3>1. \A p \in Pubs : papers[p] \in Publication \cup {Absent}
      BY <2>1, <2>2
    <3> QED BY <2>3, <3>1 DEF PublicationRows
  <2>6. \A p \in Present(papers) : Swallows(papers, p)
    BY <2>1, <2>4 DEF Swallows
  <2> QED BY <2>1, <2>3, <2>4, <2>5, <2>6 DEF PublicationTables, Listed
<1>5. links \in LinkTables /\ Present(links) = {}
  BY DEF LinkTables, LinkRows, Present
<1>6. persons \in PersonTables /\ persons.authored = raw /\ persons.contributed = Present(imported)
  BY <1>2, RowThere DEF PersonTables
<1> HIDE DEF papers, persons, links
<1>7. rows \in AllRows
  <2>1. rows = [publications |-> papers, persons |-> persons, repo_links |-> links, repositories |-> imported]
    BY <1>1 DEF papers, persons, links
  <2> QED BY <1>2, <1>4, <1>5, <1>6, <2>1 DEF AllRows
<1>8. /\ job = Idle(0) /\ job.stage = "idle" /\ job.todo = <<>> /\ job.begun = FALSE /\ job.last = "none"
      /\ job.torn = FALSE /\ job.runs = 0 /\ Len(job.todo) = 0
  BY DEF Init, Idle
<1>9. \A c, table : Becomes(rows, job.todo, c, table) => table = rows[c]
  BY <1>8, BecomesNow
<1>10. /\ rows["publications"] = papers /\ rows["persons"] = persons
       /\ rows["repo_links"] = links /\ rows["repositories"] = imported
  BY <1>3, <1>7 DEF AllRows
<1>11. TablesInv
  BY <1>2, <1>7 DEF TablesInv, GitHubTypeOK, Init
<1>12. JobInv
  <2>1. job = [stage |-> "idle", todo |-> <<>>, runs |-> 0, begun |-> FALSE, last |-> "none", torn |-> FALSE]
    BY <1>8 DEF Idle
  <2>2. <<>> \in Seq(Writes) /\ 0 \in 0 .. MaxRuns
    BY <1>2
  <2>3. job \in [stage : Stages \cup {"idle"}, todo : Seq(Writes), runs : 0 .. MaxRuns,
                 begun : BOOLEAN, last : Stages \cup {"none"}, torn : BOOLEAN]
    BY <2>1, <2>2
  <2> QED BY <1>8, <2>3 DEF JobInv
<1>13. WholeInv
  <2>1. AllJudged(papers, links) /\ AllAuthored(papers, persons)
    BY <1>4, <1>6 DEF AllJudged, AllAuthored
  <2>2. WillBeWhole(rows, job.todo)
    BY <1>9, <1>10, <2>1 DEF WillBeWhole
  <2> QED BY <1>3, <1>4, <1>8, <2>1, <2>2 DEF WholeInv, ListedThroughout
<1>14. KeepsEvidence(rows, job.todo, files)
  BY <1>8 DEF KeepsEvidence
<1>15. ASSUME NEW kind \in Kinds PROVE Resolves(rows, job.todo, kind)
  <2>1. raw \subseteq Known(papers)
    BY <1>2, <1>4 DEF Known, StandsFor
  <2>2. Present(imported) \subseteq Known(imported)
    BY <1>2, RowThere DEF Known, StandsFor
  <2>3. UNION {imported[u].pubs : u \in Present(imported)} \subseteq raw
    BY <1>2
  <2>4. \A c \in Collections : Refers("publications", c, rows[c]) \subseteq Known(papers)
    BY <1>5, <1>6, <1>10, <2>1, <2>3 DEF Refers, Collections
  <2>5. \A c \in Collections : Refers("repositories", c, rows[c]) \subseteq Known(imported)
    BY <1>6, <1>10, <2>2 DEF Refers, Collections
  <2> QED BY <1>8, <1>10, <2>4, <2>5 DEF Resolves, Kinds
<1>16. GitHubInv
  <2>1. \A u \in Present(imported) : LeadsTo(host, u, imported[u])
    BY <1>2, <1>3 DEF LeadsTo, NamesOf, Init
  <2>2. \A r \in Repos : host[home[r]] = r
    BY DEF Init
  <2> QED BY <1>3, <1>8, <2>1, <2>2 DEF GitHubInv, OneHosts, OneHost
<1> QED BY <1>11, <1>12, <1>13, <1>14, <1>15, <1>16 DEF HarvestInv

LEMMA HarvestNext == HarvestInv /\ [Next]_vars => HarvestInv'
<1> SUFFICES ASSUME HarvestInv, [Next]_vars PROVE HarvestInv'
  OBVIOUS
<1>1. CASE Collect
  BY <1>1, CollectStep
<1>2. CASE RenameNext
  BY <1>2, RenameStep
<1>3. CASE Normalize
  BY <1>3, NormalizeStep
<1>4. CASE StageNext
  <2>1. PICK force \in BOOLEAN, selection \in Selections :
          \/ FindCodeLinks(force, selection)
          \/ JudgeLinks(force, selection)
          \/ FetchRepositories(force, selection)
    BY <1>4 DEF StageNext
  <2>2. UNCHANGED <<github, raw>>
    BY <1>4 DEF StageNext
  <2> QED BY <2>1, <2>2, SearchStep, VerdictStep, FetchStep
<1>5. CASE \E selection \in Selections : Dedup(selection)
  BY <1>5, DedupStep
<1>6. CASE (WriteNext \/ Die) /\ UNCHANGED <<files, github, raw>>
  BY <1>6, WriteStep, DieStep
<1>7. CASE UNCHANGED vars
  BY <1>7 DEF vars, HarvestInv, TablesInv, JobInv, WholeInv, GitHubInv, GitHubTypeOK
<1> QED BY <1>1, <1>2, <1>3, <1>4, <1>5, <1>6, <1>7 DEF Next

LEMMA HarvestAlways == Spec => []HarvestInv
BY HarvestFirst, HarvestNext, PTL DEF Spec

\* The rows, the raw works, the files and what GitHub says are what they
\* should be (TypeOK): a run only ever writes tables of the right kind.
THEOREM HarvestTypes == Spec => []TypeOK
<1>1. HarvestInv => TypeOK
  <2> SUFFICES ASSUME HarvestInv PROVE TypeOK
    OBVIOUS
  <2>1. job.stage \in Stages \cup {"idle"} /\ Len(job.todo) <= 7 /\ JobTypeOK
    BY DEF HarvestInv, JobInv, JobTypeOK
  <2> QED BY <2>1, TablesType DEF HarvestInv, TablesInv, TypeOK, PublicationTables, PersonTables, LinkTables
<1> QED BY <1>1, HarvestAlways, PTL

\* No link counts as judged on other evidence than it has (NothingUnjudged):
\* _merge_code_link and CodeLinksStage.run ask again when evidence is added,
\* whatever the stages do in between and wherever a run dies.
THEOREM VerdictsStand == Spec => []NothingUnjudged
<1>1. HarvestInv => NothingUnjudged
  <2> SUFFICES ASSUME HarvestInv, NEW p \in Present(rows.repo_links), NEW u \in LinksOf(rows.repo_links, p)
               PROVE  rows.repo_links[p][u].status = "classified" =>
                          rows.repo_links[p][u].judged = rows.repo_links[p][u].found
    BY DEF NothingUnjudged
  <2> DEFINE links == rows.repo_links
  <2>1. links \in LinkTables
    BY TablesType
  <2> HIDE DEF links
  <2>2. p \in Pubs /\ links[p] # Absent /\ links[p] \in [Urls -> Link \cup {Absent}]
    BY <2>1 DEF LinkTables, LinkRows, Present, links
  <2>3. u \in Urls /\ links[p][u] # Absent
    BY <2>2 DEF LinksOf, Present, links
  <2>4. links[p][u] \in SoundLinks(u)
    BY <2>1, <2>2, <2>3 DEF LinkTables
  <2> QED BY <2>4 DEF SoundLinks, SoundLink, links
<1> QED BY <1>1, HarvestAlways, PTL

\* Between runs, a paper that counts as judged has no link left to judge
\* (CompletedIsJudged), unless a run has died between two of its writes:
\* needs_attempt would never select it again.
THEOREM JudgedIsJudged == Spec => []CompletedIsJudged
<1>1. HarvestInv => CompletedIsJudged
  <2> SUFFICES ASSUME HarvestInv, AtRest, ~job.torn
               PROVE  AllJudged(rows.publications, rows.repo_links)
    BY DEF CompletedIsJudged, AllJudged
  <2>1. ~job.begun
    BY DEF HarvestInv, JobInv, AtRest
  <2> QED BY <2>1 DEF HarvestInv, WholeInv
<1> QED BY <1>1, HarvestAlways, PTL

\* Whatever names a paper finds one row that stands for it, whatever names a
\* repository finds at least one, and the ledgers of folded papers are whole
\* (ReferencesResolve), between any two writes of a fold or a re-keying and
\* wherever a run dies.
THEOREM ReferencesStand == Spec => []ReferencesResolve
<1>1. HarvestInv => ReferencesResolve
  <2> SUFFICES ASSUME HarvestInv PROVE ReferencesResolve
    OBVIOUS
  <2> DEFINE papers == rows.publications
             named == rows.persons.authored \cup Present(rows.repo_links)
                         \cup UNION {rows.repositories[u].pubs : u \in Present(rows.repositories)}
  <2>1. papers \in PublicationTables
    BY TablesType
  <2>2. /\ \A c \in Collections : Refers("publications", c, rows[c]) \subseteq Known(rows["publications"])
        /\ \A c \in Collections : Refers("repositories", c, rows[c]) \subseteq Known(rows["repositories"])
    BY DEF HarvestInv, Resolves, Kinds
  <2>3. /\ Refers("publications", "persons", rows.persons) \subseteq Known(papers)
        /\ Refers("publications", "repo_links", rows.repo_links) \subseteq Known(papers)
        /\ Refers("publications", "repositories", rows.repositories) \subseteq Known(papers)
        /\ Refers("repositories", "persons", rows.persons) \subseteq Known(rows.repositories)
    BY <2>2, TablesType DEF Collections
  <2>4. named \subseteq Known(papers)
    BY <2>3 DEF Refers
  <2>5. \A u \in rows.persons.contributed : StandsFor(rows.repositories, u) # {}
    BY <2>3 DEF Refers, Known
  <2> HIDE DEF named, papers
  <2>6. ASSUME NEW p \in named PROVE Cardinality(StandsFor(papers, p)) = 1
    <3>1. PICK q : q \in StandsFor(papers, p)
      BY <2>4 DEF Known
    <3>2. \A other \in StandsFor(papers, p) : other = q
      BY <2>1, <3>1, OneOwner DEF StandsFor
    <3>3. StandsFor(papers, p) = {q}
      BY <3>1, <3>2
    <3> QED BY <3>3, FS_Singleton
  <2>7. LedgerWhole
    <3>1. \A p \in Present(papers) :
            papers[p].versions = IF papers[p].merged = {} THEN {} ELSE {p} \cup papers[p].merged
      BY <2>1, PaperThere DEF Swallows
    <3>2. ~job.torn => \A p \in Present(papers) : papers[p].listed = papers[p].versions
      BY DEF HarvestInv, WholeInv, ListedThroughout, Listed, papers
    <3> QED BY <3>1, <3>2 DEF LedgerWhole, papers
  <2> QED BY <2>5, <2>6, <2>7 DEF ReferencesResolve, named, papers
<1> QED BY <1>1, HarvestAlways, PTL

\* Once the group has been folded, no two rows that have been to GitHub are of
\* one repository (OneRowPerRepository), whatever names of it they are stored
\* under or have swallowed, as long as only names change (_dedup_repositories).
THEOREM OneRowEach == Spec => []OneRowPerRepository
<1>1. HarvestInv => OneRowPerRepository
  <2> SUFFICES ASSUME HarvestInv, AtRest, job.last = "dedup", NEW r \in Repos
               PROVE  Cardinality({id \in Present(rows.repositories) :
                                      /\ rows.repositories[id].github # Nobody
                                      /\ \E u \in {id} \cup rows.repositories[id].merged : host[u] = r}) <= 1
    BY DEF OneRowPerRepository
  <2> DEFINE table == rows.repositories
             its == {id \in Present(table) :
                        /\ table[id].github # Nobody
                        /\ \E u \in {id} \cup table[id].merged : host[u] = r}
  <2>1. OneHost(host, table)
    BY DEF HarvestInv, GitHubInv, OneHosts
  <2>2. OneEach(table)
    <3>1. job.todo = <<>> /\ rows["repositories"] = table
      BY TablesType DEF HarvestInv, JobInv, AtRest
    <3>2. Becomes(rows, job.todo, "repositories", table)
      BY <3>1, BecomesNow
    <3> QED BY <3>2 DEF HarvestInv, GitHubInv
  <2>3. \A id \in its : table[id].github = r /\ id \in Present(table)
    <3> SUFFICES ASSUME NEW id \in its PROVE table[id].github = r /\ id \in Present(table)
      OBVIOUS
    <3>1. LeadsTo(host, id, table[id]) /\ table[id].github # Nobody
      BY <2>1 DEF OneHost
    <3> QED BY <3>1 DEF LeadsTo, NamesOf
  <2> HIDE DEF its, table
  <2>4. \A id, other \in its : id = other
    BY <2>2, <2>3, RepositoriesAssumption DEF OneEach
  <2>5. Cardinality(its) <= 1
    <3>1. CASE its = {}
      BY <3>1, FS_EmptySet
    <3>2. CASE its # {}
      <4>1. PICK id : id \in its
        BY <3>2
      <4>2. its = {id}
        BY <2>4, <4>1
      <4>3. Cardinality({id}) = 1
        BY FS_Singleton
      <4> QED BY <4>2, <4>3
    <3> QED BY <3>1, <3>2
  <2> QED BY <2>5 DEF its, table
<1> QED BY <1>1, HarvestAlways, PTL

\* Evidence seen in a PDF stays while the PDF on disk is the same
\* (EvidenceKept): no step of any stage, and no fold of two papers, takes it
\* away (_preserve_pdf_occurrences, _merge_code_link).
THEOREM EvidenceStays == Spec => EvidenceKept
<1> DEFINE Kept == \A s \in Evidence(rows.repo_links) :
                       files'[s[2].pdf] = s[2].doc => s \in Evidence(rows'.repo_links)
<1>1. HarvestInv /\ [Next]_vars => [Kept]_vars
  <2> SUFFICES ASSUME HarvestInv, Next PROVE Kept
    OBVIOUS
  <2>1. CASE rows' = rows
    BY <2>1
  <2>2. CASE WriteNext /\ UNCHANGED <<files, github, raw>>
    <3>1. rows \in AllRows /\ job.todo \in Seq(Writes) /\ job.todo # <<>>
      BY <2>2 DEF HarvestInv, TablesInv, JobInv, WriteNext
    <3>2. rows' = After(rows, job.todo[1])
      BY <2>2, <3>1, Rest DEF WriteNext, After
    <3>3. Keeps(files, rows.repo_links, rows'.repo_links)
      BY <3>1, <3>2, EvidenceStill DEF HarvestInv
    <3> QED BY <2>2, <3>3 DEF Keeps
  <2> HIDE DEF Kept
  <2>3. CASE Collect \/ RenameNext \/ Normalize \/ \E selection \in Selections : Dedup(selection)
    BY <2>1, <2>3 DEF Collect, RenameNext, Rename, Normalize, Dedup
  <2>4. CASE StageNext
    <3>1. PICK force \in BOOLEAN, selection \in Selections :
            \/ FindCodeLinks(force, selection)
            \/ JudgeLinks(force, selection)
            \/ FetchRepositories(force, selection)
      BY <2>4 DEF StageNext
    <3>2. FindCodeLinks(force, selection) => UNCHANGED rows
      BY DEF FindCodeLinks
    <3>3. JudgeLinks(force, selection) => UNCHANGED rows
      <4> SUFFICES ASSUME JudgeLinks(force, selection) PROVE UNCHANGED <<rows, files>>
        OBVIOUS
      <4> QED BY Zenon DEF JudgeLinks
    <3>4. FetchRepositories(force, selection) => UNCHANGED rows
      BY DEF FetchRepositories
    <3> QED BY <2>1, <3>1, <3>2, <3>3, <3>4
  <2>5. CASE Die /\ UNCHANGED <<files, github, raw>>
    BY <2>1, <2>5 DEF Die
  <2> QED BY <2>2, <2>3, <2>4, <2>5 DEF Next
<1>2. Spec => [][Kept]_vars
  BY <1>1, HarvestAlways, PTL DEF Spec
<1> QED BY <1>2 DEF EvidenceKept
=============================================================================
