------------------------------ MODULE Harvest ------------------------------
(***************************************************************************)
(* From papers to the repositories behind them: collect and normalize      *)
(* (pauk/pipeline/collect.py, normalize.py), the stages of LinkHarvest and *)
(* RepositoryRows and the fold of papers recorded twice (DedupStage in     *)
(* pauk/pipeline/stages/dedup.py), run after each other over the rows of   *)
(* one group in whatever order they are asked for.                         *)
(***************************************************************************)
EXTENDS RepositoryRows

CONSTANTS KeysOf,       \* Pubs -> its DOI and its title, unless it is a placeholder
          PdfOf,        \* Pubs -> the PDFs its record points at
          Imported,     \* bound: the rows of repositories there may be at first
          Found,        \* bound: the works collected at first
          Names,        \* bound: names of repositories at first
          Renames       \* bound: renames

ASSUME GroupAssumption ==
    /\ PdfOf \in [Pubs -> SUBSET Docs] /\ Found \subseteq SUBSET Pubs
    /\ Imported \subseteq RepositoryRowsSet /\ Names \subseteq Urls /\ Renames \in Nat
    \* scripts/import_curated_repos.py: papers of the group, a repository just fetched
    /\ \A imported \in Imported, found \in Found : \A u \in Present(imported) :
           LET row == imported[u]
           IN /\ row.pubs \subseteq found /\ row.github \in Repos /\ row.url = u
              /\ row.cited \subseteq {u} /\ row.merged = {}

VARIABLES raw,          \* works collected
          renamed       \* counts renames

vars == <<rows, files, job, host, home, raw, renamed>>
github == <<host, home, renamed>>

NoPublication == [merged |-> {}, sources |-> {}, versions |-> {}, listed |-> {},
                  found |-> "none", judged |-> "none", code |-> {}]

\* a group normalized once; rows.persons: the works people are authors of and
\* the repositories they contributed to
Init ==
    /\ raw \in Found /\ files = [p \in Pubs |-> NoDoc]
    /\ \E imported \in Imported :
        rows = [publications |-> [p \in Pubs |->
                    IF p \in raw THEN [NoPublication EXCEPT !.sources = PdfOf[p]] ELSE Absent],
                persons |-> [authored |-> raw, contributed |-> Present(imported)],
                repo_links |-> [p \in Pubs |-> Absent], repositories |-> imported]
    /\ host \in [Urls -> Repos \cup {Nobody}] /\ home \in [Repos -> Names]
    /\ \A r \in Repos : {u \in Urls : host[u] = r} = {home[r]}
    /\ \A u \in Present(rows.repositories) : host[u] = rows.repositories[u].github
    /\ job = Idle(0) /\ renamed = 0

TypeOK ==
    /\ rows.publications \in PublicationRows
    /\ rows.persons \in [authored : SUBSET Pubs, contributed : SUBSET Urls]
    /\ rows.repo_links \in LinkRows /\ rows.repositories \in RepositoryRowsSet
    /\ files \in [Pubs -> Docs \cup {NoDoc}] /\ raw \subseteq Pubs
    /\ GitHubTypeOK /\ JobTypeOK /\ Len(job.todo) <= 7 /\ renamed \in 0 .. Renames

-----------------------------------------------------------------------------
\* Collector: one work after another, a known one never again; no lock is
\* taken, but a run has read them before its first write
Collect ==
    /\ job.stage = "idle"
    /\ \E p \in Pubs \ raw : raw' = raw \cup {p}
    /\ UNCHANGED <<rows, files, job, github>>

StandsFor(table, p) == {q \in Present(table) : q = p \/ p \in table[q].merged}
MutAliasOf(p) == p
\* publication_alias: a work folded into another stays folded
AliasOf(p) ==
    LET into == {q \in Present(rows.publications) : p \in rows.publications[q].merged}
    IN IF into = {} THEN p ELSE CHOOSE q \in into : TRUE
\* OpenAlexNormalizer: what stages found out stays, what the source says is set anew
Normalized(p) ==
    LET row == rows.publications[p]
    IN [(IF row = Absent THEN NoPublication ELSE row) EXCEPT !.sources = @ \cup PdfOf[p]]
Normalize ==
    /\ MayStart("normalize")
    /\ Started("normalize", All,
           <<Write("publications", [p \in Pubs |-> IF p \in raw /\ AliasOf(p) = p
                                                   THEN Normalized(p) ELSE rows.publications[p]]),
             Write("persons", [rows.persons EXCEPT !.authored = @ \cup {AliasOf(p) : p \in raw}])>>)
    /\ UNCHANGED <<rows, files, github, raw>>

-----------------------------------------------------------------------------
\* _refresh_version_ledger: the authors a record was collected with, as soon as
\* a person has them; one author stands for all
Refreshed ==
    LET known == rows.persons.authored # {}
    IN [p \in Pubs |->
            LET row == rows.publications[p]
            IN IF row = Absent \/ ~known THEN row
               ELSE [row EXCEPT !.listed = @ \cup (row.versions \cap raw)]]

\* _version_of, _merge_versions: an entry once made is only completed
Entered(row, p) ==
    [row EXCEPT !.versions = @ \cup {p}, !.listed = @ \cup ({p} \cap rows.persons.authored)]
\* _merge_publication; what the survivor has not been through counts as done
\* when the other has
MergePublication(base, extra, id) ==
    [Entered(base, id) EXCEPT
                 !.code = @ \cup extra.code, !.sources = @ \cup extra.sources,
                 !.merged = @ \cup extra.merged \cup {id},
                 !.versions = @ \cup extra.versions, !.listed = @ \cup extra.listed,
                 !.found = IF @ = "none" THEN extra.found ELSE @,
                 !.judged = IF @ = "none" THEN extra.judged ELSE @]
MergeAll(base, twins, table) ==
    FoldSet(LAMBDA q, row : MergePublication(row, table[q], q), base, twins)

\* _pairs_by_key, _bucket_pairs: the first record read of those that share a
\* key is paired with each of the others, unless neither is selected
PairsByKey(selection) ==
    LET bucket(k) == {p \in Present(rows.publications) : k \in KeysOf[p]}
        keys == UNION {KeysOf[p] : p \in Present(rows.publications)}
        pairs(k, first) == {{first, q} : q \in {q \in bucket(k) \ {first} :
                                Selected(selection, first) \/ Selected(selection, q)}}
    IN {UNION {pairs(k, first[k]) : k \in keys} : first \in Picks([k \in keys |-> bucket(k)])}
\* _dedup_publications: id_map
IdMap(pairs) ==
    [p \in Pubs |-> IF p \in UNION pairs
                    THEN Min(CHOOSE g \in Grouped(pairs) : p \in g) ELSE p]
FoldedPublications(map) ==
    LET table == Refreshed
        twins(p) == {q \in Present(table) : map[q] = p} \ {p}
    IN [p \in Pubs |->
            IF table[p] = Absent \/ map[p] # p THEN Absent
            ELSE IF twins(p) = {} THEN table[p]
            ELSE MergeAll(Entered(table[p], p), twins(p), table)]
RepointedLinks(map) ==
    [p \in Pubs |->
        LET from == {q \in Present(rows.repo_links) : map[q] = p}
        IN IF from = {} THEN Absent
           ELSE LET first == Min(from)
                IN MergeAllLinks(rows.repo_links[first], from \ {first}, rows.repo_links)]
MutToRetry(map, links) == {}
\* the fold left something to judge
ToRetry(map, links) ==
    {p \in {map[q] : q \in {q \in Pubs : map[q] # q}} :
        \E u \in LinksOf(links, p) : links[p][u].status # "classified"}

Folds(map) == \E p \in Pubs : map[p] # p
\* the survivors, once those with something left to judge are to be judged again
Again(papers, retry) ==
    [p \in Pubs |-> IF p \in retry THEN [papers[p] EXCEPT !.judged = "none"] ELSE papers[p]]
\* the claims of the repositories, made by those who stand for the papers
Moved(map) ==
    [u \in Urls |-> IF ~Folds(map) \/ rows.repositories[u] = Absent THEN rows.repositories[u]
                    ELSE [rows.repositories[u] EXCEPT !.pubs = {map[p] : p \in @}]]
\* the writes of _dedup_publications: papers, then all that points at them
PaperWrites(map, papers, persons, links, retry) ==
    IF papers = rows.publications THEN <<>>
    ELSE IF ~Folds(map) THEN <<Write("publications", papers)>>
    ELSE <<Write("publications", papers), Write("persons", persons), Write("repo_links", links)>>
         \o (IF retry = {} THEN <<>> ELSE <<Write("publications", Again(papers, retry))>>)
         \o <<Write("repositories", Moved(map))>>

\* DedupStage, but for people, once it is settled which papers are one
DedupBy(map, selection) ==
    LET papers == FoldedPublications(map)
        links == RepointedLinks(map)
        persons == [rows.persons EXCEPT !.authored = {map[p] : p \in @}]
        alone == [table |-> Moved(map), home |-> [u \in Urls |-> u]]
    IN \E folded \in IF selection = All THEN FoldedRepositories(Moved(map)) ELSE {alone} :
         Started("dedup", selection, PaperWrites(map, papers, persons, links, ToRetry(map, links)) \o
             IF folded.table = Moved(map) THEN <<>>
             ELSE <<Write("repositories", folded.table),
                    Write("persons", [persons EXCEPT !.contributed = {folded.home[u] : u \in @}])>>)
Dedup(selection) ==
    /\ MayStart("dedup")
    /\ \E pairs \in PairsByKey(selection) : DedupBy(IdMap(pairs), selection)
    /\ UNCHANGED <<rows, files, github, raw>>

-----------------------------------------------------------------------------
RenameNext == renamed < Renames /\ (\E r \in Repos : Rename(r)) /\ renamed' = renamed + 1 /\ UNCHANGED raw
StageNext ==
    /\ \E force \in BOOLEAN, selection \in Selections :
        /\ force => job.runs >= ForcedFrom
        /\ \/ FindCodeLinks(force, selection)
           \/ JudgeLinks(force, selection)
           \/ FetchRepositories(force, selection)
    /\ UNCHANGED <<github, raw>>
Next ==
    \/ Collect \/ RenameNext \/ Normalize \/ StageNext
    \/ \E selection \in Selections : Dedup(selection)
    \/ (WriteNext \/ Die) /\ UNCHANGED <<files, github, raw>>
Spec == Init /\ [][Next]_vars

-----------------------------------------------------------------------------
AtRest == job.stage = "idle"

\* A verdict is never about evidence its judge has not seen: not after a new
\* search, a retry, or a fold of two papers that mention one link
\* (_merge_code_link, CodeLinksStage.run).
NothingUnjudged ==
    \A p \in Present(rows.repo_links) : \A u \in LinksOf(rows.repo_links, p) :
        LET link == rows.repo_links[p][u] IN link.status = "classified" => link.judged = link.found

\* A paper that counts as judged has no link left to judge, or nobody would
\* ever ask again (needs_attempt); a run that died between its two writes
\* leaves just that behind, and is left out here.
CompletedIsJudged ==
    AtRest /\ ~job.torn =>
        \A p \in Present(rows.publications) :
            rows.publications[p].judged = "completed" =>
                \A u \in LinksOf(rows.repo_links, p) : rows.repo_links[p][u].status = "classified"

\* A fold of papers loses no record: the survivor's ledger has an entry for
\* each of them, with its authors unless a run died on the way to them.
LedgerWhole ==
    \A p \in Present(rows.publications) :
        LET row == rows.publications[p]
        IN /\ row.versions = IF row.merged = {} THEN {} ELSE {p} \cup row.merged
           /\ ~job.torn => row.listed = row.versions

\* Whatever names a paper or a repository by id finds it, as a row or among
\* what a row has swallowed: between any two writes of a fold or a re-keying
\* and after a death there (_repoint_publication_references, run).
ReferencesResolve ==
    /\ \A p \in rows.persons.authored \cup Present(rows.repo_links)
                 \cup UNION {rows.repositories[u].pubs : u \in Present(rows.repositories)} :
            Cardinality(StandsFor(rows.publications, p)) = 1
    /\ \A u \in rows.persons.contributed : StandsFor(rows.repositories, u) # {}
    /\ LedgerWhole

\* What the stage of repositories writes says that a repository implements
\* exactly the papers whose links to it are judged the authors' own, under
\* whatever name they cite it and whichever rows turn out to be one; a claim
\* no link speaks of was made by hand or for a paper since changed, and stays.
ClaimsFollowVerdicts ==
    [][job.stage = "repositories" /\ job'.stage = "idle" /\ job'.last = "repositories" =>
        LET before == rows.repositories
            after == rows'.repositories
            own(p) == {u \in LinksOf(rows.repo_links, p) : Implements(p, u)}
            unspoken(p, id) == /\ before[id] # Absent /\ p \in before[id].pubs
                               /\ LinksOf(rows.repo_links, p) \cap ({id, before[id].url} \cup before[id].cited) = {}
        IN \A p \in Pubs :
            /\ \A u \in own(p) : \E id \in Present(after) : u \in after[id].cited /\ p \in after[id].pubs
            /\ \A id \in Present(after) :
                p \in after[id].pubs =>
                    \/ own(p) \cap after[id].cited # {}
                    \/ \E was \in {id} \cup after[id].merged : unspoken(p, was)]_vars

\* A PDF once seen to mention a link stays evidence for it while the PDF is
\* the one on disk: a failed download, an unreadable file or a fold of papers
\* takes nothing away (_preserve_pdf_occurrences).
Evidence(table) ==
    {s \in Urls \X Places :
        s[2].pdf # NoDoc /\ \E p \in Present(table) : table[p][s[1]] # Absent /\ s[2] \in table[p][s[1]].found}
EvidenceKept ==
    [][\A s \in Evidence(rows.repo_links) :
        files'[s[2].pdf] = s[2].doc => s \in Evidence(rows'.repo_links)]_vars

\* Once the group has been folded, the rows that have been to GitHub are one for
\* each repository, whatever names of it they are stored under or have swallowed
\* (_dedup_repositories, after renames and half-fetched rows).
OneRowPerRepository ==
    AtRest /\ job.last = "dedup" =>
        \A r \in Repos :
            Cardinality({id \in Present(rows.repositories) :
                /\ rows.repositories[id].github # Nobody
                /\ \E u \in {id} \cup rows.repositories[id].merged : host[u] = r}) <= 1
=============================================================================
