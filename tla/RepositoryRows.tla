--------------------------- MODULE RepositoryRows ---------------------------
(***************************************************************************)
(* One row per repository, whatever name it was cited by: the stage        *)
(* repositories (pauk/pipeline/stages/repositories.py) and the fold of     *)
(* rows GitHub considers one (DedupStage._dedup_repositories).  A row's id *)
(* is a name in lower case, so ids and links are one set here.             *)
(***************************************************************************)
EXTENDS LinkHarvest, PairGroups

CONSTANTS Repos,        \* GitHub's numeric ids
          Nobody        \* no repository

VARIABLES host,         \* GitHub: name -> the repository it leads to, or Nobody
          home          \* GitHub: repository -> the name it has now

Repository == [url : Urls, github : Repos \cup {Nobody}, owner : BOOLEAN,
               pubs : SUBSET Pubs, cited : SUBSET Urls, merged : SUBSET Urls, state : States]
RepositoryRowsSet == [Urls -> Repository \cup {Absent}]

ASSUME RepositoriesAssumption == Absent \notin Repository /\ Nobody \notin Repos

GitHubTypeOK == host \in [Urls -> Repos \cup {Nobody}] /\ home \in [Repos -> Urls]

\* a repository gets another name, and the old one leads on to it; a run has
\* asked GitHub before its first write, so between writes this changes nothing
Rename(r) ==
    /\ job.stage = "idle"
    /\ \E u \in Urls :
        /\ host[u] = Nobody
        /\ host' = [host EXCEPT ![u] = r] /\ home' = [home EXCEPT ![r] = u]
    /\ UNCHANGED <<rows, files, job>>

-----------------------------------------------------------------------------
\* the work of a run in memory: a table of rows still kept under their old
\* ids, each of them a record or Absent
Unchecked(u) == [url |-> u, github |-> Nobody, owner |-> FALSE, pubs |-> {}, cited |-> {},
                 merged |-> {}, state |-> "none"]
Outcomes == {"fetched", "readme", "failed"}   \* "readme": the metadata came, the README did not

\* _enrich_repository
Enriched(row, asked, outcome) ==
    IF outcome = "failed" \/ host[asked] = Nobody THEN [row EXCEPT !.state = "failed"]
    ELSE [row EXCEPT !.url = home[host[asked]], !.github = host[asked],
                     !.owner = @ \/ outcome = "fetched",
                     !.state = IF outcome = "fetched" THEN "completed" ELSE "failed"]

\* links of the rows in scope, as <<publication, link>>
Cited(selection) ==
    {pu \in Present(rows.repo_links) \X Urls :
        Selected(selection, pu[1]) /\ pu[2] \in LinksOf(rows.repo_links, pu[1])}
Implements(p, u) == Own(u, rows.repo_links[p][u])

\* the names a stored row is cited by
KnownBy(row, id) == {id, row.url} \cup row.cited
\* claims that a link seen now backs are taken back, to be made again
Disclaimed(cited) ==
    LET repos == rows.repositories
    IN [id \in Urls |->
          IF repos[id] = Absent THEN Absent
          ELSE [repos[id] EXCEPT !.pubs =
                  @ \ {p \in Pubs : \E u \in KnownBy(repos[id], id) : <<p, u>> \in cited}]]
\* the first pass, before any fetch: every cited link has its row
Linked(cited) ==
    [u \in Urls |->
        LET citing == {p \in Pubs : <<p, u>> \in cited}
            known == Disclaimed(cited)[u]
            row == IF known = Absent THEN Unchecked(u) ELSE known
        IN IF citing = {} THEN known
           ELSE [row EXCEPT !.pubs = @ \cup {p \in citing : Implements(p, u)}, !.cited = @ \cup {u}]]

MutFoldInto(winner, loser, id) ==
    [winner EXCEPT !.pubs = @ \cup loser.pubs, !.merged = @ \cup {id} \cup loser.merged]
\* _fold_into, and the alias the loser leaves
FoldInto(winner, loser, id) ==
    [winner EXCEPT !.pubs = @ \cup loser.pubs, !.cited = @ \cup loser.cited,
                   !.merged = @ \cup {id} \cup loser.merged]
FoldAll(winner, losers, table) ==
    FoldSet(LAMBDA id, row : FoldInto(row, table[id], id), winner, losers)

\* _fold_duplicates: the row that has been to GitHub wins
Winners(group, table) ==
    LET been(id) == table[id].github # Nobody
        tried(id) == table[id].state # "none"
        outranks(a, b) == \/ been(a) /\ ~been(b)
                          \/ been(a) = been(b) /\ tried(a) /\ ~tried(b)
    IN {id \in group : \A other \in group : ~outranks(other, id)}

\* _canonical_repo_id: owner and name as GitHub gave them
CanonicalId(row, id) == IF row.owner THEN row.url ELSE id
\* rows that turn out to be one collapse into the one read first
Rekeyed(table, stored) ==
    Picks([u \in Urls |->
        LET same == {id \in Present(table) : CanonicalId(table[id], id) = u}
            first == IF same \cap stored # {} THEN same \cap stored ELSE same
            kept(w) == LET row == FoldAll(table[w], same \ {w}, table)
                       IN [row EXCEPT !.merged = (@ \cup {w}) \ {u}]
        IN IF same = {} THEN {Absent} ELSE {kept(w) : w \in first}])

\* the second pass: rows no link reaches, those of one name folded and, unless
\* the first pass has, fetched
SecondPass(table, unlinked, again, outcome) ==
    LET after(winner) ==
            [id \in Urls |->
                IF \E u \in Urls : id \in unlinked[u] \ {winner[u]} THEN Absent
                ELSE IF \A u \in Urls : id \notin unlinked[u] THEN table[id]
                ELSE LET u == CHOOSE u \in Urls : id \in unlinked[u]
                         row == FoldAll(table[id], unlinked[u] \ {id}, table)
                     IN IF u \in again THEN Enriched(row, u, outcome[u]) ELSE row]
    IN {after(winner) :
            winner \in Picks([u \in Urls |-> IF unlinked[u] = {} THEN {u} ELSE Winners(unlinked[u], table)])}

FetchRepositories(force, selection) ==
    /\ MayStart("repositories")
    /\ LET repos == rows.repositories
           needs(id) == repos[id] # Absent /\ NeedsAttempt(force, repos[id].state)
           unlinked == [u \in Urls |-> {id \in Present(repos) : needs(id) /\ repos[id].url = u}]
           cited == Cited(selection)
           linked == Linked(cited)
           wanted == {u \in {c[2] : c \in cited} : repos[u] = Absent \/ needs(u)}
           \* a fetch takes the name its row has as well, from a link that comes later
           others(u) == {v \in wanted \ {u} : linked[v].url = u}
       IN \E skipped \in SUBSET {u \in wanted : others(u) # {}} :
            LET fetched == wanted \ skipped
                attempted == fetched \cup {linked[u].url : u \in fetched}
                again == {u \in Urls : unlinked[u] # {} /\ u \notin attempted}
            IN /\ skipped \subseteq attempted
               /\ \E outcome \in [fetched \cup again -> Outcomes] :
                    LET once == [u \in Urls |-> IF u \in fetched
                                                THEN Enriched(linked[u], u, outcome[u]) ELSE linked[u]]
                    IN \E table \in SecondPass(once, unlinked, again, outcome) :
                       \E result \in Rekeyed(table, Present(repos)) :
                            Started("repositories", selection, <<Write("repositories", result)>>)
    /\ UNCHANGED <<rows, files, host, home>>

-----------------------------------------------------------------------------
MutSameRepository(one, other) ==
    one.url = other.url \/ one.cited \cap other.cited # {}
\* _dedup_repositories: one GitHub id, one URL or a citation in common
SameRepository(one, other) ==
    \/ one.github = other.github /\ one.github # Nobody
    \/ one.url = other.url
    \/ one.cited \cap other.cited # {}
RepositoryGroups(table) ==
    LET there == Present(table)
        same == {{p[1], p[2]} : p \in {p \in there \X there : SameRepository(table[p[1]], table[p[2]])}}
    IN Components(there, same)

\* _merge_repository: the name a row had before is a citation of the one that stays
MergeRepository(base, extra, id) ==
    [base EXCEPT !.pubs = @ \cup extra.pubs,
                 !.cited = @ \cup extra.cited \cup {extra.url},
                 !.merged = @ \cup extra.merged \cup {id},
                 !.github = IF @ = Nobody THEN extra.github ELSE @,
                 !.owner = @ \/ extra.owner,
                 !.state = IF @ = "none" THEN extra.state ELSE @]
MergeRepositories(base, others, table) ==
    FoldSet(LAMBDA other, row : MergeRepository(row, table[other], other), base, others)
\* among rows fetched in full the newest fetch stays, which of them it is left open
Standing(group, table) ==
    LET done == {id \in group : table[id].state = "completed"}
    IN IF done # {} THEN done ELSE group

\* the folds of the whole group: tables that may result, and who stands for whom
FoldedRepositories(table) ==
    LET groups == RepositoryGroups(table)
    IN {[table |-> [id \in Urls |->
                IF id \notin {stays[g] : g \in groups} THEN Absent
                ELSE MergeRepositories(table[id], (CHOOSE g \in groups : id \in g) \ {id}, table)],
         home |-> [id \in Urls |-> IF \E g \in groups : id \in g
                                   THEN stays[CHOOSE g \in groups : id \in g] ELSE id]] :
        stays \in {s \in [groups -> Urls] : \A g \in groups : s[g] \in Standing(g, table)}}
=============================================================================
