------------------------------ MODULE Accounts ------------------------------
(***************************************************************************)
(* The accounts behind the repositories of a group and the authors they    *)
(* belong to: the harvest (pauk/pipeline/stages/repo_people.py), the match *)
(* (github_match.py), with what reviewers answer, and the walk from people *)
(* to the repositories they own and on (social_graph.py).                  *)
(***************************************************************************)
EXTENDS Researchers, ReviewStore

CONSTANTS Owner,        \* Repos -> the login that owns it
          Commits,      \* <<repo, login, address, spelling>>
          Contributors, \* Repos -> logins its contributors' list names
          KindOf,       \* Logins -> "user", "organization" or "bot"
          UserSays,     \* Logins -> what its page says, by turns: [emails, name, about]
          Alike,        \* <<spelling, spelling>>: resemble, as name_similarity has it
          LoginNames,   \* <<login, person>>: a surname inside the login
          ItmoEmails,   \* addresses at the university
          ItmoLogins,   \* logins with ITMO in them
          ItmoNames,    \* spellings with ITMO in them
          OrgCatalog,   \* organizations of ITMO by the catalogue
          MaxRings,     \* MAX_RINGS
          Pushed,       \* Logins -> its repositories, the latest pushed first
          Forks,        \* repositories that are forks
          PageSize,     \* items on a page of GitHub's lists
          MaxReposPerSeed

VARIABLE walk           \* the walk of SocialGraphStage under way, or the last one

\* what a profile's text speaks of: ITMO, its city, something else
Fields == {"description", "location", "company"}
Texts == [Fields -> {Unknown, "itmo", "city", "other"}]
NoText == [field \in Fields |-> Unknown]
NoProfile == [kind |-> Unknown, emails |-> {}, name |-> Unknown, names |-> {}, about |-> NoText, repos |-> {},
              fetched |-> FALSE]
ProfileRow == [kind : {Unknown, "user", "organization"}, emails : SUBSET Emails,
               name : Spellings \cup {Unknown}, names : SUBSET Spellings, \* commit_names
               about : Texts, repos : SUBSET Repos, fetched : BOOLEAN]
\* a page, and the answer of a request that was not made or failed
PageSet == [emails : SUBSET Emails, name : Spellings \cup {Unknown}, about : Texts]
NoPage == [emails |-> {}, name |-> Unknown, about |-> NoText, kind |-> Unknown]
RepoRow == [pubs : SUBSET Pubs, people : States, contributors : SUBSET Logins]
ProfileRows == [Logins -> {Absent} \cup ProfileRow]
RepoRows == [Repos -> {Absent} \cup RepoRow]
Walks == [state : {"none", "walking", "converged", "ceiling"}, ring : 0 .. MaxRings,
          seeds : SUBSET Logins, visited : SUBSET Repos]
NoWalk == [state |-> "none", ring |-> 0, seeds |-> {}, visited |-> {}]

ASSUME AccountsAssumption ==
    /\ Repos \subseteq Nat /\ IsFiniteSet(Repos) /\ MaxRings \in Nat
    /\ Persons \cap Logins = {} /\ Absent \notin ProfileRow \cup RepoRow
    /\ Owner \in [Repos -> Logins] /\ Contributors \in [Repos -> SUBSET Logins]
    /\ KindOf \in [Logins -> {"user", "organization", "bot"}]
    /\ \A a \in Logins : UserSays[a] \subseteq PageSet /\ UserSays[a] # {}
    /\ Pushed \in [Logins -> Seq(Repos)]
    /\ \A q \in Questions : q.kind = "github" => \E a \in Logins, p \in Persons : q.members = {a, p}

Profiles == Present(rows.profiles)
Repositories == Present(rows.repositories)

-----------------------------------------------------------------------------
\* _is_person, with the type as far as it is known
IsPerson(login, kind) == KindOf[login] # "bot" /\ kind \in {Unknown, "user"}
\* _git_identities
CommitEmails(r, a) == {e \in Emails : \E s \in Spellings : <<r, a, e, s>> \in Commits}
CommitNames(r, a) == {s \in Spellings : \E e \in Emails \cup {Unknown} : <<r, a, e, s>> \in Commits}
KnownKind(table, a) == IF table[a] = Absent THEN Unknown ELSE table[a].kind
\* roles: the owner and who the list of contributors names
Roles(table, r) ==
    {a \in {Owner[r]} : IsPerson(a, KnownKind(table, a))} \cup
    {a \in Contributors[r] : IsPerson(a, KindOf[a])}

\* what GET /users may answer
UserPages(a) ==
    {[kind |-> KindOf[a], emails |-> page.emails, name |-> page.name, about |-> page.about] : page \in UserSays[a]}
MutMergeProfile(known, r, a, page) ==
    [(IF page # NoPage \/ known = Absent THEN NoProfile ELSE known)
     EXCEPT !.kind = IF page.kind = Unknown THEN @ ELSE page.kind,
            !.name = IF page.name = Unknown THEN @ ELSE page.name,
            !.about = IF page = NoPage THEN @ ELSE page.about,
            !.emails = @ \cup CommitEmails(r, a) \cup page.emails,
            !.names = @ \cup CommitNames(r, a), !.repos = @ \cup {r}]
\* the profile written over the known one: what the page says replaces what is
\* known, addresses and what commits say come to it
MergeProfile(known, r, a, page) ==
    LET base == IF known = Absent THEN NoProfile ELSE known
        Now(says, was) == IF says = Unknown THEN was ELSE says
    IN [base EXCEPT !.kind = Now(page.kind, @), !.name = Now(page.name, @),
                    !.about = [field \in Fields |-> Now(page.about[field], @[field])],
                    !.emails = @ \cup CommitEmails(r, a) \cup page.emails,
                    !.names = @ \cup CommitNames(r, a), !.repos = @ \cup {r}]

\* RepoPeopleStage._harvest: the accounts one after another, those in `pages`
\* with a request, `upto` the one whose request fails, if there is one
ToAsk(force, table, r) == {a \in Roles(table, r) : force \/ table[a] = Absent \/ ~table[a].fetched}
Harvested(table, r, pages, upto) ==
    [a \in Logins |->
        IF a \in Roles(table, r) /\ \A x \in upto : a < x
        THEN [MergeProfile(table[a], r, a, IF a \in DOMAIN pages THEN pages[a] ELSE NoPage)
              EXCEPT !.fetched = @ \/ a \in DOMAIN pages]
        ELSE table[a]]
\* what the pages of accounts say together
PagesOf(accounts) == Picks([a \in accounts |-> UserPages(a)])
\* what a harvest may end in: it is refused, fails at an account, goes through
MutHarvestEnds(force, table, r) ==
    {[table |-> Harvested(table, r, pages, upto), state |-> "completed", listed |-> TRUE] :
        pages \in PagesOf(ToAsk(force, table, r)), upto \in {{a} : a \in ToAsk(force, table, r)} \cup {{}}}
HarvestEnds(force, table, r) ==
    LET asked == ToAsk(force, table, r)
    IN {[table |-> table, state |-> "failed", listed |-> FALSE]} \cup
       {[table |-> Harvested(table, r, pages, {a}), state |-> "failed", listed |-> TRUE] :
           pages \in PagesOf(asked), a \in asked} \cup
       {[table |-> Harvested(table, r, pages, {}), state |-> "completed", listed |-> TRUE] : pages \in PagesOf(asked)}

\* RepoPeopleStage: one repository a step, in memory; the writes at its end
PeopleStart(force, selection) ==
    LET todo == {r \in Repositories :
                    /\ selection = All \/ rows.repositories[r].pubs \cap selection # {}
                    /\ NeedsAttempt(force, rows.repositories[r].people)}
        walked[i \in 0 .. Cardinality(todo)] ==
            IF i = 0 THEN {[profiles |-> rows.profiles, repositories |-> rows.repositories]}
            ELSE LET r == InOrder(todo)[i]
                 IN UNION {{[profiles |-> end.table,
                             repositories |-> [so_far.repositories EXCEPT
                                ![r].people = end.state,
                                ![r].contributors = IF end.listed THEN Roles(so_far.profiles, r) ELSE @]] :
                            end \in HarvestEnds(force, so_far.profiles, r)} : so_far \in walked[i - 1]}
    IN /\ MayStart("repo_people")
       /\ \E end \in walked[Cardinality(todo)] :
            Started("repo_people", selection,
                <<Write("repositories", end.repositories), Write("profiles", end.profiles)>>)
    /\ UNCHANGED rows

-----------------------------------------------------------------------------
\* _authors: addresses and names of the people of ITMO; an address stands for
\* the first who has it
Candidates == {p \in People : rows.persons[p].itmo}
AddressesOf(p) == (rows.persons[p].emails \cup {rows.persons[p].card}) \ {Unknown}
HolderOf(e) == LET holders == {p \in Candidates : e \in AddressesOf(p)}
               IN IF holders = {} THEN {} ELSE {Min(holders)}

\* _accounts
Accounts == {a \in Profiles : rows.profiles[a].kind # "organization"}
ReposOf(a) == rows.profiles[a].repos \cap Repositories
Bridge(a) == {p \in Candidates : \E r \in ReposOf(a) : Wrote(rows.persons[p]) \cap rows.repositories[r].pubs # {}}
ByEmail(a) == UNION {HolderOf(e) : e \in rows.profiles[a].emails}
NamesOf(a) == rows.profiles[a].names \cup ({rows.profiles[a].name} \ {Unknown})
ByName(a) == {p \in Candidates : NamesOf(a) \cap SpeltAs(rows.persons[p]) # {}}
Resembles(a, p) == \E x \in NamesOf(a), y \in SpeltAs(rows.persons[p]) : <<x, y>> \in Alike

\* score_account, SIGNAL_WEIGHTS in tenths
Signals(a, p) ==
    {s \in {"email_exact", "name_exact", "name_fuzzy", "itmo_profile", "itmo_email", "login_surname",
            "owner", "org_itmo"} :
        CASE s = "email_exact" -> p \in ByEmail(a)
          [] s = "name_exact" -> p \in ByName(a)
          [] s = "name_fuzzy" -> p \notin ByName(a) /\ Resembles(a, p)
          [] s = "itmo_profile" -> \E field \in Fields : rows.profiles[a].about[field] \in {"itmo", "city"}
          [] s = "itmo_email" -> rows.profiles[a].emails \cap ItmoEmails # {}
          [] s = "login_surname" -> <<a, p>> \in LoginNames
          [] s = "owner" -> \E r \in ReposOf(a) : Owner[r] = a
          [] s = "org_itmo" -> \E r \in ReposOf(a) : Owner[r] \in ItmoLogins}
WeightOf(s) == CASE s = "email_exact" -> 10 [] s = "name_exact" -> 6 [] s = "name_fuzzy" -> 4
                 [] s = "itmo_profile" -> 2 [] OTHER -> 3
Score(signals) == Min({10, MapThenSumSet(WeightOf, signals)})

\* decide
Corroborated(signals) ==
    signals \cap {"itmo_profile", "itmo_email", "login_surname", "owner", "org_itmo"} # {}
Decide(signals, inBridge) ==
    IF "email_exact" \in signals THEN "matched"
    ELSE IF "name_exact" \in signals
         THEN IF inBridge \/ Corroborated(signals) THEN "matched" ELSE "review"
    ELSE IF "name_fuzzy" \in signals /\ inBridge
         THEN IF Corroborated(signals) THEN "matched" ELSE "review"
    ELSE "rejected"

\* match_account: the best of those who are not rejected.  Of equals the first
\* a set of ids yields is taken, any of them; two equal matches are a guess
DecisionsFor(a) ==
    LET pairs == {[login |-> a, person |-> p, score |-> Score(Signals(a, p)),
                   decision |-> Decide(Signals(a, p), p \in Bridge(a))] :
                  p \in Bridge(a) \cup ByEmail(a) \cup ByName(a)}
        fitting == {d \in pairs : d.decision # "rejected"}
        Below(d, e) == \/ d.decision = "review" /\ e.decision = "matched"
                       \/ d.decision = e.decision /\ d.score < e.score
        best == {d \in fitting : ~\E e \in fitting : Below(d, e)}
    IN IF Cardinality(best) = 1 THEN best ELSE {[d EXCEPT !.decision = "review"] : d \in best}

-----------------------------------------------------------------------------
\* what a reviewer said of the pair
AnswerTo(d, answers) ==
    LET pair == {d.login, d.person}
    IN IF pair \in DOMAIN answers THEN {answers[pair]} ELSE {}
\* _answered: the answer overrides the rules
Overruled(d, answers) ==
    IF AnswerTo(d, answers) = {"same"} THEN [d EXCEPT !.decision = "matched"]
    ELSE IF AnswerTo(d, answers) = {"different"} THEN [d EXCEPT !.decision = "rejected"] ELSE d
Held(decisions, answers) ==
    {Question("github", {d.login, d.person}) :
        d \in {x \in decisions : AnswerTo(x, answers) = {} /\ x.decision = "review"}}
DisputedBy(decisions, answers) ==
    {Question("github", {d.login, d.person}) :
        d \in {x \in decisions : AnswerTo(x, answers) = {"different"} /\ x.decision = "matched"}}

\* run, what a match writes into the person
Tied(row, accounts) ==
    IF accounts = {} THEN row
    ELSE LET mails == [a \in accounts |-> PickEmail(rows.profiles[a].emails)]
             offered == {a \in accounts : mails[a] # Unknown}
         IN [row EXCEPT !.github = IF @ = Unknown THEN Min(accounts) ELSE @,
                        !.card = IF @ = Unknown /\ offered # {} THEN mails[Min(offered)] ELSE @,
                        !.contributed = @ \cup UNION {ReposOf(a) : a \in accounts}]

\* GitHubMatchStage, from its reading of the rows and the answers to what it is
\* about to write: persons, then the questions, then the disputes
MatchWrites(selection) ==
    LET answerable == {a \in Accounts : DecisionsFor(a) # {}}
    IN UNION {{LET decisions == {pick[a] : a \in answerable}
                   matched == {d \in {Overruled(d, answers) : d \in decisions} :
                                   selection = All /\ d.decision = "matched"}
                   accounts(p) == {d.login : d \in {x \in matched : x.person = p}}
               IN <<Write("persons", [p \in Persons |-> IF rows.persons[p] = Absent THEN Absent
                                                        ELSE Tied(rows.persons[p], accounts(p))]),
                    [collection |-> "held", questions |-> Held(decisions, answers)],
                    [collection |-> "disputed", questions |-> DisputedBy(decisions, answers)]>> :
               answers \in GithubDecisions(Home)} :
              pick \in Picks([a \in answerable |-> DecisionsFor(a)])}

MatchStart(selection) ==
    /\ MayStart("github_match")
    /\ \E writes \in MatchWrites(selection) : Started("github_match", selection, writes)
    /\ UNCHANGED <<rows, review, walk>>
\* record_held, record_disputed
RecordNext ==
    LET questions == Head(job.todo).questions
    IN /\ \/ Doing("held") /\ review' = RecordHeld(review, questions, {}, Home)
          \/ Doing("disputed") /\ review' = RecordDisputed(review, questions)
       /\ Onward(<<>>)
       /\ UNCHANGED <<rows, walk>>

\* an answer, at any time: from the queue, or before the question is there
AnswerAccount(q, verdict) ==
    /\ q.kind = "github" /\ MayAnswer(q, verdict)
    /\ review' = RecordVerdict(q, verdict)
    /\ UNCHANGED <<rows, job, walk>>

-----------------------------------------------------------------------------
\* _seeds: accounts people are tied to and organizations known to be of ITMO
Confirmed == {rows.persons[p].github : p \in People} \ {Unknown}
\* itmo_organization_status, when it says "confirmed"
ConfirmedOrgs(table) ==
    {a \in {Owner[r] : r \in Repositories} :
        LET kind == KnownKind(table, a)
        IN /\ kind = "organization" \/ (kind = Unknown /\ a \in OrgCatalog)
           /\ \/ a \in OrgCatalog \cup ItmoLogins
              \/ /\ table[a] # Absent
                 /\ table[a].name \in ItmoNames \/ "itmo" \in {table[a].about["description"], table[a].about["company"]}}
Seeds == Confirmed \cup ConfirmedOrgs(rows.profiles)

\* _paged: the places on so many pages of a list
Paged(list, pages) == {i \in DOMAIN list : i <= pages * PageSize}
\* user_repositories: so many pages as hold the limit, and of them no forks
UserRepositories(a) ==
    LET own == {i \in Paged(Pushed[a], MaxReposPerSeed \div PageSize + 1) : Pushed[a][i] \notin Forks}
    IN {Pushed[a][i] : i \in {j \in own : Cardinality({k \in own : k <= j}) <= MaxReposPerSeed}}

\* SocialGraphStage._harvest: all of a repository or, when a request for it
\* fails, nothing; GET /users for an account never seen, and its failure is no harm
SocialEnds(table, r) ==
    LET people == {a \in {Owner[r]} \cup Contributors[r] : IsPerson(a, KindOf[a])}
        fresh == {a \in people : table[a] = Absent}
        After(pages) ==
            [a \in Logins |-> IF a \notin people THEN table[a]
                              ELSE [MergeProfile(table[a], r, a, IF a \in DOMAIN pages THEN pages[a] ELSE NoPage)
                                    EXCEPT !.fetched = FALSE]]
    IN {table} \cup {After(pages) : pages \in UNION {PagesOf(answering) : answering \in SUBSET fresh}}

\* the walk begins: what is known is not visited again
WalkStart ==
    /\ MayStart("social_graph")
    /\ walk' = [NoWalk EXCEPT !.state = "walking",
                              !.visited = Repositories \cup UNION {rows.profiles[a].repos : a \in Profiles}]
    /\ Started("social_graph", All, <<[collection |-> "ring"]>>)
    /\ UNCHANGED <<rows, review>>
\* one ring: new seeds, what they own and nobody visited; then the profiles are
\* written, the match is run and the next ring follows.  A seed whose list of
\* repositories cannot be read is passed over
Ring ==
    /\ Doing("ring")
    /\ LET seeds == Seeds \ walk.seeds
           ending(state) == /\ walk' = [walk EXCEPT !.state = state, !.seeds = @ \cup seeds]
                            /\ Onward(<<>>)
       IN IF walk.ring = MaxRings THEN walk' = [walk EXCEPT !.state = "ceiling"] /\ Onward(<<>>)
          ELSE IF seeds = {} THEN ending("converged")
          ELSE \E listed \in SUBSET seeds :
            LET fresh == UNION {UserRepositories(a) : a \in listed} \ walk.visited
                tables[i \in 0 .. Cardinality(fresh)] ==
                    IF i = 0 THEN {rows.profiles}
                    ELSE UNION {SocialEnds(table, InOrder(fresh)[i]) : table \in tables[i - 1]}
            IN IF fresh = {} THEN ending("converged")
               ELSE /\ walk' = [walk EXCEPT !.ring = @ + 1, !.seeds = @ \cup seeds, !.visited = @ \cup fresh]
                    /\ \E table \in tables[Cardinality(fresh)] :
                        Onward(<<Write("profiles", table), [collection |-> "match"], [collection |-> "ring"]>>)
    /\ UNCHANGED <<rows, review>>
\* GitHubMatchStage, run by the walk
WalkMatch ==
    /\ Doing("match")
    /\ \E writes \in MatchWrites(All) : Onward(writes)
    /\ UNCHANGED <<rows, review, walk>>
=============================================================================
