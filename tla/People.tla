------------------------------- MODULE People -------------------------------
(***************************************************************************)
(* People: what is found out about authors (Researchers), the accounts     *)
(* they work under (Accounts), which employees they are (StaffRule), how   *)
(* their names are split (AuthorNames) and the requests all of it is made  *)
(* of (HttpCalls).  The last two share no state with the others, and the   *)
(* first three are looked at from different beginnings, so a behaviour     *)
(* moves one part and leaves the rest alone.                               *)
(***************************************************************************)
EXTENDS StaffRule, AuthorNames, HttpCalls

CONSTANTS PeopleAtFirst,    \* bound: the people there may be before stages run on them
          KnownAtFirst,     \* bound: the people, profiles and repositories before accounts are looked for
          StaffAtFirst,     \* bound: the people before the catalog of the staff is asked
          Answerable        \* bound: questions reviewers answer

VARIABLE part

Part == {"authors", "accounts", "staff", "names", "requests"}
http == <<hosts, calls, quiet>>
group == <<rows, job, review, walk>>
vars == <<group, NameVars, http, part>>

\* nobody who is there is named as folded into somebody, and nobody by two
FoldedOnce(persons) ==
    \A a, b \in Present(persons) : /\ b \notin persons[a].merged
                                   /\ a # b => persons[a].merged \cap persons[b].merged = {}
\* who collected repositories name has a profile that leads back
Leads(repositories, profiles) ==
    \A r \in Present(repositories) : repositories[r].people = "completed" =>
        \A a \in repositories[r].contributors : a \in Present(profiles) /\ r \in profiles[a].repos

ASSUME PeopleAssumption ==
    /\ MaxRuns \in Nat /\ Answerable \subseteq Questions
    /\ \A persons \in PeopleAtFirst \cup StaffAtFirst : persons \in PersonRows /\ FoldedOnce(persons)
    /\ \A known \in KnownAtFirst :
          /\ known.persons \in PersonRows /\ FoldedOnce(known.persons)
          /\ known.profiles \in ProfileRows /\ known.repositories \in RepoRows
          /\ Leads(known.repositories, known.profiles)

NoWorks == [p \in Pubs |-> NoWork]
NoProfiles == [a \in Logins |-> Absent]
NoRepositories == [r \in Repos |-> Absent]

Init ==
    /\ part \in Part
    /\ \/ /\ part = "accounts"
          /\ \E known \in KnownAtFirst :
              rows = [publications |-> NoWorks, persons |-> known.persons,
                      profiles |-> known.profiles, repositories |-> known.repositories]
       \/ /\ part # "accounts"
          /\ \E people \in CASE part = "authors" -> PeopleAtFirst [] part = "staff" -> StaffAtFirst
                               [] OTHER -> {[a \in Persons |-> Absent]} :
              rows = [publications |-> NoWorks, persons |-> people,
                      profiles |-> NoProfiles, repositories |-> NoRepositories]
    /\ job = Idle(0) /\ walk = NoWalk /\ review = [q \in Questions |-> NoDoc]
    /\ NamesInit /\ HttpInit

TypeOK ==
    /\ rows.publications \in WorkRows /\ rows.persons \in PersonRows
    /\ rows.profiles \in ProfileRows /\ rows.repositories \in RepoRows
    /\ JobTypeOK /\ ReviewTypeOK /\ walk \in Walks
    /\ NamesTypeOK /\ HttpTypeOK /\ part \in Part

-----------------------------------------------------------------------------
Forced == IF job.runs >= ForcedFrom THEN BOOLEAN ELSE {FALSE}

AuthorStages ==
    /\ part = "authors"
    /\ \/ \E force \in Forced, selection \in Selections :
            \/ PersonsStart(force, selection)
            \/ EmailsStart(force, selection)
            \/ DepartmentsStart(force, selection)
       \/ NormalizeWorks
       \/ AskCrossref \/ DieInCrossref
       \/ \E source \in {"openalex", "orcid"} : AskAbout(source)
    /\ UNCHANGED <<review, walk>>
AccountStages ==
    /\ part = "accounts"
    /\ \/ (\E force \in Forced, selection \in Selections : PeopleStart(force, selection))
          /\ UNCHANGED <<review, walk>>
       \/ \E selection \in Selections : MatchStart(selection)
       \/ RecordNext \/ WalkStart \/ Ring \/ WalkMatch
       \/ \E q \in Answerable, verdict \in Verdicts : AnswerAccount(q, verdict)
StaffStages ==
    /\ part = "staff"
    /\ \/ \E selection \in Selections : StaffDedup(selection)
       \/ RecordNext
       \/ \E q \in Questions : TakeBack(q) \/ \E chosen \in Records \cup {NoAnswer} : Choose(q, chosen)
GroupNext ==
    /\ \/ AuthorStages \/ AccountStages \/ StaffStages
       \/ RowsNext /\ UNCHANGED <<review, walk>>
       \/ part # "staff" /\ (\E base, extra \in Persons : FoldPerson(base, extra)) /\ UNCHANGED <<review, walk>>
       \/ Die /\ walk' = (IF walk.state = "walking" THEN NoWalk ELSE walk) /\ UNCHANGED review
    /\ UNCHANGED <<NameVars, http, part>>

Next ==
    \/ GroupNext
    \/ part = "names" /\ NamesNext /\ UNCHANGED <<group, http, part>>
    \/ part = "requests" /\ HttpNext /\ UNCHANGED <<group, NameVars, part>>

\* threads run, time passes; a stage may be stopped at any point
Spec ==
    /\ Init /\ [][Next]_vars
    /\ WF_vars(part = "requests" /\ Elapse /\ UNCHANGED <<group, NameVars, part>>)
    /\ \A t \in Threads : WF_vars(part = "requests" /\ ThreadNext(t) /\ UNCHANGED <<group, NameVars, part>>)

-----------------------------------------------------------------------------
\* Once all authors have been gone through, the sources were asked for the
\* identifiers the rows hold: an ORCID that Crossref or OpenAlex supplied in the
\* same run, or that came with a fold, has been looked up too (persons.py:203,
\* 268-273).
AskedForWhatItHas ==
    job.last = "persons" /\ job.stage = "idle" =>
        /\ \A a \in People : /\ rows.persons[a].orcids.key = rows.persons[a].orcid
                             /\ rows.persons[a].openalex.key = OpenAlexOf[a]
        /\ \A p \in Works : (\E a \in People : p \in Wrote(rows.persons[a])) =>
                                rows.publications[p].crossref.key = rows.publications[p].doi

\* No stage takes back what another found out, though every stage rewrites whole
\* rows: addresses, other spellings, affiliations, departments and contributions of
\* a person only grow, a card keeps the address, account and ORCID it has, and a
\* folded person's, with the name it was signed by, go to the one that stays.  The
\* name on a row gives way to the one OpenAlex displays of this very person and to
\* nothing else; what a profile says of itself gives way to what a later page says,
\* and to no gap in it (persons.py:283-286, repo_people.py:117-131,
\* social_graph.py:149-165, emails.py:225-244, normalize.py:166-190, dedup.py:1335-1338).
Heirs(a) == IF a \in People THEN {a} ELSE {b \in People : a \in rows.persons[b].merged}
NothingLearnedIsLost ==
    [][/\ \A a \in People : Heirs(a)' # {} /\ \A b \in Heirs(a)' :
            LET was == rows.persons[a]
                is == rows'.persons[b]
            IN
               /\ was.emails \subseteq is.emails /\ was.names \subseteq is.names
               /\ was.affs \subseteq is.affs /\ was.depts \subseteq is.depts
               /\ was.contributed \subseteq is.contributed /\ Wrote(was) \subseteq Wrote(is)
               /\ \A x \in was.authored : x.place # Unknown =>
                    \/ x \in is.authored
                    \/ x.slot \in DOMAIN Stated[x.pub] /\ [x EXCEPT !.place = Stated[x.pub][x.slot]] \in is.authored
               /\ was.card # Unknown => is.card = was.card \/ (a # b /\ was.card \in is.emails)
               /\ was.raw # Unknown => /\ is.raw # Unknown
                                       /\ a # b => was.raw \in SpeltAs(is)
                                       /\ a = b => is.raw \in {was.raw, OpenAlexSays[a].display}
               /\ a = b => /\ was.orcid # Unknown => is.orcid = was.orcid
                           /\ was.github # Unknown => is.github = was.github
       /\ \A a \in Profiles :
            LET was == rows.profiles[a]
                is == rows'.profiles[a]
            IN /\ is # Absent /\ was.emails \subseteq is.emails /\ was.names \subseteq is.names
               /\ was.repos \subseteq is.repos
               /\ was.kind # Unknown => is.kind # Unknown
               /\ was.name # Unknown => is.name # Unknown /\ is.name \in {was.name} \cup {page.name : page \in UserSays[a]}
               /\ \A field \in Fields : was.about[field] # Unknown =>
                    /\ is.about[field] # Unknown
                    /\ is.about[field] \in {was.about[field]} \cup {page.about[field] : page \in UserSays[a]}]_rows

\* Answers hold for whomever people have been folded into since.  An account a
\* reviewer said is not a person's gives that person nothing when a match is
\* decided, however the signals have grown (github_match.py:268-307,
\* review.py:536-540).  With the catalog at hand a fold joins nobody placed, by
\* the catalog or by a reviewer, to people of other records alone, not through
\* somebody in between either, and nobody a record was chosen for is asked about
\* again (dedup.py:373-377, 818-827, review.py:514-517).
Refused(a, p) ==
    LET about == {q \in Questions : /\ q.kind = "github" /\ a \in q.members /\ Verdict(q) # NoAnswer
                                    /\ q.members \cap Ids(p) # {}}
    IN about # {} /\ \A q \in about : Verdict(q) = "different"
MatchesStand(persons) ==
    \A p \in People :
        LET was == rows.persons[p]
            is == persons[p]
            giving == {a \in Accounts : ~Refused(a, p)}
        IN /\ is.github \in giving \cup {was.github}
           /\ is.contributed \ was.contributed \subseteq UNION {ReposOf(a) : a \in giving}
           /\ is.card = was.card \/ \E a \in giving : is.card \in rows.profiles[a].emails
ChosenFor(p) ==
    {Doc(q).chosen : q \in {x \in Questions : x.kind = "staff" /\ x.members \cap Ids(p) # {}}} \ {NoAnswer}
Employees(p) == ChosenFor(p) \cup ({StaffId(Called(p))} \ {NoWord})
ChoicesStand(asked, persons) ==
    /\ \A q \in asked : q.kind = "staff" => \A p \in q.members \cap Persons : ChosenFor(p) = {}
    /\ \A p, r \in People :
        Employees(p) # {} /\ Employees(r) # {} /\ Employees(p) \cap Employees(r) = {} =>
            \A into \in Present(persons) : ~({p, r} \subseteq {into} \cup persons[into].merged)
AnswersStand ==
    [][LET todo == job'.todo
           matching == todo # job.todo /\ Len(todo) >= 3 /\ todo[2].collection = "held"
           listed == todo # job.todo /\ todo # <<>> /\ todo[1].collection = "held" /\ job.stage = "idle"
       IN /\ part = "accounts" /\ matching => MatchesStand(todo[1].table)
          /\ part = "staff" /\ listed =>
                ChoicesStand(todo[1].questions,
                    IF Len(todo) > 1 /\ todo[2].collection = "persons" THEN todo[2].table ELSE rows.persons)]_job

\* A repository whose people have been collected names no contributor without a
\* profile that leads back to it (repo_people.py:107-131, 169-174), unless a run
\* died between its writes.
CollectedPeopleHaveProfiles ==
    ~job.torn /\ ~job.begun => Leads(rows.repositories, rows.profiles)

\* A split gives way only to another that counts as done, with every part a name
\* must have in the letters of its language: a repeat that fails, however far it
\* got, leaves the parts of an earlier run, and the name and the degree made of
\* them, as they were (author_names.py:872-882, 1000-1003, 1025-1035).
SplitsStand ==
    [][\A a \in Authors :
         LET was == names[a]
             is == names'[a]
         IN /\ is.parts # was.parts =>
                  /\ is.state = "completed" /\ is.parts # NoSplit /\ is.flat = "parts"
                  /\ \A split \in is.parts : Whole(split.ru) /\ Whole(split.en)
            /\ is.state = "completed" => is.parts # NoSplit
            /\ was.parts # NoSplit => is.flat = was.flat
            /\ was.degree # NoWord => is.degree = was.degree]_names

\* A request starts only when the host has been quiet for as long as any answer
\* asked, when its last start is as far back as the gap now in force, and when
\* fewer requests are under way than it now allows (rate_limit.py:82-103).
UnderWay(h) ==
    {t \in Threads : calls[t].host = h /\ calls[t].pc \in {"inside", "restricting", "pausing", "leaving"}}
StartsKeepTheLimits ==
    [][\A t \in Threads : calls[t].pc = "checking" /\ calls'[t].pc = "inside" =>
         LET h == calls[t].host
         IN /\ quiet[h] = 0 /\ hosts[h].since >= hosts[h].gap
            /\ Cardinality(UnderWay(h)) < hosts[h].cap]_http

\* Every request ends: no thread waits for a notice that does not come, and
\* attempts and redirects are bounded (rate_limit.py:88-103, base.py:98-121).
RequestsEnd == \A t \in Threads : calls[t].pc # "idle" ~> calls[t].pc = "done"
=============================================================================
