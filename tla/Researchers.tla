---------------------------- MODULE Researchers ----------------------------
(***************************************************************************)
(* What is found out about the authors of a group's works: the stage that  *)
(* asks Crossref, OpenAlex and ORCID one request after another             *)
(* (pauk/pipeline/stages/persons.py), addresses in papers and on pages     *)
(* (emails.py) and departments in affiliations (departments.py).           *)
(***************************************************************************)
EXTENDS StageRows

CONSTANTS Persons,      \* ids of people, as numbers
          Logins,       \* accounts on GitHub, as numbers
          Emails,       \* addresses, as numbers: pick_email prefers a lower one
          Orcids, Dois, Families, Spellings, Places, Depts, Repos,
          Unknown,      \* an identifier, address, account or place that is not known
          NoYear,       \* the year of an affiliation that has none
          YearOf,       \* of Pubs
          \* what the collected record of a work says by now
          DoiOf,        \* of Pubs
          Stated,       \* Pubs -> its authors -> where it says they were
          CreditOf,     \* the same -> what else it says of the author, as [orcid, names]
          FamilyOf,     \* of Spellings
          OpenAlexOf,   \* of Persons
          \* what sources say
          CrossrefSays, \* Pubs -> the ORCID it gives a family name
          OpenAlexSays, \* Persons -> [orcid, stays, last, display, names]
          OrcidSays,    \* Orcids -> [stated, links, stays, names], links as [to, login, page]
          TextOf,       \* Pubs -> addresses in the full text
          PageOf,       \* a homepage -> addresses on it
          Fits,         \* <<address, person>>: a surname of the person is inside it
          ItmoPlaces,   \* places with the ROR of ITMO
          WordsOf,      \* place -> its segments, as sequences of parts: see PartSet
          Catalogue,    \* Depts -> [names, aliases]: aliases are generic names
          Pages

\* an affiliation with several years is one for each: [place, source, year]
Affiliations == [place : Places, source : {"openalex", "orcid"},
                 year : {YearOf[p] : p \in Pubs} \cup {NoYear}]
\* a place among the authors of a work, which the first id it was seen under
\* stands for, and where the author was
Authorships == [pub : Pubs, slot : Persons, place : Places \cup {Unknown}]
Wrote(row) == {x.pub : x \in row.authored}
SourceStates == {"none", "failed", "completed", "empty", "not_applicable"}
Source(state, key) == [state |-> state, key |-> key]
NoSource == Source("none", Unknown)

NoPerson == [itmo |-> FALSE, authored |-> {}, orcid |-> Unknown, emails |-> {}, card |-> Unknown,
             raw |-> Unknown, names |-> {}, github |-> Unknown, page |-> Unknown, affs |-> {},
             depts |-> {}, contributed |-> {}, merged |-> {},
             openalex |-> NoSource, orcids |-> NoSource, departments |-> "none"]
NoWork == [doi |-> Unknown, crossref |-> NoSource, emails |-> "none", depts |-> {}]

PersonRow ==
    [itmo : BOOLEAN, authored : SUBSET Authorships, orcid : Orcids \cup {Unknown}, emails : SUBSET Emails,
     card : Emails \cup {Unknown}, github : Logins \cup {Unknown},
     raw : Spellings \cup {Unknown},  \* name_raw
     names : SUBSET Spellings,        \* name_variants and other_names
     page : Pages \cup {Unknown}, affs : SUBSET Affiliations,
     depts : SUBSET Depts, contributed : SUBSET Repos, merged : SUBSET Persons,
     openalex : [state : SourceStates, key : Persons \cup {Unknown}],
     orcids : [state : SourceStates, key : Orcids \cup {Unknown}], departments : States]
WorkRow == [doi : Dois \cup {Unknown}, emails : States, depts : SUBSET Depts,
            crossref : [state : SourceStates, key : Dois \cup {Unknown}]]
PersonRows == [Persons -> {Absent} \cup PersonRow]
WorkRows == [Pubs -> {Absent} \cup WorkRow]

StaySet == [place : Places, years : SUBSET {YearOf[p] : p \in Pubs}]
ASSUME ResearchersAssumption ==
    /\ Pubs \subseteq Nat /\ IsFiniteSet(Pubs)
    /\ Persons \subseteq Nat /\ IsFiniteSet(Persons)
    /\ Logins \subseteq Nat /\ Emails \subseteq Nat
    /\ Absent \notin PersonRow \cup WorkRow
    /\ DoiOf \in [Pubs -> Dois \cup {Unknown}]
    /\ \A p \in Pubs : \A a \in DOMAIN Stated[p] \cap Persons : Stated[p][a] \in Places \cup {Unknown}
    /\ \A p \in Pubs : \A a \in DOMAIN Stated[p] \cap Persons :
          CreditOf[p][a] \in [orcid : Orcids \cup {Unknown}, names : SUBSET Spellings]
    /\ FamilyOf \in [Spellings -> Families] /\ OpenAlexOf \in [Persons -> Persons \cup {Unknown}]
    /\ CrossrefSays \in [Pubs -> [Families -> Orcids \cup {Unknown}]]
    /\ OpenAlexSays \in [Persons -> [orcid : Orcids \cup {Unknown}, stays : SUBSET StaySet,
                                     last : SUBSET Places, display : Spellings \cup {Unknown},
                                     names : SUBSET Spellings]]
    /\ OrcidSays \in [Orcids -> [stated : Seq(Emails), stays : SUBSET StaySet, names : SUBSET Spellings,
                links : Seq([to : {"index", "github", "page"}, login : Logins \cup {Unknown},
                             page : Pages \cup {Unknown}])]]
    /\ PageOf \in [Pages -> SUBSET Emails]

-----------------------------------------------------------------------------
People == Present(rows.persons)
Works == Present(rows.publications)
\* every spelling of a name
SpeltAs(row) == row.names \cup ({row.raw} \ {Unknown})
\* a run goes on with what it has before it, and ends when nothing is left
Doing(collection) == job.stage # "idle" /\ Head(job.todo).collection = collection
Onward(first) ==
    LET todo == first \o Tail(job.todo)
    IN job' = IF todo = <<>> THEN [job EXCEPT !.stage = "idle", !.todo = <<>>, !.begun = FALSE]
              ELSE [job EXCEPT !.todo = todo, !.begun = TRUE]
InOrder(S) == Ordered(S, <)

\* PersonsStage._needs_source
NeedsSource(force, source, key) == source.key # key \/ NeedsAttempt(force, source.state)

\* _people_in_scope
Eligible(selection) ==
    {a \in People : selection = All \/ Wrote(rows.persons[a]) \cap selection # {}}

MutSourcesAsked == <<"orcid", "openalex">>
\* OpenAlex can supply an ORCID, so it is asked first
SourcesAsked == <<"openalex", "orcid">>

\* run: every publication of an eligible author, then every eligible author
PersonsStart(force, selection) ==
    LET eligible == Eligible(selection)
        works == {p \in Works : \E a \in eligible : p \in Wrote(rows.persons[a])}
        ask(source, of) == [collection |-> source, of |-> of, force |-> force, among |-> eligible]
        crossref == [i \in 1 .. Cardinality(works) |-> ask("crossref", InOrder(works)[i])]
        about(a) == [i \in DOMAIN SourcesAsked |-> ask(SourcesAsked[i], a)]
    IN /\ MayStart("persons")
       /\ Started("persons", selection,
              crossref \o FlattenSeq([i \in 1 .. Cardinality(eligible) |-> about(InOrder(eligible)[i])]))
       /\ UNCHANGED rows

\* the authors of a work Crossref tells the ORCID of: the only one of the name,
\* and none known
Family(a) == FamilyOf[rows.persons[a].raw]
Told(p, authors) ==
    LET named == {a \in authors : rows.persons[a].raw # Unknown}
    IN {a \in named : /\ rows.persons[a].orcid = Unknown /\ CrossrefSays[p][Family(a)] # Unknown
                      /\ \A b \in named \ {a} : Family(b) # Family(a)}
\* what asking comes to, and whom it gives an ORCID; a failure may have given some
CrossrefEnds(ask) ==
    LET told == Told(ask.of, {a \in ask.among : ask.of \in Wrote(rows.persons[a])})
    IN IF rows.publications[ask.of].doi = Unknown THEN {[state |-> "not_applicable", given |-> {}]}
       ELSE {[state |-> IF told = {} THEN "empty" ELSE "completed", given |-> told]} \cup
            {[state |-> "failed", given |-> some] : some \in SUBSET told}
AskCrossref ==
    /\ Doing("crossref")
    /\ LET ask == Head(job.todo)
           work == rows.publications[ask.of]
       IN IF ~NeedsSource(ask.force, work.crossref, work.doi) THEN UNCHANGED rows
          ELSE \E end \in CrossrefEnds(ask) :
                  rows' = [rows EXCEPT
                      !.publications[ask.of].crossref = Source(end.state, work.doi),
                      !.persons = [a \in Persons |-> IF a \notin end.given THEN @[a]
                          ELSE [@[a] EXCEPT !.orcid = CrossrefSays[ask.of][Family(a)]]]]
    /\ Onward(<<>>)
\* the work is saved before its authors; a death between the two loses what
\* they were given
DieInCrossref ==
    /\ Doing("crossref") /\ job.runs <= MortalRuns
    /\ LET ask == Head(job.todo)
           work == rows.publications[ask.of]
       IN /\ NeedsSource(ask.force, work.crossref, work.doi)
          /\ \E end \in CrossrefEnds(ask) :
                rows' = [rows EXCEPT !.publications[ask.of].crossref = Source(end.state, work.doi)]
    /\ job' = [Idle(job.runs) EXCEPT !.torn = TRUE]

\* a stay is [place, years]; one without years counts when no other covers a work
Stays(stays, source) ==
    UNION {{[place |-> s.place, source |-> source, year |-> y] :
                y \in IF s.years = {} THEN {NoYear} ELSE s.years} : s \in stays}
\* _openalex_affiliations: last_known_institutions carries no years
OpenAlexAffiliations(said) ==
    Stays(said.stays \cup {[place |-> x, years |-> {}] : x \in said.last}, "openalex")
\* _orcid_affiliations
OrcidAffiliations(said) == Stays(said.stays, "orcid")
\* _orcid_profiles, _github_login: the first link of a kind, which may name no
\* account; what lists everybody's links is no homepage
NoLink == [to |-> "index", login |-> Unknown, page |-> Unknown]
FirstLink(links, kind) ==
    LET found == {i \in DOMAIN links : links[i].to = kind}
    IN IF found = {} THEN NoLink ELSE links[Min(found)]

\* an answer that breaks off is read in part
FromOpenAlex(row, said, whole) ==
    [row EXCEPT !.raw = IF said.display = Unknown THEN @ ELSE said.display,
                !.names = @ \cup said.names,
                !.orcid = IF @ = Unknown THEN said.orcid ELSE @,
                !.affs = IF whole THEN @ \cup OpenAlexAffiliations(said) ELSE @]
FromOrcid(row, said, whole) ==
    [row EXCEPT !.emails = @ \cup Range(said.stated),
                !.card = IF @ = Unknown /\ said.stated # <<>> THEN Head(said.stated) ELSE @,
                !.names = @ \cup said.names,
                !.github = IF @ = Unknown THEN FirstLink(said.links, "github").login ELSE @,
                !.page = IF @ = Unknown THEN FirstLink(said.links, "page").page ELSE @,
                !.affs = IF whole THEN @ \cup OrcidAffiliations(said) ELSE @]

\* _affiliation_for_year
PlacesFor(affs, year) ==
    LET covering == {x \in affs : x.year = year}
        dated == {x \in affs : x.year # NoYear}
        latest == {x \in dated : \A y \in dated : y.year <= x.year}
    IN {x.place : x \in IF covering # {} THEN covering ELSE IF dated # {} THEN latest ELSE affs}
\* is_itmo and _fill_missing_affiliations
Placements(row) ==
    LET ours == row.itmo \/ \E x \in row.affs : x.place \in ItmoPlaces
        open == IF row.affs = {} THEN {} ELSE {x.pub : x \in {y \in row.authored : y.place = Unknown}}
        Filled(x, pick) == IF x.place = Unknown /\ x.pub \in open THEN [x EXCEPT !.place = pick[x.pub]] ELSE x
    IN {[row EXCEPT !.itmo = ours, !.authored = {Filled(x, pick) : x \in @}] :
            pick \in Picks([p \in open |-> PlacesFor(row.affs, YearOf[p])])}

\* one request of the loop over people, and _save_person
AskAbout(source) ==
    /\ Doing(source)
    /\ LET ask == Head(job.todo)
           row == rows.persons[ask.of]
           field == IF source = "openalex" THEN "openalex" ELSE "orcids"
           key == IF source = "openalex" THEN OpenAlexOf[ask.of] ELSE row.orcid
           Read(whole) == IF source = "openalex" THEN FromOpenAlex(row, OpenAlexSays[ask.of], whole)
                          ELSE FromOrcid(row, OrcidSays[key], whole)
           Saved(found, state) ==
               \E placed \in Placements([found EXCEPT ![field] = Source(state, key)]) :
                   rows' = [rows EXCEPT !.persons[ask.of] = placed]
       IN IF ~NeedsSource(ask.force, row[field], key) THEN UNCHANGED rows
          ELSE IF key = Unknown THEN Saved(row, "not_applicable")
          ELSE \/ Saved(Read(TRUE), "completed")
               \/ \E found \in {row, Read(FALSE)} : Saved(found, "failed")
    /\ Onward(<<>>)

-----------------------------------------------------------------------------
\* pick_email
PickEmail(addresses) == IF addresses = {} THEN Unknown ELSE Min(addresses)
\* owner_of: the author, when only one fits
OwnersOf(email, authors) ==
    LET fitting == {a \in authors : <<email, a>> \in Fits}
    IN IF Cardinality(fitting) = 1 THEN fitting ELSE {}
\* author_surnames: people whose name has a surname long enough to look for
Searchable == {a \in People : rows.persons[a].itmo /\ \E e \in Emails : <<e, a>> \in Fits}

\* EmailsStage; a person is selected only by a run for people or for all
EmailsStart(force, selection) ==
    LET todo == {p \in Works : Selected(selection, p) /\ NeedsAttempt(force, rows.publications[p].emails)}
        inText(p) == {found \in TextOf[p] \X Searchable :
                          found[2] \in OwnersOf(found[1], {b \in Searchable : p \in Wrote(rows.persons[b])})}
        paged == {a \in Searchable : /\ selection = All /\ rows.persons[a].card = Unknown
                                     /\ rows.persons[a].page # Unknown}
        Found(answering, a) ==
            {e \in Emails : \E p \in todo : <<e, a>> \in inText(p)} \cup
            (IF a \in answering THEN {e \in PageOf[rows.persons[a].page] : <<e, a>> \in Fits} ELSE {})
        works == [p \in Pubs |-> IF p \notin todo THEN rows.publications[p]
                                 ELSE [rows.publications[p] EXCEPT
                                          !.emails = IF inText(p) = {} THEN "empty" ELSE "completed"]]
        people(answering) ==
            [a \in Persons |->
                IF a \notin People \/ Found(answering, a) = {} THEN rows.persons[a]
                ELSE [rows.persons[a] EXCEPT
                         !.emails = @ \cup Found(answering, a),
                         !.card = IF @ = Unknown THEN PickEmail(Found(answering, a)) ELSE @]]
    IN /\ MayStart("emails")
       /\ \E answering \in SUBSET paged :
            Started("emails", selection,
                (IF todo = {} THEN <<>> ELSE <<Write("publications", works)>>) \o
                (IF people(answering) = rows.persons THEN <<>>
                 ELSE <<Write("persons", people(answering))>>))
    /\ UNCHANGED rows

-----------------------------------------------------------------------------
\* what a place states, part by part: the names of the catalogue in it, each with
\* the longer ones it is inside of, and whether it names ITMO, another organisation,
\* or only titles and the address, and is a unit, which leads on to the university
UnitNames == UNION {Catalogue[d].names \cup Catalogue[d].aliases : d \in Depts}
PartSet == [names : SUBSET [name : UnitNames, inside : SUBSET UnitNames],
            itmo : BOOLEAN, other : BOOLEAN, idle : BOOLEAN, unit : BOOLEAN]
ASSUME PlacesAssumption ==
    \A x \in Places : \A s \in DOMAIN WordsOf[x] : Range(WordsOf[x][s]) \subseteq PartSet

\* _match_names, _context_names: a name that is generic, too, counts as that
PlainNames(d) == Catalogue[d].names \ Catalogue[d].aliases

\* _itmo_context_parts: the parts counted, as <<segment, position>>
Speaking(place) == [s \in DOMAIN WordsOf[place] |-> SelectSeq(WordsOf[place][s], LAMBDA part : ~part.idle)]
At(segments) == FlattenSeq([s \in DOMAIN segments |-> [k \in DOMAIN segments[s] |-> <<s, k>>]])
\* _organisation_is_itmo: nobody else is named before the next ITMO
OwnedByItmo(segment, k) ==
    \A i \in k .. Len(segment) : segment[i].other /\ ~segment[i].itmo =>
        \E j \in k .. i : segment[j].itmo
\* _near_itmo: whether part i may borrow the ITMO of part j
MayBorrow(segments, i, j) ==
    LET at == At(segments)
        Part(n) == FlattenSeq(segments)[n]
        mine == segments[at[i][1]]
    IN /\ i - j = 2 => Part(j + 1).unit /\ ~Part(j + 1).other
       /\ j - i = 2 => Part(i + 1).unit /\ ~Part(i + 1).other
       /\ at[i][1] # at[j][1] => \A k \in DOMAIN mine \ {at[i][2]} : mine[k].unit
       /\ OwnedByItmo(mine, at[i][2])
NearItmo(place) ==
    LET segments == Speaking(place)
        parts == FlattenSeq(segments)
        Beside(n) == {j \in DOMAIN parts : j \in n - 2 .. n + 2 /\ parts[j].itmo}
    IN {parts[n] : n \in {i \in DOMAIN parts : \E j \in Beside(i) : MayBorrow(segments, i, j)}}

\* _match_person: names of the catalogue in what a person's works state; a
\* generic one counts next to ITMO, none inside a longer one that counts
DepartmentsIn(places) ==
    LET stated == places \ {Unknown}
        said == UNION {UNION {part.names : part \in Range(FlattenSeq(WordsOf[x]))} : x \in stated}
        nearby == UNION {UNION {part.names : part \in NearItmo(x)} : x \in stated}
        Named(mentions, names) == {m \in mentions : m.name \in names}
        plain == Named(said, UNION {PlainNames(d) : d \in Depts})
        generic == Named(nearby, UNION {Catalogue[d].aliases : d \in Depts})
        counting == {m.name : m \in plain \cup generic}
        Alone(mentions) == {m.name : m \in {n \in mentions : n.inside \cap counting = {}}}
    IN {d \in Depts : PlainNames(d) \cap Alone(plain) # {} \/ Catalogue[d].aliases \cap Alone(generic) # {}}

\* DepartmentsStage
DepartmentsStart(force, selection) ==
    LET todo == {a \in Eligible(selection) : NeedsAttempt(force, rows.persons[a].departments)}
        named(a) == DepartmentsIn({x.place : x \in rows.persons[a].authored})
        of(p) == UNION {named(a) : a \in {b \in todo : rows.persons[b].itmo /\ p \in Wrote(rows.persons[b])}}
    IN /\ MayStart("departments")
       /\ Started("departments", selection,
              <<Write("persons", [a \in Persons |-> IF a \notin todo THEN rows.persons[a]
                    ELSE [rows.persons[a] EXCEPT !.depts = @ \cup named(a),
                              !.departments = IF named(a) = {} THEN "empty" ELSE "completed"]]),
                Write("publications", [p \in Pubs |-> IF rows.publications[p] = Absent THEN Absent
                    ELSE [rows.publications[p] EXCEPT !.depts = @ \cup of(p)]])>>)
    /\ UNCHANGED rows

-----------------------------------------------------------------------------
MutHome == [x \in Persons \cup Logins |-> x]
\* folded_ids
Home == [x \in Persons \cup Logins |->
            LET into == {a \in People : x \in rows.persons[a].merged}
            IN IF x \in Logins \/ into = {} THEN x ELSE CHOOSE a \in into : TRUE]

\* OpenAlexNormalizer, again: what the works say by now, and where, which wins
\* over a place that was filled in; a folded author's go to who stays
Normalized(a, row) ==
    LET places == {px \in Works \X Persons : px[2] \in DOMAIN Stated[px[1]] /\ Home[px[2]] = a}
        says == {[pub |-> on[1], slot |-> on[2], place |-> Stated[on[1]][on[2]]] : on \in places}
        credits == {CreditOf[on[1]][on[2]] : on \in places}
        orcids == {c.orcid : c \in credits} \ {Unknown}
        Same(x, y) == x.pub = y.pub /\ x.slot = y.slot
    IN [row EXCEPT
           !.itmo = @ \/ \E x \in says : x.place \in ItmoPlaces,
           !.orcid = IF @ = Unknown /\ orcids # {} THEN CHOOSE o \in orcids : TRUE ELSE @,
           !.names = @ \cup UNION {c.names : c \in credits},
           !.authored = {x \in @ : ~\E y \in says : Same(x, y) /\ y.place # Unknown} \cup
                        {y \in says : y.place # Unknown \/ ~\E x \in row.authored : Same(x, y)}]
NormalizeWorks ==
    /\ MayStart("normalize")
    /\ Started("normalize", All,
           <<Write("publications", [p \in Pubs |-> IF rows.publications[p] = Absent THEN Absent
                                    ELSE [rows.publications[p] EXCEPT !.doi = DoiOf[p]]]),
             Write("persons", [a \in Persons |-> IF rows.persons[a] = Absent THEN Absent
                               ELSE Normalized(a, rows.persons[a])])>>)
    /\ UNCHANGED rows

\* _merge_person, and the lines of _dedup_persons that fold with it
MergePerson(base, extra, id) ==
    LET first(a, b) == IF a = Unknown THEN b ELSE a
        source(a, b) == IF a.state = "none" THEN b ELSE a
    IN [base EXCEPT !.itmo = @ \/ extra.itmo, !.authored = @ \cup extra.authored,
            !.orcid = first(@, extra.orcid), !.card = first(@, extra.card),
            !.emails = @ \cup extra.emails \cup ({base.card, extra.card} \ {Unknown}),
            !.raw = first(@, extra.raw), !.names = @ \cup SpeltAs(extra),
            !.github = first(@, extra.github), !.page = first(@, extra.page),
            !.affs = @ \cup extra.affs, !.depts = @ \cup extra.depts,
            !.contributed = @ \cup extra.contributed, !.merged = @ \cup extra.merged \cup {id},
            !.openalex = source(@, extra.openalex), !.orcids = source(@, extra.orcids),
            !.departments = IF @ = "none" THEN extra.departments ELSE @]
\* DedupStage folds a person recorded twice
FoldPerson(base, extra) ==
    /\ MayStart("dedup") /\ {base, extra} \subseteq People /\ base < extra
    /\ Started("dedup", All,
           <<Write("persons", [rows.persons EXCEPT
                ![base] = MergePerson(@, rows.persons[extra], extra), ![extra] = Absent])>>)
    /\ UNCHANGED rows

\* the writes of a whole collection
RowsNext == job.stage # "idle" /\ Head(job.todo).collection \in DOMAIN rows /\ WriteNext
=============================================================================
