------------------------------ MODULE MCPeople ------------------------------
(* Small instances of People for TLC. *)
EXTENDS People

CONSTANTS o1, o2, d1, ivanov, petrov, short, full, other, centre, itmo, elsewhere, cs, home,
          w_ivanov, w_ivan, w_igor, w_petrovich, w_i, w_p,
          ph, w_petrov, known, nameless, unlisted, api, cdn

\* authors
Two == {1, 2}
Three == {1, 2, 3}
Says == 1 :> (1 :> Unknown @@ 2 :> elsewhere) @@ 2 :> (2 :> Unknown)
Years == 1 :> 5 @@ 2 :> 7
OneDoi == 1 :> d1 @@ 2 :> Unknown
Credit(orcid, called) == [orcid |-> orcid, names |-> called]
Credits == 1 :> (1 :> Credit(Unknown, {}) @@ 2 :> Credit(Unknown, {})) @@ 2 :> (2 :> Credit(o2, {full}))
Surnames == short :> ivanov @@ full :> ivanov @@ other :> petrov @@ centre :> petrov
IdsThere == 1 :> 1 @@ 2 :> 2 @@ 3 :> 3
InCrossref == [p \in Pubs |-> ivanov :> o1 @@ petrov :> Unknown]
Stay(place, years) == [place |-> place, years |-> years]
InOpenAlex ==
    1 :> [orcid |-> Unknown, stays |-> {Stay(elsewhere, {5})}, last |-> {},
          display |-> full, names |-> {}] @@
    2 :> [orcid |-> o2, stays |-> {Stay(itmo, {5})}, last |-> {elsewhere}, display |-> Unknown, names |-> {other}] @@
    3 :> [orcid |-> Unknown, stays |-> {}, last |-> {}, display |-> Unknown, names |-> {}]
Link(to, login, page) == [to |-> to, login |-> login, page |-> page]
InOrcid ==
    o1 :> [stated |-> <<2, 1>>, stays |-> {Stay(itmo, {7})}, names |-> {full},
           links |-> <<Link("index", Unknown, Unknown), Link("github", 12, Unknown), Link("github", 11, Unknown),
                       Link("page", Unknown, home)>>] @@
    o2 :> [stated |-> <<>>, stays |-> {}, names |-> {},
           links |-> <<Link("github", Unknown, Unknown), Link("page", Unknown, home)>>]
InText == 1 :> {3} @@ 2 :> {1}
OnPage == home :> {3, 1}
Surnamed == {<<3, 2>>, <<1, 1>>}
\* "Laboratory of Physics, Department of Physics, Kronverksky 49, ITMO" and
\* "Department of Physics, Another University"
Piece(called, is) == [names |-> called, itmo |-> is = "itmo", other |-> is = "other", idle |-> is = "idle",
                     unit |-> is = "unit"]
Mention(name, inside) == [name |-> name, inside |-> inside]
Places2 == itmo :> << <<Piece({Mention("lab", {}), Mention("physics", {"lab"})}, "unit"),
                        Piece({Mention("department", {})}, "unit"), Piece({}, "idle")>>, <<Piece({}, "itmo")>> >> @@
           elsewhere :> << <<Piece({Mention("department", {})}, "unit"), Piece({}, "other")>> >>
Depts2 == cs :> [names |-> {"lab", "department"}, aliases |-> {"department"}] @@
          ph :> [names |-> {"physics"}, aliases |-> {}]
Person(p) ==
    [NoPerson EXCEPT !.raw = IF p = 1 THEN short ELSE other,
                     !.authored = {[pub |-> q, slot |-> p, place |-> Unknown] :
                                        q \in {r \in Pubs : p \in DOMAIN Says[r]}}]
NewPeople == {1 :> Person(1) @@ 2 :> Person(2) @@ 3 :> Absent}

\* accounts
Owners == 21 :> 13 @@ 22 :> 11 @@ 23 :> 12 @@ 24 :> 12
Listed == 21 :> {11, 14} @@ 22 :> {12} @@ 23 :> {11} @@ 24 :> {14}
Lists == 11 :> <<22>> @@ 12 :> <<24, 23>> @@ 13 :> <<21>> @@ 14 :> <<>>
Kinds3 == 11 :> "user" @@ 12 :> "user" @@ 13 :> "organization" @@ 14 :> "bot"
Log == {<<21, 11, 1, short>>, <<22, 12, Unknown, full>>, <<22, 11, 2, short>>}
Page(emails, called, field, text) ==
    [emails |-> emails, name |-> called, about |-> [NoText EXCEPT ![field] = text]]
Users == 11 :> {Page({}, full, "company", "itmo"), Page({}, other, "company", "other")} @@
         12 :> {Page({3}, Unknown, "location", "city")} @@
         13 :> {Page({}, centre, "company", "other")} @@ 14 :> {Page({}, Unknown, "location", "other")}
Similar == {<<short, full>>, <<full, short>>, <<short, short>>, <<full, full>>}
Colleague(p, emails, called, account) ==
    [Person(p) EXCEPT !.itmo = TRUE, !.emails = emails, !.raw = called, !.github = account]
Repo(pubs) == [pubs |-> pubs, people |-> "none", contributors |-> {}]
Stub == [NoProfile EXCEPT !.kind = "organization", !.repos = {21}]
KnownPeople ==
    {[persons |-> 1 :> Colleague(1, {2}, full, account) @@ 2 :> Colleague(2, {3}, short, Unknown) @@ 3 :> Absent,
      profiles |-> [a \in Logins |-> IF a = 13 THEN Stub ELSE Absent],
      repositories |-> 21 :> Repo({1}) @@ 22 :> Absent @@ 23 :> Absent @@ 24 :> Absent] : account \in {Unknown, 11}}
Asking == {Question("github", {11, 1}), Question("github", {11, 2})}
AccountPairs == {Question("github", {a, p}) : a \in {11, 12}, p \in Two}

\* names
Row(surname, first, patronymic, id) ==
    [surname |-> surname, first |-> first, patronymic |-> patronymic, id |-> id]
Namesakes2 == {Row(w_ivanov, w_ivan, w_petrovich, 31), Row(w_ivanov, w_igor, NoWord, 32),
               Row(w_petrov, w_ivan, w_petrovich, 33), Row(w_petrov, w_ivan, NoWord, 34)}
Initials == w_ivan :> {w_i} @@ w_igor :> {w_i} @@ w_petrovich :> {w_p}
Spelled == known :> << <<w_i, w_ivanov>>, <<w_ivan, w_ivanov>> >> @@ unlisted :> << <<w_i, w_p>> >> @@
           nameless :> <<>>
P(surname, first, second) == [surname |-> surname, first |-> first, second |-> second]
Split(ru, en, matched) == [ru |-> ru, en |-> en, matched |-> matched, wellformed |-> TRUE]
W == P("word", "word", None)
SomeSplits ==
    {Split(W, W, TRUE), Split(P("word", "foreign", "invented"), P("word", "initial", "given"), FALSE),
     Split(P("word", "mixed", None), W, FALSE), Split(W, P("word", None, "given"), FALSE),
     Split(P("word", None, "given"), P("word", "word", "patronymic"), TRUE),
     [Split(W, W, FALSE) EXCEPT !.wellformed = FALSE]}

\* employees: 1 and 2 go by a name the catalog holds twice, 3 by one of the two's own
Names3 == 1 :> << <<w_ivan, w_petrov>> >> @@ 2 :> << <<w_i, w_petrov>>, <<w_ivan, w_petrov>> >> @@
          3 :> << <<w_ivan, w_petrovich, w_petrov>> >>
Employee(p, pubs, orcid, openalex) ==
    [NoPerson EXCEPT !.itmo = TRUE, !.orcid = orcid, !.openalex = openalex,
                     !.authored = {[pub |-> q, slot |-> p, place |-> itmo] : q \in pubs}]
StaffPeople ==
    {1 :> Employee(1, {1}, Unknown, NoSource) @@ 2 :> Employee(2, {2}, Unknown, NoSource) @@
     3 :> Employee(3, {}, orcid, Source("completed", 3)) : orcid \in {Unknown, o1}}
AllQuestions == AccountPairs \cup {Question("staff", {p, 33, 34}) : p \in Two} \cup {Question("group", Three)}

\* requests
OneApi == api :> [gap |-> 1, cap |-> 2] @@ cdn :> NoLimit
R(status, after, limit, to) ==
    [status |-> status, after |-> after, limit |-> limit, to |-> to, quota |-> "unsaid", reset |-> {}]
Quota(status, quota, reset) == [R(status, {}, {}, api) EXCEPT !.quota = quota, !.reset = reset]
SomeReplies ==
    {R("ok", {}, {}, api), R("busy", {2}, {}, api), R("busy", {}, {}, api), R("broken", {}, {}, api),
     R("lost", {}, {}, api), R("moved", {}, {}, cdn), R("ok", {}, {[gap |-> 2, cap |-> 1]}, api),
     Quota("denied", "unsaid", {}), Quota("denied", "spent", {2}), Quota("denied", "worded", {})}
=============================================================================
