-------------------------- MODULE PeopleStageProofs --------------------------
(***************************************************************************)
(* The stages on authors, accounts and employees one by one, up to what    *)
(* they keep together: the types, what a finding may give way to, that     *)
(* sources were asked for what the rows hold, and that contributors of     *)
(* collected repositories have profiles.                                   *)
(***************************************************************************)
EXTENDS PeopleProofs

-----------------------------------------------------------------------------
(* Stages that rewrite whole collections. *)

\* a run that asks nobody has begun
Begins(stage) ==
    /\ RowsInv' /\ rows' = rows /\ job.stage = "idle" /\ job'.torn = job.torn /\ ~job'.begun
    /\ job'.stage \in {stage, "idle"} /\ job'.last \in {stage, "none"}

LEMMA StageBegins ==
    ASSUME RowsInv, NEW stage, stage # "idle", NEW selection, NEW writes \in Seq(Entries),
           MayStart(stage), Started(stage, selection, writes), rows' = rows,
           ReviewTypeOK', walk' \in Walks,
           Lined(writes), \A i \in DOMAIN writes : Suits(writes[i], stage)
    PROVE  Begins(stage) /\ job'.todo = writes
<1>1. RowsInv'
  BY StartKeeps
<1>2. /\ job'.todo = writes /\ job'.torn = job.torn /\ job.stage = "idle"
      /\ job'.stage = (IF writes = <<>> THEN "idle" ELSE stage)
      /\ ~job'.begun
      /\ job'.last = (IF selection = All THEN stage ELSE "none")
  BY StartedJob DEF RowsInv, GroupTyped
<1> QED BY <1>1, <1>2 DEF Begins

LEMMA StoreStays ==
    ASSUME RowsInv, review' = review, walk' = walk
    PROVE  ReviewTypeOK' /\ walk' \in Walks
BY DEF RowsInv, GroupTyped, ReviewTypeOK

\* writes of a stage that asks nobody
LEMMA WorksSuit ==
    ASSUME NEW stage, stage # "persons", NEW t \in WorkRows
    PROVE  /\ Write("publications", t) \in Entries /\ Suits(Write("publications", t), stage)
           /\ Write("publications", t).collection = "publications"
<1>1. Write("publications", t) \in Entries
  BY DEF Write, Entries, WriteSet
<1>2. Suits(Write("publications", t), stage)
  BY DEF Write, Suits, Asking, PersonSources
<1> QED BY <1>1, <1>2 DEF Write

LEMMA PersonsSuit ==
    ASSUME NEW stage, stage # "persons", NEW t \in PersonRows, PersonsFollow(rows.persons, t)
    PROVE  /\ Write("persons", t) \in Entries /\ Suits(Write("persons", t), stage)
           /\ Write("persons", t).collection = "persons"
<1>1. Write("persons", t) \in Entries
  BY DEF Write, Entries, WriteSet
<1>2. Suits(Write("persons", t), stage)
  BY DEF Write, Suits, Asking, PersonSources
<1> QED BY <1>1, <1>2 DEF Write

LEMMA ProfilesSuit ==
    ASSUME NEW stage, stage # "persons", NEW t \in ProfileRows, ProfilesFollow(rows.profiles, t)
    PROVE  /\ Write("profiles", t) \in Entries /\ Suits(Write("profiles", t), stage)
           /\ Write("profiles", t).collection = "profiles"
<1>1. Write("profiles", t) \in Entries
  BY DEF Write, Entries, WriteSet
<1>2. Suits(Write("profiles", t), stage)
  BY DEF Write, Suits, Asking, PersonSources
<1> QED BY <1>1, <1>2 DEF Write

\* at most one, or one after another
LEMMA NoWrite == <<>> \in Seq(Entries) /\ DOMAIN <<>> = {} /\ Lined(<<>>)
BY DEF Lined

LEMMA OneWrite ==
    ASSUME NEW only \in Entries
    PROVE  <<only>> \in Seq(Entries) /\ DOMAIN <<only>> = {1} /\ <<only>>[1] = only /\ Lined(<<only>>)
<1>1. <<only>> \in Seq(Entries) /\ DOMAIN <<only>> = {1} /\ <<only>>[1] = only
  OBVIOUS
<1> QED BY <1>1 DEF Lined

LEMMA TwoWrites ==
    ASSUME NEW first \in Entries, NEW second \in Entries, second.collection \in Later(first.collection)
    PROVE  /\ <<first, second>> \in Seq(Entries) /\ DOMAIN <<first, second>> = {1, 2}
           /\ <<first, second>>[1] = first /\ <<first, second>>[2] = second /\ Lined(<<first, second>>)
<1>1. <<first, second>> \in Seq(Entries) /\ DOMAIN <<first, second>> = {1, 2}
      /\ <<first, second>>[1] = first /\ <<first, second>>[2] = second
  OBVIOUS
<1>2. Lined(<<first, second>>)
  <2> SUFFICES ASSUME NEW i \in {1, 2}, NEW j \in {1, 2}, i < j
               PROVE  <<first, second>>[j].collection \in Later(<<first, second>>[i].collection)
    BY <1>1 DEF Lined
  <2>1. i = 1 /\ j = 2
    OBVIOUS
  <2> QED BY <1>1, <2>1
<1> QED BY <1>1, <1>2

\* everybody's row written again, with what was in it
LEMMA PeopleRewritten ==
    ASSUME RowsInv, NEW table, DOMAIN table = Persons, table = [a \in Persons |-> table[a]],
           \A a \in Persons \ People : table[a] = Absent,
           \A a \in People : /\ table[a] \in PersonRow /\ table[a].merged = rows.persons[a].merged
                             /\ Keeps(rows.persons[a], table[a], TRUE) /\ table[a].raw = rows.persons[a].raw
    PROVE  table \in PersonRows /\ PersonsFollow(rows.persons, table)
<1>1. table \in PersonRows
  <2>1. \A a \in Persons : table[a] \in {Absent} \cup PersonRow
    OBVIOUS
  <2> QED BY <2>1 DEF PersonRows
<1>2. rows.persons \in PersonRows /\ FoldedOnce(rows.persons)
  BY DEF RowsInv, GroupTyped, RowsTyped
<1>3. \A a \in Persons : rows.persons[a] = Absent => table[a] = Absent
  BY DEF People, Present
<1>4. \A a \in Present(rows.persons) :
          /\ table[a] # Absent /\ table[a].merged = rows.persons[a].merged
          /\ Keeps(rows.persons[a], table[a], TRUE) /\ Signed(a, rows.persons[a], table[a])
  BY ResearchersAssumption DEF People, Signed
<1> QED BY <1>1, <1>2, <1>3, <1>4, SamePeople

LEMMA RowsThere ==
    ASSUME RowsInv
    PROVE  /\ rows.persons \in PersonRows /\ rows.publications \in WorkRows
           /\ rows.profiles \in ProfileRows /\ rows.repositories \in RepoRows
           /\ People \subseteq Persons /\ Works \subseteq Pubs
           /\ Profiles \subseteq Logins /\ Repositories \subseteq Repos
           /\ \A a \in People : rows.persons[a] \in PersonRow
           /\ \A a \in Persons \ People : rows.persons[a] = Absent
           /\ \A p \in Works : rows.publications[p] \in WorkRow
           /\ \A p \in Pubs \ Works : rows.publications[p] = Absent
           /\ \A a \in Profiles : rows.profiles[a] \in ProfileRow
           /\ \A a \in Logins \ Profiles : rows.profiles[a] = Absent
           /\ \A r \in Repositories : rows.repositories[r] \in RepoRow
           /\ FoldedOnce(rows.persons)
BY DEF RowsInv, GroupTyped, RowsTyped, PersonRows, WorkRows, ProfileRows, RepoRows,
       People, Works, Profiles, Repositories, Present

\* Addresses found in texts and on pages are added.
LEMMA EmailsBegin ==
    ASSUME RowsInv, NEW force \in BOOLEAN, NEW selection, EmailsStart(force, selection),
           review' = review, walk' = walk
    PROVE  Begins("emails")
<1> DEFINE todo == {p \in Works : Selected(selection, p) /\ NeedsAttempt(force, rows.publications[p].emails)}
           inText(p) == {found \in TextOf[p] \X Searchable :
                             found[2] \in OwnersOf(found[1], {b \in Searchable : p \in Wrote(rows.persons[b])})}
           Found(answering, a) ==
               {e \in Emails : \E p \in todo : <<e, a>> \in inText(p)} \cup
               (IF a \in answering THEN {e \in PageOf[rows.persons[a].page] : <<e, a>> \in Fits} ELSE {})
           paged == {a \in Searchable : /\ selection = All /\ rows.persons[a].card = Unknown
                                        /\ rows.persons[a].page # Unknown}
           works == [p \in Pubs |-> IF p \notin todo THEN rows.publications[p]
                                    ELSE [rows.publications[p] EXCEPT
                                             !.emails = IF inText(p) = {} THEN "empty" ELSE "completed"]]
           people(answering) ==
               [a \in Persons |->
                   IF a \notin People \/ Found(answering, a) = {} THEN rows.persons[a]
                   ELSE [rows.persons[a] EXCEPT
                            !.emails = @ \cup Found(answering, a),
                            !.card = IF @ = Unknown THEN PickEmail(Found(answering, a)) ELSE @]]
<1>1. PICK answering \in SUBSET paged :
          Started("emails", selection,
              (IF todo = {} THEN <<>> ELSE <<Write("publications", works)>>) \o
              (IF people(answering) = rows.persons THEN <<>>
               ELSE <<Write("persons", people(answering))>>))
  BY Zenon DEF EmailsStart
<1>2. MayStart("emails") /\ rows' = rows
  BY Zenon DEF EmailsStart
<1>3. works \in WorkRows
  <2>1. ASSUME NEW p \in Pubs PROVE works[p] \in {Absent} \cup WorkRow
    <3>1. CASE p \notin todo
      BY <3>1, RowsThere
    <3>2. CASE p \in todo
      <4>1. rows.publications[p] \in WorkRow
        BY <3>2, RowsThere
      <4>2. (IF inText(p) = {} THEN "empty" ELSE "completed") \in States
        BY DEF States
      <4>3. works[p] = [rows.publications[p] EXCEPT !.emails = IF inText(p) = {} THEN "empty" ELSE "completed"]
        BY <3>2
      <4> HIDE DEF inText, works
      <4> QED BY <4>1, <4>2, <4>3 DEF WorkRow
    <3> QED BY <3>1, <3>2
  <2> HIDE DEF todo, inText
  <2> QED BY <2>1 DEF WorkRows
<1> HIDE DEF works, inText
<1>4. ASSUME NEW a \in People
      PROVE  Found(answering, a) \subseteq Emails
  <2>1. ASSUME a \in answering PROVE PageOf[rows.persons[a].page] \subseteq Emails
    <3>1. rows.persons[a] \in PersonRow /\ rows.persons[a].page # Unknown
      BY <2>1, RowsThere
    <3>2. rows.persons[a].page \in Pages
      BY <3>1 DEF PersonRow
    <3> QED BY <3>2, ResearchersAssumption
  <2> QED BY <2>1
<1> HIDE DEF Found, paged
<1> DEFINE table == people(answering)
<1>5. ASSUME NEW a \in People
      PROVE  /\ table[a] \in PersonRow /\ table[a].merged = rows.persons[a].merged
             /\ Keeps(rows.persons[a], table[a], TRUE) /\ table[a].raw = rows.persons[a].raw
  <2> DEFINE row == rows.persons[a]
             found == Found(answering, a)
  <2>1. row \in PersonRow /\ found \subseteq Emails /\ a \in Persons
    BY <1>4, RowsThere
  <2>2. table[a] = IF found = {} THEN row
                   ELSE [row EXCEPT !.emails = @ \cup found,
                                    !.card = IF @ = Unknown THEN PickEmail(found) ELSE @]
    BY <2>1
  <2> HIDE DEF table, row, found
  <2>3. CASE found = {}
    <3>1. Keeps(row, row, TRUE)
      BY DEF Keeps
    <3> QED BY <2>1, <2>2, <2>3, <3>1 DEF row
  <2>4. CASE found # {}
    <3> DEFINE card == IF row.card = Unknown THEN PickEmail(found) ELSE row.card
    <3>1. table[a] = [row EXCEPT !.emails = row.emails \cup found, !.card = card]
      BY <2>1, <2>2, <2>4 DEF PersonRow
    <3>2. PickEmail(found) \in Emails
      <4>1. found \subseteq Nat
        BY <2>1, ResearchersAssumption
      <4>2. Min(found) \in found
        BY <2>4, <4>1, MinBelongs
      <4> QED BY <2>1, <2>4, <4>2 DEF PickEmail
    <3>3. /\ card \in Emails \cup {Unknown} /\ (row.card # Unknown => card = row.card)
          /\ row.emails \cup found \in SUBSET Emails
      BY <2>1, <3>2 DEF PersonRow
    <3> HIDE DEF card
    <3>4. table[a] \in PersonRow
      BY ZenonT(60), <2>1, <3>1, <3>3 DEF PersonRow
    <3>5. Gathers(row, table[a], TRUE) /\ table[a].merged = row.merged /\ table[a].raw = row.raw
      BY <2>1, <3>1, <3>3 DEF PersonRow, Gathers
    <3>6. Keeps(row, table[a], TRUE)
      BY <3>5, GatheredKept
    <3> QED BY <3>4, <3>5, <3>6 DEF row
  <2> QED BY <2>3, <2>4
<1>6. /\ DOMAIN table = Persons /\ table = [a \in Persons |-> table[a]]
      /\ \A a \in Persons \ People : table[a] = Absent
  BY RowsThere
<1> HIDE DEF table
<1>7. table \in PersonRows /\ PersonsFollow(rows.persons, table)
  BY <1>5, <1>6, PeopleRewritten
<1> DEFINE first == IF todo = {} THEN <<>> ELSE <<Write("publications", works)>>
           second == IF table = rows.persons THEN <<>> ELSE <<Write("persons", table)>>
<1>10. Started("emails", selection, first \o second)
  BY <1>1, Zenon DEF table
<1> HIDE DEF todo
<1>8. /\ first \in Seq(Entries) /\ Lined(first)
      /\ \A i \in DOMAIN first : Suits(first[i], "emails") /\ first[i].collection = "publications"
  <2>1. PICK w : w = Write("publications", works)
    OBVIOUS
  <2>2. w \in Entries /\ Suits(w, "emails") /\ w.collection = "publications"
    BY <1>3, <2>1, WorksSuit
  <2>3. first = <<>> \/ first = <<w>>
    BY <2>1
  <2> HIDE DEF first
  <2> QED BY <2>2, <2>3, NoWrite, OneWrite
<1>9. /\ second \in Seq(Entries) /\ Lined(second)
      /\ \A i \in DOMAIN second : Suits(second[i], "emails") /\ second[i].collection = "persons"
  <2>1. PICK w : w = Write("persons", table)
    OBVIOUS
  <2>2. w \in Entries /\ Suits(w, "emails") /\ w.collection = "persons"
    BY <1>7, <2>1, PersonsSuit
  <2>3. second = <<>> \/ second = <<w>>
    BY <2>1
  <2> HIDE DEF second
  <2> QED BY <2>2, <2>3, NoWrite, OneWrite
<1> HIDE DEF first, second
<1>11. "persons" \in Later("publications")
  BY DEF Later, Asking
<1>12. Lined(first \o second)
  BY <1>8, <1>9, <1>11, LinesJoin
<1>13. first \o second \in Seq(Entries) /\ Joins(first \o second, first, second)
  BY <1>8, <1>9, JoinedLine, Zenon
<1>14. \A i \in DOMAIN (first \o second) : Suits((first \o second)[i], "emails")
  BY <1>8, <1>9, <1>13 DEF Joins
<1>15. ReviewTypeOK' /\ walk' \in Walks
  BY StoreStays
<1>16. PICK writes : writes = first \o second
  OBVIOUS
<1>17. writes \in Seq(Entries) /\ Lined(writes) /\ (\A i \in DOMAIN writes : Suits(writes[i], "emails"))
       /\ Started("emails", selection, writes)
  BY <1>10, <1>12, <1>13, <1>14, <1>16
<1>18. "emails" # "idle"
  OBVIOUS
<1>19. Begins("emails") /\ job'.todo = writes
  BY <1>2, <1>15, <1>17, <1>18, StageBegins, Zenon
<1> QED BY <1>19

LEMMA BeginsOne ==
    ASSUME RowsInv, NEW stage, stage # "idle", NEW selection, NEW only \in Entries, Suits(only, stage),
           MayStart(stage), Started(stage, selection, <<only>>), rows' = rows, review' = review, walk' = walk
    PROVE  Begins(stage) /\ job'.todo = <<only>>
<1>1. ReviewTypeOK' /\ walk' \in Walks
  BY StoreStays
<1>2. <<only>> \in Seq(Entries) /\ DOMAIN <<only>> = {1} /\ <<only>>[1] = only /\ Lined(<<only>>)
  BY OneWrite
<1>3. \A i \in DOMAIN <<only>> : Suits(<<only>>[i], stage)
  BY <1>2
<1> QED BY <1>1, <1>2, <1>3, StageBegins

LEMMA BeginsTwo ==
    ASSUME RowsInv, NEW stage, stage # "idle", NEW selection, NEW first \in Entries, NEW second \in Entries,
           Suits(first, stage), Suits(second, stage), second.collection \in Later(first.collection),
           MayStart(stage), Started(stage, selection, <<first, second>>),
           rows' = rows, review' = review, walk' = walk
    PROVE  Begins(stage) /\ job'.todo = <<first, second>>
<1>1. ReviewTypeOK' /\ walk' \in Walks
  BY StoreStays
<1>2. /\ <<first, second>> \in Seq(Entries) /\ DOMAIN <<first, second>> = {1, 2}
      /\ <<first, second>>[1] = first /\ <<first, second>>[2] = second /\ Lined(<<first, second>>)
  BY TwoWrites
<1>3. \A i \in DOMAIN <<first, second>> : Suits(<<first, second>>[i], stage)
  BY <1>2
<1> QED BY <1>1, <1>2, <1>3, StageBegins

\* Departments are added to people and to their works.
LEMMA DepartmentsBegin ==
    ASSUME RowsInv, NEW force \in BOOLEAN, NEW selection, DepartmentsStart(force, selection),
           review' = review, walk' = walk
    PROVE  Begins("departments")
<1> DEFINE todo == {a \in Eligible(selection) : NeedsAttempt(force, rows.persons[a].departments)}
           named(a) == DepartmentsIn({x.place : x \in rows.persons[a].authored})
           of(p) == UNION {named(a) : a \in {b \in todo : rows.persons[b].itmo /\ p \in Wrote(rows.persons[b])}}
           table == [a \in Persons |-> IF a \notin todo THEN rows.persons[a]
                     ELSE [rows.persons[a] EXCEPT !.depts = @ \cup named(a),
                               !.departments = IF named(a) = {} THEN "empty" ELSE "completed"]]
           works == [p \in Pubs |-> IF rows.publications[p] = Absent THEN Absent
                     ELSE [rows.publications[p] EXCEPT !.depts = @ \cup of(p)]]
<1>1. /\ MayStart("departments") /\ rows' = rows
      /\ Started("departments", selection, <<Write("persons", table), Write("publications", works)>>)
  BY Zenon DEF DepartmentsStart
<1>2. todo \subseteq People
  BY DEF Eligible
<1>3. ASSUME NEW a PROVE named(a) \in SUBSET Depts
  BY DEF DepartmentsIn
<1> HIDE DEF named
<1>4. ASSUME NEW p PROVE of(p) \in SUBSET Depts
  BY <1>3
<1> HIDE DEF of
<1>5. works \in WorkRows
  <2>1. ASSUME NEW p \in Pubs PROVE works[p] \in {Absent} \cup WorkRow
    <3>1. CASE p \notin Works
      BY <3>1, RowsThere
    <3>2. CASE p \in Works
      <4>1. rows.publications[p] \in WorkRow /\ rows.publications[p] # Absent
        BY <3>2, RowsThere DEF Works, Present
      <4>2. works[p] = [rows.publications[p] EXCEPT !.depts = @ \cup of(p)]
        BY <4>1
      <4>3. PICK w : w = rows.publications[p]
        OBVIOUS
      <4>4. works[p] = [w EXCEPT !.depts = w.depts \cup of(p)] /\ w \in WorkRow
            /\ w.depts \cup of(p) \in SUBSET Depts
        BY <1>4, <4>1, <4>2, <4>3 DEF WorkRow
      <4> HIDE DEF works
      <4> QED BY <4>4 DEF WorkRow
    <3> QED BY <3>1, <3>2
  <2> QED BY <2>1 DEF WorkRows
<1> HIDE DEF works, of
<1>6. ASSUME NEW a \in People
      PROVE  /\ table[a] \in PersonRow /\ table[a].merged = rows.persons[a].merged
             /\ Keeps(rows.persons[a], table[a], TRUE) /\ table[a].raw = rows.persons[a].raw
  <2> DEFINE row == rows.persons[a]
             state == IF named(a) = {} THEN "empty" ELSE "completed"
  <2>1. row \in PersonRow /\ a \in Persons
    BY RowsThere
  <2>2. table[a] = IF a \notin todo THEN row ELSE [row EXCEPT !.depts = @ \cup named(a), !.departments = state]
    BY <2>1
  <2>3. state \in States
    BY DEF States
  <2> HIDE DEF table, row, todo, state
  <2>4. CASE a \notin todo
    <3>1. Keeps(row, row, TRUE)
      BY DEF Keeps
    <3> QED BY <2>1, <2>2, <2>4, <3>1 DEF row
  <2>5. CASE a \in todo
    <3>1. /\ table[a] = [row EXCEPT !.depts = row.depts \cup named(a), !.departments = state]
          /\ row.depts \cup named(a) \in SUBSET Depts
      BY <1>3, <2>1, <2>2, <2>5 DEF PersonRow
    <3>2. table[a] \in PersonRow
      BY <2>1, <2>3, <3>1 DEF PersonRow
    <3>3. Gathers(row, table[a], TRUE) /\ table[a].merged = row.merged /\ table[a].raw = row.raw
      BY <2>1, <3>1 DEF PersonRow, Gathers
    <3>4. Keeps(row, table[a], TRUE)
      BY <3>3, GatheredKept
    <3> QED BY <3>2, <3>3, <3>4 DEF row
  <2> QED BY <2>4, <2>5
<1>7. /\ DOMAIN table = Persons /\ table = [a \in Persons |-> table[a]]
      /\ \A a \in Persons \ People : table[a] = Absent
  <2>1. ASSUME NEW a \in Persons \ People PROVE table[a] = Absent
    <3>1. a \notin todo /\ rows.persons[a] = Absent
      BY <1>2, RowsThere
    <3> HIDE DEF todo
    <3> QED BY <3>1
  <2>2. DOMAIN table = Persons /\ table = [a \in Persons |-> table[a]]
    OBVIOUS
  <2> HIDE DEF table
  <2> QED BY <2>1, <2>2
<1> HIDE DEF table
<1>8. table \in PersonRows /\ PersonsFollow(rows.persons, table)
  BY <1>6, <1>7, PeopleRewritten
<1>9. PICK first, second : first = Write("persons", table) /\ second = Write("publications", works)
  OBVIOUS
<1>10. first \in Entries /\ Suits(first, "departments") /\ first.collection = "persons"
  BY <1>8, <1>9, PersonsSuit
<1>11. second \in Entries /\ Suits(second, "departments") /\ second.collection = "publications"
  BY <1>5, <1>9, WorksSuit
<1>12. "publications" \in Later("persons")
  BY DEF Later, Asking
<1>13. Started("departments", selection, <<first, second>>)
  BY <1>1, <1>9
<1> QED BY <1>1, <1>10, <1>11, <1>12, <1>13, BeginsTwo

\* Works are read again: what they say by now of an author goes over what was filled in.
LEMMA NormalizedKeeps ==
    ASSUME RowsInv, NEW a \in People
    PROVE  LET row == rows.persons[a]
               is == Normalized(a, row)
           IN is \in PersonRow /\ is.merged = row.merged /\ Keeps(row, is, TRUE) /\ is.raw = row.raw
<1> DEFINE row == rows.persons[a]
           is == Normalized(a, row)
           places == {px \in Works \X Persons : px[2] \in DOMAIN Stated[px[1]] /\ Home[px[2]] = a}
           credits == {CreditOf[on[1]][on[2]] : on \in places}
           orcids == {c.orcid : c \in credits} \ {Unknown}
           orcid == IF row.orcid = Unknown /\ orcids # {} THEN CHOOSE o \in orcids : TRUE ELSE row.orcid
           spelt == row.names \cup UNION {c.names : c \in credits}
           says == {[pub |-> on[1], slot |-> on[2], place |-> Stated[on[1]][on[2]]] :
                    on \in places}
           Same(x, y) == x.pub = y.pub /\ x.slot = y.slot
           ours == row.itmo \/ \E x \in says : x.place \in ItmoPlaces
           authored == {x \in row.authored : ~\E y \in says : Same(x, y) /\ y.place # Unknown} \cup
                       {y \in says : y.place # Unknown \/ ~\E x \in row.authored : Same(x, y)}
<1>1. row \in PersonRow
  BY RowsThere
<1>2. is = [row EXCEPT !.itmo = ours, !.orcid = orcid, !.names = spelt, !.authored = authored]
  <2>1. is = [row EXCEPT !.itmo = @ \/ \E x \in says : x.place \in ItmoPlaces,
                         !.orcid = IF @ = Unknown /\ orcids # {} THEN CHOOSE o \in orcids : TRUE ELSE @,
                         !.names = @ \cup UNION {c.names : c \in credits},
                         !.authored = {x \in @ : ~\E y \in says : Same(x, y) /\ y.place # Unknown} \cup
                                      {y \in says : y.place # Unknown \/ ~\E x \in row.authored : Same(x, y)}]
    BY Zenon DEF Normalized
  <2> HIDE DEF is, row, orcids, credits, says
  <2> QED BY <1>1, <2>1 DEF PersonRow
<1>13. /\ orcid \in Orcids \cup {Unknown} /\ (row.orcid # Unknown => orcid = row.orcid)
       /\ spelt \in SUBSET Spellings /\ row.names \subseteq spelt
  <2>1. \A c \in credits : c.orcid \in Orcids \cup {Unknown} /\ c.names \subseteq Spellings
    <3> SUFFICES ASSUME NEW p \in Works, NEW x \in Persons, x \in DOMAIN Stated[p]
                 PROVE  /\ CreditOf[p][x].orcid \in Orcids \cup {Unknown}
                        /\ CreditOf[p][x].names \subseteq Spellings
      BY Z3
    <3>1. CreditOf[p][x] \in [orcid : Orcids \cup {Unknown}, names : SUBSET Spellings]
      BY RowsThere, ResearchersAssumption
    <3> QED BY <3>1
  <2> HIDE DEF credits
  <2>2. orcids \subseteq Orcids
    BY <2>1
  <2>3. orcids # {} => (CHOOSE o \in orcids : TRUE) \in orcids
    BY Zenon
  <2>4. row.orcid \in Orcids \cup {Unknown} /\ row.names \subseteq Spellings
    BY <1>1 DEF PersonRow
  <2> HIDE DEF orcids, row
  <2> QED BY <2>1, <2>2, <2>3, <2>4
<1>3. \A y \in says : /\ y \in Authorships /\ y.slot \in DOMAIN Stated[y.pub]
                      /\ y = [pub |-> y.pub, slot |-> y.slot, place |-> Stated[y.pub][y.slot]]
  <2> SUFFICES ASSUME NEW p \in Works, NEW x \in Persons, x \in DOMAIN Stated[p]
               PROVE  [pub |-> p, slot |-> x, place |-> Stated[p][x]] \in Authorships
    BY Z3
  <2>1. p \in Pubs /\ Stated[p][x] \in Places \cup {Unknown}
    BY RowsThere, ResearchersAssumption
  <2> QED BY <2>1 DEF Authorships
<1>4. row.authored \subseteq Authorships /\ row.itmo \in BOOLEAN
  BY <1>1 DEF PersonRow
<1> HIDE DEF is, row, says, orcid, spelt
<1>5. authored \in SUBSET Authorships
  BY <1>3, <1>4
<1>6. \A x \in row.authored : x.place # Unknown =>
          \/ x \in authored
          \/ x.slot \in DOMAIN Stated[x.pub] /\ [x EXCEPT !.place = Stated[x.pub][x.slot]] \in authored
  <2> SUFFICES ASSUME NEW x \in row.authored, x \notin authored
               PROVE  /\ x.slot \in DOMAIN Stated[x.pub]
                      /\ [x EXCEPT !.place = Stated[x.pub][x.slot]] \in authored
    OBVIOUS
  <2>1. PICK y \in says : Same(x, y) /\ y.place # Unknown
    OBVIOUS
  <2>2. y \in authored
    BY <2>1
  <2>3. x \in Authorships
    BY <1>4
  <2>4. [x EXCEPT !.place = Stated[x.pub][x.slot]] = [pub |-> x.pub, slot |-> x.slot, place |-> Stated[x.pub][x.slot]]
    BY <2>3 DEF Authorships
  <2>5. /\ y = [pub |-> y.pub, slot |-> y.slot, place |-> Stated[y.pub][y.slot]]
        /\ y.slot \in DOMAIN Stated[y.pub] /\ x.pub = y.pub /\ x.slot = y.slot
    BY <1>3, <2>1
  <2> HIDE DEF authored
  <2> QED BY <2>2, <2>4, <2>5
<1>7. {x.pub : x \in row.authored} \subseteq {x.pub : x \in authored}
  <2> SUFFICES ASSUME NEW x \in row.authored PROVE \E y \in authored : y.pub = x.pub
    OBVIOUS
  <2>1. CASE x \in authored
    BY <2>1
  <2>2. CASE x \notin authored
    <3>1. PICK y \in says : Same(x, y) /\ y.place # Unknown
      BY <2>2
    <3> QED BY <3>1
  <2> QED BY <2>1, <2>2
<1>8. ours \in BOOLEAN
  BY <1>4
<1> HIDE DEF authored, ours
<1>9. is \in PersonRow
  BY <1>1, <1>2, <1>5, <1>8, <1>13 DEF PersonRow
<1>10. /\ is.emails = row.emails /\ is.names = spelt /\ is.affs = row.affs
       /\ is.depts = row.depts /\ is.contributed = row.contributed /\ is.authored = authored
       /\ is.card = row.card /\ is.orcid = orcid /\ is.github = row.github
       /\ is.merged = row.merged /\ is.raw = row.raw
  BY <1>1, <1>2 DEF PersonRow
<1>11. Wrote(row) \subseteq Wrote(is)
  BY <1>7, <1>10 DEF Wrote
<1>12. Keeps(row, is, TRUE)
  BY <1>6, <1>10, <1>11, <1>13 DEF Keeps
<1> QED BY <1>9, <1>10, <1>12 DEF is, row

LEMMA NormalizeBegins ==
    ASSUME RowsInv, NormalizeWorks, review' = review, walk' = walk
    PROVE  Begins("normalize")
<1> DEFINE works == [p \in Pubs |-> IF rows.publications[p] = Absent THEN Absent
                                    ELSE [rows.publications[p] EXCEPT !.doi = DoiOf[p]]]
           table == [a \in Persons |-> IF rows.persons[a] = Absent THEN Absent
                                       ELSE Normalized(a, rows.persons[a])]
<1>1. /\ MayStart("normalize") /\ rows' = rows
      /\ Started("normalize", All, <<Write("publications", works), Write("persons", table)>>)
  BY DEF NormalizeWorks
<1>2. works \in WorkRows
  <2>1. ASSUME NEW p \in Pubs PROVE works[p] \in {Absent} \cup WorkRow
    <3>1. CASE p \notin Works
      BY <3>1, RowsThere
    <3>2. CASE p \in Works
      <4>1. rows.publications[p] \in WorkRow /\ rows.publications[p] # Absent
        BY <3>2, RowsThere DEF Works, Present
      <4>2. works[p] = [rows.publications[p] EXCEPT !.doi = DoiOf[p]] /\ DoiOf[p] \in Dois \cup {Unknown}
        BY <4>1, ResearchersAssumption
      <4> HIDE DEF works
      <4> QED BY <4>1, <4>2 DEF WorkRow
    <3> QED BY <3>1, <3>2
  <2> QED BY <2>1 DEF WorkRows
<1>3. ASSUME NEW a \in People
      PROVE  /\ table[a] \in PersonRow /\ table[a].merged = rows.persons[a].merged
             /\ Keeps(rows.persons[a], table[a], TRUE) /\ table[a].raw = rows.persons[a].raw
  <2>1. table[a] = Normalized(a, rows.persons[a])
    BY RowsThere DEF People, Present
  <2> HIDE DEF table
  <2> QED BY <2>1, NormalizedKeeps
<1>4. /\ DOMAIN table = Persons /\ table = [a \in Persons |-> table[a]]
      /\ \A a \in Persons \ People : table[a] = Absent
  BY RowsThere
<1> HIDE DEF table, works
<1>5. table \in PersonRows /\ PersonsFollow(rows.persons, table)
  BY <1>3, <1>4, PeopleRewritten
<1>6. PICK first, second : first = Write("publications", works) /\ second = Write("persons", table)
  OBVIOUS
<1>7. first \in Entries /\ Suits(first, "normalize") /\ first.collection = "publications"
  BY <1>2, <1>6, WorksSuit
<1>8. second \in Entries /\ Suits(second, "normalize") /\ second.collection = "persons"
  BY <1>5, <1>6, PersonsSuit
<1>9. "persons" \in Later("publications")
  BY DEF Later, Asking
<1>10. Started("normalize", All, <<first, second>>)
  BY <1>1, <1>6
<1> QED BY <1>1, <1>7, <1>8, <1>9, <1>10, BeginsTwo

\* A person recorded twice is folded: what the second knew is with the first.
LEMMA FoldBegins ==
    ASSUME RowsInv, NEW base \in Persons, NEW extra \in Persons, FoldPerson(base, extra),
           review' = review, walk' = walk
    PROVE  Begins("dedup")
<1> DEFINE into == MergePerson(rows.persons[base], rows.persons[extra], extra)
           table == [rows.persons EXCEPT ![base] = into, ![extra] = Absent]
<1>1. /\ MayStart("dedup") /\ rows' = rows /\ base \in People /\ extra \in People /\ base # extra
      /\ Started("dedup", All, <<Write("persons",
             [rows.persons EXCEPT ![base] = MergePerson(@, rows.persons[extra], extra), ![extra] = Absent])>>)
  BY ResearchersAssumption DEF FoldPerson
<1>2. rows.persons[base] \in PersonRow /\ rows.persons[extra] \in PersonRow /\ rows.persons \in PersonRows
      /\ FoldedOnce(rows.persons) /\ Absent \notin PersonRow
  BY <1>1, RowsThere, ResearchersAssumption
<1>3. /\ into \in PersonRow
      /\ into.merged = rows.persons[base].merged \cup rows.persons[extra].merged \cup {extra}
      /\ Gathers(rows.persons[base], into, TRUE) /\ Gathers(rows.persons[extra], into, FALSE)
      /\ SameSign(rows.persons[base], into)
  BY <1>2, MergeRow
<1>4. Started("dedup", All, <<Write("persons", table)>>)
  <2>1. table = [rows.persons EXCEPT ![base] = MergePerson(@, rows.persons[extra], extra), ![extra] = Absent]
    BY <1>1
  <2> HIDE DEF table
  <2> QED BY <1>1, <2>1
<1> HIDE DEF into
<1>5. /\ table[base] = into /\ table[extra] = Absent /\ DOMAIN table = Persons
      /\ \A a \in Persons \ {base, extra} : table[a] = rows.persons[a]
  BY <1>1, <1>2 DEF PersonRows
<1>6. table \in PersonRows
  BY <1>2, <1>3 DEF PersonRows
<1> HIDE DEF table
<1>7. Present(table) = People \ {extra}
  BY <1>1, <1>2, <1>3, <1>5 DEF People, Present, PersonRows
<1>8. FoldedOnce(table)
  <2>1. ASSUME NEW a \in Present(table)
        PROVE  a \in People /\ a # extra
               /\ table[a].merged = (IF a = base THEN into.merged ELSE rows.persons[a].merged)
    BY <1>5, <1>7, RowsThere
  <2>2. \A a, b \in People : /\ b \notin rows.persons[a].merged
                             /\ a # b => rows.persons[a].merged \cap rows.persons[b].merged = {}
    BY <1>2 DEF FoldedOnce, People
  <2>3. ASSUME NEW a \in Present(table), NEW b \in Present(table) PROVE b \notin table[a].merged
    BY <1>1, <1>3, <2>1, <2>2
  <2>4. ASSUME NEW a \in Present(table), NEW b \in Present(table), a # b
        PROVE  table[a].merged \cap table[b].merged = {}
    <3>1. CASE a # base /\ b # base
      BY <2>1, <2>2, <2>4, <3>1
    <3>2. \A c \in People \ {base, extra} : into.merged \cap rows.persons[c].merged = {}
      BY <1>1, <1>3, <2>2
    <3> QED BY <2>1, <2>4, <3>1, <3>2
  <2> QED BY <2>3, <2>4 DEF FoldedOnce
<1>9. PersonsFollow(rows.persons, table)
  <2>1. ASSUME NEW a \in Present(rows.persons) \cap Present(table)
        PROVE  Keeps(rows.persons[a], table[a], TRUE) /\ Signed(a, rows.persons[a], table[a])
    <3>1. CASE a = base
      BY <1>3, <1>5, <3>1, GatheredKept DEF Signed, SameSign
    <3>2. CASE a # base
      <4>1. table[a] = rows.persons[a]
        BY <1>5, <1>7, <3>2, RowsThere
      <4>2. \A row : Keeps(row, row, TRUE) /\ \A b : Signed(b, row, row)
        BY DEF Keeps, Signed
      <4> QED BY <4>1, <4>2
    <3> QED BY <3>1, <3>2
  <2>2. ASSUME NEW a \in Present(rows.persons) \ Present(table)
        PROVE  /\ \E b \in Present(table) : a \in table[b].merged
               /\ \A b \in Present(table) : a \in table[b].merged => Keeps(rows.persons[a], table[b], FALSE)
    <3>1. a = extra
      BY <1>7 DEF People
    <3>2. base \in Present(table) /\ extra \in table[base].merged
      BY <1>1, <1>3, <1>5, <1>7
    <3>3. ASSUME NEW b \in Present(table), extra \in table[b].merged PROVE b = base
      <4>1. b \in People /\ b # extra
        BY <1>7
      <4>2. extra \notin rows.persons[b].merged
        BY <1>1, <1>2, <4>1 DEF FoldedOnce, People
      <4> QED BY <1>5, <3>3, <4>1, <4>2, RowsThere
    <3>4. Keeps(rows.persons[extra], table[base], FALSE)
      BY <1>3, <1>5, GatheredKept
    <3> QED BY <3>1, <3>2, <3>3, <3>4
  <2> QED BY <1>8, <2>1, <2>2 DEF PersonsFollow
<1>10. PICK only : only = Write("persons", table)
  OBVIOUS
<1>11. only \in Entries /\ Suits(only, "dedup")
  BY <1>6, <1>9, <1>10, PersonsSuit
<1>12. Started("dedup", All, <<only>>)
  BY <1>4, <1>10
<1> QED BY <1>1, <1>11, <1>12, BeginsOne

-----------------------------------------------------------------------------
(* Profiles that are read. *)

\* what a profile keeps
Grows(a, was, is) ==
    /\ was.emails \subseteq is.emails /\ was.names \subseteq is.names
    /\ was.repos \subseteq is.repos /\ SaysOfItself(a, was, is)
\* a page that was read, or none
Replied(a, page) == page = NoPage \/ page \in UserPages(a)

LEMMA AnswersAre ==
    ASSUME NEW a \in Logins, KindOf[a] # "bot", NEW page, Replied(a, page)
    PROVE  /\ page.kind \in {Unknown, "user", "organization"} /\ page.emails \subseteq Emails
           /\ page.name \in {Unknown} \cup {said.name : said \in UserSays[a]}
           /\ page.name \in Spellings \cup {Unknown}
           /\ \A field \in Fields : /\ page.about[field] \in {Unknown} \cup {said.about[field] : said \in UserSays[a]}
                                    /\ page.about[field] \in {Unknown, "itmo", "city", "other"}
<1>1. CASE page = NoPage
  BY <1>1 DEF NoPage, NoText
<1>2. CASE page \in UserPages(a)
  <2>1. PICK said \in UserSays[a] :
            page = [kind |-> KindOf[a], emails |-> said.emails, name |-> said.name, about |-> said.about]
    BY <1>2 DEF UserPages
  <2>2. said \in PageSet /\ KindOf[a] \in {"user", "organization"}
    BY AccountsAssumption
  <2>3. \A field \in Fields : said.about[field] \in {Unknown, "itmo", "city", "other"}
    BY <2>2 DEF PageSet, Texts
  <2> QED BY <2>1, <2>2, <2>3 DEF PageSet
<1> QED BY <1>1, <1>2 DEF Replied

LEMMA MergedProfile ==
    ASSUME NEW known \in {Absent} \cup ProfileRow, NEW r \in Repos, NEW a \in Logins, KindOf[a] # "bot",
           NEW page, Replied(a, page)
    PROVE  LET is == MergeProfile(known, r, a, page)
           IN is \in ProfileRow /\ r \in is.repos /\ (known # Absent => Grows(a, known, is))
<1> DEFINE is == MergeProfile(known, r, a, page)
           base == IF known = Absent THEN NoProfile ELSE known
           kind == IF page.kind = Unknown THEN base.kind ELSE page.kind
           name == IF page.name = Unknown THEN base.name ELSE page.name
           about == [field \in Fields |-> IF page.about[field] = Unknown THEN base.about[field] ELSE page.about[field]]
           spellings == base.names \cup CommitNames(r, a)
           emails == base.emails \cup CommitEmails(r, a) \cup page.emails
<1>1. base \in ProfileRow
  BY DEF NoProfile, NoText, ProfileRow, Texts
<1>2. /\ page.kind \in {Unknown, "user", "organization"} /\ page.emails \subseteq Emails
      /\ page.name \in {Unknown} \cup {said.name : said \in UserSays[a]}
      /\ page.name \in Spellings \cup {Unknown}
      /\ \A field \in Fields : /\ page.about[field] \in {Unknown} \cup {said.about[field] : said \in UserSays[a]}
                               /\ page.about[field] \in {Unknown, "itmo", "city", "other"}
  BY AnswersAre
<1>3. is = [base EXCEPT !.kind = kind, !.name = name, !.about = about, !.names = spellings, !.emails = emails,
                        !.repos = base.repos \cup {r}]
  <2> HIDE DEF base
  <2> QED BY <1>1 DEF MergeProfile, base, ProfileRow
<1>4. /\ kind \in {Unknown, "user", "organization"} /\ name \in Spellings \cup {Unknown}
      /\ spellings \in SUBSET Spellings /\ base.names \subseteq spellings
      /\ emails \in SUBSET Emails /\ base.emails \subseteq emails
      /\ base.repos \cup {r} \in SUBSET Repos
      /\ base.kind # Unknown => kind # Unknown
      /\ base.name # Unknown => name # Unknown /\ name \in {base.name} \cup {said.name : said \in UserSays[a]}
  <2> HIDE DEF base
  <2> QED BY <1>1, <1>2 DEF ProfileRow, CommitNames, CommitEmails
<1>5. /\ about \in Texts
      /\ \A field \in Fields : base.about[field] # Unknown =>
            /\ about[field] # Unknown
            /\ about[field] \in {base.about[field]} \cup {said.about[field] : said \in UserSays[a]}
  <2>1. \A field \in Fields : base.about[field] \in {Unknown, "itmo", "city", "other"}
    <3> HIDE DEF base
    <3> QED BY <1>1 DEF ProfileRow, Texts
  <2> HIDE DEF base
  <2> QED BY <1>2, <2>1 DEF Texts
<1> HIDE DEF is, kind, name, about, spellings, emails, base
<1>6. is \in ProfileRow
  BY <1>1, <1>3, <1>4, <1>5 DEF ProfileRow
<1>7. /\ is.kind = kind /\ is.name = name /\ is.about = about /\ is.names = spellings /\ is.emails = emails
      /\ is.repos = base.repos \cup {r}
  BY <1>1, <1>3 DEF ProfileRow
<1>8. r \in is.repos /\ Grows(a, base, is)
  BY <1>4, <1>5, <1>7 DEF Grows, SaysOfItself
<1>9. known # Absent => base = known
  BY DEF base
<1> QED BY <1>6, <1>8, <1>9 DEF is

\* the mark of having been asked about is not among what a profile says
LEMMA MarkedProfile ==
    ASSUME NEW is \in ProfileRow, NEW mark \in BOOLEAN
    PROVE  LET marked == [is EXCEPT !.fetched = mark]
           IN marked \in ProfileRow /\ marked.repos = is.repos /\ \A a, was : Grows(a, was, is) => Grows(a, was, marked)
BY DEF ProfileRow, Grows, SaysOfItself

LEMMA ProfilesFollowOn ==
    ASSUME NEW first \in ProfileRows, NEW then \in ProfileRows, NEW last \in ProfileRows,
           ProfilesFollow(first, then), ProfilesFollow(then, last)
    PROVE  ProfilesFollow(first, last)
<1>1. DOMAIN first = Logins /\ DOMAIN then = Logins
  BY DEF ProfileRows
<1>2. ASSUME NEW a \in Present(first)
      PROVE  /\ last[a] # Absent /\ first[a].emails \subseteq last[a].emails /\ first[a].names \subseteq last[a].names
             /\ first[a].repos \subseteq last[a].repos /\ SaysOfItself(a, first[a], last[a])
  <2>1. a \in Present(then)
    BY <1>1 DEF ProfilesFollow, Present
  <2>2. SaysOfItself(a, first[a], then[a]) /\ SaysOfItself(a, then[a], last[a])
    BY <2>1 DEF ProfilesFollow
  <2>3. SaysOfItself(a, first[a], last[a])
    <3>1. ASSUME NEW field \in Fields, first[a].about[field] # Unknown
          PROVE  /\ last[a].about[field] # Unknown
                 /\ last[a].about[field] \in {first[a].about[field]} \cup {page.about[field] : page \in UserSays[a]}
      <4>1. /\ then[a].about[field] # Unknown
            /\ then[a].about[field] \in {first[a].about[field]} \cup {page.about[field] : page \in UserSays[a]}
        BY <2>2, <3>1 DEF SaysOfItself
      <4>2. /\ last[a].about[field] # Unknown
            /\ last[a].about[field] \in {then[a].about[field]} \cup {page.about[field] : page \in UserSays[a]}
        BY <2>2, <4>1 DEF SaysOfItself
      <4> QED BY <4>1, <4>2
    <3> QED BY <2>2, <3>1 DEF SaysOfItself
  <2> QED BY <2>1, <2>3 DEF ProfilesFollow
<1> QED BY <1>2 DEF ProfilesFollow

\* somebody's profile is merged or left as it is
LEMMA TableFollows ==
    ASSUME NEW old \in ProfileRows, NEW new, DOMAIN new = Logins, new = [a \in Logins |-> new[a]],
           \A a \in Logins : \/ new[a] = old[a]
                             \/ new[a] \in ProfileRow /\ (old[a] # Absent => Grows(a, old[a], new[a]))
    PROVE  new \in ProfileRows /\ ProfilesFollow(old, new)
<1>1. new \in ProfileRows
  <2>1. \A a \in Logins : new[a] \in {Absent} \cup ProfileRow
    BY DEF ProfileRows
  <2> QED BY <2>1 DEF ProfileRows
<1>2. ASSUME NEW a \in Present(old)
      PROVE  new[a] # Absent /\ Grows(a, old[a], new[a])
  <2>1. a \in Logins /\ old[a] # Absent
    BY DEF ProfileRows, Present
  <2>2. Grows(a, old[a], old[a])
    BY DEF Grows, SaysOfItself
  <2> QED BY <2>1, <2>2, AccountsAssumption
<1> QED BY <1>1, <1>2 DEF ProfilesFollow, Grows

\* pages of accounts, one of each
ArePages(pages) == \A a \in DOMAIN pages : pages[a] \in UserPages(a)

LEMMA PagesAreRead ==
    ASSUME NEW accounts, NEW pages \in PagesOf(accounts)
    PROVE  ArePages(pages)
BY DEF PagesOf, Picks, ArePages

LEMMA HarvestFollows ==
    ASSUME NEW table \in ProfileRows, NEW r \in Repos, NEW pages, ArePages(pages), NEW upto
    PROVE  LET new == Harvested(table, r, pages, upto)
           IN /\ new \in ProfileRows /\ ProfilesFollow(table, new)
              /\ upto = {} => \A a \in Roles(table, r) : a \in Present(new) /\ r \in new[a].repos
<1> DEFINE new == Harvested(table, r, pages, upto)
           page(a) == IF a \in DOMAIN pages THEN pages[a] ELSE NoPage
           is(a) == [MergeProfile(table[a], r, a, page(a)) EXCEPT !.fetched = @ \/ a \in DOMAIN pages]
<1>1. /\ DOMAIN new = Logins /\ new = [a \in Logins |-> new[a]]
      /\ \A a \in Logins : new[a] = IF a \in Roles(table, r) /\ \A x \in upto : a < x THEN is(a) ELSE table[a]
  BY DEF Harvested
<1>2. ASSUME NEW a \in Roles(table, r)
      PROVE  a \in Logins /\ is(a) \in ProfileRow /\ r \in is(a).repos /\ (table[a] # Absent => Grows(a, table[a], is(a)))
  <2>1. a \in Logins /\ KindOf[a] # "bot"
    BY AccountsAssumption DEF Roles, IsPerson
  <2>2. table[a] \in {Absent} \cup ProfileRow
    BY <2>1 DEF ProfileRows
  <2>3. Replied(a, page(a))
    BY DEF Replied, ArePages
  <2> HIDE DEF page
  <2> DEFINE merged == MergeProfile(table[a], r, a, page(a))
  <2>4. merged \in ProfileRow /\ r \in merged.repos /\ (table[a] # Absent => Grows(a, table[a], merged))
    BY <2>1, <2>2, <2>3, MergedProfile
  <2> DEFINE mark == merged.fetched \/ a \in DOMAIN pages
  <2>5. is(a) = [merged EXCEPT !.fetched = mark] /\ mark \in BOOLEAN
    <3>1. merged.fetched \in BOOLEAN
      <4> HIDE DEF merged
      <4> QED BY <2>4 DEF ProfileRow
    <3>2. is(a) = [merged EXCEPT !.fetched = mark]
      <4> HIDE DEF merged
      <4> QED BY <2>4 DEF merged, ProfileRow
    <3> HIDE DEF merged
    <3> QED BY <3>1, <3>2
  <2> HIDE DEF merged, is, mark
  <2> QED BY <2>1, <2>4, <2>5, MarkedProfile
<1> HIDE DEF new, is
<1>3. new \in ProfileRows /\ ProfilesFollow(table, new)
  BY <1>1, <1>2, TableFollows
<1>4. ASSUME upto = {}, NEW a \in Roles(table, r) PROVE a \in Present(new) /\ r \in new[a].repos
  <2>1. a \in Logins /\ new[a] = is(a)
    BY <1>1, <1>2, <1>4
  <2> QED BY <1>1, <1>2, <2>1, AccountsAssumption DEF Present
<1> QED BY <1>3, <1>4 DEF new

\* Where a run over repositories may stand: the profiles follow the ones there
\* were, and those whose people are collected lead to profiles.
Stand == [profiles : ProfileRows, repositories : RepoRows]
Stands(s) ==
    /\ s \in Stand /\ ProfilesFollow(rows.profiles, s.profiles) /\ Present(s.repositories) = Repositories
    /\ Leads(rows.repositories, rows.profiles) => Leads(s.repositories, s.profiles)

LEMMA LeadsOn ==
    ASSUME NEW repositories, NEW old \in ProfileRows, NEW new \in ProfileRows, ProfilesFollow(old, new),
           Leads(repositories, old)
    PROVE  Leads(repositories, new)
<1>1. ASSUME NEW r \in Present(repositories), repositories[r].people = "completed",
             NEW a \in repositories[r].contributors
      PROVE  a \in Present(new) /\ r \in new[a].repos
  <2>1. a \in Present(old) /\ r \in old[a].repos
    BY <1>1 DEF Leads
  <2>2. DOMAIN new = DOMAIN old
    BY DEF ProfileRows
  <2> QED BY <2>1, <2>2 DEF ProfilesFollow, Present
<1> QED BY <1>1 DEF Leads

LEMMA HarvestStands ==
    ASSUME rows.profiles \in ProfileRows, NEW force \in BOOLEAN, NEW s, Stands(s), NEW r \in Repositories,
           NEW end \in HarvestEnds(force, s.profiles, r)
    PROVE  Stands([profiles |-> end.table,
                   repositories |-> [s.repositories EXCEPT
                      ![r].people = end.state,
                      ![r].contributors = IF end.listed THEN Roles(s.profiles, r) ELSE @]])
<1>1. /\ s.profiles \in ProfileRows /\ s.repositories \in RepoRows
      /\ ProfilesFollow(rows.profiles, s.profiles) /\ Present(s.repositories) = Repositories
  BY DEF Stands, Stand
<1> DEFINE row == s.repositories[r]
           roles == Roles(s.profiles, r)
           next == [row EXCEPT !.people = end.state, !.contributors = IF end.listed THEN roles ELSE @]
           repositories == [s.repositories EXCEPT ![r] = next]
           new == [profiles |-> end.table, repositories |-> repositories]
<1>2. r \in Repos /\ row \in RepoRow /\ Absent \notin RepoRow
  BY <1>1, AccountsAssumption DEF Present, RepoRows
<1>3. /\ end.table \in ProfileRows /\ ProfilesFollow(s.profiles, end.table)
      /\ end.listed \in BOOLEAN
      /\ \/ end.state = "failed"
         \/ end.state = "completed" /\ end.listed /\ \A a \in roles : a \in Present(end.table) /\ r \in end.table[a].repos
  <2>1. ProfilesFollow(s.profiles, s.profiles)
    BY DEF ProfilesFollow, Present, SaysOfItself
  <2>2. CASE end = [table |-> s.profiles, state |-> "failed", listed |-> FALSE]
    BY <1>1, <2>1, <2>2
  <2> DEFINE asked == ToAsk(force, s.profiles, r)
             Broken(pages, a) == [table |-> Harvested(s.profiles, r, pages, {a}), state |-> "failed", listed |-> TRUE]
             Through(pages) == [table |-> Harvested(s.profiles, r, pages, {}), state |-> "completed", listed |-> TRUE]
  <2>5. \/ end = [table |-> s.profiles, state |-> "failed", listed |-> FALSE]
        \/ \E pages \in PagesOf(asked), a \in asked : end = Broken(pages, a)
        \/ \E pages \in PagesOf(asked) : end = Through(pages)
    <3> DEFINE refused == [table |-> s.profiles, state |-> "failed", listed |-> FALSE]
    <3>1. HarvestEnds(force, s.profiles, r) =
              {refused} \cup {Broken(pages, a) : pages \in PagesOf(asked), a \in asked}
                        \cup {Through(pages) : pages \in PagesOf(asked)}
      BY DEF HarvestEnds
    <3> HIDE DEF refused, Broken, Through, asked
    <3>2. \/ end = refused
          \/ \E pages \in PagesOf(asked), a \in asked : end = Broken(pages, a)
          \/ \E pages \in PagesOf(asked) : end = Through(pages)
      BY <3>1, SMT
    <3> QED BY <3>2 DEF refused
  <2> HIDE DEF asked
  <2>3. CASE \E pages \in PagesOf(asked), a \in asked : end = Broken(pages, a)
    <3>1. PICK pages \in PagesOf(asked), a \in asked : end = Broken(pages, a)
      BY <2>3
    <3>2. end.table = Harvested(s.profiles, r, pages, {a}) /\ end.state = "failed" /\ end.listed = TRUE
      BY <3>1
    <3>3. ArePages(pages)
      BY PagesAreRead
    <3>4. end.table \in ProfileRows /\ ProfilesFollow(s.profiles, end.table)
      BY <1>1, <1>2, <3>2, <3>3, HarvestFollows
    <3> QED BY <3>2, <3>4
  <2>4. CASE \E pages \in PagesOf(asked) : end = Through(pages)
    <3> PICK pages \in PagesOf(asked) : end = Through(pages)
      BY <2>4
    <3>1. /\ end.table = Harvested(s.profiles, r, pages, {}) /\ end.state = "completed" /\ end.listed = TRUE
          /\ ArePages(pages)
      BY PagesAreRead
    <3>2. /\ end.table \in ProfileRows /\ ProfilesFollow(s.profiles, end.table)
          /\ \A a \in roles : a \in Present(end.table) /\ r \in end.table[a].repos
      BY <1>1, <1>2, <3>1, HarvestFollows
    <3> QED BY <3>1, <3>2
  <2> HIDE DEF Broken, Through
  <2> QED BY <2>2, <2>3, <2>4, <2>5
<1>4. next \in RepoRow /\ next.people = end.state /\ (end.listed => next.contributors = roles)
      /\ (~end.listed => next.contributors = row.contributors)
  <2>1. end.state \in States
    BY <1>3 DEF States
  <2>2. roles \in SUBSET Logins
    BY <1>2, AccountsAssumption DEF Roles
  <2> HIDE DEF row, roles
  <2> QED BY <1>2, <1>3, <2>1, <2>2 DEF RepoRow
<1>5. [s.repositories EXCEPT ![r].people = end.state,
                             ![r].contributors = IF end.listed THEN Roles(s.profiles, r) ELSE @] = repositories
  BY <1>1, <1>2 DEF RepoRows
<1> HIDE DEF next
<1>6. /\ repositories \in RepoRows /\ repositories[r] = next
      /\ \A q \in Repos \ {r} : repositories[q] = s.repositories[q]
      /\ DOMAIN repositories = Repos
  BY <1>1, <1>2, <1>4 DEF RepoRows
<1> HIDE DEF repositories
<1>7. Present(repositories) = Repositories
  <2>1. DOMAIN s.repositories = Repos /\ s.repositories[r] # Absent
    BY <1>1, <1>2 DEF RepoRows
  <2>2. \A q \in Repos : repositories[q] = Absent <=> s.repositories[q] = Absent
    BY <1>2, <1>4, <1>6, <2>1
  <2> QED BY <1>1, <1>6, <2>1, <2>2 DEF Present
<1>8. ProfilesFollow(rows.profiles, end.table)
  BY <1>1, <1>3, ProfilesFollowOn
<1>9. ASSUME Leads(s.repositories, s.profiles) PROVE Leads(repositories, end.table)
  <2>1. Leads(s.repositories, end.table)
    BY <1>1, <1>3, <1>9, LeadsOn
  <2>2. ASSUME NEW q \in Present(repositories), repositories[q].people = "completed",
               NEW a \in repositories[q].contributors
        PROVE  a \in Present(end.table) /\ q \in end.table[a].repos
    <3>1. q \in Present(s.repositories) /\ q \in Repos
      BY <1>1, <1>6, <1>7 DEF Present
    <3>2. CASE q = r
      BY <1>3, <1>4, <1>6, <2>2, <3>2
    <3>3. CASE q # r
      BY <1>6, <2>1, <2>2, <3>1, <3>3 DEF Leads
    <3> QED BY <3>2, <3>3
  <2> QED BY <2>2 DEF Leads
<1> QED
  BY <1>1, <1>3, <1>5, <1>6, <1>7, <1>8, <1>9 DEF Stands, Stand

\* The run over repositories ends somewhere it may stand.
LEMMA PeopleBegin ==
    ASSUME RowsInv, NEW force \in BOOLEAN, NEW selection, PeopleStart(force, selection),
           review' = review, walk' = walk
    PROVE  /\ Begins("repo_people")
           /\ \E end : /\ Stands(end)
                       /\ job'.todo = <<Write("repositories", end.repositories), Write("profiles", end.profiles)>>
<1> DEFINE todo == {r \in Repositories :
                       /\ selection = All \/ rows.repositories[r].pubs \cap selection # {}
                       /\ NeedsAttempt(force, rows.repositories[r].people)}
           n == Cardinality(todo)
           first == {[profiles |-> rows.profiles, repositories |-> rows.repositories]}
           Next1(so_far, r) == {[profiles |-> end.table,
                                 repositories |-> [so_far.repositories EXCEPT
                                    ![r].people = end.state,
                                    ![r].contributors = IF end.listed THEN Roles(so_far.profiles, r) ELSE @]] :
                                end \in HarvestEnds(force, so_far.profiles, r)}
           After1(t, i) == UNION {Next1(so_far, InOrder(todo)[i]) : so_far \in t}
           Body(f) == [i \in 0 .. n |-> IF i = 0 THEN first ELSE After1(f[i - 1], i)]
           walked == CHOOSE f : f = Body(f)
<1>1. /\ MayStart("repo_people") /\ rows' = rows
      /\ \E end \in walked[n] :
            Started("repo_people", selection,
                <<Write("repositories", end.repositories), Write("profiles", end.profiles)>>)
  BY Zenon DEF PeopleStart
<1>2. todo \subseteq Repositories /\ todo \subseteq Nat /\ IsFiniteSet(todo)
  BY RowsThere, AccountsAssumption, FS_Subset
<1>3. n \in Nat /\ InOrder(todo) \in [1 .. n -> todo]
  <2> HIDE DEF todo
  <2> QED BY <1>2, NumbersInOrder
<1> DEFINE S == {s \in Stand : Stands(s)}
<1>4. first \in SUBSET S
  BY RowsThere DEF Stands, Stand, ProfilesFollow, SaysOfItself, Repositories, Present
<1> HIDE DEF walked, Body, first, todo, n
<1>5. ASSUME NEW t \in SUBSET S, NEW i \in 1 .. n PROVE After1(t, i) \in SUBSET S
  <2> SUFFICES ASSUME NEW so_far \in t, NEW s \in Next1(so_far, InOrder(todo)[i]) PROVE s \in S
    BY Zenon
  <2>1. PICK r : r = InOrder(todo)[i]
    OBVIOUS
  <2>2. r \in Repositories /\ Stands(so_far)
    BY <1>2, <1>3, <2>1
  <2>3. PICK end \in HarvestEnds(force, so_far.profiles, r) :
            s = [profiles |-> end.table,
                 repositories |-> [so_far.repositories EXCEPT
                    ![r].people = end.state,
                    ![r].contributors = IF end.listed THEN Roles(so_far.profiles, r) ELSE @]]
    BY <2>1
  <2>4. Stands(s)
    BY <2>2, <2>3, RowsThere, HarvestStands
  <2> QED BY <2>4 DEF Stands
<1> USE DEF walked, Body
<1> HIDE DEF After1, S
<1> DEFINE step == [x \in (1 .. n) \X SUBSET S |-> After1(x[2], x[1])]
<1>6. \A i \in 1 .. n, t \in SUBSET S : step[<<i, t>>] = After1(t, i)
  OBVIOUS
<1> HIDE DEF step
<1>7. PICK f : StepsBy(f, n, SUBSET S, step, first)
  <2>1. StepsWithin(step, n, SUBSET S)
    <3>1. \A i \in 1 .. n, t \in SUBSET S : After1(t, i) \in SUBSET S
      BY <1>5
    <3> DEFINE T == SUBSET S
    <3>2. \A i \in 1 .. n, t \in T : step[<<i, t>>] \in T
      <4> SUFFICES ASSUME NEW i \in 1 .. n, NEW t \in T PROVE step[<<i, t>>] \in T
        OBVIOUS
      <4>1. step[<<i, t>>] = After1(t, i)
        BY <1>6
      <4>2. After1(t, i) \in T
        BY <3>1
      <4> QED BY <4>1, <4>2
    <3> QED BY <3>2 DEF StepsWithin
  <2> QED BY <1>3, <1>4, <2>1, StepsExist
<1>8. f = Body(f)
  <2>1. f \in [0 .. n -> SUBSET S] /\ f[0] = first /\ \A i \in 1 .. n : f[i] = step[<<i, f[i - 1]>>]
    BY <1>7 DEF StepsBy
  <2>2. ASSUME NEW i \in 0 .. n PROVE f[i] = IF i = 0 THEN first ELSE After1(f[i - 1], i)
    <3>1. CASE i = 0
      BY <2>1, <3>1
    <3>2. CASE i # 0
      <4>1. i \in 1 .. n /\ i - 1 \in 0 .. n
        BY <1>3, <3>2
      <4>2. f[i - 1] \in SUBSET S
        BY <2>1, <4>1
      <4> QED BY <1>6, <2>1, <3>2, <4>1, <4>2
    <3> QED BY <3>1, <3>2
  <2>3. f = [i \in 0 .. n |-> f[i]]
    BY <2>1
  <2> QED BY <2>2, <2>3
<1>9. walked = Body(walked)
  BY <1>8
<1> HIDE DEF walked
<1>10. ASSUME NEW i \in 0 .. n PROVE walked[i] = IF i = 0 THEN first ELSE After1(walked[i - 1], i)
  <2>1. Body(walked)[i] = IF i = 0 THEN first ELSE After1(walked[i - 1], i)
    OBVIOUS
  <2> HIDE DEF Body
  <2> QED BY <1>9, <2>1
<1> HIDE DEF Body
<1>11. walked[n] \in SUBSET S
  <2> DEFINE Good == {<<i, t>> : i \in 0 .. n, t \in SUBSET S}
  <2>1. <<0, walked[0]>> \in Good
    BY <1>3, <1>4, <1>10
  <2>2. ASSUME NEW i \in 1 .. n, <<i - 1, walked[i - 1]>> \in Good PROVE <<i, walked[i]>> \in Good
    <3>1. walked[i - 1] \in SUBSET S /\ i \in 0 .. n /\ i # 0
      BY <1>3, <2>2
    <3>2. walked[i] = After1(walked[i - 1], i)
      BY <1>10, <3>1
    <3> QED BY <1>5, <3>1, <3>2
  <2> HIDE DEF Good
  <2>3. \A i \in 0 .. n : <<i, walked[i]>> \in Good
    BY <1>3, <2>1, <2>2, StepsReach
  <2>4. <<n, walked[n]>> \in Good
    BY <1>3, <2>3
  <2> QED BY <2>4 DEF Good
<1>12. PICK end \in S : Started("repo_people", selection,
                <<Write("repositories", end.repositories), Write("profiles", end.profiles)>>)
  BY <1>1, <1>11
<1>13. Stands(end)
  BY DEF S
<1>14. /\ end.profiles \in ProfileRows /\ end.repositories \in RepoRows
       /\ ProfilesFollow(rows.profiles, end.profiles)
  BY <1>13 DEF Stands, Stand
<1>15. PICK one, two : one = Write("repositories", end.repositories) /\ two = Write("profiles", end.profiles)
  OBVIOUS
<1>16. one \in Entries /\ Suits(one, "repo_people") /\ one.collection = "repositories"
  <2>1. one \in Entries
    BY <1>14, <1>15 DEF Write, Entries, WriteSet
  <2>2. Suits(one, "repo_people") /\ one.collection = "repositories"
    BY <1>15 DEF Write, Suits, Asking, PersonSources
  <2> QED BY <2>1, <2>2
<1>17. two \in Entries /\ Suits(two, "repo_people") /\ two.collection = "profiles"
  BY <1>14, <1>15, ProfilesSuit
<1>18. "profiles" \in Later("repositories")
  BY DEF Later, Asking
<1>19. Started("repo_people", selection, <<one, two>>)
  BY <1>12, <1>15
<1>20. Begins("repo_people") /\ job'.todo = <<one, two>>
  BY <1>1, <1>16, <1>17, <1>18, <1>19, BeginsTwo
<1> QED BY <1>13, <1>15, <1>20

-----------------------------------------------------------------------------
(* Accounts matched to people. *)

\* who an account may be of is somebody there
LEMMA Decided ==
    ASSUME RowsInv, NEW a \in Accounts, NEW d \in DecisionsFor(a)
    PROVE  d.login = a /\ d.person \in People
<1> DEFINE offered == Bridge(a) \cup ByEmail(a) \cup ByName(a)
           pairs == {[login |-> a, person |-> p, score |-> Score(Signals(a, p)),
                      decision |-> Decide(Signals(a, p), p \in Bridge(a))] : p \in offered}
           fitting == {e \in pairs : e.decision # "rejected"}
           Below(x, e) == \/ x.decision = "review" /\ e.decision = "matched"
                          \/ x.decision = e.decision /\ x.score < e.score
           best == {x \in fitting : ~\E e \in fitting : Below(x, e)}
<1>1. offered \subseteq People
  <2>1. \A e : HolderOf(e) \subseteq Candidates
    <3> SUFFICES ASSUME NEW e PROVE HolderOf(e) \subseteq Candidates
      OBVIOUS
    <3> DEFINE holders == {p \in Candidates : e \in AddressesOf(p)}
    <3>1. holders \subseteq Candidates /\ holders \subseteq Nat
      BY RowsThere, ResearchersAssumption DEF Candidates
    <3>2. HolderOf(e) = IF holders = {} THEN {} ELSE {Min(holders)}
      BY DEF HolderOf
    <3> HIDE DEF holders
    <3>3. holders # {} => Min(holders) \in holders
      BY <3>1, MinBelongs
    <3> QED BY <3>1, <3>2, <3>3
  <2>2. Candidates \subseteq People
    BY DEF Candidates
  <2> QED BY <2>1, <2>2 DEF Bridge, ByEmail, ByName
<1>2. d \in best \/ \E e \in best : d = [e EXCEPT !.decision = "review"]
  BY Zenon DEF DecisionsFor
<1> HIDE DEF offered, Below
<1>3. \A e \in best : e \in pairs
  OBVIOUS
<1> HIDE DEF best
<1>4. \A e \in pairs : e.login = a /\ e.person \in offered
                       /\ [e EXCEPT !.decision = "review"].login = a
                       /\ [e EXCEPT !.decision = "review"].person \in offered
  OBVIOUS
<1> HIDE DEF pairs
<1> QED BY <1>1, <1>2, <1>3, <1>4

LEMMA TiedKeeps ==
    ASSUME RowsInv, NEW row \in PersonRow, NEW accounts \in SUBSET Profiles
    PROVE  LET is == Tied(row, accounts)
           IN is \in PersonRow /\ is.merged = row.merged /\ Gathers(row, is, TRUE) /\ is.raw = row.raw
<1> DEFINE is == Tied(row, accounts)
<1>1. CASE accounts = {}
  <2>1. is = row
    BY <1>1 DEF Tied
  <2> HIDE DEF is
  <2> QED BY <2>1 DEF Gathers, is
<1>2. CASE accounts # {}
  <2> DEFINE mails == [a \in accounts |-> PickEmail(rows.profiles[a].emails)]
             offered == {a \in accounts : mails[a] # Unknown}
             github == IF row.github = Unknown THEN Min(accounts) ELSE row.github
             card == IF row.card = Unknown /\ offered # {} THEN mails[Min(offered)] ELSE row.card
             contributed == row.contributed \cup UNION {ReposOf(a) : a \in accounts}
  <2>1. is = [row EXCEPT !.github = github, !.card = card, !.contributed = contributed]
    BY <1>2 DEF Tied, PersonRow
  <2>2. accounts \subseteq Nat /\ accounts \subseteq Logins /\ offered \subseteq accounts
    BY RowsThere, ResearchersAssumption
  <2>3. Min(accounts) \in Logins
    BY <1>2, <2>2, MinBelongs
  <2>4. \A a \in offered : mails[a] \in Emails
    <3> SUFFICES ASSUME NEW a \in offered PROVE PickEmail(rows.profiles[a].emails) \in Emails
      OBVIOUS
    <3> DEFINE emails == rows.profiles[a].emails
    <3>1. emails \subseteq Emails /\ emails \subseteq Nat
      BY <2>2, RowsThere, ResearchersAssumption DEF ProfileRow
    <3>2. emails # {}
      BY DEF PickEmail
    <3> HIDE DEF emails
    <3>3. Min(emails) \in emails
      BY <3>1, <3>2, MinBelongs
    <3> QED BY <3>1, <3>2, <3>3 DEF PickEmail, emails
  <2>5. offered # {} => mails[Min(offered)] \in Emails
    <3> HIDE DEF mails, offered
    <3>1. offered \subseteq Nat
      BY <2>2
    <3>2. offered # {} => Min(offered) \in offered
      BY <3>1, MinBelongs
    <3> QED BY <2>4, <3>2
  <2>6. contributed \in SUBSET Repos /\ row.contributed \subseteq contributed
    BY RowsThere DEF PersonRow, ReposOf
  <2> HIDE DEF mails, offered
  <2>7. /\ github \in Logins \cup {Unknown} /\ (row.github # Unknown => github = row.github)
        /\ card \in Emails \cup {Unknown} /\ (row.card # Unknown => card = row.card)
    BY <2>3, <2>5 DEF PersonRow
  <2> HIDE DEF is, github, card, contributed
  <2>8. is \in PersonRow
    BY <2>1, <2>6, <2>7 DEF PersonRow
  <2>9. is.merged = row.merged /\ Gathers(row, is, TRUE) /\ is.raw = row.raw
    BY <2>1, <2>6, <2>7 DEF PersonRow, Gathers
  <2> QED BY <2>8, <2>9 DEF is
<1> QED BY <1>1, <1>2

\* the people a match writes, then what it has to ask and what it disputes
LEMMA MatchLine ==
    ASSUME RowsInv, NEW selection, NEW stage, stage # "persons", NEW writes \in MatchWrites(selection)
    PROVE  /\ writes \in Seq(Entries) /\ Lined(writes) /\ DOMAIN writes = {1, 2, 3}
           /\ \A i \in DOMAIN writes : Suits(writes[i], stage)
                                       /\ writes[i].collection \in {"persons", "held", "disputed"}
<1> DEFINE answerable == {a \in Accounts : DecisionsFor(a) # {}}
<1>1. PICK pick \in Picks([a \in answerable |-> DecisionsFor(a)]), answers \in GithubDecisions(Home) :
        writes = LET decisions == {pick[a] : a \in answerable}
                     matched == {d \in {Overruled(d, answers) : d \in decisions} :
                                     selection = All /\ d.decision = "matched"}
                     accounts(p) == {d.login : d \in {x \in matched : x.person = p}}
                 IN <<Write("persons", [p \in Persons |-> IF rows.persons[p] = Absent THEN Absent
                                                          ELSE Tied(rows.persons[p], accounts(p))]),
                      [collection |-> "held", questions |-> Held(decisions, answers)],
                      [collection |-> "disputed", questions |-> DisputedBy(decisions, answers)]>>
  BY Zenon DEF MatchWrites
<1> DEFINE decisions == {pick[a] : a \in answerable}
           matched == {d \in {Overruled(d, answers) : d \in decisions} : selection = All /\ d.decision = "matched"}
           accounts(p) == {d.login : d \in {x \in matched : x.person = p}}
           table == [p \in Persons |-> IF rows.persons[p] = Absent THEN Absent
                                       ELSE Tied(rows.persons[p], accounts(p))]
           one == Write("persons", table)
           two == [collection |-> "held", questions |-> Held(decisions, answers)]
           three == [collection |-> "disputed", questions |-> DisputedBy(decisions, answers)]
<1>2. writes = <<one, two, three>>
  BY <1>1
<1>3. answerable \subseteq Accounts /\ Accounts \subseteq Profiles /\ Profiles \subseteq Logins /\ People \subseteq Persons
  BY RowsThere DEF Accounts
<1>4. \A d \in decisions : d.login \in Profiles /\ d.person \in People
  <2> SUFFICES ASSUME NEW a \in answerable PROVE pick[a].login \in Profiles /\ pick[a].person \in People
    OBVIOUS
  <2>1. pick[a] \in DecisionsFor(a)
    BY DEF Picks
  <2>2. a \in Accounts
    BY <1>3
  <2>3. pick[a].login = a /\ pick[a].person \in People
    BY <2>1, <2>2, Decided
  <2> QED BY <1>3, <2>2, <2>3
<1> HIDE DEF decisions, answerable
<1>5. \A d \in matched : d.login \in Profiles
  <2> SUFFICES ASSUME NEW d \in decisions PROVE Overruled(d, answers).login \in Profiles
    BY Zenon
  <2>1. d.login \in Profiles
    BY <1>4
  <2>2. Overruled(d, answers) = d \/ \E x : Overruled(d, answers) = [d EXCEPT !.decision = x]
    BY DEF Overruled
  <2>3. \A x : [d EXCEPT !.decision = x].login = d.login
    OBVIOUS
  <2> QED BY <2>1, <2>2, <2>3
<1> HIDE DEF matched
<1>6. \A p : accounts(p) \in SUBSET Profiles
  BY <1>5
<1> HIDE DEF accounts
<1>7. ASSUME NEW a \in People
      PROVE  /\ table[a] \in PersonRow /\ table[a].merged = rows.persons[a].merged
             /\ Keeps(rows.persons[a], table[a], TRUE) /\ table[a].raw = rows.persons[a].raw
  <2> DEFINE row == rows.persons[a]
  <2>1. row \in PersonRow /\ table[a] = Tied(row, accounts(a))
    BY RowsThere DEF People, Present
  <2>2. accounts(a) \in SUBSET Profiles
    BY <1>6
  <2> HIDE DEF table, row
  <2>3. table[a] \in PersonRow /\ table[a].merged = row.merged /\ Gathers(row, table[a], TRUE) /\ table[a].raw = row.raw
    BY <2>1, <2>2, TiedKeeps
  <2> QED BY <2>3, GatheredKept DEF row
<1>8. /\ DOMAIN table = Persons /\ table = [a \in Persons |-> table[a]]
      /\ \A a \in Persons \ People : table[a] = Absent
  BY RowsThere
<1> HIDE DEF table
<1>9. table \in PersonRows /\ PersonsFollow(rows.persons, table)
  BY <1>7, <1>8, PeopleRewritten
<1>10. one \in Entries /\ Suits(one, stage) /\ one.collection = "persons"
  BY <1>9, PersonsSuit
<1>11. \A d \in decisions : Question("github", {d.login, d.person}) \in QuestionSet
  <2> SUFFICES ASSUME NEW d \in decisions PROVE Question("github", {d.login, d.person}) \in QuestionSet
    OBVIOUS
  <2>1. d.login \in Anybody /\ d.person \in Anybody
    BY <1>3, <1>4 DEF Anybody
  <2> QED BY <2>1 DEF Question, QuestionSet, Kinds
<1>12. Held(decisions, answers) \in SUBSET QuestionSet /\ DisputedBy(decisions, answers) \in SUBSET QuestionSet
  BY <1>11 DEF Held, DisputedBy
<1>13. two \in Entries /\ Suits(two, stage) /\ two.collection = "held"
  BY <1>12 DEF Entries, Suits, Asking, PersonSources
<1>14. three \in Entries /\ Suits(three, stage) /\ three.collection = "disputed"
  BY <1>12 DEF Entries, Suits, Asking, PersonSources
<1> HIDE DEF one, two, three
<1>15. writes \in Seq(Entries) /\ DOMAIN writes = {1, 2, 3} /\ writes[1] = one /\ writes[2] = two /\ writes[3] = three
  BY <1>2, <1>10, <1>13, <1>14
<1>16. /\ "held" \in Later("persons") /\ "disputed" \in Later("persons") /\ "disputed" \in Later("held")
  BY DEF Later, Asking
<1>17. Lined(writes)
  <2> SUFFICES ASSUME NEW i \in {1, 2, 3}, NEW j \in {1, 2, 3}, i < j
               PROVE  writes[j].collection \in Later(writes[i].collection)
    BY <1>15 DEF Lined
  <2>1. (i = 1 /\ j = 2) \/ (i = 1 /\ j = 3) \/ (i = 2 /\ j = 3)
    OBVIOUS
  <2> QED BY <1>10, <1>13, <1>14, <1>15, <1>16, <2>1
<1>18. \A i \in DOMAIN writes : Suits(writes[i], stage) /\ writes[i].collection \in {"persons", "held", "disputed"}
  BY <1>10, <1>13, <1>14, <1>15
<1> QED BY <1>15, <1>17, <1>18

LEMMA MatchBegins ==
    ASSUME RowsInv, NEW selection, MatchStart(selection)
    PROVE  Begins("github_match")
<1>1. MayStart("github_match") /\ rows' = rows /\ review' = review /\ walk' = walk
  BY DEF MatchStart
<1>2. PICK writes \in MatchWrites(selection) : Started("github_match", selection, writes)
  BY DEF MatchStart
<1>3. /\ writes \in Seq(Entries) /\ Lined(writes)
      /\ \A i \in DOMAIN writes : Suits(writes[i], "github_match")
  <2>1. "github_match" # "persons"
    OBVIOUS
  <2> QED BY <2>1, MatchLine, Zenon
<1>4. ReviewTypeOK' /\ walk' \in Walks
  BY <1>1, StoreStays
<1>5. Begins("github_match") /\ job'.todo = writes
  BY <1>1, <1>2, <1>3, <1>4, StageBegins
<1> QED BY <1>5

-----------------------------------------------------------------------------
(* A run that goes on without asking anybody. *)

Goes ==
    /\ RowsInv' /\ rows' = rows /\ job.stage \notin {"idle", "persons"}
    /\ job'.torn = job.torn /\ job'.last = job.last /\ job'.stage \in {"idle", job.stage}
    /\ job'.stage = "idle" => ~job'.begun
    /\ 1 \in DOMAIN job.todo /\ job.todo[1].collection \in {"ring", "match", "held", "disputed"}

\* what a run is at, and what may be left
LEMMA AtHand ==
    ASSUME RowsInv, NEW collection \in {"ring", "match", "held", "disputed"}, Doing(collection)
    PROVE  /\ job.stage \notin {"idle", "persons"}
           /\ (collection \in {"ring", "match"} => job.stage = "social_graph")
           /\ Head(job.todo) \in Entries /\ Head(job.todo).collection = collection
           /\ 1 \in DOMAIN job.todo /\ Head(job.todo) = job.todo[1]
           /\ \A j \in DOMAIN Tail(job.todo) : Tail(job.todo)[j].collection \in Later(collection)
<1>1. JobTyped /\ Lined(job.todo) /\ job.stage # "idle" /\ Head(job.todo).collection = collection
  BY DEF RowsInv, GroupTyped, Doing
<1>2. /\ Head(job.todo) \in Entries /\ Head(job.todo) = job.todo[1] /\ 1 \in DOMAIN job.todo
      /\ \A i \in DOMAIN Tail(job.todo) : Tail(job.todo)[i].collection \in Later(collection)
  BY <1>1, RestLined
<1>3. Suits(Head(job.todo), job.stage)
  BY <1>2 DEF RowsInv
<1>4. job.stage # "persons" /\ (collection \in {"ring", "match"} => job.stage = "social_graph")
  BY <1>1, <1>3 DEF Suits, Asking
<1> QED BY <1>1, <1>2, <1>4

LEMMA RunGoes ==
    ASSUME RowsInv, NEW collection \in {"ring", "match", "held", "disputed"}, Doing(collection),
           NEW first \in Seq(Entries), Onward(first), rows' = rows, ReviewTypeOK', walk' \in Walks,
           Lined(first), \A i \in DOMAIN first : Suits(first[i], job.stage),
           \A i \in DOMAIN first : Later(collection) \subseteq Later(first[i].collection)
    PROVE  Goes
<1>1. /\ job.stage \notin {"idle", "persons"} /\ Head(job.todo).collection = collection
      /\ 1 \in DOMAIN job.todo /\ Head(job.todo) = job.todo[1]
      /\ \A j \in DOMAIN Tail(job.todo) : Tail(job.todo)[j].collection \in Later(collection)
  BY AtHand, Zenon
<1>2. job.stage # "idle"
  BY <1>1
<1>3. \A i \in DOMAIN first, j \in DOMAIN Tail(job.todo) :
          Tail(job.todo)[j].collection \in Later(first[i].collection)
  BY <1>1
<1>4. RowsInv'
  BY <1>2, <1>3, OnwardKeeps
<1>5. /\ job'.todo = first \o Tail(job.todo) /\ job'.torn = job.torn
      /\ job'.last = job.last
      /\ job'.stage = (IF job'.todo = <<>> THEN "idle" ELSE job.stage)
      /\ job'.begun = (job'.todo # <<>>)
  BY <1>2, OnwardJob DEF RowsInv, GroupTyped
<1> QED BY <1>1, <1>4, <1>5 DEF Goes

\* nothing more is put before what is left
LEMMA RunGoesOn ==
    ASSUME RowsInv, NEW collection \in {"ring", "match", "held", "disputed"}, Doing(collection),
           Onward(<<>>), rows' = rows, ReviewTypeOK', walk' \in Walks
    PROVE  Goes
<1>1. <<>> \in Seq(Entries) /\ DOMAIN <<>> = {} /\ Lined(<<>>)
  BY NoWrite
<1>2. /\ \A i \in DOMAIN <<>> : Suits(<<>>[i], job.stage)
      /\ \A i \in DOMAIN <<>> : Later(collection) \subseteq Later(<<>>[i].collection)
  BY <1>1
<1> QED BY <1>1, <1>2, RunGoes

LEMMA WalkMatchGoes ==
    ASSUME RowsInv, WalkMatch
    PROVE  Goes
<1>1. Doing("match") /\ rows' = rows /\ review' = review /\ walk' = walk
  BY DEF WalkMatch
<1>2. PICK writes \in MatchWrites(All) : Onward(writes)
  BY DEF WalkMatch
<1>3. job.stage = "social_graph"
  <2>1. "match" \in {"ring", "match", "held", "disputed"} /\ "match" \in {"ring", "match"}
    OBVIOUS
  <2> QED BY <1>1, <2>1, AtHand, Zenon
<1>4. /\ writes \in Seq(Entries) /\ Lined(writes)
      /\ \A i \in DOMAIN writes : Suits(writes[i], job.stage) /\ writes[i].collection \in {"persons", "held", "disputed"}
  BY <1>3, MatchLine
<1>5. \A i \in DOMAIN writes : Later("match") \subseteq Later(writes[i].collection)
  BY <1>4 DEF Later, Asking
<1>6. ReviewTypeOK' /\ walk' \in Walks
  BY <1>1, StoreStays
<1> QED BY <1>1, <1>2, <1>4, <1>5, <1>6, RunGoes

\* Questions a run had and disputes it saw are recorded.
LEMMA StoreTyped ==
    ASSUME ReviewTypeOK
    PROVE  /\ \A held, separate, home : RecordHeld(review, held, separate, home) \in [Questions -> Documents \cup {NoDoc}]
           /\ \A disputed : RecordDisputed(review, disputed) \in [Questions -> Documents \cup {NoDoc}]
           /\ \A q \in Questions : Doc(q) \in Documents /\ (Asked(q) => review[q] \in Documents)
<1>1. New \in Documents
  BY DEF New, Documents
<1>2. \A q \in Questions : review[q] \in Documents \cup {NoDoc}
  BY DEF ReviewTypeOK
<1>3. \A q \in Questions : Doc(q) \in Documents /\ (Asked(q) => review[q] \in Documents)
  BY <1>1, <1>2 DEF Doc, Asked
<1>5. ASSUME NEW held, NEW separate, NEW home, NEW q \in Questions
      PROVE  RecordHeld(review, held, separate, home)[q] \in Documents \cup {NoDoc}
  <2> DEFINE doc == Doc(q)
             keep == [doc EXCEPT !.held = TRUE, !.resolved = FALSE]
             done == [doc EXCEPT !.resolved = TRUE]
  <2>1. RecordHeld(review, held, separate, home)[q] \in {review[q], keep, done}
    <3>1. review[q] = NoDoc => doc = New
      BY DEF Doc, Asked
    <3>2. review[q] # NoDoc => doc = review[q]
      BY DEF Doc, Asked
    <3> HIDE DEF doc
    <3> QED BY <3>1, <3>2 DEF RecordHeld
  <2>2. doc \in Documents
    BY <1>3
  <2> HIDE DEF doc
  <2>3. keep \in Documents /\ done \in Documents
    BY <2>2 DEF Documents
  <2> HIDE DEF keep, done
  <2> QED BY <1>2, <2>1, <2>3
<1>6. ASSUME NEW disputed, NEW q \in Questions
      PROVE  RecordDisputed(review, disputed)[q] \in Documents \cup {NoDoc}
  <2> DEFINE doc == Doc(q)
             marked == [doc EXCEPT !.disputed = TRUE]
  <2>1. RecordDisputed(review, disputed)[q] \in {review[q], marked}
    <3>1. review[q] # NoDoc => doc = review[q]
      BY DEF Doc, Asked
    <3> HIDE DEF doc
    <3> QED BY <3>1 DEF RecordDisputed
  <2>2. doc \in Documents
    BY <1>3
  <2> HIDE DEF doc
  <2>3. marked \in Documents
    BY <2>2 DEF Documents
  <2> HIDE DEF marked
  <2> QED BY <1>2, <2>1, <2>3
<1>7. ASSUME NEW held, NEW separate, NEW home
      PROVE  RecordHeld(review, held, separate, home) \in [Questions -> Documents \cup {NoDoc}]
  <2>1. RecordHeld(review, held, separate, home)
          = [q \in Questions |-> RecordHeld(review, held, separate, home)[q]]
    BY DEF RecordHeld
  <2> QED BY <1>5, <2>1
<1>8. ASSUME NEW disputed
      PROVE  RecordDisputed(review, disputed) \in [Questions -> Documents \cup {NoDoc}]
  <2>1. RecordDisputed(review, disputed) = [q \in Questions |-> RecordDisputed(review, disputed)[q]]
    BY DEF RecordDisputed
  <2> QED BY <1>6, <2>1
<1> QED BY <1>3, <1>7, <1>8

LEMMA RecordGoes ==
    ASSUME RowsInv, RecordNext
    PROVE  Goes
<1>1. ReviewTypeOK /\ walk \in Walks
  BY DEF RowsInv, GroupTyped
<1>2. ReviewTypeOK' /\ Onward(<<>>) /\ rows' = rows /\ walk' \in Walks
  <2>1. \/ review' = RecordHeld(review, Head(job.todo).questions, {}, Home)
        \/ review' = RecordDisputed(review, Head(job.todo).questions)
    BY DEF RecordNext
  <2>2. review' \in [Questions -> Documents \cup {NoDoc}]
    BY <1>1, <2>1, StoreTyped
  <2> QED BY <1>1, <2>2 DEF RecordNext, ReviewTypeOK
<1>3. Doing("held") \/ Doing("disputed")
  BY DEF RecordNext
<1> QED BY <1>2, <1>3, RunGoesOn

\* Answers change documents alone.
LEMMA AnswersKeep ==
    ASSUME RowsInv, rows' = rows, job' = job, walk' = walk,
           \E q \in Questions, doc \in Documents \cup {NoDoc} : review' = Put(q, doc)
    PROVE  RowsInv'
<1>1. /\ ReviewTypeOK' /\ RowsTyped' /\ JobTyped' /\ walk' \in Walks
  BY DEF RowsInv, GroupTyped, ReviewTypeOK, RowsTyped, JobTyped, Put
<1>2. FoldedOnce(rows.persons)' /\ Lined(job.todo)'
  BY DEF RowsInv, FoldedOnce, Lined, Present
<1>3. \A e, s : Suits(e, s) => Suits(e, s)'
  BY DEF Suits, People, Works
<1>4. \A i \in DOMAIN job'.todo : Suits(job.todo[i], job.stage)'
  BY <1>3 DEF RowsInv
<1> QED BY <1>1, <1>2, <1>4 DEF RowsInv, GroupTyped

LEMMA AnsweredDocument ==
    ASSUME RowsInv,
           \/ \E q \in Answerable \cap Questions, verdict \in Verdicts : AnswerAccount(q, verdict)
           \/ \E q \in Questions : TakeBack(q) \/ \E chosen \in Records \cup {NoAnswer} : Choose(q, chosen)
    PROVE  RowsInv' /\ rows' = rows /\ job' = job
<1>1. ReviewTypeOK
  BY DEF RowsInv, GroupTyped
<1>2. \A q \in Questions : Doc(q) \in Documents /\ (Asked(q) => review[q] \in Documents)
  BY <1>1, StoreTyped
<1>3. \E q \in Questions, doc \in Documents \cup {NoDoc} : review' = Put(q, doc)
  <2>1. ASSUME NEW q \in Answerable \cap Questions, NEW verdict \in Verdicts, AnswerAccount(q, verdict)
        PROVE  \E x \in Questions, doc \in Documents \cup {NoDoc} : review' = Put(x, doc)
    <3> DEFINE doc == [Doc(q) EXCEPT !.verdict = verdict, !.skipped = FALSE, !.disputed = FALSE, !.resolved = FALSE]
    <3>1. doc \in Documents
      BY <1>2 DEF Documents
    <3>2. review' = Put(q, doc)
      BY <2>1, Zenon DEF AnswerAccount, RecordVerdict
    <3> HIDE DEF doc
    <3> QED BY <3>1, <3>2
  <2>2. ASSUME NEW q \in Questions, TakeBack(q)
        PROVE  \E x \in Questions, doc \in Documents \cup {NoDoc} : review' = Put(x, doc)
    <3> DEFINE open == [review[q] EXCEPT !.verdict = NoAnswer, !.chosen = NoAnswer, !.disputed = FALSE]
               doc == IF ~review[q].held THEN NoDoc ELSE open
    <3>1. review[q] \in Documents
      BY <1>2, <2>2 DEF TakeBack, MayWithdraw
    <3>2. open \in Documents
      BY <3>1 DEF Documents
    <3>3. review' = Put(q, doc)
      BY <2>2, Zenon DEF TakeBack, Withdrawn
    <3> HIDE DEF open
    <3>4. doc \in Documents \cup {NoDoc}
      BY <3>2
    <3> HIDE DEF doc
    <3> QED BY <3>3, <3>4
  <2>3. ASSUME NEW q \in Questions, NEW chosen \in Records \cup {NoAnswer}, Choose(q, chosen)
        PROVE  \E x \in Questions, doc \in Documents \cup {NoDoc} : review' = Put(x, doc)
    <3> DEFINE verdict == IF chosen = NoAnswer THEN "different" ELSE "same"
               doc == [Doc(q) EXCEPT !.verdict = verdict, !.chosen = chosen, !.skipped = FALSE, !.disputed = FALSE]
    <3>1. review' = Put(q, doc)
      BY <2>3, Zenon DEF Choose, RecordChoice
    <3>2. verdict \in Verdicts
      BY DEF Verdicts
    <3> HIDE DEF verdict
    <3>3. doc \in Documents
      BY <1>2, <3>2 DEF Documents
    <3> HIDE DEF doc
    <3> QED BY <3>1, <3>3
  <2> QED BY <2>1, <2>2, <2>3
<1>4. rows' = rows /\ job' = job /\ walk' = walk
  BY DEF AnswerAccount, TakeBack, Choose
<1> QED BY <1>3, <1>4, AnswersKeep

-----------------------------------------------------------------------------
(* The walk from people to repositories. *)

LEMMA WalkBegins ==
    ASSUME RowsInv, WalkStart
    PROVE  Begins("social_graph")
<1> DEFINE known == Repositories \cup UNION {rows.profiles[a].repos : a \in Profiles}
           ring == [collection |-> "ring"]
<1>1. /\ MayStart("social_graph") /\ rows' = rows /\ review' = review
      /\ walk' = [NoWalk EXCEPT !.state = "walking", !.visited = known]
      /\ Started("social_graph", All, <<ring>>)
  BY DEF WalkStart
<1>2. known \in SUBSET Repos
  <2>1. \A a \in Profiles : rows.profiles[a].repos \in SUBSET Repos
    BY RowsThere DEF ProfileRow
  <2> QED BY <2>1, RowsThere
<1> HIDE DEF known
<1>3. walk' \in Walks
  <2>1. walk' = [state |-> "walking", ring |-> 0, seeds |-> {}, visited |-> known]
    BY <1>1 DEF NoWalk
  <2>2. 0 \in 0 .. MaxRings
    BY AccountsAssumption
  <2> QED BY <1>2, <2>1, <2>2 DEF Walks
<1>4. ReviewTypeOK'
  BY <1>1 DEF RowsInv, GroupTyped, ReviewTypeOK
<1>5. ring \in Entries /\ Suits(ring, "social_graph")
  BY DEF Entries, Suits, Asking, PersonSources
<1> HIDE DEF ring
<1>6. <<ring>> \in Seq(Entries) /\ DOMAIN <<ring>> = {1} /\ <<ring>>[1] = ring /\ Lined(<<ring>>)
  BY <1>5, OneWrite
<1>7. \A i \in DOMAIN <<ring>> : Suits(<<ring>>[i], "social_graph")
  BY <1>5, <1>6
<1>8. "social_graph" # "idle"
  OBVIOUS
<1> QED BY <1>1, <1>3, <1>4, <1>6, <1>7, <1>8, StageBegins, Zenon

\* the profiles one repository leads to
LEMMA SocialFollows ==
    ASSUME NEW table \in ProfileRows, NEW r \in Repos, NEW new \in SocialEnds(table, r)
    PROVE  new \in ProfileRows /\ ProfilesFollow(table, new)
<1> DEFINE people == {a \in {Owner[r]} \cup Contributors[r] : IsPerson(a, KindOf[a])}
           fresh == {a \in people : table[a] = Absent}
<1>1. CASE new = table
  BY <1>1 DEF ProfilesFollow, Present, SaysOfItself
<1>2. ASSUME NEW pages, ArePages(pages),
             new = [a \in Logins |-> IF a \notin people THEN table[a]
                     ELSE [MergeProfile(table[a], r, a, IF a \in DOMAIN pages THEN pages[a] ELSE NoPage)
                           EXCEPT !.fetched = FALSE]]
      PROVE  new \in ProfileRows /\ ProfilesFollow(table, new)
  <2>1. ASSUME NEW a \in Logins, a \in people
        PROVE  new[a] \in ProfileRow /\ (table[a] # Absent => Grows(a, table[a], new[a]))
    <3>1. KindOf[a] # "bot" /\ table[a] \in {Absent} \cup ProfileRow
      BY <2>1 DEF IsPerson, ProfileRows
    <3> DEFINE page == IF a \in DOMAIN pages THEN pages[a] ELSE NoPage
               merged == MergeProfile(table[a], r, a, page)
    <3>2. new[a] = [merged EXCEPT !.fetched = FALSE] /\ Replied(a, page)
      BY <1>2, <2>1 DEF Replied, ArePages
    <3> HIDE DEF page
    <3>3. merged \in ProfileRow /\ (table[a] # Absent => Grows(a, table[a], merged))
      BY <3>1, <3>2, MergedProfile
    <3> HIDE DEF merged
    <3>4. PICK is : is = merged
      OBVIOUS
    <3>5. PICK mark \in BOOLEAN : mark = FALSE
      OBVIOUS
    <3>6. new[a] = [is EXCEPT !.fetched = mark] /\ is \in ProfileRow
      BY <3>2, <3>3, <3>4, <3>5
    <3>7. new[a] \in ProfileRow /\ \A b, was : Grows(b, was, is) => Grows(b, was, new[a])
      BY <3>6, MarkedProfile
    <3> QED BY <3>3, <3>4, <3>7
  <2>2. \A a \in Logins : a \notin people => new[a] = table[a]
    BY <1>2
  <2>3. DOMAIN new = Logins /\ new = [a \in Logins |-> new[a]]
    BY <1>2
  <2> HIDE DEF people
  <2> QED BY <2>1, <2>2, <2>3, TableFollows
<1>3. new = table \/ \E pages :
          /\ ArePages(pages)
          /\ new = [a \in Logins |-> IF a \notin people THEN table[a]
                     ELSE [MergeProfile(table[a], r, a, IF a \in DOMAIN pages THEN pages[a] ELSE NoPage)
                           EXCEPT !.fetched = FALSE]]
  <2> DEFINE After(pages) ==
                 [a \in Logins |-> IF a \notin people THEN table[a]
                     ELSE [MergeProfile(table[a], r, a, IF a \in DOMAIN pages THEN pages[a] ELSE NoPage)
                           EXCEPT !.fetched = FALSE]]
  <2>1. new \in {table} \cup {After(pages) : pages \in UNION {PagesOf(answering) : answering \in SUBSET fresh}}
    BY Zenon DEF SocialEnds
  <2> HIDE DEF After, people, fresh
  <2>2. CASE new = table
    BY <2>2
  <2>3. ASSUME NEW answering, NEW pages \in PagesOf(answering), new = After(pages)
        PROVE  \E read : ArePages(read) /\ new = After(read)
    BY <2>3, PagesAreRead
  <2>4. new = table \/ \E read : ArePages(read) /\ new = After(read)
    BY <2>1, <2>3, Zenon
  <2> QED BY <2>4, Zenon DEF After
<1> QED BY <1>1, <1>2, <1>3

\* a repository somebody pushed to
LEMMA OwnedAreThere ==
    ASSUME NEW a \in Logins
    PROVE  UserRepositories(a) \subseteq Repos
<1>1. Pushed[a] \in Seq(Repos)
  BY AccountsAssumption
<1>2. \A i \in DOMAIN Pushed[a] : Pushed[a][i] \in Repos
  BY <1>1
<1> QED BY <1>2 DEF UserRepositories, Paged

LEMMA SeedsAreThere ==
    ASSUME RowsInv
    PROVE  Seeds \subseteq Logins
<1>1. Confirmed \subseteq Logins
  <2>1. \A p \in People : rows.persons[p].github \in Logins \cup {Unknown}
    BY RowsThere DEF PersonRow
  <2> QED BY <2>1 DEF Confirmed
<1>2. ConfirmedOrgs(rows.profiles) \subseteq Logins
  BY RowsThere, AccountsAssumption DEF ConfirmedOrgs
<1> QED BY <1>1, <1>2 DEF Seeds

\* a ring that is the last
LEMMA LastRing ==
    ASSUME RowsInv, Doing("ring"), rows' = rows, review' = review, Onward(<<>>), walk' \in Walks
    PROVE  Goes
<1>1. ReviewTypeOK'
  BY DEF RowsInv, GroupTyped, ReviewTypeOK
<1>2. "ring" \in {"ring", "match", "held", "disputed"}
  OBVIOUS
<1> QED BY <1>1, <1>2, RunGoesOn, Zenon

\* a ring after which another follows
LEMMA NextRing ==
    ASSUME RowsInv, Doing("ring"), rows' = rows, review' = review, walk' \in Walks,
           NEW table \in ProfileRows, ProfilesFollow(rows.profiles, table),
           Onward(<<Write("profiles", table), [collection |-> "match"], [collection |-> "ring"]>>)
    PROVE  Goes
<1>1. ReviewTypeOK'
  BY DEF RowsInv, GroupTyped, ReviewTypeOK
<1>2. "ring" \in {"ring", "match", "held", "disputed"} /\ "ring" \in {"ring", "match"}
  OBVIOUS
<1>3. job.stage = "social_graph"
  BY <1>2, AtHand, Zenon
<1>4. PICK one, two, three : /\ one = Write("profiles", table)
                             /\ two = [collection |-> "match"] /\ three = [collection |-> "ring"]
  OBVIOUS
<1>5. job.stage # "persons"
  BY <1>3
<1>6. one \in Entries /\ Suits(one, job.stage) /\ one.collection = "profiles"
  BY <1>4, <1>5, ProfilesSuit, Zenon
<1>7. /\ two \in Entries /\ Suits(two, job.stage) /\ two.collection = "match"
      /\ three \in Entries /\ Suits(three, job.stage) /\ three.collection = "ring"
  BY <1>3, <1>4 DEF Entries, Suits, Asking, PersonSources
<1> DEFINE first == <<one, two, three>>
<1>8. first \in Seq(Entries) /\ DOMAIN first = {1, 2, 3} /\ first[1] = one /\ first[2] = two /\ first[3] = three
  BY <1>6, <1>7
<1>9. Onward(first)
  BY <1>4
<1> HIDE DEF first
<1>10. "match" \in Later("profiles") /\ "ring" \in Later("profiles") /\ "ring" \in Later("match")
  BY DEF Later, Asking
<1>11. Lined(first)
  <2> SUFFICES ASSUME NEW i \in {1, 2, 3}, NEW j \in {1, 2, 3}, i < j
               PROVE  first[j].collection \in Later(first[i].collection)
    BY <1>8 DEF Lined
  <2>1. (i = 1 /\ j = 2) \/ (i = 1 /\ j = 3) \/ (i = 2 /\ j = 3)
    OBVIOUS
  <2> QED BY <1>6, <1>7, <1>8, <1>10, <2>1
<1>12. \A i \in DOMAIN first : Suits(first[i], job.stage)
  BY <1>6, <1>7, <1>8
<1>13. Later("ring") = {}
  BY DEF Later, Asking
<1>14. \A i \in DOMAIN first : Later("ring") \subseteq Later(first[i].collection)
  BY <1>13
<1> QED BY <1>1, <1>2, <1>8, <1>9, <1>11, <1>12, <1>14, RunGoes, Zenon

\* One ring of the walk.
LEMMA RingGoes ==
    ASSUME RowsInv, Ring
    PROVE  Goes
<1> DEFINE seeds == Seeds \ walk.seeds
           Fresh(listed) == UNION {UserRepositories(a) : a \in listed} \ walk.visited
<1>1. Doing("ring") /\ rows' = rows /\ review' = review
  BY Zenon DEF Ring
<1>2. walk \in Walks /\ seeds \in SUBSET Logins
  BY SeedsAreThere DEF RowsInv, GroupTyped
<1>3. \A listed \in SUBSET seeds : Fresh(listed) \in SUBSET Repos
  <2>1. \A a \in seeds : UserRepositories(a) \subseteq Repos
    BY <1>2, OwnedAreThere
  <2> QED BY <2>1
<1>4. CASE walk.ring = MaxRings
  <2>1. walk' = [walk EXCEPT !.state = "ceiling"] /\ Onward(<<>>)
    BY Zenon, <1>4 DEF Ring
  <2>2. walk' \in Walks
    BY <1>2, <2>1 DEF Walks
  <2> QED BY <1>1, <2>1, <2>2, LastRing
<1>5. ASSUME walk' = [walk EXCEPT !.state = "converged", !.seeds = walk.seeds \cup seeds], Onward(<<>>)
      PROVE  Goes
  <2>1. walk' \in Walks
    <3> HIDE DEF seeds
    <3> QED BY <1>2, <1>5 DEF Walks
  <2> QED BY <1>1, <1>5, <2>1, LastRing
<1>6. CASE walk.ring # MaxRings /\ seeds = {}
  <2>1. walk' = [walk EXCEPT !.state = "converged", !.seeds = walk.seeds \cup seeds] /\ Onward(<<>>)
    BY Zenon, <1>6 DEF Ring
  <2> QED BY <1>5, <2>1
<1>7. CASE walk.ring # MaxRings /\ seeds # {}
  <2>1. PICK listed \in SUBSET seeds :
          LET fresh == Fresh(listed)
              tables[i \in 0 .. Cardinality(fresh)] ==
                  IF i = 0 THEN {rows.profiles}
                  ELSE UNION {SocialEnds(table, InOrder(fresh)[i]) : table \in tables[i - 1]}
          IN IF fresh = {}
             THEN walk' = [walk EXCEPT !.state = "converged", !.seeds = walk.seeds \cup seeds] /\ Onward(<<>>)
             ELSE /\ walk' = [walk EXCEPT !.ring = walk.ring + 1, !.seeds = walk.seeds \cup seeds,
                                          !.visited = walk.visited \cup fresh]
                  /\ \E table \in tables[Cardinality(fresh)] :
                      Onward(<<Write("profiles", table), [collection |-> "match"], [collection |-> "ring"]>>)
    BY Zenon, <1>7 DEF Ring
  <2> DEFINE fresh == Fresh(listed)
             n == Cardinality(fresh)
             After1(t, i) == UNION {SocialEnds(table, InOrder(fresh)[i]) : table \in t}
             Body(f) == [i \in 0 .. n |-> IF i = 0 THEN {rows.profiles} ELSE After1(f[i - 1], i)]
             tables == CHOOSE f : f = Body(f)
  <2>2. CASE fresh = {}
    BY <1>5, <2>1, <2>2, Zenon
  <2>3. CASE fresh # {}
    <3>1. /\ walk' = [walk EXCEPT !.ring = walk.ring + 1, !.seeds = walk.seeds \cup seeds,
                                  !.visited = walk.visited \cup fresh]
          /\ \E table \in tables[n] :
              Onward(<<Write("profiles", table), [collection |-> "match"], [collection |-> "ring"]>>)
      BY <2>1, <2>3, Zenon
    <3>2. fresh \in SUBSET Repos
      BY <1>3
    <3> HIDE DEF seeds
    <3>3. walk' \in Walks
      <4> HIDE DEF tables, fresh
      <4>1. walk.ring \in 0 .. MaxRings /\ walk.ring # MaxRings
        BY <1>2, <1>7 DEF Walks
      <4>2. walk.ring + 1 \in 0 .. MaxRings
        BY <4>1, AccountsAssumption
      <4>3. walk.seeds \cup seeds \in SUBSET Logins /\ walk.visited \cup fresh \in SUBSET Repos
        BY <1>2, <3>2 DEF Walks
      <4> QED BY <1>2, <3>1, <4>2, <4>3 DEF Walks
    <3> HIDE DEF tables, Body, fresh, n
    <3>4. fresh \subseteq Nat /\ IsFiniteSet(fresh)
      BY <3>2, AccountsAssumption, FS_Subset
    <3>5. n \in Nat /\ InOrder(fresh) \in [1 .. n -> fresh]
      BY <3>4, NumbersInOrder DEF n
    <3> DEFINE S == {t \in ProfileRows : ProfilesFollow(rows.profiles, t)}
               first == {rows.profiles}
    <3>6. first \in SUBSET S
      BY RowsThere DEF ProfilesFollow, SaysOfItself, Present
    <3> HIDE DEF first
    <3>7. ASSUME NEW t \in SUBSET S, NEW i \in 1 .. n PROVE After1(t, i) \in SUBSET S
      <4> SUFFICES ASSUME NEW table \in t, NEW new \in SocialEnds(table, InOrder(fresh)[i]) PROVE new \in S
        BY Zenon
      <4>1. PICK r : r = InOrder(fresh)[i]
        OBVIOUS
      <4>2. r \in Repos /\ table \in ProfileRows /\ ProfilesFollow(rows.profiles, table)
        BY <3>2, <3>5, <4>1
      <4>3. new \in ProfileRows /\ ProfilesFollow(table, new)
        BY <4>1, <4>2, SocialFollows
      <4> QED BY <4>2, <4>3, RowsThere, ProfilesFollowOn
    <3> HIDE DEF After1, S
    <3> DEFINE step == [x \in (1 .. n) \X SUBSET S |-> After1(x[2], x[1])]
    <3>8. \A i \in 1 .. n, t \in SUBSET S : step[<<i, t>>] = After1(t, i)
      OBVIOUS
    <3> HIDE DEF step
    <3>9. StepsWithin(step, n, SUBSET S)
      <4> DEFINE T == SUBSET S
      <4>1. \A i \in 1 .. n, t \in T : step[<<i, t>>] \in T
        <5> SUFFICES ASSUME NEW i \in 1 .. n, NEW t \in T PROVE step[<<i, t>>] \in T
          OBVIOUS
        <5>1. step[<<i, t>>] = After1(t, i)
          BY <3>8
        <5>2. After1(t, i) \in T
          BY <3>7
        <5> QED BY <5>1, <5>2
      <4> QED BY <4>1 DEF StepsWithin
    <3>10. PICK f : StepsBy(f, n, SUBSET S, step, first)
      BY <3>5, <3>6, <3>9, StepsExist
    <3> USE DEF Body
    <3>11. f = Body(f)
      <4>1. f \in [0 .. n -> SUBSET S] /\ f[0] = first /\ \A i \in 1 .. n : f[i] = step[<<i, f[i - 1]>>]
        BY <3>10 DEF StepsBy
      <4>2. ASSUME NEW i \in 0 .. n PROVE f[i] = IF i = 0 THEN {rows.profiles} ELSE After1(f[i - 1], i)
        <5>1. CASE i = 0
          BY <4>1, <5>1 DEF first
        <5>2. CASE i # 0
          <6>1. i \in 1 .. n /\ i - 1 \in 0 .. n
            BY <3>5, <5>2
          <6>2. f[i - 1] \in SUBSET S
            BY <4>1, <6>1
          <6> QED BY <3>8, <4>1, <5>2, <6>1, <6>2
        <5> QED BY <5>1, <5>2
      <4>3. f = [i \in 0 .. n |-> f[i]]
        BY <4>1
      <4> QED BY <4>2, <4>3
    <3>12. tables = Body(tables)
      BY <3>11 DEF tables
    <3>13. ASSUME NEW i \in 0 .. n PROVE tables[i] = IF i = 0 THEN first ELSE After1(tables[i - 1], i)
      <4>1. Body(tables)[i] = IF i = 0 THEN first ELSE After1(tables[i - 1], i)
        BY DEF first
      <4> HIDE DEF Body
      <4> QED BY <3>12, <4>1
    <3> HIDE DEF Body
    <3>14. tables[n] \in SUBSET S
      <4> DEFINE Good == {<<i, t>> : i \in 0 .. n, t \in SUBSET S}
      <4>1. <<0, tables[0]>> \in Good
        BY <3>5, <3>6, <3>13
      <4>2. ASSUME NEW i \in 1 .. n, <<i - 1, tables[i - 1]>> \in Good PROVE <<i, tables[i]>> \in Good
        <5>1. tables[i - 1] \in SUBSET S /\ i \in 0 .. n /\ i # 0
          BY <3>5, <4>2
        <5>2. tables[i] = After1(tables[i - 1], i)
          BY <3>13, <5>1
        <5> QED BY <3>7, <5>1, <5>2
      <4> HIDE DEF Good
      <4>3. \A i \in 0 .. n : <<i, tables[i]>> \in Good
        BY <3>5, <4>1, <4>2, StepsReach
      <4>4. <<n, tables[n]>> \in Good
        BY <3>5, <4>3
      <4> QED BY <4>4 DEF Good
    <3>15. PICK table \in S :
              Onward(<<Write("profiles", table), [collection |-> "match"], [collection |-> "ring"]>>)
      BY <3>1, <3>14
    <3>16. table \in ProfileRows /\ ProfilesFollow(rows.profiles, table)
      BY DEF S
    <3> QED BY <1>1, <3>3, <3>15, <3>16, NextRing
  <2> QED BY <2>2, <2>3
<1> QED BY <1>4, <1>6, <1>7

-----------------------------------------------------------------------------
(* People of one employee folded into one. *)

\* records in the order of their rank
\* every one of a set, one after another
LinesUp(line, S) ==
    /\ Cardinality(S) \in Nat /\ line \in [1 .. Cardinality(S) -> S]
    /\ \A x \in S : \E i \in 1 .. Cardinality(S) : line[i] = x
LEMMA RankedInLine ==
    ASSUME NEW g, g \subseteq Nat, IsFiniteSet(g), NEW works, NEW orcid, \A p \in g : works[p] \in Nat
    PROVE  LinesUp(Ranked(g, works, orcid), g \ {Canonical(g, works, orcid)})
<1> DEFINE S == g \ {Canonical(g, works, orcid)}
           R == RankOf(S, works, orcid)
           N == Cardinality(S)
           line == Ranked(g, works, orcid)
           rank(x) == Cardinality({y \in S : Outranks(y, x, works, orcid)})
<1>0. S \subseteq Nat /\ IsFiniteSet(S) /\ \A p \in S : works[p] \in Nat
  BY FS_Subset
<1>3. line = [i \in 1 .. N |-> CHOOSE x \in S : rank(x) = i - 1]
  BY DEF Ranked, Ordered
<1> HIDE DEF line, S
<1>1. Orders(R, S)
  BY <1>0, RankOrders
<1>2. \A x \in S : Cardinality(Before(R, S, x)) = rank(x)
  <2> SUFFICES ASSUME NEW x \in S PROVE Before(R, S, x) = {y \in S : Outranks(y, x, works, orcid)}
    OBVIOUS
  <2> QED BY DEF Before, RankOf
<1> HIDE DEF R, rank
<1>4. \A i \in 1 .. N : \E x \in S : rank(x) = i - 1
  <2>1. \A i \in 1 .. N : \E x \in S : Cardinality(Before(R, S, x)) = i - 1
    BY <1>0, <1>1, EveryPlaceIsTaken
  <2> QED BY <1>2, <2>1
<1>5. line \in [1 .. N -> S] /\ \A i \in 1 .. N : line[i] \in S /\ rank(line[i]) = i - 1
  BY <1>3, <1>4
<1>6. \A i \in 1 .. N : Cardinality(Before(R, S, line[i])) = i - 1
  BY <1>2, <1>5
<1>7. line = InLine(R, S)
  BY <1>0, <1>1, <1>5, <1>6, LineIs
<1>8. /\ N \in Nat /\ InLine(R, S) \in [1 .. N -> S]
      /\ \A x \in S : \E i \in 1 .. N : InLine(R, S)[i] = x
  BY <1>0, <1>1, LineHoldsAll
<1>9. LinesUp(line, S)
  BY <1>7, <1>8 DEF LinesUp
<1> QED BY <1>9 DEF line, S

\* Rows folded one after another into one: it gathers what every one of them had.
GathersLine(base, into, n, line) ==
    /\ into \in PersonRow /\ Gathers(base, into, TRUE) /\ SameSign(base, into)
    /\ \A i \in 1 .. n : Gathers(rows.persons[line[i]], into, FALSE)
    /\ \A x : x \in into.merged <=>
          x \in base.merged \/ \E i \in 1 .. n : x = line[i] \/ x \in rows.persons[line[i]].merged
LEMMA FoldedRow ==
    ASSUME NEW n \in Nat, NEW line \in [1 .. n -> Persons], NEW p, rows.persons[p] \in PersonRow,
           \A i \in 1 .. n : rows.persons[line[i]] \in PersonRow
    PROVE  GathersLine(rows.persons[p], FoldedInto(p, line), n, line)
<1> DEFINE base == rows.persons[p]
           row(i) == rows.persons[line[i]]
           S == 1 .. n
           op == [x \in S \X PersonRow |-> MergePerson(x[2], row(x[1]), line[x[1]])]
           Holds(k, t) ==
               /\ Gathers(base, t, TRUE) /\ SameSign(base, t) /\ \A i \in 1 .. k : Gathers(row(i), t, FALSE)
               /\ \A x : x \in t.merged <=> x \in base.merged \/ \E i \in 1 .. k : x = line[i] \/ x \in row(i).merged
           Good == {x \in (0 .. n) \X PersonRow : Holds(x[1], x[2])}
           Right(f) == f = [s \in SUBSET S |-> IF s = {} THEN base
                                               ELSE MergePerson(f[s \ {Max(s)}], row(Max(s)), line[Max(s)])]
           folded == CHOOSE f : Right(f)
           into == FoldedInto(p, line)
<1>1. into = folded[S]
  <2>1. DOMAIN line = S
    OBVIOUS
  <2> QED BY <2>1 DEF FoldedInto, FoldLeft, MapThenFoldSet
<1>2. ASSUME NEW i \in S, NEW t \in PersonRow
      PROVE  LET then == MergePerson(t, row(i), line[i])
             IN /\ then \in PersonRow /\ then.merged = t.merged \cup row(i).merged \cup {line[i]}
                /\ Gathers(t, then, TRUE) /\ Gathers(row(i), then, FALSE) /\ SameSign(t, then)
  <2> DEFINE extra == row(i)
             id == line[i]
  <2>1. extra \in PersonRow /\ id \in Persons
    OBVIOUS
  <2> HIDE DEF extra, id
  <2>2. /\ MergePerson(t, extra, id) \in PersonRow
        /\ MergePerson(t, extra, id).merged = t.merged \cup extra.merged \cup {id}
        /\ Gathers(t, MergePerson(t, extra, id), TRUE) /\ Gathers(extra, MergePerson(t, extra, id), FALSE)
        /\ SameSign(t, MergePerson(t, extra, id))
    BY <2>1, MergeRow
  <2> QED BY <2>2 DEF extra, id
<1>3. op \in [S \X PersonRow -> PersonRow]
  BY <1>2
<1>4. \A i \in S, t \in PersonRow : op[<<i, t>>] = MergePerson(t, row(i), line[i])
  OBVIOUS
<1>0. base \in PersonRow
  OBVIOUS
<1> HIDE DEF op, into, base
<1>5. \A s \in SUBSET S : s # {} => Max(s) \in s
  <2> SUFFICES ASSUME NEW s \in SUBSET S, s # {} PROVE Max(s) \in s
    OBVIOUS
  <2>1. s \subseteq 0 .. n
    OBVIOUS
  <2> QED BY <2>1, MaxBelongs
<1>6. \E f : Right(f)
  <2>1. PICK f \in [SUBSET S -> PersonRow] : FoldsLine(f, n, op, base)
    BY <1>0, <1>3, LineFoldExists
  <2>2. ASSUME NEW s \in SUBSET S
        PROVE  f[s] = IF s = {} THEN base ELSE MergePerson(f[s \ {Max(s)}], row(Max(s)), line[Max(s)])
    <3>1. f[s] = IF s = {} THEN base ELSE op[<<Max(s), f[s \ {Max(s)}]>>]
      BY <2>1 DEF FoldsLine
    <3>2. CASE s # {}
      <4>1. Max(s) \in S /\ f[s \ {Max(s)}] \in PersonRow
        BY <1>5, <2>1, <3>2
      <4> QED BY <1>4, <3>1, <3>2, <4>1
    <3> QED BY <3>1, <3>2
  <2>3. f = [s \in SUBSET S |-> f[s]]
    BY <2>1
  <2>4. Right(f)
    <3> HIDE DEF S, row
    <3> QED BY <2>2, <2>3
  <2> QED BY <2>4
<1>7. Right(folded)
  BY <1>6
<1> HIDE DEF folded
<1>8. /\ folded[{}] = base
      /\ \A s \in SUBSET S : s # {} => folded[s] = MergePerson(folded[s \ {Max(s)}], row(Max(s)), line[Max(s)])
  <2> DEFINE f == folded
             body == [s \in SUBSET S |-> IF s = {} THEN base
                                         ELSE MergePerson(f[s \ {Max(s)}], row(Max(s)), line[Max(s)])]
  <2>1. f = body
    BY <1>7
  <2>2. /\ body[{}] = base
        /\ \A s \in SUBSET S : s # {} => body[s] = MergePerson(f[s \ {Max(s)}], row(Max(s)), line[Max(s)])
    OBVIOUS
  <2> HIDE DEF body
  <2> QED BY <2>1, <2>2
<1>9. \A s \in SUBSET S : s # {} /\ folded[s \ {Max(s)}] \in PersonRow =>
          folded[s] = op[<<Max(s), folded[s \ {Max(s)}]>>]
  <2> SUFFICES ASSUME NEW s \in SUBSET S, s # {}, folded[s \ {Max(s)}] \in PersonRow
               PROVE  folded[s] = op[<<Max(s), folded[s \ {Max(s)}]>>]
    OBVIOUS
  <2>1. Max(s) \in S
    BY <1>5
  <2> HIDE DEF S, row
  <2> QED BY <1>4, <1>8, <2>1
<1> HIDE DEF Right
<1>10. <<0, base>> \in Good
  <2>1. Gathers(base, base, TRUE) /\ SameSign(base, base)
    BY DEF Gathers, SameSign
  <2>2. 1 .. 0 = {} /\ 0 \in 0 .. n
    OBVIOUS
  <2> HIDE DEF row
  <2> QED BY <1>0, <2>1, <2>2
<1>11. ASSUME NEW i \in S, NEW t \in PersonRow, <<i - 1, t>> \in Good
       PROVE  op[<<i, t>>] \in PersonRow /\ <<i, op[<<i, t>>]>> \in Good
  <2> DEFINE then == MergePerson(t, row(i), line[i])
  <2>1. op[<<i, t>>] = then
    BY <1>4
  <2>2. /\ then \in PersonRow /\ then.merged = t.merged \cup row(i).merged \cup {line[i]}
        /\ Gathers(t, then, TRUE) /\ Gathers(row(i), then, FALSE) /\ SameSign(t, then)
    BY <1>2
  <2>3. Holds(i - 1, t)
    BY <1>11
  <2> HIDE DEF then, row
  <2>4. i \in 0 .. n /\ \A j \in 1 .. i : j \in 1 .. i - 1 \/ j = i
    OBVIOUS
  <2>5. Gathers(base, then, TRUE) /\ SameSign(base, then)
    <3>1. SameSign(base, then)
      BY <2>2, <2>3 DEF SameSign
    <3> QED BY <2>2, <2>3, <3>1, GathersOn
  <2>6. \A j \in 1 .. i : Gathers(row(j), then, FALSE)
    <3> SUFFICES ASSUME NEW j \in 1 .. i, j # i PROVE Gathers(row(j), then, FALSE)
      BY <2>2
    <3>1. Gathers(row(j), t, FALSE)
      BY <2>3, <2>4
    <3> QED BY <2>2, <3>1, GathersOn
  <2>7. \A x : x \in then.merged <=> x \in base.merged \/ \E j \in 1 .. i : x = line[j] \/ x \in row(j).merged
    <3>1. \A j \in 1 .. i - 1 : j \in 1 .. i
      OBVIOUS
    <3>2. i \in 1 .. i
      OBVIOUS
    <3> QED BY <2>2, <2>3, <2>4, <3>1, <3>2
  <2> QED BY <2>1, <2>2, <2>4, <2>5, <2>6, <2>7
<1> HIDE DEF Good
<1>12. folded[1 .. n] \in PersonRow /\ <<n, folded[1 .. n]>> \in Good
  BY <1>0, <1>8, <1>9, <1>10, <1>11, LineFoldReaches
<1> USE DEF Good
<1>13. Holds(n, folded[1 .. n])
  BY <1>12
<1>14. GathersLine(base, into, n, line)
  BY <1>1, <1>12, <1>13 DEF GathersLine
<1> QED BY <1>14 DEF into, base

\* The fold of whole groups, where nobody is in two of them.
LEMMA StaffFolds ==
    ASSUME RowsInv, NEW groups, NEW works, NEW orcid,
           \A g \in groups : g \subseteq People /\ g # {} /\ IsFiniteSet(g),
           \A g, h \in groups : \A p \in g : p \in h => g = h,
           \A p \in Persons : works[p] \in Nat
    PROVE  Folded(groups, works, orcid) \in PersonRows
           /\ PersonsFollow(rows.persons, Folded(groups, works, orcid))
<1> DEFINE table == Folded(groups, works, orcid)
           old == rows.persons
           stays(g) == Canonical(g, works, orcid)
           \* whose rows end in p's
           Of(p) == IF \E g \in groups : p \in g THEN CHOOSE g \in groups : p \in g ELSE {p}
<1>1. /\ old \in PersonRows /\ FoldedOnce(old) /\ Absent \notin PersonRow
      /\ People \subseteq Persons /\ Persons \subseteq Nat
      /\ \A p \in People : old[p] \in PersonRow
      /\ \A p \in Persons \ People : old[p] = Absent
  BY RowsThere, ResearchersAssumption
<1>2. \A g \in groups : stays(g) \in g
  <2> SUFFICES ASSUME NEW g \in groups PROVE stays(g) \in g
    OBVIOUS
  <2>1. g \subseteq Nat /\ IsFiniteSet(g) /\ g # {} /\ \A p \in g : works[p] \in Nat
    BY <1>1
  <2> QED BY <2>1, CanonicalLeads
<1>3. \A g \in groups : \A p \in g : Of(p) = g
  OBVIOUS
<1>4. \A p \in Persons : (\A g \in groups : p \notin g) => Of(p) = {p} /\ table[p] = old[p]
  BY DEF Folded
<1>5. ASSUME NEW g \in groups, NEW p \in g
      PROVE  table[p] = IF p # stays(g) THEN Absent ELSE FoldedInto(p, Ranked(g, works, orcid))
  <2>1. p \in Persons /\ ~\A h \in groups : p \notin h
    BY <1>1
  <2>2. (CHOOSE h \in groups : p \in h) = g
    OBVIOUS
  <2> HIDE DEF table
  <2>3. table = [x \in Persons |->
                    IF \A h \in groups : x \notin h THEN old[x]
                    ELSE LET h == CHOOSE y \in groups : x \in y
                         IN IF x # stays(h) THEN Absent ELSE FoldedInto(x, Ranked(h, works, orcid))]
    BY DEF table, Folded
  <2> HIDE DEF stays
  <2> QED BY <2>1, <2>2, <2>3
<1>6. DOMAIN table = Persons /\ table = [p \in Persons |-> table[p]]
  BY DEF Folded
<1> HIDE DEF table, Of
<1> DEFINE Remains(p) == p \in People /\ \A g \in groups : p \in g => p = stays(g)
           Rows(p) ==
              /\ table[p] \in PersonRow /\ Gathers(old[p], table[p], TRUE) /\ SameSign(old[p], table[p])
              /\ \A q \in Of(p) \ {p} : Gathers(old[q], table[p], FALSE)
              /\ \A x : x \in table[p].merged <=>
                    x \in Of(p) \ {p} \/ \E q \in Of(p) : x \in old[q].merged
<1>7. ASSUME NEW p \in Persons, ~Remains(p) PROVE table[p] = Absent
  <2>1. CASE p \notin People
    BY <1>1, <1>4, <2>1
  <2>2. CASE p \in People
    <3>1. PICK g \in groups : p \in g /\ p # stays(g)
      BY <1>7, <2>2
    <3> QED BY <1>5, <3>1
  <2> QED BY <2>1, <2>2
<1>8. ASSUME NEW p \in Persons, Remains(p) PROVE Rows(p)
  <2>1. CASE \A g \in groups : p \notin g
    <3>1. Of(p) = {p} /\ table[p] = old[p] /\ old[p] \in PersonRow
      BY <1>1, <1>4, <1>8, <2>1
    <3>2. \A row : Gathers(row, row, TRUE) /\ SameSign(row, row)
      BY DEF Gathers, SameSign
    <3> QED BY <3>1, <3>2
  <2>2. ASSUME NEW g \in groups, p \in g PROVE Rows(p)
    <3> DEFINE S == g \ {stays(g)}
               n == Cardinality(S)
               line == Ranked(g, works, orcid)
    <3>1. p = stays(g) /\ Of(p) = g /\ g \subseteq People
      BY <1>3, <1>8, <2>2
    <3>2. g \subseteq Nat /\ IsFiniteSet(g) /\ \A q \in g : works[q] \in Nat
      BY <1>1
    <3>3. n \in Nat /\ line \in [1 .. n -> S] /\ \A x \in S : \E i \in 1 .. n : line[i] = x
      <4>1. LinesUp(Ranked(g, works, orcid), g \ {Canonical(g, works, orcid)})
        BY <3>2, RankedInLine
      <4> QED BY <4>1 DEF LinesUp, stays
    <3>4. table[p] = FoldedInto(p, line)
      BY <1>5, <2>2, <3>1
    <3>7. Of(p) \ {p} = S /\ Of(p) = S \cup {p} /\ S \subseteq People /\ p \in People
      BY <1>2, <3>1
    <3> HIDE DEF line, n, S, stays
    <3>11. S \subseteq Persons /\ \A q \in S : old[q] \in PersonRow
      BY <1>1, <3>7
    <3>12. \A i \in 1 .. n : line[i] \in S
      BY <3>3
    <3>5. line \in [1 .. n -> Persons] /\ old[p] \in PersonRow /\ \A i \in 1 .. n : old[line[i]] \in PersonRow
      BY <1>1, <3>3, <3>7, <3>11, <3>12
    <3>13. GathersLine(old[p], FoldedInto(p, line), n, line)
      BY <3>3, <3>5, FoldedRow
    <3>6. /\ table[p] \in PersonRow /\ Gathers(old[p], table[p], TRUE) /\ SameSign(old[p], table[p])
          /\ \A i \in 1 .. n : Gathers(old[line[i]], table[p], FALSE)
          /\ \A x : x \in table[p].merged <=>
                \/ x \in old[p].merged
                \/ \E i \in 1 .. n : x = line[i] \/ x \in old[line[i]].merged
      <4>1. GathersLine(old[p], table[p], n, line)
        BY <3>4, <3>13
      <4> QED BY <4>1, Zenon DEF GathersLine
    <3>8. \A q \in S : Gathers(old[q], table[p], FALSE)
      BY <3>3, <3>6
    <3>9. \A x : (\E i \in 1 .. n : x = line[i] \/ x \in old[line[i]].merged) <=>
                 (x \in S \/ \E q \in S : x \in old[q].merged)
      BY <3>3
    <3>10. \A x : x \in table[p].merged <=> x \in S \/ \E q \in Of(p) : x \in old[q].merged
      BY <3>6, <3>7, <3>9
    <3> QED BY <3>6, <3>7, <3>8, <3>10
  <2> QED BY <2>1, <2>2
<1> HIDE DEF stays
<1>9. table \in PersonRows
  <2>1. \A p \in Persons : table[p] \in {Absent} \cup PersonRow
    BY <1>7, <1>8
  <2> QED BY <1>6, <2>1 DEF PersonRows
<1>10. \A p : p \in Present(table) <=> p \in Persons /\ Remains(p)
  <2>1. ASSUME NEW p \in Persons, Remains(p) PROVE table[p] # Absent
    <3>1. Rows(p)
      BY <1>8, <2>1
    <3> HIDE DEF Remains
    <3> QED BY <1>1, <3>1
  <2>2. \A p \in Persons : ~Remains(p) => table[p] = Absent
    BY <1>7
  <2> HIDE DEF Remains
  <2> QED BY <1>6, <2>1, <2>2 DEF Present
<1>11. ASSUME NEW p \in Persons, Remains(p)
       PROVE  p \in Of(p) /\ Of(p) \subseteq People /\ \A q \in Of(p) : q # p => ~Remains(q)
  <2>1. CASE \A g \in groups : p \notin g
    BY <1>4, <1>11, <2>1
  <2>2. ASSUME NEW g \in groups, p \in g
        PROVE  p \in Of(p) /\ Of(p) \subseteq People /\ \A q \in Of(p) : q # p => ~Remains(q)
    BY <1>3, <1>11, <2>2
  <2> QED BY <2>1, <2>2
<1>12. ASSUME NEW p \in Persons, NEW q \in Persons, Remains(p), Remains(q), p # q PROVE Of(p) \cap Of(q) = {}
  <2> SUFFICES ASSUME NEW x \in Of(p), x \in Of(q) PROVE FALSE
    OBVIOUS
  <2>1. CASE \A g \in groups : p \notin g
    <3>1. x = p
      BY <1>4, <2>1
    <3> QED BY <1>11, <1>12, <3>1
  <2>2. CASE \A g \in groups : q \notin g
    <3>1. x = q
      BY <1>4, <2>2
    <3> QED BY <1>11, <1>12, <3>1
  <2>3. ASSUME NEW g \in groups, p \in g, NEW h \in groups, q \in h PROVE FALSE
    <3>1. Of(p) = g /\ Of(q) = h
      BY <1>3, <2>3
    <3>2. g = h
      BY <3>1
    <3> QED BY <1>12, <2>3, <3>2
  <2> QED BY <2>1, <2>2, <2>3
<1> HIDE DEF Remains
<1>13. \A a, b \in People : b \notin old[a].merged /\ (a # b => old[a].merged \cap old[b].merged = {})
  BY <1>1 DEF FoldedOnce, People
<1>14. ASSUME NEW p \in Persons, Remains(p), NEW x
       PROVE  x \in table[p].merged <=> x \in Of(p) \ {p} \/ \E q \in Of(p) : x \in old[q].merged
  BY <1>8, <1>14
<1>15. \A p \in Persons : Remains(p) => p \in People
  BY DEF Remains
<1>16. FoldedOnce(table)
  <2>1. ASSUME NEW a \in Persons, Remains(a), NEW b \in Persons, Remains(b), b \in table[a].merged PROVE FALSE
    <3>1. CASE b \in Of(a) \ {a}
      BY <1>11, <2>1, <3>1
    <3>2. ASSUME NEW q \in Of(a), b \in old[q].merged PROVE FALSE
      <4>1. q \in People /\ b \in People
        BY <1>11, <1>15, <2>1
      <4> QED BY <1>13, <3>2, <4>1
    <3> QED BY <1>14, <2>1, <3>1, <3>2
  <2>2. ASSUME NEW a \in Persons, Remains(a), NEW b \in Persons, Remains(b), a # b,
               NEW x, x \in table[a].merged, x \in table[b].merged
        PROVE  FALSE
    <3>1. Of(a) \subseteq People /\ Of(b) \subseteq People /\ Of(a) \cap Of(b) = {}
      BY <1>11, <1>12, <2>2
    <3>2. x \in Of(a) \/ \E q \in Of(a) : x \in old[q].merged
      BY <1>14, <2>2
    <3>3. x \in Of(b) \/ \E q \in Of(b) : x \in old[q].merged
      BY <1>14, <2>2
    <3> QED BY <1>13, <3>1, <3>2, <3>3
  <2> QED BY <1>10, <2>1, <2>2 DEF FoldedOnce
<1>17. ASSUME NEW a \in Present(old) \cap Present(table)
       PROVE  Keeps(old[a], table[a], TRUE) /\ Signed(a, old[a], table[a])
  <2>1. Gathers(old[a], table[a], TRUE) /\ SameSign(old[a], table[a])
    BY <1>8, <1>10, <1>17
  <2> QED BY <2>1, GatheredKept DEF Signed, SameSign
<1>18. ASSUME NEW a \in Present(old) \ Present(table)
       PROVE  /\ \E b \in Present(table) : a \in table[b].merged
              /\ \A b \in Present(table) : a \in table[b].merged => Keeps(old[a], table[b], FALSE)
  <2>1. a \in People /\ a \in Persons /\ ~Remains(a)
    BY <1>1, <1>10 DEF People
  <2>2. PICK g \in groups : a \in g /\ a # stays(g)
    BY <2>1 DEF Remains
  <2> DEFINE b == stays(g)
  <2>3. b \in Persons /\ Remains(b) /\ Of(b) = g
    BY <1>1, <1>2, <1>3 DEF Remains
  <2>4. b \in Present(table) /\ a \in table[b].merged
    BY <1>10, <1>14, <2>2, <2>3
  <2> HIDE DEF b
  <2>5. ASSUME NEW c \in Present(table), a \in table[c].merged PROVE Keeps(old[a], table[c], FALSE)
    <3>1. c \in Persons /\ Remains(c) /\ Of(c) \subseteq People
      BY <1>10, <1>11
    <3>2. a \in Of(c) \ {c}
      BY <1>13, <1>14, <2>1, <2>5, <3>1
    <3>3. Gathers(old[a], table[c], FALSE)
      BY <1>8, <3>1, <3>2
    <3> QED BY <3>3, GatheredKept
  <2> QED BY <2>4, <2>5
<1>19. PersonsFollow(old, table)
  BY <1>16, <1>17, <1>18 DEF PersonsFollow
<1> QED BY <1>9, <1>19 DEF table

\* questions to ask are an entry
LEMMA HeldSuits ==
    ASSUME NEW stage, stage # "persons", NEW questions \in SUBSET QuestionSet,
           NEW held, held = [collection |-> "held", questions |-> questions]
    PROVE  held \in Entries /\ Suits(held, stage) /\ held.collection = "held"
BY DEF Entries, Suits, Asking, PersonSources

LEMMA FoldedSuits ==
    ASSUME NEW t \in PersonRows, PersonsFollow(rows.persons, t), NEW w, w = Write("persons", t)
    PROVE  w \in Entries /\ Suits(w, "dedup") /\ w.collection = "persons"
BY PersonsSuit

\* What a run of the rule has before it, with its questions first.
LEMMA StaffRuns ==
    ASSUME RowsInv, NEW selection, NEW pairs \in SUBSET SUBSET People, NEW ident, DOMAIN ident \subseteq Nat,
           NEW works, \A p \in Persons : works[p] \in Nat, NEW orcid,
           NEW asked \in Seq(Entries), Lined(asked),
           \A i \in DOMAIN asked : Suits(asked[i], "dedup") /\ asked[i].collection = "held",
           MayStart("dedup"), rows' = rows, review' = review, walk' = walk,
           LET groups == Accepted(pairs, ident, {})
               left == {Question("group", g) : g \in HeldGroups(pairs, ident, {}, works, orcid)}
           IN Started("dedup", selection,
                   asked \o (IF groups = {} THEN <<>> ELSE <<Write("persons", Folded(groups, works, orcid))>>)
                         \o (IF left = {} THEN <<>> ELSE <<[collection |-> "held", questions |-> left]>>))
    PROVE  Begins("dedup")
<1> DEFINE groups == Accepted(pairs, ident, {})
           left == {Question("group", g) : g \in HeldGroups(pairs, ident, {}, works, orcid)}
           table == Folded(groups, works, orcid)
           second == IF groups = {} THEN <<>> ELSE <<Write("persons", table)>>
           third == IF left = {} THEN <<>> ELSE <<[collection |-> "held", questions |-> left]>>
<1>1. Started("dedup", selection, asked \o second \o third)
  OBVIOUS
<1>2. /\ UNION pairs \subseteq People /\ People \subseteq Persons /\ UNION pairs \subseteq Nat
      /\ IsFiniteSet(UNION pairs) /\ \A p \in UNION pairs : works[p] \in Nat
  <2>1. UNION pairs \subseteq Persons /\ People \subseteq Persons
    BY RowsThere
  <2> QED BY <2>1, ResearchersAssumption, FS_Subset
<1>3. /\ \A g \in groups : g \subseteq UNION pairs /\ g # {} /\ IsFiniteSet(g)
      /\ \A g, h \in groups : \A p \in g : p \in h => g = h
  <2>1. Apart(groups, pairs, ident, {})
    BY <1>2, AcceptedParts
  <2> QED BY <2>1 DEF Apart
<1>4. table \in PersonRows /\ PersonsFollow(rows.persons, table)
  <2>1. \A g \in groups : g \subseteq People /\ g # {} /\ IsFiniteSet(g)
    BY <1>2, <1>3
  <2> HIDE DEF groups
  <2> QED BY <1>3, <2>1, StaffFolds
<1>5. left \in SUBSET QuestionSet
  <2> SUFFICES ASSUME NEW g \in HeldGroups(pairs, ident, {}, works, orcid) PROVE Question("group", g) \in QuestionSet
    OBVIOUS
  <2>1. g \subseteq UNION pairs
    BY <1>2, HeldAmongPairs, Zenon
  <2>2. g \in SUBSET Anybody
    BY <1>2, <2>1 DEF Anybody
  <2> QED BY <2>2 DEF Question, QuestionSet, Kinds
<1> HIDE DEF left, table, groups
<1>6. /\ second \in Seq(Entries) /\ Lined(second)
      /\ \A i \in DOMAIN second : Suits(second[i], "dedup") /\ second[i].collection = "persons"
  <2>1. PICK w : w = Write("persons", table)
    OBVIOUS
  <2>2. w \in Entries /\ Suits(w, "dedup") /\ w.collection = "persons"
    BY <1>4, <2>1, FoldedSuits, Zenon
  <2>3. second = <<>> \/ second = <<w>>
    BY <2>1
  <2> HIDE DEF second
  <2> QED BY <2>2, <2>3, NoWrite, OneWrite
<1>7. /\ third \in Seq(Entries) /\ Lined(third)
      /\ \A i \in DOMAIN third : Suits(third[i], "dedup") /\ third[i].collection = "held"
  <2>1. PICK w : w = [collection |-> "held", questions |-> left]
    OBVIOUS
  <2>2. w \in Entries /\ Suits(w, "dedup") /\ w.collection = "held"
    <3>1. "dedup" # "persons"
      OBVIOUS
    <3> QED BY <1>5, <2>1, <3>1, HeldSuits, Zenon
  <2>3. third = <<>> \/ third = <<w>>
    BY <2>1
  <2> HIDE DEF third
  <2> QED BY <2>2, <2>3, NoWrite, OneWrite
<1> HIDE DEF second, third
<1>8. "persons" \in Later("held") /\ "held" \in Later("held") /\ "held" \in Later("persons")
  BY DEF Later, Asking
<1> DEFINE first == asked \o second
<1>9. /\ first \in Seq(Entries) /\ Lined(first)
      /\ \A i \in DOMAIN first : Suits(first[i], "dedup") /\ first[i].collection \in {"held", "persons"}
  <2>1. Lined(first)
    BY <1>6, <1>8, LinesJoin
  <2>2. first \in Seq(Entries) /\ Joins(first, asked, second)
    BY <1>6, JoinedLine, Zenon
  <2> HIDE DEF first
  <2>3. \A i \in DOMAIN first : Suits(first[i], "dedup") /\ first[i].collection \in {"held", "persons"}
    BY <1>6, <2>2 DEF Joins
  <2> QED BY <2>1, <2>2, <2>3
<1>10. PICK writes : writes = first \o third
  OBVIOUS
<1>11. Started("dedup", selection, writes)
  BY <1>1, <1>10
<1> HIDE DEF first
<1>12. /\ writes \in Seq(Entries) /\ Lined(writes)
       /\ \A i \in DOMAIN writes : Suits(writes[i], "dedup")
  <2>1. Lined(first \o third)
    BY <1>7, <1>8, <1>9, LinesJoin
  <2>2. first \o third \in Seq(Entries) /\ Joins(first \o third, first, third)
    BY <1>7, <1>9, JoinedLine, Zenon
  <2>3. \A i \in DOMAIN (first \o third) : Suits((first \o third)[i], "dedup")
    BY <1>7, <1>9, <2>2 DEF Joins
  <2> QED BY <1>10, <2>1, <2>2, <2>3
<1>13. ReviewTypeOK' /\ walk' \in Walks
  BY StoreStays
<1>14. "dedup" # "idle"
  OBVIOUS
<1>15. Begins("dedup") /\ job'.todo = writes
  BY <1>11, <1>12, <1>13, <1>14, StageBegins, Zenon
<1> QED BY <1>15

LEMMA StaffBegins ==
    ASSUME RowsInv, NEW selection, StaffDedup(selection)
    PROVE  Begins("dedup")
<1> DEFINE works == [p \in Persons |-> IF p \in People THEN Cardinality(Wrote(rows.persons[p])) ELSE 0]
           orcid == [p \in Persons |-> IF p \in People THEN rows.persons[p].orcid ELSE NoValue]
           Runs(staff, asked) ==
               LET pairs == PairsToFold(staff, selection)
                   ident == <<TrustedOrcids, staff>>
                   groups == Accepted(pairs, ident, {})
                   left == {Question("group", g) : g \in HeldGroups(pairs, ident, {}, works, orcid)}
               IN Started("dedup", selection,
                   asked \o (IF groups = {} THEN <<>> ELSE <<Write("persons", Folded(groups, works, orcid))>>)
                         \o (IF left = {} THEN <<>> ELSE <<[collection |-> "held", questions |-> left]>>))
<1>1. /\ MayStart("dedup") /\ rows' = rows /\ review' = review /\ walk' = walk
      /\ \/ Runs([p \in Persons |-> NoValue], <<>>)
         \/ \E chosen \in ChoiceReadings :
               Runs(StaffIdentities(chosen), <<[collection |-> "held", questions |-> StaffQuestions(chosen)]>>)
  BY Zenon DEF StaffDedup
<1>2. \A p \in Persons : works[p] \in Nat
  <2> SUFFICES ASSUME NEW p \in People PROVE Cardinality(Wrote(rows.persons[p])) \in Nat
    OBVIOUS
  <2>1. Wrote(rows.persons[p]) \subseteq Pubs
    BY RowsThere DEF PersonRow, Wrote, Authorships
  <2> QED BY <2>1, ResearchersAssumption, FS_Subset, FS_CardinalityType
<1> HIDE DEF works, orcid
<1>3. ASSUME NEW staff, NEW asked \in Seq(Entries), Lined(asked),
             \A i \in DOMAIN asked : Suits(asked[i], "dedup") /\ asked[i].collection = "held",
             Runs(staff, asked)
      PROVE  Begins("dedup")
  <2> DEFINE pairs == PairsToFold(staff, selection)
             ident == <<TrustedOrcids, staff>>
  <2>1. pairs \in SUBSET SUBSET People
    BY DEF PairsToFold
  <2>2. DOMAIN ident \subseteq Nat
    OBVIOUS
  <2>3. LET groups == Accepted(pairs, ident, {})
            left == {Question("group", g) : g \in HeldGroups(pairs, ident, {}, works, orcid)}
        IN Started("dedup", selection,
                asked \o (IF groups = {} THEN <<>> ELSE <<Write("persons", Folded(groups, works, orcid))>>)
                      \o (IF left = {} THEN <<>> ELSE <<[collection |-> "held", questions |-> left]>>))
    BY <1>3
  <2> HIDE DEF pairs, ident
  <2> QED BY <1>1, <1>2, <1>3, <2>1, <2>2, <2>3, StaffRuns, Zenon
<1> HIDE DEF Runs
<1>4. CASE Runs([p \in Persons |-> NoValue], <<>>)
  <2>1. <<>> \in Seq(Entries) /\ Lined(<<>>)
        /\ \A i \in DOMAIN <<>> : Suits(<<>>[i], "dedup") /\ <<>>[i].collection = "held"
    BY NoWrite
  <2> QED BY <1>3, <1>4, <2>1, Zenon
<1>5. ASSUME NEW chosen \in ChoiceReadings,
             Runs(StaffIdentities(chosen), <<[collection |-> "held", questions |-> StaffQuestions(chosen)]>>)
      PROVE  Begins("dedup")
  <2> DEFINE questions == StaffQuestions(chosen)
  <2>1. questions \in SUBSET QuestionSet
    <3> SUFFICES ASSUME NEW p \in People PROVE Question("staff", {p} \cup Namesakes(Called(p))) \in QuestionSet
      BY DEF StaffQuestions
    <3>1. Namesakes(Called(p)) \subseteq {row.id : row \in Catalog}
      BY DEF Namesakes, Fitting
    <3>2. {p} \cup Namesakes(Called(p)) \in SUBSET Anybody
      BY <3>1, RowsThere DEF Anybody
    <3> QED BY <3>2 DEF Question, QuestionSet, Kinds
  <2>2. PICK only : only = [collection |-> "held", questions |-> questions]
    OBVIOUS
  <2>3. only \in Entries /\ Suits(only, "dedup") /\ only.collection = "held"
    <3>1. "dedup" # "persons"
      OBVIOUS
    <3> QED BY <2>1, <2>2, <3>1, HeldSuits, Zenon
  <2>4. <<only>> \in Seq(Entries) /\ DOMAIN <<only>> = {1} /\ <<only>>[1] = only /\ Lined(<<only>>)
    BY <2>3, OneWrite
  <2>5. \A i \in DOMAIN <<only>> : Suits(<<only>>[i], "dedup") /\ <<only>>[i].collection = "held"
    BY <2>3, <2>4
  <2>6. Runs(StaffIdentities(chosen), <<only>>)
    BY <1>5, <2>2
  <2> QED BY <1>3, <2>4, <2>5, <2>6, Zenon
<1> QED BY <1>1, <1>4, <1>5

-----------------------------------------------------------------------------
(* What every step keeps. *)

AllInv == RowsInv /\ AskInv /\ LeadInv
Follows ==
    /\ PersonsFollow(rows.persons, rows'.persons)
    /\ ProfilesFollow(rows.profiles, rows'.profiles)
Stays_ == AllInv' /\ Follows

LEMMA FollowsItself ==
    ASSUME RowsInv
    PROVE  /\ PersonsFollow(rows.persons, rows.persons)
           /\ ProfilesFollow(rows.profiles, rows.profiles)
<1>1. FoldedOnce(rows.persons)
  BY DEF RowsInv
<1>2. \A row : Keeps(row, row, TRUE) /\ \A a : Signed(a, row, row) /\ SaysOfItself(a, row, row)
  BY DEF Keeps, Signed, SaysOfItself
<1> QED BY <1>1, <1>2 DEF PersonsFollow, ProfilesFollow, Present

\* Where nobody is asked, nothing is promised.
LEMMA NobodyAsked ==
    ASSUME RowsInv', job'.last # "persons", job'.stage # "persons"
    PROVE  AskInv'
<1>1. \A i \in DOMAIN job'.todo : Suits(job.todo[i], job.stage)'
  BY DEF RowsInv
<1>2. ASSUME NEW i \in DOMAIN job'.todo PROVE job'.todo[i].collection \notin {"openalex", "crossref"}
  <2>1. Suits(job.todo[i], job.stage)'
    BY <1>1
  <2> QED BY <2>1 DEF Suits, Asking
<1> QED BY <1>2 DEF AskInv

\* nothing is promised of profiles either, but where contributors are collected
LEMMA NobodyCollected ==
    ASSUME job'.stage # "repo_people", ~job'.torn => Leads(rows'.repositories, rows'.profiles)
    PROVE  LeadInv'
BY DEF LeadInv

LEMMA NothingMoves ==
    ASSUME AllInv, RowsInv', rows' = rows, job' = job
    PROVE  Stays_
<1>1. AskInv' /\ LeadInv'
  BY DEF AllInv, AskInv, LeadInv, WillAsk, People, Works, Present, Leads, Wrote
<1>2. Follows
  BY FollowsItself DEF AllInv, Follows
<1> QED BY <1>1, <1>2 DEF Stays_, AllInv

LEMMA BegunStays ==
    ASSUME AllInv, NEW stage, stage # "persons", stage # "repo_people", Begins(stage)
    PROVE  Stays_
<1>1. /\ RowsInv' /\ rows' = rows /\ job.stage = "idle" /\ job'.torn = job.torn
      /\ job'.last # "persons" /\ job'.stage # "persons" /\ job'.stage # "repo_people"
  BY DEF Begins
<1>2. ~job.torn => Leads(rows.repositories, rows.profiles)
  BY <1>1 DEF AllInv, LeadInv
<1>3. AskInv' /\ LeadInv'
  BY <1>1, <1>2, NobodyAsked, NobodyCollected
<1>4. Follows
  BY <1>1, FollowsItself DEF AllInv, Follows
<1> QED BY <1>1, <1>3, <1>4 DEF Stays_, AllInv

LEMMA CollectingStays ==
    ASSUME AllInv, NEW force \in BOOLEAN, NEW selection, PeopleStart(force, selection),
           review' = review, walk' = walk
    PROVE  Stays_
<1>1. /\ RowsInv' /\ rows' = rows /\ job.stage = "idle" /\ job'.torn = job.torn /\ ~job'.begun
      /\ job'.last # "persons" /\ job'.stage # "persons"
  BY PeopleBegin DEF AllInv, Begins
<1>2. PICK end : /\ Stands(end)
                 /\ job'.todo = <<Write("repositories", end.repositories), Write("profiles", end.profiles)>>
  BY PeopleBegin DEF AllInv
<1>3. ~job.torn => Leads(rows.repositories, rows.profiles)
  BY <1>1 DEF AllInv, LeadInv
<1>4. ~job.torn => Leads(end.repositories, end.profiles)
  BY <1>2, <1>3 DEF Stands
<1>5. /\ Len(job'.todo) = 2
      /\ job'.todo[1].collection = "repositories" /\ job'.todo[2].collection = "profiles"
      /\ job'.todo[1].table = end.repositories /\ job'.todo[2].table = end.profiles
  BY <1>2 DEF Write
<1>6. LeadInv'
  BY <1>1, <1>3, <1>4, <1>5 DEF LeadInv
<1>7. AskInv'
  BY <1>1, NobodyAsked
<1>8. Follows
  BY <1>1, FollowsItself DEF AllInv, Follows
<1> QED BY <1>1, <1>6, <1>7, <1>8 DEF Stays_, AllInv

LEMMA GoingStays ==
    ASSUME AllInv, Goes
    PROVE  Stays_
<1>1. /\ RowsInv' /\ rows' = rows /\ job.stage \notin {"idle", "persons"}
      /\ job'.torn = job.torn /\ job'.last = job.last /\ job'.stage \in {"idle", job.stage}
      /\ job.todo[1].collection \notin {"repositories", "profiles"}
  BY DEF Goes
<1>2. job.last # "persons"
  BY <1>1 DEF AllInv, AskInv
<1>3. ~job.torn => job.stage # "repo_people" /\ Leads(rows.repositories, rows.profiles)
  BY <1>1 DEF AllInv, LeadInv
<1>4. AskInv'
  BY <1>1, <1>2, NobodyAsked
<1>5. LeadInv'
  BY <1>1, <1>3 DEF LeadInv
<1>6. Follows
  BY <1>1, FollowsItself DEF AllInv, Follows
<1> QED BY <1>1, <1>4, <1>5, <1>6 DEF Stays_, AllInv

LEMMA DyingStays ==
    ASSUME AllInv, Die, ReviewTypeOK', walk' \in Walks
    PROVE  Stays_
<1>1. /\ RowsInv' /\ job'.stage = "idle" /\ job'.last = "none" /\ rows' = rows
      /\ (job'.torn <=> job.torn \/ job.begun)
  BY DieKeeps DEF AllInv
<1>2. ~job'.torn => Leads(rows.repositories, rows.profiles)
  BY <1>1 DEF AllInv, LeadInv
<1>3. AskInv' /\ LeadInv'
  BY <1>1, <1>2, NobodyAsked, NobodyCollected
<1>4. Follows
  BY <1>1, FollowsItself DEF AllInv, Follows
<1> QED BY <1>1, <1>3, <1>4 DEF Stays_, AllInv

LEMMA WritingStays ==
    ASSUME AllInv, RowsNext, review' = review, walk' = walk
    PROVE  Stays_
<1>1. JobTyped /\ RowsTyped /\ ReviewTypeOK' /\ walk' \in Walks
  BY StoreStays DEF AllInv, RowsInv, GroupTyped
<1>2. /\ job.stage # "idle" /\ job.todo \in Seq(Entries) /\ job.todo # <<>>
      /\ job'.todo = Tail(job.todo) /\ job'.torn = job.torn /\ job'.last = job.last
      /\ job'.stage = (IF job'.todo = <<>> THEN "idle" ELSE job.stage)
      /\ job'.begun = (job'.todo # <<>>)
      /\ Head(job.todo) \in WriteSet
      /\ rows' = [rows EXCEPT ![Head(job.todo).collection] = Head(job.todo).table]
  BY <1>1, WriteJob
<1>3. /\ RowsInv'
      /\ rows.persons = rows'.persons \/ PersonsFollow(rows.persons, rows'.persons)
      /\ rows.profiles = rows'.profiles \/ ProfilesFollow(rows.profiles, rows'.profiles)
  BY <1>1, WriteKeeps DEF AllInv
<1>4. Follows
  BY <1>3, FollowsItself DEF AllInv, Follows
<1> DEFINE next == Head(job.todo)
<1>5. /\ next = job.todo[1] /\ 1 \in DOMAIN job.todo /\ Len(job.todo) \in Nat
      /\ Len(job.todo) = 1 <=> job'.todo = <<>>
      /\ Len(job'.todo) = Len(job.todo) - 1
      /\ \A i \in 1 .. Len(job.todo) - 1 : job'.todo[i] = job.todo[i + 1]
  <2> DEFINE s == job.todo
  <2>1. s \in Seq(Entries) /\ s # <<>> /\ job'.todo = Tail(s)
    BY <1>2
  <2> HIDE DEF s
  <2>2. /\ Head(s) = s[1] /\ Len(s) \in Nat /\ Len(s) >= 1 /\ DOMAIN s = 1 .. Len(s)
        /\ Len(Tail(s)) = Len(s) - 1
        /\ \A i \in 1 .. Len(s) - 1 : Tail(s)[i] = s[i + 1]
        /\ Len(s) = 1 <=> Tail(s) = <<>>
    BY <2>1, RestOfLine
  <2>3. 1 \in DOMAIN s
    BY <2>2
  <2> QED BY <2>1, <2>2, <2>3 DEF s
<1>6. Suits(next, job.stage)
  BY <1>5 DEF AllInv, RowsInv
<1> HIDE DEF next
<1>7. next.collection \in {"publications", "persons", "profiles", "repositories"}
  BY <1>2 DEF next, WriteSet
<1>8. job.stage # "persons" /\ (next.collection = "repositories" => job.stage = "repo_people")
  BY <1>6, <1>7 DEF Suits, Asking
<1>9. job.last # "persons"
  BY <1>2, <1>8 DEF AllInv, AskInv
<1>10. AskInv'
  BY <1>2, <1>3, <1>8, <1>9, NobodyAsked
<1>11. /\ rows.profiles \in ProfileRows /\ rows'.profiles \in ProfileRows /\ rows \in [Tables -> {rows[c] : c \in Tables}]
       /\ rows' = [rows EXCEPT ![next.collection] = next.table]
  BY <1>1, <1>2, <1>3 DEF RowsInv, GroupTyped, RowsTyped, Tables, next
<1>12. /\ next.collection # "repositories" => rows'.repositories = rows.repositories
       /\ next.collection # "profiles" => rows'.profiles = rows.profiles
       /\ next.collection = "repositories" => rows'.repositories = next.table
       /\ next.collection = "profiles" => rows'.profiles = next.table
  BY <1>7, <1>11 DEF Tables
<1>13. LeadInv'
  <2> SUFFICES ASSUME ~job.torn PROVE LeadInv'
    BY <1>2 DEF LeadInv
  <2>1. CASE job.stage # "repo_people"
    <3>1. Leads(rows.repositories, rows.profiles) /\ rows'.repositories = rows.repositories
      BY <1>8, <1>12, <2>1 DEF AllInv, LeadInv
    <3>2. Leads(rows'.repositories, rows'.profiles)
      BY <1>4, <1>11, <3>1, LeadsOn DEF Follows
    <3> QED BY <1>2, <2>1, <3>2, NobodyCollected
  <2>2. CASE job.stage = "repo_people" /\ job.begun
    <3>1. /\ Len(job.todo) = 1 /\ next.collection = "profiles" /\ Leads(rows.repositories, next.table)
      BY <1>5, <2>2 DEF AllInv, LeadInv
    <3>2. Leads(rows'.repositories, rows'.profiles) /\ job'.stage = "idle"
      BY <1>2, <1>5, <1>12, <3>1
    <3> QED BY <3>2, NobodyCollected
  <2>3. CASE job.stage = "repo_people" /\ ~job.begun
    <3>1. /\ Len(job.todo) = 2 /\ next.collection = "repositories" /\ job.todo[2].collection = "profiles"
          /\ Leads(next.table, job.todo[2].table)
      BY <1>5, <2>3 DEF AllInv, LeadInv
    <3>2. job'.todo[1] = job.todo[2] /\ job'.todo # <<>> /\ Len(job'.todo) = 1
      BY <1>5, <3>1
    <3>3. /\ job'.stage = "repo_people" /\ job'.begun /\ job'.todo[1].collection = "profiles"
          /\ Leads(rows'.repositories, job'.todo[1].table)
      BY <1>2, <1>12, <2>3, <3>1, <3>2
    <3> QED BY <3>2, <3>3 DEF LeadInv
  <2> QED BY <2>1, <2>2, <2>3
<1> QED BY <1>3, <1>4, <1>10, <1>13 DEF Stays_, AllInv

\* The authors who were there are asked about by whatever the rows hold.
LEMMA PersonsStay ==
    ASSUME AllInv, NEW force \in BOOLEAN, NEW selection, PersonsStart(force, selection),
           review' = review, walk' = walk
    PROVE  Stays_
<1>1. /\ RowsInv' /\ rows' = rows
      /\ job'.last = (IF selection = All THEN "persons" ELSE "none")
      /\ job'.stage \in {"persons", "idle"} /\ ~job'.begun /\ job'.torn = job.torn
      /\ job.stage = "idle"
  BY PersonsStartPlan, StoreStays DEF AllInv
<1>2. /\ \A a \in Eligible(selection) :
            \E i, j \in DOMAIN job'.todo :
                /\ i < j /\ job'.todo[i].collection = "openalex" /\ job'.todo[i].of = a
                /\ job'.todo[j].collection = "orcid" /\ job'.todo[j].of = a
      /\ \A p \in Works : (\E a \in Eligible(selection) : p \in Wrote(rows.persons[a])) =>
            \E i \in DOMAIN job'.todo : job'.todo[i].collection = "crossref" /\ job'.todo[i].of = p
      /\ \A i \in DOMAIN job'.todo :
            /\ job'.todo[i].collection = "openalex" =>
                  \E j \in DOMAIN job'.todo : /\ i < j /\ job'.todo[j].collection = "orcid"
                                              /\ job'.todo[j].of = job'.todo[i].of
            /\ job'.todo[i].collection = "crossref" => \A a \in job'.todo[i].among :
                  \E j \in DOMAIN job'.todo : i < j /\ job'.todo[j].collection = "orcid" /\ job'.todo[j].of = a
  BY PersonsStartPlan DEF AllInv
<1>3. People' = People /\ Works' = Works
  BY <1>1 DEF People, Works
<1>4. ASSUME selection = All
      PROVE  /\ \A a \in People' : WillAsk("orcid", a)' /\ WillAsk("openalex", a)'
             /\ \A p \in Works' : (\E a \in People' : p \in Wrote(rows'.persons[a])) => WillAsk("crossref", p)'
  <2>1. Eligible(selection) = People
    BY <1>4 DEF Eligible
  <2> QED BY <1>1, <1>2, <1>3, <2>1 DEF WillAsk
<1>5. AskInv'
  BY <1>1, <1>2, <1>4 DEF AskInv
<1>6. LeadInv'
  <2>1. ~job.torn => Leads(rows.repositories, rows.profiles)
    BY <1>1 DEF AllInv, LeadInv
  <2> QED BY <1>1, <2>1, NobodyCollected
<1>7. Follows
  BY <1>1, FollowsItself DEF AllInv, Follows
<1> QED BY <1>1, <1>5, <1>6, <1>7 DEF Stays_, AllInv

\* A question is asked: what it does not concern has the same before it.
AskedOff ==
    /\ job.todo \in Seq(Entries) /\ job'.todo = Tail(job.todo) /\ job'.torn = job.torn /\ job'.last = job.last
    /\ job.stage = "persons" /\ job'.stage \in {"idle", "persons"}
    /\ \A source, of : WillAsk(source, of) =>
          WillAsk(source, of)' \/ (job.todo[1].collection = source /\ job.todo[1].of = of)
    /\ \A of : (\E j \in DOMAIN job.todo : 1 < j /\ job.todo[j].collection = "orcid" /\ job.todo[j].of = of) =>
          WillAsk("orcid", of)'
    /\ \A i \in DOMAIN job'.todo :
          /\ job'.todo[i].collection = "openalex" =>
                \E j \in DOMAIN job'.todo : /\ i < j /\ job'.todo[j].collection = "orcid"
                                            /\ job'.todo[j].of = job'.todo[i].of
          /\ job'.todo[i].collection = "crossref" => \A a \in job'.todo[i].among :
                \E j \in DOMAIN job'.todo : i < j /\ job'.todo[j].collection = "orcid" /\ job'.todo[j].of = a
LEMMA OffAsks ==
    ASSUME AllInv, NEW source \in Asking, Doing(source), Onward(<<>>)
    PROVE  AskedOff
<1>1. JobTyped /\ job.stage = "persons" /\ 1 \in DOMAIN job.todo
  BY AskAtHand DEF AllInv, RowsInv, GroupTyped
<1>2. job.todo \in Seq(Entries) /\ job.todo # <<>>
  BY <1>1 DEF JobTyped
<1> DEFINE rest == Tail(job.todo)
<1>3. /\ rest \in Seq(Entries) /\ Len(job.todo) \in Nat /\ DOMAIN job.todo = 1 .. Len(job.todo)
      /\ DOMAIN rest = 1 .. Len(job.todo) - 1
      /\ \A i \in 1 .. Len(job.todo) - 1 : i + 1 \in 1 .. Len(job.todo) /\ rest[i] = job.todo[i + 1]
  BY <1>2, RestOfLine
<1>4. /\ job'.todo = rest /\ job'.torn = job.torn /\ job'.last = job.last
      /\ job'.stage \in {"idle", "persons"}
  <2>1. <<>> \in Seq(Entries) /\ job.stage # "idle"
    BY <1>1
  <2>2. <<>> \o rest = rest
    <3> HIDE DEF rest
    <3> QED BY <1>3
  <2> QED BY <1>1, <2>1, <2>2, OnwardJob
<1> HIDE DEF rest
<1>5. \A i \in DOMAIN job.todo : i # 1 => i - 1 \in DOMAIN rest /\ rest[i - 1] = job.todo[i]
  BY <1>3
<1>6. ASSUME NEW s, NEW of, WillAsk(s, of)
      PROVE  WillAsk(s, of)' \/ (job.todo[1].collection = s /\ job.todo[1].of = of)
  <2>1. PICK i \in DOMAIN job.todo : job.todo[i].collection = s /\ job.todo[i].of = of
    BY <1>6 DEF WillAsk
  <2>2. CASE i # 1
    <3>1. i - 1 \in DOMAIN job'.todo /\ job'.todo[i - 1] = job.todo[i]
      BY <1>4, <1>5, <2>2
    <3> QED BY <2>1, <3>1 DEF WillAsk
  <2> QED BY <2>1, <2>2
<1>7. ASSUME NEW of, NEW j \in DOMAIN job.todo, 1 < j, job.todo[j].collection = "orcid", job.todo[j].of = of
      PROVE  WillAsk("orcid", of)'
  <2>1. j - 1 \in DOMAIN job'.todo /\ job'.todo[j - 1] = job.todo[j]
    BY <1>4, <1>5, <1>7
  <2> QED BY <1>7, <2>1 DEF WillAsk
<1>8. ASSUME NEW i \in DOMAIN rest, NEW of,
             \E j \in DOMAIN job.todo : i + 1 < j /\ job.todo[j].collection = "orcid" /\ job.todo[j].of = of
      PROVE  \E j \in DOMAIN rest : i < j /\ rest[j].collection = "orcid" /\ rest[j].of = of
  <2>1. PICK j \in DOMAIN job.todo : i + 1 < j /\ job.todo[j].collection = "orcid" /\ job.todo[j].of = of
    BY <1>8
  <2>2. j # 1 /\ i < j - 1
    BY <1>3, <2>1
  <2>3. j - 1 \in DOMAIN rest /\ rest[j - 1] = job.todo[j]
    BY <1>5, <2>2
  <2> QED BY <2>1, <2>2, <2>3
<1>9. ASSUME NEW i \in DOMAIN rest
      PROVE  /\ rest[i].collection = "openalex" =>
                   \E j \in DOMAIN rest : i < j /\ rest[j].collection = "orcid" /\ rest[j].of = rest[i].of
             /\ rest[i].collection = "crossref" => \A a \in rest[i].among :
                   \E j \in DOMAIN rest : i < j /\ rest[j].collection = "orcid" /\ rest[j].of = a
  <2>1. i + 1 \in DOMAIN job.todo /\ rest[i] = job.todo[i + 1]
    BY <1>3
  <2>2. /\ job.todo[i + 1].collection = "openalex" =>
              \E j \in DOMAIN job.todo : /\ i + 1 < j /\ job.todo[j].collection = "orcid"
                                         /\ job.todo[j].of = job.todo[i + 1].of
        /\ job.todo[i + 1].collection = "crossref" => \A a \in job.todo[i + 1].among :
              \E j \in DOMAIN job.todo : i + 1 < j /\ job.todo[j].collection = "orcid" /\ job.todo[j].of = a
    BY <2>1 DEF AllInv, AskInv
  <2>3. ASSUME rest[i].collection = "openalex"
        PROVE  \E j \in DOMAIN rest : i < j /\ rest[j].collection = "orcid" /\ rest[j].of = rest[i].of
    <3>1. PICK of : of = rest[i].of
      OBVIOUS
    <3>2. \E j \in DOMAIN job.todo : i + 1 < j /\ job.todo[j].collection = "orcid" /\ job.todo[j].of = of
      BY <2>1, <2>2, <2>3, <3>1
    <3>3. \E j \in DOMAIN rest : i < j /\ rest[j].collection = "orcid" /\ rest[j].of = of
      BY <1>8, <3>2
    <3> QED BY <3>1, <3>3
  <2>4. ASSUME rest[i].collection = "crossref", NEW a \in rest[i].among
        PROVE  \E j \in DOMAIN rest : i < j /\ rest[j].collection = "orcid" /\ rest[j].of = a
    <3>1. \E j \in DOMAIN job.todo : i + 1 < j /\ job.todo[j].collection = "orcid" /\ job.todo[j].of = a
      BY <2>1, <2>2, <2>4
    <3> QED BY <1>8, <3>1
  <2> QED BY <2>3, <2>4
<1> QED BY <1>1, <1>2, <1>4, <1>6, <1>7, <1>9 DEF AskedOff, rest

LEMMA CrossrefStays ==
    ASSUME AllInv, AskCrossref, review' = review, walk' = walk
    PROVE  Stays_
<1>1. "crossref" \in Asking /\ Doing("crossref") /\ Onward(<<>>)
  <2>1. "crossref" \in Asking
    BY DEF Asking
  <2>2. Doing("crossref") /\ Onward(<<>>)
    BY Zenon DEF AskCrossref
  <2> QED BY <2>1, <2>2
<1>2. AskedOff
  BY <1>1, OffAsks
<1>3. /\ Head(job.todo) = job.todo[1] /\ 1 \in DOMAIN job.todo
      /\ Head(job.todo).collection = "crossref"
  BY <1>1, AskAtHand DEF AllInv
<1> DEFINE ask == job.todo[1]
<1>4. /\ AskedRows
      /\ \A a \in People : /\ rows'.persons[a].orcids = rows.persons[a].orcids
                           /\ rows'.persons[a].openalex = rows.persons[a].openalex
                           /\ a \notin ask.among => rows'.persons[a].orcid = rows.persons[a].orcid
      /\ \A p \in Works : p # ask.of => rows'.publications[p] = rows.publications[p]
      /\ rows'.publications[ask.of].crossref.key = rows'.publications[ask.of].doi
  BY <1>3, AskCrossrefSays DEF AllInv
<1>5. RowsInv' /\ PersonsFollow(rows.persons, rows'.persons)
  BY <1>1, <1>4, AskKeeps DEF AllInv
<1>6. \A a \in ask.among : WillAsk("orcid", a)'
  <2>1. \A a \in ask.among : \E j \in DOMAIN job.todo : 1 < j /\ job.todo[j].collection = "orcid" /\ job.todo[j].of = a
    BY <1>3 DEF AllInv, AskInv
  <2> QED BY <1>2, <2>1 DEF AskedOff
<1> HIDE DEF ask
<1>7. \A s, of : WillAsk(s, of) => WillAsk(s, of)' \/ (s = "crossref" /\ of = ask.of)
  BY <1>2, <1>3 DEF AskedOff, ask
<1>8. /\ People' = People /\ Works' = Works
      /\ \A a \in People : Wrote(rows'.persons[a]) = Wrote(rows.persons[a])
  BY <1>4 DEF AskedRows
<1>9. ASSUME job.last = "persons", NEW a \in People
      PROVE  /\ rows'.persons[a].orcids.key = rows'.persons[a].orcid \/ WillAsk("orcid", a)'
             /\ rows'.persons[a].openalex.key = OpenAlexOf[a] \/ WillAsk("openalex", a)'
  <2>1. /\ rows.persons[a].orcids.key = rows.persons[a].orcid \/ WillAsk("orcid", a)
        /\ rows.persons[a].openalex.key = OpenAlexOf[a] \/ WillAsk("openalex", a)
    BY <1>9 DEF AllInv, AskInv
  <2>2. "orcid" # "crossref" /\ "openalex" # "crossref"
    OBVIOUS
  <2>3. WillAsk("orcid", a) => WillAsk("orcid", a)'
    BY <1>7, <2>2
  <2>4. WillAsk("openalex", a) => WillAsk("openalex", a)'
    BY <1>7, <2>2
  <2>5. rows'.persons[a].orcids.key = rows'.persons[a].orcid \/ WillAsk("orcid", a)'
    BY <1>4, <1>6, <1>9, <2>1, <2>3
  <2>6. rows'.persons[a].openalex.key = OpenAlexOf[a] \/ WillAsk("openalex", a)'
    BY <1>4, <1>9, <2>1, <2>4
  <2> QED BY <2>5, <2>6
<1>10. ASSUME job.last = "persons", NEW p \in Works, NEW a \in People, p \in Wrote(rows'.persons[a])
       PROVE  rows'.publications[p].crossref.key = rows'.publications[p].doi \/ WillAsk("crossref", p)'
  <2>1. rows.publications[p].crossref.key = rows.publications[p].doi \/ WillAsk("crossref", p)
    BY <1>8, <1>10 DEF AllInv, AskInv
  <2>2. CASE p = ask.of
    BY <1>4, <2>2
  <2>3. CASE p # ask.of
    BY <1>4, <1>7, <2>1, <2>3
  <2> QED BY <2>2, <2>3
<1>11. AskInv'
  BY <1>2, <1>8, <1>9, <1>10 DEF AskInv, AskedOff
<1>12. rows'.profiles = rows.profiles /\ rows'.repositories = rows.repositories
  BY <1>4 DEF AskedRows
<1>13. LeadInv'
  <2>1. ~job.torn => Leads(rows.repositories, rows.profiles)
    BY <1>2 DEF AskedOff, AllInv, LeadInv
  <2> QED BY <1>2, <1>12, <2>1, NobodyCollected DEF AskedOff
<1>14. Follows
  BY <1>5, <1>12, FollowsItself DEF AllInv, Follows
<1> QED BY <1>5, <1>11, <1>13, <1>14 DEF Stays_, AllInv

\* A run that dies after the work is saved leaves its authors as they were.
LEMMA CrossrefDies ==
    ASSUME AllInv, DieInCrossref, review' = review, walk' = walk
    PROVE  Stays_
<1> DEFINE p == Head(job.todo).of
           work == rows.publications[p]
<1>1. p \in Works
  <2>1. "crossref" \in Asking /\ Doing("crossref")
    BY DEF DieInCrossref, Asking
  <2> QED BY <2>1, AskAtHand DEF AllInv
<1>2. /\ rows \in [publications : WorkRows, persons : PersonRows, profiles : ProfileRows, repositories : RepoRows]
      /\ JobTyped /\ ReviewTypeOK /\ walk \in Walks
  BY DEF AllInv, RowsInv, GroupTyped, RowsTyped
<1>3. PICK end \in CrossrefEnds(Head(job.todo)) :
          rows' = [rows EXCEPT !.publications[p].crossref = Source(end.state, work.doi)]
  BY DEF DieInCrossref
<1> DEFINE next == [work EXCEPT !.crossref = Source(end.state, work.doi)]
           works == [rows.publications EXCEPT ![p] = next]
<1>4. next \in WorkRow
  <2>1. work \in WorkRow /\ end.state \in SourceStates
    BY <1>1, RowsThere, CrossrefEndsAre DEF AllInv
  <2>2. Source(end.state, work.doi) \in [state : SourceStates, key : Dois \cup {Unknown}]
    BY <2>1 DEF Source, WorkRow
  <2>3. PICK w, source : w = work /\ source = Source(end.state, work.doi)
    OBVIOUS
  <2>4. next = [w EXCEPT !.crossref = source]
    BY <2>3
  <2> HIDE DEF next
  <2> QED BY <2>1, <2>2, <2>3, <2>4 DEF WorkRow
<1>5. works \in WorkRows
  <2> HIDE DEF next
  <2> QED BY <1>2, <1>4 DEF WorkRows
<1>6. /\ rows'.publications = works /\ rows'.persons = rows.persons
      /\ rows'.profiles = rows.profiles /\ rows'.repositories = rows.repositories
  <2>1. rows' = [rows EXCEPT !.publications = [rows.publications EXCEPT ![p] = next]]
    BY <1>3
  <2> HIDE DEF next
  <2> QED BY <1>2, <2>1
<1>7. rows' \in [publications : WorkRows, persons : PersonRows, profiles : ProfileRows, repositories : RepoRows]
  <2>1. rows' = [rows EXCEPT !.publications = works]
    BY <1>3
  <2> HIDE DEF works
  <2> QED BY <1>2, <1>5, <2>1
<1> HIDE DEF works, next, work, p
<1>8. /\ job'.stage = "idle" /\ job'.todo = <<>> /\ job'.last = "none" /\ job'.torn = TRUE
      /\ JobTyped'
  <2>1. job' = [stage |-> "idle", todo |-> <<>>, runs |-> job.runs, begun |-> FALSE,
                last |-> "none", torn |-> TRUE]
    BY DEF DieInCrossref, Idle
  <2>2. <<>> \in Seq(Entries)
    OBVIOUS
  <2> QED BY <1>2, <2>1, <2>2 DEF JobTyped
<1>9. RowsInv'
  <2>1. FoldedOnce(rows.persons)'
    BY <1>6 DEF AllInv, RowsInv, FoldedOnce, Present
  <2>2. ReviewTypeOK' /\ walk' \in Walks
    BY <1>2 DEF ReviewTypeOK
  <2>3. DOMAIN job'.todo = {}
    BY <1>8
  <2> QED BY <1>7, <1>8, <2>1, <2>2, <2>3 DEF RowsInv, GroupTyped, RowsTyped, Lined
<1>10. AskInv' /\ LeadInv'
  <2>1. job'.last # "persons" /\ job'.stage # "persons"
    BY <1>8
  <2> QED BY <1>8, <1>9, <2>1, NobodyAsked DEF LeadInv
<1>11. Follows
  BY <1>6, FollowsItself DEF AllInv, Follows
<1> QED BY <1>9, <1>10, <1>11 DEF Stays_, AllInv

LEMMA AboutStays ==
    ASSUME AllInv, NEW source \in PersonSources, AskAbout(source), review' = review, walk' = walk
    PROVE  Stays_
<1>1. source \in Asking /\ Doing(source) /\ Onward(<<>>) /\ source \in {"openalex", "orcid"}
  <2>1. source \in Asking /\ source \in {"openalex", "orcid"}
    BY DEF Asking, PersonSources
  <2>2. Doing(source) /\ Onward(<<>>)
    BY Zenon DEF AskAbout
  <2> QED BY <2>1, <2>2
<1>2. AskedOff
  BY <1>1, OffAsks
<1>3. /\ Head(job.todo) = job.todo[1] /\ 1 \in DOMAIN job.todo
      /\ Head(job.todo).collection = source
  BY <1>1, AskAtHand DEF AllInv
<1> DEFINE ask == job.todo[1]
<1>4. /\ AskedRows
      /\ rows'.publications = rows.publications
      /\ \A a \in People : a # ask.of => rows'.persons[a] = rows.persons[a]
      /\ source = "openalex" =>
            /\ rows'.persons[ask.of].openalex.key = OpenAlexOf[ask.of]
            /\ rows'.persons[ask.of].orcids = rows.persons[ask.of].orcids
      /\ source = "orcid" =>
            /\ rows'.persons[ask.of].orcids.key = rows'.persons[ask.of].orcid
            /\ rows'.persons[ask.of].openalex = rows.persons[ask.of].openalex
  BY <1>3, AskAboutSays DEF AllInv
<1>5. RowsInv' /\ PersonsFollow(rows.persons, rows'.persons)
  BY <1>1, <1>4, AskKeeps DEF AllInv
<1>6. ASSUME NEW a, a = ask.of, source = "openalex" PROVE WillAsk("orcid", a)'
  <2>1. \E j \in DOMAIN job.todo : 1 < j /\ job.todo[j].collection = "orcid" /\ job.todo[j].of = a
    BY <1>3, <1>6 DEF AllInv, AskInv
  <2> QED BY <1>2, <2>1 DEF AskedOff
<1>7. \A s, of : WillAsk(s, of) => WillAsk(s, of)' \/ (s = source /\ of = ask.of)
  BY <1>2, <1>3 DEF AskedOff
<1> HIDE DEF ask
<1>8. /\ People' = People /\ Works' = Works
      /\ \A a \in People : Wrote(rows'.persons[a]) = Wrote(rows.persons[a])
  BY <1>4 DEF AskedRows
<1>9. ASSUME job.last = "persons", NEW a \in People
      PROVE  /\ rows'.persons[a].orcids.key = rows'.persons[a].orcid \/ WillAsk("orcid", a)'
             /\ rows'.persons[a].openalex.key = OpenAlexOf[a] \/ WillAsk("openalex", a)'
  <2>1. /\ rows.persons[a].orcids.key = rows.persons[a].orcid \/ WillAsk("orcid", a)
        /\ rows.persons[a].openalex.key = OpenAlexOf[a] \/ WillAsk("openalex", a)
    BY <1>9 DEF AllInv, AskInv
  <2>2. CASE a # ask.of
    BY <1>4, <1>7, <2>1, <2>2
  <2>3. CASE a = ask.of /\ source = "openalex"
    BY <1>4, <1>6, <2>3
  <2>4. CASE a = ask.of /\ source = "orcid"
    <3>1. WillAsk("openalex", a) => WillAsk("openalex", a)'
      BY <1>7, <2>4
    <3>2. rows'.persons[a].openalex = rows.persons[a].openalex
          /\ rows'.persons[a].orcids.key = rows'.persons[a].orcid
      BY <1>4, <2>4
    <3> QED BY <2>1, <3>1, <3>2
  <2> QED BY <1>1, <2>2, <2>3, <2>4
<1>10. ASSUME job.last = "persons", NEW p \in Works, NEW a \in People, p \in Wrote(rows'.persons[a])
       PROVE  rows'.publications[p].crossref.key = rows'.publications[p].doi \/ WillAsk("crossref", p)'
  <2>1. rows.publications[p].crossref.key = rows.publications[p].doi \/ WillAsk("crossref", p)
    BY <1>8, <1>10 DEF AllInv, AskInv
  <2>2. "crossref" # source
    BY <1>1
  <2> QED BY <1>4, <1>7, <2>1, <2>2
<1>11. AskInv'
  BY <1>2, <1>8, <1>9, <1>10 DEF AskInv, AskedOff
<1>12. rows'.profiles = rows.profiles /\ rows'.repositories = rows.repositories
  BY <1>4 DEF AskedRows
<1>13. LeadInv'
  <2>1. ~job.torn => Leads(rows.repositories, rows.profiles)
    BY <1>2 DEF AskedOff, AllInv, LeadInv
  <2> QED BY <1>2, <1>12, <2>1, NobodyCollected DEF AskedOff
<1>14. Follows
  BY <1>5, <1>12, FollowsItself DEF AllInv, Follows
<1> QED BY <1>5, <1>11, <1>13, <1>14 DEF Stays_, AllInv

-----------------------------------------------------------------------------
(* All steps, and the theorems. *)

LEMMA AllFirst == Init => AllInv
<1> SUFFICES ASSUME Init PROVE AllInv
  OBVIOUS
<1>1. RowsInv
  BY GroupFirst
<1>2. job = [stage |-> "idle", todo |-> <<>>, runs |-> 0, begun |-> FALSE, last |-> "none", torn |-> FALSE]
  BY DEF Init, Idle
<1>3. DOMAIN job.todo = {}
  BY <1>2
<1>4. AskInv
  BY <1>2, <1>3 DEF AskInv
<1>5. Leads(rows.repositories, rows.profiles)
  <2>1. CASE part = "accounts"
    <3>1. PICK known \in KnownAtFirst :
              rows = [publications |-> NoWorks, persons |-> known.persons,
                      profiles |-> known.profiles, repositories |-> known.repositories]
      BY <2>1 DEF Init
    <3>2. Leads(known.repositories, known.profiles)
      BY PeopleAssumption
    <3> QED BY <3>1, <3>2
  <2>2. CASE part # "accounts"
    <3>1. PICK people : rows = [publications |-> NoWorks, persons |-> people,
                                profiles |-> NoProfiles, repositories |-> NoRepositories]
      BY <2>2 DEF Init
    <3>2. Present(NoRepositories) = {}
      BY DEF Present, NoRepositories
    <3> QED BY <3>1, <3>2 DEF Leads
  <2> QED BY <2>1, <2>2
<1>6. LeadInv
  BY <1>2, <1>5 DEF LeadInv
<1> QED BY <1>1, <1>4, <1>6 DEF AllInv

LEMMA AuthorsStay ==
    ASSUME AllInv, AuthorStages
    PROVE  Stays_
<1>1. review' = review /\ walk' = walk
  BY DEF AuthorStages
<1>2. Forced \subseteq BOOLEAN
  BY DEF Forced
<1>3. ASSUME NEW force \in BOOLEAN, NEW selection, PersonsStart(force, selection) PROVE Stays_
  BY <1>1, <1>3, PersonsStay
<1>4. ASSUME NEW force \in BOOLEAN, NEW selection, EmailsStart(force, selection) PROVE Stays_
  <2>1. Begins("emails")
    BY <1>1, <1>4, EmailsBegin DEF AllInv
  <2>2. "emails" # "persons" /\ "emails" # "repo_people"
    OBVIOUS
  <2> QED BY <2>1, <2>2, BegunStays
<1>5. ASSUME NEW force \in BOOLEAN, NEW selection, DepartmentsStart(force, selection) PROVE Stays_
  <2>1. Begins("departments")
    BY <1>1, <1>5, DepartmentsBegin DEF AllInv
  <2>2. "departments" # "persons" /\ "departments" # "repo_people"
    OBVIOUS
  <2> QED BY <2>1, <2>2, BegunStays
<1>6. CASE NormalizeWorks
  <2>1. Begins("normalize")
    BY <1>1, <1>6, NormalizeBegins DEF AllInv
  <2>2. "normalize" # "persons" /\ "normalize" # "repo_people"
    OBVIOUS
  <2> QED BY <2>1, <2>2, BegunStays
<1>7. CASE AskCrossref
  BY <1>1, <1>7, CrossrefStays
<1>8. ASSUME NEW source \in PersonSources, AskAbout(source) PROVE Stays_
  BY <1>1, <1>8, AboutStays
<1>9. CASE DieInCrossref
  BY <1>1, <1>9, CrossrefDies
<1> QED BY <1>2, <1>3, <1>4, <1>5, <1>6, <1>7, <1>8, <1>9 DEF AuthorStages, PersonSources

LEMMA RecordsStay ==
    ASSUME AllInv, RecordNext
    PROVE  Stays_
BY RecordGoes, GoingStays DEF AllInv

LEMMA AccountsStay ==
    ASSUME AllInv, AccountStages
    PROVE  Stays_
<1>1. Forced \subseteq BOOLEAN
  BY DEF Forced
<1>2. ASSUME NEW force \in BOOLEAN, NEW selection, PeopleStart(force, selection), review' = review, walk' = walk
      PROVE  Stays_
  BY <1>2, CollectingStays
<1>3. ASSUME NEW selection, MatchStart(selection) PROVE Stays_
  <2>1. Begins("github_match")
    BY <1>3, MatchBegins DEF AllInv
  <2>2. "github_match" # "persons" /\ "github_match" # "repo_people"
    OBVIOUS
  <2> QED BY <2>1, <2>2, BegunStays
<1>4. CASE RecordNext
  BY <1>4, RecordsStay
<1>5. CASE WalkStart
  <2>1. Begins("social_graph")
    BY <1>5, WalkBegins DEF AllInv
  <2>2. "social_graph" # "persons" /\ "social_graph" # "repo_people"
    OBVIOUS
  <2> QED BY <2>1, <2>2, BegunStays
<1>6. CASE Ring
  BY <1>6, RingGoes, GoingStays DEF AllInv
<1>7. CASE WalkMatch
  BY <1>7, WalkMatchGoes, GoingStays DEF AllInv
<1>8. ASSUME NEW q \in Answerable, NEW verdict \in Verdicts, AnswerAccount(q, verdict) PROVE Stays_
  <2>1. q \in Answerable \cap Questions
    BY PeopleAssumption
  <2>2. RowsInv' /\ rows' = rows /\ job' = job
    BY <1>8, <2>1, AnsweredDocument DEF AllInv
  <2> QED BY <2>2, NothingMoves
<1> QED BY <1>1, <1>2, <1>3, <1>4, <1>5, <1>6, <1>7, <1>8 DEF AccountStages

LEMMA StaffStay ==
    ASSUME AllInv, StaffStages
    PROVE  Stays_
<1>1. ASSUME NEW selection, StaffDedup(selection) PROVE Stays_
  <2>1. Begins("dedup")
    BY <1>1, StaffBegins DEF AllInv
  <2>2. "dedup" # "persons" /\ "dedup" # "repo_people"
    OBVIOUS
  <2> QED BY <2>1, <2>2, BegunStays
<1>2. CASE RecordNext
  BY <1>2, RecordsStay
<1>3. CASE \E q \in Questions : TakeBack(q) \/ \E chosen \in Records \cup {NoAnswer} : Choose(q, chosen)
  <2>1. RowsInv' /\ rows' = rows /\ job' = job
    BY <1>3, AnsweredDocument DEF AllInv
  <2> QED BY <2>1, NothingMoves
<1> QED BY <1>1, <1>2, <1>3 DEF StaffStages

LEMMA GroupStays ==
    ASSUME AllInv, GroupNext
    PROVE  Stays_
<1>1. CASE AuthorStages
  BY <1>1, AuthorsStay
<1>2. CASE AccountStages
  BY <1>2, AccountsStay
<1>3. CASE StaffStages
  BY <1>3, StaffStay
<1>4. CASE RowsNext /\ UNCHANGED <<review, walk>>
  BY <1>4, WritingStays
<1>5. ASSUME NEW base \in Persons, NEW extra \in Persons, FoldPerson(base, extra), UNCHANGED <<review, walk>>
      PROVE  Stays_
  <2>1. Begins("dedup")
    BY <1>5, FoldBegins DEF AllInv
  <2>2. "dedup" # "persons" /\ "dedup" # "repo_people"
    OBVIOUS
  <2> QED BY <2>1, <2>2, BegunStays
<1>6. CASE Die /\ walk' = (IF walk.state = "walking" THEN NoWalk ELSE walk) /\ UNCHANGED review
  <2>1. ReviewTypeOK /\ walk \in Walks
    BY DEF AllInv, RowsInv, GroupTyped
  <2>2. NoWalk \in Walks
    BY AccountsAssumption DEF NoWalk, Walks
  <2>3. ReviewTypeOK' /\ walk' \in Walks
    BY <1>6, <2>1, <2>2 DEF ReviewTypeOK
  <2> QED BY <1>6, <2>3, DyingStays
<1> QED BY <1>1, <1>2, <1>3, <1>4, <1>5, <1>6 DEF GroupNext

LEMMA EveryStepStays == AllInv /\ [Next]_vars => Stays_
<1> SUFFICES ASSUME AllInv, [Next]_vars PROVE Stays_
  OBVIOUS
<1>1. CASE GroupNext
  BY <1>1, GroupStays
<1>2. CASE UNCHANGED group
  <2>1. rows' = rows /\ job' = job /\ review' = review /\ walk' = walk
    BY <1>2 DEF group
  <2>2. RowsInv'
    <3>1. RowsTyped' /\ JobTyped' /\ ReviewTypeOK' /\ walk' \in Walks
      BY <2>1 DEF AllInv, RowsInv, GroupTyped, RowsTyped, JobTyped, ReviewTypeOK
    <3>2. FoldedOnce(rows.persons)' /\ Lined(job.todo)'
      BY <2>1 DEF AllInv, RowsInv, FoldedOnce, Lined, Present
    <3>3. \A e, s : Suits(e, s) => Suits(e, s)'
      BY <2>1 DEF Suits, People, Works
    <3>4. \A i \in DOMAIN job'.todo : Suits(job.todo[i], job.stage)'
      BY <2>1, <3>3 DEF AllInv, RowsInv
    <3> QED BY <3>1, <3>2, <3>4 DEF RowsInv, GroupTyped
  <2> QED BY <2>1, <2>2, NothingMoves
<1> QED BY <1>1, <1>2 DEF Next, vars, group

LEMMA AllFollow ==
    ASSUME AllInv, Follows, RowsInv'
    PROVE  /\ \A a \in People : Heirs(a)' # {} /\ \A b \in Heirs(a)' :
                 /\ Keeps(rows.persons[a], rows'.persons[b], a = b)
                 /\ a = b => Signed(a, rows.persons[a], rows'.persons[b])
           /\ \A a \in Profiles :
                 /\ rows'.profiles[a] # Absent
                 /\ rows.profiles[a].emails \subseteq rows'.profiles[a].emails
                 /\ rows.profiles[a].names \subseteq rows'.profiles[a].names
                 /\ rows.profiles[a].repos \subseteq rows'.profiles[a].repos
                 /\ SaysOfItself(a, rows.profiles[a], rows'.profiles[a])
<1>1. People = Present(rows.persons) /\ People' = Present(rows'.persons) /\ Profiles = Present(rows.profiles)
  BY DEF People, Profiles
<1>2. ASSUME NEW a \in People, a \in People'
      PROVE  Heirs(a)' # {} /\ \A b \in Heirs(a)' :
                 /\ Keeps(rows.persons[a], rows'.persons[b], a = b)
                 /\ a = b => Signed(a, rows.persons[a], rows'.persons[b])
  <2>1. Heirs(a)' = {a}
    BY <1>2 DEF Heirs
  <2>2. Keeps(rows.persons[a], rows'.persons[a], TRUE) /\ Signed(a, rows.persons[a], rows'.persons[a])
    BY <1>1, <1>2 DEF Follows, PersonsFollow
  <2>3. ASSUME NEW b \in Heirs(a)'
        PROVE  /\ Keeps(rows.persons[a], rows'.persons[b], a = b)
               /\ a = b => Signed(a, rows.persons[a], rows'.persons[b])
    <3>1. b = a /\ (a = b) = TRUE
      BY <2>1, <2>3
    <3> QED BY <2>2, <3>1
  <2> QED BY <2>1, <2>3
<1>3. ASSUME NEW a \in People, a \notin People'
      PROVE  Heirs(a)' # {} /\ \A b \in Heirs(a)' :
                 /\ Keeps(rows.persons[a], rows'.persons[b], a = b)
                 /\ a = b => Signed(a, rows.persons[a], rows'.persons[b])
  <2>1. Heirs(a)' = {b \in People' : a \in rows'.persons[b].merged}
    BY <1>3 DEF Heirs
  <2>2. \E b \in People' : a \in rows'.persons[b].merged
    BY <1>1, <1>3 DEF Follows, PersonsFollow
  <2>3. ASSUME NEW b \in Heirs(a)'
        PROVE  /\ Keeps(rows.persons[a], rows'.persons[b], a = b)
               /\ a = b => Signed(a, rows.persons[a], rows'.persons[b])
    <3>1. b # a /\ b \in People' /\ a \in rows'.persons[b].merged
      BY <1>3, <2>1, <2>3
    <3>2. Keeps(rows.persons[a], rows'.persons[b], FALSE)
      BY <1>1, <1>3, <3>1 DEF Follows, PersonsFollow
    <3>3. (a = b) = FALSE
      BY <3>1
    <3> QED BY <3>2, <3>3
  <2> QED BY <2>1, <2>2, <2>3
<1>4. ASSUME NEW a \in Profiles
      PROVE  /\ rows'.profiles[a] # Absent
             /\ rows.profiles[a].emails \subseteq rows'.profiles[a].emails
             /\ rows.profiles[a].names \subseteq rows'.profiles[a].names
             /\ rows.profiles[a].repos \subseteq rows'.profiles[a].repos
             /\ SaysOfItself(a, rows.profiles[a], rows'.profiles[a])
  BY <1>1 DEF Follows, ProfilesFollow
<1> QED BY <1>2, <1>3, <1>4

\* The invariant of the group's part: rows and what a run has before it are of
\* their types; every table about to be written follows from what the rows hold: lists
\* have grown, a card, an account or an ORCID stands, a name has given way at most to
\* the one OpenAlex displays of this person, a profile's name and texts at most to what
\* a page of the account says; nobody is folded twice, what has not been asked is going
\* to be, and profiles are written after the repositories that name them (persons.py, emails.py,
\* departments.py, normalize.py, dedup.py, repo_people.py, github_match.py,
\* social_graph.py).
THEOREM GroupCovered == Spec => []AllInv
<1>1. AllInv /\ [Next]_vars => AllInv'
  BY EveryStepStays DEF Stays_
<1> QED BY AllFirst, <1>1, PTL DEF Spec

\* Rows, the run, questions, the walk, the names being split and the requests under
\* way stay of their types (People.TypeOK): no merge, fill-in or fold makes a row
\* that the models of the prepared store would not take.
THEOREM PeopleStayTyped == Spec => []TypeOK
<1>1. AllInv => /\ rows.publications \in WorkRows /\ rows.persons \in PersonRows
                /\ rows.profiles \in ProfileRows /\ rows.repositories \in RepoRows
                /\ JobTypeOK /\ ReviewTypeOK /\ walk \in Walks
  BY DEF AllInv, RowsInv, GroupTyped, RowsTyped, JobTyped, JobTypeOK
<1>2. HttpInv => HttpTypeOK
  BY DEF HttpInv
<1>3. Init => part \in Part
  BY DEF Init
<1>4. part \in Part /\ [Next]_vars => (part \in Part)'
  BY DEF Next, GroupNext, vars
<1>5. Spec => [](part \in Part)
  BY <1>3, <1>4, PTL DEF Spec
<1>6. AllInv /\ NamesInv /\ HttpInv /\ part \in Part => TypeOK
  BY <1>1, <1>2, NamesInvSays DEF TypeOK
<1> QED
  BY <1>5, <1>6, GroupCovered, NamesInvHolds, LimitsCovered, PTL

\* However many authors and works there are and whatever the sources answer or fail
\* to, once a run has gone through all authors each was asked for by the identifier
\* its row now holds, also where Crossref, OpenAlex or a fold supplied it
\* (persons.py:203, 268-273).
THEOREM SourcesAskedForAll == Spec => []AskedForWhatItHas
<1>1. AllInv => AskedForWhatItHas
  <2> SUFFICES ASSUME AllInv, job.last = "persons", job.stage = "idle" PROVE AskedForWhatItHas
    BY DEF AskedForWhatItHas
  <2>1. DOMAIN job.todo = {}
    BY DEF AllInv, RowsInv, GroupTyped, JobTyped
  <2>2. \A s, of : ~WillAsk(s, of)
    BY <2>1 DEF WillAsk
  <2> QED BY <2>2 DEF AllInv, AskInv, AskedForWhatItHas
<1> QED BY <1>1, GroupCovered, PTL

\* However runs of whatever stages follow one another, a contributor that a collected
\* repository names has a profile that names the repository, unless a run died
\* between its two writes (repo_people.py:107-131, 169-174).
THEOREM ContributorsHaveProfiles == Spec => []CollectedPeopleHaveProfiles
<1>1. AllInv => CollectedPeopleHaveProfiles
  BY DEF AllInv, LeadInv, CollectedPeopleHaveProfiles
<1> QED BY <1>1, GroupCovered, PTL

\* No step of any stage takes back what another found out of a person or of an
\* account; a folded person's goes to the one that stays.  The name on a person's row
\* gives way to the one OpenAlex displays of this very person, what a profile says of
\* itself to what a later page of the account says, and neither to a gap
\* (persons.py:283, repo_people.py:126-133, social_graph.py:156-163).
THEOREM NothingIsTakenBack == Spec => NothingLearnedIsLost
<1> DEFINE Learned ==
        /\ \A a \in People : Heirs(a)' # {} /\ \A b \in Heirs(a)' :
            LET was == rows.persons[a]
                is == rows'.persons[b]
            IN
               /\ was.emails \subseteq is.emails /\ was.names \subseteq is.names
               /\ was.affs \subseteq is.affs /\ was.depts \subseteq is.depts
               /\ was.contributed \subseteq is.contributed /\ Wrote(was) \subseteq Wrote(is)
               /\ \A x \in was.authored : x.place # Unknown =>
                    \/ x \in is.authored
                    \/ x.slot \in DOMAIN Stated[x.pub] /\ [x EXCEPT !.place = Stated[x.pub][x.slot]] \in is.authored
               /\ was.card # Unknown => is.card = was.card \/ (a # b /\ was.card \in is.emails)
               /\ was.raw # Unknown => /\ is.raw # Unknown
                                       /\ a # b => was.raw \in SpeltAs(is)
                                       /\ a = b => is.raw \in {was.raw, OpenAlexSays[a].display}
               /\ a = b => /\ was.orcid # Unknown => is.orcid = was.orcid
                           /\ was.github # Unknown => is.github = was.github
        /\ \A a \in Profiles :
            LET was == rows.profiles[a]
                is == rows'.profiles[a]
            IN /\ is # Absent /\ was.emails \subseteq is.emails /\ was.names \subseteq is.names
               /\ was.repos \subseteq is.repos
               /\ was.kind # Unknown => is.kind # Unknown
               /\ was.name # Unknown => is.name # Unknown /\ is.name \in {was.name} \cup {page.name : page \in UserSays[a]}
               /\ \A field \in Fields : was.about[field] # Unknown =>
                    /\ is.about[field] # Unknown
                    /\ is.about[field] \in {was.about[field]} \cup {page.about[field] : page \in UserSays[a]}
<1>1. AllInv /\ [Next]_vars => [Learned]_rows
  <2> SUFFICES ASSUME AllInv, [Next]_vars PROVE Learned
    OBVIOUS
  <2>1. Follows /\ RowsInv'
    BY EveryStepStays DEF Stays_, AllInv
  <2>2. ASSUME NEW a \in People, NEW b \in Heirs(a)'
        PROVE  LET was == rows.persons[a]
                   is == rows'.persons[b]
               IN
                  /\ was.emails \subseteq is.emails /\ was.names \subseteq is.names
                  /\ was.affs \subseteq is.affs /\ was.depts \subseteq is.depts
                  /\ was.contributed \subseteq is.contributed /\ Wrote(was) \subseteq Wrote(is)
                  /\ \A x \in was.authored : x.place # Unknown =>
                       \/ x \in is.authored
                       \/ x.slot \in DOMAIN Stated[x.pub] /\ [x EXCEPT !.place = Stated[x.pub][x.slot]] \in is.authored
                  /\ was.card # Unknown => is.card = was.card \/ (a # b /\ was.card \in is.emails)
                  /\ was.raw # Unknown => /\ is.raw # Unknown
                                          /\ a # b => was.raw \in SpeltAs(is)
                                          /\ a = b => is.raw \in {was.raw, OpenAlexSays[a].display}
                  /\ a = b => /\ was.orcid # Unknown => is.orcid = was.orcid
                              /\ was.github # Unknown => is.github = was.github
    <3>1. /\ Keeps(rows.persons[a], rows'.persons[b], a = b)
          /\ a = b => Signed(a, rows.persons[a], rows'.persons[b])
      BY <2>1, AllFollow
    <3>2. PICK was, is : was = rows.persons[a] /\ is = rows'.persons[b]
      OBVIOUS
    <3>3. Keeps(was, is, a = b) /\ (a = b => Signed(a, was, is))
      BY <3>1, <3>2
    <3> QED BY <3>2, <3>3 DEF Keeps, Signed
  <2>3. ASSUME NEW a \in People PROVE Heirs(a)' # {}
    BY <2>1, AllFollow
  <2>4. ASSUME NEW a \in Profiles
        PROVE  /\ rows'.profiles[a] # Absent /\ rows.profiles[a].emails \subseteq rows'.profiles[a].emails
               /\ rows.profiles[a].names \subseteq rows'.profiles[a].names
               /\ rows.profiles[a].repos \subseteq rows'.profiles[a].repos
               /\ SaysOfItself(a, rows.profiles[a], rows'.profiles[a])
    BY <2>1, AllFollow
  <2>5. \A a \in Profiles :
            LET was == rows.profiles[a]
                is == rows'.profiles[a]
            IN /\ is # Absent /\ was.emails \subseteq is.emails /\ was.names \subseteq is.names
               /\ was.repos \subseteq is.repos
               /\ was.kind # Unknown => is.kind # Unknown
               /\ was.name # Unknown => is.name # Unknown /\ is.name \in {was.name} \cup {page.name : page \in UserSays[a]}
               /\ \A field \in Fields : was.about[field] # Unknown =>
                    /\ is.about[field] # Unknown
                    /\ is.about[field] \in {was.about[field]} \cup {page.about[field] : page \in UserSays[a]}
    BY <2>4 DEF SaysOfItself
  <2> QED BY <2>2, <2>3, <2>5
<1>2. Spec => [][Learned]_rows
  BY <1>1, GroupCovered, PTL DEF Spec
<1> QED BY <1>2 DEF NothingLearnedIsLost
=============================================================================
