----------------------------- MODULE StaffRule -----------------------------
(***************************************************************************)
(* DedupStage over the people of a group, by the catalog of the staff      *)
(* (pauk/pipeline/stages/dedup.py): who is which employee, whom it cannot  *)
(* tell apart and has to ask about, and what the answers then fold.  The   *)
(* rules that go by names and shared evidence are a constant here.         *)
(***************************************************************************)
EXTENDS Accounts, StaffCatalog, MergeGroups

CONSTANTS CalledAs,     \* Persons -> spellings, the display name first
          Resembling,   \* pairs that names and shared evidence would merge
          CatalogAtHand \* whether a machine a run is on has the file

ASSUME StaffRuleAssumption ==
    /\ NoValue = Unknown /\ CatalogAtHand \subseteq BOOLEAN
    /\ \A pair \in Resembling : pair \subseteq Persons /\ Cardinality(pair) = 2

Ids(p) == {p} \cup rows.persons[p].merged
\* name_raw, then name_variants with the names of the folded, by their ids
Called(p) ==
    LET folded == InOrder(rows.persons[p].merged)
    IN CalledAs[p] \o FlattenSeq([i \in DOMAIN folded |-> CalledAs[folded[i]]])

\* what is read of the choices: of two under one alias, the one read last
ChoiceReadings ==
    LET said == StaffChoices(Home, Persons)
        about == {s[1] : s \in said}
    IN {chosen \in [about -> Records] : \A p \in about : <<p, chosen[p]>> \in said}

\* staff_identities
StaffIdentities(chosen) ==
    [p \in Persons |->
        IF p \notin People THEN NoValue
        ELSE IF StaffId(Called(p)) # NoWord THEN StaffId(Called(p))
        ELSE IF p \in DOMAIN chosen THEN chosen[p] ELSE NoValue]
\* staff_questions
StaffQuestions(chosen) ==
    {Question("staff", {p} \cup Namesakes(Called(p))) :
        p \in {x \in People \ DOMAIN chosen : StaffId(Called(x)) = NoWord /\ Namesakes(Called(x)) # {}}}

\* _trusted_orcids: what OpenAlex said, where it was asked
TrustedOrcids ==
    [p \in Persons |->
        IF p \notin People THEN NoValue
        ELSE IF rows.persons[p].openalex = Source("completed", OpenAlexOf[p]) THEN OpenAlexSays[p].orcid
        ELSE rows.persons[p].orcid]
\* _person_scope
InScope(pair, selection) == selection = All \/ \E p \in pair : Wrote(rows.persons[p]) \cap selection # {}

\* plan_person_merges: one trusted ORCID folds; another one on record, or
\* another employee, keeps apart; one employee folds as the other rules do
PairsToFold(staff, selection) ==
    LET trusted == TrustedOrcids
        OnRecord(p) == IF trusted[p] # NoValue THEN trusted[p] ELSE rows.persons[p].orcid
        Shared(pair, field) == NoValue \notin {field[p] : p \in pair} /\ Cardinality({field[p] : p \in pair}) = 1
        Differ(values) == Cardinality(values \ {NoValue}) > 1
        NamedAlike(pair) == \E known \in Resembling : \A p \in pair : known \cap Ids(p) # {}
    IN {pair \in SUBSET People :
            /\ Cardinality(pair) = 2 /\ InScope(pair, selection)
            /\ \/ Shared(pair, trusted)
               \/ /\ ~Differ({OnRecord(p) : p \in pair}) /\ ~Differ({staff[p] : p \in pair})
                  /\ \A p \in pair : rows.persons[p].itmo
                  /\ Shared(pair, staff) \/ NamedAlike(pair)}

\* _dedup_persons, the fold itself: the duplicates of a group by their rank
Ranked(g, works, orcid) ==
    Ordered(g \ {Canonical(g, works, orcid)}, LAMBDA p, q : Outranks(p, q, works, orcid))
FoldedInto(p, line) ==
    FoldLeft(LAMBDA base, q : MergePerson(base, rows.persons[q], q), rows.persons[p], line)
Folded(groups, works, orcid) ==
    [p \in Persons |->
        IF \A g \in groups : p \notin g THEN rows.persons[p]
        ELSE LET g == CHOOSE x \in groups : p \in x
             IN IF p # Canonical(g, works, orcid) THEN Absent ELSE FoldedInto(p, Ranked(g, works, orcid))]

\* _dedup_persons: without the catalog nobody is placed and nothing is asked;
\* with it the questions go out before anything is folded
StaffDedup(selection) ==
    LET works == [p \in Persons |-> IF p \in People THEN Cardinality(Wrote(rows.persons[p])) ELSE 0]
        orcid == [p \in Persons |-> IF p \in People THEN rows.persons[p].orcid ELSE NoValue]
        ToQueue(questions) == <<[collection |-> "held", questions |-> questions]>>
        Run(staff, asked) ==
            LET pairs == PairsToFold(staff, selection)
                ident == <<TrustedOrcids, staff>>
                groups == Accepted(pairs, ident, {})
                left == {Question("group", g) : g \in HeldGroups(pairs, ident, {}, works, orcid)}
            IN Started("dedup", selection,
                   asked \o (IF groups = {} THEN <<>> ELSE <<Write("persons", Folded(groups, works, orcid))>>)
                         \o (IF left = {} THEN <<>> ELSE ToQueue(left)))
    IN /\ MayStart("dedup")
       /\ \/ FALSE \in CatalogAtHand /\ Run([p \in Persons |-> NoValue], <<>>)
          \/ /\ TRUE \in CatalogAtHand
             /\ \E chosen \in ChoiceReadings : Run(StaffIdentities(chosen), ToQueue(StaffQuestions(chosen)))
       /\ UNCHANGED <<rows, review, walk>>

\* a reviewer says which record somebody is, or that none fits, and takes it back
Choose(q, chosen) ==
    /\ q.kind = "staff" /\ Asked(q)
    /\ chosen \in (q.members \cap Records) \cup {NoAnswer}
    /\ review' = RecordChoice(q, chosen)
    /\ UNCHANGED <<rows, job, walk>>
TakeBack(q) ==
    /\ q.kind = "staff" /\ MayWithdraw(q)
    /\ review' = Withdrawn(q)
    /\ UNCHANGED <<rows, job, walk>>
=============================================================================
