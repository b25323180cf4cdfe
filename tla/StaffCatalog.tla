---------------------------- MODULE StaffCatalog ----------------------------
(***************************************************************************)
(* The catalog of the staff by the names people are published under        *)
(* (RussianNamesCatalog in pauk/pipeline/stages/author_names.py).  A name  *)
(* is a sequence of words in the folded spelling both sides are brought    *)
(* to; two rows of one employee are one row.                               *)
(***************************************************************************)
EXTENDS Naturals, FiniteSets, Sequences, FiniteSetsExt

CONSTANTS Catalog,      \* rows: [surname, first, patronymic, id], the id standing for the folded name
          InitialsOf,   \* word -> the words its initial can arrive as
          NoWord        \* no patronymic; no row

\* _keyed_forms: in full, and down to initials
FullForms(row) ==
    {<<row.first, row.surname>>, <<row.surname, row.first>>} \cup
    (IF row.patronymic = NoWord THEN {}
     ELSE {<<row.first, row.patronymic, row.surname>>, <<row.surname, row.first, row.patronymic>>} \cup
          {<<row.first, i, row.surname>> : i \in InitialsOf[row.patronymic]})
ShortForms(row) ==
    UNION {{<<i, row.surname>>, <<row.surname, i>>} : i \in InitialsOf[row.first]} \cup
    (IF row.patronymic = NoWord THEN {}
     ELSE UNION {{<<i, j, row.surname>>, <<row.surname, i, j>>} :
                    i \in InitialsOf[row.first], j \in InitialsOf[row.patronymic]})
Forms(row) == FullForms(row) \cup ShortForms(row)

\* by_key: a name that stands for one row; namesakes share theirs
Fitting(name) == {row \in Catalog : name \in Forms(row)}
IsKey(name) == Cardinality(Fitting(name)) = 1

\* spelled_out: a form that gives the name in full, not one that is an initial
\* of some row too; identity is claimed from no other
SpelledOut(name) == \E row \in Catalog : name \in FullForms(row) \ ShortForms(row)

\* _contradicts
Contradicts(name, row) ==
    /\ row.patronymic # NoWord /\ Len(name) = 3 /\ name[3] = row.surname
    /\ name[2] \notin {row.patronymic} \cup InitialsOf[row.patronymic]

\* match: the first spelling that is a key, unless the name itself says otherwise
Match(spellings) ==
    LET hits == {i \in DOMAIN spellings : IsKey(spellings[i])}
        row == CHOOSE r \in Fitting(spellings[Min(hits)]) : TRUE
    IN IF hits = {} THEN NoWord ELSE IF Contradicts(spellings[1], row) THEN NoWord ELSE row

\* staff_id: the first spelling that is an identity, unless the name itself
\* says otherwise
StaffId(spellings) ==
    LET hits == {i \in DOMAIN spellings : IsKey(spellings[i]) /\ SpelledOut(spellings[i])}
        row == CHOOSE r \in Fitting(spellings[Min(hits)]) : TRUE
    IN IF hits = {} THEN NoWord ELSE IF Contradicts(spellings[1], row) THEN NoWord ELSE row.id
\* namesakes: the rows the first spelling that stands for several cannot tell apart
Namesakes(spellings) ==
    LET hits == {i \in DOMAIN spellings :
                    Cardinality(Fitting(spellings[i])) > 1 /\ SpelledOut(spellings[i])}
    IN IF hits = {} THEN {} ELSE {row.id : row \in Fitting(spellings[Min(hits)])}

\* _name_split_candidates: every row of a surname some spelling has as a word
SplitCandidates(spellings) ==
    {row \in Catalog : \E i \in DOMAIN spellings : \E j \in DOMAIN spellings[i] : spellings[i][j] = row.surname}
=============================================================================
