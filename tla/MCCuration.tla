----------------------------- MODULE MCCuration -----------------------------
(* Small instances of Curation for TLC. *)
EXTENDS Curation, TLC

CONSTANTS n1, n2, n3, n4, f, g, a, b

Row(rows, links, complete) ==
    [rows |-> rows, links |-> links, failed |-> {}, complete |-> complete]

OneNode == {n1}
PapersAndCode == {n1, n2, n3, n4}
ToCode == {<<n1, n2>>, <<n1, n3>>, <<n4, n3>>, <<n4, n2>>}
NoAddresses == [n \in Nodes |-> None]
CodeAddress == [NoAddresses EXCEPT ![n3] = n2]
NoLinks == {}
OneField == {f}
TwoFields == {f, g}
OneValue == {a}
TwoValues == {a, b}

FieldSymmetry == Permutations(Fields)

Filled(v) == [x \in Fields |-> v]
\* one record whose row changes, and may disappear
RowsOfOne == {Row([n \in Nodes |-> Filled(a)], {}, {}),
              Row([n \in Nodes |-> Absent], {}, {})}
\* a publication n1, fully extracted, the repository n2 and its address n3: the
\* row of the repository may go or may not have been enriched, and the one who
\* mentions the address is n1 or, later, another publication n4
RowsOfPapers ==
    LET those(here, links) == Row([n \in Nodes |-> IF n \in here THEN Filled(a) ELSE Absent], links, {n1})
    IN {those(Nodes, {<<n4, n3>>}), those({n1, n3}, {<<n1, n3>>}),
        [those({n1, n2, n3}, {<<n1, n3>>}) EXCEPT !.failed = {n2}]}
=============================================================================
