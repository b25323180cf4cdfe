----------------------------- MODULE MCFolding -----------------------------
(* Small instances of Folding for TLC. *)
EXTENDS Folding

CONSTANTS x, y

Three == {1, 2, 3}
OneEach == [p \in People |-> {p}]
PairQuestions == {Question("pair", m) : m \in PeoplePairs}
GroupQuestions == {Question("group", m) : m \in {m \in SUBSET People : Cardinality(m) > 1}}
AllQuestions == PairQuestions \cup GroupQuestions

Plain == [p \in People |-> NoValue]
OneAndThree == [Plain EXCEPT ![1] = x, ![3] = y]
OneAndTwo == [Plain EXCEPT ![1] = x, ![2] = y]
\* the author record of 2 was fetched and knows no ORCID
SecondFetched == [p \in People |-> IF p = 2 THEN NoValue ELSE NotFetched]

RuleOf(resolver, merge, held, what) ==
    [resolver |-> resolver,
     says |-> [pair \in PeoplePairs |->
                 IF pair \in merge THEN "merge" ELSE IF pair \in held THEN "held" ELSE what]]
\* plan_person_merges: 3 stands for several people
Several == RuleOf(FALSE, {{1, 2}}, {}, "several")
Everybody == RuleOf(FALSE, PeoplePairs, {}, "none")
\* plan_person_merges_resolved: 3 resembles the others, is pooled, has another name
Alike == RuleOf(TRUE, {{1, 2}}, {{1, 3}, {2, 3}}, "none")
Pooled == RuleOf(TRUE, {{1, 2}}, {}, "pooled")
Namesake == RuleOf(TRUE, {{1, 2}}, {}, "apart")

AnyRules == {Everybody, Several, Alike, Pooled, Namesake}
Anybody == {OneAndThree, OneAndTwo}
=============================================================================
