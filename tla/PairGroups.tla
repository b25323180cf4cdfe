----------------------------- MODULE PairGroups -----------------------------
(***************************************************************************)
(* Records that pairs connect, directly or through others: the first half  *)
(* of plan_person_merges, and what the folds of papers and repositories    *)
(* do with their pairs (pauk/pipeline/stages/dedup.py).                    *)
(***************************************************************************)
EXTENDS Naturals, FiniteSets

\* what can be reached from a set in n steps, over pairs and through `open`
Ball(from, pairs, open) ==
    LET ball[n \in Nat] ==
            IF n = 0 THEN from
            ELSE LET inner == ball[n - 1]
                 IN inner \cup {q \in open : \E p \in inner : {p, q} \in pairs}
    IN ball

Component(p, nodes, pairs) == Ball({p}, pairs, nodes)[Cardinality(nodes)]
Components(nodes, pairs) == {Component(p, nodes, pairs) : p \in nodes}
Grouped(pairs) == Components(UNION pairs, pairs)
=============================================================================
