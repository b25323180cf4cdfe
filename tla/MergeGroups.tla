---------------------------- MODULE MergeGroups ----------------------------
(***************************************************************************)
(* Which records become one, once it is known which pairs should merge:    *)
(* the second half of plan_person_merges (pauk/pipeline/stages/dedup.py).  *)
(* Pairs form transitive components; a component that disagrees about an   *)
(* identity field is taken apart, and one that contradicts an answer of a  *)
(* person is left alone.  Ids are numbers, and a lower id ranks first.     *)
(***************************************************************************)
EXTENDS PairGroups, Sequences, FiniteSetsExt

CONSTANT NoValue       \* an identity field a record does not fill in

-----------------------------------------------------------------------------
\* merge_rank: the most works, then an ORCID, then the lower id
Outranks(p, q, works, orcid) ==
    \/ works[p] > works[q]
    \/ works[p] = works[q] /\ orcid[p] # NoValue /\ orcid[q] = NoValue
    \/ /\ works[p] = works[q]
       /\ orcid[p] = NoValue <=> orcid[q] = NoValue
       /\ p < q
Canonical(members, works, orcid) ==
    CHOOSE p \in members : \A q \in members \ {p} : Outranks(p, q, works, orcid)

-----------------------------------------------------------------------------
\* ident[i][p]: the i-th identity field of p (ORCID, staff record, profiles)
ValuesOf(members, field) == {field[p] : p \in members} \ {NoValue}
MutConflicts(members, ident) == {i \in DOMAIN ident : Cardinality(ValuesOf(members, ident[i])) > 2}
Conflicts(members, ident) == {i \in DOMAIN ident : Cardinality(ValuesOf(members, ident[i])) > 1}
GroupConflict(members, ident) == Min(Conflicts(members, ident))

\* how far a member is from the records holding a value, never through a
\* record holding another; one more than the members when out of reach
Distance(p, value, members, pairs, field) ==
    LET roots == {q \in members : field[q] = value}
        open == {q \in members : field[q] \in {NoValue, value}}
        ball == Ball(roots, pairs, open)
    IN Min({n \in 0 .. Cardinality(members) : p \in ball[n]} \cup {Cardinality(members) + 1})

\* the values whose records are nearest; with several, nobody's
Nearest(p, members, pairs, field) ==
    LET far == Cardinality(members) + 1
        away == [v \in ValuesOf(members, field) |-> Distance(p, v, members, pairs, field)]
        least == Min({away[v] : v \in DOMAIN away})
    IN IF least = far THEN {} ELSE {v \in DOMAIN away : away[v] = least}

Bucket(value, members, pairs, field) ==
    {p \in members : \/ field[p] = value
                     \/ field[p] = NoValue /\ Nearest(p, members, pairs, field) = {value}}

\* _partition_conflicted_component
Partition(component, pairs, ident) ==
    LET split[part \in SUBSET component] ==
            IF Conflicts(part, ident) = {} THEN {part}
            ELSE LET field == ident[GroupConflict(part, ident)]
                     buckets == {Bucket(v, part, pairs, field) : v \in ValuesOf(part, field)}
                 IN {{p} : p \in part \ UNION buckets}
                    \cup UNION {split[c] : c \in UNION {Components(b, pairs) : b \in buckets}}
    IN split[component]

MutContradicted(component, refused) == component \in refused
\* a component contradicting an answer merges nothing at all
Contradicted(component, refused) == \E pair \in refused : pair \subseteq component

\* _finalize_person_merge_groups: what folds ...
Accepted(pairs, ident, refused) ==
    {g \in UNION {Partition(c, pairs, ident) :
                  c \in {c \in Grouped(pairs) : ~Contradicted(c, refused)}} :
        Cardinality(g) > 1}

\* ... and the conflicted remainders, by the records left of them, to be asked about
HeldGroups(pairs, ident, refused, works, orcid) ==
    LET accepted == Accepted(pairs, ident, refused)
        standing(p) == IF \E g \in accepted : p \in g
                       THEN Canonical(CHOOSE g \in accepted : p \in g, works, orcid) ELSE p
        left == {{standing(p) : p \in c} :
                 c \in {c \in Grouped(pairs) :
                        Contradicted(c, refused) \/ Conflicts(c, ident) # {}}}
    IN {g \in left : Cardinality(g) > 1}

\* (duplicate, canonical) of everything that folds
Folds(accepted, works, orcid) ==
    UNION {{<<p, Canonical(g, works, orcid)>> : p \in g \ {Canonical(g, works, orcid)}} :
           g \in accepted}
=============================================================================
