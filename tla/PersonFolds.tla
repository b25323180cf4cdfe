---------------------------- MODULE PersonFolds ----------------------------
(***************************************************************************)
(* Person records on their way from many to one: the nodes of the graph,   *)
(* the prepared rows of one group, the rows kept from before a merge, and  *)
(* what a fold does to each.  Works stand for everything a record gathers  *)
(* (lists, edges), the ORCID for everything a fold fills in.  Every        *)
(* operator is one transaction, or one query.                              *)
(***************************************************************************)
EXTENDS MergeGroups, ReviewStore, SequencesExt, Ordering

CONSTANTS People,       \* ids of records, as numbers
          Works,        \* what a record may have authored
          Orcids,       \* identity values
          Absent        \* a node or a row that does not exist

Contents == [ids : SUBSET People,           \* merged_ids
             works : SUBSET Works,
             orcid : Orcids \cup {NoValue}]

ASSUME FoldAssumption ==
    /\ People \subseteq Nat /\ IsFiniteSet(People) /\ IsFiniteSet(Works)
    /\ Absent \notin Contents /\ NoValue \notin Orcids

VARIABLES node,         \* People -> contents, or Absent
          row,          \* People -> contents, or Absent
          saved         \* People -> the rows kept before merges, newest first

storeVars == <<node, row, saved>>

StoreTypeOK ==
    /\ node \in [People -> Contents \cup {Absent}]
    /\ row \in [People -> Contents \cup {Absent}]
    /\ saved \in [People -> Seq(Contents)]

Bare == [ids |-> {}, works |-> {}, orcid |-> NoValue]
Present(store) == {p \in People : store[p] # Absent}
Stored(p, store) == IF store[p] = Absent THEN Bare ELSE store[p]

-----------------------------------------------------------------------------
\* flatten_merges: aliases resolve when every path from one ends at one survivor
Beyond(merges, p) == {m[2] : m \in {m \in merges : m[1] = p}} \ {p}
After(merges, p) ==
    LET walk[n \in Nat] ==
            IF n = 0 THEN Beyond(merges, p)
            ELSE LET near == walk[n - 1] IN near \cup UNION {Beyond(merges, q) : q \in near}
    IN walk[Cardinality(People)]
Ends(merges, p) == {q \in After(merges, p) : Beyond(merges, q) = {}}
Resolves(merges) ==
    \A p \in {m[1] : m \in merges} :
        p \notin After(merges, p) /\ (Beyond(merges, p) # {} => Cardinality(Ends(merges, p)) = 1)
Flattened(merges) ==
    {<<p, CHOOSE q \in Ends(merges, p) : TRUE>> :
        p \in {p \in {m[1] : m \in merges} : Beyond(merges, p) # {}}}

\* the ids records name as folded into them: fetch_merged_id_map, folded_ids
Aliases(store) == UNION {{<<q, p>> : q \in store[p].ids} : p \in Present(store)}
Home(merges) ==
    [p \in People |-> IF \E m \in merges : m[1] = p
                      THEN (CHOOSE m \in merges : m[1] = p)[2] ELSE p]

MutMerge(p, base, extra) == [base EXCEPT !.ids = (@ \cup extra.ids) \ {p}]
\* _merge_duplicate_properties, _merge_person: gaps are filled, lists united
Merge(p, base, extra) ==
    [ids |-> (base.ids \cup extra.ids) \ {p},
     works |-> base.works \cup extra.works,
     orcid |-> IF base.orcid = NoValue THEN extra.orcid ELSE base.orcid]

\* one record after another, lower ids first
InTurn(extras) == Ordered({e.by : e \in extras}, <)
MergeAll(p, base, extras) ==
    FoldLeft(LAMBDA done, d : Merge(p, done, (CHOOSE e \in extras : e.by = d).what), base, InTurn(extras))

\* _fold_nodes_batch: a duplicate folds only into a node that is there
FoldNodes(merges) ==
    LET held == {m \in Flattened(merges) : node[m[1]] # Absent /\ node[m[2]] # Absent}
    IN [p \in People |->
            IF \E m \in held : m[1] = p THEN Absent
            ELSE IF node[p] = Absent THEN Absent
            ELSE MergeAll(p, node[p], {[by |-> m[1], what |-> node[m[1]]] : m \in {m \in held : m[2] = p}})]

\* _preserve_merged_person_lists: a node that swallowed others keeps its lists
KeptIds(p, known, given) ==
    IF known.ids = {} THEN given.ids ELSE (known.ids \cup given.ids) \ {p}
\* upsert_person_nodes_batch; works are edges, and not a property
UpsertPerson(p, given) ==
    LET known == Stored(p, node)
    IN [ids |-> KeptIds(p, known, given),
        works |-> known.works,
        orcid |-> IF given.orcid = NoValue THEN known.orcid ELSE given.orcid]

\* upsert_nodes_batch with the one list of ids
SetIds(p, ids) == [node EXCEPT ![p] = [Stored(p, node) EXCEPT !.ids = ids]]

\* the rows after a merge: _merge_person and merged_ids, duplicates dropped
FoldRows(rows, merges) ==
    [p \in People |->
        IF \E m \in merges : m[1] = p THEN Absent
        ELSE IF rows[p] = Absent THEN Absent
        ELSE MergeAll(p, rows[p],
                 {[by |-> m[1], what |-> [rows[m[1]] EXCEPT !.ids = @ \cup {m[1]}]] :
                  m \in {m \in merges : m[2] = p}})]

\* person_merge_sources.preserve: a state already kept keeps its first place
MutPreserve(people) ==
    [p \in People |-> IF row[p] \notin {saved[p][i] : i \in DOMAIN saved[p]}
                     THEN <<row[p]>> \o saved[p] ELSE saved[p]]
Preserve(people) ==
    [p \in People |->
        IF p \in people /\ row[p] \notin {saved[p][i] : i \in DOMAIN saved[p]}
        THEN <<row[p]>> \o saved[p] ELSE saved[p]]
=============================================================================
