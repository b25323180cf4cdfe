------------------------------ MODULE Folding ------------------------------
(***************************************************************************)
(* People published, folded, asked about and taken apart again: the runs   *)
(* of FoldRuns and the requests of ReviewDesk over the same rows, nodes    *)
(* and questions.                                                          *)
(***************************************************************************)
EXTENDS ReviewDesk

CONSTANTS Own,          \* People -> what a record authored before any merge
          Holders       \* bound: the ORCIDs there may be, as People -> Orcids or none

ASSUME FoldingAssumption ==
    /\ Own \in [People -> SUBSET Works]
    /\ Holders \subseteq [People -> Orcids \cup {NoValue}]

vars == <<node, row, saved, review, rule, job, desk, requests, crossed>>

\* a group collected and not published yet
Init ==
    /\ \E orcid \in Holders :
        row = [p \in People |-> [ids |-> {}, works |-> Own[p], orcid |-> orcid[p]]]
    /\ node = [p \in People |-> Absent] /\ saved = [p \in People |-> <<>>]
    /\ review = [q \in Questions |-> NoDoc]
    /\ RunInit /\ DeskInit

Rewriting == desk.at \notin {"idle", "divide"}
Running == job.at # "idle"
Next ==
    /\ (RunNext /\ UNCHANGED deskVars) \/ DeskNext
    /\ crossed' = (crossed \/ (Rewriting' /\ Running'))
Spec == Init /\ [][Next]_vars

TypeOK == StoreTypeOK /\ ReviewTypeOK /\ RunTypeOK /\ DeskTypeOK

-----------------------------------------------------------------------------
AtRest == ~Rewriting /\ ~Running
Settled == ~crossed /\ ~job.died /\ AtRest

NamedBy(p, store) == {q \in Present(store) : p \in store[q].ids}
StandsFor(p, store) == {p} \cup store[p].ids

\* Whoever was published is in the graph, as a record or named by one as
\* folded into it, between any two steps and after a death in any of them: a
\* survivor names what it swallows before the duplicate goes
\* (dedup_graph_persons, merge_nodes, fold_duplicate_nodes_batch).  An undo
\* takes the name off before it gives the record back, so its steps, and
\* those that met another's, are left out.
Published(p) == node[p] # Absent \/ NamedBy(p, node) # {}
NobodyIsLost ==
    [][~crossed' /\ desk.at \notin {"patch", "give"} => \A p \in People : Published(p) => Published(p)']_vars

\* At rest, and with no fold of the rows still to be loaded, a person stands
\* in one place in the graph: a record, or the merged_ids of one.  Folds of the
\* graph, folds from the panel, loads of rows that know nothing of either and
\* undos have all written those lists (client.merge_person_nodes_batch,
\* jsonl_loader, split_person).
Places(p) == NamedBy(p, node) \cup ({p} \cap Present(node))
Loaded == \A m \in Aliases(row) : node[m[1]] = Absent
OneSurvivor == Settled /\ Loaded => \A p \in People : Cardinality(Places(p)) <= 1

\* At rest a record holds the works of everybody it stands for and of nobody
\* else: no order of folds, loads of rows from before or after them and undos
\* loses a work or leaves one with a record its author was taken out of.
WorksFollow(store) ==
    \A p \in Present(store) : store[p].works = UNION {Own[q] : q \in StandsFor(p, store)}
WorksFollowPeople == Settled => WorksFollow(node) /\ WorksFollow(row)

\* A plan folds records that were there when it was made, each into one that
\* stays, and joins no two that an answer read before keeps apart or whose
\* trusted ORCIDs differ, not through others either, and not when an answer
\* joins them: a group in conflict is taken apart and one that contradicts an
\* answer left alone, in both planners (plan_person_merges,
\* plan_person_merges_resolved, _partition_conflicted_component,
\* _finalize_person_merge_groups).  Not so of ORCIDs that nobody trusts: one that
\* the Crossref backfill put on record keeps a pair apart (plan_person_merges) and
\* is no conflict of a group (_group_conflict), so a third person may join the two.
Joining(p) == {p} \cup {m[1] : m \in {m \in job.merges : m[2] = p}}
PlansKeepApart ==
    job.task # "load" =>
        /\ \A m \in job.merges : Absent \notin {job.given[m[1]], job.given[m[2]]}
        /\ \A m, k \in job.merges : (m[1] = k[1] => m = k) /\ m[2] # k[1]
        /\ \A p \in People : \A pair \in PeoplePairs :
              pair \subseteq Joining(p) => pair \notin Refused(job.said) /\ ~Disagree(Trusted(job.given), pair)

\* A run joins nobody that an answer it has read keeps apart, not through a
\* third record either (_finalize_person_merge_groups).
Together(pair, store) == \E p \in Present(store) : pair \subseteq StandsFor(p, store)
RefusedStayApart ==
    [][~crossed' /\ job.at \in {"write", "list", "fold"} /\ job' # job =>
        \A pair \in Refused(job.said) :
            /\ Together(pair, node') => Together(pair, node)
            /\ Together(pair, row') => Together(pair, row)]_vars
=============================================================================
