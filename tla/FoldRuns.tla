------------------------------ MODULE FoldRuns ------------------------------
(***************************************************************************)
(* The runs that fold people: the dedup stage of a group                   *)
(* (pauk/pipeline/stages/dedup.py), the pass over the graph                *)
(* (pauk/graph/dedup.py) and the load of a publish                         *)
(* (pauk/graph/jsonl_loader.py).  One of them is under way at a time, each *)
(* of its steps a query or a write; it may die between any two.            *)
(***************************************************************************)
EXTENDS PersonFolds

CONSTANTS Rules,        \* bound: the planner, and what names and evidence say of the pairs
          Fetched,      \* the ORCID in a person's author record, if one was fetched
          NotFetched,   \* nobody fetched the author record of a person
          Tasks,        \* which of rows, graph and load an instance has
          MaxRuns,      \* bound: runs
          MortalRuns    \* bound: only the first so many runs may die

VARIABLES rule,         \* which planner, and what the data say of each pair
          job           \* the run under way

runVars == <<rule, job>>

PeoplePairs == {pair \in SUBSET People : Cardinality(pair) = 2}
Answered == UNION {[keys -> Verdicts] : keys \in SUBSET {s \in SUBSET People : Cardinality(s) >= 2}}
Pairings == People \X People

\* Of a pair the data say that it is one person (merge), that somebody has to
\* look (held), nothing, that it is two (separate: the resolver only), that the
\* names disagree (apart), that one record stands for a crowd OpenAlex could
\* not tell apart (pooled) or for several people by its own name (several).
Sayings == {"merge", "held", "separate", "none", "apart", "pooled", "several"}
ASSUME RunsAssumption ==
    /\ MaxRuns \in Nat /\ Tasks \subseteq {"rows", "graph", "load"}
    /\ Fetched \in [People -> Orcids \cup {NoValue, NotFetched}] /\ NotFetched \notin Orcids \cup {NoValue}
    /\ \A r \in Rules : /\ r.resolver \in BOOLEAN /\ r.says \in [PeoplePairs -> Sayings]
                         /\ \A pair \in PeoplePairs : r.says[pair] = "separate" => r.resolver
    /\ \A q \in Questions : q.kind \in PersonKinds => q.members \subseteq People
    /\ \A pair \in PeoplePairs : Question("pair", pair) \in Questions
    /\ \A members \in SUBSET People : Cardinality(members) >= 2 => Question("group", members) \in Questions

RunTypeOK ==
    /\ rule \in Rules
    /\ job \in [at : {"idle", "rows", "keep", "write", "graph", "plan", "list", "fold", "report",
                     "load", "nodes", "links", "refold"},
                task : {"rows", "graph", "load"}, given : [People -> Contents \cup {Absent}],
                merges : SUBSET Pairings, aliases : SUBSET Pairings,
                held : SUBSET Questions, disputed : SUBSET Questions, separate : SUBSET PeoplePairs,
                said : Answered, runs : 0 .. MaxRuns,
                died : BOOLEAN]     \* ghost: a run died, and no load has been through since

Idle(runs) ==
    [at |-> "idle", task |-> "rows", given |-> [p \in People |-> Absent], merges |-> {}, aliases |-> {},
     held |-> {}, disputed |-> {}, separate |-> {}, said |-> <<>>, runs |-> runs, died |-> FALSE]
RunInit == rule \in Rules /\ job = Idle(0)

-----------------------------------------------------------------------------
\* What the planner makes of the records it is given and the answers it read.
Said(answers, pair) == IF pair \in DOMAIN answers THEN answers[pair] ELSE NoAnswer
Refused(answers) == {pair \in DOMAIN answers : Cardinality(pair) = 2 /\ answers[pair] = "different"}
PairsOf(store) == {pair \in PeoplePairs : pair \subseteq Present(store)}
OrcidsOf(store) == [p \in People |-> Stored(p, store).orcid]
WorksOf(store) == [p \in People |-> Cardinality(Stored(p, store).works)]

\* _trusted_orcids: an author record outranks what is stored, with no ORCID too
Trusted(store) ==
    [p \in People |-> IF Fetched[p] = NotFetched THEN Stored(p, store).orcid ELSE Fetched[p]]
OnRecord(store) ==
    [p \in People |-> IF Trusted(store)[p] # NoValue THEN Trusted(store)[p] ELSE Stored(p, store).orcid]
Ident(store) == <<Trusted(store)>>

Disagree(orcid, pair) == \E p, q \in pair : orcid[p] # orcid[q] /\ NoValue \notin {orcid[p], orcid[q]}
\* one trusted ORCID makes a pair whatever the names (candidate_person_pairs);
\* plan_person_merges takes any to refuse one, the resolver trusted ones only (_hard_veto)
OneOrcid(store, pair) == \E v \in Orcids : \A p \in pair : Trusted(store)[p] = v
Differ(store, pair) == Disagree(IF rule.resolver THEN Trusted(store) ELSE OnRecord(store), pair)

Says(store, pair) ==
    LET data == rule.says[pair]
        two == IF rule.resolver THEN "separate" ELSE "none"
    IN IF data \in {"pooled", "several"} THEN data
       ELSE IF OneOrcid(store, pair)
            THEN IF data # "apart" THEN "merge" ELSE IF rule.resolver THEN "held" ELSE "none"
       ELSE IF data = "apart" \/ Differ(store, pair) THEN two
       ELSE data

\* An answer outranks a rule, but no record of several people folds, and to the
\* resolver no pooled one.
Merges(store, answers, pair) ==
    \/ /\ Said(answers, pair) = "same" /\ Says(store, pair) # "several"
       /\ ~(rule.resolver /\ Says(store, pair) = "pooled")
    \/ Said(answers, pair) # "different" /\ Says(store, pair) = "merge"
\* (listed one by one, so that TLC works the set out once)
Merging(store, answers) ==
    {members : members \in {pair \in PairsOf(store) : Merges(store, answers, pair)}}
\* what the rules would have done otherwise than the answer
Against(store, answers) ==
    {pair \in PairsOf(store) :
        \/ Said(answers, pair) = "different" /\ Says(store, pair) = "merge"
        \/ Said(answers, pair) = "same" /\ Says(store, pair) = "several"}
Disputed(store, answers) == {Question("pair", pair) : pair \in Against(store, answers)}
\* nobody is asked twice, but plan_person_merges goes on asking of several people
Unsure(store, answers) ==
    {pair \in PairsOf(store) :
        \/ Says(store, pair) \in {"held", "several"} /\ pair \notin DOMAIN answers
        \/ Says(store, pair) = "several" /\ ~rule.resolver /\ Said(answers, pair) = "different"}
Separated(store, answers) ==
    {pair \in PairsOf(store) : Says(store, pair) = "separate" /\ Said(answers, pair) # "same"}

Planned(store, answers) ==
    LET pairs == Merging(store, answers)
        works == WorksOf(store)
        orcid == OrcidsOf(store)
    IN [merges |-> Folds(Accepted(pairs, Ident(store), Refused(answers)), works, orcid),
        held |-> {Question("pair", pair) : pair \in Unsure(store, answers)}
                 \cup {Question("group", g) :
                        g \in HeldGroups(pairs, Ident(store), Refused(answers), works, orcid)},
        disputed |-> Disputed(store, answers),
        separate |-> Separated(store, answers)]

Begin(task, at) ==
    /\ job.at = "idle" /\ task \in Tasks /\ job.runs < MaxRuns
    /\ job' = [Idle(job.runs + 1) EXCEPT !.task = task, !.at = at, !.died = job.died]
    /\ UNCHANGED <<storeVars, review, rule>>
Step(from, to) == job.at = from /\ job' = [job EXCEPT !.at = to]
End == job' = [Idle(job.runs) EXCEPT !.died = job.died]

\* the report of a run goes to the queue: questions, disputes, answers carried out
Report(home) ==
    review' = MarkAppliedMerges(
                RecordDisputed(RecordHeld(review, job.held, job.separate, home), job.disputed), home)

-----------------------------------------------------------------------------
\* DedupStage._dedup_persons
StartRows == Begin("rows", "rows")
PlanRows ==
    /\ job.at = "rows"
    /\ \E answers \in Decisions(Home(Aliases(row))) :
        \E plan \in {Planned(row, answers)} :
           job' = [job EXCEPT !.at = IF plan.merges = {} THEN "report" ELSE "keep", !.given = row,
                              !.merges = plan.merges, !.held = plan.held, !.disputed = plan.disputed,
                              !.separate = plan.separate, !.said = answers]
    /\ UNCHANGED <<storeVars, review, rule>>
\* a participant that is no longer there stops the run
KeepRows ==
    /\ job.at = "keep"
    /\ LET people == UNION {{m[1], m[2]} : m \in job.merges}
       IN IF people \subseteq Present(row)
          THEN saved' = Preserve(people) /\ job' = [job EXCEPT !.at = "write"]
          ELSE saved' = saved /\ End
    /\ UNCHANGED <<node, row, review, rule>>
\* the whole group as it was read, folded
WriteRows ==
    /\ Step("write", "report")
    /\ row' = FoldRows(job.given, job.merges)
    /\ UNCHANGED <<node, saved, review, rule>>
ReportRows ==
    /\ job.at = "report" /\ job.task = "rows"
    /\ Report(Home(Aliases(FoldRows(job.given, job.merges))))
    /\ End
    /\ UNCHANGED <<storeVars, rule>>

-----------------------------------------------------------------------------
\* run_graph_dedup; aliases that do not resolve stop a run before it writes
StartGraph == Begin("graph", "graph")
ReadAnswers ==
    /\ job.at = "graph"
    /\ IF Resolves(Aliases(node))
       THEN \E answers \in Decisions(Home(Flattened(Aliases(node)))) :
                job' = [job EXCEPT !.at = "plan", !.said = answers]
       ELSE End
    /\ UNCHANGED <<storeVars, review, rule>>
PlanGraph ==
    /\ job.at = "plan"
    /\ \E plan \in {Planned(node, job.said)} :
          job' = [job EXCEPT !.at = IF plan.merges = {} THEN "report" ELSE "list", !.given = node,
                             !.merges = plan.merges, !.held = plan.held, !.disputed = plan.disputed,
                             !.separate = plan.separate]
    /\ UNCHANGED <<storeVars, review, rule>>
MutListed(p) == [ids |-> job.given[p].ids, works |-> {}, orcid |-> NoValue]
\* dedup_graph_persons: the survivors name what they swallow before the fold
Listed(p) ==
    LET duplicates == {m[1] : m \in {m \in job.merges : m[2] = p}}
    IN [ids |-> job.given[p].ids \cup duplicates \cup UNION {job.given[d].ids : d \in duplicates},
        works |-> {}, orcid |-> NoValue]
ListGraph ==
    /\ Step("list", "fold")
    /\ node' = [p \in People |-> IF \E m \in job.merges : m[2] = p
                                 THEN UpsertPerson(p, Listed(p)) ELSE node[p]]
    /\ UNCHANGED <<row, saved, review, rule>>
FoldGraph ==
    /\ job.task = "graph" /\ Step("fold", "report")
    /\ node' = FoldNodes(job.merges)
    /\ UNCHANGED <<row, saved, review, rule>>
ReportGraph ==
    /\ job.at = "report" /\ job.task = "graph"
    /\ IF Resolves(Aliases(node)) THEN Report(Home(Flattened(Aliases(node)))) ELSE review' = review
    /\ End
    /\ UNCHANGED <<storeVars, rule>>

-----------------------------------------------------------------------------
\* load_prepared_rows; all aliases, of the rows and of the graph, are checked first
StartLoad == Begin("load", "load")
ReadLoad ==
    /\ job.at = "load"
    /\ LET all == Aliases(row) \cup Flattened(Aliases(node))
       IN IF Resolves(Aliases(node)) /\ Resolves(all)
          THEN job' = [job EXCEPT !.at = "nodes", !.given = row, !.merges = Flattened(all),
                                  !.aliases = Flattened(Aliases(node))]
          ELSE End
    /\ UNCHANGED <<storeVars, review, rule>>
\* _keep_graph_merges
WithKnown(p) ==
    [job.given[p] EXCEPT !.ids = @ \cup {m[1] : m \in {m \in job.aliases : m[2] = p}}]
LoadNodes ==
    /\ Step("nodes", "links")
    /\ node' = [p \in People |-> IF job.given[p] = Absent THEN node[p] ELSE UpsertPerson(p, WithKnown(p))]
    /\ UNCHANGED <<row, saved, review, rule>>
LoadLinks ==
    /\ Step("links", "fold")
    /\ node' = [p \in People |->
                    IF Absent \in {job.given[p], node[p]} THEN node[p]
                    ELSE [node[p] EXCEPT !.works = @ \cup job.given[p].works]]
    /\ UNCHANGED <<row, saved, review, rule>>
\* the folds the rows know of, then with those of the graph
FoldLoaded ==
    /\ job.task = "load" /\ job.at = "fold"
    /\ IF Resolves(Aliases(job.given))
       THEN Step("fold", "refold") /\ node' = FoldNodes(Aliases(job.given))
       ELSE End /\ node' = node
    /\ UNCHANGED <<row, saved, review, rule>>
MutRefold ==
    /\ job.at = "refold"
    /\ job' = Idle(job.runs)
    /\ UNCHANGED <<node, row, saved, review, rule>>
Refold ==
    /\ job.at = "refold"
    /\ node' = FoldNodes(job.merges)
    /\ job' = Idle(job.runs)
    /\ UNCHANGED <<row, saved, review, rule>>

Die ==
    /\ job.runs <= MortalRuns /\ job.at # "idle"
    /\ job' = [Idle(job.runs) EXCEPT !.died = TRUE]
    /\ UNCHANGED <<storeVars, review, rule>>

RunNext ==
    \/ StartRows \/ PlanRows \/ KeepRows \/ WriteRows \/ ReportRows
    \/ StartGraph \/ ReadAnswers \/ PlanGraph \/ ListGraph \/ FoldGraph \/ ReportGraph
    \/ StartLoad \/ ReadLoad \/ LoadNodes \/ LoadLinks \/ FoldLoaded \/ Refold
    \/ Die
=============================================================================
