----------------------------- MODULE StageRows -----------------------------
(***************************************************************************)
(* What every stage of an enrichment shares (pauk/pipeline/stages/base.py, *)
(* pauk/storage/prepared.py): whether a row is to be attempted, what a     *)
(* selection leaves of the group, and a run as the rows it read and the    *)
(* writes it makes at its end, one collection after another.  The lock of  *)
(* the group keeps a second run away.                                      *)
(***************************************************************************)
EXTENDS Naturals, FiniteSets, Sequences, FiniteSetsExt, SequencesExt, Ordering

CONSTANTS Pubs,         \* ids of publications, as numbers; a lower one ranks first
          Absent,       \* a row that does not exist
          All,          \* no selection: the whole group
          Selections,   \* bound: All, or the publications a run is started for
          ForcedFrom,   \* bound: only runs after the first so many may be forced
          MaxRuns,      \* bound: runs
          MortalRuns,   \* bound: only the first so many runs may die
          Stages        \* the stages an instance has

VARIABLES rows,         \* the collections of the group, by name
          job           \* the run under way

States == {"none", "failed", "completed", "empty"}

\* EnrichmentStage.needs_attempt, selected
NeedsAttempt(force, state) == force \/ state \in {"none", "failed"}
Selected(selection, p) == selection = All \/ p \in selection

Present(table) == {k \in DOMAIN table : table[k] # Absent}

\* write_models of a group's whole collection: what is not named is retracted
Write(collection, table) == [collection |-> collection, table |-> table]

\* one of what is offered, for each
Picks(offers) ==
    {pick \in [DOMAIN offers -> UNION {offers[x] : x \in DOMAIN offers}] :
        \A x \in DOMAIN offers : pick[x] \in offers[x]}

Idle(runs) == [stage |-> "idle", todo |-> <<>>, runs |-> runs, begun |-> FALSE,
               last |-> "none", torn |-> FALSE]
JobTypeOK ==
    /\ job.stage \in Stages \cup {"idle"}
    /\ job.runs \in 0 .. MaxRuns
    /\ job.begun \in BOOLEAN            \* some of its writes are made
    /\ job.last \in Stages \cup {"none"} \* ghost: the stage that last went through unselected
    /\ job.torn \in BOOLEAN             \* ghost: a run died between two of its writes

MayStart(stage) == job.stage = "idle" /\ stage \in Stages /\ job.runs < MaxRuns
\* a run that has read everything and has its writes before it
Started(stage, selection, writes) ==
    job' = [job EXCEPT !.stage = IF writes = <<>> THEN "idle" ELSE stage, !.todo = writes,
                       !.runs = @ + 1, !.begun = FALSE,
                       !.last = IF selection = All THEN stage ELSE "none"]
WriteNext ==
    /\ job.stage # "idle"
    /\ LET next == Head(job.todo)
       IN /\ rows' = [rows EXCEPT ![next.collection] = next.table]
          /\ job' = IF Len(job.todo) = 1
                    THEN [job EXCEPT !.stage = "idle", !.todo = <<>>, !.begun = FALSE]
                    ELSE [job EXCEPT !.todo = Tail(@), !.begun = TRUE]
\* a stop, a crash or a lost lease: what is written stays
Die ==
    /\ job.stage # "idle" /\ job.runs <= MortalRuns
    /\ job' = [job EXCEPT !.stage = "idle", !.todo = <<>>, !.begun = FALSE,
                          !.last = "none", !.torn = @ \/ job.begun]
    /\ UNCHANGED rows
=============================================================================
