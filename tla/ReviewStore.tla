---------------------------- MODULE ReviewStore ----------------------------
(***************************************************************************)
(* Questions the rules left open and the answers people gave:              *)
(* pauk/storage/review.py over the collection review_pairs, one document   *)
(* per kind and members.  Every operator takes the collection before one   *)
(* update and returns it after; the callers' modules make steps of them.   *)
(***************************************************************************)
EXTENDS Naturals, FiniteSets, FiniteSetsExt

CONSTANTS Questions,    \* the documents there can be, as [kind, members]
          Records,      \* what a question about the staff catalog chooses from
          NoDoc,        \* a document that does not exist
          NoAnswer      \* a verdict, or a choice, that is not given

VARIABLE review         \* Questions -> document, or NoDoc

Verdicts == {"same", "different"}
Kinds == {"pair", "group", "github", "staff"}
PersonKinds == {"pair", "group"}

\* question_id
Question(kind, members) == [kind |-> kind, members |-> members]
Pairs == {q \in Questions : q.kind = "pair"}

ASSUME ReviewAssumption ==
    /\ NoAnswer \notin Verdicts
    /\ \A q \in Questions : q.kind \in Kinds /\ Cardinality(q.members) >= 2
    /\ \A q \in Pairs : Cardinality(q.members) = 2

Documents == [verdict : Verdicts \cup {NoAnswer}, chosen : Records \cup {NoAnswer},
              held : BOOLEAN,       \* evidence.held_because: a run asked
              skipped : BOOLEAN, disputed : BOOLEAN,
              resolved : BOOLEAN,   \* auto_resolved_at
              applied : BOOLEAN]
ReviewTypeOK == review \in [Questions -> Documents \cup {NoDoc}]

-----------------------------------------------------------------------------
New == [verdict |-> NoAnswer, chosen |-> NoAnswer, held |-> FALSE, skipped |-> FALSE,
        disputed |-> FALSE, resolved |-> FALSE, applied |-> FALSE]
Asked(q) == review[q] # NoDoc
Doc(q) == IF Asked(q) THEN review[q] ELSE New
Put(q, doc) == [review EXCEPT ![q] = doc]
Verdict(q) == Doc(q).verdict

\* the people of a question by the records they are folded into
Under(q, home) == {home[p] : p \in q.members}

\* record_held, over one report: the pairs the rules set apart and the held questions
RecordHeld(store, held, separate, home) ==
    [q \in Questions |->
        IF q \in held
        THEN [IF store[q] = NoDoc THEN New ELSE store[q] EXCEPT !.held = TRUE, !.resolved = FALSE]
        ELSE IF /\ q \in Pairs /\ store[q] # NoDoc /\ store[q].verdict = NoAnswer
                /\ Under(q, home) \in separate
             THEN [store[q] EXCEPT !.resolved = TRUE]
        ELSE store[q]]

\* record_disputed
RecordDisputed(store, disputed) ==
    [q \in Questions |->
        IF q \in disputed /\ store[q] # NoDoc THEN [store[q] EXCEPT !.disputed = TRUE] ELSE store[q]]

\* record_verdict, and what it turns down
MayAnswer(q, verdict) == ~(q.kind \in {"group", "staff"} /\ verdict = "same")
RecordVerdict(q, verdict) ==
    Put(q, [Doc(q) EXCEPT !.verdict = verdict, !.skipped = FALSE, !.disputed = FALSE,
                          !.resolved = FALSE])

\* skip
Skip(q) == Put(q, [review[q] EXCEPT !.skipped = TRUE])

\* record_choice; `chosen` is NoAnswer for "none of them"
RecordChoice(q, chosen) ==
    Put(q, [Doc(q) EXCEPT !.verdict = IF chosen = NoAnswer THEN "different" ELSE "same",
                          !.chosen = chosen, !.skipped = FALSE, !.disputed = FALSE])

\* record_split: the answers in the order they are written, one update each
SplitAnswers(members, same) ==
    LET answers(chosen, verdict) ==
            {<<Question("pair", pair), verdict>> :
                pair \in {p \in SUBSET members : Cardinality(p) = 2 /\ Cardinality(p \cap same) = chosen}}
    IN <<answers(2, "same"), answers(1, "different"),
         {<<Question("group", members), "different">>}>>
MayDivide(members, same) ==
    same \subseteq members /\ Cardinality(same) >= 2 /\ same # members

\* withdraw: a question no run asked goes with its answer
MayWithdraw(q) == Asked(q) /\ ~review[q].applied
Withdrawn(q) ==
    Put(q, IF ~review[q].held THEN NoDoc
           ELSE [review[q] EXCEPT !.verdict = NoAnswer, !.chosen = NoAnswer, !.disputed = FALSE])

\* mark_applied, and mark_applied_merges over the ids a run folded
MarkApplied(q) == IF Verdict(q) = "same" THEN Put(q, [review[q] EXCEPT !.applied = TRUE]) ELSE review
MarkAppliedMerges(store, home) ==
    [q \in Questions |->
        IF /\ q \in Pairs /\ store[q] # NoDoc /\ store[q].verdict = "same"
           /\ Cardinality(Under(q, home)) = 1
        THEN [store[q] EXCEPT !.applied = TRUE] ELSE store[q]]

\* record_undo, its two updates
UndoVerdict(q) == RecordVerdict(q, "different")
UndoApplied(q) == Put(q, [Doc(q) EXCEPT !.applied = FALSE])

-----------------------------------------------------------------------------
\* decisions: the answers by the records people are folded into now.  Two
\* documents may speak of the same records; the one read last is kept.
Answers(kinds, home) ==
    LET given == {q \in Questions : q.kind \in kinds /\ Verdict(q) # NoAnswer
                                    /\ Cardinality(Under(q, home)) >= 2}
    IN {<<Under(q, home), Verdict(q)>> : q \in given}
About(answers) == {a[1] : a \in answers}
Readings(answers) ==
    {r \in [About(answers) -> Verdicts] : \A m \in About(answers) : <<m, r[m]>> \in answers}
Decisions(home) == Readings(Answers(PersonKinds, home))

\* github_decisions
GithubDecisions(home) == Readings(Answers({"github"}, home))

\* staff_choices
StaffChoices(home, people) ==
    LET said == {q \in Questions :
                    q.kind = "staff" /\ Verdict(q) = "same" /\ Doc(q).chosen # NoAnswer}
    IN UNION {{<<home[p], Doc(q).chosen>> : p \in q.members \cap people} : q \in said}

=============================================================================
