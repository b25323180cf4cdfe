----------------------------- MODULE ReviewDesk -----------------------------
(***************************************************************************)
(* The queue in the panel: pauk/admin/review_routes.py over the review     *)
(* store, the fold of mutations.merge_nodes and the undo of                *)
(* pauk/graph/unmerge.py.  One request is in hand at a time and takes no   *)
(* lock: any of its steps may fall between two steps of a run.             *)
(***************************************************************************)
EXTENDS FoldRuns

CONSTANTS MaxRequests,    \* bound: requests
          Requests        \* which of answer, skip, divide, withdraw and undo there are

VARIABLES desk,           \* the request in hand
          requests,       \* requests so far
          crossed         \* some request that folds or undoes met a run under way

deskVars == <<desk, requests>>

ASSUME DeskAssumption == MaxRequests \in Nat

NoPerson == 0
Resting == [at |-> "idle", q |-> NoAnswer, keep |-> NoPerson, drop |-> NoPerson, ids |-> {},
            back |-> Bare, works |-> {}, orcid |-> NoValue,
            rows |-> [p \in People |-> Absent], todo |-> <<>>]
DeskTypeOK ==
    /\ desk \in [at : {"idle", "read", "list", "fold", "mark", "divide", "undo", "patch", "give",
                      "take", "rows", "verdict", "unmark"},
                 q : Questions \cup {NoAnswer}, keep : People \cup {NoPerson}, drop : People \cup {NoPerson},
                 ids : SUBSET People, back : Contents, works : SUBSET Works, orcid : Orcids \cup {NoValue},
                 rows : [People -> Contents \cup {Absent}], todo : Seq(SUBSET (Questions \X Verdicts))]
    /\ requests \in 0 .. MaxRequests /\ crossed \in BOOLEAN

DeskInit == desk = Resting /\ requests = 0 /\ crossed = FALSE

Request(kind) ==
    /\ desk.at = "idle" /\ kind \in Requests /\ requests < MaxRequests
    /\ requests' = requests + 1
At(from) == desk.at = from /\ UNCHANGED requests
Go(to) == desk' = [desk EXCEPT !.at = to]
Finish == desk' = Resting

-----------------------------------------------------------------------------
\* answer, from a card of the queue, on a page that may be older than another
\* answer: the verdict is stored before anything is folded.  (Skips and divisions
\* from such a page are left out.)
Answer(q, verdict) ==
    /\ Request("answer") /\ MayAnswer(q, verdict)
    /\ review' = RecordVerdict(q, verdict)
    /\ desk' = IF verdict = "same" /\ q \in Pairs THEN [Resting EXCEPT !.at = "read", !.q = q] ELSE Resting
    /\ UNCHANGED <<storeVars, runVars>>
SkipQuestion(q) ==
    /\ Request("skip") /\ Asked(q) /\ Verdict(q) = NoAnswer /\ ~review[q].skipped
    /\ review' = Skip(q)
    /\ Finish
    /\ UNCHANGED <<storeVars, runVars>>
WithdrawAnswer(q) ==
    /\ Request("withdraw") /\ Verdict(q) # NoAnswer /\ MayWithdraw(q)
    /\ review' = Withdrawn(q)
    /\ Finish
    /\ UNCHANGED <<storeVars, runVars>>

\* record_split: one update per pair, those inside first
Divide(q, same) ==
    /\ Request("divide") /\ q.kind = "group" /\ Verdict(q) = NoAnswer
    /\ MayDivide(q.members, same)
    /\ desk' = [Resting EXCEPT !.at = "divide", !.todo = SplitAnswers(q.members, same)]
    /\ UNCHANGED <<storeVars, runVars, review>>
DivideOne ==
    /\ At("divide")
    /\ \E a \in Head(desk.todo) :
        /\ review' = RecordVerdict(a[1], a[2])
        /\ LET left == IF Head(desk.todo) = {a} THEN Tail(desk.todo)
                       ELSE [desk.todo EXCEPT ![1] = @ \ {a}]
           IN desk' = IF left = <<>> THEN Resting ELSE [desk EXCEPT !.todo = left]
    /\ UNCHANGED <<storeVars, runVars>>

-----------------------------------------------------------------------------
\* _fold_now and merge_nodes: the better ranked of two nodes names the other
FoldNow ==
    /\ At("read")
    /\ desk' = IF \E p \in desk.q.members : node[p] = Absent THEN Resting
               ELSE LET keep == Canonical(desk.q.members, WorksOf(node), OrcidsOf(node))
                        drop == CHOOSE p \in desk.q.members : p # keep
                    IN [desk EXCEPT !.at = "list", !.keep = keep, !.drop = drop,
                                    !.ids = (node[keep].ids \cup node[drop].ids \cup {drop}) \ {keep}]
    /\ UNCHANGED <<storeVars, runVars, review>>
ListNow ==
    /\ At("list") /\ Go("fold")
    /\ node' = SetIds(desk.keep, desk.ids)
    /\ UNCHANGED <<row, saved, runVars, review>>
FoldPair ==
    /\ At("fold") /\ Go("mark")
    /\ node' = FoldNodes({<<desk.drop, desk.keep>>})
    /\ UNCHANGED <<row, saved, runVars, review>>
MarkNow ==
    /\ At("mark") /\ Finish
    /\ review' = MarkApplied(desk.q)
    /\ UNCHANGED <<storeVars, runVars>>

-----------------------------------------------------------------------------
\* split_person.  The row to rebuild a record from: the prepared one, or one
\* kept from before a merge that names nobody the survivor did not swallow
KeptWithin(p, allowed) ==
    LET fit == {i \in DOMAIN saved[p] : saved[p][i].ids \subseteq allowed}
    IN IF fit = {} THEN Absent ELSE saved[p][Min(fit)]
SourceRow(keep, p) == IF row[p] # Absent THEN row[p] ELSE KeptWithin(p, node[keep].ids \ {p})

Returning(keep, drop) == {drop} \cup SourceRow(keep, drop).ids
Remaining(keep, drop) == ({keep} \cup node[keep].ids) \ Returning(keep, drop)
\* one that aggregates the returning record gives way to an earlier one that does not
Rebuilt(keep, drop, p) ==
    LET stays == Remaining(keep, drop)
        own == SourceRow(keep, p)
        earlier == KeptWithin(p, stays)
    IN IF own = Absent \/ p \notin stays \/ own.ids \subseteq stays \/ earlier = Absent
       THEN own ELSE earlier
FromArchive(keep, drop) ==
    \/ \E p \in {keep, drop} \cup node[keep].ids : row[p] = Absent /\ saved[p] # <<>>
    \/ \E p \in Remaining(keep, drop) : Rebuilt(keep, drop, p) # SourceRow(keep, p)

\* the rows that between them describe who stays, the survivor's first
Sources(keep, drop) ==
    LET stays == Remaining(keep, drop)
        take(done, p) ==
            LET r == Rebuilt(keep, drop, p)
            IN IF r = Absent \/ p \in done.covered THEN done
               ELSE [rows |-> done.rows \cup {[by |-> p, what |-> r]},
                     covered |-> done.covered \cup {p} \cup r.ids,
                     mixed |-> done.mixed \/ ~(({p} \cup r.ids) \subseteq stays)]
    IN FoldLeft(take, [rows |-> {}, covered |-> {}, mixed |-> FALSE],
                <<keep>> \o Ordered(stays \ {keep}, <))
Whole(keep, drop) == Remaining(keep, drop) \subseteq Sources(keep, drop).covered
Others(keep, drop) == {s \in Sources(keep, drop).rows : s.by # keep}
Survivor(keep, drop) == MergeAll(keep, Stored(keep, [p \in People |-> Rebuilt(keep, drop, p)]),
                                 Others(keep, drop))

\* _check_archived_aggregate: nothing was added to the row after the merge
Unchanged(keep, drop) ==
    \/ row[keep] = Absent
    \/ LET expected == Merge(keep, Survivor(keep, drop), SourceRow(keep, drop))
       IN row[keep].works = expected.works /\ row[keep].orcid = expected.orcid

Divisible(keep, drop) ==
    /\ SourceRow(keep, drop) # Absent
    /\ ~Sources(keep, drop).mixed
    /\ FromArchive(keep, drop) => /\ Whole(keep, drop) /\ Unchanged(keep, drop)
                                  /\ Rebuilt(keep, drop, keep) # Absent

\* split_back: refused unless applied, and unless exactly one of the two is left
Undo(q) ==
    /\ Request("undo") /\ Asked(q) /\ review[q].applied
    /\ desk' = [Resting EXCEPT !.at = "undo", !.q = q]
    /\ UNCHANGED <<storeVars, runVars, review>>
Patched(keep, drop) ==
    LET back == SourceRow(keep, drop)
        whole == Whole(keep, drop)
        known == whole /\ Rebuilt(keep, drop, keep) # Absent
        survivor == Survivor(keep, drop)
        kept == node[keep].ids \ Returning(keep, drop)
    IN [desk EXCEPT !.at = "patch", !.keep = keep, !.drop = drop, !.ids = kept, !.back = back,
            !.orcid = IF known /\ back.orcid # NoValue THEN survivor.orcid ELSE node[keep].orcid,
            !.works = IF whole
                      THEN back.works \ UNION {s.what.works : s \in Sources(keep, drop).rows}
                      ELSE {},
            !.rows = [p \in People |->
                        IF ~FromArchive(keep, drop) THEN Absent
                        ELSE IF p = keep THEN [survivor EXCEPT !.ids = kept]
                        ELSE IF p = drop THEN back ELSE Absent]]
LookUp ==
    /\ At("undo")
    /\ LET left == desk.q.members \cap Present(node)
       IN IF Cardinality(left) # 1 THEN Finish
          ELSE LET keep == CHOOSE p \in left : TRUE
                   drop == CHOOSE p \in desk.q.members : p # keep
               IN IF drop \in node[keep].ids /\ Divisible(keep, drop)
                  THEN desk' = Patched(keep, drop) ELSE Finish
    /\ UNCHANGED <<storeVars, runVars, review>>
PatchSurvivor ==
    /\ At("patch") /\ Go("give")
    /\ node' = [node EXCEPT ![desk.keep] =
                    [ids |-> desk.ids, works |-> Stored(desk.keep, node).works, orcid |-> desk.orcid]]
    /\ UNCHANGED <<row, saved, runVars, review>>
\* _give_back: a record that is there already stops the undo half-way
GiveBack ==
    /\ At("give")
    /\ IF node[desk.drop] # Absent THEN Finish /\ node' = node
       ELSE Go("take") /\ node' = [node EXCEPT ![desk.drop] = desk.back]
    /\ UNCHANGED <<row, saved, runVars, review>>
TakeOff ==
    /\ At("take") /\ Go("rows")
    /\ node' = IF node[desk.keep] = Absent THEN node
               ELSE [node EXCEPT ![desk.keep].works = @ \ desk.works]
    /\ UNCHANGED <<row, saved, runVars, review>>
RestoreRows ==
    /\ At("rows") /\ Go("verdict")
    /\ row' = [p \in People |-> IF desk.rows[p] = Absent THEN row[p] ELSE desk.rows[p]]
    /\ UNCHANGED <<node, saved, runVars, review>>
\* record_undo
UndoneVerdict ==
    /\ At("verdict") /\ Go("unmark")
    /\ review' = UndoVerdict(desk.q)
    /\ UNCHANGED <<storeVars, runVars>>
UndoneMark ==
    /\ At("unmark") /\ Finish
    /\ review' = UndoApplied(desk.q)
    /\ UNCHANGED <<storeVars, runVars>>

\* the cards of the queue are of questions somebody asked or answered
DeskNext ==
    \/ \E q \in Questions :
        /\ Asked(q)
        /\ \/ \E v \in Verdicts : Answer(q, v)
           \/ SkipQuestion(q) \/ WithdrawAnswer(q) \/ Undo(q)
           \/ \E same \in SUBSET q.members : Divide(q, same)
    \/ DivideOne
    \/ FoldNow \/ ListNow \/ FoldPair \/ MarkNow
    \/ LookUp \/ PatchSurvivor \/ GiveBack \/ TakeOff \/ RestoreRows \/ UndoneVerdict \/ UndoneMark
=============================================================================
