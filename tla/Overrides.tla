----------------------------- MODULE Overrides ------------------------------
(***************************************************************************)
(* Manual decisions: the documents of pauk/graph/overrides.py.  One        *)
(* document per node holds an edit, a deletion and a claim at once, one    *)
(* per relationship a deletion or a claim.  Left out: who, when and why.   *)
(***************************************************************************)
EXTENDS GraphStore

VARIABLES doc,       \* Nodes -> the decision about the node
          rel          \* Links -> the decision about the relationship

decisionVars == <<doc, rel>>

Decisions == [op : {"none", "set", "delete", "create"}, active : BOOLEAN,
              made : BOOLEAN,       \* "created": somebody added the record
              fields : Patches,     \* what was set by hand
              auto : Patches,       \* auto_value: what it replaced
              source : Patches,     \* source_value: what a publish covered
              snap : Contents \cup {Absent}]
LinkDecisions == [op : {"none", "delete", "link"}, active : BOOLEAN]

NoDecision == [op |-> "none", active |-> FALSE, made |-> FALSE, fields |-> NoPatch,
               auto |-> NoPatch, source |-> NoPatch, snap |-> Absent]
NoLinkDecision == [op |-> "none", active |-> FALSE]

OverridesTypeOK ==
    /\ doc \in [Nodes -> Decisions]
    /\ rel \in [Links -> LinkDecisions]

OverridesInit ==
    /\ doc = [n \in Nodes |-> NoDecision]
    /\ rel = [l \in Links |-> NoLinkDecision]

-----------------------------------------------------------------------------
(* What others read.                                                       *)

\* tombstoned_ids, tombstoned_relationships, claimed_relationships
Tombstoned == {n \in Nodes : doc[n].active /\ doc[n].op = "delete"}
Unlinked == {l \in Links : rel[l].active /\ rel[l].op = "delete"}
ClaimedLinks == {l \in Links : rel[l].active /\ rel[l].op = "link"}

\* prune._claimed: any decision about a record but its deletion keeps it
ClaimedNodes == {n \in Nodes : doc[n].active /\ doc[n].op # "delete"}

\* decisions.deleted_fields, but for its fallback to the feed
DeletedFields(n) == IF doc[n].op = "delete" THEN doc[n].snap ELSE Absent

\* decisions.source_of_truth
SourceOfTruth(n) ==
    [f \in Fields |-> IF doc[n].fields[f] = Unset THEN Unset
                      ELSE IF doc[n].source[f] # Unset THEN doc[n].source[f]
                      ELSE doc[n].auto[f]]

\* active_overrides, less the claims that apply_overrides passes over
MutNoCreations ==
    {[on |-> n, what |-> doc[n].op, fields |-> doc[n].fields] :
        n \in {m \in Nodes : doc[m].active /\ doc[m].op # "create"}}
    \cup {[on |-> l, what |-> "unlink", fields |-> NoPatch] : l \in Unlinked}
MutNoUnlinks ==
    {[on |-> n, what |-> doc[n].op, fields |-> doc[n].fields] :
        n \in {m \in Nodes : doc[m].active}}
ActiveDecisions ==
    {[on |-> n, what |-> doc[n].op, fields |-> doc[n].fields] :
        n \in {m \in Nodes : doc[m].active}}
    \cup {[on |-> l, what |-> "unlink", fields |-> NoPatch] : l \in Unlinked}

-----------------------------------------------------------------------------
(* record_override: the first update, for "set" the second one, and the    *)
(* automatic values.                                                       *)

MutRecordReplaces(n, op, patch, snap) ==
    doc' = [doc EXCEPT ![n] =
               [op |-> IF op # "set" THEN op
                       ELSE IF doc[n].op = "none" THEN "set" ELSE doc[n].op,
                active |-> TRUE,
                made |-> doc[n].made \/ op = "create",
                fields |-> IF op = "delete" THEN doc[n].fields ELSE patch,
                auto |-> doc[n].auto,
                source |-> doc[n].source,
                snap |-> IF snap = Absent THEN doc[n].snap ELSE snap]]
RecordFirst(n, op, patch, snap) ==
    doc' = [doc EXCEPT ![n] =
               [op |-> IF op # "set" THEN op
                       ELSE IF doc[n].op = "none" THEN "set" ELSE doc[n].op,
                active |-> TRUE,
                made |-> doc[n].made \/ op = "create",
                fields |-> Over(doc[n].fields, patch),
                auto |-> doc[n].auto,
                source |-> doc[n].source,
                snap |-> IF snap = Absent THEN doc[n].snap ELSE snap]]

RecordSecond(n) ==
    doc' = [doc EXCEPT ![n].op = IF doc[n].op = "create" THEN "create" ELSE "set"]

\* once per field: the first edit is the one that replaced the pipeline's
RecordAuto(n, patch, before) ==
    doc' = [doc EXCEPT ![n].auto =
               [f \in Fields |-> IF patch[f] # Unset /\ doc[n].auto[f] = Unset
                                 THEN before[f] ELSE doc[n].auto[f]]]

\* deactivate_override with only_op: does it apply, and what it does
Withdrawable(n, op) == doc[n].active /\ doc[n].op = op

MutWithdraw(n) == doc' = [doc EXCEPT ![n].active = FALSE]
Withdraw(n) ==
    LET standing == doc[n].op = "delete" /\ (doc[n].fields # NoPatch \/ doc[n].made)
    IN doc' = [doc EXCEPT ![n] =
                  [op |-> IF ~standing THEN doc[n].op
                          ELSE IF doc[n].made THEN "create" ELSE "set",
                   active |-> standing,
                   made |-> doc[n].made,
                   fields |-> doc[n].fields,
                   auto |-> doc[n].auto,
                   source |-> doc[n].source,
                   snap |-> IF standing THEN Absent ELSE doc[n].snap]]

\* apply_overrides notes what it covers
Cover(n, fields) ==
    doc' = [doc EXCEPT ![n].source =
               [f \in Fields |-> IF fields[f] # Unset /\ fields[f] # node[n][f]
                                 THEN node[n][f] ELSE doc[n].source[f]]]

\* record_relationship_override; deactivate_relationship_override with only_op,
\* which does not ask whether the decision is still active
WithdrawableLink(l) == rel[l].op = "delete"
RecordLink(l, op) == rel' = [rel EXCEPT ![l] = [op |-> op, active |-> TRUE]]
WithdrawLink(l) == rel' = [rel EXCEPT ![l].active = FALSE]
=============================================================================
