----------------------------- MODULE NodeForms ------------------------------
(***************************************************************************)
(* The forms that change the graph by hand: pauk/admin/nodes.py, the undo  *)
(* of pauk/admin/decision_routes.py and `pauk admin overrides apply`.      *)
(* Graph and decision are two stores: a handler writes the one, then the   *)
(* other, and puts the graph back when the second write fails.             *)
(*                                                                         *)
(* `desk` is the handler under way.  `asked` and `broken` only observe:    *)
(* what people were told is done, and what was not brought to an end.      *)
(***************************************************************************)
EXTENDS Publish

CONSTANTS Forms,        \* which forms an instance has
          MaxForms,     \* bound: forms sent
          MayFail       \* whether Mongo may fail and handlers be cut short

NodeForm == {"edit", "delete", "create", "restore", "undo-set", "undo-delete"}
LinkForm == {"link", "unlink", "undo-unlink"}

ASSUME FormsAssumption ==
    /\ Forms \subseteq NodeForm \cup LinkForm \cup {"reapply"}
    /\ MaxForms \in Nat
    /\ MayFail \in BOOLEAN

VARIABLES desk, asked, broken

formVars == <<desk, asked, broken>>

Steps == {"idle", "write", "record", "record-op", "record-auto", "withdraw",
          "put-back", "give-back", "list", "apply"}
Handlers == [at : Steps,
             op : NodeForm \cup LinkForm \cup {"reapply"},
             on : Targets \cup {None},
             patch : Patches,                    \* fields of the form, or to give back
             before : Contents \cup {Absent},    \* the node as read, or its snapshot
             sent : 0 .. MaxForms]

FormsTypeOK ==
    /\ desk \in Handlers
    /\ asked \in [Nodes -> [gone : BOOLEAN, fields : Patches]]
    /\ broken \subseteq Targets

Handler(at, op, on, patch, before, sent) ==
    [at |-> at, op |-> op, on |-> on, patch |-> patch, before |-> before, sent |-> sent]
Free(sent) == Handler("idle", "reapply", None, NoPatch, Absent, sent)

FormsInit ==
    /\ desk = Free(0)
    /\ asked = [n \in Nodes |-> [gone |-> FALSE, fields |-> NoPatch]]
    /\ broken = {}

-----------------------------------------------------------------------------
\* a form is sent; what its handler reads first is read here
Send(at, op, on, patch, before) ==
    /\ desk.at = "idle"
    /\ op \in Forms
    /\ desk.sent < MaxForms
    /\ desk' = Handler(at, op, on, patch, before, desk.sent + 1)
    /\ UNCHANGED <<asked, broken>>

To(at) == desk' = [desk EXCEPT !.at = at] /\ UNCHANGED <<asked, broken>>
At(step, ops) == desk.at = step /\ desk.op \in ops

\* fields that somebody may or may not have set: nothing can be held against them
Less(patch, doubtful) ==
    [f \in Fields |-> IF doubtful[f] = Unset THEN patch[f] ELSE Unset]

\* the form is turned down with nothing changed, or with an error on the way
TurnedDown == desk' = Free(desk.sent) /\ UNCHANGED <<asked, broken>>
LeftBroken ==
    /\ desk' = Free(desk.sent)
    /\ broken' = broken \cup ({desk.on} \ {None})
    /\ asked' = IF desk.op \in {"edit", "create"}
                THEN [asked EXCEPT ![desk.on].fields = Less(@, desk.patch)] ELSE asked

\* the page says that it is done
NowAsked(n) ==
    CASE desk.op \in {"edit", "create"} ->
             [gone |-> FALSE, fields |-> Over(asked[n].fields, desk.patch)]
      [] desk.op = "delete" -> [gone |-> TRUE, fields |-> asked[n].fields]
      [] desk.op \in {"restore", "undo-delete"} ->
             [gone |-> FALSE, fields |-> asked[n].fields]
      [] desk.op = "undo-set" -> [gone |-> FALSE, fields |-> NoPatch]

Done ==
    /\ desk' = Free(desk.sent)
    /\ asked' = IF desk.op \in NodeForm
                THEN [asked EXCEPT ![desk.on] = NowAsked(desk.on)] ELSE asked
    /\ broken' = broken \ {desk.on}

-----------------------------------------------------------------------------
(* The first half: the graph.                                              *)

\* nodes.edit: the record is read and compared with the form
SendEdit(n, f, v) ==
    /\ Exists(n)
    /\ node[n][f] # v
    /\ Send("write", "edit", n, [NoPatch EXCEPT ![f] = v], node[n])
    /\ UNCHANGED <<graphVars, decisionVars>>

\* nodes.remove: the snapshot is read
SendDelete(n) ==
    /\ Exists(n)
    /\ Send("write", "delete", n, NoPatch, node[n])
    /\ UNCHANGED <<graphVars, decisionVars>>

\* nodes.create, nodes.restore
SendCreate(n, fields) ==
    /\ ~Exists(n)
    /\ Send("write", "create", n, fields, Absent)
    /\ UNCHANGED <<graphVars, decisionVars>>

SendRestore(n) ==
    /\ ~Exists(n)
    /\ DeletedFields(n) # Absent
    /\ Send("write", "restore", n, Known(DeletedFields(n)), Absent)
    /\ UNCHANGED <<graphVars, decisionVars>>

\* nodes.link, nodes.unlink: one query, and what to record is known
SendLink(l) ==
    /\ Joined(l)
    /\ Connect({l})
    /\ Send("record", "link", l, NoPatch, Absent)
    /\ UNCHANGED decisionVars

SendUnlink(l) ==
    /\ l \in link
    /\ Disconnect({l})
    /\ Send("record", "unlink", l, NoPatch, Absent)
    /\ UNCHANGED decisionVars

\* update_node: the record may be gone, or newer than the page of the form;
\* one that went after the last look is written anew
WriteEdit ==
    /\ At("write", {"edit"})
    /\ \/ Upsert(desk.on, desk.patch) /\ To("record")
       \/ TurnedDown /\ UNCHANGED graphVars
    /\ UNCHANGED decisionVars

\* create_node: refused when the record is there by now
WriteNew ==
    /\ At("write", {"create", "restore"})
    /\ \/ Upsert(desk.on, desk.patch) /\ To("withdraw")
       \/ Exists(desk.on) /\ TurnedDown /\ UNCHANGED graphVars
    /\ UNCHANGED decisionVars

\* delete_node, with or without cascade
WriteDelete ==
    /\ At("write", {"delete"})
    /\ \E cascade \in BOOLEAN :
        LET attached == LinksOf(desk.on) \cap link # {}
        IN \/ cascade /\ Delete({desk.on}) /\ To("record")
           \/ ~cascade /\ Exists(desk.on) /\ ~attached /\ Delete({desk.on}) /\ To("record")
           \/ ~cascade /\ attached /\ TurnedDown /\ UNCHANGED graphVars
           \/ ~Exists(desk.on) /\ TurnedDown /\ UNCHANGED graphVars
    /\ UNCHANGED decisionVars

\* the record read back after the write is gone: the handler stops there
Vanished ==
    /\ \/ At("record", {"edit"})
       \/ At("withdraw", {"create", "restore"})
    /\ ~Exists(desk.on)
    /\ LeftBroken
    /\ UNCHANGED <<graphVars, decisionVars>>

-----------------------------------------------------------------------------
(* The second half: the decision.                                          *)

\* an earlier deletion is withdrawn, or the next publish would repeat it
MutWithdrawTombstone ==
    /\ At("withdraw", {"create", "restore"})
    /\ UNCHANGED doc
    /\ IF desk.op = "create" THEN To("record") ELSE Done
    /\ UNCHANGED <<graphVars, rel>>
WithdrawTombstone ==
    /\ At("withdraw", {"create", "restore"})
    /\ IF Withdrawable(desk.on, "delete") THEN Withdraw(desk.on) ELSE UNCHANGED doc
    /\ IF desk.op = "create" THEN To("record") ELSE Done
    /\ UNCHANGED <<graphVars, rel>>

Record ==
    /\ At("record", {"edit", "delete", "create"})
    /\ CASE desk.op = "edit"   -> RecordFirst(desk.on, "set", desk.patch, Absent)
         [] desk.op = "create" -> RecordFirst(desk.on, "create", desk.patch, Absent)
         [] desk.op = "delete" -> RecordFirst(desk.on, "delete", NoPatch, Kept(desk.before))
    /\ IF desk.op = "edit" THEN To("record-op") ELSE Done
    /\ UNCHANGED <<graphVars, rel>>

RecordOp ==
    /\ desk.at = "record-op"
    /\ RecordSecond(desk.on)
    /\ To("record-auto")
    /\ UNCHANGED <<graphVars, rel>>

RecordAutoValue ==
    /\ desk.at = "record-auto"
    /\ RecordAuto(desk.on, desk.patch, desk.before)
    /\ Done
    /\ UNCHANGED <<graphVars, rel>>

RecordLinkForm ==
    /\ At("record", {"link", "unlink"})
    /\ RecordLink(desk.on, IF desk.op = "link" THEN "link" ELSE "delete")
    /\ Done
    /\ UNCHANGED <<graphVars, doc>>

-----------------------------------------------------------------------------
(* nodes._record: Mongo did not take the decision, the graph is put back.  *)

MongoFails ==
    /\ MayFail
    /\ \/ desk.at \in {"record", "record-op", "record-auto"}
       \/ desk.at = "withdraw" /\ desk.op \in {"create", "restore"}
    /\ To("put-back")
    /\ UNCHANGED <<graphVars, decisionVars>>

\* what the changed fields held
Former == [f \in Fields |-> IF desk.patch[f] = Unset THEN Unset ELSE desk.before[f]]

PutBack ==
    /\ desk.at = "put-back"
    /\ LET n == desk.on
       IN \/ desk.op = "edit" /\ Upsert(n, Former)
          \/ desk.op = "edit" /\ ~Exists(n) /\ UNCHANGED graphVars
          \/ desk.op = "delete" /\ Upsert(n, Known(desk.before))
          \/ desk.op = "delete" /\ Exists(n) /\ UNCHANGED graphVars
          \/ desk.op \in {"create", "restore"} /\
                IF LinksOf(n) \cap link = {} THEN Delete({n}) ELSE UNCHANGED graphVars
          \/ desk.op = "link" /\ Disconnect({n})
          \/ desk.op = "unlink" /\ Connect({n})
    /\ LeftBroken
    /\ UNCHANGED decisionVars

-----------------------------------------------------------------------------
(* decision_routes.undo: the decision first, then the graph, then all      *)
(* other decisions again.                                                  *)

SendUndoSet(n) ==
    /\ Send("withdraw", "undo-set", n, SourceOfTruth(n), Absent)
    /\ doc[n].op = "set"
    /\ UNCHANGED <<graphVars, decisionVars>>

SendUndoDelete(n) ==
    /\ Send("withdraw", "undo-delete", n, NoPatch, DeletedFields(n))
    /\ doc[n].op = "delete"
    /\ UNCHANGED <<graphVars, decisionVars>>

SendUndoUnlink(l) ==
    /\ Send("give-back", "undo-unlink", l, NoPatch, Absent)
    /\ WithdrawableLink(l)
    /\ WithdrawLink(l)
    /\ UNCHANGED <<graphVars, doc>>

\* only the decision the page showed; otherwise there is no such decision
WithdrawShown ==
    /\ At("withdraw", {"undo-set", "undo-delete"})
    /\ LET op == IF desk.op = "undo-set" THEN "set" ELSE "delete"
       IN IF Withdrawable(desk.on, op)
          THEN Withdraw(desk.on) /\ To("give-back")
          ELSE TurnedDown /\ UNCHANGED doc
    /\ UNCHANGED <<graphVars, rel>>

GiveBack ==
    /\ desk.at = "give-back"
    /\ LET n == desk.on
           none == \/ desk.op = "undo-set" /\ desk.patch = NoPatch
                   \/ desk.op = "undo-delete" /\ desk.before = Absent
           refused == \/ desk.op = "undo-set" /\ ~Exists(n)
                      \/ desk.op = "undo-delete" /\ Exists(n)
                      \/ desk.op = "undo-unlink" /\ ~Joined(n)
       IN \/ none /\ To("list") /\ UNCHANGED graphVars
          \/ ~none /\ refused /\ LeftBroken /\ UNCHANGED graphVars
          \/ ~none /\ desk.op = "undo-set" /\ Upsert(n, desk.patch) /\ To("list")
          \/ ~none /\ desk.op = "undo-delete" /\ Upsert(n, Known(desk.before)) /\ To("list")
          \/ desk.op = "undo-unlink" /\ Joined(n) /\ Connect({n}) /\ To("list")
    /\ UNCHANGED decisionVars

SendReapply ==
    /\ Send("list", "reapply", None, NoPatch, Absent)
    /\ UNCHANGED <<graphVars, decisionVars>>

ListAll ==
    /\ desk.at = "list"
    /\ ListDecisions("desk")
    /\ To("apply")
    /\ UNCHANGED <<graphVars, decisionVars, hand>>

ReapplyAll ==
    /\ desk.at = "apply"
    /\ ApplyUnlink("desk") \/ ApplyLook("desk") \/ ApplyWrite("desk")
    /\ UNCHANGED formVars

ReappliedAll ==
    /\ desk.at = "apply"
    /\ Applied("desk")
    /\ Done
    /\ UNCHANGED <<graphVars, decisionVars, todo, hand>>

\* the panel is killed, or an error nobody catches ends the handler
Cut ==
    /\ MayFail
    /\ desk.at # "idle"
    /\ LeftBroken
    /\ todo' = [todo EXCEPT !["desk"] = {}]
    /\ hand' = [hand EXCEPT !["desk"] = NoOrder]
    /\ UNCHANGED <<graphVars, decisionVars>>

Sending ==
    \/ \E n \in Nodes :
        \/ \E f \in Fields, v \in Values \cup {None} : SendEdit(n, f, v)
        \/ \E fields \in [Fields -> Values \cup {Unset}] : SendCreate(n, fields)
        \/ SendDelete(n) \/ SendRestore(n) \/ SendUndoSet(n) \/ SendUndoDelete(n)
    \/ \E l \in Links : SendLink(l) \/ SendUnlink(l) \/ SendUndoUnlink(l)
    \/ SendReapply

Handling ==
    \/ WriteEdit \/ WriteNew \/ WriteDelete \/ Vanished
    \/ WithdrawTombstone \/ Record \/ RecordOp \/ RecordAutoValue \/ RecordLinkForm
    \/ MongoFails \/ PutBack \/ WithdrawShown \/ GiveBack

Desk ==
    \/ (Sending \/ Handling) /\ UNCHANGED <<supply, etl, todo, hand>>
    \/ (ListAll \/ ReapplyAll \/ ReappliedAll \/ Cut) /\ UNCHANGED <<supply, etl>>
=============================================================================
