--------------------------- MODULE CurationProofs ---------------------------
(* What is proved of Curation.  First type correctness, and: nothing people *)
(* were told is done is lost from the record.                               *)
EXTENDS Curation, TLAPS

-----------------------------------------------------------------------------
(* The operators on dictionaries. *)

LEMMA ContentsArePatches == Contents \subseteq Patches
  BY DEF Contents, Patches

LEMMA BareTyped == Bare \in Contents /\ NoPatch \in Patches
  BY DEF Bare, NoPatch, Contents, Patches

LEMMA OverTyped ==
  ASSUME NEW patch \in Patches
  PROVE  /\ \A old \in Contents : Over(old, patch) \in Contents
         /\ \A old \in Patches : Over(old, patch) \in Patches
  BY DEF Over, Contents, Patches

LEMMA KnownTyped ==
  ASSUME NEW row \in Contents
  PROVE  Known(row) \in Patches /\ Kept(row) \in Contents \cup {Absent}
  BY DEF Known, Kept, Contents, Patches

LEMMA MergedTyped ==
  ASSUME GraphTypeOK, NEW n \in Nodes, NEW patch \in Patches
  PROVE  Merged(n, patch) \in Contents
  <1>1. (IF Exists(n) THEN node[n] ELSE Bare) \in Contents
    BY BareTyped DEF Exists, GraphTypeOK
  <1> QED
    BY <1>1, OverTyped DEF Merged

-----------------------------------------------------------------------------
(* The graph. *)

LEMMA UpsertTyped ==
  ASSUME GraphTypeOK, NEW n \in Nodes, NEW patch \in Patches, Upsert(n, patch)
  PROVE  GraphTypeOK'
  BY MergedTyped DEF Upsert, GraphTypeOK

LEMMA DeleteTyped ==
  ASSUME GraphTypeOK, NEW gone, Delete(gone)
  PROVE  GraphTypeOK'
  BY DEF Delete, GraphTypeOK

LEMMA ConnectTyped ==
  ASSUME GraphTypeOK, NEW links \in SUBSET Links, Connect(links)
  PROVE  GraphTypeOK'
  BY DEF Connect, GraphTypeOK

LEMMA DisconnectTyped ==
  ASSUME GraphTypeOK, NEW links, Disconnect(links)
  PROVE  GraphTypeOK'
  BY DEF Disconnect, GraphTypeOK

LEMMA GraphKept ==
  ASSUME GraphTypeOK, UNCHANGED graphVars
  PROVE  GraphTypeOK'
  BY DEF GraphTypeOK, graphVars

-----------------------------------------------------------------------------
(* The decisions.  An active one says something, or it could not be replayed. *)

Written == \A n \in Nodes : doc[n].active => doc[n].op # "none"
DecisionsOK == OverridesTypeOK /\ Written

LEMMA DocTyped ==
  ASSUME DecisionsOK, NEW n \in Nodes, NEW d \in Decisions,
         d.active => d.op # "none",
         doc' = [doc EXCEPT ![n] = d], UNCHANGED rel
  PROVE  DecisionsOK'
  BY DEF DecisionsOK, OverridesTypeOK, Written

LEMMA DecisionsKept ==
  ASSUME DecisionsOK, UNCHANGED decisionVars
  PROVE  DecisionsOK'
  BY DEF DecisionsOK, OverridesTypeOK, Written, decisionVars

LEMMA RecordFirstTyped ==
  ASSUME DecisionsOK, NEW n \in Nodes, NEW op \in {"set", "delete", "create"},
         NEW patch \in Patches, NEW snap \in Contents \cup {Absent},
         RecordFirst(n, op, patch, snap), UNCHANGED rel
  PROVE  DecisionsOK'
  <1> DEFINE d == [op |-> IF op # "set" THEN op
                          ELSE IF doc[n].op = "none" THEN "set" ELSE doc[n].op,
                   active |-> TRUE,
                   made |-> doc[n].made \/ op = "create",
                   fields |-> Over(doc[n].fields, patch),
                   auto |-> doc[n].auto,
                   source |-> doc[n].source,
                   snap |-> IF snap = Absent THEN doc[n].snap ELSE snap]
  <1>1. doc[n] \in Decisions
    BY DEF DecisionsOK, OverridesTypeOK
  <1>2. Over(doc[n].fields, patch) \in Patches
    BY <1>1, OverTyped DEF Decisions
  <1>3. d \in Decisions /\ d.op # "none"
    BY <1>1, <1>2 DEF Decisions
  <1>4. doc' = [doc EXCEPT ![n] = d]
    BY DEF RecordFirst
  <1> HIDE DEF d
  <1> QED
    BY <1>3, <1>4, DocTyped

LEMMA RecordSecondTyped ==
  ASSUME DecisionsOK, NEW n \in Nodes, RecordSecond(n), UNCHANGED rel
  PROVE  DecisionsOK'
  <1> DEFINE d == [doc[n] EXCEPT !.op = IF doc[n].op = "create" THEN "create" ELSE "set"]
  <1>1. doc[n] \in Decisions
    BY DEF DecisionsOK, OverridesTypeOK
  <1>2. d \in Decisions /\ d.op # "none"
    BY <1>1 DEF Decisions
  <1>3. doc' = [doc EXCEPT ![n] = d]
    BY DEF RecordSecond
  <1> HIDE DEF d
  <1> QED
    BY <1>2, <1>3, DocTyped

LEMMA RecordAutoTyped ==
  ASSUME DecisionsOK, NEW n \in Nodes, NEW patch \in Patches, NEW before \in Contents,
         RecordAuto(n, patch, before), UNCHANGED rel
  PROVE  DecisionsOK'
  <1> DEFINE a == [f \in Fields |-> IF patch[f] # Unset /\ doc[n].auto[f] = Unset
                                    THEN before[f] ELSE doc[n].auto[f]]
  <1> DEFINE d == [doc[n] EXCEPT !.auto = a]
  <1>1. doc[n] \in Decisions
    BY DEF DecisionsOK, OverridesTypeOK
  <1>2. a \in Patches
    BY <1>1 DEF Decisions, Patches, Contents
  <1>3. doc' = [doc EXCEPT ![n] = d]
    BY DEF RecordAuto
  <1> HIDE DEF a
  <1>4. d \in Decisions /\ (d.active => d.op # "none")
    BY <1>1, <1>2 DEF Decisions, DecisionsOK, Written
  <1> HIDE DEF d
  <1> QED
    BY <1>3, <1>4, DocTyped

LEMMA CoverTyped ==
  ASSUME GraphTypeOK, DecisionsOK, NEW n \in Nodes, NEW fields \in Patches,
         Exists(n), Cover(n, fields), UNCHANGED rel
  PROVE  DecisionsOK'
  <1> DEFINE s == [f \in Fields |-> IF fields[f] # Unset /\ fields[f] # node[n][f]
                                    THEN node[n][f] ELSE doc[n].source[f]]
  <1> DEFINE d == [doc[n] EXCEPT !.source = s]
  <1>1. doc[n] \in Decisions /\ node[n] \in Contents
    BY DEF DecisionsOK, OverridesTypeOK, GraphTypeOK, Exists
  <1>2. s \in Patches
    BY <1>1 DEF Decisions, Patches, Contents
  <1>3. doc' = [doc EXCEPT ![n] = d]
    BY DEF Cover
  <1> HIDE DEF s
  <1>4. d \in Decisions /\ (d.active => d.op # "none")
    BY <1>1, <1>2 DEF Decisions, DecisionsOK, Written
  <1> HIDE DEF d
  <1> QED
    BY <1>3, <1>4, DocTyped

LEMMA WithdrawTyped ==
  ASSUME DecisionsOK, NEW n \in Nodes, Withdraw(n), UNCHANGED rel
  PROVE  DecisionsOK'
  <1> DEFINE standing == doc[n].op = "delete" /\ (doc[n].fields # NoPatch \/ doc[n].made)
  <1> DEFINE d == [op |-> IF ~standing THEN doc[n].op
                          ELSE IF doc[n].made THEN "create" ELSE "set",
                   active |-> standing,
                   made |-> doc[n].made,
                   fields |-> doc[n].fields,
                   auto |-> doc[n].auto,
                   source |-> doc[n].source,
                   snap |-> IF standing THEN Absent ELSE doc[n].snap]
  <1>1. doc[n] \in Decisions
    BY DEF DecisionsOK, OverridesTypeOK
  <1>2. doc' = [doc EXCEPT ![n] = d]
    BY DEF Withdraw
  <1>3. standing \in BOOLEAN
    OBVIOUS
  <1>4. standing => d.op # "none"
    OBVIOUS
  <1> HIDE DEF standing
  <1>5. d \in Decisions /\ d.active = standing
    BY <1>1, <1>3 DEF Decisions
  <1> HIDE DEF d
  <1> QED
    BY <1>2, <1>4, <1>5, DocTyped

LEMMA RecordLinkTyped ==
  ASSUME DecisionsOK, NEW l \in Links, NEW op \in {"delete", "link"},
         RecordLink(l, op) \/ WithdrawLink(l), UNCHANGED doc
  PROVE  DecisionsOK'
  <1>1. DecisionsOK' <=> rel' \in [Links -> LinkDecisions]
    BY DEF DecisionsOK, OverridesTypeOK, Written
  <1>2. rel \in [Links -> LinkDecisions] /\ rel[l] \in LinkDecisions
    BY DEF DecisionsOK, OverridesTypeOK
  <1> DEFINE r == [rel[l] EXCEPT !.active = FALSE]
  <1> DEFINE s == [op |-> op, active |-> TRUE]
  <1>3. r \in LinkDecisions /\ s \in LinkDecisions
    BY <1>2 DEF LinkDecisions
  <1>4. rel' = [rel EXCEPT ![l] = r] \/ rel' = [rel EXCEPT ![l] = s]
    BY DEF RecordLink, WithdrawLink
  <1> HIDE DEF r, s
  <1> QED
    BY <1>1, <1>2, <1>3, <1>4

-----------------------------------------------------------------------------
(* apply_overrides. *)

AppliesOK ==
    /\ todo \in [Appliers -> SUBSET (NodeOrders \cup LinkOrders)]
    /\ hand \in [Appliers -> NodeOrders \cup {NoOrder}]

LEMMA ActiveTyped ==
  ASSUME DecisionsOK
  PROVE  ActiveDecisions \subseteq NodeOrders \cup LinkOrders
  <1>1. \A n \in Nodes : doc[n].active =>
           [on |-> n, what |-> doc[n].op, fields |-> doc[n].fields] \in NodeOrders
    BY DEF DecisionsOK, OverridesTypeOK, Written, Decisions, NodeOrders
  <1>2. \A l \in Unlinked : [on |-> l, what |-> "unlink", fields |-> NoPatch] \in LinkOrders
    BY DEF Unlinked, LinkOrders
  <1> QED
    BY <1>1, <1>2 DEF ActiveDecisions

LEMMA ListTyped ==
  ASSUME DecisionsOK, AppliesOK, NEW a \in Appliers, ListDecisions(a), UNCHANGED hand
  PROVE  AppliesOK'
  BY ActiveTyped DEF ListDecisions, AppliesOK

LEMMA ApplyUnlinkTyped ==
  ASSUME GraphTypeOK, DecisionsOK, AppliesOK, NEW a \in Appliers, ApplyUnlink(a)
  PROVE  GraphTypeOK' /\ DecisionsOK' /\ AppliesOK'
  <1>1. PICK order \in todo[a] : /\ Disconnect({order.on})
                                 /\ todo' = [todo EXCEPT ![a] = @ \ {order}]
                                 /\ UNCHANGED <<decisionVars, hand>>
    BY DEF ApplyUnlink
  <1> QED
    BY <1>1, DisconnectTyped, DecisionsKept DEF AppliesOK

LEMMA ApplyLookTyped ==
  ASSUME GraphTypeOK, DecisionsOK, AppliesOK, NEW a \in Appliers, ApplyLook(a)
  PROVE  GraphTypeOK' /\ DecisionsOK' /\ AppliesOK'
  <1>1. PICK order \in todo[a] :
           /\ order.what # "unlink"
           /\ todo' = [todo EXCEPT ![a] = @ \ {order}]
           /\ UNCHANGED <<graphVars, rel>>
           /\ \/ UNCHANGED <<doc, hand>>
              \/ hand' = [hand EXCEPT ![a] = order] /\ UNCHANGED doc
              \/ /\ hand' = [hand EXCEPT ![a] = order]
                 /\ Exists(order.on)
                 /\ Cover(order.on, order.fields)
    BY DEF ApplyLook
  <1>2. order \in NodeOrders
    BY <1>1 DEF AppliesOK, LinkOrders
  <1>3. GraphTypeOK'
    BY <1>1, GraphKept
  <1>4. AppliesOK'
    BY <1>1, <1>2 DEF AppliesOK
  <1>5. order.on \in Nodes /\ order.fields \in Patches
    BY <1>2 DEF NodeOrders
  <1>6. UNCHANGED doc => DecisionsOK'
    BY <1>1, DecisionsKept DEF decisionVars
  <1>7. Exists(order.on) /\ Cover(order.on, order.fields) => DecisionsOK'
    BY <1>1, <1>5, CoverTyped
  <1> QED
    BY <1>1, <1>3, <1>4, <1>6, <1>7

LEMMA ApplyWriteTyped ==
  ASSUME GraphTypeOK, DecisionsOK, AppliesOK, NEW a \in Appliers, ApplyWrite(a)
  PROVE  GraphTypeOK' /\ DecisionsOK' /\ AppliesOK'
  <1>1. hand[a] \in NodeOrders
    BY DEF ApplyWrite, AppliesOK
  <1>2. hand[a].on \in Nodes /\ hand[a].fields \in Patches
    BY <1>1 DEF NodeOrders
  <1>3. \/ Delete({hand[a].on})
        \/ Upsert(hand[a].on, hand[a].fields)
        \/ UNCHANGED graphVars
    BY DEF ApplyWrite
  <1>4. GraphTypeOK'
    BY <1>2, <1>3, DeleteTyped, UpsertTyped, GraphKept
  <1>5. AppliesOK'
    BY DEF ApplyWrite, AppliesOK
  <1> QED
    BY <1>4, <1>5, DecisionsKept DEF ApplyWrite

-----------------------------------------------------------------------------
(* The run. *)

EtlOK == supply \in Supply /\ etl \in Runs
RunOK == GraphTypeOK /\ DecisionsOK /\ EtlOK /\ AppliesOK

RunAts == {"idle", "done"} \cup Loading \cup Pruning

LEMMA GoOnTyped ==
  ASSUME EtlOK, NEW at \in RunAts, GoOn(at), UNCHANGED supply
  PROVE  EtlOK'
  BY DEF EtlOK, GoOn, RunAts, Runs

LEMMA AppliesKept ==
  ASSUME AppliesOK, UNCHANGED <<todo, hand>>
  PROVE  AppliesOK'
  BY DEF AppliesOK

LEMMA StartTyped ==
  ASSUME EtlOK, NEW task \in Tasks, Start(task)
  PROVE  EtlOK'
  <1>1. etl.runs + 1 \in 0 .. MaxRuns
    BY PublishAssumption DEF EtlOK, Runs, Start
  <1>2. task \in {"publish", "dry-run", "prune"}
    BY PublishAssumption
  <1> QED
    BY <1>1, <1>2 DEF EtlOK, Runs, Start, Loading

LEMMA WithoutTyped ==
  ASSUME NEW given \in Supply, NEW gone
  PROVE  Without(given, gone) \in Supply
  BY DEF Without, Supply

\* an address and the repository it belongs to can be linked to by the same
LEMMA ResolvedTyped ==
  ASSUME NEW given, NEW l \in Links
  PROVE  Resolved(given, l) \in Links
  <1>1. l[2] \in Nodes
    BY GraphAssumption
  <1>2. Promotion(given, l[2]) # None =>
           Promotion(given, l[2]) = AddressOf[l[2]] /\ AddressOf[l[2]] # None
    BY DEF Promotion, Candidates
  <1>3. Promotion(given, l[2]) # None => <<l[1], Promotion(given, l[2])>> \in Links
    BY <1>2, AddressAssumption
  <1> QED
    BY <1>3 DEF Resolved

LEMMA WantedTyped ==
  ASSUME NEW given \in Supply
  PROVE  Wanted(given) \subseteq Links
  <1>1. given.links \subseteq Links
    BY DEF Supply
  <1> QED
    BY <1>1, ResolvedTyped DEF Wanted

LEMMA ReadingTyped ==
  ASSUME EtlOK, DropTombstoned \/ ReadSkips \/ ReadClaims \/ ReadClaimed
  PROVE  EtlOK'
  <1>1. CASE DropTombstoned
    <2> DEFINE w == Without(etl.given, Tombstoned \ Candidates)
    <2>1. w \in Supply
      BY WithoutTyped DEF EtlOK, Runs
    <2>2. etl' = [etl EXCEPT !.at = "skips", !.given = w]
      BY <1>1 DEF DropTombstoned
    <2> HIDE DEF w
    <2> QED
      BY <1>1, <2>1, <2>2 DEF EtlOK, Runs, Loading, DropTombstoned
  <1>2. CASE ReadSkips
    <2> DEFINE w == Without(etl.given, Tombstoned \cap Candidates)
    <2> DEFINE at == IF etl.task = "publish" THEN "claims" ELSE "replay"
    <2>1. w \in Supply
      BY WithoutTyped DEF EtlOK, Runs
    <2>2. etl' = [etl EXCEPT !.at = at, !.given = w, !.skip = Unlinked]
      BY <1>2 DEF ReadSkips
    <2>3. at \in Loading \cup Pruning /\ Unlinked \subseteq Links
      BY DEF Loading, Pruning, Unlinked
    <2> HIDE DEF w, at
    <2> QED
      BY <1>2, <2>1, <2>2, <2>3 DEF EtlOK, Runs, ReadSkips
  <1>3. CASE ReadClaims
    <2>1. ClaimedLinks \subseteq Targets
      BY DEF ClaimedLinks, Targets
    <2> QED
      BY <1>3, <2>1 DEF EtlOK, Runs, Loading, ReadClaims
  <1>4. CASE ReadClaimed
    <2>1. ClaimedLinks \cup ClaimedNodes \subseteq Targets
      BY DEF ClaimedLinks, ClaimedNodes, Targets
    <2> QED
      BY <1>4, <2>1 DEF EtlOK, Runs, Pruning, ReadClaimed
  <1> QED
    BY <1>1, <1>2, <1>3, <1>4

LEMMA PlanTyped ==
  ASSUME GraphTypeOK, EtlOK, PlanNodes \/ PlanLinks
  PROVE  EtlOK'
  <1>1. StaleNodes \subseteq Targets /\ StaleLinks \subseteq Targets
    BY DEF StaleNodes, StaleLinks, Targets, GraphTypeOK
  <1>2. CASE PlanNodes
    BY <1>1, <1>2 DEF EtlOK, Runs, Pruning, PlanNodes
  <1>3. CASE PlanLinks
    BY <1>1, <1>3 DEF EtlOK, Runs, Pruning, PlanLinks
  <1> QED
    BY <1>2, <1>3

LEMMA WriteNodesTyped ==
  ASSUME GraphTypeOK, EtlOK, WriteNodes
  PROVE  GraphTypeOK'
  <1> DEFINE new(n) == IF Loads(etl.given, n) THEN Merged(n, Known(etl.given.rows[n])) ELSE node[n]
  <1>1. \A n \in Nodes : new(n) \in Contents \cup {Absent}
    <2> SUFFICES ASSUME NEW n \in Nodes, etl.given.rows[n] # Absent
                 PROVE  Merged(n, Known(etl.given.rows[n])) \in Contents
      BY DEF GraphTypeOK, Loads
    <2>1. etl.given.rows[n] \in Contents
      BY DEF EtlOK, Runs, Supply
    <2> QED
      BY <2>1, KnownTyped, MergedTyped
  <1>2. node' = [n \in Nodes |-> new(n)] /\ link' = link
    BY DEF WriteNodes
  <1> HIDE DEF new
  <1> QED
    BY <1>1, <1>2 DEF GraphTypeOK

LEMMA PromoteTyped ==
  ASSUME GraphTypeOK, Promote
  PROVE  GraphTypeOK'
  <1> DEFINE to(n) == Promotion(etl.given, n)
  <1> DEFINE old == {l \in link : to(l[2]) # None /\ Exists(to(l[2]))}
  <1> DEFINE now == (link \ old) \cup {Resolved(etl.given, l) : l \in old}
  <1> DEFINE left(n) == to(n) # None /\ LinksOf(n) \cap now = {}
  <1>1. link' = now /\ node' = [n \in Nodes |-> IF left(n) THEN Absent ELSE node[n]]
    BY DEF Promote
  <1>2. old \subseteq Links /\ link \subseteq Links
    BY DEF GraphTypeOK
  <1>3. now \subseteq Links
    BY <1>2, ResolvedTyped
  <1> HIDE DEF now, left
  <1> QED
    BY <1>1, <1>3 DEF GraphTypeOK

LEMMA GivenLinks ==
  ASSUME EtlOK
  PROVE  Wanted(etl.given) \ etl.skip \in SUBSET Links
  BY WantedTyped DEF EtlOK, Runs

LEMMA RunTyped ==
  ASSUME RunOK, Run
  PROVE  RunOK'
  <1> USE DEF RunOK
  <1>1. CASE \E task \in Tasks : Start(task)
    <2>1. PICK task \in Tasks : Start(task)
      BY <1>1
    <2> QED
      BY <2>1, StartTyped, GraphKept, DecisionsKept, AppliesKept DEF Start
  <1>2. CASE DropTombstoned
    BY <1>2, ReadingTyped, GraphKept, DecisionsKept, AppliesKept DEF DropTombstoned
  <1>3. CASE ReadSkips
    BY <1>3, ReadingTyped, GraphKept, DecisionsKept, AppliesKept DEF ReadSkips
  <1>4. CASE ReadClaims
    BY <1>4, ReadingTyped, GraphKept, DecisionsKept, AppliesKept DEF ReadClaims
  <1>5. CASE WriteNodes
    BY <1>5, WriteNodesTyped, GoOnTyped, DecisionsKept, AppliesKept
       DEF WriteNodes, RunAts, Loading
  <1>18. CASE Promote
    BY <1>18, PromoteTyped, GoOnTyped, DecisionsKept, AppliesKept DEF Promote, RunAts, Loading
  <1>6. CASE WriteLinks
    BY <1>6, GivenLinks, ConnectTyped, GoOnTyped, DecisionsKept, AppliesKept
       DEF WriteLinks, RunAts, Loading
  <1>7. CASE SyncLinks
    BY <1>7, DisconnectTyped, GoOnTyped, DecisionsKept, AppliesKept
       DEF SyncLinks, RunAts, Loading
  <1>8. CASE ReadDecisions
    BY <1>8, ListTyped, GraphKept, GoOnTyped, DecisionsKept
       DEF ReadDecisions, RunAts, Loading, Appliers
  <1>9. CASE Reapply
    <2>1. UNCHANGED <<supply, etl>>
      BY <1>9 DEF Reapply
    <2>2. EtlOK'
      BY <2>1 DEF EtlOK
    <2> QED
      BY <1>9, <2>2, ApplyUnlinkTyped, ApplyLookTyped, ApplyWriteTyped DEF Reapply, Appliers
  <1>10. CASE Published
    BY <1>10, GraphKept, GoOnTyped, DecisionsKept, AppliesKept DEF Published, RunAts
  <1>11. CASE Replay
    BY <1>11, DisconnectTyped, GoOnTyped, DecisionsKept, AppliesKept
       DEF Replay, RunAts, Pruning
  <1>12. CASE ReadClaimed
    BY <1>12, ReadingTyped, GraphKept, DecisionsKept, AppliesKept DEF ReadClaimed
  <1>13. CASE PlanNodes
    BY <1>13, PlanTyped, GraphKept, DecisionsKept, AppliesKept DEF PlanNodes
  <1>14. CASE PlanLinks
    BY <1>14, PlanTyped, GraphKept, DecisionsKept, AppliesKept DEF PlanLinks
  <1>15. CASE PruneLinks
    BY <1>15, DisconnectTyped, GoOnTyped, DecisionsKept, AppliesKept
       DEF PruneLinks, RunAts, Pruning
  <1>16. CASE PruneNodes
    BY <1>16, DeleteTyped, GoOnTyped, DecisionsKept, AppliesKept
       DEF PruneNodes, RunAts
  <1>17. CASE BreakOff
    <2>1. AppliesOK'
      BY <1>17 DEF BreakOff, AppliesOK
    <2> QED
      BY <1>17, <2>1, GraphKept, GoOnTyped, DecisionsKept DEF BreakOff, RunAts
  <1> QED
    BY <1>1, <1>2, <1>3, <1>4, <1>5, <1>6, <1>7, <1>8, <1>9, <1>10, <1>11, <1>12,
       <1>13, <1>14, <1>15, <1>16, <1>17, <1>18 DEF Run

-----------------------------------------------------------------------------
(* The forms. *)

FormsOK == FormsTypeOK /\ DeskShape

LEMMA FormsKept ==
  ASSUME FormsOK, UNCHANGED formVars
  PROVE  FormsOK'
  BY DEF FormsOK, FormsTypeOK, DeskShape, formVars

LEMMA SendTyped ==
  ASSUME FormsOK, NEW at \in Steps \ {"idle"}, NEW op \in OpsAt(at),
         op \in NodeForm \cup LinkForm \cup {"reapply"},
         NEW on, NEW patch \in Patches, NEW before \in Contents \cup {Absent},
         op \in NodeForm => on \in Nodes,
         op \in LinkForm => on \in Links,
         op = "reapply" => on = None,
         op \in {"edit", "delete"} => before # Absent,
         Send(at, op, on, patch, before)
  PROVE  FormsOK'
  <1>1. on \in Targets \cup {None}
    BY DEF Targets
  <1>2. desk.sent + 1 \in 0 .. MaxForms
    BY FormsAssumption DEF FormsOK, FormsTypeOK, Handlers, Send
  <1>3. desk' \in Handlers
    BY <1>1, <1>2 DEF Send, Handler, Handlers
  <1>4. DeskShape'
    BY DEF Send, Handler, DeskShape
  <1> QED
    BY <1>3, <1>4 DEF Send, FormsOK, FormsTypeOK

LEMMA ToTyped ==
  ASSUME FormsOK, NEW at \in Steps, desk.op \in OpsAt(at), To(at)
  PROVE  FormsOK'
  <1>1. desk' \in Handlers
    BY DEF FormsOK, FormsTypeOK, Handlers, To
  <1>2. /\ desk'.at = at /\ desk'.op = desk.op /\ desk'.on = desk.on
        /\ desk'.before = desk.before
    BY DEF FormsOK, FormsTypeOK, Handlers, To
  <1>3. DeskShape'
    BY <1>2 DEF FormsOK, DeskShape
  <1> QED
    BY <1>1, <1>3 DEF FormsOK, FormsTypeOK, To

LEMMA FreeTyped ==
  ASSUME FormsOK, desk' = Free(desk.sent)
  PROVE  desk' \in Handlers /\ DeskShape'
  <1>1. desk' \in Handlers
    BY BareTyped DEF FormsOK, FormsTypeOK, Free, Handler, Handlers, Steps
  <1>2. DeskShape'
    BY DEF Free, Handler, DeskShape, OpsAt, NodeForm, LinkForm
  <1> QED
    BY <1>1, <1>2

Askings == [gone : BOOLEAN, fields : Patches]

LEMMA TurnedDownTyped ==
  ASSUME FormsOK, TurnedDown
  PROVE  FormsOK'
  BY FreeTyped DEF TurnedDown, FormsOK, FormsTypeOK

LEMMA LeftBrokenTyped ==
  ASSUME FormsOK, LeftBroken
  PROVE  FormsOK'
  <1>1. broken' \subseteq Targets
    BY DEF LeftBroken, FormsOK, FormsTypeOK, Handlers
  <1>2. asked' \in [Nodes -> Askings]
    <2>1. CASE desk.op \in {"edit", "create"}
      <3>1. desk.on \in Nodes
        BY <2>1 DEF FormsOK, DeskShape, NodeForm
      <3> DEFINE q == [asked[desk.on] EXCEPT !.fields = Less(asked[desk.on].fields, desk.patch)]
      <3>2. asked' = [asked EXCEPT ![desk.on] = q]
        BY <2>1 DEF LeftBroken
      <3>3. asked[desk.on] \in Askings
        BY <3>1 DEF FormsOK, FormsTypeOK, Askings
      <3>4. Less(asked[desk.on].fields, desk.patch) \in Patches
        BY <3>3 DEF Askings, Less, Patches
      <3>5. q \in Askings
        BY <3>3, <3>4 DEF Askings
      <3> HIDE DEF q
      <3> QED
        BY <3>2, <3>5 DEF FormsOK, FormsTypeOK, Askings
    <2>2. CASE desk.op \notin {"edit", "create"}
      BY <2>2 DEF LeftBroken, FormsOK, FormsTypeOK, Askings
    <2> QED
      BY <2>1, <2>2
  <1> QED
    BY <1>1, <1>2, FreeTyped DEF LeftBroken, FormsOK, FormsTypeOK, Askings

LEMMA DoneTyped ==
  ASSUME FormsOK, Done
  PROVE  FormsOK'
  <1>1. broken' \subseteq Targets
    BY DEF Done, FormsOK, FormsTypeOK
  <1>2. asked' \in [Nodes -> Askings]
    <2>1. CASE desk.op \in NodeForm
      <3>1. desk.on \in Nodes /\ desk.patch \in Patches
        BY <2>1 DEF FormsOK, FormsTypeOK, DeskShape, Handlers
      <3>2. asked[desk.on] \in Askings
        BY <3>1 DEF FormsOK, FormsTypeOK, Askings
      <3>3. Over(asked[desk.on].fields, desk.patch) \in Patches
        BY <3>1, <3>2, OverTyped DEF Askings
      <3>4. NowAsked(desk.on) \in Askings
        BY <2>1, <3>2, <3>3, BareTyped DEF Askings, NowAsked, NodeForm
      <3> QED
        BY <2>1, <3>1, <3>4 DEF Done, FormsOK, FormsTypeOK, Askings
    <2>2. CASE desk.op \notin NodeForm
      BY <2>2 DEF Done, FormsOK, FormsTypeOK, Askings
    <2> QED
      BY <2>1, <2>2
  <1> QED
    BY <1>1, <1>2, FreeTyped DEF Done, FormsOK, FormsTypeOK, Askings

LEMMA OpsAtValues ==
  /\ OpsAt("idle") = {"reapply"}
  /\ OpsAt("write") = {"edit", "delete", "create", "restore"}
  /\ OpsAt("record") = {"edit", "delete", "create", "link", "unlink"}
  /\ OpsAt("record-op") = {"edit"}
  /\ OpsAt("record-auto") = {"edit"}
  /\ OpsAt("withdraw") = {"create", "restore", "undo-set", "undo-delete"}
  /\ OpsAt("put-back") = {"edit", "delete", "create", "restore", "link", "unlink"}
  /\ OpsAt("give-back") = {"undo-set", "undo-delete", "undo-unlink"}
  /\ OpsAt("list") = {"reapply", "undo-set", "undo-delete", "undo-unlink"}
  /\ OpsAt("apply") = {"reapply", "undo-set", "undo-delete", "undo-unlink"}
  BY DEF OpsAt

\* what the handler of a form about a record, or about a relationship, knows
LEMMA DeskKnows ==
  ASSUME FormsOK
  PROVE  /\ desk.at \in Steps
         /\ desk.op \in OpsAt(desk.at)
         /\ desk.patch \in Patches
         /\ desk.before \in Contents \cup {Absent}
         /\ desk.op \in NodeForm => desk.on \in Nodes
         /\ desk.op \in LinkForm => desk.on \in Links
         /\ desk.op \in {"edit", "delete"} => desk.before \in Contents
  BY DEF FormsOK, FormsTypeOK, DeskShape, Handlers

LEMMA SnapshotsTyped ==
  ASSUME DecisionsOK, NEW n \in Nodes
  PROVE  /\ DeletedFields(n) \in Contents \cup {Absent}
         /\ SourceOfTruth(n) \in Patches
  <1>1. doc[n] \in Decisions
    BY DEF DecisionsOK, OverridesTypeOK
  <1>2. DeletedFields(n) \in Contents \cup {Absent}
    BY <1>1 DEF Decisions, DeletedFields
  <1>3. /\ doc[n].fields \in Patches /\ doc[n].auto \in Patches
        /\ doc[n].source \in Patches
    BY <1>1 DEF Decisions
  <1>4. SourceOfTruth(n) \in Patches
    BY <1>3 DEF SourceOfTruth, Patches
  <1> QED
    BY <1>2, <1>4

CommonOK == GraphTypeOK /\ DecisionsOK /\ FormsOK

LEMMA SendingTyped ==
  ASSUME CommonOK, Sending
  PROVE  CommonOK'
  <1> USE DEF CommonOK, Steps, NodeForm, LinkForm
  <1>1. CASE \E n \in Nodes : \E f \in Fields, v \in Values \cup {None} : SendEdit(n, f, v)
    <2>1. PICK n \in Nodes, f \in Fields, v \in Values \cup {None} : SendEdit(n, f, v)
      BY <1>1
    <2>2. node[n] \in Contents
      BY <2>1 DEF SendEdit, Exists, GraphTypeOK
    <2> DEFINE p == [NoPatch EXCEPT ![f] = v]
    <2>3. p \in Patches
      BY BareTyped DEF Patches
    <2>4. Send("write", "edit", n, p, node[n])
      BY <2>1 DEF SendEdit
    <2> HIDE DEF p
    <2>5. FormsOK'
      BY <2>2, <2>3, <2>4, SendTyped, OpsAtValues, GraphAssumption
    <2> QED
      BY <2>1, <2>5, GraphKept, DecisionsKept DEF SendEdit
  <1>2. CASE \E n \in Nodes : \E fields \in [Fields -> Values \cup {Unset}] : SendCreate(n, fields)
    <2>1. PICK n \in Nodes, fields \in [Fields -> Values \cup {Unset}] : SendCreate(n, fields)
      BY <1>2
    <2>2. fields \in Patches
      BY DEF Patches
    <2>3. FormsOK'
      BY <2>1, <2>2, SendTyped, OpsAtValues DEF SendCreate
    <2> QED
      BY <2>1, <2>3, GraphKept, DecisionsKept DEF SendCreate
  <1>3. CASE \E n \in Nodes : SendDelete(n)
    <2>1. PICK n \in Nodes : SendDelete(n)
      BY <1>3
    <2>2. node[n] \in Contents
      BY <2>1 DEF SendDelete, Exists, GraphTypeOK
    <2>3. FormsOK'
      BY <2>1, <2>2, SendTyped, OpsAtValues, BareTyped, GraphAssumption DEF SendDelete
    <2> QED
      BY <2>1, <2>3, GraphKept, DecisionsKept DEF SendDelete
  <1>4. CASE \E n \in Nodes : SendRestore(n)
    <2>1. PICK n \in Nodes : SendRestore(n)
      BY <1>4
    <2>2. Known(DeletedFields(n)) \in Patches
      BY <2>1, SnapshotsTyped, KnownTyped DEF SendRestore
    <2>3. FormsOK'
      BY <2>1, <2>2, SendTyped, OpsAtValues DEF SendRestore
    <2> QED
      BY <2>1, <2>3, GraphKept, DecisionsKept DEF SendRestore
  <1>5. CASE \E n \in Nodes : SendUndoSet(n)
    <2>1. PICK n \in Nodes : SendUndoSet(n)
      BY <1>5
    <2>2. FormsOK'
      BY <2>1, SnapshotsTyped, SendTyped, OpsAtValues DEF SendUndoSet
    <2> QED
      BY <2>1, <2>2, GraphKept, DecisionsKept DEF SendUndoSet
  <1>6. CASE \E n \in Nodes : SendUndoDelete(n)
    <2>1. PICK n \in Nodes : SendUndoDelete(n)
      BY <1>6
    <2>2. FormsOK'
      BY <2>1, SnapshotsTyped, SendTyped, OpsAtValues, BareTyped DEF SendUndoDelete
    <2> QED
      BY <2>1, <2>2, GraphKept, DecisionsKept DEF SendUndoDelete
  <1>7. CASE \E l \in Links : SendLink(l) \/ SendUnlink(l)
    <2>1. PICK l \in Links : SendLink(l) \/ SendUnlink(l)
      BY <1>7
    <2>2. FormsOK'
      BY <2>1, SendTyped, OpsAtValues, BareTyped DEF SendLink, SendUnlink
    <2>3. GraphTypeOK'
      BY <2>1, ConnectTyped, DisconnectTyped DEF SendLink, SendUnlink
    <2> QED
      BY <2>1, <2>2, <2>3, DecisionsKept DEF SendLink, SendUnlink
  <1>8. CASE \E l \in Links : SendUndoUnlink(l)
    <2>1. PICK l \in Links : SendUndoUnlink(l)
      BY <1>8
    <2>2. FormsOK'
      BY <2>1, SendTyped, OpsAtValues, BareTyped DEF SendUndoUnlink
    <2>3. DecisionsOK'
      BY <2>1, RecordLinkTyped DEF SendUndoUnlink
    <2> QED
      BY <2>1, <2>2, <2>3, GraphKept DEF SendUndoUnlink
  <1>9. CASE SendReapply
    <2>1. FormsOK'
      BY <1>9, SendTyped, OpsAtValues, BareTyped DEF SendReapply
    <2> QED
      BY <1>9, <2>1, GraphKept, DecisionsKept DEF SendReapply
  <1> QED
    BY <1>1, <1>2, <1>3, <1>4, <1>5, <1>6, <1>7, <1>8, <1>9 DEF Sending

LEMMA WritingTyped ==
  ASSUME CommonOK, WriteEdit \/ WriteNew \/ WriteDelete \/ Vanished
  PROVE  CommonOK'
  <1> USE DEF CommonOK
  <1>1. CASE WriteEdit
    <2>1. desk.on \in Nodes /\ desk.patch \in Patches /\ desk.op \in OpsAt("record")
      BY <1>1, DeskKnows, OpsAtValues DEF WriteEdit, At, NodeForm
    <2>2. CASE Upsert(desk.on, desk.patch) /\ To("record")
      BY <1>1, <2>1, <2>2, UpsertTyped, ToTyped, DecisionsKept DEF WriteEdit, Steps
    <2>3. CASE TurnedDown /\ UNCHANGED graphVars
      BY <1>1, <2>3, TurnedDownTyped, GraphKept, DecisionsKept DEF WriteEdit
    <2> QED
      BY <1>1, <2>2, <2>3 DEF WriteEdit
  <1>2. CASE WriteNew
    <2>1. desk.on \in Nodes /\ desk.patch \in Patches /\ desk.op \in OpsAt("withdraw")
      BY <1>2, DeskKnows, OpsAtValues DEF WriteNew, At, NodeForm
    <2>2. CASE Upsert(desk.on, desk.patch) /\ To("withdraw")
      BY <1>2, <2>1, <2>2, UpsertTyped, ToTyped, DecisionsKept DEF WriteNew, Steps
    <2>3. CASE TurnedDown /\ UNCHANGED graphVars
      BY <1>2, <2>3, TurnedDownTyped, GraphKept, DecisionsKept DEF WriteNew
    <2> QED
      BY <1>2, <2>2, <2>3 DEF WriteNew
  <1>3. CASE WriteDelete
    <2>1. desk.op \in OpsAt("record")
      BY <1>3, OpsAtValues DEF WriteDelete, At
    <2>2. CASE Delete({desk.on}) /\ To("record")
      BY <1>3, <2>1, <2>2, DeleteTyped, ToTyped, DecisionsKept DEF WriteDelete, Steps
    <2>3. CASE TurnedDown /\ UNCHANGED graphVars
      BY <1>3, <2>3, TurnedDownTyped, GraphKept, DecisionsKept DEF WriteDelete
    <2> QED
      BY <1>3, <2>2, <2>3 DEF WriteDelete
  <1>4. CASE Vanished
    BY <1>4, LeftBrokenTyped, GraphKept, DecisionsKept DEF Vanished
  <1> QED
    BY <1>1, <1>2, <1>3, <1>4

LEMMA RecordingTyped ==
  ASSUME CommonOK,
         WithdrawTombstone \/ Record \/ RecordOp \/ RecordAutoValue \/ RecordLinkForm
  PROVE  CommonOK'
  <1> USE DEF CommonOK
  <1>1. CASE WithdrawTombstone
    <2>1. desk.on \in Nodes
      BY <1>1, DeskKnows DEF WithdrawTombstone, At, NodeForm
    <2>2. DecisionsOK'
      BY <1>1, <2>1, WithdrawTyped, DecisionsKept DEF WithdrawTombstone, decisionVars
    <2>3. CASE desk.op = "create" /\ To("record")
      BY <1>1, <2>2, <2>3, ToTyped, OpsAtValues, GraphKept DEF WithdrawTombstone, Steps
    <2>4. CASE Done
      BY <1>1, <2>2, <2>4, DoneTyped, GraphKept DEF WithdrawTombstone
    <2> QED
      BY <1>1, <2>3, <2>4 DEF WithdrawTombstone
  <1>2. CASE Record
    <2>1. /\ desk.op \in {"edit", "delete", "create"} /\ desk.on \in Nodes
          /\ desk.patch \in Patches
          /\ desk.op = "delete" => desk.before \in Contents
      BY <1>2, DeskKnows DEF Record, At, NodeForm
    <2>2. DecisionsOK'
      <3>1. CASE desk.op = "edit"
        <4>1. RecordFirst(desk.on, "set", desk.patch, Absent)
          BY <1>2, <3>1 DEF Record
        <4> QED
          BY <1>2, <2>1, <4>1, RecordFirstTyped DEF Record
      <3>2. CASE desk.op = "create"
        <4>1. RecordFirst(desk.on, "create", desk.patch, Absent)
          BY <1>2, <3>2 DEF Record
        <4> QED
          BY <1>2, <2>1, <4>1, RecordFirstTyped DEF Record
      <3>3. CASE desk.op = "delete"
        <4>1. RecordFirst(desk.on, "delete", NoPatch, Kept(desk.before))
          BY <1>2, <3>3 DEF Record
        <4> QED
          BY <1>2, <2>1, <3>3, <4>1, RecordFirstTyped, KnownTyped, BareTyped DEF Record
      <3> QED
        BY <2>1, <3>1, <3>2, <3>3
    <2>3. FormsOK'
      BY <1>2, ToTyped, OpsAtValues, DoneTyped DEF Record, Steps
    <2> QED
      BY <1>2, <2>2, <2>3, GraphKept DEF Record
  <1>3. CASE RecordOp
    <2>1. desk.op = "edit" /\ desk.on \in Nodes
      BY <1>3, DeskKnows, OpsAtValues DEF RecordOp, NodeForm
    <2> QED
      BY <1>3, <2>1, RecordSecondTyped, ToTyped, OpsAtValues, GraphKept DEF RecordOp, Steps
  <1>4. CASE RecordAutoValue
    <2>1. desk.on \in Nodes /\ desk.patch \in Patches /\ desk.before \in Contents
      BY <1>4, DeskKnows, OpsAtValues DEF RecordAutoValue, NodeForm
    <2> QED
      BY <1>4, <2>1, RecordAutoTyped, DoneTyped, GraphKept DEF RecordAutoValue
  <1>5. CASE RecordLinkForm
    <2>1. desk.on \in Links
      BY <1>5, DeskKnows DEF RecordLinkForm, At, LinkForm
    <2> QED
      BY <1>5, <2>1, RecordLinkTyped, DoneTyped, GraphKept DEF RecordLinkForm
  <1> QED
    BY <1>1, <1>2, <1>3, <1>4, <1>5

LEMMA UndoingTyped ==
  ASSUME CommonOK, MongoFails \/ PutBack \/ WithdrawShown \/ GiveBack
  PROVE  CommonOK'
  <1> USE DEF CommonOK
  <1>1. CASE MongoFails
    <2>1. desk.op \in OpsAt("put-back")
      BY <1>1, DeskKnows, OpsAtValues DEF MongoFails
    <2> QED
      BY <1>1, <2>1, ToTyped, GraphKept, DecisionsKept DEF MongoFails, Steps
  <1>2. CASE PutBack
    <2>1. FormsOK'
      BY <1>2, LeftBrokenTyped DEF PutBack
    <2>2. CASE desk.op = "edit"
      <3>1. desk.on \in Nodes /\ Former \in Patches
        BY <2>2, DeskKnows DEF NodeForm, Former, Patches, Contents
      <3> QED
        BY <1>2, <2>1, <2>2, <3>1, UpsertTyped, GraphKept, DecisionsKept DEF PutBack
    <2>3. CASE desk.op = "delete"
      <3>1. desk.on \in Nodes /\ Known(desk.before) \in Patches
        BY <2>3, DeskKnows, KnownTyped DEF NodeForm
      <3> QED
        BY <1>2, <2>1, <2>3, <3>1, UpsertTyped, GraphKept, DecisionsKept DEF PutBack
    <2>4. CASE desk.op \in {"create", "restore"}
      BY <1>2, <2>1, <2>4, DeleteTyped, GraphKept, DecisionsKept DEF PutBack
    <2>5. CASE desk.op \in {"link", "unlink"}
      <3>1. {desk.on} \in SUBSET Links
        BY <2>5, DeskKnows DEF LinkForm
      <3> QED
        BY <1>2, <2>1, <2>5, <3>1, ConnectTyped, DisconnectTyped, DecisionsKept DEF PutBack
    <2> QED
      BY <1>2, <2>2, <2>3, <2>4, <2>5 DEF PutBack
  <1>3. CASE WithdrawShown
    <2>1. desk.op \in {"undo-set", "undo-delete"} /\ desk.on \in Nodes
      BY <1>3, DeskKnows DEF WithdrawShown, At, NodeForm
    <2>2. CASE Withdraw(desk.on) /\ To("give-back")
      BY <1>3, <2>1, <2>2, WithdrawTyped, ToTyped, OpsAtValues, GraphKept DEF WithdrawShown, Steps
    <2>3. CASE TurnedDown /\ UNCHANGED doc
      BY <1>3, <2>3, TurnedDownTyped, DecisionsKept, GraphKept DEF WithdrawShown, decisionVars
    <2> QED
      BY <1>3, <2>2, <2>3 DEF WithdrawShown
  <1>4. CASE GiveBack
    <2>1. desk.op \in {"undo-set", "undo-delete", "undo-unlink"} /\ desk.op \in OpsAt("list")
      BY <1>4, DeskKnows, OpsAtValues DEF GiveBack
    <2>2. desk.op = "undo-delete" /\ desk.before # Absent => Known(desk.before) \in Patches
      BY DeskKnows, KnownTyped
    <2>3. desk.op \in {"undo-set", "undo-delete"} => desk.on \in Nodes
      BY DeskKnows DEF NodeForm
    <2>4. desk.op = "undo-unlink" => {desk.on} \in SUBSET Links
      BY DeskKnows DEF LinkForm
    <2>5. LeftBroken \/ To("list")
      BY <1>4 DEF GiveBack
    <2>6. FormsOK'
      BY <2>1, <2>5, LeftBrokenTyped, ToTyped DEF Steps
    <2>7. \/ UNCHANGED graphVars
          \/ desk.op = "undo-set" /\ Upsert(desk.on, desk.patch)
          \/ desk.op = "undo-delete" /\ desk.before # Absent /\ Upsert(desk.on, Known(desk.before))
          \/ desk.op = "undo-unlink" /\ Connect({desk.on})
      BY <1>4 DEF GiveBack
    <2>8. GraphTypeOK'
      BY <2>2, <2>3, <2>4, <2>7, DeskKnows, GraphKept, UpsertTyped, ConnectTyped
    <2> QED
      BY <1>4, <2>6, <2>8, DecisionsKept DEF GiveBack
  <1> QED
    BY <1>1, <1>2, <1>3, <1>4

AllOK == CommonOK /\ EtlOK /\ AppliesOK

LEMMA DeskTyped ==
  ASSUME AllOK, Desk
  PROVE  AllOK'
  <1> USE DEF AllOK
  <1>1. CASE (Sending \/ Handling) /\ UNCHANGED <<supply, etl, todo, hand>>
    <2>1. CommonOK'
      BY <1>1, SendingTyped, WritingTyped, RecordingTyped, UndoingTyped DEF Handling
    <2> QED
      BY <1>1, <2>1, AppliesKept DEF EtlOK
  <1>2. CASE ListAll /\ UNCHANGED <<supply, etl>>
    <2>1. desk.op \in OpsAt("apply")
      BY <1>2, DeskKnows, OpsAtValues DEF ListAll, CommonOK
    <2>2. FormsOK' /\ GraphTypeOK' /\ DecisionsOK'
      BY <1>2, <2>1, ToTyped, GraphKept, DecisionsKept DEF ListAll, CommonOK, Steps
    <2>3. AppliesOK'
      BY <1>2, ListTyped DEF ListAll, CommonOK, Appliers
    <2> QED
      BY <1>2, <2>2, <2>3 DEF CommonOK, EtlOK
  <1>3. CASE ReapplyAll /\ UNCHANGED <<supply, etl>>
    <2>1. FormsOK'
      BY <1>3, FormsKept DEF ReapplyAll, CommonOK
    <2>2. GraphTypeOK' /\ DecisionsOK' /\ AppliesOK'
      BY <1>3, ApplyUnlinkTyped, ApplyLookTyped, ApplyWriteTyped DEF ReapplyAll, CommonOK, Appliers
    <2> QED
      BY <1>3, <2>1, <2>2 DEF CommonOK, EtlOK
  <1>4. CASE ReappliedAll /\ UNCHANGED <<supply, etl>>
    BY <1>4, DoneTyped, GraphKept, DecisionsKept, AppliesKept DEF ReappliedAll, CommonOK, EtlOK
  <1>5. CASE Cut /\ UNCHANGED <<supply, etl>>
    <2>1. AppliesOK'
      BY <1>5 DEF Cut, AppliesOK
    <2> QED
      BY <1>5, <2>1, LeftBrokenTyped, GraphKept, DecisionsKept DEF Cut, CommonOK, EtlOK
  <1> QED
    BY <1>1, <1>2, <1>3, <1>4, <1>5 DEF Desk

-----------------------------------------------------------------------------
(* The whole. *)

TypeInv == AllOK /\ touched \subseteq Targets /\ late \subseteq Targets

LEMMA TypeInvIsTypeOK ==
  /\ TypeInv => TypeOK
  /\ TypeOK /\ DeskShape /\ Written => TypeInv
  BY DEF TypeInv, AllOK, CommonOK, DecisionsOK, FormsOK, EtlOK, AppliesOK, TypeOK, PublishTypeOK

LEMMA TypeInit ==
  Init => TypeInv
  <1> SUFFICES ASSUME Init
               PROVE  TypeInv
    OBVIOUS
  <1>1. supply \in Supply
    BY PublishAssumption DEF Init, PublishInit
  <1>2. GraphTypeOK
    <2>1. Wanted(supply) \subseteq Links
      BY <1>1, WantedTyped
    <2>2. \A n \in Nodes : supply.rows[n] \in Contents \cup {Absent}
      BY <1>1 DEF Supply
    <2> QED
      BY <2>1, <2>2 DEF Init, GraphTypeOK
  <1>3. DecisionsOK
    <2>1. NoDecision \in Decisions /\ ~NoDecision.active
      BY BareTyped DEF NoDecision, Decisions
    <2>2. NoLinkDecision \in LinkDecisions
      BY DEF NoLinkDecision, LinkDecisions
    <2> HIDE DEF NoDecision, NoLinkDecision
    <2> QED
      BY <2>1, <2>2 DEF Init, OverridesInit, DecisionsOK, OverridesTypeOK, Written
  <1>4. EtlOK
    BY <1>1, PublishAssumption DEF Init, PublishInit, EtlOK, Runs
  <1>5. AppliesOK
    BY DEF Init, PublishInit, AppliesOK
  <1>6. FormsOK
    <2>1. desk \in Handlers
      BY FormsAssumption, BareTyped DEF Init, FormsInit, Free, Handler, Handlers, Steps
    <2>2. DeskShape
      BY OpsAtValues DEF Init, FormsInit, Free, Handler, DeskShape, NodeForm, LinkForm
    <2>3. asked \in [Nodes -> Askings] /\ broken \subseteq Targets
      BY BareTyped DEF Init, FormsInit, Askings
    <2> QED
      BY <2>1, <2>2, <2>3 DEF FormsOK, FormsTypeOK, Askings
  <1> QED
    BY <1>2, <1>3, <1>4, <1>5, <1>6 DEF Init, TypeInv, AllOK, CommonOK

LEMMA TypeNext ==
  TypeInv /\ [Next]_vars => TypeInv'
  <1> SUFFICES ASSUME TypeInv, [Next]_vars
               PROVE  TypeInv'
    OBVIOUS
  <1> USE DEF TypeInv
  <1>1. CASE DeskStep
    BY <1>1, DeskTyped DEF DeskStep, Moved, Targets
  <1>2. CASE EtlStep
    <2>1. RunOK'
      BY <1>2, RunTyped DEF EtlStep, RunOK, AllOK, CommonOK
    <2>2. FormsOK'
      BY <1>2, FormsKept DEF EtlStep, AllOK, CommonOK
    <2> QED
      BY <1>2, <2>1, <2>2 DEF EtlStep, InFlight, RunOK, AllOK, CommonOK
  <1>3. CASE SourceStep
    <2>1. supply' \in Supply
      BY <1>3, PublishAssumption DEF SourceStep, SupplyChanges
    <2> QED
      BY <1>3, <2>1, GraphKept, DecisionsKept, FormsKept, AppliesKept
         DEF SourceStep, SupplyChanges, AllOK, CommonOK, EtlOK, formVars
  <1>4. CASE UNCHANGED vars
    <2>1. GraphTypeOK' /\ DecisionsOK' /\ FormsOK' /\ AppliesOK'
      BY <1>4, GraphKept, DecisionsKept, FormsKept, AppliesKept
         DEF AllOK, CommonOK, vars, publishVars
    <2> QED
      BY <1>4, <2>1 DEF AllOK, CommonOK, EtlOK, vars, publishVars
  <1> QED
    BY <1>1, <1>2, <1>3, <1>4 DEF Next

\* Graph, decisions, rows, run and handler keep their types, however the
\* forms, the publish and the sources interleave.
THEOREM CurationTypes == Spec => []TypeOK
  <1>1. Spec => []TypeInv
    BY TypeInit, TypeNext, PTL DEF Spec
  <1> QED
    BY <1>1, TypeInvIsTypeOK, PTL

-----------------------------------------------------------------------------
(* What an update does to the parts of a decision that matter here.        *)

SameElsewhere(n) == \A m \in Nodes \ {n} : doc'[m] = doc[m]

\* an update of the remembered values only
SameFace == \A m \in Nodes : /\ doc'[m].op = doc[m].op
                             /\ doc'[m].active = doc[m].active
                             /\ doc'[m].fields = doc[m].fields

LEMMA DocDomain ==
  ASSUME DecisionsOK
  PROVE  /\ doc \in [Nodes -> Decisions]
         /\ \A n \in Nodes : doc[n].active \in BOOLEAN
  BY DEF DecisionsOK, OverridesTypeOK, Decisions

LEMMA RecordFirstDoes ==
  ASSUME DecisionsOK, NEW n \in Nodes, NEW op, NEW patch, NEW snap,
         RecordFirst(n, op, patch, snap)
  PROVE  /\ SameElsewhere(n)
         /\ doc'[n].op = IF op # "set" THEN op
                         ELSE IF doc[n].op = "none" THEN "set" ELSE doc[n].op
         /\ doc'[n].active = TRUE
         /\ doc'[n].fields = Over(doc[n].fields, patch)
  BY DocDomain DEF RecordFirst, SameElsewhere

LEMMA RecordSecondDoes ==
  ASSUME DecisionsOK, NEW n \in Nodes, RecordSecond(n)
  PROVE  /\ SameElsewhere(n)
         /\ doc'[n].op \in {"create", "set"}
         /\ doc'[n].active = doc[n].active
         /\ doc'[n].fields = doc[n].fields
  <1> DEFINE d == [doc[n] EXCEPT !.op = IF doc[n].op = "create" THEN "create" ELSE "set"]
  <1>1. doc[n] \in Decisions
    BY DocDomain
  <1>2. /\ d.op \in {"create", "set"} /\ d.active = doc[n].active
        /\ d.fields = doc[n].fields
    BY <1>1 DEF Decisions
  <1>3. doc' = [doc EXCEPT ![n] = d]
    BY DEF RecordSecond
  <1> HIDE DEF d
  <1> QED
    BY <1>2, <1>3, DocDomain DEF SameElsewhere

LEMMA RecordAutoDoes ==
  ASSUME DecisionsOK, NEW n \in Nodes, NEW patch, NEW before, RecordAuto(n, patch, before)
  PROVE  SameFace
  <1> DEFINE a == [f \in Fields |-> IF patch[f] # Unset /\ doc[n].auto[f] = Unset
                                    THEN before[f] ELSE doc[n].auto[f]]
  <1> DEFINE d == [doc[n] EXCEPT !.auto = a]
  <1>1. doc[n] \in Decisions
    BY DocDomain
  <1>2. doc' = [doc EXCEPT ![n] = d]
    BY DEF RecordAuto
  <1> HIDE DEF a
  <1>3. d.op = doc[n].op /\ d.active = doc[n].active /\ d.fields = doc[n].fields
    BY <1>1 DEF Decisions
  <1> HIDE DEF d
  <1> QED
    BY <1>2, <1>3, DocDomain DEF SameFace

LEMMA CoverDoes ==
  ASSUME DecisionsOK, NEW n \in Nodes, NEW fields, Cover(n, fields)
  PROVE  SameFace
  <1> DEFINE s == [f \in Fields |-> IF fields[f] # Unset /\ fields[f] # node[n][f]
                                    THEN node[n][f] ELSE doc[n].source[f]]
  <1> DEFINE d == [doc[n] EXCEPT !.source = s]
  <1>1. doc[n] \in Decisions
    BY DocDomain
  <1>2. doc' = [doc EXCEPT ![n] = d]
    BY DEF Cover
  <1> HIDE DEF s
  <1>3. d.op = doc[n].op /\ d.active = doc[n].active /\ d.fields = doc[n].fields
    BY <1>1 DEF Decisions
  <1> HIDE DEF d
  <1> QED
    BY <1>2, <1>3, DocDomain DEF SameFace

\* a deletion that leaves an edit or a claim standing, or anything else
LEMMA WithdrawDoes ==
  ASSUME DecisionsOK, NEW n \in Nodes, Withdraw(n)
  PROVE  /\ SameElsewhere(n)
         /\ doc'[n].fields = doc[n].fields
         /\ \/ doc'[n].active = TRUE /\ doc'[n].op \in {"create", "set"}
            \/ /\ doc'[n].active = FALSE /\ doc'[n].op = doc[n].op
               /\ doc[n].op = "delete" => doc[n].fields = NoPatch
  <1> DEFINE standing == doc[n].op = "delete" /\ (doc[n].fields # NoPatch \/ doc[n].made)
  <1>1. /\ SameElsewhere(n)
        /\ doc'[n].fields = doc[n].fields
        /\ doc'[n].active = standing
        /\ doc'[n].op = IF ~standing THEN doc[n].op
                        ELSE IF doc[n].made THEN "create" ELSE "set"
    BY DocDomain DEF Withdraw, SameElsewhere
  <1>2. standing \in BOOLEAN
    OBVIOUS
  <1>3. CASE standing
    BY <1>1, <1>3
  <1>4. CASE ~standing
    BY <1>1, <1>2, <1>4
  <1> QED
    BY <1>3, <1>4

LEMMA SameDoc ==
  ASSUME UNCHANGED doc
  PROVE  SameFace /\ \A n \in Nodes : SameElsewhere(n)
  BY DEF SameFace, SameElsewhere

LEMMA ApplyDoes ==
  ASSUME DecisionsOK, AppliesOK, NEW a \in Appliers,
         ApplyUnlink(a) \/ ApplyLook(a) \/ ApplyWrite(a)
  PROVE  SameFace
  <1>1. CASE ApplyUnlink(a)
    BY <1>1, SameDoc DEF ApplyUnlink, decisionVars
  <1>2. CASE ApplyWrite(a)
    BY <1>2, SameDoc DEF ApplyWrite, decisionVars
  <1>3. CASE ApplyLook(a)
    <2>1. PICK order \in todo[a] :
             /\ order.what # "unlink"
             /\ UNCHANGED doc \/ Cover(order.on, order.fields)
      BY <1>3 DEF ApplyLook
    <2>2. order \in NodeOrders
      BY <2>1 DEF AppliesOK, LinkOrders
    <2>3. order.on \in Nodes
      BY <2>2 DEF NodeOrders
    <2> QED
      BY <2>1, <2>3, SameDoc, CoverDoes
  <1> QED
    BY <1>1, <1>2, <1>3

-----------------------------------------------------------------------------
(* The invariant, record by record. *)

Shaped(n) ==
    /\ doc[n].active => doc[n].op # "none"
    /\ doc[n].op = "delete" /\ ~doc[n].active => doc[n].fields = NoPatch

KeptOf(n) == \A f \in Fields :
    asked[n].fields[f] # Unset /\ ~Recording(n, f) =>
        doc[n].fields[f] = asked[n].fields[f]

Agreed(n) == n \notin broken \cup InFlight => OnRecord(n)

Fine(n) == Shaped(n) /\ KeptOf(n) /\ Agreed(n)

Facts == (\A n \in Nodes : Fine(n)) /\ Progress

LEMMA FactsAre ==
  Facts <=> DocShape /\ FieldsKept /\ NothingAskedIsLost /\ Progress
  BY DEF Facts, Fine, Shaped, KeptOf, Agreed, DocShape, FieldsKept, NothingAskedIsLost

\* a record that a step is not about
LEMMA OtherFine ==
  ASSUME Facts, NEW m \in Nodes, m # desk.on, m # desk'.on,
         doc'[m] = doc[m], asked'[m] = asked[m], (m \in broken') <=> (m \in broken)
  PROVE  Fine(m)'
  <1>1. Fine(m) /\ m \notin InFlight
    BY DEF Facts, InFlight
  <1>2. \A f \in Fields : ~Recording(m, f) /\ ~Recording(m, f)'
    BY DEF Recording
  <1>3. Shaped(m)' /\ KeptOf(m)'
    BY <1>1, <1>2 DEF Fine, Shaped, KeptOf
  <1>4. OnRecord(m)' <=> OnRecord(m)
    BY DEF OnRecord, Tombstoned
  <1>5. Agreed(m)'
    BY <1>1, <1>4 DEF Fine, Agreed
  <1> QED
    BY <1>3, <1>5 DEF Fine

\* a step that changes no handler
LEMMA FactsKept ==
  ASSUME Facts, FormsOK, SameFace, UNCHANGED formVars
  PROVE  Facts'
  <1> USE DEF SameFace, formVars
  <1>1. \A n \in Nodes : OnRecord(n)' <=> OnRecord(n)
    BY DEF OnRecord, Tombstoned
  <1>2. \A n \in Nodes : Fine(n)'
    BY <1>1 DEF Facts, Fine, Shaped, KeptOf, Agreed, InFlight, Recording
  <1>3. Progress'
    <2> SUFFICES ASSUME desk.op \in NodeForm
                 PROVE  Progress'
      BY DEF Progress
    <2>1. desk.on \in Nodes
      BY DeskKnows
    <2> QED
      BY <1>1, <2>1 DEF Facts, Progress, Untouched, Tombstoned
  <1> QED
    BY <1>2, <1>3 DEF Facts

-----------------------------------------------------------------------------
(* How a handler goes on and how it ends. *)

\* nobody is held up by a handler that is not there
LEMMA FreeDoes ==
  ASSUME desk' = Free(desk.sent)
  PROVE  /\ desk'.on = None
         /\ Progress'
         /\ \A n \in Nodes : n \notin InFlight'
         /\ \A n \in Nodes, f \in Fields : ~Recording(n, f)'
  <1>1. desk'.on = None /\ desk'.op = "reapply" /\ desk'.at = "idle"
    BY DEF Free, Handler
  <1> QED
    BY <1>1, GraphAssumption DEF Progress, NodeForm, InFlight, Recording

LEMMA SendFacts ==
  ASSUME Facts, FormsOK, NEW at \in {"write", "withdraw", "record", "give-back", "list"},
         NEW op, NEW on, NEW patch, NEW before,
         op \in NodeForm => on \in Nodes /\ at \in {"write", "withdraw"},
         op = "restore" => doc[on].op = "delete",
         Send(at, op, on, patch, before), UNCHANGED doc
  PROVE  Facts'
  <1>1. desk.on = None /\ desk.at = "idle"
    BY OpsAtValues DEF Send, FormsOK, DeskShape
  <1>2. /\ desk'.at = at /\ desk'.op = op /\ desk'.on = on
        /\ asked' = asked /\ broken' = broken
    BY DEF Send, Handler
  <1>3. \A n \in Nodes : OnRecord(n)' <=> OnRecord(n)
    BY <1>2 DEF OnRecord, Tombstoned
  <1>4. \A n \in Nodes : n \notin broken => OnRecord(n)
    BY <1>1, GraphAssumption DEF Facts, Fine, Agreed, InFlight
  <1>5. \A n \in Nodes : Shaped(n)' /\ Agreed(n)'
    BY <1>2, <1>3, <1>4 DEF Facts, Fine, Shaped, Agreed
  <1>6. \A n \in Nodes : KeptOf(n)'
    BY <1>1, <1>2 DEF Facts, Fine, KeptOf, Recording
  <1>7. Progress'
    BY <1>2, <1>3, <1>4 DEF Progress
  <1> QED
    BY <1>5, <1>6, <1>7 DEF Facts, Fine

\* the handler goes on, and no decision is written
LEMMA ToFacts ==
  ASSUME Facts, FormsOK, NEW at \in Steps \ {"record-op", "record-auto"}, To(at), UNCHANGED doc,
         desk.at \in {"record-op", "record-auto", "put-back"} => at = "put-back",
         at \in {"write", "withdraw"} => desk.at \in {"write", "withdraw"},
         at = "record" => desk.at = "write",
         at \in {"give-back", "list", "apply"} => desk.at \in {"give-back", "list", "apply"}
  PROVE  Facts'
  <1>1. /\ desk'.at = at /\ desk'.op = desk.op /\ desk'.on = desk.on
        /\ desk'.patch = desk.patch /\ asked' = asked /\ broken' = broken
    BY DEF To, FormsOK, FormsTypeOK, Handlers
  <1>2. \A n \in Nodes : OnRecord(n)' <=> OnRecord(n)
    BY <1>1 DEF OnRecord, Tombstoned
  <1>3. \A n \in Nodes : Shaped(n)' /\ Agreed(n)'
    BY <1>1, <1>2 DEF Facts, Fine, Shaped, Agreed, InFlight
  <1>4. \A n \in Nodes : KeptOf(n)'
    BY <1>1 DEF Facts, Fine, KeptOf, Recording
  <1>5. Progress'
    <2> SUFFICES ASSUME desk.op \in NodeForm
                 PROVE  Progress'
      BY <1>1 DEF Progress
    <2>1. desk.on \in Nodes
      BY DeskKnows
    <2> QED
      BY <1>1, <1>2, <2>1 DEF Facts, Progress, Untouched, Tombstoned
  <1> QED
    BY <1>3, <1>4, <1>5 DEF Facts, Fine

\* the handler goes on, and its own decision is written
LEMMA ToFactsOn ==
  ASSUME Facts, FormsOK, NEW at \in Steps, To(at),
         NEW n \in Nodes, desk.on = n, SameElsewhere(n),
         Shaped(n)', KeptOf(n)', Progress'
  PROVE  Facts'
  <1>1. desk'.on = n /\ asked' = asked /\ broken' = broken
    BY DEF To, FormsOK, FormsTypeOK, Handlers
  <1>2. \A m \in Nodes \ {n} : Fine(m)'
    BY <1>1, OtherFine DEF SameElsewhere
  <1>3. Agreed(n)'
    BY <1>1 DEF Agreed, InFlight, Targets
  <1> QED
    BY <1>2, <1>3 DEF Facts, Fine

LEMMA TurnedDownFacts ==
  ASSUME Facts, FormsOK, TurnedDown, UNCHANGED doc,
         desk.at \in {"write", "withdraw"}, desk.op \in NodeForm
  PROVE  Facts'
  <1>1. desk' = Free(desk.sent) /\ asked' = asked /\ broken' = broken
    BY DEF TurnedDown
  <1>2. desk.on \in Nodes
    BY DeskKnows
  <1>3. \A n \in Nodes : OnRecord(n)' <=> OnRecord(n)
    BY <1>1 DEF OnRecord, Tombstoned
  <1>4. \A n \in Nodes : n \notin broken => OnRecord(n)
    BY <1>2 DEF Facts, Fine, Agreed, InFlight, Progress, Untouched
  <1>5. \A n \in Nodes : Shaped(n)' /\ Agreed(n)'
    BY <1>1, <1>3, <1>4 DEF Facts, Fine, Shaped, Agreed
  <1>6. \A n \in Nodes : KeptOf(n)'
    BY <1>1 DEF Facts, Fine, KeptOf, Recording
  <1> QED
    BY <1>1, <1>5, <1>6, FreeDoes DEF Facts, Fine

\* what may or may not have been written is no longer asked for
LEMMA LeftBrokenFacts ==
  ASSUME Facts, FormsOK, LeftBroken, UNCHANGED doc
  PROVE  Facts'
  <1>1. desk' = Free(desk.sent) /\ broken' = broken \cup ({desk.on} \ {None})
    BY DEF LeftBroken
  <1>2. \A m \in Nodes \ {desk.on} : Fine(m)'
    <2> SUFFICES ASSUME NEW m \in Nodes \ {desk.on}
                 PROVE  Fine(m)'
      OBVIOUS
    <2>1. m # desk'.on
      BY <1>1, FreeDoes, GraphAssumption
    <2>2. asked'[m] = asked[m]
      BY DEF LeftBroken
    <2>3. (m \in broken') <=> (m \in broken)
      BY <1>1
    <2> QED
      BY <2>1, <2>2, <2>3, OtherFine
  <1>3. ASSUME NEW n \in Nodes, n = desk.on
        PROVE  Fine(n)'
    <2>1. n \in broken'
      BY <1>1, <1>3, GraphAssumption
    <2>2. \A f \in Fields : asked'[n].fields[f] # Unset =>
             /\ asked'[n].fields[f] = asked[n].fields[f]
             /\ ~Recording(n, f)
      <3>1. CASE desk.op \in {"edit", "create"}
        <4> DEFINE q == [asked[n] EXCEPT !.fields = Less(asked[n].fields, desk.patch)]
        <4>1. asked[n] \in Askings /\ asked \in [Nodes -> Askings]
          BY <1>3 DEF FormsOK, FormsTypeOK, Askings
        <4>2. q.fields = Less(asked[n].fields, desk.patch)
          BY <4>1 DEF Askings
        <4>3. asked' = [asked EXCEPT ![n] = q]
          BY <1>3, <3>1 DEF LeftBroken
        <4> HIDE DEF q
        <4>4. asked'[n] = q
          BY <4>1, <4>3
        <4> QED
          BY <4>2, <4>4 DEF Less, Recording
      <3>2. CASE desk.op \notin {"edit", "create"}
        BY <3>2 DEF LeftBroken, Recording
      <3> QED
        BY <3>1, <3>2
    <2>3. Shaped(n) /\ KeptOf(n)
      BY DEF Facts, Fine
    <2>4. KeptOf(n)'
      BY <2>2, <2>3 DEF KeptOf
    <2>5. Shaped(n)' /\ Agreed(n)'
      BY <2>1, <2>3 DEF Shaped, Agreed
    <2> QED
      BY <2>4, <2>5 DEF Fine
  <1> QED
    BY <1>1, <1>2, <1>3, FreeDoes DEF Facts

\* the page says that it is done: then the record must say so too
LEMMA DoneFacts ==
  ASSUME Facts, FormsOK, Done, NEW n \in Nodes, desk.on = n, desk.op \in NodeForm,
         SameElsewhere(n), Shaped(n)', OnRecord(n)'
  PROVE  Facts'
  <1>1. desk' = Free(desk.sent) /\ broken' = broken \ {n}
    BY DEF Done
  <1>2. \A m \in Nodes \ {n} : asked'[m] = asked[m]
    BY DEF Done
  <1>3. \A m \in Nodes \ {n} : Fine(m)'
    BY <1>1, <1>2, OtherFine, FreeDoes, GraphAssumption DEF SameElsewhere
  <1>4. KeptOf(n)' /\ Agreed(n)'
    BY DEF OnRecord, KeptOf, Agreed
  <1> QED
    BY <1>1, <1>3, <1>4, FreeDoes DEF Facts, Fine

\* a form about something else
LEMMA DoneElseFacts ==
  ASSUME Facts, FormsOK, Done, desk.op \notin NodeForm, UNCHANGED doc
  PROVE  Facts'
  <1>1. desk' = Free(desk.sent) /\ broken' = broken \ {desk.on} /\ asked' = asked
    BY DEF Done
  <1>2. \A n \in Nodes : n # desk.on
    BY GraphAssumption DEF FormsOK, FormsTypeOK, DeskShape, Handlers
  <1>3. \A n \in Nodes : Fine(n)'
    BY <1>1, <1>2, OtherFine, FreeDoes, GraphAssumption
  <1> QED
    BY <1>1, <1>3, FreeDoes DEF Facts

-----------------------------------------------------------------------------
(* The actions of the panel. *)

LEMMA SendingFacts ==
  ASSUME Facts, CommonOK, Sending
  PROVE  Facts'
  <1> USE DEF CommonOK, NodeForm
  <1>1. CASE \E n \in Nodes : \E f \in Fields, v \in Values \cup {None} : SendEdit(n, f, v)
    <2>1. PICK n \in Nodes, f \in Fields, v \in Values \cup {None} : SendEdit(n, f, v)
      BY <1>1
    <2> DEFINE p == [NoPatch EXCEPT ![f] = v]
    <2>2. Send("write", "edit", n, p, node[n]) /\ UNCHANGED doc
      BY <2>1 DEF SendEdit, decisionVars
    <2> HIDE DEF p
    <2> QED
      BY <2>2, SendFacts
  <1>2. CASE \E n \in Nodes : \E fields \in [Fields -> Values \cup {Unset}] : SendCreate(n, fields)
    BY <1>2, SendFacts DEF SendCreate, decisionVars
  <1>3. CASE \E n \in Nodes : SendDelete(n) \/ SendUndoSet(n) \/ SendUndoDelete(n)
    BY <1>3, SendFacts DEF SendDelete, SendUndoSet, SendUndoDelete, decisionVars
  <1>4. CASE \E n \in Nodes : SendRestore(n)
    <2>1. PICK n \in Nodes : SendRestore(n)
      BY <1>4
    <2>2. doc[n].op = "delete"
      BY <2>1 DEF SendRestore, DeletedFields
    <2> QED
      BY <2>1, <2>2, SendFacts DEF SendRestore, decisionVars
  <1>5. CASE \E l \in Links : SendLink(l) \/ SendUnlink(l) \/ SendUndoUnlink(l)
    BY <1>5, SendFacts DEF SendLink, SendUnlink, SendUndoUnlink, decisionVars
  <1>6. CASE SendReapply
    BY <1>6, SendFacts DEF SendReapply, decisionVars
  <1> QED
    BY <1>1, <1>2, <1>3, <1>4, <1>5, <1>6 DEF Sending

LEMMA WritingFacts ==
  ASSUME Facts, CommonOK,
         \/ WriteEdit \/ WriteNew \/ WriteDelete \/ Vanished
         \/ MongoFails \/ PutBack \/ GiveBack
  PROVE  Facts'
  <1> USE DEF CommonOK
  <1>1. CASE WriteEdit \/ WriteNew \/ WriteDelete
    <2>1. desk.at = "write" /\ desk.op \in NodeForm /\ UNCHANGED doc
      BY <1>1 DEF WriteEdit, WriteNew, WriteDelete, At, NodeForm, decisionVars
    <2>2. To("record") \/ To("withdraw") \/ TurnedDown
      BY <1>1 DEF WriteEdit, WriteNew, WriteDelete
    <2> QED
      BY <2>1, <2>2, ToFacts, TurnedDownFacts DEF Steps
  <1>2. CASE Vanished \/ PutBack
    BY <1>2, LeftBrokenFacts DEF Vanished, PutBack, decisionVars
  <1>3. CASE MongoFails
    BY <1>3, ToFacts DEF MongoFails, decisionVars, Steps
  <1>4. CASE GiveBack
    <2>1. desk.at = "give-back" /\ UNCHANGED doc
      BY <1>4 DEF GiveBack, decisionVars
    <2>2. LeftBroken \/ To("list")
      BY <1>4 DEF GiveBack
    <2> QED
      BY <2>1, <2>2, LeftBrokenFacts, ToFacts DEF Steps
  <1> QED
    BY <1>1, <1>2, <1>3, <1>4

\* withdrawing leaves no deletion, and nothing is withdrawn with what stands
LEMMA WithdrawnDoes ==
  ASSUME Facts, DecisionsOK, NEW n \in Nodes, Withdraw(n)
  PROVE  /\ Shaped(n)'
         /\ n \notin Tombstoned'
         /\ doc[n].op = "delete" => doc'[n].active \/ doc'[n].fields = NoPatch
  <1>1. Shaped(n)
    BY DEF Facts, Fine
  <1> QED
    BY <1>1, WithdrawDoes DEF Shaped, Tombstoned

LEMMA WithdrawTombstoneFacts ==
  ASSUME Facts, CommonOK, WithdrawTombstone
  PROVE  Facts'
  <1> USE DEF CommonOK
  <1>1. PICK n \in Nodes : n = desk.on
    BY DeskKnows DEF WithdrawTombstone, At, NodeForm
  <1>2. desk.at = "withdraw" /\ desk.op \in {"create", "restore"}
    BY DEF WithdrawTombstone, At
  <1>3. Shaped(n) /\ KeptOf(n) /\ \A f \in Fields : ~Recording(n, f)
    BY <1>2 DEF Facts, Fine, Recording
  <1>4. SameElsewhere(n) /\ doc'[n].fields = doc[n].fields
    BY <1>1, WithdrawDoes, SameDoc DEF WithdrawTombstone
  <1>5. Shaped(n)' /\ n \notin Tombstoned'
    <2>1. CASE Withdraw(n)
      BY <2>1, WithdrawnDoes
    <2>2. CASE ~Withdrawable(n, "delete") /\ UNCHANGED doc
      BY <1>3, <2>2 DEF Shaped, Withdrawable, Tombstoned
    <2> QED
      BY <1>1, <2>1, <2>2 DEF WithdrawTombstone
  <1>6. CASE desk.op = "create"
    <2>1. To("record")
      BY <1>6 DEF WithdrawTombstone
    <2>2. /\ desk'.at = "record" /\ desk'.op = "create" /\ asked' = asked
      BY <1>6, <2>1 DEF To, FormsOK, FormsTypeOK, Handlers
    <2>3. KeptOf(n)' /\ Progress'
      BY <1>3, <1>4, <2>2 DEF KeptOf, Progress, Untouched
    <2> QED
      BY <1>1, <1>4, <1>5, <2>1, <2>3, ToFactsOn DEF Steps
  <1>7. CASE desk.op = "restore"
    <2>1. Done
      BY <1>7 DEF WithdrawTombstone
    <2>2. asked'[n].gone = FALSE /\ asked'[n].fields = asked[n].fields
      BY <1>1, <1>7, <2>1 DEF Done, NowAsked, NodeForm, FormsOK, FormsTypeOK
    <2>3. doc[n].op = "delete"
      BY <1>1, <1>2, <1>7 DEF Facts, Progress, NodeForm
    <2>4. ASSUME NEW f \in Fields, asked[n].fields[f] # Unset
          PROVE  doc'[n].active /\ doc'[n].fields[f] = asked[n].fields[f]
      <3>1. doc[n].fields[f] = asked[n].fields[f] /\ doc[n].fields # NoPatch
        BY <1>3, <2>4 DEF KeptOf, NoPatch
      <3>2. Withdrawable(n, "delete")
        BY <1>3, <2>3, <3>1, DocDomain DEF Shaped, Withdrawable
      <3>3. Withdraw(n)
        BY <1>1, <3>2 DEF WithdrawTombstone
      <3> QED
        BY <1>4, <2>3, <3>1, <3>3, WithdrawnDoes
    <2>5. OnRecord(n)'
      BY <1>5, <2>2, <2>4 DEF OnRecord
    <2> QED
      BY <1>1, <1>4, <1>5, <1>7, <2>1, <2>5, DoneFacts DEF NodeForm
  <1> QED
    BY <1>2, <1>6, <1>7

LEMMA WithdrawShownFacts ==
  ASSUME Facts, CommonOK, WithdrawShown
  PROVE  Facts'
  <1> USE DEF CommonOK
  <1>1. PICK n \in Nodes : n = desk.on
    BY DeskKnows DEF WithdrawShown, At, NodeForm
  <1>2. desk.at = "withdraw" /\ desk.op \in {"undo-set", "undo-delete"}
    BY DEF WithdrawShown, At
  <1>3. CASE /\ Withdrawable(n, IF desk.op = "undo-set" THEN "set" ELSE "delete")
             /\ Withdraw(n) /\ To("give-back")
    <2>1. /\ desk'.at = "give-back" /\ desk'.op = desk.op /\ desk'.on = n /\ asked' = asked
      BY <1>1, <1>3 DEF To, FormsOK, FormsTypeOK, Handlers
    <2>2. SameElsewhere(n) /\ doc'[n].fields = doc[n].fields
      BY <1>3, WithdrawDoes
    <2>3. /\ Shaped(n)' /\ n \notin Tombstoned'
          /\ desk.op = "undo-delete" => doc'[n].active \/ doc'[n].fields = NoPatch
      BY <1>2, <1>3, WithdrawnDoes DEF Withdrawable
    <2>4. KeptOf(n)'
      BY <1>2, <2>1, <2>2 DEF Facts, Fine, KeptOf, Recording
    <2>5. Progress'
      BY <1>2, <2>1, <2>3 DEF Progress, Untouched
    <2> QED
      BY <1>1, <1>3, <2>2, <2>3, <2>4, <2>5, ToFactsOn DEF Steps
  <1>4. CASE TurnedDown /\ UNCHANGED doc
    BY <1>2, <1>4, TurnedDownFacts DEF NodeForm
  <1> QED
    BY <1>1, <1>3, <1>4 DEF WithdrawShown

LEMMA RecordFacts ==
  ASSUME Facts, CommonOK, Record
  PROVE  Facts'
  <1> USE DEF CommonOK
  <1>1. PICK n \in Nodes : n = desk.on
    BY DeskKnows DEF Record, At, NodeForm
  <1>2. desk.at = "record" /\ desk.op \in {"edit", "delete", "create"}
    BY DEF Record, At
  <1>3. \A f \in Fields : asked[n].fields[f] # Unset => doc[n].fields[f] = asked[n].fields[f]
    BY <1>2 DEF Facts, Fine, KeptOf, Recording
  <1>4. CASE desk.op = "edit"
    <2>1. RecordFirst(n, "set", desk.patch, Absent) /\ To("record-op")
      BY <1>1, <1>4 DEF Record
    <2>2. /\ desk'.at = "record-op" /\ desk'.op = "edit" /\ desk'.on = n
          /\ desk'.patch = desk.patch /\ asked' = asked
      BY <1>1, <1>4, <2>1 DEF To, FormsOK, FormsTypeOK, Handlers
    <2>3. /\ SameElsewhere(n) /\ doc'[n].active = TRUE /\ doc'[n].op # "none"
          /\ doc'[n].fields = Over(doc[n].fields, desk.patch)
      BY <2>1, RecordFirstDoes
    <2>4. Shaped(n)'
      BY <2>3 DEF Shaped
    <2>5. KeptOf(n)'
      BY <1>3, <2>2, <2>3 DEF KeptOf, Recording, Over
    <2>6. Progress'
      BY <2>2, <2>3 DEF Progress, Untouched, Over
    <2> QED
      BY <1>1, <2>1, <2>3, <2>4, <2>5, <2>6, ToFactsOn DEF Steps
  <1>5. CASE desk.op = "create"
    <2>1. RecordFirst(n, "create", desk.patch, Absent) /\ Done
      BY <1>1, <1>5 DEF Record
    <2>2. /\ asked'[n].gone = FALSE
          /\ asked'[n].fields = Over(asked[n].fields, desk.patch)
      BY <1>1, <1>5, <2>1 DEF Done, NowAsked, NodeForm, FormsOK, FormsTypeOK
    <2>3. /\ SameElsewhere(n) /\ doc'[n].active = TRUE /\ doc'[n].op = "create"
          /\ doc'[n].fields = Over(doc[n].fields, desk.patch)
      BY <2>1, RecordFirstDoes
    <2>4. Shaped(n)'
      BY <2>3 DEF Shaped
    <2>5. OnRecord(n)'
      BY <1>3, <2>2, <2>3 DEF OnRecord, Tombstoned, Over
    <2> QED
      BY <1>1, <1>5, <2>1, <2>3, <2>4, <2>5, DoneFacts DEF NodeForm
  <1>6. CASE desk.op = "delete"
    <2>1. RecordFirst(n, "delete", NoPatch, Kept(desk.before)) /\ Done
      BY <1>1, <1>6 DEF Record
    <2>2. asked'[n].gone = TRUE /\ asked'[n].fields = asked[n].fields
      BY <1>1, <1>6, <2>1 DEF Done, NowAsked, NodeForm, FormsOK, FormsTypeOK
    <2>3. /\ SameElsewhere(n) /\ doc'[n].active = TRUE /\ doc'[n].op = "delete"
          /\ doc'[n].fields = Over(doc[n].fields, NoPatch)
      BY <2>1, RecordFirstDoes
    <2>4. Shaped(n)'
      BY <2>3 DEF Shaped
    <2>5. OnRecord(n)'
      BY <1>3, <2>2, <2>3 DEF OnRecord, Tombstoned, Over, NoPatch
    <2> QED
      BY <1>1, <1>6, <2>1, <2>3, <2>4, <2>5, DoneFacts DEF NodeForm
  <1> QED
    BY <1>2, <1>4, <1>5, <1>6

LEMMA RecordOpFacts ==
  ASSUME Facts, CommonOK, RecordOp
  PROVE  Facts'
  <1> USE DEF CommonOK
  <1>1. desk.at = "record-op" /\ desk.op = "edit"
    BY DeskKnows, OpsAtValues DEF RecordOp
  <1>2. PICK n \in Nodes : n = desk.on
    BY <1>1, DeskKnows DEF NodeForm
  <1>3. RecordSecond(n) /\ To("record-auto")
    BY <1>2 DEF RecordOp
  <1>4. /\ desk'.at = "record-auto" /\ desk'.op = "edit" /\ desk'.on = n
        /\ desk'.patch = desk.patch /\ asked' = asked
    BY <1>1, <1>2, <1>3 DEF To, FormsOK, FormsTypeOK, Handlers
  <1>5. /\ SameElsewhere(n) /\ doc'[n].op \in {"create", "set"}
        /\ doc'[n].active = doc[n].active /\ doc'[n].fields = doc[n].fields
    BY <1>3, RecordSecondDoes
  <1>6. doc[n].active /\ \A f \in Fields :
           desk.patch[f] # Unset => doc[n].fields[f] = desk.patch[f]
    BY <1>1, <1>2 DEF Facts, Progress, NodeForm
  <1>7. Shaped(n)'
    BY <1>5 DEF Shaped
  <1>8. KeptOf(n)'
    BY <1>1, <1>2, <1>4, <1>5 DEF Facts, Fine, KeptOf, Recording
  <1>9. Progress'
    BY <1>4, <1>5, <1>6 DEF Progress, Untouched
  <1> QED
    BY <1>2, <1>3, <1>5, <1>7, <1>8, <1>9, ToFactsOn DEF Steps

LEMMA RecordAutoFacts ==
  ASSUME Facts, CommonOK, RecordAutoValue
  PROVE  Facts'
  <1> USE DEF CommonOK
  <1>1. desk.at = "record-auto" /\ desk.op = "edit"
    BY DeskKnows, OpsAtValues DEF RecordAutoValue
  <1>2. PICK n \in Nodes : n = desk.on
    BY <1>1, DeskKnows DEF NodeForm
  <1>3. RecordAuto(n, desk.patch, desk.before) /\ Done
    BY <1>2 DEF RecordAutoValue
  <1>4. SameFace /\ SameElsewhere(n)
    BY <1>3, RecordAutoDoes DEF RecordAuto, SameElsewhere
  <1>5. /\ asked'[n].gone = FALSE
        /\ asked'[n].fields = Over(asked[n].fields, desk.patch)
    BY <1>1, <1>2, <1>3 DEF Done, NowAsked, NodeForm, FormsOK, FormsTypeOK
  <1>6. /\ doc[n].active /\ doc[n].op # "delete"
        /\ \A f \in Fields : desk.patch[f] # Unset => doc[n].fields[f] = desk.patch[f]
    BY <1>1, <1>2 DEF Facts, Progress, NodeForm
  <1>7. \A f \in Fields : asked[n].fields[f] # Unset /\ desk.patch[f] = Unset =>
           doc[n].fields[f] = asked[n].fields[f]
    BY DEF Facts, Fine, KeptOf, Recording
  <1>8. Shaped(n)'
    BY <1>4 DEF Facts, Fine, Shaped, SameFace
  <1>9. OnRecord(n)'
    BY <1>4, <1>5, <1>6, <1>7 DEF OnRecord, Tombstoned, SameFace, Over
  <1> QED
    BY <1>1, <1>2, <1>3, <1>4, <1>8, <1>9, DoneFacts DEF NodeForm

LEMMA ReappliedFacts ==
  ASSUME Facts, CommonOK, ReappliedAll
  PROVE  Facts'
  <1> USE DEF CommonOK
  <1>1. desk.at = "apply" /\ Done /\ UNCHANGED doc
    BY DEF ReappliedAll, decisionVars
  <1>2. CASE desk.op \notin NodeForm
    BY <1>1, <1>2, DoneElseFacts
  <1>3. CASE desk.op \in NodeForm
    <2>1. desk.op \in {"undo-set", "undo-delete"}
      BY <1>1, <1>3, DeskKnows, OpsAtValues DEF NodeForm
    <2>2. PICK n \in Nodes : n = desk.on
      BY <1>3, DeskKnows
    <2>3. asked'[n].gone = FALSE
      BY <1>1, <1>3, <2>1, <2>2 DEF Done, NowAsked, FormsOK, FormsTypeOK
    <2>4. \A f \in Fields : asked'[n].fields[f] # Unset =>
             desk.op = "undo-delete" /\ asked'[n].fields[f] = asked[n].fields[f]
      BY <1>1, <1>3, <2>1, <2>2 DEF Done, NowAsked, NoPatch, FormsOK, FormsTypeOK
    <2>5. /\ n \notin Tombstoned
          /\ desk.op = "undo-delete" => doc[n].active \/ doc[n].fields = NoPatch
      BY <1>1, <1>3, <2>2 DEF Facts, Progress
    <2>6. \A f \in Fields : asked[n].fields[f] # Unset => doc[n].fields[f] = asked[n].fields[f]
      BY <1>1 DEF Facts, Fine, KeptOf, Recording
    <2>7. OnRecord(n)'
      BY <1>1, <2>3, <2>4, <2>5, <2>6 DEF OnRecord, Tombstoned, NoPatch
    <2>8. Shaped(n)'
      BY <1>1 DEF Facts, Fine, Shaped
    <2> QED
      BY <1>1, <1>3, <2>2, <2>7, <2>8, SameDoc, DoneFacts
  <1> QED
    BY <1>2, <1>3

-----------------------------------------------------------------------------
(* The whole. *)

LEMMA DeskFacts ==
  ASSUME Facts, AllOK, Desk
  PROVE  Facts'
  <1> USE DEF AllOK, CommonOK
  <1>1. CASE RecordLinkForm
    BY <1>1, DoneElseFacts DEF RecordLinkForm, At, NodeForm
  <1>2. CASE ListAll
    BY <1>2, ToFacts DEF ListAll, decisionVars, Steps
  <1>3. CASE ReapplyAll
    BY <1>3, ApplyDoes, FactsKept DEF ReapplyAll, Appliers
  <1>4. CASE Cut
    BY <1>4, LeftBrokenFacts DEF Cut, decisionVars
  <1> QED
    BY <1>1, <1>2, <1>3, <1>4, SendingFacts, WritingFacts, WithdrawTombstoneFacts,
       WithdrawShownFacts, RecordFacts, RecordOpFacts, RecordAutoFacts, ReappliedFacts
       DEF Desk, Handling

\* the run writes no decision, but for what an edit covers
LEMMA RunFacts ==
  ASSUME Facts, AllOK, Run, UNCHANGED formVars
  PROVE  Facts'
  <1> USE DEF AllOK, CommonOK
  <1>1. CASE Reapply
    BY <1>1, ApplyDoes, FactsKept DEF Reapply, Appliers
  <1>2. CASE UNCHANGED doc
    BY <1>2, SameDoc, FactsKept
  <1>3. Reapply \/ UNCHANGED doc
    BY DEF Run, Start, DropTombstoned, ReadSkips, ReadClaims, WriteNodes, Promote,
           WriteLinks, SyncLinks, ReadDecisions, Published, Replay, ReadClaimed, PlanNodes, PlanLinks,
           PruneLinks, PruneNodes, BreakOff, decisionVars
  <1> QED
    BY <1>1, <1>2, <1>3

LEMMA FactsInit ==
  Init => Facts
  <1> SUFFICES ASSUME Init
               PROVE  Facts
    OBVIOUS
  <1>1. /\ desk.at = "idle" /\ desk.op = "reapply"
        /\ \A n \in Nodes : doc[n] = NoDecision
        /\ \A n \in Nodes : asked[n] = [gone |-> FALSE, fields |-> NoPatch]
    BY DEF Init, FormsInit, OverridesInit, Free, Handler
  <1>2. Progress
    BY <1>1 DEF Progress, NodeForm
  <1>3. \A n \in Nodes : ~doc[n].active /\ doc[n].fields = NoPatch
    <2>1. NoDecision.active = FALSE /\ NoDecision.fields = NoPatch
      BY DEF NoDecision
    <2> QED
      BY <1>1, <2>1
  <1>4. \A n \in Nodes : ~asked[n].gone /\ \A f \in Fields : asked[n].fields[f] = Unset
    <2> SUFFICES ASSUME NEW n \in Nodes
                 PROVE  ~asked[n].gone /\ asked[n].fields = NoPatch
      BY DEF NoPatch
    <2>1. asked[n] = [gone |-> FALSE, fields |-> NoPatch]
      BY <1>1
    <2> QED
      BY <2>1
  <1>5. \A n \in Nodes : Shaped(n) /\ KeptOf(n)
    BY <1>3, <1>4 DEF Shaped, KeptOf
  <1>6. \A n \in Nodes : Agreed(n)
    BY <1>3, <1>4 DEF Agreed, OnRecord, Tombstoned
  <1> QED
    BY <1>2, <1>5, <1>6 DEF Facts, Fine

LEMMA FactsNext ==
  TypeInv /\ Facts /\ [Next]_vars => Facts'
  <1> SUFFICES ASSUME TypeInv, Facts, [Next]_vars
               PROVE  Facts'
    OBVIOUS
  <1> USE DEF TypeInv
  <1>1. CASE DeskStep
    BY <1>1, DeskFacts DEF DeskStep
  <1>2. CASE EtlStep
    BY <1>2, RunFacts DEF EtlStep
  <1>3. CASE SourceStep \/ UNCHANGED vars
    BY <1>3, SameDoc, FactsKept
       DEF SourceStep, SupplyChanges, decisionVars, formVars, vars, AllOK, CommonOK
  <1> QED
    BY <1>1, <1>2, <1>3 DEF Next

\* Between any two steps the decisions, what people were told and the handler
\* under way fit together (record_override, deactivate_override, nodes._record).
THEOREM RecordHolds == Spec => []RecordInv
  <1>1. Spec => [](TypeInv /\ Facts)
    <2>1. Init => TypeInv /\ Facts
      BY TypeInit, FactsInit
    <2>2. TypeInv /\ Facts /\ [Next]_vars => TypeInv' /\ Facts'
      BY TypeNext, FactsNext
    <2> QED
      BY <2>1, <2>2, PTL DEF Spec
  <1>2. TypeInv /\ Facts => RecordInv
    BY TypeInvIsTypeOK, FactsAre DEF RecordInv, TypeInv, AllOK, CommonOK, FormsOK
  <1> QED
    BY <1>1, <1>2, PTL

\* What people were told is done is on record, whatever fails and whoever works
\* on the same record: no edit is lost to an edit of another field, to a
\* deletion withdrawn, or to a record added anew, and a record counts as deleted
\* exactly when it was (record_override, deactivate_override).
THEOREM NothingIsLost == Spec => []NothingAskedIsLost
  <1>1. RecordInv => NothingAskedIsLost
    BY DEF RecordInv
  <1> QED
    BY <1>1, RecordHolds, PTL

-----------------------------------------------------------------------------
(* A publish carries out what people decided, and spares what they claimed. *)

-----------------------------------------------------------------------------
(* What a run leaves alone: the decisions, but for what an edit covers, and *)
(* the handler.                                                             *)

LEMMA RunDoes ==
  ASSUME TypeInv, EtlStep
  PROVE  /\ SameFace /\ UNCHANGED rel /\ InFlight' = InFlight
         /\ Tombstoned' = Tombstoned /\ Unlinked' = Unlinked
         /\ ClaimedNodes' = ClaimedNodes /\ ClaimedLinks' = ClaimedLinks
  <1> USE DEF TypeInv, AllOK, CommonOK
  <1>1. SameFace
    <2>1. CASE Reapply
      BY <2>1, ApplyDoes DEF Reapply, Appliers
    <2>2. Reapply \/ UNCHANGED doc
      BY DEF EtlStep, Run, Start, DropTombstoned, ReadSkips, ReadClaims, WriteNodes, Promote,
             WriteLinks, SyncLinks, ReadDecisions, Published, Replay, ReadClaimed, PlanNodes,
             PlanLinks, PruneLinks, PruneNodes, BreakOff, decisionVars
    <2> QED
      BY <2>1, <2>2, SameDoc
  <1>2. UNCHANGED rel
    <2>1. CASE Reapply
      BY <2>1 DEF Reapply, ApplyUnlink, ApplyLook, ApplyWrite, decisionVars
    <2>2. Reapply \/ UNCHANGED rel
      BY DEF EtlStep, Run, Start, DropTombstoned, ReadSkips, ReadClaims, WriteNodes, Promote,
             WriteLinks, SyncLinks, ReadDecisions, Published, Replay, ReadClaimed, PlanNodes,
             PlanLinks, PruneLinks, PruneNodes, BreakOff, decisionVars
    <2> QED
      BY <2>1, <2>2
  <1> QED
    BY <1>1, <1>2 DEF SameFace, Tombstoned, Unlinked, ClaimedNodes, ClaimedLinks,
                      EtlStep, InFlight, formVars

\* the steps of a run that no new one begins with
Going == Run /\ ~\E task \in Tasks : Start(task)

LEMMA GoOnDoes ==
  ASSUME TypeInv, NEW at, GoOn(at)
  PROVE  /\ etl'.at = at /\ etl'.task = etl.task /\ etl'.given = etl.given
         /\ etl'.skip = etl.skip /\ etl'.claims = etl.claims
         /\ etl'.doomed = etl.doomed /\ etl'.runs = etl.runs
  BY DEF TypeInv, AllOK, EtlOK, Runs, GoOn

LEMMA GoingDoes ==
  ASSUME TypeInv, EtlStep, Going
  PROVE  /\ etl'.task = etl.task
         /\ touched' = touched
         /\ late' = IF etl.at = "list" THEN InFlight ELSE late
  <1>1. etl \in Runs
    BY DEF TypeInv, AllOK, EtlOK
  <1>2. etl'.runs = etl.runs /\ etl'.task = etl.task
    <2>1. CASE \/ WriteNodes \/ Promote \/ WriteLinks \/ SyncLinks \/ ReadDecisions
               \/ Published \/ Replay \/ PruneLinks \/ PruneNodes \/ BreakOff
      <3>1. PICK at : GoOn(at)
        BY <2>1 DEF WriteNodes, Promote, WriteLinks, SyncLinks, ReadDecisions, Published,
                    Replay, PruneLinks, PruneNodes, BreakOff
      <3> QED
        BY <3>1, GoOnDoes
    <2>2. CASE DropTombstoned \/ ReadSkips \/ ReadClaims \/ ReadClaimed \/ PlanNodes \/ PlanLinks
      BY <1>1, <2>2 DEF DropTombstoned, ReadSkips, ReadClaims, ReadClaimed, PlanNodes, PlanLinks, Runs
    <2>3. CASE Reapply
      BY <2>3 DEF Reapply
    <2> QED
      BY <2>1, <2>2, <2>3 DEF Going, Run
  <1> QED
    BY <1>2 DEF EtlStep

\* a new run observes from its beginning
LEMMA StartDoes ==
  ASSUME TypeInv, EtlStep, NEW task \in Tasks, Start(task)
  PROVE  /\ etl'.at = "drop" /\ etl'.task = task
         /\ touched' = InFlight /\ late' = InFlight
         /\ UNCHANGED <<graphVars, decisionVars, supply, todo, hand>>
  <1>1. etl'.runs = etl.runs + 1 /\ etl.runs \in Nat
    BY PublishAssumption DEF Start, TypeInv, AllOK, EtlOK, Runs
  <1>2. etl'.runs # etl.runs
    BY <1>1
  <1> QED
    BY <1>2 DEF Start, EtlStep
-----------------------------------------------------------------------------
(* A step of the desk.  What it disturbs, it has moved.                    *)

LEMMA DeskMoves ==
  ASSUME TypeInv, DeskStep
  PROVE  /\ UNCHANGED <<supply, etl>>
         /\ todo'["etl"] = todo["etl"] /\ hand'["etl"] = hand["etl"]
         /\ ToApply' = ToApply
         /\ touched' = touched \cup Moved /\ late' = late \cup Moved
         /\ InFlight' \subseteq Moved
         /\ \A n \in Nodes \ Moved : node'[n] = node[n] /\ doc'[n] = doc[n]
         /\ \A l \in Links \ Moved : ((l \in link') <=> (l \in link)) /\ rel'[l] = rel[l]
  <1>1. UNCHANGED <<supply, etl>>
    BY DEF DeskStep, Desk
  <1>2. todo'["etl"] = todo["etl"] /\ hand'["etl"] = hand["etl"]
    <2>1. /\ todo \in [Appliers -> SUBSET (NodeOrders \cup LinkOrders)]
          /\ hand \in [Appliers -> NodeOrders \cup {NoOrder}]
      BY DEF TypeInv, AllOK, AppliesOK
    <2> QED
      BY <2>1 DEF DeskStep, Desk, ListAll, ListDecisions, ReapplyAll, ApplyUnlink, ApplyLook,
                  ApplyWrite, ReappliedAll, Cut, Appliers
  <1>3. ToApply' = ToApply
    BY <1>2 DEF ToApply
  <1>4. touched' = touched \cup Moved /\ late' = late \cup Moved /\ InFlight' \subseteq Moved
    BY DEF DeskStep, Moved, InFlight
  <1>5. \A n \in Nodes \ Moved : node'[n] = node[n] /\ doc'[n] = doc[n]
    BY DEF Moved
  <1>6. \A l \in Links \ Moved : ((l \in link') <=> (l \in link)) /\ rel'[l] = rel[l]
    BY DEF Moved
  <1> QED
    BY <1>1, <1>2, <1>3, <1>4, <1>5, <1>6

\* the orders are about nodes and relationships
LEMMA OrdersTyped ==
  ASSUME TypeInv, NEW order \in ToApply
  PROVE  /\ \/ order \in NodeOrders /\ order.on \in Nodes /\ order.what # "unlink"
            \/ order \in LinkOrders /\ order.on \in Links /\ order.what = "unlink"
         /\ order # NoOrder
  <1>1. order \in NodeOrders \cup LinkOrders
    BY DEF TypeInv, AllOK, AppliesOK, ToApply, Appliers
  <1> QED
    BY <1>1, GraphAssumption DEF NodeOrders, LinkOrders, NoOrder

LEMMA DeskRunInv ==
  ASSUME TypeInv, RunInv, DeskStep
  PROVE  RunInv'
  <1>1. StepsFit'
    BY DeskMoves DEF RunInv, StepsFit
  <1>2. Observed'
    BY DeskMoves DEF RunInv, Observed
  <1>3. Dropped'
    <2>1. Tombstoned' \ touched' \subseteq Tombstoned \ touched
      BY DeskMoves DEF Tombstoned
    <2> QED
      BY <2>1, DeskMoves DEF RunInv, Dropped
  <1>4. ClaimsKnown'
    <2>1. /\ ClaimedNodes' \ touched' \subseteq ClaimedNodes \ touched
          /\ ClaimedLinks' \ touched' \subseteq ClaimedLinks \ touched
      BY DeskMoves DEF ClaimedNodes, ClaimedLinks
    <2>2. /\ touched \subseteq touched' /\ etl' = etl
      BY DeskMoves
    <2> QED
      BY <2>1, <2>2 DEF RunInv, ClaimsKnown
  <1>5. Promoted'
    <2>1. link' \subseteq Links
      BY TypeNext DEF Next, TypeInv, AllOK, CommonOK, GraphTypeOK
    <2>2. /\ link' \ touched' \subseteq link \ touched
          /\ \A n \in Nodes \ touched' : n \notin touched /\ (Exists(n)' <=> Exists(n))
          /\ touched \subseteq touched' /\ etl' = etl
      BY <2>1, DeskMoves DEF Exists
    <2>3. \A n \in Nodes : /\ Loads(etl.given, n)' <=> Loads(etl.given, n)
                          /\ Promotion(etl.given, n)' = Promotion(etl.given, n)
      BY <2>2 DEF Loads, Promotion
    <2> QED
      BY <2>2, <2>3, GraphAssumption DEF RunInv, Promoted, TypeInv, AllOK, CommonOK, GraphTypeOK
  <1>6. OrdersCurrent'
    <2> SUFFICES ASSUME NEW order \in ToApply, order.on \notin late'
                 PROVE  Current(order)'
      BY DeskMoves DEF OrdersCurrent
    <2>1. Current(order) /\ order.on \notin Moved
      BY DeskMoves DEF RunInv, OrdersCurrent
    <2> QED
      BY <2>1, DeskMoves, OrdersTyped, GraphAssumption DEF Current, Unlinked
  <1>7. Carried'
    <2> SUFFICES ASSUME etl.at \in {"apply", "done"}, NEW t \in Targets \ late', Standing(t)
                 PROVE  Standing(t)'
      BY DeskMoves DEF RunInv, Carried
    <2>1. t \notin Moved
      BY DeskMoves
    <2>2. CASE t \in Nodes
      BY <2>1, <2>2, DeskMoves DEF Standing, Exists
    <2>3. CASE t \in Links
      BY <2>1, <2>3, DeskMoves, GraphAssumption DEF Standing, Unlinked
    <2> QED
      BY <2>2, <2>3 DEF Targets
  <1> QED
    BY <1>1, <1>2, <1>3, <1>4, <1>5, <1>6, <1>7 DEF RunInv

\* the sources reach a run only when it reads the rows
LEMMA OtherRunInv ==
  ASSUME RunInv, UNCHANGED <<graphVars, decisionVars, etl, todo, hand, formVars, touched, late>>
  PROVE  RunInv'
  BY DEF RunInv, StepsFit, Observed, Dropped, ClaimsKnown, Promoted, OrdersCurrent, Carried,
         InFlight, Tombstoned, ClaimedNodes, ClaimedLinks, Loads, Promotion, ToApply, Current,
         Unlinked, Standing, Exists, graphVars, decisionVars, formVars
-----------------------------------------------------------------------------
(* A step of the run, conjunct by conjunct. *)

LEMMA StartRunInv ==
  ASSUME TypeInv, RunInv, EtlStep, NEW task \in Tasks, Start(task)
  PROVE  RunInv'
  <1>1. /\ etl'.at = "drop" /\ touched' = InFlight /\ late' = InFlight /\ InFlight' = InFlight
        /\ UNCHANGED <<todo, hand>>
    BY StartDoes, RunDoes
  <1>2. ToApply = {}
    BY DEF Start, RunInv, StepsFit, ToApply
  <1>3. ToApply' = {}
    BY <1>1, <1>2 DEF ToApply
  <1> QED
    BY <1>1, <1>2, <1>3 DEF RunInv, StepsFit, Observed, Dropped, ClaimsKnown, Promoted,
         OrdersCurrent, Carried, Start, Publishing, Running, Loading, Pruning

LEMMA GoingStepsFit ==
  ASSUME TypeInv, StepsFit, EtlStep, Going
  PROVE  StepsFit'
  <1>1. /\ etl \in Runs /\ etl'.task = etl.task
        /\ todo \in [Appliers -> SUBSET (NodeOrders \cup LinkOrders)]
        /\ hand \in [Appliers -> NodeOrders \cup {NoOrder}]
    BY GoingDoes DEF TypeInv, AllOK, EtlOK, AppliesOK
  <1> USE <1>1 DEF StepsFit, Publishing, Loading, Pruning, Runs
  <1>2. CASE DropTombstoned \/ ReadSkips
    BY <1>2 DEF DropTombstoned, ReadSkips
  <1>3. CASE ReadClaims \/ WriteNodes \/ Promote \/ WriteLinks \/ SyncLinks
    BY <1>3 DEF ReadClaims, WriteNodes, Promote, WriteLinks, SyncLinks, GoOn
  <1>4. CASE ReadDecisions \/ Reapply
    BY <1>4 DEF ReadDecisions, Reapply, GoOn
  <1>5. CASE Published
    BY <1>5 DEF Published, Applied, GoOn
  <1>6. CASE Replay \/ ReadClaimed \/ PlanNodes \/ PlanLinks \/ PruneLinks \/ PruneNodes
    BY ZenonT(60), <1>6 DEF Replay, ReadClaimed, PlanNodes, PlanLinks, PruneLinks, PruneNodes, GoOn
  <1>7. CASE BreakOff
    BY <1>7 DEF BreakOff, GoOn, Appliers
  <1> QED
    BY <1>2, <1>3, <1>4, <1>5, <1>6, <1>7 DEF Going, Run

LEMMA GoingObserved ==
  ASSUME TypeInv, Observed, EtlStep, Going
  PROVE  Observed'
  BY GoingDoes, RunDoes DEF Observed

\* the rows change in two steps, and lose rows there
LEMMA WithoutDoes ==
  ASSUME NEW given, NEW gone, NEW n \in Nodes
  PROVE  Without(given, gone).rows[n] = IF n \in gone THEN Absent ELSE given.rows[n]
  BY DEF Without

LEMMA GoingDropped ==
  ASSUME TypeInv, Dropped, EtlStep, Going
  PROVE  Dropped'
  <1>1. etl \in Runs /\ touched' = touched /\ Tombstoned' = Tombstoned
    BY GoingDoes, RunDoes DEF TypeInv, AllOK, EtlOK
  <1> USE <1>1 DEF Dropped, Running, Loading, Pruning
  <1>2. CASE DropTombstoned
    <2> DEFINE w == Without(etl.given, Tombstoned \ Candidates)
    <2>1. etl' = [etl EXCEPT !.at = "skips", !.given = w]
      BY <1>2 DEF DropTombstoned
    <2>2. \A n \in Tombstoned \ Candidates : w.rows[n] = Absent
      BY WithoutDoes DEF Tombstoned
    <2> HIDE DEF w
    <2>3. etl'.at = "skips" /\ etl'.given = w
      BY <2>1 DEF Runs
    <2> QED
      BY <2>2, <2>3
  <1>3. CASE ReadSkips
    <2> DEFINE w == Without(etl.given, Tombstoned \cap Candidates)
    <2> DEFINE at == IF etl.task = "publish" THEN "claims" ELSE "replay"
    <2>1. etl' = [etl EXCEPT !.at = at, !.given = w, !.skip = Unlinked]
      BY <1>3 DEF ReadSkips
    <2>2. \A n \in Tombstoned \ touched : w.rows[n] = Absent
      <3> SUFFICES ASSUME NEW n \in Tombstoned \ touched
                   PROVE  w.rows[n] = Absent
        OBVIOUS
      <3>1. n \notin Candidates => etl.given.rows[n] = Absent
        BY <1>3 DEF ReadSkips
      <3> QED
        BY <3>1, WithoutDoes DEF Tombstoned
    <2> HIDE DEF w, at
    <2>3. etl'.given = w
      BY <2>1 DEF Runs
    <2> QED
      BY <2>2, <2>3
  <1>4. CASE ReadClaims \/ ReadClaimed \/ PlanNodes \/ PlanLinks
    BY ZenonT(60), <1>4 DEF ReadClaims, ReadClaimed, PlanNodes, PlanLinks, Runs
  <1>5. CASE Reapply
    BY <1>5 DEF Reapply
  <1>6. CASE \/ WriteNodes \/ Promote \/ WriteLinks \/ SyncLinks \/ ReadDecisions
             \/ Published \/ Replay \/ PruneLinks \/ PruneNodes \/ BreakOff
    BY <1>6, GoOnDoes DEF WriteNodes, Promote, WriteLinks, SyncLinks, ReadDecisions, Published,
                          Replay, PruneLinks, PruneNodes, BreakOff
  <1> QED
    BY <1>2, <1>3, <1>4, <1>5, <1>6 DEF Going, Run

LEMMA GoingClaimsKnown ==
  ASSUME TypeInv, ClaimsKnown, EtlStep, Going
  PROVE  ClaimsKnown'
  <1>1. /\ etl \in Runs /\ touched' = touched
        /\ ClaimedNodes' = ClaimedNodes /\ ClaimedLinks' = ClaimedLinks
    BY GoingDoes, RunDoes DEF TypeInv, AllOK, EtlOK
  <1> USE <1>1 DEF ClaimsKnown
  <1>2. CASE DropTombstoned \/ ReadSkips \/ ReadClaims
    BY <1>2 DEF DropTombstoned, ReadSkips, ReadClaims, Runs
  <1>3. CASE ReadClaimed
    BY <1>3 DEF ReadClaimed, Runs
  <1>4. CASE PlanNodes
    <2>1. StaleNodes \cap ClaimedNodes \subseteq touched
      BY <1>4 DEF PlanNodes, StaleNodes
    <2>2. StaleNodes \cap ClaimedLinks = {}
      BY GraphAssumption DEF StaleNodes, ClaimedLinks
    <2> QED
      BY <1>4, <2>1, <2>2 DEF PlanNodes, Runs
  <1>5. CASE PlanLinks
    <2>1. StaleLinks \cap ClaimedLinks \subseteq touched
      BY <1>5 DEF PlanLinks, StaleLinks
    <2>2. StaleLinks \cap ClaimedNodes = {}
      BY GraphAssumption DEF StaleLinks, ClaimedNodes, TypeInv, AllOK, CommonOK, GraphTypeOK
    <2> QED
      BY <1>5, <2>1, <2>2 DEF PlanLinks, Runs
  <1>6. CASE Reapply
    BY <1>6 DEF Reapply
  <1>7. CASE \/ WriteNodes \/ Promote \/ WriteLinks \/ SyncLinks \/ ReadDecisions
             \/ Published \/ Replay \/ PruneLinks \/ PruneNodes \/ BreakOff
    BY <1>7, GoOnDoes DEF WriteNodes, Promote, WriteLinks, SyncLinks, ReadDecisions, Published,
                          Replay, PruneLinks, PruneNodes, BreakOff
  <1> QED
    BY <1>2, <1>3, <1>4, <1>5, <1>6, <1>7 DEF Going, Run
-----------------------------------------------------------------------------
(* Candidates and their repositories. *)

\* a candidate is promoted to a repository that the load writes
LEMMA PromotionDoes ==
  ASSUME NEW given, NEW n \in Nodes
  PROVE  LET to == Promotion(given, n)
         IN to # None => /\ to \in Nodes /\ to = AddressOf[n] /\ AddressOf[to] = None
                         /\ Promotion(given, to) = None
                         /\ Loads(given, to)
  <1> SUFFICES ASSUME Promotion(given, n) # None
               PROVE  LET to == AddressOf[n]
                      IN /\ Promotion(given, n) = to /\ to \in Nodes /\ AddressOf[to] = None
                         /\ Promotion(given, to) = None
                         /\ Loads(given, to)
    BY DEF Promotion
  <1>1. /\ AddressOf[n] # None /\ Promotion(given, n) = AddressOf[n]
        /\ given.rows[AddressOf[n]] # Absent /\ AddressOf[n] \notin given.failed
    BY DEF Promotion, Candidates
  <1>2. AddressOf[n] \in Nodes /\ AddressOf[AddressOf[n]] = None
    BY <1>1, AddressAssumption
  <1>3. Promotion(given, AddressOf[n]) = None
    BY <1>2 DEF Promotion, Candidates
  <1> QED
    BY <1>1, <1>2, <1>3 DEF Loads

LEMMA ResolvedDoes ==
  ASSUME NEW given, NEW l \in Links
  PROVE  /\ Promotion(given, l[2]) = None => Resolved(given, l) = l
         /\ Promotion(given, l[2]) # None =>
               Resolved(given, l) = <<l[1], Promotion(given, l[2])>>
         /\ Resolved(given, l)[1] = l[1]
         /\ Promotion(given, Resolved(given, l)[2]) = None
  <1>1. l[2] \in Nodes
    BY GraphAssumption
  <1> QED
    BY <1>1, PromotionDoes DEF Resolved

LEMMA WantedDoes ==
  ASSUME NEW given \in Supply, NEW l \in Wanted(given)
  PROVE  Promotion(given, l[2]) = None
  <1>1. PICK k \in given.links : l = Resolved(given, k)
    BY DEF Wanted
  <1>2. k \in Links
    BY DEF Supply
  <1> QED
    BY <1>1, <1>2, ResolvedDoes

\* what is read or written of a node that exists is no Absent
LEMMA WrittenExists ==
  ASSUME GraphTypeOK, NEW n \in Nodes, NEW patch \in Patches
  PROVE  Merged(n, patch) # Absent
  BY MergedTyped, GraphAssumption

LEMMA WriteNodesDoes ==
  ASSUME TypeInv, WriteNodes
  PROVE  \A n \in Nodes : IF Loads(etl.given, n) THEN Exists(n)' ELSE node'[n] = node[n]
  <1> SUFFICES ASSUME NEW n \in Nodes
               PROVE  IF Loads(etl.given, n) THEN Exists(n)' ELSE node'[n] = node[n]
    OBVIOUS
  <1>1. CASE Loads(etl.given, n)
    <2>1. etl.given.rows[n] \in Contents
      BY <1>1 DEF Loads, TypeInv, AllOK, EtlOK, Runs, Supply
    <2>2. Known(etl.given.rows[n]) \in Patches
      BY <2>1, KnownTyped
    <2>3. node'[n] = Merged(n, Known(etl.given.rows[n]))
      BY <1>1 DEF WriteNodes
    <2> QED
      BY <1>1, <2>2, <2>3, WrittenExists DEF Exists, TypeInv, AllOK, CommonOK
  <1>2. CASE ~Loads(etl.given, n)
    BY <1>2 DEF WriteNodes
  <1> QED
    BY <1>1, <1>2

\* what led to a candidate whose repository is there leads to the repository
LEMMA PromoteDoes ==
  ASSUME Promote
  PROVE  /\ \A l \in link' :
              \/ /\ l \in link
                 /\ Promotion(etl.given, l[2]) # None => ~Exists(Promotion(etl.given, l[2]))
              \/ \E k \in link : l = Resolved(etl.given, k)
         /\ \A l \in link : l \in link' \/ Resolved(etl.given, l) \in link'
         /\ \A l \in link : Promotion(etl.given, l[2]) = None => l \in link'
         /\ \A n \in Nodes :
              \/ node'[n] = node[n]
              \/ ~Exists(n)' /\ Promotion(etl.given, n) # None
  BY DEF Promote, Exists

LEMMA GoingPromoted ==
  ASSUME TypeInv, Promoted, EtlStep, Going
  PROVE  Promoted'
  <1>1. /\ etl \in Runs /\ touched' = touched /\ link \subseteq Links /\ etl.given \in Supply
    BY GoingDoes DEF TypeInv, AllOK, EtlOK, CommonOK, GraphTypeOK, Runs
  <1>2. CASE WriteNodes
    <2>1. etl'.at = "promote" /\ etl'.given = etl.given
      BY <1>2, GoOnDoes DEF WriteNodes
    <2>2. \A n \in Nodes : Loads(etl'.given, n) => Exists(n)'
      BY <1>2, <2>1, WriteNodesDoes
    <2> QED
      BY <2>1, <2>2 DEF Promoted, Loads
  <1>3. CASE Promote
    <2>1. etl'.at = "links" /\ etl'.given = etl.given
      BY <1>3, GoOnDoes DEF Promote
    <2>2. \A n \in Nodes \ touched : Loads(etl.given, n) => Exists(n)
      BY <1>3 DEF Promoted, Promote
    <2>3. \A n \in Nodes \ touched : Loads(etl.given, n) => Exists(n)'
      BY <1>3, <2>2, PromoteDoes DEF Loads, Exists
    <2>4. \A l \in link' : Promotion(etl.given, l[2]) \in touched \cup {None}
      <3> SUFFICES ASSUME NEW l \in link', Promotion(etl.given, l[2]) # None
                   PROVE  Promotion(etl.given, l[2]) \in touched
        OBVIOUS
      <3>1. ~\E k \in link : l = Resolved(etl.given, k)
        BY <1>1, ResolvedDoes
      <3>2. l \in link /\ ~Exists(Promotion(etl.given, l[2]))
        BY <1>3, <3>1, PromoteDoes
      <3>3. l[2] \in Nodes
        BY <1>1, <3>2, GraphAssumption
      <3> QED
        BY <2>2, <3>2, <3>3, PromotionDoes
    <2> QED
      BY <1>1, <2>1, <2>3, <2>4 DEF Promoted, Loads, Promotion
  <1>4. CASE WriteLinks \/ SyncLinks
    <2>1. /\ etl.at \in {"links", "sync"} /\ etl'.given = etl.given /\ UNCHANGED node
          /\ \A l \in link' : l \in link \/ l \in Wanted(etl.given)
      BY <1>4, GoOnDoes DEF WriteLinks, SyncLinks, Connect, Disconnect
    <2>2. \A n \in Nodes \ touched : Loads(etl.given, n) => Exists(n)
      BY <2>1 DEF Promoted
    <2>3. \A l \in link' \ touched : Promotion(etl.given, l[2]) \in touched \cup {None}
      BY <1>1, <2>1, WantedDoes DEF Promoted
    <2> QED
      BY <1>1, <2>1, <2>2, <2>3 DEF Promoted, Loads, Promotion, Exists
  <1>5. CASE ~(WriteNodes \/ Promote \/ WriteLinks \/ SyncLinks)
    <2>1. etl'.at \notin {"promote", "links", "sync"}
      <3>1. CASE DropTombstoned \/ ReadSkips \/ ReadClaims \/ ReadClaimed \/ PlanNodes \/ PlanLinks
        BY <1>1, <3>1 DEF DropTombstoned, ReadSkips, ReadClaims, ReadClaimed, PlanNodes, PlanLinks, Runs
      <3>2. CASE Reapply
        BY <3>2 DEF Reapply
      <3>3. CASE ReadDecisions \/ Published \/ Replay \/ PruneLinks \/ PruneNodes \/ BreakOff
        BY <3>3, GoOnDoes DEF ReadDecisions, Published, Replay, PruneLinks, PruneNodes, BreakOff
      <3> QED
        BY <1>5, <3>1, <3>2, <3>3 DEF Going, Run
    <2> QED
      BY <2>1 DEF Promoted
  <1> QED
    BY <1>2, <1>3, <1>4, <1>5

-----------------------------------------------------------------------------
(* The replay of the decisions. *)

\* the queries of apply_overrides, on the run's own list
UnlinkDone(order) ==
    /\ hand["etl"] = NoOrder /\ hand' = hand
    /\ todo'["etl"] = todo["etl"] \ {order}
    /\ order \in LinkOrders /\ order.on \in Links
    /\ link' = link \ {order.on} /\ UNCHANGED node
LookDone(order) ==
    /\ hand["etl"] = NoOrder
    /\ todo'["etl"] = todo["etl"] \ {order}
    /\ order \in NodeOrders /\ order.on \in Nodes
    /\ UNCHANGED graphVars
    /\ \/ hand'["etl"] = order
       \/ /\ hand' = hand
          /\ \/ ~Exists(order.on)
             \/ /\ order.what # "delete"
                /\ Over(node[order.on], order.fields) = node[order.on]
WriteDone(order) ==
    /\ hand["etl"] = order /\ order \in NodeOrders /\ order.on \in Nodes
    /\ todo' = todo /\ hand'["etl"] = NoOrder
    /\ \/ order.what = "delete" /\ Delete({order.on})
       \/ order.what # "delete" /\ Upsert(order.on, order.fields)
       \/ order.what # "delete" /\ ~Exists(order.on) /\ UNCHANGED graphVars

LEMMA ReplayDoes ==
  ASSUME TypeInv, Reapply
  PROVE  \/ \E order \in todo["etl"] : UnlinkDone(order) \/ LookDone(order)
         \/ WriteDone(hand["etl"])
  <1>1. /\ todo \in [Appliers -> SUBSET (NodeOrders \cup LinkOrders)]
        /\ hand \in [Appliers -> NodeOrders \cup {NoOrder}]
        /\ "etl" \in Appliers
    BY DEF TypeInv, AllOK, AppliesOK, Appliers
  <1>2. CASE ApplyUnlink("etl")
    <2>1. PICK order \in todo["etl"] :
             /\ hand["etl"] = NoOrder /\ order.what = "unlink" /\ Disconnect({order.on})
             /\ todo' = [todo EXCEPT !["etl"] = @ \ {order}]
             /\ hand' = hand
      BY <1>2 DEF ApplyUnlink
    <2>2. order \in LinkOrders
      BY <1>1, <2>1 DEF NodeOrders
    <2>3. order.on \in Links
      BY <2>2 DEF LinkOrders
    <2> QED
      BY <1>1, <2>1, <2>2, <2>3 DEF UnlinkDone, Disconnect
  <1>3. CASE ApplyLook("etl")
    <2>1. PICK order \in todo["etl"] :
             /\ hand["etl"] = NoOrder /\ order.what # "unlink"
             /\ todo' = [todo EXCEPT !["etl"] = @ \ {order}]
             /\ UNCHANGED graphVars
             /\ \/ hand' = [hand EXCEPT !["etl"] = order]
                \/ /\ hand' = hand
                   /\ \/ ~Exists(order.on)
                      \/ /\ order.what # "delete"
                         /\ Over(node[order.on], order.fields) = node[order.on]
      BY <1>3 DEF ApplyLook
    <2>2. order \in NodeOrders
      BY <1>1, <2>1 DEF LinkOrders
    <2>3. order.on \in Nodes
      BY <2>2 DEF NodeOrders
    <2> QED
      BY <1>1, <2>1, <2>2, <2>3 DEF LookDone
  <1>4. CASE ApplyWrite("etl")
    <2>1. hand["etl"] \in NodeOrders
      BY <1>1, <1>4 DEF ApplyWrite
    <2>2. hand["etl"].on \in Nodes
      BY <2>1 DEF NodeOrders
    <2> QED
      BY <1>1, <1>4, <2>1, <2>2 DEF WriteDone, ApplyWrite
  <1> QED
    BY <1>2, <1>3, <1>4 DEF Reapply

\* nothing new to do turns up on the way
LEMMA ReplayShrinks ==
  ASSUME TypeInv, Reapply
  PROVE  ToApply' \subseteq ToApply
  BY ReplayDoes DEF ToApply, UnlinkDone, LookDone, WriteDone

LEMMA CurrentKept ==
  ASSUME TypeInv, EtlStep, NEW order \in ToApply, Current(order)
  PROVE  Current(order)'
  BY RunDoes, OrdersTyped DEF Current, SameFace

LEMMA GoingOrdersCurrent ==
  ASSUME TypeInv, StepsFit, OrdersCurrent, EtlStep, Going
  PROVE  OrdersCurrent'
  <1>1. CASE ReadDecisions
    <2>1. /\ todo'["etl"] = ActiveDecisions /\ hand'["etl"] = NoOrder /\ UNCHANGED decisionVars
      BY <1>1 DEF ReadDecisions, ListDecisions, StepsFit, TypeInv, AllOK, AppliesOK, Appliers
    <2>2. \A order \in ActiveDecisions : Current(order)'
      BY <2>1, GraphAssumption DEF ActiveDecisions, Current, Unlinked, decisionVars
    <2> QED
      BY <2>1, <2>2 DEF OrdersCurrent, ToApply
  <1>2. CASE Reapply
    <2>1. ToApply' \subseteq ToApply /\ late' = late
      BY <1>2, ReplayShrinks, GoingDoes DEF Reapply
    <2> QED
      BY <2>1, CurrentKept DEF OrdersCurrent
  <1>3. CASE BreakOff
    <2>1. ToApply' = {}
      BY <1>3 DEF BreakOff, ToApply, TypeInv, AllOK, AppliesOK, Appliers
    <2> QED
      BY <2>1 DEF OrdersCurrent
  <1>4. CASE ~(ReadDecisions \/ Reapply \/ BreakOff)
    <2>1. UNCHANGED <<todo, hand>> /\ etl.at # "list"
      BY <1>4 DEF Going, Run, DropTombstoned, ReadSkips, ReadClaims, WriteNodes, Promote,
             WriteLinks, SyncLinks, Published, Replay, ReadClaimed, PlanNodes,
             PlanLinks, PruneLinks, PruneNodes
    <2>2. ToApply' = ToApply /\ late' = late
      BY <2>1, GoingDoes DEF ToApply
    <2> QED
      BY <2>2, CurrentKept DEF OrdersCurrent
  <1> QED
    BY <1>1, <1>2, <1>3, <1>4

\* a patch written over what it has been written over changes nothing
LEMMA OverTwice ==
  ASSUME NEW old, NEW patch
  PROVE  Over(Over(old, patch), patch) = Over(old, patch)
  BY DEF Over

LEMMA StandingKept ==
  ASSUME TypeInv, EtlStep, NEW t \in Targets, Standing(t),
         t \in Nodes => node'[t] = node[t],
         t \in Links => (t \in link' => t \in link)
  PROVE  Standing(t)'
  <1>1. CASE t \in Nodes
    BY <1>1, RunDoes DEF Standing, SameFace, Exists
  <1>2. CASE t \in Links
    BY <1>2, RunDoes, GraphAssumption DEF Standing
  <1> QED
    BY <1>1, <1>2 DEF Targets

LEMMA GoingCarried ==
  ASSUME TypeInv, RunInv, EtlStep, Going
  PROVE  Carried'
  <1> DEFINE Waiting(t) == \E order \in ToApply : order.on = t
  <1>1. CASE ReadDecisions
    <2>1. /\ todo'["etl"] = ActiveDecisions /\ UNCHANGED <<graphVars, decisionVars>>
      BY <1>1 DEF ReadDecisions, ListDecisions, TypeInv, AllOK, AppliesOK, Appliers
    <2>2. ASSUME NEW n \in Nodes, doc[n].active
          PROVE  \E order \in ActiveDecisions : order.on = n
      <3>1. [on |-> n, what |-> doc[n].op, fields |-> doc[n].fields] \in ActiveDecisions
        BY <2>2 DEF ActiveDecisions
      <3> QED
        BY <3>1
    <2>3. ASSUME NEW l \in Unlinked
          PROVE  \E order \in ActiveDecisions : order.on = l
      <3>1. [on |-> l, what |-> "unlink", fields |-> NoPatch] \in ActiveDecisions
        BY DEF ActiveDecisions
      <3> QED
        BY <3>1
    <2>4. \A t \in Targets : Standing(t)' \/ \E order \in ActiveDecisions : order.on = t
      BY <2>1, <2>2, <2>3, GraphAssumption DEF Standing, Unlinked, decisionVars
    <2> QED
      BY <2>1, <2>4 DEF Carried, ToApply
  <1>2. CASE Published
    <2>1. /\ UNCHANGED <<graphVars, decisionVars, todo, hand>> /\ late' = late /\ etl.at = "apply"
      BY <1>2, GoingDoes DEF Published
    <2> QED
      BY <2>1 DEF RunInv, Carried, Standing, ToApply, Unlinked, Exists, graphVars, decisionVars
  <1>3. CASE Reapply
    <2> SUFFICES ASSUME NEW t \in Targets \ late,
                        Standing(t) \/ Waiting(t),
                        \A order \in ToApply : order.on = t => Current(order)
                 PROVE  Standing(t)' \/ Waiting(t)'
      <3>1. late' = late /\ etl.at = "apply"
        BY <1>3, GoingDoes DEF Reapply
      <3> QED
        BY <3>1 DEF RunInv, Carried, OrdersCurrent
    <2>1. ASSUME NEW order \in todo["etl"], UnlinkDone(order)
          PROVE  Standing(t)' \/ Waiting(t)'
      <3>1. Standing(t) => Standing(t)'
        BY <2>1, StandingKept DEF UnlinkDone
      <3>2. t = order.on => Standing(t)'
        BY <2>1, GraphAssumption DEF Standing, UnlinkDone
      <3> QED
        BY <2>1, <3>1, <3>2 DEF ToApply, UnlinkDone
    <2>2. ASSUME NEW order \in todo["etl"], LookDone(order)
          PROVE  Standing(t)' \/ Waiting(t)'
      <3>1. order \in ToApply /\ order # NoOrder
        BY <2>2, OrdersTyped DEF ToApply, LookDone
      <3>2. Standing(t) => Standing(t)'
        BY <2>2, StandingKept DEF graphVars, LookDone
      <3>3. CASE hand'["etl"] = order \/ t # order.on
        BY <2>2, <3>1, <3>2, <3>3 DEF ToApply, LookDone
      <3>4. CASE hand'["etl"] # order /\ t = order.on
        <4>1. Current(order)
          BY <3>1, <3>4
        <4>2. Standing(t)
          BY <2>2, <3>4, <4>1 DEF Current, Standing, LookDone
        <4> QED
          BY <3>2, <4>2
      <3> QED
        BY <3>3, <3>4
    <2>3. ASSUME NEW order, WriteDone(order)
          PROVE  Standing(t)' \/ Waiting(t)'
      <3>1. order \in ToApply /\ order.fields \in Patches /\ order.on \in Nodes
        BY <2>3, GraphAssumption DEF ToApply, NodeOrders, NoOrder, WriteDone
      <3>2. /\ node \in [Nodes -> Contents \cup {Absent}]
            /\ \A l \in Links : l \in link' => l \in link
            /\ \A n \in Nodes : n # order.on => node'[n] = node[n]
        BY <2>3 DEF Delete, Upsert, graphVars, TypeInv, AllOK, CommonOK, GraphTypeOK, WriteDone
      <3>3. t # order.on => (Standing(t) => Standing(t)')
        BY <3>2, StandingKept
      <3>4. t # order.on => (Waiting(t) => Waiting(t)')
        BY <2>3 DEF ToApply, WriteDone
      <3>5. ASSUME t = order.on
            PROVE  Standing(t)'
        <4>1. /\ t \in Nodes
              /\ order.what = doc'[t].op /\ order.fields = doc'[t].fields
          BY <3>1, <3>5, RunDoes DEF Current, SameFace
        <4>2. CASE order.what = "delete" /\ Delete({order.on})
          BY <3>5, <4>1, <4>2 DEF Delete, Exists, Standing
        <4>3. CASE order.what # "delete" /\ Upsert(order.on, order.fields)
          <5>1. node'[t] = Merged(t, order.fields)
            BY <3>2, <3>5, <4>1, <4>3 DEF Upsert
          <5>2. Over(node'[t], order.fields) = node'[t]
            BY <5>1, OverTwice DEF Merged
          <5> QED
            BY <4>1, <4>3, <5>2 DEF Standing
        <4>4. CASE order.what # "delete" /\ ~Exists(order.on) /\ UNCHANGED graphVars
          BY <3>5, <4>1, <4>4 DEF Standing, Exists, graphVars
        <4> QED
          BY <2>3, <4>2, <4>3, <4>4 DEF WriteDone
      <3> QED
        BY <3>3, <3>4, <3>5
    <2> QED
      BY <1>3, <2>1, <2>2, <2>3, ReplayDoes
  <1>4. CASE ~(ReadDecisions \/ Published \/ Reapply)
    <2>1. etl'.at \notin {"apply", "done"}
      <3>1. CASE DropTombstoned \/ ReadSkips \/ ReadClaims \/ ReadClaimed \/ PlanNodes \/ PlanLinks
        BY <3>1 DEF DropTombstoned, ReadSkips, ReadClaims, ReadClaimed, PlanNodes, PlanLinks,
                    Runs, TypeInv, AllOK, EtlOK
      <3>2. CASE \/ WriteNodes \/ Promote \/ WriteLinks \/ SyncLinks
                 \/ Replay \/ PruneLinks \/ PruneNodes \/ BreakOff
        BY <3>2, GoOnDoes DEF WriteNodes, Promote, WriteLinks, SyncLinks,
                              Replay, PruneLinks, PruneNodes, BreakOff
      <3> QED
        BY <1>4, <3>1, <3>2 DEF Going, Run
    <2> QED
      BY <2>1 DEF Carried
  <1> QED
    BY <1>1, <1>2, <1>3, <1>4

-----------------------------------------------------------------------------
(* The whole. *)

LEMMA EtlRunInv ==
  ASSUME TypeInv, RunInv, EtlStep
  PROVE  RunInv'
  <1>1. CASE \E task \in Tasks : Start(task)
    BY <1>1, StartRunInv
  <1>2. CASE Going
    BY <1>2, GoingStepsFit, GoingObserved, GoingDropped, GoingClaimsKnown, GoingPromoted,
       GoingOrdersCurrent, GoingCarried DEF RunInv
  <1> QED
    BY <1>1, <1>2 DEF EtlStep, Going

LEMMA RunInvInit ==
  Init => RunInv
  <1> SUFFICES ASSUME Init
               PROVE  RunInv
    OBVIOUS
  <1>1. etl.at = "idle" /\ todo["etl"] = {} /\ hand["etl"] = NoOrder
    BY DEF Init, PublishInit, Appliers
  <1>2. touched = {} /\ late = {} /\ InFlight = {}
    BY GraphAssumption DEF Init, FormsInit, Free, Handler, InFlight, Targets
  <1>3. ToApply = {}
    BY <1>1 DEF ToApply
  <1> QED
    BY <1>1, <1>2, <1>3 DEF RunInv, StepsFit, Observed, Dropped, ClaimsKnown, Promoted,
         OrdersCurrent, Carried, Publishing, Running, Loading, Pruning

LEMMA RunInvNext ==
  TypeInv /\ RunInv /\ [Next]_vars => RunInv'
  <1> SUFFICES ASSUME TypeInv, RunInv, [Next]_vars
               PROVE  RunInv'
    OBVIOUS
  <1>1. CASE DeskStep
    BY <1>1, DeskRunInv
  <1>2. CASE EtlStep
    BY <1>2, EtlRunInv
  <1>3. CASE SourceStep \/ UNCHANGED vars
    BY <1>3, OtherRunInv DEF SourceStep, SupplyChanges, vars, publishVars
  <1> QED
    BY <1>1, <1>2, <1>3 DEF Next

\* What a run has read of the decisions still holds of whatever nobody moved
\* since, and what it has yet to replay is what does not stand yet
\* (load._load_locked, prune.plan, overrides.apply_overrides).
THEOREM RunHolds == Spec => []RunInv
  <1>1. Init => TypeInv /\ RunInv
    BY TypeInit, RunInvInit
  <1>2. TypeInv /\ RunInv /\ [Next]_vars => TypeInv' /\ RunInv'
    BY TypeNext, RunInvNext
  <1> QED
    BY <1>1, <1>2, PTL DEF Spec

\* When a publish ends, every manual decision nobody moved since it read the
\* decisions stands in the graph, whatever the rows say (load._load_locked,
\* apply_overrides last).
THEOREM DecisionsStand == Spec => []PublishedStands
  <1>1. RunInv => PublishedStands
    <2> SUFFICES ASSUME RunInv, etl.at = "done"
                 PROVE  \A t \in Targets \ late : Standing(t)
      BY DEF PublishedStands
    <2>1. ToApply = {}
      BY DEF RunInv, StepsFit, ToApply
    <2> QED
      BY <2>1 DEF RunInv, Carried
  <1> QED
    BY <1>1, RunHolds, PTL

-----------------------------------------------------------------------------
(* What a run does to the nodes, step by step. *)

\* the three steps that write nodes, and the other steps
LEMMA NodesWritten ==
  ASSUME TypeInv, EtlStep
  PROVE  WriteNodes \/ Promote \/ Reapply \/ PruneNodes \/ UNCHANGED node
  BY DEF EtlStep, Run, Start, DropTombstoned, ReadSkips, ReadClaims, WriteLinks, SyncLinks,
         ReadDecisions, Published, Replay, ReadClaimed, PlanNodes, PlanLinks, PruneLinks,
         BreakOff, Connect, Disconnect, graphVars

\* the replay writes the one node at hand, for the decision that stands
LEMMA ReplayWrites ==
  ASSUME TypeInv, RunInv, Reapply, NEW n \in Nodes \ touched, node'[n] # node[n]
  PROVE  /\ doc[n].active
         /\ IF Exists(n)' THEN doc[n].op # "delete" ELSE doc[n].op = "delete"
  <1> DEFINE order == hand["etl"]
  <1>1. WriteDone(order)
    BY ReplayDoes DEF UnlinkDone, LookDone, graphVars
  <1>2. order \in ToApply /\ order.fields \in Patches
    BY <1>1, GraphAssumption DEF ToApply, NodeOrders, NoOrder, WriteDone
  <1>3. node \in [Nodes -> Contents \cup {Absent}] /\ GraphTypeOK
    BY DEF TypeInv, AllOK, CommonOK, GraphTypeOK
  <1>4. order.on = n
    BY <1>1, <1>3 DEF Delete, Upsert, graphVars, WriteDone
  <1>5. doc[n].active /\ order.what = doc[n].op
    BY <1>2, <1>4 DEF RunInv, Observed, OrdersCurrent, Current
  <1>6. CASE order.what = "delete" /\ Delete({n})
    BY <1>5, <1>6 DEF Delete, Exists
  <1>7. CASE order.what # "delete" /\ Upsert(n, order.fields)
    <2>1. node'[n] = Merged(n, order.fields)
      BY <1>3, <1>7 DEF Upsert
    <2> QED
      BY <1>2, <1>3, <1>5, <1>7, <2>1, WrittenExists DEF Exists
  <1> QED
    BY <1>1, <1>4, <1>6, <1>7 DEF WriteDone, graphVars

\* A run does not bring back a record somebody had deleted before it began: not
\* even to delete it again at its end (load._drop_tombstoned).
THEOREM DeletedStayDeleted == Spec => NotRecreated
  <1>1. TypeInv /\ RunInv /\ [Next]_vars =>
           (EtlStep => \A n \in Tombstoned \ touched : Exists(n)' => Exists(n))
    <2> SUFFICES ASSUME TypeInv, RunInv, EtlStep, NEW n \in Tombstoned \ touched, Exists(n)',
                        ~Exists(n)
                 PROVE  FALSE
      OBVIOUS
    <2>1. n \in Nodes /\ doc[n].op = "delete" /\ node'[n] # node[n]
      BY DEF Tombstoned, Exists
    <2>2. CASE WriteNodes
      <3>1. etl.given.rows[n] = Absent
        BY <2>2 DEF RunInv, Dropped, Running, Loading, WriteNodes
      <3> QED
        BY <2>1, <2>2, <3>1, WriteNodesDoes DEF Loads
    <2>3. CASE Promote
      BY <2>1, <2>3, PromoteDoes
    <2>4. CASE Reapply
      BY <2>1, <2>4, ReplayWrites
    <2>5. CASE PruneNodes
      BY <2>1, <2>5 DEF PruneNodes, Delete, Exists
    <2> QED
      BY <2>1, <2>2, <2>3, <2>4, <2>5, NodesWritten
  <1>2. Init => TypeInv
    BY TypeInit
  <1> QED
    BY <1>1, <1>2, TypeNext, RunHolds, PTL DEF Spec, NotRecreated

\* A publish removes a record only when the last thing asked about it was its
\* deletion, or a link candidate whose repository is known by now
\* (tombstoned_ids, apply_overrides, deactivate_override).
THEOREM OnlyWhatWasAsked == Spec => RemovedOnRequest
  <1>1. TypeInv /\ RecordInv /\ RunInv /\ [Next]_vars =>
           (EtlStep /\ etl.task = "publish" =>
              \A n \in Nodes \ (touched \cup broken) :
                 Exists(n) /\ ~Exists(n)' => asked[n].gone \/ Promotion(etl.given, n) # None)
    <2> SUFFICES ASSUME TypeInv, RecordInv, RunInv, EtlStep, etl.task = "publish",
                        NEW n \in Nodes \ (touched \cup broken),
                        Exists(n), ~Exists(n)', Promotion(etl.given, n) = None
                 PROVE  asked[n].gone
      OBVIOUS
    <2>1. node'[n] # node[n]
      BY DEF Exists
    <2>2. CASE WriteNodes
      BY <2>1, <2>2, WriteNodesDoes
    <2>3. CASE Promote
      BY <2>1, <2>3, PromoteDoes
    <2>4. CASE Reapply
      <3>1. n \in Tombstoned
        BY <2>1, <2>4, ReplayWrites DEF Tombstoned
      <3>2. n \notin InFlight
        BY DEF RunInv, Observed
      <3> QED
        BY <3>1, <3>2 DEF RecordInv, NothingAskedIsLost, OnRecord
    <2>5. ~PruneNodes
      BY DEF PruneNodes, RunInv, StepsFit, Pruning
    <2> QED
      BY <2>1, <2>2, <2>3, <2>4, <2>5, NodesWritten
  <1>2. Init => TypeInv
    BY TypeInit
  <1> QED
    BY <1>1, <1>2, TypeNext, RecordHolds, RunHolds, PTL DEF Spec, RemovedOnRequest

-----------------------------------------------------------------------------
(* What somebody claimed. *)

\* no step of a run removes a claimed record
LEMMA NodesSpared ==
  ASSUME TypeInv, RunInv, EtlStep, NEW n \in ClaimedNodes \ touched, Exists(n)
  PROVE  Exists(n)' \/ (etl.at = "promote" /\ Promotion(etl.given, n) # None)
  <1> SUFFICES ASSUME node'[n] # node[n]
               PROVE  Exists(n)' \/ (etl.at = "promote" /\ Promotion(etl.given, n) # None)
    BY DEF Exists
  <1>1. n \in Nodes /\ doc[n].op # "delete"
    BY DEF ClaimedNodes
  <1>2. CASE WriteNodes
    BY <1>1, <1>2, WriteNodesDoes
  <1>3. CASE Promote
    BY <1>1, <1>3, PromoteDoes DEF Promote
  <1>4. CASE Reapply
    BY <1>1, <1>4, ReplayWrites
  <1>5. CASE PruneNodes
    <2>1. n \notin etl.doomed
      BY <1>5 DEF PruneNodes, RunInv, ClaimsKnown
    <2> QED
      BY <1>1, <1>5, <2>1 DEF PruneNodes, Delete
  <1> QED
    BY <1>2, <1>3, <1>4, <1>5, NodesWritten

\* the steps that remove relationships, and the other steps
LEMMA LinksRemoved ==
  ASSUME TypeInv, EtlStep
  PROVE  \/ Promote \/ SyncLinks \/ Reapply \/ Replay \/ PruneLinks \/ PruneNodes
         \/ link \subseteq link'
  BY DEF EtlStep, Run, Start, DropTombstoned, ReadSkips, ReadClaims, WriteNodes, WriteLinks,
         ReadDecisions, Published, ReadClaimed, PlanNodes, PlanLinks,
         BreakOff, Connect, graphVars

\* what goes with its end is no longer joined
LEMMA DeleteDoes ==
  ASSUME NEW gone \in SUBSET Nodes, Delete(gone), NEW l \in link, link \subseteq Links,
         Joined(l)'
  PROVE  l \in link'
  <1>1. l[1] \in Nodes /\ l[2] \in Nodes
    BY GraphAssumption
  <1>2. l[1] \notin gone /\ l[2] \notin gone
    BY <1>1 DEF Delete, Joined, Exists
  <1> QED
    BY <1>2 DEF Delete, LinksOf

\* the replay removes no relationship that may stay
LEMMA ReplaySpares ==
  ASSUME TypeInv, RunInv, Reapply, NEW l \in link \ (touched \cup Unlinked), Joined(l)'
  PROVE  l \in link'
  <1>1. l \in Links /\ link \subseteq Links
    BY DEF TypeInv, AllOK, CommonOK, GraphTypeOK
  <1>2. ASSUME NEW order \in todo["etl"], UnlinkDone(order)
        PROVE  l \in link'
    <2>1. order.on # l
      BY <1>1, <1>2, GraphAssumption
         DEF ToApply, UnlinkDone, NoOrder, RunInv, Observed, OrdersCurrent, Current,
             LinkOrders
    <2> QED
      BY <1>2, <2>1 DEF UnlinkDone
  <1>3. ASSUME NEW order \in todo["etl"], LookDone(order)
        PROVE  l \in link'
    BY <1>3 DEF LookDone, graphVars
  <1>4. ASSUME NEW order, WriteDone(order)
        PROVE  l \in link'
    BY <1>1, <1>4, DeleteDoes DEF WriteDone, Upsert, graphVars
  <1> QED
    BY <1>2, <1>3, <1>4, ReplayDoes

LEMMA LinksSpared ==
  ASSUME TypeInv, RunInv, EtlStep, etl.at # "replay",
         NEW l \in ClaimedLinks, Undisputed(l), NEW m \in SameClaim(l) \cap link,
         etl.at = "promote" \/ Joined(m)'
  PROVE  SameClaim(l) \cap link' # {}
  <1> DEFINE to == Promotion(etl.given, l[2])
  <1>1. /\ l \in Links /\ link \subseteq Links /\ m \in Links
        /\ l \in SameClaim(l) /\ l \notin touched
        /\ m \notin touched /\ m \notin Unlinked
    BY DEF SameClaim, Undisputed, ClaimedLinks, TypeInv, AllOK, CommonOK, GraphTypeOK
  <1>2. CASE Promote
    <2>1. etl.task = "publish" /\ etl.at = "promote"
      BY <1>2 DEF Promote, RunInv, StepsFit, Publishing, Loading
    <2>2. SameClaim(l) = {l, Resolved(etl.given, l)}
      BY <2>1 DEF SameClaim
    <2>3. CASE m = l
      BY <1>2, <2>2, <2>3, PromoteDoes
    <2>4. CASE m = Resolved(etl.given, l)
      BY <1>1, <1>2, <2>4, PromoteDoes, ResolvedDoes
    <2> QED
      BY <2>2, <2>3, <2>4
  <1>3. CASE SyncLinks
    <2>1. etl.task = "publish" /\ etl.at = "sync" /\ link' = link \ Superseded(etl.claims)
      BY <1>3 DEF SyncLinks, RunInv, StepsFit, Publishing, Loading, Disconnect
    <2>2. SameClaim(l) = {l, Resolved(etl.given, l)}
      BY <2>1 DEF SameClaim
    <2>3. Resolved(etl.given, l) \notin Superseded(etl.claims)
      <3>1. l \in etl.claims
        BY <1>1, <2>1 DEF RunInv, ClaimsKnown
      <3> QED
        BY <3>1 DEF Superseded
    <2>4. m = Resolved(etl.given, l)
      <3> SUFFICES ASSUME m = l, Resolved(etl.given, l) # l
                   PROVE  FALSE
        BY <2>2
      <3>1. to # None /\ Resolved(etl.given, l)[2] = to
        BY <1>1, ResolvedDoes
      <3>2. to \notin touched
        BY <2>2, <3>1 DEF Undisputed
      <3>3. to \in touched \cup {None}
        BY <1>1, <2>1 DEF RunInv, Promoted
      <3> QED
        BY <3>1, <3>2, <3>3
    <2> QED
      BY <2>1, <2>2, <2>3, <2>4
  <1>4. CASE Reapply
    <2>1. Joined(m)'
      BY <1>4 DEF Reapply
    <2> QED
      BY <1>1, <1>4, <2>1, ReplaySpares
  <1>5. CASE PruneLinks
    <2>1. etl.task # "publish" /\ etl.at = "prune-links" /\ link' = link \ (etl.doomed \cap Links)
      BY <1>5 DEF PruneLinks, RunInv, StepsFit, Pruning, Disconnect
    <2>2. m = l
      BY <2>1 DEF SameClaim
    <2> QED
      BY <1>1, <2>1, <2>2 DEF RunInv, ClaimsKnown
  <1>6. CASE PruneNodes
    <2>1. Joined(m)' /\ Delete(etl.doomed \cap Nodes)
      BY <1>6 DEF PruneNodes
    <2> QED
      BY <1>1, <2>1, DeleteDoes
  <1>7. ~Replay
    BY DEF Replay
  <1>8. CASE link \subseteq link'
    BY <1>8
  <1> QED
    BY <1>2, <1>3, <1>4, <1>5, <1>6, <1>7, <1>8, LinksRemoved

\* What somebody claimed is kept from the clean-up of a publish and from a
\* prune; a relationship only goes with one of its ends, and one to a candidate
\* becomes one to its repository (prune._claimed, claimed_relationships,
\* keep_mention).
THEOREM ClaimsStay == Spec => ClaimsAreSpared
  <1>1. TypeInv /\ RunInv /\ [Next]_vars =>
           (EtlStep /\ etl.at # "replay" =>
             /\ \A n \in ClaimedNodes \ touched :
                  Exists(n) => Exists(n)' \/ (etl.at = "promote" /\ Promotion(etl.given, n) # None)
             /\ \A l \in {l \in ClaimedLinks : Undisputed(l)} : \A m \in SameClaim(l) \cap link :
                  etl.at = "promote" \/ Joined(m)' => SameClaim(l) \cap link' # {})
    BY NodesSpared, LinksSpared
  <1>2. Init => TypeInv
    BY TypeInit
  <1> QED
    BY <1>1, <1>2, TypeNext, RunHolds, PTL DEF Spec, ClaimsAreSpared

=============================================================================
