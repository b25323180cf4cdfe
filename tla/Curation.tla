------------------------------ MODULE Curation ------------------------------
(***************************************************************************)
(* People correct the graph while publishes and prunes rewrite it: the     *)
(* forms of the panel, the worker's run and the sources, each a step at a  *)
(* time.  What nobody can ask of them is to agree while they overlap on    *)
(* one record, so two observers tell what a person moved meanwhile:        *)
(* `touched` since the run began, `late` since it read the decisions.      *)
(***************************************************************************)
EXTENDS NodeForms

VARIABLES touched, late

vars == <<graphVars, decisionVars, publishVars, formVars, touched, late>>

TypeOK ==
    /\ GraphTypeOK /\ OverridesTypeOK /\ PublishTypeOK /\ FormsTypeOK
    /\ touched \subseteq Targets
    /\ late \subseteq Targets

\* the graph as earlier publishes of these rows left it
Init ==
    /\ OverridesInit /\ PublishInit /\ FormsInit
    /\ node = [n \in Nodes |-> IF Loads(supply, n) THEN supply.rows[n] ELSE Absent]
    /\ link = {l \in Wanted(supply) : Joined(l)}
    /\ touched = {}
    /\ late = {}

-----------------------------------------------------------------------------
\* what a step of the desk is about, or changes on its way
Moved ==
    ({desk.on, desk'.on} \cap Targets)
    \cup {n \in Nodes : node'[n] # node[n] \/ doc'[n] # doc[n]}
    \cup {l \in Links : (l \in link) # (l \in link') \/ rel'[l] # rel[l]}

InFlight == {desk.on} \cap Targets

DeskStep ==
    /\ Desk
    /\ touched' = touched \cup Moved
    /\ late' = late \cup Moved

EtlStep ==
    /\ Run
    /\ UNCHANGED formVars
    /\ touched' = IF etl'.runs # etl.runs THEN InFlight ELSE touched
    /\ late' = IF etl'.runs # etl.runs \/ etl.at = "list" THEN InFlight ELSE late

SourceStep == SupplyChanges /\ UNCHANGED <<formVars, touched, late>>

Next == DeskStep \/ EtlStep \/ SourceStep

Spec == Init /\ [][Next]_vars

-----------------------------------------------------------------------------
(* Properties *)

\* The graph carries out the active decision about a node or a relationship.
Standing(t) ==
    IF t \in Nodes
    THEN doc[t].active =>
            IF doc[t].op = "delete" THEN ~Exists(t)
            ELSE Exists(t) => Over(node[t], doc[t].fields) = node[t]
    ELSE t \in Unlinked => t \notin link

\* When a publish ends, every manual decision stands in the graph, whatever the
\* sources did and whoever used the panel until it read the decisions
\* (load._load_locked, apply_overrides last).
PublishedStands == etl.at = "done" => \A t \in Targets \ late : Standing(t)

\* What people were told is done is on record: no edit is lost to an edit of
\* another field, to a deletion withdrawn, or to a record added anew, and a
\* record counts as deleted exactly when it was (record_override merges, the
\* two faces of deactivate_override).
OnRecord(n) ==
    /\ asked[n].gone <=> n \in Tombstoned
    /\ \A f \in Fields : asked[n].fields[f] # Unset =>
          doc[n].active /\ doc[n].fields[f] = asked[n].fields[f]
NothingAskedIsLost == \A n \in Nodes \ (broken \cup InFlight) : OnRecord(n)

\* A run does not bring back a record somebody had deleted before it began:
\* not even to delete it again at its end (load._drop_tombstoned).
NotRecreated ==
    [][EtlStep => \A n \in Tombstoned \ touched : Exists(n)' => Exists(n)]_vars

\* A publish removes a record only when the last thing asked about it was its
\* deletion, or a link candidate whose repository is known by now
\* (tombstoned_ids, apply_overrides, deactivate_override).
RemovedOnRequest ==
    [][EtlStep /\ etl.task = "publish" =>
         \A n \in Nodes \ (touched \cup broken) :
            Exists(n) /\ ~Exists(n)' => asked[n].gone \/ Promotion(etl.given, n) # None]_vars

\* What somebody claimed is kept from the clean-up of a publish and from a
\* prune; a relationship only goes with one of its ends (prune._claimed,
\* claimed_relationships).  A claimed link to a candidate becomes, in a publish,
\* one to its repository and is kept as that (keep_mention); the candidate goes.
\* What planning a prune removes is another matter.
SameClaim(l) == IF etl.task = "publish" THEN {l, Resolved(etl.given, l)} ELSE {l}
Undisputed(l) ==
    /\ SameClaim(l) \cap (touched \cup Unlinked) = {}
    /\ \A m \in SameClaim(l) \ {l} : m[2] \notin touched
ClaimsAreSpared ==
    [][EtlStep /\ etl.at # "replay" =>
         /\ \A n \in ClaimedNodes \ touched :
               Exists(n) => Exists(n)' \/ (etl.at = "promote" /\ Promotion(etl.given, n) # None)
         /\ \A l \in {l \in ClaimedLinks : Undisputed(l)} : \A m \in SameClaim(l) \cap link :
               etl.at = "promote" \/ Joined(m)' => SameClaim(l) \cap link' # {}]_vars

-----------------------------------------------------------------------------
(* Why nothing asked is lost: what holds between the steps of a handler.   *)

\* which forms can be at a step, and what a form is about and has read
OpsAt(at) ==
    CASE at = "idle"     -> {"reapply"}
      [] at = "write"    -> {"edit", "delete", "create", "restore"}
      [] at = "record"   -> {"edit", "delete", "create", "link", "unlink"}
      [] at \in {"record-op", "record-auto"} -> {"edit"}
      [] at = "withdraw" -> {"create", "restore", "undo-set", "undo-delete"}
      [] at = "put-back" -> {"edit", "delete", "create", "restore", "link", "unlink"}
      [] at = "give-back" -> {"undo-set", "undo-delete", "undo-unlink"}
      [] at \in {"list", "apply"} -> {"reapply", "undo-set", "undo-delete", "undo-unlink"}

DeskShape ==
    /\ desk.op \in OpsAt(desk.at)
    /\ desk.op \in NodeForm => desk.on \in Nodes
    /\ desk.op \in LinkForm => desk.on \in Links
    /\ desk.op = "reapply" => desk.on = None
    /\ desk.op \in {"edit", "delete"} => desk.before # Absent

\* an active decision says something; a withdrawn deletion left nothing to keep
DocShape ==
    \A n \in Nodes :
        /\ doc[n].active => doc[n].op # "none"
        /\ doc[n].op = "delete" /\ ~doc[n].active => doc[n].fields = NoPatch

\* the edit or creation under way may have recorded field f of n already
Recording(n, f) ==
    /\ desk.on = n
    /\ desk.op = "edit"
    /\ desk.at \in {"record-op", "record-auto", "put-back"}
    /\ desk.patch[f] # Unset

FieldsKept ==
    \A n \in Nodes, f \in Fields :
        asked[n].fields[f] # Unset /\ ~Recording(n, f) =>
            doc[n].fields[f] = asked[n].fields[f]

Untouched == \/ desk.at \in {"write", "withdraw"}
             \/ desk.at = "record" /\ desk.op # "create"

\* the record of the form under way, by the step it has come to
Progress ==
    desk.op \in NodeForm =>
        LET n == desk.on
        IN /\ Untouched /\ n \notin broken => OnRecord(n)
           /\ desk.op = "restore" /\ desk.at \in {"write", "withdraw"} =>
                 doc[n].op = "delete"
           /\ desk.at \in {"record-op", "record-auto"} =>
                 /\ doc[n].active
                 /\ \A f \in Fields :
                       desk.patch[f] # Unset => doc[n].fields[f] = desk.patch[f]
           /\ desk.at = "record-auto" => doc[n].op # "delete"
           /\ desk.at \in {"give-back", "list", "apply"} => n \notin Tombstoned
           /\ desk.at \in {"give-back", "list", "apply"} /\ desk.op = "undo-delete" =>
                 doc[n].active \/ doc[n].fields = NoPatch

RecordInv ==
    TypeOK /\ DeskShape /\ DocShape /\ FieldsKept /\ NothingAskedIsLost /\ Progress

-----------------------------------------------------------------------------
(* Why a run respects the decisions: what it has read of them, step by     *)
(* step, still holds of whatever nobody moved meanwhile.                   *)

\* the steps of a publish from the claims on, and all of a run but its ends
Publishing == Loading \ {"drop", "skips"}
Running == Loading \cup Pruning

\* a run takes the steps of its task; decisions are replayed in one of them
StepsFit ==
    /\ etl.at \in Publishing => etl.task = "publish"
    /\ etl.at \in Pruning => etl.task # "publish"
    /\ etl.at # "apply" => todo["etl"] = {} /\ hand["etl"] = NoOrder

\* whatever a handler is at was moved
Observed == InFlight \subseteq late /\ late \subseteq touched

\* the rows of what was deleted by hand are left out
Dropped ==
    \A n \in Tombstoned \ touched :
        /\ etl.at \in Running \ {"drop"} /\ n \notin Candidates => etl.given.rows[n] = Absent
        /\ etl.at \in Running \ {"drop", "skips"} => etl.given.rows[n] = Absent

\* what is claimed is known as long as the claims are needed, and not doomed
ClaimsKnown ==
    /\ etl.at \in {"nodes", "promote", "links", "sync", "stale-nodes", "stale-links"} =>
          ClaimedLinks \ touched \subseteq etl.claims
    /\ etl.at \in {"stale-nodes", "stale-links"} => ClaimedNodes \ touched \subseteq etl.claims
    /\ etl.at \in {"stale-links", "prune-links", "prune-nodes"} =>
          etl.doomed \cap (ClaimedNodes \cup ClaimedLinks) \subseteq touched

\* the repository a candidate is promoted to has been written, and nothing
\* leads to the candidate any more
Promoted ==
    /\ etl.at \in {"promote", "links", "sync"} =>
          \A n \in Nodes \ touched : Loads(etl.given, n) => Exists(n)
    /\ etl.at \in {"links", "sync"} =>
          \A l \in link \ touched : Promotion(etl.given, l[2]) \in touched \cup {None}

\* what is left to replay says what the documents say, and whatever does not
\* stand yet is among it
ToApply == todo["etl"] \cup ({hand["etl"]} \ {NoOrder})
Current(order) ==
    IF order.on \in Nodes
    THEN doc[order.on].active /\ order.what = doc[order.on].op /\ order.fields = doc[order.on].fields
    ELSE order.on \in Unlinked
OrdersCurrent == \A order \in ToApply : order.on \notin late => Current(order)
Carried ==
    etl.at \in {"apply", "done"} =>
        \A t \in Targets \ late : Standing(t) \/ \E order \in ToApply : order.on = t

RunInv ==
    StepsFit /\ Observed /\ Dropped /\ ClaimsKnown /\ Promoted /\ OrdersCurrent /\ Carried

-----------------------------------------------------------------------------
(* What the code is said to do, and does not. *)

\* prune.plan: "Reads only; planning changes nothing."
PlanningReadsOnly == [][EtlStep /\ etl.task = "dry-run" => UNCHANGED graphVars]_vars

\* decision_routes.undo: "Stop applying one decision".  A field whose edit was
\* withdrawn is not set by hand again until somebody edits it again.
WithdrawnStaysWithdrawn ==
    \A n \in Nodes \ (broken \cup InFlight) :
        doc[n].active => \A f \in Fields :
            doc[n].fields[f] # Unset => asked[n].fields[f] # Unset

\* nodes.edit: "remember the decision so a publish cannot undo it".  After a
\* publish a saved edit is in the graph.
SavedSurvivesPublish ==
    etl.at = "done" => \A n \in Nodes \ (broken \cup InFlight) :
        Exists(n) => Over(node[n], asked[n].fields) = node[n]

\* nodes._record: "the edit was not saved, the graph is back as it was".  An
\* edit that was turned down is not on record.
TurnedDownIsNotOnRecord ==
    [][\A n \in Nodes : desk.at = "put-back" /\ desk.op = "edit" /\ desk.on = n
                        /\ desk'.at = "idle" =>
          \A f \in Fields : desk.patch[f] # Unset =>
             doc[n].fields[f] # desk.patch[f] \/ asked[n].fields[f] = desk.patch[f]]_vars
=============================================================================
