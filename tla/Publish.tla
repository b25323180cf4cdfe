------------------------------ MODULE Publish -------------------------------
(***************************************************************************)
(* What the worker does to the graph under its lock: a publish             *)
(* (pauk/graph/load.py, jsonl_loader.py) and a prune (prune.py).  The      *)
(* lock, modelled in JobWorker, lets one of them run at a time; the panel  *)
(* and the sources take no lock and go on between any two steps.           *)
(*                                                                         *)
(* A step is one query of Mongo or one batch of Neo4j.  Folding of         *)
(* duplicates is left out.                                                 *)
(***************************************************************************)
EXTENDS Overrides

CONSTANTS AddressOf,    \* Nodes -> the repository whose address this link candidate is, or None
          Supplies,     \* bound: the prepared rows there can be
          Tasks,        \* which of publish, dry-run and prune an instance has
          MaxRuns       \* bound: publishes and prunes

Supply == [rows : [Nodes -> Contents \cup {Absent}],
           links : SUBSET Links,       \* what rows that did not fail mention or ask for
           failed : SUBSET Nodes,      \* rows whose enrichment failed
           complete : SUBSET Nodes]    \* rows whose links were all extracted

\* a repository is no address, and what can link to an address can link to it
ASSUME AddressAssumption ==
    /\ AddressOf \in [Nodes -> Nodes \cup {None}]
    /\ \A n \in Nodes : AddressOf[n] # None => AddressOf[AddressOf[n]] = None
    /\ \A l \in Links : AddressOf[l[2]] # None => <<l[1], AddressOf[l[2]]>> \in Links
ASSUME PublishAssumption ==
    /\ Supplies \subseteq Supply
    /\ Tasks \subseteq {"publish", "dry-run", "prune"}
    /\ MaxRuns \in Nat

VARIABLES supply,     \* the prepared rows
          etl,          \* the run under way
          todo,         \* {"etl", "desk"} -> decisions apply_overrides has left
          hand          \* {"etl", "desk"} -> the one it is about to write

publishVars == <<supply, etl, todo, hand>>

Appliers == {"etl", "desk"}
Targets == Nodes \cup Links
NodeOrders == [on : Nodes, what : {"set", "delete", "create"}, fields : Patches]
LinkOrders == [on : Links, what : {"unlink"}, fields : {NoPatch}]

Loading == {"drop", "skips", "claims", "nodes", "promote", "links", "sync", "list", "apply"}
Pruning == {"replay", "claimed", "stale-nodes", "stale-links", "prune-links", "prune-nodes"}
Runs == [at : {"idle", "done"} \cup Loading \cup Pruning,
         task : {"publish", "dry-run", "prune"},
         given : Supply,               \* the rows as read
         skip : SUBSET Links,          \* dropped_relationships
         claims : SUBSET Targets,      \* what is claimed by hand
         doomed : SUBSET Targets,      \* the plan of a prune
         runs : 0 .. MaxRuns]

NoOrder == [on |-> None, what |-> "none", fields |-> NoPatch]

PublishTypeOK ==
    /\ supply \in Supply
    /\ etl \in Runs
    /\ todo \in [Appliers -> SUBSET (NodeOrders \cup LinkOrders)]
    /\ hand \in [Appliers -> NodeOrders \cup {NoOrder}]

PublishInit ==
    /\ supply \in Supplies
    /\ etl = [at |-> "idle", task |-> "publish", given |-> supply, skip |-> {},
              claims |-> {}, doomed |-> {}, runs |-> 0]
    /\ todo = [a \in Appliers |-> {}]
    /\ hand = [a \in Appliers |-> NoOrder]

-----------------------------------------------------------------------------
(* The rows ask for links to addresses.  An address whose repository has a *)
(* row that did not fail is that repository's; any other is kept as a node *)
(* of its own, a LinkCandidate.                                            *)

Candidates == {n \in Nodes : AddressOf[n] # None}

\* candidate_promotions
Promotion(given, n) ==
    IF /\ n \in Candidates
       /\ given.rows[AddressOf[n]] # Absent /\ AddressOf[n] \notin given.failed
       /\ \E l \in given.links : l[2] = n
    THEN AddressOf[n] ELSE None

\* extract_repo_links; a candidate deleted by hand is not linked to
Resolved(given, l) ==
    IF Promotion(given, l[2]) = None THEN l ELSE <<l[1], Promotion(given, l[2])>>
Wanted(given) ==
    {Resolved(given, l) : l \in {l \in given.links :
        l[2] \in Candidates /\ given.rows[l[2]] = Absent => Promotion(given, l[2]) # None}}

\* the nodes a load writes
Loads(given, n) ==
    given.rows[n] # Absent /\ n \notin given.failed /\ Promotion(given, n) = None

-----------------------------------------------------------------------------
(* Sources: collection and enrichment rewrite the rows at any time.        *)

SupplyChanges ==
    /\ supply' \in Supplies \ {supply}
    /\ UNCHANGED <<graphVars, decisionVars, etl, todo, hand>>

-----------------------------------------------------------------------------
(* apply_overrides, by a publish or by the panel: the list is read once,   *)
(* then every decision is compared with the graph and written.             *)

ListDecisions(a) == todo' = [todo EXCEPT ![a] = ActiveDecisions]

\* a relationship that must not be there goes in one query
ApplyUnlink(a) ==
    \E order \in todo[a] :
        /\ hand[a] = NoOrder
        /\ order.what = "unlink"
        /\ Disconnect({order.on})
        /\ todo' = [todo EXCEPT ![a] = @ \ {order}]
        /\ UNCHANGED <<decisionVars, hand>>

\* read_node: nothing to do for a missing node or one that agrees already,
\* otherwise what the edit covers is noted first
ApplyLook(a) ==
    \E order \in todo[a] :
        /\ hand[a] = NoOrder
        /\ order.what # "unlink"
        /\ todo' = [todo EXCEPT ![a] = @ \ {order}]
        /\ LET n == order.on
               agrees == Over(node[n], order.fields) = node[n]
           IN CASE ~Exists(n) \/ (order.what # "delete" /\ agrees) ->
                        UNCHANGED <<doc, hand>>
                [] Exists(n) /\ order.what = "delete" ->
                        /\ hand' = [hand EXCEPT ![a] = order]
                        /\ UNCHANGED doc
                [] OTHER ->
                        /\ hand' = [hand EXCEPT ![a] = order]
                        /\ Cover(n, order.fields)
        /\ UNCHANGED <<graphVars, rel>>

\* a node gone since then is written anew if it went after the last look
ApplyWrite(a) ==
    /\ hand[a] # NoOrder
    /\ LET n == hand[a].on
       IN IF hand[a].what = "delete" THEN Delete({n})
          ELSE \/ Upsert(n, hand[a].fields)
               \/ ~Exists(n) /\ UNCHANGED graphVars
    /\ hand' = [hand EXCEPT ![a] = NoOrder]
    /\ UNCHANGED <<decisionVars, todo>>

Applied(a) == todo[a] = {} /\ hand[a] = NoOrder

-----------------------------------------------------------------------------
(* The run: what a publish and a prune begin with.                         *)

GoOn(at) == etl' = [etl EXCEPT !.at = at]

\* held(GRAPH), and the prepared rows are read
Start(task) ==
    /\ etl.at \in {"idle", "done"}
    /\ etl.runs < MaxRuns
    /\ task \in Tasks
    /\ etl' = [at |-> "drop", task |-> task, given |-> supply, skip |-> {},
               claims |-> {}, doomed |-> {}, runs |-> etl.runs + 1]
    /\ UNCHANGED <<graphVars, decisionVars, supply, todo, hand>>

\* _drop_tombstoned: rows whose node was deleted by hand are left out
Without(given, gone) ==
    [rows |-> [n \in Nodes |-> IF n \in gone THEN Absent ELSE given.rows[n]],
     links |-> given.links,
     failed |-> given.failed,
     complete |-> given.complete \ gone]

MutDropTombstoned ==
    /\ etl.at = "drop"
    /\ etl' = [etl EXCEPT !.at = "skips"]
    /\ UNCHANGED <<graphVars, decisionVars, supply, todo, hand>>
DropTombstoned ==
    /\ etl.at = "drop"
    /\ etl' = [etl EXCEPT !.at = "skips", !.given = Without(@, Tombstoned \ Candidates)]
    /\ UNCHANGED <<graphVars, decisionVars, supply, todo, hand>>

\* candidates have no rows to leave out: the loader is told
ReadSkips ==
    /\ etl.at = "skips"
    /\ etl' = [etl EXCEPT !.at = IF etl.task = "publish" THEN "claims" ELSE "replay",
                          !.given = Without(@, Tombstoned \cap Candidates),
                          !.skip = Unlinked]
    /\ UNCHANGED <<graphVars, decisionVars, supply, todo, hand>>

\* sync_mentions_links_batch and sync_implements_relationships_batch: of the
\* relationships of a completely extracted record only those asked for or
\* claimed stay, whichever name the claim knows its target by
MutSuperseded(claims) ==
    {l \in link : l[1] \in etl.given.complete /\ l \notin Wanted(etl.given) \cup claims}
Superseded(claims) ==
    {l \in link : /\ l[1] \in etl.given.complete
                  /\ l \notin Wanted(etl.given) \cup {Resolved(etl.given, c) : c \in claims}}

-----------------------------------------------------------------------------
(* A publish.                                                              *)

ReadClaims ==
    /\ etl.at = "claims"
    /\ etl' = [etl EXCEPT !.at = "nodes", !.claims = ClaimedLinks]
    /\ UNCHANGED <<graphVars, decisionVars, supply, todo, hand>>

WriteNodes ==
    /\ etl.at = "nodes"
    /\ node' = [n \in Nodes |-> IF Loads(etl.given, n) THEN Merged(n, Known(etl.given.rows[n]))
                                ELSE node[n]]
    /\ GoOn("promote")
    /\ UNCHANGED <<link, decisionVars, supply, todo, hand>>

\* promote_link_candidates_batch: what led to a candidate leads to its
\* repository, and a candidate nothing is attached to goes
Promote ==
    /\ etl.at = "promote"
    /\ LET to(n) == Promotion(etl.given, n)
           old == {l \in link : to(l[2]) # None /\ Exists(to(l[2]))}
           now == (link \ old) \cup {Resolved(etl.given, l) : l \in old}
       IN /\ link' = now
          /\ node' = [n \in Nodes |-> IF to(n) # None /\ LinksOf(n) \cap now = {} THEN Absent
                                      ELSE node[n]]
    /\ GoOn("links")
    /\ UNCHANGED <<decisionVars, supply, todo, hand>>

\* (its batches at once, and no cancellation between them)
WriteLinks ==
    /\ etl.at = "links"
    /\ Connect(Wanted(etl.given) \ etl.skip)
    /\ GoOn("sync")
    /\ UNCHANGED <<decisionVars, supply, todo, hand>>

SyncLinks ==
    /\ etl.at = "sync"
    /\ Disconnect(Superseded(etl.claims))
    /\ GoOn("list")
    /\ UNCHANGED <<decisionVars, supply, todo, hand>>

ReadDecisions ==
    /\ etl.at = "list"
    /\ ListDecisions("etl")
    /\ GoOn("apply")
    /\ UNCHANGED <<graphVars, decisionVars, supply, hand>>

Reapply ==
    /\ etl.at = "apply"
    /\ ApplyUnlink("etl") \/ ApplyLook("etl") \/ ApplyWrite("etl")
    /\ UNCHANGED <<supply, etl>>

Published ==
    /\ etl.at = "apply"
    /\ Applied("etl")
    /\ GoOn("done")
    /\ UNCHANGED <<graphVars, decisionVars, supply, todo, hand>>

-----------------------------------------------------------------------------
(* A prune.  The loader is replayed against a client that keeps the        *)
(* upserts to itself (_WouldWrite); the two syncs are not among them.      *)

Replay ==
    /\ etl.at = "replay"
    /\ Disconnect(Superseded({}))
    /\ GoOn("claimed")
    /\ UNCHANGED <<decisionVars, supply, todo, hand>>

ReadClaimed ==
    /\ etl.at = "claimed"
    /\ etl' = [etl EXCEPT !.at = "stale-nodes", !.claims = ClaimedLinks \cup ClaimedNodes]
    /\ UNCHANGED <<graphVars, decisionVars, supply, todo, hand>>

\* a record whose row exists is never stale, a candidate to be promoted neither
StaleNodes ==
    {n \in Nodes : /\ Exists(n) /\ etl.given.rows[n] = Absent
                   /\ Promotion(etl.given, n) = None /\ n \notin etl.claims}
StaleLinks == link \ ((Wanted(etl.given) \ etl.skip) \cup etl.claims)

PlanNodes ==
    /\ etl.at = "stale-nodes"
    /\ etl' = [etl EXCEPT !.at = "stale-links", !.doomed = StaleNodes]
    /\ UNCHANGED <<graphVars, decisionVars, supply, todo, hand>>

PlanLinks ==
    /\ etl.at = "stale-links"
    /\ etl' = [etl EXCEPT !.at = IF etl.task = "prune" THEN "prune-links" ELSE "idle",
                          !.doomed = @ \cup StaleLinks]
    /\ UNCHANGED <<graphVars, decisionVars, supply, todo, hand>>

PruneLinks ==
    /\ etl.at = "prune-links"
    /\ Disconnect(etl.doomed \cap Links)
    /\ GoOn("prune-nodes")
    /\ UNCHANGED <<decisionVars, supply, todo, hand>>

PruneNodes ==
    /\ etl.at = "prune-nodes"
    /\ Delete(etl.doomed \cap Nodes)
    /\ GoOn("idle")
    /\ UNCHANGED <<decisionVars, supply, todo, hand>>

\* a cancel noticed at a report, an error, or the death of the worker
BreakOff ==
    /\ etl.at \notin {"idle", "done"}
    /\ GoOn("idle")
    /\ todo' = [todo EXCEPT !["etl"] = {}]
    /\ hand' = [hand EXCEPT !["etl"] = NoOrder]
    /\ UNCHANGED <<graphVars, decisionVars, supply>>

Run ==
    \/ \E task \in Tasks : Start(task)
    \/ DropTombstoned \/ ReadSkips
    \/ ReadClaims \/ WriteNodes \/ Promote \/ WriteLinks \/ SyncLinks
    \/ ReadDecisions \/ Reapply \/ Published
    \/ Replay \/ ReadClaimed \/ PlanNodes \/ PlanLinks \/ PruneLinks \/ PruneNodes
    \/ BreakOff
=============================================================================
