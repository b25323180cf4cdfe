----------------------------- MODULE GraphStore -----------------------------
(***************************************************************************)
(* The graph as the panel and the loader write it: pauk/graph/mutations.py *)
(* over the batches of pauk/graph/client.py.  One label of nodes and one   *)
(* kind of relationship stand for all of them.  Every operator is one      *)
(* transaction of Neo4j; the reads that mutations.py makes before and      *)
(* after it belong to the steps of the callers.                            *)
(***************************************************************************)
EXTENDS Naturals

CONSTANTS Nodes,     \* node ids
          Links,       \* relationships that can exist, as <<source, target>>
          Fields,      \* editable fields of a node (NODE_FIELDS)
          Values,      \* what a field may hold
          None,        \* a property that is not there
          Unset,       \* a key that a dictionary does not have
          Absent       \* a node, a row or a snapshot that does not exist

Contents == [Fields -> Values \cup {None}]
Patches == [Fields -> Values \cup {None, Unset}]

ASSUME GraphAssumption ==
    /\ Links \subseteq Nodes \X Nodes
    /\ Nodes \cap Links = {}
    /\ None \notin Nodes \cup Links
    /\ None # Unset
    /\ Unset \notin Values
    /\ Absent \notin Contents

VARIABLES node,      \* Nodes -> contents, or Absent
          link         \* the relationships there are

graphVars == <<node, link>>

GraphTypeOK ==
    /\ node \in [Nodes -> Contents \cup {Absent}]
    /\ link \subseteq Links

-----------------------------------------------------------------------------
Exists(n) == node[n] # Absent
NoPatch == [f \in Fields |-> Unset]
Bare == [f \in Fields |-> None]

\* a dictionary written over another, key by key
Over(old, patch) == [f \in Fields |-> IF patch[f] = Unset THEN old[f] ELSE patch[f]]

\* extract_node leaves out what a row does not know
Known(row) == [f \in Fields |-> IF row[f] = None THEN Unset ELSE row[f]]

\* as a deletion keeps it: nothing is kept of a node that holds nothing
Kept(contents) == IF contents = Bare THEN Absent ELSE contents

LinksOf(n) == {l \in Links : n \in {l[1], l[2]}}
Joined(l) == Exists(l[1]) /\ Exists(l[2])

\* upsert_nodes_batch: MERGE creates what is not there
MutMerged(n, patch) == patch
Merged(n, patch) == Over(IF Exists(n) THEN node[n] ELSE Bare, patch)
Upsert(n, patch) ==
    /\ node' = [node EXCEPT ![n] = Merged(n, patch)]
    /\ UNCHANGED link

\* delete_nodes_batch: with detach, or only a node nothing is attached to
Delete(gone) ==
    /\ node' = [n \in Nodes |-> IF n \in gone THEN Absent ELSE node[n]]
    /\ link' = link \ UNION {LinksOf(n) : n \in gone}

\* upsert_relationships_batch: MATCH drops a relationship with an end missing
Connect(links) ==
    /\ link' = link \cup {l \in links : Joined(l)}
    /\ UNCHANGED node

\* delete_relationships_batch
Disconnect(links) ==
    /\ link' = link \ links
    /\ UNCHANGED node
=============================================================================
