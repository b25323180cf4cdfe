----------------------------- MODULE MCHarvest -----------------------------
(* Small instances of Harvest for TLC. *)
EXTENDS Harvest

CONSTANTS old, new, one, abstract, paper, preprint

Two == {1, 2}
OneWork == 1 :> {"doi", "title"} @@ 2 :> {"title"}
OnePdf == 1 :> {paper} @@ 2 :> {preprint}
OneAbstract == [p \in Pubs |-> abstract]
SecondDeposit == 1 :> NoDoc @@ 2 :> new
SomeMentions == {<<abstract, old>>, <<paper, new>>, <<preprint, new>>}
Wrapped == {<<paper, new>>}
NoRows == [u \in Urls |-> Absent]
ByHand == [url |-> old, github |-> one, owner |-> TRUE, pubs |-> {}, cited |-> {old}, merged |-> {},
           state |-> "completed"]
WithImport == {NoRows, [NoRows EXCEPT ![old] = ByHand]}
=============================================================================
