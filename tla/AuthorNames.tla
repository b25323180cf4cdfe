---------------------------- MODULE AuthorNames ----------------------------
(***************************************************************************)
(* The stage that splits names (AuthorNamesStage in                        *)
(* pauk/pipeline/stages/author_names.py, OpenRouterClient.chat_json in     *)
(* pauk/sources/llm.py): threads of a pool ask a language model about one  *)
(* author each, the run saves the authors in whatever order the answers    *)
(* come.  There are fewer authors here than one block of the pool takes.   *)
(***************************************************************************)
EXTENDS StaffCatalog, NameParts

CONSTANTS Authors,
          SpellingsOf,      \* Authors -> name_raw and the variants; none: no name_raw
          Workers,
          NameRuns,         \* bound: runs
          SemanticAttempts, \* _SEMANTIC_ATTEMPTS
          TransientRetries  \* _TRANSIENT_RETRIES

VARIABLES names,        \* Authors -> the row of an author
          asks,         \* Authors -> how far the question about an author is
          rounds        \* counts runs

ASSUME AuthorNamesAssumption ==
    /\ Workers \in Nat \ {0} /\ NameRuns \in Nat
    /\ SemanticAttempts \in Nat \ {0} /\ TransientRetries \in Nat
    /\ \A a \in Authors : DOMAIN SpellingsOf[a] \subseteq Nat

NameVars == <<names, asks, rounds>>

NoSplit == {}
SplitParts == [ru : Parts, en : Parts]
NoAsk == [pc |-> "none", attempt |-> 0, tries |-> 0, answer |-> NoSplit]
NamesTypeOK ==
    /\ names \in [Authors -> [parts : SUBSET SplitParts, flat : {"none", "raw", "parts"},
                              degree : Catalog \cup {NoWord}, state : {"none", "failed", "completed", "empty"}]]
    /\ asks \in [Authors -> [pc : {"none", "queued", "asking", "answered"}, attempt : 0 .. SemanticAttempts,
                             tries : 0 .. TransientRetries, answer : SUBSET SplitParts]]
    /\ rounds \in 0 .. NameRuns
NamesInit ==
    /\ names = [a \in Authors |-> [parts |-> NoSplit, flat |-> "none", degree |-> NoWord, state |-> "none"]]
    /\ asks = [a \in Authors |-> NoAsk] /\ rounds = 0

-----------------------------------------------------------------------------
\* run, up to the pool: authors without a name are settled at once
Resting == \A a \in Authors : asks[a].pc = "none"
NamesStart(force) ==
    LET todo == {a \in Authors : force \/ names[a].state \in {"none", "failed"}}
    IN /\ Resting /\ rounds < NameRuns /\ todo # {}
       /\ rounds' = rounds + 1
       /\ names' = [a \in Authors |-> IF a \in todo /\ SpellingsOf[a] = <<>>
                                      THEN [names[a] EXCEPT !.state = "empty"] ELSE names[a]]
       /\ asks' = [a \in Authors |-> IF a \in todo /\ SpellingsOf[a] # <<>>
                                     THEN [NoAsk EXCEPT !.pc = "queued"] ELSE NoAsk]

\* a worker takes the next author
Ask(a) ==
    /\ asks[a].pc = "queued"
    /\ Cardinality({b \in Authors : asks[b].pc = "asking"}) < Workers
    /\ asks' = [asks EXCEPT ![a].pc = "asking", ![a].attempt = 1]
    /\ UNCHANGED <<names, rounds>>

\* chat_json: a failure that may pass is tried again, any other is no reply;
\* either ends the question
ChatFails(a) ==
    /\ asks[a].pc = "asking"
    /\ \/ asks' = [asks EXCEPT ![a].pc = "answered"]
       \/ asks[a].tries < TransientRetries /\ asks' = [asks EXCEPT ![a].tries = @ + 1]
    /\ UNCHANGED <<names, rounds>>
\* _request_name_split: a reply that cannot be used is asked for again
ChatReplies(a, reply) ==
    /\ asks[a].pc = "asking"
    /\ LET row_exists == reply.matched => SplitCandidates(SpellingsOf[a]) # {}
           split == IF row_exists THEN Validated(reply) ELSE NoSplit
       IN asks' = IF split = NoSplit /\ asks[a].attempt < SemanticAttempts
                  THEN [asks EXCEPT ![a].attempt = @ + 1, ![a].tries = 0]
                  ELSE [asks EXCEPT ![a].pc = "answered", ![a].answer = split]
    /\ UNCHANGED <<names, rounds>>

MutNamed(row, a, answer) ==
    LET record == Match(SpellingsOf[a])
        filled == [row EXCEPT !.degree = IF @ = NoWord THEN record ELSE @]
    IN IF answer = NoSplit
       THEN [filled EXCEPT !.parts = NoSplit, !.flat = "raw", !.state = "failed"]
       ELSE [filled EXCEPT !.parts = answer, !.flat = "parts", !.state = "completed"]
\* the loop of run over the answers, in the order they come; the degree of the
\* record the name stands for is saved with either
Named(row, a, answer) ==
    LET record == Match(SpellingsOf[a])
        filled == [row EXCEPT !.degree = IF @ = NoWord THEN record ELSE @]
    IN IF answer = NoSplit
       THEN [filled EXCEPT !.flat = IF @ = "none" THEN "raw" ELSE @, !.state = "failed"]
       ELSE [filled EXCEPT !.parts = answer, !.flat = "parts", !.state = "completed"]
SaveAnswer(a) ==
    /\ asks[a].pc = "answered"
    /\ names' = [names EXCEPT ![a] = Named(@, a, asks[a].answer)]
    /\ asks' = [asks EXCEPT ![a] = NoAsk]
    /\ UNCHANGED rounds

\* an interrupt, a crash: what was asked and not saved is lost
Interrupted ==
    /\ ~Resting
    /\ asks' = [a \in Authors |-> NoAsk]
    /\ UNCHANGED <<names, rounds>>

NamesNext ==
    \/ \E force \in BOOLEAN : NamesStart(force)
    \/ Interrupted
    \/ \E a \in Authors :
        \/ Ask(a) \/ ChatFails(a) \/ SaveAnswer(a)
        \/ \E reply \in SplitReplies : ChatReplies(a, reply)
=============================================================================
