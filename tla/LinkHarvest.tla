---------------------------- MODULE LinkHarvest ----------------------------
(***************************************************************************)
(* Links to code found in a paper and what is made of them: the stages     *)
(* code_links and link_relevance (pauk/pipeline/stages/code_links.py,      *)
(* link_relevance.py) and the fold of two papers' links                    *)
(* (_merge_code_link in dedup.py).  A place where a link was seen is the   *)
(* PDF it was seen in, if any, and the document that says it.              *)
(***************************************************************************)
EXTENDS StageRows

CONSTANTS Urls,         \* links to repositories, up to spelling
          Docs,         \* texts: abstracts and PDFs
          NoDoc,        \* no text, or no PDF
          Mentions,     \* <<text, link>>
          Blurred,      \* mentions whose spelling several links could have
          AbstractOf,   \* Pubs -> text
          DepositOf,    \* Pubs -> the link it is an archive of, or none
          Replies       \* what a model may say of a link: "own", "other", "unsure" or
                        \* "silence", any answer that cannot be used

ASSUME HarvestAssumption ==
    /\ Pubs \subseteq Nat /\ IsFiniteSet(Pubs)
    /\ Mentions \subseteq Docs \X Urls /\ Blurred \subseteq Mentions
    /\ AbstractOf \in [Pubs -> Docs \cup {NoDoc}]
    /\ Replies \subseteq {"own", "other", "unsure", "silence"}
    /\ NoDoc \notin Docs \cup Pubs /\ Absent \notin Pubs

VARIABLE files          \* Pubs -> the PDF kept on disk, or NoDoc

Places == [pdf : Pubs \cup {NoDoc}, doc : Docs \cup {NoDoc}]
Title == [pdf |-> NoDoc, doc |-> NoDoc]
Link == [found : SUBSET Places,
         status : {"pending", "classified", "failed"},
         verdict : {"own", "other", "unsure"},     \* is_relevant
         deposit : BOOLEAN,                        \* settled by the archive, no model asked
         judged : SUBSET Places]                   \* ghost: what the verdict was made on
LinkRows == [Pubs -> [Urls -> Link \cup {Absent}] \cup {Absent}]
Publication == [merged : SUBSET Pubs, sources : SUBSET Docs,
                versions : SUBSET Pubs,           \* the records it is made of, kept as a ledger
                listed : SUBSET Pubs,             \* those of them entered with their authors
                found : States, judged : States,  \* code_links, link_relevance
                code : SUBSET Urls]               \* code_url
PublicationRows == [Pubs -> Publication \cup {Absent}]

ASSUME RowsAssumption ==
    /\ IsFiniteSet(Urls) /\ DepositOf \in [Pubs -> Urls \cup {NoDoc}]
    /\ Absent \notin Link \cup Publication \cup [Urls -> Link \cup {Absent}]
    /\ MaxRuns \in Nat

Ambiguous(url, link) == link.found # {} /\ \A e \in link.found : <<e.doc, url>> \in Blurred
\* _occurrences_in_text: the links in a text, whatever their spelling
Mentioned(doc) == {u \in Urls : <<doc, u>> \in Mentions}
Pending(found) == [found |-> found, status |-> "pending", verdict |-> "unsure",
                   deposit |-> FALSE, judged |-> {}]
Settled(found) == [found |-> found, status |-> "classified", verdict |-> "own",
                   deposit |-> TRUE, judged |-> found]
Own(url, link) == link # Absent /\ link.verdict = "own" /\ ~Ambiguous(url, link)
LinksOf(table, p) == IF table[p] = Absent THEN {} ELSE Present(table[p])

-----------------------------------------------------------------------------
\* _primary_pdf_pages: the file, then a download; [the text or none, failed].
\* Texts are kept only once they could be read.
Primary(p, readable) ==
    LET sources == rows.publications[p].sources
        had == files[p] # NoDoc
    IN IF had /\ p \in readable THEN {[doc |-> files[p], failed |-> FALSE]}
       ELSE {[doc |-> d, failed |-> FALSE] : d \in sources}
            \cup {[doc |-> NoDoc, failed |-> had \/ sources # {}]}

\* _pdf_pages: a cached version of a merged record spares the download
PdfPages(p) ==
    LET row == rows.publications[p]
        versions == {v \in (row.merged \cup row.versions) \ {p} : files[v] # NoDoc}
        read(readable, primary) ==
            [files |-> [v \in (versions \cap readable) \cup {q \in {p} : primary.doc # NoDoc} |->
                            IF v = p THEN primary.doc ELSE files[v]],
             failed |-> (versions \ readable) \cup {q \in {p} : primary.failed}]
        none == [doc |-> NoDoc, failed |-> FALSE]
        asked(readable) == versions = {} \/ files[p] # NoDoc \/ versions \cap readable = {}
    IN UNION {{read(readable, primary) :
                  primary \in IF asked(readable) THEN Primary(p, readable) ELSE {none}} :
              readable \in SUBSET (versions \cup {p})}

\* evidence of a PDF this attempt has not read keeps its place
Missing(p, parsed) ==
    IF rows.repo_links[p] = Absent THEN {}
    ELSE (UNION {{e.pdf : e \in rows.repo_links[p][u].found} : u \in LinksOf(rows.repo_links, p)})
         \ (parsed \cup {NoDoc})

MutPreserved(p, u, failed) == {}
\* _preserve_pdf_occurrences
Preserved(p, u, failed) ==
    IF u \in LinksOf(rows.repo_links, p) THEN {e \in rows.repo_links[p][u].found : e.pdf \in failed} ELSE {}

\* one publication: _collect_occurrences, the deposit's own link
Searched(p, read) ==
    LET parsed == DOMAIN read.files
        failed == read.failed \cup Missing(p, parsed)
        seen(u) ==
            {[pdf |-> NoDoc, doc |-> d] : d \in {d \in {AbstractOf[p]} : u \in Mentioned(d)}}
            \cup {[pdf |-> v, doc |-> read.files[v]] : v \in {v \in parsed : u \in Mentioned(read.files[v])}}
            \cup Preserved(p, u, failed)
        link(u) == IF DepositOf[p] = u THEN Settled(IF seen(u) = {} THEN {Title} ELSE seen(u))
                   ELSE IF seen(u) = {} THEN Absent ELSE Pending(seen(u))
        links == [u \in Urls |-> link(u)]
    IN [links |-> links,
        pub |-> [rows.publications[p] EXCEPT
                    !.judged = "none",
                    !.found = IF failed # {} THEN "failed"
                              ELSE IF Present(links) = {} THEN "empty" ELSE "completed"]]

FindCodeLinks(force, selection) ==
    /\ MayStart("code_links")
    /\ LET chosen == {p \in Present(rows.publications) :
                        Selected(selection, p) /\ NeedsAttempt(force, rows.publications[p].found)}
       IN \E read \in Picks([p \in chosen |-> PdfPages(p)]) :
            /\ files' = [p \in Pubs |-> IF p \in chosen /\ p \in DOMAIN read[p].files
                                        THEN read[p].files[p] ELSE files[p]]
            /\ Started("code_links", selection,
                   <<Write("publications", [p \in Pubs |->
                        IF p \in chosen THEN Searched(p, read[p]).pub ELSE rows.publications[p]]),
                     Write("repo_links", [p \in Pubs |->
                        IF p \in chosen THEN Searched(p, read[p]).links ELSE rows.repo_links[p]])>>)
    /\ UNCHANGED rows

-----------------------------------------------------------------------------
Asked(url, link, force) ==
    ~Ambiguous(url, link) /\ (link.status # "classified" \/ (force /\ ~link.deposit))
MutJudged(link, reply) ==
    [link EXCEPT !.status = IF reply = "silence" THEN "failed" ELSE "classified",
                 !.verdict = reply, !.deposit = FALSE, !.judged = link.found]
Judged(link, reply) ==
    IF reply = "silence"
    THEN [link EXCEPT !.status = "failed", !.verdict = "unsure", !.deposit = FALSE, !.judged = {}]
    ELSE [link EXCEPT !.status = "classified", !.verdict = reply, !.deposit = FALSE, !.judged = link.found]
\* an ambiguous spelling is nobody's to judge
LeftOpen(link) ==
    [link EXCEPT !.status = "classified", !.verdict = "unsure", !.deposit = FALSE, !.judged = link.found]

JudgeLinks(force, selection) ==
    /\ MayStart("link_relevance")
    /\ LET links == rows.repo_links
           chosen == {p \in Present(rows.publications) :
                        /\ links[p] # Absent /\ Selected(selection, p)
                        /\ NeedsAttempt(force, rows.publications[p].judged)}
           asked == {pu \in chosen \X Urls :
                        /\ pu[2] \in LinksOf(links, pu[1])
                        /\ Asked(pu[2], links[pu[1]][pu[2]], force)}
       IN \E reply \in [asked -> Replies] :
            LET after(p, u) == IF links[p][u] = Absent THEN Absent
                               ELSE IF <<p, u>> \in asked THEN Judged(links[p][u], reply[<<p, u>>])
                               ELSE IF Ambiguous(u, links[p][u]) THEN LeftOpen(links[p][u])
                               ELSE links[p][u]
                failed(p) == \E u \in Urls : <<p, u>> \in asked /\ reply[<<p, u>>] = "silence"
                pub(p) == [rows.publications[p] EXCEPT
                    !.judged = IF failed(p) THEN "failed"
                               ELSE IF LinksOf(links, p) = {} THEN "empty" ELSE "completed",
                    !.code = IF failed(p) THEN @ ELSE {u \in Urls : Own(u, after(p, u))}]
            IN Started("link_relevance", selection,
                   <<Write("publications", [p \in Pubs |->
                        IF p \in chosen THEN pub(p) ELSE rows.publications[p]]),
                     Write("repo_links", [p \in Pubs |->
                        IF p \in chosen THEN [u \in Urls |-> after(p, u)] ELSE links[p]])>>)
    /\ UNCHANGED <<rows, files>>

-----------------------------------------------------------------------------
Reset(link) == [link EXCEPT !.status = "pending", !.verdict = "unsure", !.deposit = FALSE, !.judged = {}]
MutMergeCodeLink(base, extra) ==
    LET found == base.found \cup extra.found
        known == base.status = "classified"
    IN IF known THEN [base EXCEPT !.found = found] ELSE [extra EXCEPT !.found = found]
\* _merge_code_link: a verdict outlives the fold only when it covers the evidence
\* of both.  (Where a model was as sure as the archive, the first reason stays;
\* how sure a model was is not modelled.)
MergeCodeLink(base, extra) ==
    LET found == base.found \cup extra.found
        classified == {l \in {base, extra} : l.status = "classified"}
        covering == {l \in classified : l.found = found}
    IN IF base.status = "classified" /\ extra.status = "classified"
       THEN IF base.verdict = extra.verdict
            THEN [base EXCEPT !.found = found, !.deposit = @ \/ extra.deposit,
                              !.judged = @ \cup extra.judged]
            ELSE Reset([base EXCEPT !.found = found])
       ELSE IF classified # {}
       THEN IF covering # {} THEN CHOOSE l \in covering : TRUE
            ELSE Reset([base EXCEPT !.found = found])
       ELSE [base EXCEPT !.found = found,
                         !.status = IF "failed" \in {base.status, extra.status} THEN "failed" ELSE @]
MergeLinks(one, other) ==
    [u \in Urls |-> IF one[u] = Absent THEN other[u]
                    ELSE IF other[u] = Absent THEN one[u]
                    ELSE MergeCodeLink(one[u], other[u])]
MergeAllLinks(links, others, table) ==
    FoldSet(LAMBDA q, merged : MergeLinks(merged, table[q]), links, others)
=============================================================================
