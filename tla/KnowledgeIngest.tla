-------------------------- MODULE KnowledgeIngest --------------------------
(***************************************************************************)
(* An uploaded PDF in the store in memory: what ingest_pdf                 *)
(* (document_ingestion.py) concludes of its pages, the index, the area of  *)
(* documents under review, and the approval of pages (knowledge_base.py).  *)
(* DocumentReview is the store in PostgreSQL.  Here calls hold one lock,   *)
(* but embedding may fail in the middle of one, nothing survives a         *)
(* restart, and a document is known by the ids of its chunks.              *)
(***************************************************************************)
EXTENDS Naturals, Sequences, FiniteSets

CONSTANTS
  Ids,           \* document_ids
  Prefixed,      \* <<a, b>>: ids of b's chunks begin like those of a's
  PageKinds,     \* records text, flagged, cut, head, tail
  MaxPages,      \* bound: pages of a PDF
  MaxCopies      \* bound: times a page is indexed

ASSUME PrefixAssumption == \A d \in Ids : <<d, d>> \in Prefixed
ASSUME PagesBound == MaxPages \in Nat

VARIABLES
  pending,       \* the PDF of an id under review, or <<>>
  approvals,     \* the pages of it that were approved
  indexed,       \* how often search finds each page of an id
  live           \* the PDF last indexed under an id without review, or <<>>

ingestVars == <<pending, approvals, indexed, live>>

PDFs == UNION {[1 .. n -> PageKinds] : n \in 1 .. MaxPages}

----------------------------------------------------------------------------
(* ingest_pdf                                                              *)

\* A table goes on, or a sentence is not finished, on the next page.
Crosses(pdf, p) ==
  /\ p \in DOMAIN pdf /\ p + 1 \in DOMAIN pdf
  /\ pdf[p].text /\ pdf[p + 1].text
  /\ \/ pdf[p].tail = "open"
     \/ pdf[p].tail = "table" /\ pdf[p + 1].head = "table"

Validated(pdf, p) ==
  /\ pdf[p].text /\ ~pdf[p].flagged /\ ~pdf[p].cut
  /\ ~Crosses(pdf, p) /\ ~Crosses(pdf, p - 1)

\* Only a page with text has chunks.
Chunked(pdf) == {p \in DOMAIN pdf : pdf[p].text}

\* Seeded fault: the pages with chunks decide.
ReadyByChunks(pdf) == Chunked(pdf) # {} /\ \A p \in Chunked(pdf) : Validated(pdf, p)

Ready(pdf) == Chunked(pdf) # {} /\ \A p \in DOMAIN pdf : Validated(pdf, p)

----------------------------------------------------------------------------
(* knowledge_base.py                                                       *)

Unindexed == [p \in 1 .. MaxPages |-> 0]

Index(d, pages) ==
  /\ \A p \in pages : indexed[d][p] < MaxCopies
  /\ indexed' = [indexed EXCEPT ![d] = [p \in 1 .. MaxPages |-> @[p] + (IF p \in pages THEN 1 ELSE 0)]]

\* Of an id under review no PDF is indexed beside it.
IndexUploadedDocument(d, pdf) ==
  /\ Ready(pdf) /\ pending[d] = <<>>
  /\ Index(d, Chunked(pdf))
  /\ live' = [live EXCEPT ![d] = pdf]
  /\ UNCHANGED <<pending, approvals>>

\* Seeded fault: only the area under review is looked at.
UnknownPending(d) == pending[d] = <<>>

Unknown(d) == pending[d] = <<>> /\ \A e \in Ids : <<d, e>> \in Prefixed => indexed[e] = Unindexed

StageUploadedDocument(d, pdf) ==
  /\ ~Ready(pdf) /\ Unknown(d)
  /\ pending' = [pending EXCEPT ![d] = pdf]
  /\ UNCHANGED <<approvals, indexed, live>>

\* Embedding comes first: if it fails, nothing has changed.
PublishPendingPages(d, pages) ==
  /\ pending[d] # <<>> /\ pages # {}
  /\ pages \subseteq Chunked(pending[d]) \ approvals[d]
  /\ Index(d, pages)
  /\ approvals' = [approvals EXCEPT ![d] = @ \cup pages]
  /\ UNCHANGED <<pending, live>>

Restart ==
  /\ pending' = [d \in Ids |-> <<>>] /\ live' = [d \in Ids |-> <<>>]
  /\ approvals' = [d \in Ids |-> {}] /\ indexed' = [d \in Ids |-> Unindexed]

IngestInit ==
  /\ pending = [d \in Ids |-> <<>>] /\ live = [d \in Ids |-> <<>>]
  /\ approvals = [d \in Ids |-> {}] /\ indexed = [d \in Ids |-> Unindexed]

IngestNext ==
  \/ \E d \in Ids, pdf \in PDFs : IndexUploadedDocument(d, pdf) \/ StageUploadedDocument(d, pdf)
  \/ \E d \in Ids, pages \in SUBSET (1 .. MaxPages) : PublishPendingPages(d, pages)
  \/ Restart

IngestSpec == IngestInit /\ [][IngestNext]_ingestVars

----------------------------------------------------------------------------
(* Correctness.                                                            *)

\* Of a document under review search finds exactly the approved pages, each
\* once, whatever was uploaded under its id before.
ApprovedFoundOnce ==
  \A d \in Ids : pending[d] # <<>> =>
    \A p \in 1 .. MaxPages : indexed[d][p] = IF p \in approvals[d] THEN 1 ELSE 0

\* A document that nobody reviewed is found as a whole, no page missing,
\* none of doubtful text, and nothing that belongs together on two pages
\* ("pages that need OCR are reported, not silently lost", ingest_pdf).
LiveAsAWhole ==
  \A d \in Ids : \A p \in DOMAIN live[d] :
    /\ indexed[d][p] > 0
    /\ live[d][p].text /\ ~live[d][p].flagged
    /\ live[d][p].tail # "open" \/ p = Len(live[d])
    /\ live[d][p].tail = "table" /\ p < Len(live[d]) => live[d][p + 1].head # "table"

\* What is searchable was approved, or needed no approval, as a whole.
IngestInv == ApprovedFoundOnce /\ LiveAsAWhole

----------------------------------------------------------------------------
(* Why: the inductive invariant behind the properties.                     *)

IngestTypeOK ==
  /\ pending \in [Ids -> PDFs \cup {<<>>}] /\ live \in [Ids -> PDFs \cup {<<>>}]
  /\ approvals \in [Ids -> SUBSET (1 .. MaxPages)]
  /\ indexed \in [Ids -> [1 .. MaxPages -> Nat]]

\* Nothing is approved of what is not under review, and what was indexed
\* without review was ready and is still found.
IngestInduction ==
  /\ IngestTypeOK /\ ApprovedFoundOnce
  /\ \A d \in Ids :
       /\ pending[d] = <<>> => approvals[d] = {}
       /\ live[d] # <<>> => Ready(live[d]) /\ \A p \in DOMAIN live[d] : indexed[d][p] > 0
=============================================================================
