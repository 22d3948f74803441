--------------------------- MODULE DocumentReview ---------------------------
(***************************************************************************)
(* Policy documents on their way into the searchable knowledge base        *)
(* (knowledge_base.py, pgvector_store.py with PostgreSQL).  A PDF whose    *)
(* pages all pass validation is saved at once; any other waits in          *)
(* document_review_queue, where administrators approve it page by page.    *)
(* Chunks are embedded before the transaction begins, so what was read for *)
(* that is old when the transaction writes.                                *)
(*                                                                         *)
(* Transactions are READ COMMITTED: each statement sees what is committed, *)
(* writes become visible with the commit, which is the last step here.     *)
(***************************************************************************)
EXTENDS Naturals, FiniteSets

CONSTANTS
  Documents,     \* document ids
  Pages,         \* pages of a document
  TextPages,     \* of each document: its pages with at least one chunk of text
  Calls,         \* API calls in flight
  NULL

ASSUME PagesAssumption == TextPages \in [Documents -> SUBSET Pages]

VARIABLES
  queue,         \* document_review_queue: the approved pages, or NULL
  documents,     \* documents: status and origin_review_id, or NULL
  chunks,        \* the pages of each document with chunks in knowledge_chunks
  events,        \* document_review_events of each document
  advisory,      \* pg_advisory_xact_lock of a document id
  rowLock,       \* FOR UPDATE on the document's row of the queue
  calls          \* how far each call is

vars == <<queue, documents, chunks, events, advisory, rowLock, calls>>

Idle == [op |-> "none", at |-> "none", doc |-> NULL, pages |-> {}]
Statuses == {"published", "partial_published"}
Rows == [status : Statuses, reviewed : BOOLEAN]
CallRecords ==
  [op : {"none", "save", "stage", "publish"}, at : {"none", "begin", "check", "insert", "write"},
   doc : Documents \cup {NULL}, pages : SUBSET Pages]

\* What stands for a missing row or holder is none.
ASSUME NullAssumption ==
  /\ NULL \notin Rows \cup Documents \cup Calls
  /\ \A pages \in SUBSET Pages : pages # NULL

IsAt(c, op, at) == calls[c].op = op /\ calls[c].at = at
Goto(c, at) == calls' = [calls EXCEPT ![c].at = at]

\* Commit or rollback frees what the transaction locked.
EndTransaction(c) ==
  /\ calls' = [calls EXCEPT ![c] = Idle]
  /\ advisory' = [d \in Documents |-> IF advisory[d] = c THEN NULL ELSE advisory[d]]
  /\ rowLock' = [d \in Documents |-> IF rowLock[d] = c THEN NULL ELSE rowLock[d]]

Rollback(c) ==
  /\ EndTransaction(c)
  /\ UNCHANGED <<queue, documents, chunks, events>>

Enter(c, call) ==
  /\ calls[c] = Idle
  /\ calls' = [calls EXCEPT ![c] = call]
  /\ UNCHANGED <<queue, documents, chunks, events, advisory, rowLock>>

----------------------------------------------------------------------------
(* POST documents                                                          *)

\* ingest_pdf decides which way a document goes; its status is "ready" when
\* every page was validated and had text.
Upload(c, d) ==
  \E op \in {"save", "stage"} :
    /\ op = "save" => TextPages[d] = Pages
    /\ Enter(c, [Idle EXCEPT !.op = op, !.at = "begin", !.doc = d])

\* Seeded fault: the two upload paths do not exclude each other.
BeginUnlocked(c) ==
  /\ calls[c].op \in {"save", "stage"}
  /\ calls[c].at = "begin"
  /\ Goto(c, "check")
  /\ UNCHANGED <<queue, documents, chunks, events, advisory, rowLock>>

\* Both paths take the lock of the id first.
BeginUpload(c) ==
  /\ calls[c].op \in {"save", "stage"}
  /\ calls[c].at = "begin"
  /\ advisory[calls[c].doc] = NULL
  /\ advisory' = [advisory EXCEPT ![calls[c].doc] = c]
  /\ Goto(c, "check")
  /\ UNCHANGED <<queue, documents, chunks, events, rowLock>>

\* save_document looks into the queue, stage_document into documents.
CheckOtherTable(c) ==
  /\ calls[c].at = "check"
  /\ LET d == calls[c].doc
         taken == IF calls[c].op = "save" THEN queue[d] # NULL ELSE documents[d] # NULL
     IN  IF taken THEN Rollback(c)
         ELSE /\ Goto(c, "insert")
              /\ UNCHANGED <<queue, documents, chunks, events, advisory, rowLock>>

\* INSERT and COMMIT of save_document; the primary key refuses a second one.
SaveDocument(c) ==
  /\ IsAt(c, "save", "insert")
  /\ LET d == calls[c].doc
     IN  IF documents[d] # NULL THEN Rollback(c)
         ELSE /\ documents' = [documents EXCEPT ![d] = [status |-> "published", reviewed |-> FALSE]]
              /\ chunks' = [chunks EXCEPT ![d] = @ \cup TextPages[d]]
              /\ EndTransaction(c)
              /\ UNCHANGED <<queue, events>>

\* INSERT and COMMIT of stage_document.
StageDocument(c) ==
  /\ IsAt(c, "stage", "insert")
  /\ LET d == calls[c].doc
     IN  IF queue[d] # NULL THEN Rollback(c)
         ELSE /\ queue' = [queue EXCEPT ![d] = {}]
              /\ EndTransaction(c)
              /\ UNCHANGED <<documents, chunks, events>>

----------------------------------------------------------------------------
(* POST documents/{id}/publish                                             *)

\* get_staged_document and the checks on the pages; then the chunks are
\* embedded.  ingestion_result never changes once it is staged.
Publish(c, d, pages) ==
  /\ queue[d] # NULL
  /\ pages # {}
  /\ pages \subseteq TextPages[d]
  /\ Enter(c, [Idle EXCEPT !.op = "publish", !.at = "begin", !.doc = d, !.pages = pages])

\* Seeded fault: SELECT without FOR UPDATE.
LockReviewPlain(c) ==
  /\ IsAt(c, "publish", "begin")
  /\ LET d == calls[c].doc
     IN  IF queue[d] = NULL \/ calls[c].pages \cap queue[d] # {}
         THEN Rollback(c)
         ELSE /\ Goto(c, "write")
              /\ UNCHANGED <<queue, documents, chunks, events, advisory, rowLock>>

\* SELECT ... FOR UPDATE waits for another reviewer's commit and then sees
\* the pages that one approved.
LockReview(c) ==
  /\ IsAt(c, "publish", "begin")
  /\ LET d == calls[c].doc
     IN  /\ rowLock[d] = NULL
         /\ IF queue[d] = NULL \/ calls[c].pages \cap queue[d] # {}
            THEN Rollback(c)
            ELSE /\ rowLock' = [rowLock EXCEPT ![d] = c]
                 /\ Goto(c, "write")
                 /\ UNCHANGED <<queue, documents, chunks, events, advisory>>

\* Seeded fault: the status looks at the pages of this request only.
PublishPagesStatus(c) ==
  /\ IsAt(c, "publish", "write")
  /\ LET d == calls[c].doc
         approved == queue[d] \cup calls[c].pages
     IN  /\ documents' = [documents EXCEPT ![d] =
                            [status |-> IF calls[c].pages = Pages THEN "published"
                                        ELSE "partial_published", reviewed |-> TRUE]]
         /\ chunks' = [chunks EXCEPT ![d] = @ \cup calls[c].pages]
         /\ queue' = [queue EXCEPT ![d] = approved]
         /\ events' = [events EXCEPT ![d] = @ \cup {calls[c].pages}]
  /\ EndTransaction(c)

\* Seeded fault: the approved pages are overwritten by those of this request.
PublishPagesForgetting(c) ==
  /\ IsAt(c, "publish", "write")
  /\ LET d == calls[c].doc
     IN  IF \/ documents[d] # NULL /\ ~documents[d].reviewed
            \/ chunks[d] \cap calls[c].pages # {}
         THEN Rollback(c)
         ELSE /\ documents' = [documents EXCEPT ![d] =
                                 [status |-> IF calls[c].pages = Pages THEN "published"
                                             ELSE "partial_published", reviewed |-> TRUE]]
              /\ chunks' = [chunks EXCEPT ![d] = @ \cup calls[c].pages]
              /\ queue' = [queue EXCEPT ![d] = calls[c].pages]
              /\ events' = [events EXCEPT ![d] = @ \cup {calls[c].pages}]
              /\ EndTransaction(c)

\* The documents row is made or found, the chunks, the approved pages, the
\* receipt and the status are written, COMMIT.  A page published twice would
\* meet the primary key of its chunks.
PublishPages(c) ==
  /\ IsAt(c, "publish", "write")
  /\ LET d == calls[c].doc
         approved == queue[d] \cup calls[c].pages
     IN  IF \/ documents[d] # NULL /\ ~documents[d].reviewed
            \/ chunks[d] \cap calls[c].pages # {}
         THEN Rollback(c)
         ELSE /\ documents' = [documents EXCEPT ![d] =
                                 [status |-> IF approved = Pages THEN "published"
                                             ELSE "partial_published", reviewed |-> TRUE]]
              /\ chunks' = [chunks EXCEPT ![d] = @ \cup calls[c].pages]
              /\ queue' = [queue EXCEPT ![d] = approved]
              /\ events' = [events EXCEPT ![d] = @ \cup {calls[c].pages}]
              /\ EndTransaction(c)

----------------------------------------------------------------------------
\* The process dies or the database goes away: the transaction is undone.
Die(c) ==
  /\ calls[c] # Idle
  /\ Rollback(c)

Init ==
  /\ queue = [d \in Documents |-> NULL]
  /\ documents = [d \in Documents |-> NULL]
  /\ chunks = [d \in Documents |-> {}]
  /\ events = [d \in Documents |-> {}]
  /\ advisory = [d \in Documents |-> NULL]
  /\ rowLock = [d \in Documents |-> NULL]
  /\ calls = [c \in Calls |-> Idle]

Next ==
  \E c \in Calls :
    \/ \E d \in Documents : Upload(c, d) \/ \E pages \in SUBSET Pages : Publish(c, d, pages)
    \/ BeginUpload(c) \/ CheckOtherTable(c) \/ SaveDocument(c) \/ StageDocument(c)
    \/ LockReview(c) \/ PublishPages(c)
    \/ Die(c)

Spec == Init /\ [][Next]_vars

----------------------------------------------------------------------------
(* Correctness.                                                            *)

\* What search and search_hybrid can return pages of.
Searchable(d) == IF documents[d] = NULL THEN {} ELSE chunks[d]

\* A call is where its operation takes it, about a document that may go that
\* way, and for pages with text of one that is under review.
WellFormed(call, staged) ==
  /\ call.op = "none" => call = Idle
  /\ call.op # "none" => call.doc \in Documents
  /\ call.op \in {"save", "stage"} => call.at \in {"begin", "check", "insert"}
  /\ call.op = "save" => TextPages[call.doc] = Pages
  /\ call.op = "publish"
       => call.at \in {"begin", "write"} /\ call.pages # {} /\ staged[call.doc] # NULL

\* The types of rows, locks and calls.
ReviewTypeOK ==
  /\ queue \in [Documents -> (SUBSET Pages) \cup {NULL}]
  /\ documents \in [Documents -> Rows \cup {NULL}]
  /\ chunks \in [Documents -> SUBSET Pages]
  /\ events \in [Documents -> SUBSET SUBSET Pages]
  /\ advisory \in [Documents -> Calls \cup {NULL}]
  /\ rowLock \in [Documents -> Calls \cup {NULL}]
  /\ calls \in [Calls -> CallRecords]
  /\ \A c \in Calls : WellFormed(calls[c], queue)

\* An id is either that of a document saved at once or of one under review,
\* however uploads of the same id meet: nothing waiting for an approval is
\* searchable as a whole.
OneWayIn ==
  \A d \in Documents :
    queue[d] # NULL /\ documents[d] # NULL => documents[d].reviewed

\* Of a document under review search finds exactly the approved pages, the
\* receipts add up to them, and no page has two receipts, whatever requests
\* of several reviewers overlap.
SearchableIsApproved ==
  \A d \in Documents :
    queue[d] # NULL
      => /\ Searchable(d) = queue[d]
         /\ UNION events[d] = queue[d]
         /\ \A e, f \in events[d] : e # f => e \cap f = {}

\* A document is called published exactly when all of its pages are.
StatusTellsPages ==
  \A d \in Documents :
    documents[d] # NULL
      => (documents[d].status = "published" <=> Searchable(d) = Pages)

\* The invariant of the documents: one way in, and search and status agree
\* with what reviewers approved.
PagesInv == ReviewTypeOK /\ OneWayIn /\ SearchableIsApproved /\ StatusTellsPages

----------------------------------------------------------------------------
(* Why the invariant holds: with these the proof goes by induction.        *)

\* What an upload has found stays so while it holds the id: a document that
\* is to be saved is not under review, and one that is to be staged was not
\* saved; meanwhile it may have been staged and published by others.
UploadFound ==
  \A c \in Calls :
    LET d == calls[c].doc
    IN  /\ calls[c].op \in {"save", "stage"} /\ calls[c].at \in {"check", "insert"}
             => advisory[d] = c
        /\ IsAt(c, "save", "insert") => queue[d] = NULL
        /\ IsAt(c, "stage", "insert") /\ queue[d] = NULL => documents[d] = NULL

\* A reviewer who writes holds the row, and no page he approves was approved
\* before.
ReviewerFound ==
  \A c \in Calls :
    IsAt(c, "publish", "write")
      => /\ rowLock[calls[c].doc] = c
         /\ calls[c].pages \cap queue[calls[c].doc] = {}

\* Nothing is left of a document that is not there.
NothingLeft ==
  \A d \in Documents :
    /\ documents[d] = NULL => chunks[d] = {}
    /\ queue[d] = NULL => events[d] = {} /\ (documents[d] # NULL => ~documents[d].reviewed)

ReviewInduction == PagesInv /\ UploadFound /\ ReviewerFound /\ NothingLeft
=============================================================================
