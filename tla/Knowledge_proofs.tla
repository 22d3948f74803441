-------------------------- MODULE Knowledge_proofs ---------------------------
(***************************************************************************)
(* Search finds of a document under review what reviewers approved, page   *)
(* by page and once each, however uploads and reviews overlap: for any     *)
(* documents, pages and number of calls (DocumentReview), and in memory for*)
(* any PDFs and ids (KnowledgeIngest).  The chunks of a page are all of    *)
(* it, for any lines, size and overlap (Chunker).  A search returns the    *)
(* best of what it may, for any chunks and scores (Retrieval).             *)
(***************************************************************************)
EXTENDS DocumentReview, KnowledgeIngest, Chunker, Retrieval,
        FiniteSetTheorems, WellFoundedInduction, TLAPS

\* A set of numbers that is not empty has a least one: what stands for
\* induction in the proofs about recursive functions.
LEMMA LeastNumber ==
  ASSUME NEW T \in SUBSET Nat, T # {}
  PROVE  \E n \in T : \A m \in T : n <= m
<1>1. \E n \in T : \A m \in T : ~ (<<m, n>> \in OpToRel(<, Nat))
  BY NatLessThanWellFounded, WFMin
<1>2. PICK n \in T : \A m \in T : ~ (<<m, n>> \in OpToRel(<, Nat))
  BY <1>1
<1>3. \A m \in T : ~ (m < n)
  BY <1>2 DEF OpToRel
<1>4. QED
  BY <1>3

LEMMA IdleType ==
  /\ Idle \in CallRecords /\ Idle.op = "none" /\ Idle.at = "none"
  /\ \A staged : WellFormed(Idle, staged)
<1>1. Idle \in CallRecords /\ Idle.op = "none" /\ Idle.at = "none"
  BY DEF Idle, CallRecords
<1>2. QED
  BY <1>1 DEF WellFormed

\* Going on at another place changes nothing else of a call.
LEMMA GotoPlace ==
  ASSUME ReviewTypeOK, NEW c \in Calls, NEW at \in {"begin", "check", "insert", "write"}, Goto(c, at)
  PROVE  LET call == [calls[c] EXCEPT !.at = at]
         IN  /\ calls' = [calls EXCEPT ![c] = call]
             /\ call \in CallRecords /\ call.at = at /\ call.op = calls[c].op
             /\ call.doc = calls[c].doc /\ call.pages = calls[c].pages
<1>1. calls[c] \in CallRecords /\ calls \in [Calls -> CallRecords]
  BY DEF ReviewTypeOK
<1>2. calls' = [calls EXCEPT ![c] = [calls[c] EXCEPT !.at = at]]
  BY <1>1 DEF Goto
<1>3. QED
  BY <1>1, <1>2 DEF CallRecords

\* Where a call that is under way may be.
LEMMA CallAt ==
  ASSUME ReviewTypeOK, NEW c \in Calls, calls[c].op # "none"
  PROVE  calls[c] \in CallRecords /\ calls[c].doc \in Documents /\ WellFormed(calls[c], queue)
BY DEF ReviewTypeOK, WellFormed

\* The locks keep their types, and nobody takes one that another call holds.
LocksKept(c) ==
  /\ advisory' \in [Documents -> Calls \cup {NULL}]
  /\ rowLock' \in [Documents -> Calls \cup {NULL}]
  /\ \A x \in Calls \ {c}, d \in Documents :
       /\ advisory[d] = x => advisory'[d] = x
       /\ rowLock[d] = x => rowLock'[d] = x

LEMMA EndKeepsLocks ==
  ASSUME ReviewTypeOK, NEW c \in Calls, EndTransaction(c)
  PROVE  LocksKept(c)
BY DEF EndTransaction, LocksKept, ReviewTypeOK

\* The steps that write no table: what the others know stays true.
LEMMA QuietStep ==
  ASSUME ReviewInduction, NEW c \in Calls, NEW call \in CallRecords, WellFormed(call, queue),
         calls' = [calls EXCEPT ![c] = call], LocksKept(c),
         UNCHANGED <<queue, documents, chunks, events>>,
         call.op \in {"save", "stage"} /\ call.at \in {"check", "insert"} => advisory'[call.doc] = c,
         call.op = "save" /\ call.at = "insert" => queue[call.doc] = NULL,
         call.op = "stage" /\ call.at = "insert" /\ queue[call.doc] = NULL => documents[call.doc] = NULL,
         call.op = "publish" /\ call.at = "write"
           => rowLock'[call.doc] = c /\ call.pages \cap queue[call.doc] = {}
  PROVE  ReviewInduction'
<1>1. ReviewTypeOK
  BY DEF ReviewInduction, PagesInv
<1>2. calls'[c] = call /\ \A x \in Calls \ {c} : calls'[x] = calls[x]
  BY <1>1 DEF ReviewTypeOK
<1>3. \A x \in Calls \ {c} : calls[x].op # "none" => calls[x].doc \in Documents
  BY <1>1, CallAt
<1>4. ReviewTypeOK'
  <2>1. calls' \in [Calls -> CallRecords]
    BY <1>1 DEF ReviewTypeOK
  <2>2. \A x \in Calls : WellFormed(calls'[x], queue')
    BY <1>1, <1>2 DEF ReviewTypeOK
  <2>3. QED
    BY <1>1, <2>1, <2>2 DEF ReviewTypeOK, LocksKept
<1>5. UploadFound'
  <2>1. ASSUME NEW x \in Calls
        PROVE  LET d == calls'[x].doc
               IN  /\ calls'[x].op \in {"save", "stage"} /\ calls'[x].at \in {"check", "insert"}
                        => advisory'[d] = x
                   /\ calls'[x].op = "save" /\ calls'[x].at = "insert" => queue[d] = NULL
                   /\ calls'[x].op = "stage" /\ calls'[x].at = "insert" /\ queue[d] = NULL
                        => documents[d] = NULL
    BY <1>2, <1>3 DEF ReviewInduction, UploadFound, IsAt, LocksKept
  <2>2. QED
    BY <2>1 DEF UploadFound, IsAt
<1>6. ReviewerFound'
  <2>1. ASSUME NEW x \in Calls, calls'[x].op = "publish", calls'[x].at = "write"
        PROVE  rowLock'[calls'[x].doc] = x /\ calls'[x].pages \cap queue[calls'[x].doc] = {}
    BY <1>2, <1>3, <2>1 DEF ReviewInduction, ReviewerFound, IsAt, LocksKept
  <2>2. QED
    BY <2>1 DEF ReviewerFound, IsAt
<1>7. OneWayIn' /\ SearchableIsApproved' /\ StatusTellsPages' /\ NothingLeft'
  BY DEF ReviewInduction, PagesInv, OneWayIn, SearchableIsApproved, StatusTellsPages, NothingLeft, Searchable
<1>8. QED
  BY <1>4, <1>5, <1>6, <1>7 DEF ReviewInduction, PagesInv

LEMMA RollbackStep ==
  ASSUME ReviewInduction, NEW c \in Calls, Rollback(c)
  PROVE  ReviewInduction'
<1>1. ReviewTypeOK
  BY DEF ReviewInduction, PagesInv
<1>2. LocksKept(c) /\ calls' = [calls EXCEPT ![c] = Idle] /\ UNCHANGED <<queue, documents, chunks, events>>
  BY <1>1, EndKeepsLocks DEF Rollback, EndTransaction
<1>3. QED
  BY <1>2, IdleType, QuietStep

\* Requests, and the steps that take locks and look into the tables.
LEMMA BeforeTheWrite ==
  ASSUME ReviewInduction, NEW c \in Calls,
         \/ \E d \in Documents : Upload(c, d) \/ \E pages \in SUBSET Pages : Publish(c, d, pages)
         \/ BeginUpload(c) \/ CheckOtherTable(c) \/ LockReview(c) \/ Die(c)
  PROVE  ReviewInduction'
<1>1. ReviewTypeOK
  BY DEF ReviewInduction, PagesInv
<1>2. UNCHANGED <<advisory, rowLock>> => LocksKept(c)
  BY <1>1 DEF LocksKept, ReviewTypeOK
<1>3. ASSUME NEW d \in Documents, Upload(c, d) PROVE ReviewInduction'
  <2>1. PICK op \in {"save", "stage"} :
          /\ op = "save" => TextPages[d] = Pages
          /\ Enter(c, [Idle EXCEPT !.op = op, !.at = "begin", !.doc = d])
    BY <1>3 DEF Upload
  <2> DEFINE call == [Idle EXCEPT !.op = op, !.at = "begin", !.doc = d]
  <2>2. call \in CallRecords /\ call.op = op /\ call.at = "begin" /\ call.doc = d
    BY DEF Idle, CallRecords
  <2>3. WellFormed(call, queue)
    BY <2>1, <2>2 DEF WellFormed
  <2>4. QED
    BY <1>2, <2>1, <2>2, <2>3, QuietStep DEF Enter
<1>4. ASSUME NEW d \in Documents, NEW pages \in SUBSET Pages, Publish(c, d, pages) PROVE ReviewInduction'
  <2> DEFINE call == [Idle EXCEPT !.op = "publish", !.at = "begin", !.doc = d, !.pages = pages]
  <2>1. /\ call \in CallRecords /\ call.op = "publish" /\ call.at = "begin"
        /\ call.doc = d /\ call.pages = pages
    BY DEF Idle, CallRecords
  <2>2. WellFormed(call, queue)
    BY <1>4, <2>1 DEF Publish, WellFormed
  <2>3. QED
    BY <1>2, <1>4, <2>1, <2>2, QuietStep DEF Publish, Enter
<1>5. CASE BeginUpload(c)
  <2> DEFINE call == [calls[c] EXCEPT !.at = "check"]
             d == calls[c].doc
  <2>1. d \in Documents /\ WellFormed(calls[c], queue) /\ calls[c].op \in {"save", "stage"}
    BY <1>1, <1>5, CallAt DEF BeginUpload
  <2>2. /\ calls' = [calls EXCEPT ![c] = call] /\ call \in CallRecords /\ call.at = "check"
        /\ call.op = calls[c].op /\ call.doc = d
    BY <1>1, <1>5, GotoPlace DEF BeginUpload
  <2>3. WellFormed(call, queue)
    BY <2>1, <2>2 DEF WellFormed
  <2>4. LocksKept(c) /\ advisory'[d] = c
    BY <1>1, <1>5, <2>1, NullAssumption DEF BeginUpload, LocksKept, ReviewTypeOK
  <2>5. QED
    BY <1>5, <2>1, <2>2, <2>3, <2>4, QuietStep DEF BeginUpload
<1>6. CASE CheckOtherTable(c)
  <2> DEFINE call == [calls[c] EXCEPT !.at = "insert"]
             d == calls[c].doc
  <2>1. CASE Rollback(c)
    BY <2>1, RollbackStep
  <2>2. CASE ~Rollback(c)
    <3>1. calls[c].op \in {"save", "stage"} /\ d \in Documents /\ WellFormed(calls[c], queue) /\ advisory[d] = c
      <4>1. calls[c].op # "none" /\ calls[c].op # "publish"
        BY <1>1, <1>6 DEF CheckOtherTable, ReviewTypeOK, WellFormed, Idle
      <4>2. QED
        BY <1>1, <1>6, <4>1, CallAt DEF CheckOtherTable, CallRecords, ReviewInduction, UploadFound
    <3>2. /\ Goto(c, "insert") /\ UNCHANGED <<queue, documents, chunks, events, advisory, rowLock>>
          /\ calls[c].op = "save" => queue[d] = NULL
          /\ calls[c].op = "stage" => documents[d] = NULL
      BY <1>6, <2>2, <3>1 DEF CheckOtherTable
    <3>3. /\ calls' = [calls EXCEPT ![c] = call] /\ call \in CallRecords /\ call.at = "insert"
          /\ call.op = calls[c].op /\ call.doc = d
      BY <1>1, <3>2, GotoPlace
    <3>4. WellFormed(call, queue)
      BY <3>1, <3>3 DEF WellFormed
    <3>5. QED
      BY <1>2, <3>1, <3>2, <3>3, <3>4, QuietStep
  <2>3. QED
    BY <2>1, <2>2
<1>7. CASE LockReview(c)
  <2> DEFINE call == [calls[c] EXCEPT !.at = "write"]
             d == calls[c].doc
  <2>1. CASE Rollback(c)
    BY <2>1, RollbackStep
  <2>2. CASE ~Rollback(c)
    <3>1. calls[c].op = "publish" /\ d \in Documents /\ WellFormed(calls[c], queue)
      BY <1>1, <1>7, CallAt DEF LockReview, IsAt
    <3>2. /\ rowLock[d] = NULL /\ rowLock' = [rowLock EXCEPT ![d] = c] /\ Goto(c, "write")
          /\ calls[c].pages \cap queue[d] = {}
          /\ UNCHANGED <<queue, documents, chunks, events, advisory>>
      BY <1>7, <2>2 DEF LockReview
    <3>3. /\ calls' = [calls EXCEPT ![c] = call] /\ call \in CallRecords /\ call.at = "write"
          /\ call.op = "publish" /\ call.doc = d /\ call.pages = calls[c].pages
      BY <1>1, <3>1, <3>2, GotoPlace
    <3>4. WellFormed(call, queue)
      BY <3>1, <3>3 DEF WellFormed
    <3>5. LocksKept(c) /\ rowLock'[d] = c
      BY <1>1, <3>1, <3>2, NullAssumption DEF LocksKept, ReviewTypeOK
    <3>6. QED
      BY <3>2, <3>3, <3>4, <3>5, QuietStep
  <2>3. QED
    BY <2>1, <2>2
<1>8. CASE Die(c)
  BY <1>8, RollbackStep DEF Die
<1>9. QED
  BY <1>3, <1>4, <1>5, <1>6, <1>7, <1>8

----------------------------------------------------------------------------
(* The three commits.  A commit changes one document, whose lock no other  *)
(* call holds.                                                             *)

\* What the types and the others' locks are after a commit of tables that
\* have their types, where no document leaves the queue.
LEMMA CommitTypes ==
  ASSUME ReviewTypeOK, NEW c \in Calls, EndTransaction(c),
         queue' \in [Documents -> (SUBSET Pages) \cup {NULL}],
         documents' \in [Documents -> Rows \cup {NULL}],
         chunks' \in [Documents -> SUBSET Pages],
         events' \in [Documents -> SUBSET SUBSET Pages],
         \A d \in Documents : queue[d] # NULL => queue'[d] # NULL
  PROVE  /\ ReviewTypeOK' /\ LocksKept(c)
         /\ calls'[c] = Idle /\ \A x \in Calls \ {c} : calls'[x] = calls[x]
<1>1. LocksKept(c)
  BY EndKeepsLocks
<1>2. calls' \in [Calls -> CallRecords] /\ calls'[c] = Idle /\ \A x \in Calls \ {c} : calls'[x] = calls[x]
  BY IdleType DEF EndTransaction, ReviewTypeOK
<1>3. ASSUME NEW x \in Calls PROVE WellFormed(calls'[x], queue')
  <2>1. CASE x = c
    BY <1>2, <2>1, IdleType
  <2>2. CASE x # c
    BY <1>2, <2>2 DEF ReviewTypeOK, WellFormed
  <2>3. QED
    BY <2>1, <2>2
<1>4. QED
  BY <1>1, <1>2, <1>3 DEF ReviewTypeOK, LocksKept

\* What the others know after a commit of the document d, if what they could
\* know of d was the lock's holder's alone.
LEMMA OthersKnow ==
  ASSUME ReviewInduction, NEW c \in Calls, LocksKept(c), NEW d \in Documents,
         calls'[c] = Idle, \A x \in Calls \ {c} : calls'[x] = calls[x],
         \A other \in Documents \ {d} :
           queue'[other] = queue[other] /\ documents'[other] = documents[other],
         \/ advisory[d] = c
         \/ queue[d] # NULL /\ queue'[d] # NULL,
         rowLock[d] = c \/ queue'[d] = queue[d] \/ queue[d] = NULL
  PROVE  UploadFound' /\ ReviewerFound'
<1>1. ReviewTypeOK
  BY DEF ReviewInduction, PagesInv
<1>2. \A x \in Calls \ {c} : calls[x].op # "none" => calls[x].doc \in Documents /\ WellFormed(calls[x], queue)
  BY <1>1, CallAt
<1>3. ASSUME NEW x \in Calls
      PROVE  LET doc == calls'[x].doc
             IN  /\ calls'[x].op \in {"save", "stage"} /\ calls'[x].at \in {"check", "insert"}
                      => advisory'[doc] = x
                 /\ calls'[x].op = "save" /\ calls'[x].at = "insert" => queue'[doc] = NULL
                 /\ calls'[x].op = "stage" /\ calls'[x].at = "insert" /\ queue'[doc] = NULL
                      => documents'[doc] = NULL
  <2>1. CASE x = c
    BY <2>1, IdleType
  <2>2. CASE x # c
    <3>1. calls'[x] = calls[x]
      BY <2>2
    <3>2. CASE calls[x].op \in {"save", "stage"} /\ calls[x].at \in {"check", "insert"}
      <4>1. calls[x].doc \in Documents /\ advisory[calls[x].doc] = x
        BY <1>2, <2>2, <3>2 DEF ReviewInduction, UploadFound
      <4>2. advisory'[calls[x].doc] = x
        BY <2>2, <4>1 DEF LocksKept
      <4>3. QED
        BY <2>2, <3>1, <4>1, <4>2 DEF ReviewInduction, UploadFound, IsAt
    <3>3. QED
      BY <3>1, <3>2
  <2>3. QED
    BY <2>1, <2>2
<1>4. ASSUME NEW x \in Calls, calls'[x].op = "publish", calls'[x].at = "write"
      PROVE  rowLock'[calls'[x].doc] = x /\ calls'[x].pages \cap queue'[calls'[x].doc] = {}
  <2>1. x # c /\ calls'[x] = calls[x]
    BY <1>4, IdleType
  <2>2. /\ calls[x].doc \in Documents /\ queue[calls[x].doc] # NULL
        /\ rowLock[calls[x].doc] = x /\ calls[x].pages \cap queue[calls[x].doc] = {}
    BY <1>2, <1>4, <2>1 DEF ReviewInduction, ReviewerFound, IsAt, WellFormed
  <2>3. rowLock'[calls[x].doc] = x
    BY <2>1, <2>2 DEF LocksKept
  <2>4. QED
    BY <2>1, <2>2, <2>3
<1>5. QED
  BY <1>3, <1>4 DEF UploadFound, ReviewerFound, IsAt

\* The tables say nothing new of the documents that were not written.
LEMMA TablesStep ==
  ASSUME ReviewInduction, NEW d \in Documents,
         \A other \in Documents \ {d} :
           /\ queue'[other] = queue[other] /\ documents'[other] = documents[other]
           /\ chunks'[other] = chunks[other] /\ events'[other] = events[other],
         queue'[d] # NULL /\ documents'[d] # NULL => documents'[d].reviewed,
         queue'[d] # NULL
           => /\ (IF documents'[d] = NULL THEN {} ELSE chunks'[d]) = queue'[d]
              /\ UNION events'[d] = queue'[d]
              /\ \A e, f \in events'[d] : e # f => e \cap f = {},
         documents'[d] # NULL => (documents'[d].status = "published" <=> chunks'[d] = Pages),
         documents'[d] = NULL => chunks'[d] = {},
         queue'[d] = NULL => events'[d] = {} /\ (documents'[d] # NULL => ~documents'[d].reviewed)
  PROVE  OneWayIn' /\ SearchableIsApproved' /\ StatusTellsPages' /\ NothingLeft'
<1>1. OneWayIn'
  BY DEF ReviewInduction, PagesInv, OneWayIn
<1>2. SearchableIsApproved'
  <2>1. SUFFICES ASSUME NEW other \in Documents, queue'[other] # NULL
                 PROVE  /\ Searchable(other)' = queue'[other]
                        /\ UNION events'[other] = queue'[other]
                        /\ \A e, f \in events'[other] : e # f => e \cap f = {}
    BY DEF SearchableIsApproved
  <2>2. CASE other = d
    BY <2>1, <2>2 DEF Searchable
  <2>3. CASE other # d
    <3>1. /\ Searchable(other) = queue[other] /\ UNION events[other] = queue[other]
          /\ \A e, f \in events[other] : e # f => e \cap f = {}
      <4>1. queue[other] # NULL
        BY <2>1, <2>3
      <4>2. SearchableIsApproved
        BY DEF ReviewInduction, PagesInv
      <4>3. QED
        BY <4>1, <4>2 DEF SearchableIsApproved
    <3>2. QED
      BY <2>3, <3>1 DEF Searchable
  <2>4. QED
    BY <2>2, <2>3
<1>3. StatusTellsPages'
  BY DEF ReviewInduction, PagesInv, StatusTellsPages, Searchable
<1>4. NothingLeft'
  BY DEF ReviewInduction, NothingLeft
<1>5. QED
  BY <1>1, <1>2, <1>3, <1>4

LEMMA SaveStep ==
  ASSUME ReviewInduction, NEW c \in Calls, SaveDocument(c)
  PROVE  ReviewInduction'
<1>1. ReviewTypeOK
  BY DEF ReviewInduction, PagesInv
<1>2. PICK d \in Documents : d = calls[c].doc /\ calls[c].op = "save" /\ calls[c].at = "insert"
                             /\ WellFormed(calls[c], queue)
  BY <1>1, CallAt DEF SaveDocument, IsAt
<1>3. advisory[d] = c /\ queue[d] = NULL /\ TextPages[d] = Pages
  BY <1>2 DEF ReviewInduction, UploadFound, IsAt, WellFormed
<1>4. CASE Rollback(c)
  BY <1>4, RollbackStep
<1>5. CASE ~Rollback(c)
  <2> DEFINE row == [status |-> "published", reviewed |-> FALSE]
  <2>1. /\ documents[d] = NULL /\ EndTransaction(c) /\ queue' = queue /\ events' = events
        /\ documents' = [documents EXCEPT ![d] = row]
        /\ chunks' = [chunks EXCEPT ![d] = @ \cup TextPages[d]]
    BY <1>2, <1>5 DEF SaveDocument
  <2>2. row \in Rows /\ row # NULL /\ row.status = "published" /\ ~row.reviewed
    <3>1. row \in Rows /\ row.status = "published" /\ ~row.reviewed
      BY DEF Rows, Statuses
    <3>2. QED
      BY <3>1, NullAssumption
  <2>3. /\ documents'[d] = row /\ chunks'[d] = Pages
        /\ \A other \in Documents \ {d} :
             documents'[other] = documents[other] /\ chunks'[other] = chunks[other]
    BY <1>1, <1>3, <2>1 DEF ReviewTypeOK, ReviewInduction, NothingLeft
  <2>4. documents' \in [Documents -> Rows \cup {NULL}] /\ chunks' \in [Documents -> SUBSET Pages]
    BY <1>1, <1>3, <2>1, <2>2 DEF ReviewTypeOK
  <2>5. /\ ReviewTypeOK' /\ LocksKept(c)
        /\ calls'[c] = Idle /\ \A x \in Calls \ {c} : calls'[x] = calls[x]
    BY <1>1, <2>1, <2>4, CommitTypes DEF ReviewTypeOK
  <2>6. UploadFound' /\ ReviewerFound'
    BY <1>3, <2>1, <2>3, <2>5, OthersKnow
  <2>7. events[d] = {}
    BY <1>3 DEF ReviewInduction, NothingLeft
  <2>8. OneWayIn' /\ SearchableIsApproved' /\ StatusTellsPages' /\ NothingLeft'
    <3> HIDE DEF row
    <3>1. /\ queue'[d] = NULL /\ documents'[d] # NULL /\ ~documents'[d].reviewed
          /\ documents'[d].status = "published" /\ chunks'[d] = Pages /\ events'[d] = {}
      BY <1>3, <2>1, <2>2, <2>3, <2>7
    <3>2. \A other \in Documents \ {d} :
             /\ queue'[other] = queue[other] /\ documents'[other] = documents[other]
             /\ chunks'[other] = chunks[other] /\ events'[other] = events[other]
      BY <2>1, <2>3
    <3>3. QED
      BY <3>1, <3>2, TablesStep
  <2>9. QED
    BY <2>5, <2>6, <2>8 DEF ReviewInduction, PagesInv
<1>6. QED
  BY <1>4, <1>5

LEMMA StageStep ==
  ASSUME ReviewInduction, NEW c \in Calls, StageDocument(c)
  PROVE  ReviewInduction'
<1>1. ReviewTypeOK
  BY DEF ReviewInduction, PagesInv
<1>2. PICK d \in Documents : d = calls[c].doc /\ calls[c].op = "stage" /\ calls[c].at = "insert"
  BY <1>1, CallAt DEF StageDocument, IsAt
<1>3. advisory[d] = c /\ (queue[d] = NULL => documents[d] = NULL)
  BY <1>2 DEF ReviewInduction, UploadFound, IsAt
<1>4. CASE Rollback(c)
  BY <1>4, RollbackStep
<1>5. CASE ~Rollback(c)
  <2>1. /\ queue[d] = NULL /\ documents[d] = NULL /\ EndTransaction(c)
        /\ queue' = [queue EXCEPT ![d] = {}]
        /\ documents' = documents /\ chunks' = chunks /\ events' = events
    BY <1>2, <1>3, <1>5 DEF StageDocument
  <2>2. /\ queue'[d] = {} /\ {} # NULL
        /\ \A other \in Documents \ {d} : queue'[other] = queue[other]
    BY <1>1, <2>1, NullAssumption DEF ReviewTypeOK
  <2>3. queue' \in [Documents -> (SUBSET Pages) \cup {NULL}]
    BY <1>1, <2>1 DEF ReviewTypeOK
  <2>4. \A other \in Documents : queue[other] # NULL => queue'[other] # NULL
    BY <2>2
  <2>5. /\ ReviewTypeOK' /\ LocksKept(c)
        /\ calls'[c] = Idle /\ \A x \in Calls \ {c} : calls'[x] = calls[x]
    BY <1>1, <2>1, <2>3, <2>4, CommitTypes DEF ReviewTypeOK
  <2>6. UploadFound' /\ ReviewerFound'
    BY <1>3, <2>1, <2>2, <2>5, OthersKnow
  <2>7. events[d] = {} /\ chunks[d] = {}
    BY <2>1 DEF ReviewInduction, NothingLeft
  <2>8. OneWayIn' /\ SearchableIsApproved' /\ StatusTellsPages' /\ NothingLeft'
    BY <2>1, <2>2, <2>7, TablesStep
  <2>9. QED
    BY <2>5, <2>6, <2>8 DEF ReviewInduction, PagesInv
<1>6. QED
  BY <1>4, <1>5

LEMMA PublishStep ==
  ASSUME ReviewInduction, NEW c \in Calls, PublishPages(c)
  PROVE  ReviewInduction'
<1>1. ReviewTypeOK
  BY DEF ReviewInduction, PagesInv
<1>2. PICK d \in Documents :
        /\ d = calls[c].doc /\ calls[c].op = "publish" /\ calls[c].at = "write"
        /\ calls[c] \in CallRecords /\ WellFormed(calls[c], queue)
  BY <1>1, CallAt DEF PublishPages, IsAt
<1> DEFINE pages == calls[c].pages
<1>3. rowLock[d] = c /\ pages \cap queue[d] = {} /\ queue[d] # NULL /\ pages \in SUBSET Pages
  BY <1>2 DEF ReviewInduction, ReviewerFound, IsAt, WellFormed, CallRecords
<1>4. CASE Rollback(c)
  BY <1>4, RollbackStep
<1>5. CASE ~Rollback(c)
  <2> DEFINE approved == queue[d] \cup pages
             row == [status |-> IF approved = Pages THEN "published" ELSE "partial_published",
                     reviewed |-> TRUE]
  <2>1. /\ EndTransaction(c)
        /\ documents' = [documents EXCEPT ![d] = row]
        /\ chunks' = [chunks EXCEPT ![d] = @ \cup pages]
        /\ queue' = [queue EXCEPT ![d] = approved]
        /\ events' = [events EXCEPT ![d] = @ \cup {pages}]
    BY <1>2, <1>5 DEF PublishPages
  <2>2. /\ row \in Rows /\ row # NULL /\ row.reviewed
        /\ row.status = "published" <=> approved = Pages
    <3>1. row \in Rows
      BY DEF Rows, Statuses
    <3>2. row.reviewed /\ (row.status = "published" <=> approved = Pages)
      OBVIOUS
    <3>3. QED
      BY <3>1, <3>2, NullAssumption
  <2>3. queue[d] \in SUBSET Pages /\ approved \in SUBSET Pages /\ approved # NULL
    BY <1>1, <1>3, NullAssumption DEF ReviewTypeOK
  <2>4. chunks[d] = queue[d] /\ UNION events[d] = queue[d]
        /\ \A e, f \in events[d] : e # f => e \cap f = {}
    BY <1>3 DEF ReviewInduction, PagesInv, SearchableIsApproved, NothingLeft, Searchable
  <2>5. /\ documents'[d] = row /\ chunks'[d] = approved /\ queue'[d] = approved
        /\ events'[d] = events[d] \cup {pages}
        /\ \A other \in Documents \ {d} :
             /\ queue'[other] = queue[other] /\ documents'[other] = documents[other]
             /\ chunks'[other] = chunks[other] /\ events'[other] = events[other]
    BY <1>1, <2>1, <2>4 DEF ReviewTypeOK
  <2>6. /\ documents' \in [Documents -> Rows \cup {NULL}]
        /\ chunks' \in [Documents -> SUBSET Pages]
        /\ queue' \in [Documents -> (SUBSET Pages) \cup {NULL}]
    BY <1>1, <1>3, <2>1, <2>2, <2>3 DEF ReviewTypeOK
  <2>7. events' \in [Documents -> SUBSET SUBSET Pages]
    BY <1>1, <1>3, <2>1 DEF ReviewTypeOK
  <2>8. \A other \in Documents : queue[other] # NULL => queue'[other] # NULL
    BY <2>3, <2>5
  <2>9. /\ ReviewTypeOK' /\ LocksKept(c)
        /\ calls'[c] = Idle /\ \A x \in Calls \ {c} : calls'[x] = calls[x]
    BY <1>1, <2>1, <2>6, <2>7, <2>8, CommitTypes
  <2>10. UploadFound' /\ ReviewerFound'
    BY <1>3, <2>3, <2>5, <2>9, OthersKnow
  <2>11. UNION events'[d] = approved
    BY <2>4, <2>5
  <2>12. \A e, f \in events'[d] : e # f => e \cap f = {}
    <3>1. \A e \in events[d] : e \subseteq queue[d]
      BY <2>4
    <3>2. QED
      BY <1>3, <2>4, <2>5, <3>1
  <2>13. OneWayIn' /\ SearchableIsApproved' /\ StatusTellsPages' /\ NothingLeft'
    <3> HIDE DEF row
    <3>1. /\ queue'[d] = approved /\ queue'[d] # NULL /\ documents'[d] # NULL /\ documents'[d].reviewed
          /\ documents'[d].status = "published" <=> chunks'[d] = Pages
          /\ chunks'[d] = queue'[d] /\ UNION events'[d] = queue'[d]
      BY <2>2, <2>3, <2>5, <2>11
    <3>2. QED
      BY <2>5, <2>12, <3>1, TablesStep
  <2>14. QED
    BY <2>9, <2>10, <2>13 DEF ReviewInduction, PagesInv
<1>6. QED
  BY <1>4, <1>5

----------------------------------------------------------------------------
(* The theorems.                                                           *)

\* The inductive invariant: what search shows, and what each call under way
\* knows of it.
THEOREM ReviewInvariant == Spec => []ReviewInduction
<1>1. Init => ReviewInduction
  <2>1. SUFFICES ASSUME Init PROVE ReviewInduction
    OBVIOUS
  <2>2. ReviewTypeOK
    BY <2>1, IdleType DEF Init, ReviewTypeOK
  <2>3. UploadFound /\ ReviewerFound
    BY <2>1, IdleType DEF Init, UploadFound, ReviewerFound, IsAt
  <2>4. OneWayIn /\ SearchableIsApproved /\ StatusTellsPages /\ NothingLeft
    BY <2>1 DEF Init, OneWayIn, SearchableIsApproved, StatusTellsPages, NothingLeft
  <2>5. QED
    BY <2>2, <2>3, <2>4 DEF ReviewInduction, PagesInv
<1>2. ReviewInduction /\ [Next]_vars => ReviewInduction'
  <2>1. SUFFICES ASSUME ReviewInduction, [Next]_vars PROVE ReviewInduction'
    OBVIOUS
  <2>2. CASE UNCHANGED vars
    BY <2>1, <2>2 DEF vars, ReviewInduction, PagesInv, ReviewTypeOK, OneWayIn, SearchableIsApproved,
                      StatusTellsPages, UploadFound, ReviewerFound, NothingLeft, Searchable, IsAt
  <2>3. CASE Next
    BY <2>1, <2>3, BeforeTheWrite, SaveStep, StageStep, PublishStep DEF Next
  <2>4. QED
    BY <2>1, <2>2, <2>3
<1>3. QED
  BY <1>1, <1>2, PTL DEF Spec

\* An id goes one way in, search finds the approved pages, each with one
\* receipt, and the status tells whether they are all.
THEOREM SearchIsApproved == Spec => []PagesInv
<1>1. ReviewInduction => PagesInv
  BY DEF ReviewInduction
<1>2. QED
  BY <1>1, ReviewInvariant, PTL

----------------------------------------------------------------------------
(* KnowledgeIngest: the store in memory.                                   *)

LEMMA PagesOfPDF ==
  ASSUME NEW pdf \in PDFs
  PROVE  /\ pdf # <<>> /\ Len(pdf) \in 1 .. MaxPages
         /\ DOMAIN pdf = 1 .. Len(pdf) /\ DOMAIN pdf \subseteq 1 .. MaxPages
<1>1. PICK n \in 1 .. MaxPages : pdf \in [1 .. n -> PageKinds]
  BY DEF PDFs
<1>2. pdf \in Seq(PageKinds) /\ Len(pdf) = n /\ DOMAIN pdf = 1 .. n
  BY <1>1, PagesBound
<1>3. QED
  BY <1>2, PagesBound

\* The pages of a PDF that needs no review all have chunks.
LEMMA ReadyPages ==
  ASSUME NEW pdf, Ready(pdf)
  PROVE  DOMAIN pdf = Chunked(pdf) /\ \A p \in DOMAIN pdf : Validated(pdf, p)
BY DEF Ready, Chunked, Validated

\* Indexing finds the pages once more, and takes none away.
LEMMA IndexAdds ==
  ASSUME IngestTypeOK, NEW d \in Ids, NEW pages \in SUBSET (1 .. MaxPages), Index(d, pages)
  PROVE  /\ indexed' \in [Ids -> [1 .. MaxPages -> Nat]]
         /\ \A e \in Ids \ {d} : indexed'[e] = indexed[e]
         /\ \A p \in 1 .. MaxPages :
              indexed'[d][p] = indexed[d][p] + (IF p \in pages THEN 1 ELSE 0)
         /\ \A e \in Ids : \A p \in 1 .. MaxPages : indexed[e][p] > 0 => indexed'[e][p] > 0
         /\ \A p \in pages : indexed'[d][p] > 0
<1>1. indexed \in [Ids -> [1 .. MaxPages -> Nat]]
  BY DEF IngestTypeOK
<1>2. indexed' = [indexed EXCEPT ![d] =
                    [p \in 1 .. MaxPages |-> indexed[d][p] + (IF p \in pages THEN 1 ELSE 0)]]
  BY DEF Index
<1>3. [p \in 1 .. MaxPages |-> indexed[d][p] + (IF p \in pages THEN 1 ELSE 0)] \in [1 .. MaxPages -> Nat]
  <2>1. \A p \in 1 .. MaxPages : indexed[d][p] \in Nat
    BY <1>1
  <2>2. \A p \in 1 .. MaxPages : indexed[d][p] + (IF p \in pages THEN 1 ELSE 0) \in Nat
    BY <2>1
  <2>3. QED
    BY <2>2
<1>4. /\ indexed' \in [Ids -> [1 .. MaxPages -> Nat]]
      /\ \A e \in Ids \ {d} : indexed'[e] = indexed[e]
      /\ \A p \in 1 .. MaxPages : indexed'[d][p] = indexed[d][p] + (IF p \in pages THEN 1 ELSE 0)
  BY <1>1, <1>2, <1>3
<1>5. \A e \in Ids : \A p \in 1 .. MaxPages : indexed[e][p] \in Nat
  BY <1>1
<1>6. \A n \in Nat : n + 1 > 0 /\ (n > 0 => n + 0 > 0)
  OBVIOUS
<1>7. QED
  BY <1>4, <1>5, <1>6

LEMMA IndexUploadedStep ==
  ASSUME IngestInduction, NEW d \in Ids, NEW pdf \in PDFs, IndexUploadedDocument(d, pdf)
  PROVE  IngestInduction'
<1>1. /\ Ready(pdf) /\ pending[d] = <<>> /\ Index(d, Chunked(pdf))
      /\ live' = [live EXCEPT ![d] = pdf] /\ UNCHANGED <<pending, approvals>>
  BY DEF IndexUploadedDocument
<1>2. Chunked(pdf) = DOMAIN pdf /\ Chunked(pdf) \subseteq 1 .. MaxPages
  BY <1>1, ReadyPages, PagesOfPDF
<1>3. /\ indexed' \in [Ids -> [1 .. MaxPages -> Nat]]
      /\ \A e \in Ids \ {d} : indexed'[e] = indexed[e]
      /\ \A e \in Ids : \A p \in 1 .. MaxPages : indexed[e][p] > 0 => indexed'[e][p] > 0
      /\ \A p \in Chunked(pdf) : indexed'[d][p] > 0
  BY <1>1, <1>2, IndexAdds DEF IngestInduction
<1>4. IngestTypeOK'
  BY <1>1, <1>3 DEF IngestInduction, IngestTypeOK
<1>5. ApprovedFoundOnce'
  BY <1>1, <1>3 DEF IngestInduction, ApprovedFoundOnce
<1>6. \A e \in Ids : live'[e] = IF e = d THEN pdf ELSE live[e]
  BY <1>1 DEF IngestInduction, IngestTypeOK
<1>7. ASSUME NEW e \in Ids, live'[e] # <<>>
      PROVE  Ready(live'[e]) /\ \A p \in DOMAIN live'[e] : indexed'[e][p] > 0
  <2>1. CASE e = d
    BY <1>1, <1>2, <1>3, <1>6, <2>1
  <2>2. CASE e # d
    BY <1>3, <1>6, <1>7, <2>2 DEF IngestInduction
  <2>3. QED
    BY <2>1, <2>2
<1>8. \A e \in Ids : pending'[e] = <<>> => approvals'[e] = {}
  BY <1>1 DEF IngestInduction
<1>9. QED
  BY <1>4, <1>5, <1>7, <1>8 DEF IngestInduction

\* No chunk of the id is there when its review begins.
LEMMA StageUploadedStep ==
  ASSUME IngestInduction, NEW d \in Ids, NEW pdf \in PDFs, StageUploadedDocument(d, pdf)
  PROVE  IngestInduction'
<1>1. /\ Unknown(d) /\ pending' = [pending EXCEPT ![d] = pdf]
      /\ UNCHANGED <<approvals, indexed, live>>
  BY DEF StageUploadedDocument
<1>2. pending[d] = <<>> /\ indexed[d] = [p \in 1 .. MaxPages |-> 0] /\ approvals[d] = {}
  BY <1>1, PrefixAssumption DEF Unknown, Unindexed, IngestInduction
<1>3. IngestTypeOK'
  BY <1>1 DEF IngestInduction, IngestTypeOK
<1>4. \A e \in Ids : pending'[e] = IF e = d THEN pdf ELSE pending[e]
  BY <1>1 DEF IngestInduction, IngestTypeOK
<1>5. ApprovedFoundOnce'
  BY <1>1, <1>2, <1>4 DEF IngestInduction, ApprovedFoundOnce
<1>6. QED
  BY <1>1, <1>3, <1>4, <1>5, PagesOfPDF DEF IngestInduction

\* A page is approved once, and only then indexed.
LEMMA PublishPendingStep ==
  ASSUME IngestInduction, NEW d \in Ids, NEW pages \in SUBSET (1 .. MaxPages),
         PublishPendingPages(d, pages)
  PROVE  IngestInduction'
<1>1. /\ pending[d] # <<>> /\ Index(d, pages) /\ UNCHANGED <<pending, live>>
      /\ \A p \in pages : p \notin approvals[d]
      /\ approvals' = [approvals EXCEPT ![d] = @ \cup pages]
  BY DEF PublishPendingPages
<1>2. /\ indexed' \in [Ids -> [1 .. MaxPages -> Nat]]
      /\ \A e \in Ids \ {d} : indexed'[e] = indexed[e]
      /\ \A p \in 1 .. MaxPages : indexed'[d][p] = indexed[d][p] + (IF p \in pages THEN 1 ELSE 0)
      /\ \A e \in Ids : \A p \in 1 .. MaxPages : indexed[e][p] > 0 => indexed'[e][p] > 0
  BY <1>1, IndexAdds DEF IngestInduction
<1>3. IngestTypeOK'
  BY <1>1, <1>2 DEF IngestInduction, IngestTypeOK
<1>4. \A e \in Ids : approvals'[e] = IF e = d THEN approvals[e] \cup pages ELSE approvals[e]
  BY <1>1 DEF IngestInduction, IngestTypeOK
<1>5. ASSUME NEW e \in Ids, pending'[e] # <<>>, NEW p \in 1 .. MaxPages
      PROVE  indexed'[e][p] = IF p \in approvals'[e] THEN 1 ELSE 0
  <2>1. indexed[e][p] = IF p \in approvals[e] THEN 1 ELSE 0
    BY <1>1, <1>5 DEF IngestInduction, ApprovedFoundOnce
  <2>2. CASE e = d
    <3>1. indexed'[e][p] = (IF p \in approvals[e] THEN 1 ELSE 0) + (IF p \in pages THEN 1 ELSE 0)
      BY <1>2, <2>1, <2>2
    <3>2. approvals'[e] = approvals[e] \cup pages /\ (p \in pages => p \notin approvals[e])
      BY <1>1, <1>4, <2>2
    <3>3. CASE p \in pages
      BY <3>1, <3>2, <3>3
    <3>4. CASE p \notin pages
      BY <3>1, <3>2, <3>4
    <3>5. QED
      BY <3>3, <3>4
  <2>3. CASE e # d
    BY <1>2, <1>4, <2>1, <2>3
  <2>4. QED
    BY <2>2, <2>3
<1>6. ASSUME NEW e \in Ids, live'[e] # <<>>
      PROVE  Ready(live'[e]) /\ \A p \in DOMAIN live'[e] : indexed'[e][p] > 0
  <2>1. live'[e] = live[e] /\ live[e] \in PDFs
    BY <1>1, <1>6 DEF IngestInduction, IngestTypeOK
  <2>2. QED
    BY <1>2, <1>6, <2>1, PagesOfPDF DEF IngestInduction
<1>7. \A e \in Ids : pending'[e] = <<>> => approvals'[e] = {}
  BY <1>1, <1>4 DEF IngestInduction
<1>8. QED
  BY <1>3, <1>5, <1>6, <1>7 DEF IngestInduction, ApprovedFoundOnce

LEMMA IngestStarts ==
  ASSUME NEW p0, NEW l0, NEW a0, NEW i0,
         p0 = [d \in Ids |-> <<>>], l0 = [d \in Ids |-> <<>>],
         a0 = [d \in Ids |-> {}], i0 = [d \in Ids |-> Unindexed]
  PROVE  /\ p0 \in [Ids -> PDFs \cup {<<>>}] /\ l0 \in [Ids -> PDFs \cup {<<>>}]
         /\ a0 \in [Ids -> SUBSET (1 .. MaxPages)]
         /\ i0 \in [Ids -> [1 .. MaxPages -> Nat]]
         /\ \A d \in Ids : p0[d] = <<>> /\ l0[d] = <<>> /\ a0[d] = {}
BY DEF Unindexed

\* Every step of the store in memory keeps the invariant.
THEOREM IngestInvariant == IngestSpec => []IngestInduction
<1>1. IngestInit => IngestInduction
  BY IngestStarts DEF IngestInit, IngestInduction, IngestTypeOK, ApprovedFoundOnce
<1>2. IngestInduction /\ Restart => IngestInduction'
  <2> SUFFICES ASSUME IngestInduction, Restart PROVE IngestInduction'
    OBVIOUS
  <2>1. /\ pending' = [d \in Ids |-> <<>>] /\ live' = [d \in Ids |-> <<>>]
        /\ approvals' = [d \in Ids |-> {}] /\ indexed' = [d \in Ids |-> Unindexed]
    BY DEF Restart
  <2>2. /\ pending' \in [Ids -> PDFs \cup {<<>>}] /\ live' \in [Ids -> PDFs \cup {<<>>}]
        /\ approvals' \in [Ids -> SUBSET (1 .. MaxPages)]
        /\ indexed' \in [Ids -> [1 .. MaxPages -> Nat]]
        /\ \A d \in Ids : pending'[d] = <<>> /\ live'[d] = <<>> /\ approvals'[d] = {}
    BY <2>1, IngestStarts
  <2>3. QED
    BY <2>2 DEF IngestInduction, IngestTypeOK, ApprovedFoundOnce
<1>3. IngestInduction /\ UNCHANGED ingestVars => IngestInduction'
  BY DEF ingestVars, IngestInduction, IngestTypeOK, ApprovedFoundOnce
<1>4. IngestInduction /\ [IngestNext]_ingestVars => IngestInduction'
  BY <1>2, <1>3, IndexUploadedStep, StageUploadedStep, PublishPendingStep DEF IngestNext
<1>5. QED
  BY <1>1, <1>4, PTL DEF IngestSpec

\* What search finds of a document under review are its approved pages, each
\* once; and a document that nobody reviewed is found as a whole, of clean
\* text, with nothing that goes on from one page to the next.
THEOREM IngestKept == IngestSpec => []IngestInv
<1>1. ASSUME IngestInduction, NEW d \in Ids, NEW p \in DOMAIN live[d]
      PROVE  /\ indexed[d][p] > 0
             /\ live[d][p].text /\ ~live[d][p].flagged
             /\ live[d][p].tail # "open" \/ p = Len(live[d])
             /\ live[d][p].tail = "table" /\ p < Len(live[d]) => live[d][p + 1].head # "table"
  <2>1. live[d] # <<>> /\ live[d] \in PDFs
    BY <1>1 DEF IngestInduction, IngestTypeOK
  <2>2. Ready(live[d]) /\ indexed[d][p] > 0
    BY <1>1, <2>1 DEF IngestInduction
  <2>3. live[d][p].text /\ ~live[d][p].flagged /\ ~Crosses(live[d], p)
    BY <2>2, ReadyPages DEF Validated
  <2>4. Len(live[d]) \in Nat /\ DOMAIN live[d] = 1 .. Len(live[d])
    BY <2>1, PagesOfPDF
  <2>5. p < Len(live[d]) => p + 1 \in DOMAIN live[d]
    BY <1>1, <2>4
  <2>6. p < Len(live[d]) => live[d][p + 1].text
    BY <2>2, <2>5, ReadyPages DEF Validated
  <2>7. p < Len(live[d]) \/ p = Len(live[d])
    BY <1>1, <2>4
  <2>8. p < Len(live[d]) =>
          live[d][p].tail # "open" /\ (live[d][p].tail = "table" => live[d][p + 1].head # "table")
    BY <2>3, <2>5, <2>6 DEF Crosses
  <2>9. QED
    BY <2>2, <2>3, <2>7, <2>8
<1>2. IngestInduction => IngestInv
  BY <1>1 DEF IngestInv, LiveAsAWhole, IngestInduction
<1>3. QED
  BY <1>2, IngestInvariant, PTL

----------------------------------------------------------------------------
(* Chunker: the chunks of a page.                                          *)

\* What \div says.
LEMMA Quotient ==
  ASSUME NEW a \in Int, NEW s \in Nat \ {0}
  PROVE  a \div s \in Int /\ s * (a \div s) <= a /\ a < s * (a \div s) + s
OBVIOUS

LEMMA Multiples ==
  ASSUME NEW a \in Int, NEW b \in Int, NEW s \in Nat, a <= b
  PROVE  s * a <= s * b
OBVIOUS

\* The windows of a line are in it, of the right size, and all of it.
AreWindows(w, begin, end, path) ==
  /\ w \in Seq(PieceRecords)
  /\ \A i \in DOMAIN w : /\ begin <= w[i].begin /\ w[i].end <= end /\ w[i].path = path
                         /\ w[i].end - w[i].begin \in 1 .. ChunkSize
  /\ \A p \in begin .. end - 1 : \E i \in DOMAIN w : w[i].begin <= p /\ p < w[i].end

LEMMA WindowsCover ==
  ASSUME NEW begin \in Nat, NEW end \in Nat, begin < end, NEW path \in SUBSET Nat
  PROVE  AreWindows(Windows(begin, end, path), begin, end, path)
<1> DEFINE step == ChunkSize - Overlap
           over == end - begin - ChunkSize
           q == IF end - begin <= ChunkSize THEN 0 ELSE (over + step - 1) \div step
           w == Windows(begin, end, path)
<1>1. step \in Nat \ {0} /\ step <= ChunkSize /\ ChunkSize \in Nat \ {0} /\ over \in Int
  BY ChunkAssumption
<1>2. q \in Nat /\ step * q < end - begin /\ end - begin <= step * q + ChunkSize
  <2>1. CASE end - begin <= ChunkSize
    BY <1>1, <2>1
  <2>2. CASE ~(end - begin <= ChunkSize)
    <3>1. q = (over + step - 1) \div step /\ over \in Nat \ {0} /\ over + step - 1 \in Int
      BY <1>1, <2>2
    <3> HIDE DEF q, over, step
    <3>2. q \in Int /\ step * q <= over + step - 1 /\ over + step - 1 < step * q + step
      BY <3>1, <1>1, Quotient
    <3>3. q \in Nat
      <4>1. SUFFICES ASSUME q <= -1 PROVE FALSE
        BY <3>2
      <4>2. step * q <= step * (-1)
        BY <4>1, <3>2, <1>1, Multiples
      <4>3. QED
        BY <4>2, <3>1, <3>2, <1>1
    <3>4. step * q \in Int
      BY <3>2, <1>1
    <3>5. QED
      BY <3>1, <3>2, <3>3, <3>4, <1>1 DEF over
  <2>3. QED
    BY <2>1, <2>2
<1>3. w = [n \in 1 .. 1 + q |-> Chunk(begin + (n - 1) * step, Lower(begin + (n - 1) * step + ChunkSize, end), path)]
  BY DEF Windows
<1> HIDE DEF q, step, w
<1>4. \A n \in 1 .. 1 + q : LET from == begin + (n - 1) * step
                            IN  from \in Nat /\ begin <= from /\ from < end
  <2>1. SUFFICES ASSUME NEW n \in 1 .. 1 + q
                 PROVE  /\ begin + (n - 1) * step \in Nat /\ begin <= begin + (n - 1) * step
                        /\ begin + (n - 1) * step < end
    OBVIOUS
  <2>2. n - 1 \in Nat /\ n - 1 <= q
    BY <1>2
  <2>3. step * (n - 1) <= step * q /\ (n - 1) * step = step * (n - 1) /\ step * (n - 1) \in Nat /\ step * q \in Nat
    BY <2>2, <1>1, <1>2, Multiples
  <2>4. QED
    BY <2>3, <1>2, <1>1
<1>5. \A n \in 1 .. 1 + q : /\ w[n] \in PieceRecords
                            /\ begin <= w[n].begin /\ w[n].end <= end /\ w[n].path = path
                            /\ w[n].end - w[n].begin \in 1 .. ChunkSize
  <2>1. SUFFICES ASSUME NEW n \in 1 .. 1 + q
                 PROVE  /\ w[n] \in PieceRecords
                        /\ begin <= w[n].begin /\ w[n].end <= end /\ w[n].path = path
                        /\ w[n].end - w[n].begin \in 1 .. ChunkSize
    OBVIOUS
  <2>2. PICK from \in Nat : from = begin + (n - 1) * step /\ begin <= from /\ from < end
    BY <1>4
  <2>3. w[n] = Chunk(from, Lower(from + ChunkSize, end), path)
    BY <1>3, <2>2
  <2>4. QED
    BY <2>2, <2>3, <1>1 DEF Chunk, Lower, PieceRecords
<1>6. DOMAIN w = 1 .. 1 + q /\ w \in Seq(PieceRecords)
  BY <1>3, <1>5, <1>2
<1>7. ASSUME NEW p \in begin .. end - 1
      PROVE  \E i \in DOMAIN w : w[i].begin <= p /\ p < w[i].end
  <2> DEFINE k == (p - begin) \div step
  <2>1. p - begin \in Nat /\ p \in Nat
    BY <1>7
  <2>2. k \in Int /\ step * k <= p - begin /\ p - begin < step * k + step
    BY <2>1, <1>1, Quotient
  <2> HIDE DEF k
  <2>3. k >= 0
    <3>1. SUFFICES ASSUME k <= -1 PROVE FALSE
      BY <2>2
    <3>2. step * k <= step * (-1)
      BY <3>1, <2>2, <1>1, Multiples
    <3>3. QED
      BY <3>2, <2>1, <2>2, <1>1
  <2>4. CASE k <= q
    <3>1. k + 1 \in 1 .. 1 + q /\ (k + 1) - 1 = k
      BY <2>2, <2>3, <2>4, <1>2
    <3>2. PICK from \in Nat : from = begin + k * step
      BY <3>1, <1>4
    <3>3. w[k + 1] = Chunk(from, Lower(from + ChunkSize, end), path)
      BY <3>1, <3>2, <1>3
    <3>4. k * step = step * k /\ step * k \in Int
      BY <2>2, <1>1
    <3>5. from <= p /\ p < from + ChunkSize /\ p < end
      BY <3>2, <3>4, <2>2, <1>1, <2>1
    <3>6. QED
      BY <3>1, <3>3, <3>5, <1>6, <1>1 DEF Chunk, Lower
  <2>5. CASE q < k
    <3>1. q + 1 \in 1 .. 1 + q /\ (q + 1) - 1 = q
      BY <1>2
    <3>2. PICK from \in Nat : from = begin + q * step
      BY <3>1, <1>4
    <3>3. w[q + 1] = Chunk(from, Lower(from + ChunkSize, end), path)
      BY <3>1, <3>2, <1>3
    <3>4. q * step = step * q /\ step * q \in Nat /\ step * q <= step * k /\ step * k \in Int
      BY <1>1, <1>2, <2>2, <2>5, Multiples
    <3>5. from <= p /\ p < from + ChunkSize /\ p < end
      BY <3>2, <3>4, <2>2, <1>2, <1>1, <2>1
    <3>6. w[q + 1].begin <= p /\ p < w[q + 1].end
      BY <3>3, <3>5, <1>1 DEF Chunk, Lower
    <3>7. QED
      BY <3>1, <3>6, <1>6
  <2>6. QED
    BY <2>2, <1>2, <2>4, <2>5
<1>8. QED
  BY <1>5, <1>6, <1>7 DEF AreWindows, w

\* The headings above line n of a page, as HeadingsAbove.
Above(page, n) ==
  {i \in 1 .. n : /\ page[i].heading > 0
                  /\ \A j \in i + 1 .. n : page[j].heading \notin 1 .. page[i].heading}

\* What is read later changes nothing above a line.
LEMMA AboveStays ==
  ASSUME NEW page \in Seq(LineRecords), NEW line \in LineRecords, NEW n \in 0 .. Len(page)
  PROVE  Above(Append(page, line), n) = Above(page, n)
<1>1. \A i \in 1 .. n : Append(page, line)[i] = page[i]
  OBVIOUS
<1>2. \A i \in 1 .. n : i + 1 .. n \subseteq 1 .. n
  OBVIOUS
<1>3. QED
  BY <1>1, <1>2 DEF Above

\* A heading ends those of its own level and below: OutlineAfter.
LEMMA AboveNext ==
  ASSUME NEW page \in Seq(LineRecords), NEW line \in LineRecords
  PROVE  LET n == Len(page) + 1
         IN  Above(Append(page, line), n) =
               IF line.heading > 0
               THEN {i \in Above(page, Len(page)) : page[i].heading < line.heading} \cup {n}
               ELSE Above(page, Len(page))
<1> DEFINE n == Len(page) + 1
           more == Append(page, line)
<1>1. /\ n \in Nat /\ Len(page) \in Nat /\ 1 .. n = (1 .. Len(page)) \cup {n} /\ n \notin 1 .. Len(page)
      /\ line.heading \in Nat /\ more[n] = line
      /\ \A i \in 1 .. Len(page) : more[i] = page[i] /\ page[i].heading \in Nat
  <2>1. \A i \in 1 .. Len(page) : page[i] \in LineRecords /\ more[i] = page[i]
    OBVIOUS
  <2>2. n \in Nat /\ Len(page) \in Nat /\ more[n] = line
    OBVIOUS
  <2>3. QED
    BY <2>1, <2>2 DEF LineRecords
<1>2. \A i \in 1 .. Len(page) : i + 1 .. n = (i + 1 .. Len(page)) \cup {n} /\ i + 1 .. Len(page) \subseteq 1 .. Len(page)
  BY <1>1
<1>3. n + 1 .. n = {}
  BY <1>1
<1> HIDE DEF n, more
<1>4. \A i \in 1 .. Len(page) : i \in Above(more, n) <=>
        i \in Above(page, Len(page)) /\ (line.heading > 0 => page[i].heading < line.heading)
  <2>1. SUFFICES ASSUME NEW i \in 1 .. Len(page)
                 PROVE  i \in Above(more, n) <=>
                          i \in Above(page, Len(page)) /\ (line.heading > 0 => page[i].heading < line.heading)
    OBVIOUS
  <2>2. i \in Above(more, n) <=>
          page[i].heading > 0 /\ \A j \in i + 1 .. n : more[j].heading \notin 1 .. page[i].heading
    BY <1>1 DEF Above
  <2>3. (\A j \in i + 1 .. n : more[j].heading \notin 1 .. page[i].heading) <=>
          /\ \A j \in i + 1 .. Len(page) : page[j].heading \notin 1 .. page[i].heading
          /\ line.heading \notin 1 .. page[i].heading
    BY <1>1, <1>2
  <2>4. line.heading \notin 1 .. page[i].heading <=> (line.heading > 0 => page[i].heading < line.heading)
    BY <1>1
  <2>5. QED
    BY <2>2, <2>3, <2>4 DEF Above
<1>5. n \in Above(more, n) <=> line.heading > 0
  BY <1>1, <1>3 DEF Above
<1>6. Above(more, n) \subseteq 1 .. n /\ Above(page, Len(page)) \subseteq 1 .. Len(page)
  BY DEF Above
<1>7. CASE line.heading > 0
  <2>1. \A i : i \in Above(more, n) <=> i \in {k \in Above(page, Len(page)) : page[k].heading < line.heading} \cup {n}
    BY <1>1, <1>4, <1>5, <1>6, <1>7
  <2>2. QED
    BY <2>1, <1>7 DEF n, more
<1>8. CASE ~(line.heading > 0)
  <2>1. \A i : i \in Above(more, n) <=> i \in Above(page, Len(page))
    BY <1>1, <1>4, <1>5, <1>6, <1>8
  <2>2. QED
    BY <2>1, <1>8 DEF n, more
<1>9. QED
  BY <1>7, <1>8

\* What the chunks of the lines of a page are, up to a bound.
Sound(parts, page, bound) ==
  /\ parts \in Seq(PieceRecords)
  /\ \A i \in DOMAIN parts : /\ parts[i].end <= bound
                              /\ parts[i].end - parts[i].begin \in 1 .. ChunkSize
  /\ \A i, j \in DOMAIN parts : i < j /\ parts[j].begin < parts[i].end =>
       \E n \in DOMAIN page : page[n].begin <= parts[i].begin /\ parts[j].end <= page[n].end
  /\ \A i \in DOMAIN parts, n \in DOMAIN page :
       page[n].begin < parts[i].end /\ parts[i].begin < page[n].end => parts[i].path = Above(page, n)

\* Chunks behind chunks.
LEMMA SoundBehind ==
  ASSUME NEW page, NEW first, NEW rest, NEW between \in Nat, NEW bound \in Nat,
         Sound(first, page, between), Sound(rest, page, bound), between <= bound,
         \A i \in DOMAIN rest : between <= rest[i].begin
  PROVE  Sound(first \o rest, page, bound)
<1> DEFINE all == first \o rest
           m == Len(first)
<1>1. /\ first \in Seq(PieceRecords) /\ rest \in Seq(PieceRecords) /\ all \in Seq(PieceRecords)
      /\ m \in Nat /\ Len(rest) \in Nat /\ Len(all) = m + Len(rest)
      /\ DOMAIN first = 1 .. m /\ DOMAIN rest = 1 .. Len(rest) /\ DOMAIN all = 1 .. m + Len(rest)
  BY DEF Sound
<1>2. \A i \in DOMAIN all : \/ i \in DOMAIN first /\ all[i] = first[i]
                            \/ i > m /\ i - m \in DOMAIN rest /\ all[i] = rest[i - m]
  BY <1>1
<1>3. /\ \A i \in DOMAIN first : first[i].begin \in Nat /\ first[i].end \in Nat
      /\ \A i \in DOMAIN rest : rest[i].begin \in Nat /\ rest[i].end \in Nat
  <2>1. /\ \A i \in DOMAIN first : first[i] \in PieceRecords
        /\ \A i \in DOMAIN rest : rest[i] \in PieceRecords
    BY <1>1
  <2>2. QED
    BY <2>1 DEF PieceRecords
<1> HIDE DEF all, m
<1>4. \A i \in DOMAIN all : all[i].end <= bound /\ all[i].end - all[i].begin \in 1 .. ChunkSize
  BY <1>2, <1>3 DEF Sound
<1>5. ASSUME NEW i \in DOMAIN all, NEW j \in DOMAIN all, i < j, all[j].begin < all[i].end
      PROVE  \E n \in DOMAIN page : page[n].begin <= all[i].begin /\ all[j].end <= page[n].end
  <2>1. CASE i \in DOMAIN first /\ all[i] = first[i] /\ j \in DOMAIN first /\ all[j] = first[j]
    BY <2>1, <1>5 DEF Sound
  <2>2. CASE i \in DOMAIN first /\ all[i] = first[i] /\ j - m \in DOMAIN rest /\ all[j] = rest[j - m]
    BY <2>2, <1>5, <1>3 DEF Sound
  <2>3. CASE i > m /\ i - m \in DOMAIN rest /\ all[i] = rest[i - m] /\ j - m \in DOMAIN rest /\ all[j] = rest[j - m]
    <3>1. i - m < j - m
      BY <1>1, <1>5
    <3>2. QED
      BY <3>1, <2>3, <1>5 DEF Sound
  <2>4. CASE i > m /\ j \in DOMAIN first
    BY <2>4, <1>1, <1>5
  <2>5. QED
    BY <1>2, <2>1, <2>2, <2>3, <2>4
<1>6. \A i \in DOMAIN all, n \in DOMAIN page :
        page[n].begin < all[i].end /\ all[i].begin < page[n].end => all[i].path = Above(page, n)
  BY <1>2 DEF Sound
<1>7. QED
  BY <1>1, <1>4, <1>5, <1>6 DEF Sound, all

\* A line behind the chunks changes nothing about them.
LEMMA SoundLater ==
  ASSUME NEW page \in Seq(LineRecords), NEW line \in LineRecords, NEW parts, NEW bound \in Nat,
         Sound(parts, page, bound), bound <= line.begin
  PROVE  Sound(parts, Append(page, line), bound)
<1> DEFINE more == Append(page, line)
<1>1. /\ DOMAIN page = 1 .. Len(page) /\ Len(page) \in Nat /\ DOMAIN more = 1 .. Len(page) + 1
      /\ \A n \in DOMAIN page : n \in DOMAIN more /\ more[n] = page[n] /\ n \in 0 .. Len(page)
      /\ more[Len(page) + 1] = line
  OBVIOUS
<1>2. \A n \in DOMAIN page : Above(more, n) = Above(page, n)
  BY <1>1, AboveStays
<1>3. \A i \in DOMAIN parts : parts[i].end \in Nat /\ parts[i].end <= line.begin
  <2>1. \A i \in DOMAIN parts : parts[i] \in PieceRecords /\ parts[i].end <= bound
    BY DEF Sound
  <2>2. QED
    BY <2>1 DEF PieceRecords, LineRecords
<1>4. \A n \in DOMAIN more : n \in DOMAIN page \/ more[n] = line
  BY <1>1
<1> HIDE DEF more
<1>5. \A i \in DOMAIN parts, n \in DOMAIN more :
        more[n].begin < parts[i].end /\ parts[i].begin < more[n].end => parts[i].path = Above(more, n)
  <2>1. \A i \in DOMAIN parts : ~(line.begin < parts[i].end)
    BY <1>3 DEF LineRecords
  <2>2. QED
    BY <2>1, <1>1, <1>2, <1>4 DEF Sound
<1>6. \A i, j \in DOMAIN parts : i < j /\ parts[j].begin < parts[i].end =>
        \E n \in DOMAIN more : more[n].begin <= parts[i].begin /\ parts[j].end <= more[n].end
  BY <1>1 DEF Sound
<1>7. QED
  BY <1>5, <1>6 DEF Sound, more

LEMMA JoinedSet ==
  ASSUME NEW first \in Seq(PieceRecords), NEW rest \in Seq(PieceRecords)
  PROVE  ToSet(first \o rest) = ToSet(first) \cup ToSet(rest)
<1> DEFINE all == first \o rest
           m == Len(first)
<1>1. /\ m \in Nat /\ Len(rest) \in Nat /\ DOMAIN all = 1 .. m + Len(rest)
      /\ DOMAIN first = 1 .. m /\ DOMAIN rest = 1 .. Len(rest)
  OBVIOUS
<1>2. \A i \in DOMAIN all : \/ i \in DOMAIN first /\ all[i] = first[i]
                            \/ i - m \in DOMAIN rest /\ all[i] = rest[i - m]
  BY <1>1
<1>3. /\ \A i \in DOMAIN first : i \in DOMAIN all /\ all[i] = first[i]
      /\ \A i \in DOMAIN rest : m + i \in DOMAIN all /\ all[m + i] = rest[i]
  BY <1>1
<1> HIDE DEF all, m
<1>4. ToSet(all) \subseteq ToSet(first) \cup ToSet(rest)
  BY <1>2 DEF ToSet
<1>5. ToSet(first) \subseteq ToSet(all) /\ ToSet(rest) \subseteq ToSet(all)
  BY <1>3 DEF ToSet
<1>6. QED
  BY <1>4, <1>5 DEF all

\* The chunks hold every line with text: NothingLost.
Covered(parts, page) ==
  \A n \in DOMAIN page : page[n].kind # "blank" =>
    \A p \in page[n].begin .. page[n].end - 1 : \E c \in ToSet(parts) : c.begin <= p /\ p < c.end

\* A page of lines grows by one that begins where it ends.
LEMMA CoveredNext ==
  ASSUME NEW page \in Seq(LineRecords), NEW line \in LineRecords, NEW parts, NEW more,
         Covered(parts, page),
         \A c \in ToSet(parts) : \E d \in ToSet(more) : d.begin <= c.begin /\ c.end <= d.end,
         ToSet(parts) \subseteq PieceRecords, ToSet(more) \subseteq PieceRecords,
         line.kind # "blank" =>
           \A p \in line.begin .. line.end - 1 : \E c \in ToSet(more) : c.begin <= p /\ p < c.end
  PROVE  Covered(more, Append(page, line))
<1> DEFINE long == Append(page, line)
<1>1. \A n \in DOMAIN long : (n \in DOMAIN page /\ long[n] = page[n]) \/ long[n] = line
  OBVIOUS
<1>2. \A n \in DOMAIN long : long[n] \in LineRecords
  OBVIOUS
<1> HIDE DEF long
<1>3. SUFFICES ASSUME NEW n \in DOMAIN long, long[n].kind # "blank",
                      NEW p \in long[n].begin .. long[n].end - 1
               PROVE  \E c \in ToSet(more) : c.begin <= p /\ p < c.end
  BY DEF Covered, long
<1>4. p \in Int
  BY <1>2, <1>3 DEF LineRecords
<1>5. CASE n \in DOMAIN page /\ long[n] = page[n]
  <2>1. PICK c \in ToSet(parts) : c.begin <= p /\ p < c.end
    BY <1>5, <1>3 DEF Covered
  <2>2. PICK d \in ToSet(more) : d.begin <= c.begin /\ c.end <= d.end
    BY <2>1
  <2>3. c \in PieceRecords /\ d \in PieceRecords
    BY <2>1, <2>2
  <2>4. QED
    BY <2>1, <2>2, <2>3, <1>4 DEF PieceRecords
<1>6. CASE long[n] = line
  BY <1>6, <1>3
<1>7. QED
  BY <1>1, <1>5, <1>6

\* The lines read, as numbers.
LEMMA PageTypes ==
  ASSUME ChunkTypeOK, LinesInOrder
  PROVE  /\ PageEnd \in Nat /\ Len(lines) \in Nat /\ DOMAIN lines = 1 .. Len(lines)
         /\ \A n \in DOMAIN lines : lines[n] \in LineRecords /\ lines[n].end <= PageEnd
<1>1. Len(lines) \in Nat /\ DOMAIN lines = 1 .. Len(lines) /\ \A n \in DOMAIN lines : lines[n] \in LineRecords
  BY DEF ChunkTypeOK
<1>2. PageEnd \in Nat
  <2>1. CASE lines = <<>>
    BY <2>1 DEF PageEnd
  <2>2. CASE lines # <<>>
    <3>1. Len(lines) \in DOMAIN lines
      BY <2>2 DEF ChunkTypeOK
    <3>2. QED
      BY <2>2, <3>1, <1>1 DEF PageEnd, Last, LineRecords
  <2>3. QED
    BY <2>1, <2>2
<1>3. QED
  BY <1>1, <1>2 DEF LinesInOrder

\* A chunk of one, or of none.
LEMMA ClosedType ==
  ASSUME ChunkTypeOK
  PROVE  /\ draft = NoDraft => Closed(draft) = <<>>
         /\ draft # NoDraft => draft \in PieceRecords /\ Closed(draft) = <<draft>>
         /\ Closed(draft) \in Seq(PieceRecords) /\ pieces \o Closed(draft) \in Seq(PieceRecords)
         /\ ToSet(pieces \o Closed(draft)) = ToSet(pieces) \cup ({draft} \ {NoDraft})
<1>1. CASE draft = NoDraft
  <2>1. Closed(draft) = <<>> /\ pieces \o <<>> = pieces /\ pieces \in Seq(PieceRecords) /\ <<>> \in Seq(PieceRecords)
    BY <1>1 DEF Closed, NoDraft, Chunk, ChunkTypeOK
  <2>2. QED
    BY <2>1, <1>1
<1>2. CASE draft # NoDraft
  <2>1. draft \in PieceRecords /\ draft.begin # None
    BY <1>2 DEF ChunkTypeOK, PieceRecords, None
  <2>2. Closed(draft) = <<draft>> /\ <<draft>> \in Seq(PieceRecords) /\ pieces \in Seq(PieceRecords)
    BY <2>1 DEF Closed, ChunkTypeOK
  <2>3. ToSet(<<draft>>) = {draft}
    BY DEF ToSet
  <2>4. ToSet(pieces \o <<draft>>) = ToSet(pieces) \cup ToSet(<<draft>>)
    BY <2>2, JoinedSet
  <2>5. pieces \o <<draft>> \in Seq(PieceRecords)
    BY <2>2
  <2>6. {draft} \ {NoDraft} = {draft}
    BY <1>2
  <2>7. QED
    BY <2>1, <2>2, <2>3, <2>4, <2>5, <2>6, <1>2
<1>3. QED
  BY <1>1, <1>2

\* The chunks made, up to where the one being made begins; and with it.
LEMMA DraftClosed ==
  ASSUME ChunkInduction, split = FALSE
  PROVE  /\ Sound(pieces, lines, IF draft = NoDraft THEN PageEnd ELSE draft.begin)
         /\ Sound(pieces \o Closed(draft), lines, PageEnd)
         /\ Covered(pieces \o Closed(draft), lines)
<1> USE DEF ChunkInduction
<1>1. Sound(pieces, lines, IF draft = NoDraft THEN PageEnd ELSE draft.begin)
  <2>1. pieces \in Seq(PieceRecords) /\ \A i \in DOMAIN pieces : pieces[i] \in ToSet(pieces)
    BY DEF ChunkTypeOK, ToSet
  <2>2. \A n \in DOMAIN lines : HeadingsAbove(n) = Above(lines, n)
    BY DEF HeadingsAbove, Above
  <2>3. \A i \in DOMAIN pieces, n \in DOMAIN lines :
          lines[n].begin < pieces[i].end /\ pieces[i].begin < lines[n].end => pieces[i].path = Above(lines, n)
    BY <2>1, <2>2 DEF HeadingsTrue
  <2>4. QED
    BY <2>1, <2>3 DEF Sound, ChunksFit, DraftHolds
<1>2. Sound(pieces \o Closed(draft), lines, PageEnd)
  <2>1. CASE draft = NoDraft
    <3>1. pieces \o Closed(draft) = pieces
      BY <2>1, ClosedType DEF ChunkTypeOK
    <3>2. QED
      BY <3>1, <2>1, <1>1
  <2>2. CASE draft # NoDraft
    <3>1. /\ draft \in PieceRecords /\ draft.begin \in Nat /\ Closed(draft) = <<draft>>
          /\ draft.end = PageEnd /\ PageEnd \in Nat /\ draft.begin <= PageEnd
      BY <2>2, ClosedType, PageTypes, ChunkAssumption DEF DraftHolds, PieceRecords
    <3>2. \A n \in DOMAIN lines : lines[n].begin < draft.end /\ draft.begin < lines[n].end
                                    => draft.path = Above(lines, n)
      BY <2>2 DEF DraftHolds, HeadingsAbove, Above
    <3>3. DOMAIN <<draft>> = {1} /\ <<draft>>[1] = draft /\ <<draft>> \in Seq(PieceRecords)
      BY <3>1
    <3>4. \A i, j \in DOMAIN <<draft>> : ~(i < j)
      BY <3>3
    <3> DEFINE one == <<draft>>
    <3> HIDE DEF one
    <3>5. Sound(one, lines, PageEnd)
      BY <3>1, <3>2, <3>3, <3>4, <2>2 DEF Sound, DraftHolds, one
    <3>6. \A i \in DOMAIN one : draft.begin <= one[i].begin
      BY <3>1, <3>3 DEF one
    <3>7. Sound(pieces \o one, lines, PageEnd)
      BY <3>1, <3>5, <3>6, <2>2, <1>1, SoundBehind
    <3>8. QED
      BY <3>7, <3>1 DEF one
  <2>3. QED
    BY <2>1, <2>2
<1>3. Covered(pieces \o Closed(draft), lines)
  BY DEF NothingLost, Covered
<1>4. QED
  BY <1>1, <1>2, <1>3

\* A line is read: where the page ends now, and its headings.
LEMMA LineRead ==
  ASSUME ChunkInduction, NEW line \in PageLines, NEW read,
         read = [begin |-> PageEnd, end |-> PageEnd + line.size, kind |-> line.kind, ends |-> line.ends,
                 heading |-> IF IsHeading(line) THEN line.level ELSE 0],
         lines' = Append(lines, read), outline' = OutlineAfter(line, Len(lines) + 1)
  PROVE  /\ read \in LineRecords /\ lines' \in Seq(LineRecords)
         /\ PageEnd' = read.end /\ read.begin = PageEnd /\ PageEnd \in Nat
         /\ read.end \in Nat /\ read.begin < read.end
         /\ LinesInOrder'
         /\ outline' = Above(lines', Len(lines')) /\ outline' \in SUBSET Nat
         /\ ~IsHeading(line) => outline' = outline
         /\ \A n \in DOMAIN lines : n \in DOMAIN lines' /\ lines'[n] = lines[n] /\ lines[n] \in LineRecords
                                    /\ lines[n].end <= PageEnd /\ Above(lines', n) = Above(lines, n)
         /\ \A n \in DOMAIN lines' : n \in DOMAIN lines \/ (n = Len(lines') /\ lines'[n] = read)
<1> USE DEF ChunkInduction
<1>1. /\ PageEnd \in Nat /\ Len(lines) \in Nat /\ DOMAIN lines = 1 .. Len(lines) /\ lines \in Seq(LineRecords)
      /\ \A n \in DOMAIN lines : lines[n] \in LineRecords /\ lines[n].end <= PageEnd
  BY PageTypes DEF ChunkTypeOK
<1>2. /\ line.size \in Nat \ {0} /\ line.level \in Nat /\ line.ends \in BOOLEAN
      /\ line.kind \in {l.kind : l \in PageLines}
      /\ IsHeading(line) => line.level > 0
  BY LinesAssumption DEF IsHeading
<1>3. /\ read \in LineRecords /\ read.begin = PageEnd /\ read.end = PageEnd + line.size
      /\ read.heading = IF IsHeading(line) THEN line.level ELSE 0
  BY <1>1, <1>2 DEF LineRecords
<1>4. /\ lines' \in Seq(LineRecords) /\ Len(lines') = Len(lines) + 1 /\ lines'[Len(lines')] = read
      /\ lines' # <<>> /\ DOMAIN lines' = 1 .. Len(lines) + 1
      /\ \A n \in DOMAIN lines : n \in DOMAIN lines' /\ lines'[n] = lines[n]
      /\ \A n \in DOMAIN lines' : n \in DOMAIN lines \/ n = Len(lines')
  BY <1>1, <1>3
<1>5. PageEnd' = read.end
  BY <1>4 DEF PageEnd, Last
<1>6. read.end \in Nat /\ read.begin < read.end /\ PageEnd <= read.end
  BY <1>1, <1>2, <1>3
<1>7. \A n \in DOMAIN lines' : lines'[n].begin < lines'[n].end /\ lines'[n].end <= PageEnd'
  <2>1. ASSUME NEW n \in DOMAIN lines
        PROVE  lines'[n].begin < lines'[n].end /\ lines'[n].end <= read.end
    <3>1. lines[n].begin < lines[n].end /\ lines[n].end <= PageEnd /\ lines[n].end \in Nat
      BY <1>1 DEF LinesInOrder, LineRecords
    <3>2. QED
      BY <3>1, <1>1, <1>4, <1>6
  <2>2. QED
    BY <2>1, <1>4, <1>5, <1>6
<1>8. lines'[1].begin = 0
  <2>1. CASE lines = <<>>
    <3>1. PageEnd = 0 /\ Len(lines') = 1
      BY <2>1, <1>4 DEF PageEnd
    <3>2. QED
      BY <3>1, <1>3, <1>4
  <2>2. CASE lines # <<>>
    <3>1. 1 \in DOMAIN lines
      BY <2>2, <1>1
    <3>2. QED
      BY <3>1, <2>2, <1>4 DEF LinesInOrder
  <2>3. QED
    BY <2>1, <2>2
<1>9. LinesInOrder'
  BY <1>7, <1>8 DEF LinesInOrder
<1>10. outline = Above(lines, Len(lines)) /\ outline \subseteq 1 .. Len(lines)
  BY DEF HeadingsAbove, Above
<1>11. outline' = Above(lines', Len(lines'))
  <2>1. Above(lines', Len(lines) + 1) =
          IF read.heading > 0
          THEN {i \in Above(lines, Len(lines)) : lines[i].heading < read.heading} \cup {Len(lines) + 1}
          ELSE Above(lines, Len(lines))
    BY <1>1, <1>3, AboveNext
  <2>2. CASE IsHeading(line)
    BY <2>1, <2>2, <1>2, <1>3, <1>4, <1>10 DEF OutlineAfter
  <2>3. CASE ~IsHeading(line)
    BY <2>1, <2>3, <1>3, <1>4, <1>10 DEF OutlineAfter
  <2>4. QED
    BY <2>2, <2>3
<1>12. outline' \in SUBSET Nat
  BY <1>11, <1>4, <1>1 DEF Above
<1>13. ~IsHeading(line) => outline' = outline
  BY DEF OutlineAfter
<1>14. \A n \in DOMAIN lines : Above(lines', n) = Above(lines, n)
  <2>1. \A n \in DOMAIN lines : n \in 0 .. Len(lines)
    BY <1>1
  <2>2. QED
    BY <2>1, <1>1, <1>3, AboveStays
<1>15. \A n \in DOMAIN lines : n \in DOMAIN lines' /\ lines'[n] = lines[n] /\ lines[n] \in LineRecords
                              /\ lines[n].end <= PageEnd /\ Above(lines', n) = Above(lines, n)
  BY <1>1, <1>4, <1>14
<1>16. \A n \in DOMAIN lines' : n \in DOMAIN lines \/ (n = Len(lines') /\ lines'[n] = read)
  BY <1>4
<1>17. QED
  BY <1>1, <1>3, <1>4, <1>5, <1>6, <1>9, <1>11, <1>12, <1>13, <1>15, <1>16, Zenon

\* What a state of the loop must be, in the terms of the lemmas.
LEMMA LoopHolds ==
  ASSUME lines' \in Seq(LineRecords), pieces' \in Seq(PieceRecords), draft' \in PieceRecords \cup {NoDraft},
         split' = FALSE, LinesInOrder', outline' = Above(lines', Len(lines')),
         Sound(pieces', lines', IF draft' = NoDraft THEN PageEnd' ELSE draft'.begin),
         draft' # NoDraft =>
           /\ draft'.end = PageEnd' /\ draft'.end - draft'.begin \in 1 .. ChunkSize /\ draft'.path = outline'
           /\ \A n \in DOMAIN lines' : draft'.begin < lines'[n].end => Above(lines', n) = outline',
         Covered(pieces' \o Closed(draft'), lines')
  PROVE  ChunkInduction'
<1>1. \A n : HeadingsAbove(n)' = Above(lines', n)
  BY DEF HeadingsAbove, Above
<1>2. ChunkTypeOK'
  BY DEF ChunkTypeOK, NoDraft, Chunk, None
<1>3. DraftHolds'
  BY <1>1 DEF DraftHolds, Sound, NoDraft, Chunk, None
<1>4. NothingLost'
  BY DEF NothingLost, Covered, Closed
<1>5. ChunksFit'
  BY DEF ChunksFit, Sound, ToSet
<1>6. HeadingsTrue'
  BY <1>1 DEF HeadingsTrue, Sound, ToSet
<1>7. outline' = HeadingsAbove(Len(lines))'
  BY DEF HeadingsAbove, Above
<1>8. QED
  BY <1>2, <1>3, <1>4, <1>5, <1>6, <1>7 DEF ChunkInduction

\* Where a line goes: it begins a chunk, the one being made is closed, or it
\* goes on with that one.
LEMMA WhereItGoes ==
  ASSUME ChunkInduction, split = FALSE, NEW line \in PageLines, NEW end \in Nat, NEW path
  PROVE  LET begin == PageEnd
             before == IF IsBoundary(line) THEN Closed(draft) ELSE <<>>
             started == IF IsBoundary(line) \/ draft.begin = None THEN Chunk(begin, begin, path) ELSE draft
             room == MakeRoom(started, begin, end, path)
             written == pieces \o before \o room.closed
         IN  \/ /\ written = pieces \o Closed(draft)
                /\ room.open = Chunk(begin, begin, path)
             \/ /\ written = pieces /\ room.open = draft
                /\ draft # NoDraft /\ ~IsBoundary(line) /\ ~Overflows(draft, end)
<1> DEFINE begin == PageEnd
           before == IF IsBoundary(line) THEN Closed(draft) ELSE <<>>
           started == IF IsBoundary(line) \/ draft.begin = None THEN Chunk(begin, begin, path) ELSE draft
           room == MakeRoom(started, begin, end, path)
           written == pieces \o before \o room.closed
<1>1. /\ begin \in Nat /\ pieces \in Seq(PieceRecords)
      /\ pieces \o Closed(draft) \in Seq(PieceRecords) /\ Closed(draft) \in Seq(PieceRecords)
      /\ draft = NoDraft => Closed(draft) = <<>>
      /\ draft # NoDraft => draft \in PieceRecords /\ Closed(draft) = <<draft>>
                            /\ draft.begin # None /\ draft.begin < begin /\ draft.begin \in Nat
  <2>1. begin \in Nat
    BY PageTypes DEF ChunkInduction
  <2>2. /\ pieces \in Seq(PieceRecords)
        /\ pieces \o Closed(draft) \in Seq(PieceRecords) /\ Closed(draft) \in Seq(PieceRecords)
        /\ draft = NoDraft => Closed(draft) = <<>>
        /\ draft # NoDraft => draft \in PieceRecords /\ Closed(draft) = <<draft>>
    BY ClosedType DEF ChunkInduction, ChunkTypeOK
  <2>3. ASSUME draft # NoDraft PROVE draft.begin \in Nat /\ draft.begin # None /\ draft.begin < begin
    <3>1. draft.begin \in Nat /\ draft.end = begin /\ draft.end - draft.begin \in 1 .. ChunkSize
      BY <2>2, <2>3 DEF ChunkInduction, DraftHolds, PieceRecords
    <3>2. QED
      BY <3>1, <2>1, ChunkAssumption DEF None
  <2>4. QED
    BY <2>1, <2>2, <2>3
<1>2. \A s \in Seq(PieceRecords) : s \o <<>> = s
  OBVIOUS
<1> HIDE DEF begin
<1>3. MakeRoom(Chunk(begin, begin, path), begin, end, path)
        = [closed |-> <<>>, open |-> Chunk(begin, begin, path)]
  BY <1>1 DEF MakeRoom, Chunk
<1>4. CASE IsBoundary(line) \/ draft = NoDraft
  <2>1. started = Chunk(begin, begin, path)
    BY <1>4 DEF NoDraft, Chunk
  <2>2. room.closed = <<>> /\ room.open = Chunk(begin, begin, path)
    BY <2>1, <1>3
  <2>3. before = Closed(draft)
    BY <1>1, <1>4
  <2>4. written = pieces \o Closed(draft)
    BY <2>2, <2>3, <1>1, <1>2
  <2>5. QED
    BY <2>2, <2>4 DEF begin
<1>5. CASE ~IsBoundary(line) /\ draft # NoDraft
  <2>1. started = draft /\ before = <<>> /\ pieces \o before = pieces
    BY <1>1, <1>5
  <2>2. CASE Overflows(draft, end)
    <3>1. room.closed = <<draft>> /\ room.open = Chunk(begin, begin, path)
      BY <2>1, <2>2, <1>1, <1>5 DEF MakeRoom
    <3>2. written = pieces \o Closed(draft)
      BY <3>1, <2>1, <1>1, <1>5
    <3>3. QED
      BY <3>1, <3>2 DEF begin
  <2>3. CASE ~Overflows(draft, end)
    <3>1. room.closed = <<>> /\ room.open = draft
      BY <2>1, <2>3 DEF MakeRoom
    <3>2. written = pieces
      BY <3>1, <2>1, <1>1, <1>2
    <3>3. QED
      BY <3>1, <3>2, <1>5, <2>3 DEF begin
  <2>4. QED
    BY <2>2, <2>3
<1>6. QED
  BY <1>4, <1>5

LEMMA ChunkStarts == ChunkInit => ChunkInduction
<1> SUFFICES ASSUME ChunkInit PROVE ChunkInduction
  OBVIOUS
<1>1. lines = <<>> /\ pieces = <<>> /\ draft = NoDraft /\ outline = {} /\ split = FALSE
  BY DEF ChunkInit
<1>2. ChunkTypeOK /\ LinesInOrder /\ DraftHolds /\ NothingLost /\ ChunksFit /\ HeadingsTrue
  <2>1. DOMAIN lines = {} /\ DOMAIN pieces = {} /\ ToSet(pieces) = {}
    BY <1>1 DEF ToSet
  <2>2. ChunkTypeOK
    <3>1. <<>> \in Seq(LineRecords) /\ <<>> \in Seq(PieceRecords)
      OBVIOUS
    <3>2. FALSE \in BOOLEAN
      OBVIOUS
    <3>3. QED
      BY <3>1, <3>2, <1>1, Zenon DEF ChunkTypeOK
  <2>3. QED
    BY <1>1, <2>1, <2>2 DEF LinesInOrder, DraftHolds, NothingLost, ChunksFit, HeadingsTrue
<1>3. HeadingsAbove(Len(lines)) = {}
  BY <1>1 DEF HeadingsAbove
<1>4. QED
  BY <1>1, <1>2, <1>3 DEF ChunkInduction

LEMMA ReadLineStep ==
  ASSUME ChunkInduction, ReadLine
  PROVE  ChunkInduction'
<1>1. split = FALSE /\ split' = FALSE
  BY DEF ReadLine, ChunkInduction, ChunkTypeOK
<1>2. PICK line \in PageLines :
        LET begin == PageEnd
            end == begin + line.size
            path == OutlineAfter(line, Len(lines) + 1)
            before == IF IsBoundary(line) THEN Closed(draft) ELSE <<>>
            started == IF IsBoundary(line) \/ draft.begin = None THEN Chunk(begin, begin, path) ELSE draft
            room == MakeRoom(started, begin, end, path)
            written == pieces \o before \o room.closed
        IN  /\ lines' = Append(lines, [begin |-> begin, end |-> end, kind |-> line.kind, ends |-> line.ends,
                                       heading |-> IF IsHeading(line) THEN line.level ELSE 0])
            /\ outline' = path
            /\ CASE line.kind = "blank" -> pieces' = written /\ draft' = NoDraft
                 [] line.kind # "blank" /\ Overflows(room.open, end) ->
                      pieces' = written \o Windows(begin, end, path) /\ draft' = NoDraft
                 [] OTHER -> pieces' = written /\ draft' = [room.open EXCEPT !.end = end]
  BY DEF ReadLine
<1> DEFINE begin == PageEnd
           end == begin + line.size
           path == OutlineAfter(line, Len(lines) + 1)
           read == [begin |-> begin, end |-> end, kind |-> line.kind, ends |-> line.ends,
                    heading |-> IF IsHeading(line) THEN line.level ELSE 0]
           before == IF IsBoundary(line) THEN Closed(draft) ELSE <<>>
           started == IF IsBoundary(line) \/ draft.begin = None THEN Chunk(begin, begin, path) ELSE draft
           room == MakeRoom(started, begin, end, path)
           written == pieces \o before \o room.closed
           all == pieces \o Closed(draft)
<1>3. lines' = Append(lines, read) /\ outline' = path
  BY <1>2
<1>4. /\ read \in LineRecords /\ lines' \in Seq(LineRecords)
      /\ PageEnd' = end /\ begin \in Nat /\ end \in Nat /\ begin < end
      /\ LinesInOrder'
      /\ path = Above(lines', Len(lines')) /\ path \in SUBSET Nat
      /\ ~IsHeading(line) => path = outline
      /\ \A n \in DOMAIN lines : n \in DOMAIN lines' /\ lines'[n] = lines[n] /\ lines[n] \in LineRecords
                                 /\ lines[n].end <= begin /\ Above(lines', n) = Above(lines, n)
      /\ \A n \in DOMAIN lines' : n \in DOMAIN lines \/ (n = Len(lines') /\ lines'[n] = read)
  BY <1>3, LineRead
<1>5. \/ written = all /\ room.open = Chunk(begin, begin, path)
      \/ written = pieces /\ room.open = draft /\ draft # NoDraft /\ ~IsBoundary(line) /\ ~Overflows(draft, end)
  BY <1>1, <1>4, WhereItGoes
<1>6. /\ line.kind = "blank" => pieces' = written /\ draft' = NoDraft
      /\ line.kind # "blank" /\ Overflows(room.open, end) =>
           pieces' = written \o Windows(begin, end, path) /\ draft' = NoDraft
      /\ line.kind # "blank" /\ ~Overflows(room.open, end) =>
           pieces' = written /\ draft' = [room.open EXCEPT !.end = end]
  BY <1>2
<1>7. lines \in Seq(LineRecords) /\ pieces \in Seq(PieceRecords) /\ all \in Seq(PieceRecords)
  BY ClosedType DEF ChunkInduction, ChunkTypeOK
<1>8. line.kind = "blank" => IsBoundary(line)
  BY DEF IsBoundary
<1>9. read.begin = begin /\ read.end = end /\ read.kind = line.kind
  OBVIOUS
<1> HIDE DEF begin, end, path, read, written, room, all
<1>10. Sound(all, lines', begin) /\ Covered(all, lines)
  <2>1. Sound(all, lines, begin) /\ Covered(all, lines)
    BY <1>1, DraftClosed DEF all, begin
  <2>2. Sound(all, lines', begin)
    BY <2>1, <1>3, <1>4, <1>7, <1>9, SoundLater
  <2>3. QED
    BY <2>1, <2>2
<1>11. /\ \A c \in ToSet(all) : c \in PieceRecords /\ c.begin <= c.end /\ c.end <= begin
       /\ ToSet(all) \subseteq PieceRecords
  <2>1. \A i \in DOMAIN all : all[i] \in PieceRecords /\ all[i].begin <= all[i].end /\ all[i].end <= begin
    <3>1. \A i \in DOMAIN all : all[i] \in PieceRecords /\ all[i].end <= begin /\ all[i].end - all[i].begin \in 1 .. ChunkSize
      BY <1>7, <1>10 DEF Sound
    <3>2. QED
      BY <3>1, ChunkAssumption DEF PieceRecords
  <2>2. QED
    BY <2>1 DEF ToSet
<1>12. Chunk(begin, begin, path).begin = begin /\ NoDraft.begin = None
  BY DEF Chunk, NoDraft
\* The chunk being made is closed: nothing, or the windows of the line, follow.
<1>13. ASSUME draft' = NoDraft, NEW w \in Seq(PieceRecords), pieces' = all \o w,
              Sound(w, lines', end), \A i \in DOMAIN w : begin <= w[i].begin,
              line.kind # "blank" =>
                \A p \in begin .. end - 1 : \E i \in DOMAIN w : w[i].begin <= p /\ p < w[i].end
       PROVE  ChunkInduction'
  <2>1. Sound(pieces', lines', end)
    BY <1>4, <1>10, <1>13, SoundBehind
  <2>2. pieces' \in Seq(PieceRecords) /\ pieces' \o Closed(draft') = pieces'
    <3>1. pieces' \in Seq(PieceRecords)
      BY <1>7, <1>13
    <3>2. Closed(draft') = <<>>
      BY <1>13, <1>12 DEF Closed
    <3>3. QED
      BY <3>1, <3>2
  <2>3. ToSet(pieces') = ToSet(all) \cup ToSet(w) /\ ToSet(pieces') \subseteq PieceRecords
    <3>1. ToSet(all \o w) = ToSet(all) \cup ToSet(w)
      BY <1>7, <1>13, JoinedSet
    <3>2. ToSet(w) \subseteq PieceRecords
      BY <1>13 DEF ToSet
    <3>3. QED
      BY <3>1, <3>2, <1>11, <1>13
  <2>4. read.kind # "blank" =>
          \A p \in read.begin .. read.end - 1 : \E c \in ToSet(pieces') : c.begin <= p /\ p < c.end
    <3>1. \A i \in DOMAIN w : w[i] \in ToSet(pieces')
      BY <2>3 DEF ToSet
    <3>2. QED
      BY <3>1, <1>9, <1>13
  <2>5. \A c \in ToSet(all) : \E d \in ToSet(pieces') : d.begin <= c.begin /\ c.end <= d.end
    <3>1. \A c \in ToSet(all) : c \in ToSet(pieces') /\ c.begin <= c.begin /\ c.end <= c.end
      BY <1>11, <2>3 DEF PieceRecords
    <3>2. QED
      BY <3>1
  <2>6. Covered(pieces', Append(lines, read))
    BY <1>4, <1>7, <1>10, <1>11, <2>3, <2>4, <2>5, CoveredNext
  <2>7. QED
    BY <1>1, <1>3, <1>4, <1>13, <2>1, <2>2, <2>6, LoopHolds
<1>14. CASE line.kind = "blank"
  <2>1. draft' = NoDraft /\ pieces' = all
    BY <1>5, <1>6, <1>8, <1>14
  <2>2. all = all \o <<>> /\ <<>> \in Seq(PieceRecords) /\ DOMAIN <<>> = {}
    BY <1>7
  <2>3. Sound(<<>>, lines', end)
    BY <2>2 DEF Sound
  <2>4. QED
    BY <2>1, <2>2, <2>3, <1>13, <1>14
<1>15. CASE line.kind # "blank" /\ Overflows(room.open, end)
  <2>0. PICK w : w = Windows(begin, end, path)
    OBVIOUS
  <2>1. draft' = NoDraft /\ pieces' = all \o w
    <3>1. written = all
      BY <1>5, <1>15
    <3>2. QED
      BY <3>1, <1>6, <1>15, <2>0
  <2>2. /\ w \in Seq(PieceRecords)
        /\ \A i \in DOMAIN w : /\ begin <= w[i].begin /\ w[i].end <= end /\ w[i].path = path
                               /\ w[i].end - w[i].begin \in 1 .. ChunkSize
        /\ \A p \in begin .. end - 1 : \E i \in DOMAIN w : w[i].begin <= p /\ p < w[i].end
    <3>1. AreWindows(w, begin, end, path)
      BY <1>4, <2>0, WindowsCover
    <3>2. QED
      BY <3>1 DEF AreWindows
  <2>3. Len(lines') \in DOMAIN lines' /\ lines'[Len(lines')] = read
    BY <1>3, <1>4, <1>7
  <2>4. \A i, j \in DOMAIN w : i < j /\ w[j].begin < w[i].end =>
          \E n \in DOMAIN lines' : lines'[n].begin <= w[i].begin /\ w[j].end <= lines'[n].end
    BY <2>2, <2>3, <1>9
  <2>5. \A i \in DOMAIN w, n \in DOMAIN lines' :
          lines'[n].begin < w[i].end /\ w[i].begin < lines'[n].end => w[i].path = Above(lines', n)
    <3>1. ASSUME NEW i \in DOMAIN w, NEW n \in DOMAIN lines, w[i].begin < lines[n].end PROVE FALSE
      <4>1. w[i] \in PieceRecords /\ lines[n] \in LineRecords /\ lines[n].end <= begin /\ begin <= w[i].begin
        BY <2>2, <1>4
      <4>2. QED
        BY <4>1, <3>1, <1>4 DEF PieceRecords, LineRecords
    <3>2. QED
      BY <3>1, <1>4, <2>2
  <2>6. Sound(w, lines', end)
    BY <2>2, <2>4, <2>5 DEF Sound
  <2>7. QED
    BY <2>1, <2>2, <2>6, <1>13
\* The line begins a chunk.
<1>16. CASE /\ line.kind # "blank" /\ ~Overflows(room.open, end) /\ written = all
            /\ room.open = Chunk(begin, begin, path)
  <2>1. pieces' = all /\ draft' = Chunk(begin, end, path)
    BY <1>6, <1>16 DEF Chunk
  <2>2. draft' \in PieceRecords /\ draft' # NoDraft /\ draft'.begin = begin /\ draft'.end = end /\ draft'.path = path
    BY <2>1, <1>4 DEF Chunk, PieceRecords, NoDraft, None
  <2>3. end - begin \in 1 .. ChunkSize
    BY <1>4, <1>12, <1>16, ChunkAssumption DEF Overflows
  <2>4. Closed(draft') = <<draft'>> /\ <<draft'>> \in Seq(PieceRecords) /\ ToSet(<<draft'>>) = {draft'}
    BY <2>2, <1>4 DEF Closed, None, ToSet
  <2>5. /\ ToSet(all \o <<draft'>>) = ToSet(all) \cup {draft'}
        /\ ToSet(all \o <<draft'>>) \subseteq PieceRecords
    <3>1. ToSet(all \o <<draft'>>) = ToSet(all) \cup ToSet(<<draft'>>)
      BY <1>7, <2>4, JoinedSet
    <3>2. QED
      BY <3>1, <2>2, <2>4, <1>11
  <2>6. \A n \in DOMAIN lines' : draft'.begin < lines'[n].end => Above(lines', n) = path
    <3>1. ASSUME NEW n \in DOMAIN lines, begin < lines[n].end PROVE FALSE
      <4>1. lines[n] \in LineRecords /\ lines[n].end <= begin
        BY <1>4
      <4>2. QED
        BY <4>1, <3>1, <1>4 DEF LineRecords
    <3>2. QED
      BY <3>1, <1>4, <2>2
  <2>7. \A c \in ToSet(all) : \E d \in ToSet(all \o <<draft'>>) : d.begin <= c.begin /\ c.end <= d.end
    <3>1. \A c \in ToSet(all) : c \in ToSet(all \o <<draft'>>) /\ c.begin <= c.begin /\ c.end <= c.end
      BY <1>11, <2>5 DEF PieceRecords
    <3>2. QED
      BY <3>1
  <2>8. \A p \in begin .. end - 1 : \E c \in ToSet(all \o <<draft'>>) : c.begin <= p /\ p < c.end
    <3>1. \A p \in begin .. end - 1 : draft'.begin <= p /\ p < draft'.end
      BY <2>2, <1>4
    <3>2. QED
      BY <3>1, <2>5
  <2>9. Covered(all \o <<draft'>>, Append(lines, read))
    BY <1>4, <1>7, <1>9, <1>10, <1>11, <2>5, <2>7, <2>8, CoveredNext
  <2>10. QED
    BY <1>1, <1>3, <1>4, <1>7, <1>10, <2>1, <2>2, <2>3, <2>4, <2>6, <2>9, LoopHolds
\* The line goes on with the chunk being made.
<1>17. CASE /\ line.kind # "blank" /\ ~Overflows(room.open, end) /\ written = pieces
            /\ room.open = draft /\ draft # NoDraft /\ ~IsBoundary(line)
  <2>1. pieces' = pieces /\ draft' = [draft EXCEPT !.end = end]
    BY <1>6, <1>17
  <2>2. /\ draft \in PieceRecords /\ draft.end = begin /\ draft.end - draft.begin \in 1 .. ChunkSize
        /\ draft.path = outline /\ Closed(draft) = <<draft>>
        /\ \A n \in DOMAIN lines : draft.begin < lines[n].end => Above(lines, n) = outline
    BY <1>17, ClosedType DEF ChunkInduction, DraftHolds, begin, HeadingsAbove, Above
  <2>3. draft.begin \in Nat /\ draft.path \in SUBSET Nat /\ draft.begin < begin
    BY <2>2, <1>4, ChunkAssumption DEF PieceRecords
  <2>4. /\ draft' \in PieceRecords /\ draft'.begin = draft.begin /\ draft'.end = end
        /\ draft'.path = draft.path /\ draft' # NoDraft
    <3>1. draft' \in PieceRecords /\ draft'.begin = draft.begin /\ draft'.end = end /\ draft'.path = draft.path
      BY <2>1, <2>2, <1>4 DEF PieceRecords
    <3>2. QED
      BY <3>1, <2>3, <1>12 DEF None
  <2>5. end - draft.begin \in 1 .. ChunkSize
    BY <1>17, <1>4, <2>3, ChunkAssumption DEF Overflows
  <2>6. path = outline
    BY <1>4, <1>17 DEF IsBoundary
  <2>7. Sound(pieces, lines', draft.begin)
    <3>1. Sound(pieces, lines, draft.begin)
      BY <1>1, <1>17, DraftClosed
    <3>2. QED
      BY <3>1, <2>3, <1>3, <1>4, <1>7, <1>9, SoundLater
  <2>8. \A n \in DOMAIN lines' : draft'.begin < lines'[n].end => Above(lines', n) = path
    BY <1>4, <2>2, <2>4, <2>6
  <2>9. /\ Closed(draft') = <<draft'>> /\ <<draft'>> \in Seq(PieceRecords)
        /\ ToSet(pieces \o <<draft'>>) = ToSet(pieces) \cup {draft'}
        /\ ToSet(pieces \o <<draft'>>) \subseteq PieceRecords
        /\ ToSet(all) = ToSet(pieces) \cup {draft}
    <3>1. Closed(draft') = <<draft'>> /\ <<draft'>> \in Seq(PieceRecords) /\ ToSet(<<draft'>>) = {draft'}
      BY <2>3, <2>4 DEF Closed, None, ToSet
    <3>2. <<draft>> \in Seq(PieceRecords) /\ ToSet(<<draft>>) = {draft} /\ all = pieces \o <<draft>>
      BY <2>2 DEF ToSet, all
    <3>3. /\ ToSet(pieces \o <<draft'>>) = ToSet(pieces) \cup ToSet(<<draft'>>)
          /\ ToSet(pieces \o <<draft>>) = ToSet(pieces) \cup ToSet(<<draft>>)
      BY <3>1, <3>2, <1>7, JoinedSet
    <3>4. QED
      BY <3>1, <3>2, <3>3, <2>4, <1>11
  <2>10. \A c \in ToSet(all) : \E d \in ToSet(pieces \o <<draft'>>) : d.begin <= c.begin /\ c.end <= d.end
    <3>1. \A c \in ToSet(pieces) : c \in ToSet(pieces \o <<draft'>>) /\ c.begin <= c.begin /\ c.end <= c.end
      BY <1>11, <2>9 DEF PieceRecords
    <3>2. draft'.begin <= draft.begin /\ draft.end <= draft'.end /\ draft' \in ToSet(pieces \o <<draft'>>)
      BY <2>2, <2>3, <2>4, <2>9, <1>4
    <3>3. QED
      BY <3>1, <3>2, <2>9
  <2>11. \A p \in begin .. end - 1 : \E c \in ToSet(pieces \o <<draft'>>) : c.begin <= p /\ p < c.end
    <3>1. \A p \in begin .. end - 1 : draft'.begin <= p /\ p < draft'.end
      BY <2>3, <2>4, <1>4
    <3>2. QED
      BY <3>1, <2>9
  <2>12. Covered(pieces \o <<draft'>>, Append(lines, read))
    BY <1>4, <1>7, <1>9, <1>10, <1>11, <2>9, <2>10, <2>11, CoveredNext
  <2>13. QED
    BY <1>1, <1>3, <1>4, <1>7, <2>1, <2>2, <2>4, <2>5, <2>6, <2>7, <2>8, <2>9, <2>12, LoopHolds
<1>18. QED
  BY <1>5, <1>14, <1>15, <1>16, <1>17

\* The end of the page: nothing is left to be closed.
LEMMA EndPageStep ==
  ASSUME ChunkInduction, EndPage
  PROVE  ChunkInduction'
<1>1. /\ split = FALSE /\ split' = TRUE /\ draft' = NoDraft /\ lines # <<>>
      /\ lines' = lines /\ outline' = outline
      /\ pieces' = IF Len(lines) = 1 THEN Windows(0, PageEnd, {}) ELSE pieces \o Closed(draft)
  BY DEF EndPage, ChunkInduction, ChunkTypeOK
<1>2. /\ PageEnd \in Nat /\ Len(lines) \in Nat /\ DOMAIN lines = 1 .. Len(lines) /\ lines \in Seq(LineRecords)
      /\ \A n \in DOMAIN lines : lines[n] \in LineRecords
      /\ pieces \in Seq(PieceRecords) /\ pieces \o Closed(draft) \in Seq(PieceRecords)
  BY PageTypes, ClosedType DEF ChunkInduction, ChunkTypeOK
<1>3. PageEnd' = PageEnd
  BY <1>1 DEF PageEnd, Last
<1>4. LinesInOrder' /\ outline' = HeadingsAbove(Len(lines))'
  BY <1>1, <1>3 DEF ChunkInduction, LinesInOrder, HeadingsAbove
<1>5. Closed(draft') = <<>>
  BY <1>1 DEF Closed, NoDraft, Chunk
\* Whatever the chunks of the page are, they are all of them.
<1>6. ASSUME pieces' \in Seq(PieceRecords), \A i \in DOMAIN pieces' : pieces'[i].end <= PageEnd,
             Covered(pieces', lines), ChunksFit', HeadingsTrue'
      PROVE  ChunkInduction'
  <2>1. pieces' \in Seq(PieceRecords)
    BY <1>6
  <2>2. pieces' \o Closed(draft') = pieces'
    BY <2>1, <1>5
  <2>3. ChunkTypeOK'
    BY <1>1, <1>2, <2>1 DEF ChunkTypeOK, NoDraft, Chunk, None
  <2>4. DraftHolds'
    BY <1>1, <1>3, <1>6 DEF DraftHolds, NoDraft, Chunk
  <2>5. NothingLost'
    <3>1. NothingLost' <=> Covered(pieces' \o Closed(draft'), lines')
      BY DEF NothingLost, Covered, Closed
    <3>2. QED
      BY <3>1, <2>2, <1>1, <1>6
  <2>6. (split => draft = NoDraft)'
    BY <1>1 DEF NoDraft, Chunk
  <2>7. QED
    BY <1>4, <1>6, <2>3, <2>4, <2>5, <2>6 DEF ChunkInduction
<1>7. CASE Len(lines) = 1
  <2>0. PICK w : w = Windows(0, PageEnd, {})
    OBVIOUS
  <2>1. 1 \in DOMAIN lines /\ PageEnd = lines[1].end /\ lines[1].begin = 0 /\ 0 < PageEnd
    <3>1. 1 \in DOMAIN lines /\ PageEnd = lines[1].end /\ lines[1].begin = 0
      BY <1>1, <1>2, <1>7 DEF ChunkInduction, LinesInOrder, PageEnd, Last
    <3>2. QED
      BY <3>1 DEF ChunkInduction, LinesInOrder
  <2>2. /\ w \in Seq(PieceRecords)
        /\ \A i \in DOMAIN w : /\ 0 <= w[i].begin /\ w[i].end <= PageEnd /\ w[i].path = {}
                               /\ w[i].end - w[i].begin \in 1 .. ChunkSize
        /\ \A p \in 0 .. PageEnd - 1 : \E i \in DOMAIN w : w[i].begin <= p /\ p < w[i].end
    <3>1. AreWindows(w, 0, PageEnd, {})
      <4>1. {} \in SUBSET Nat /\ 0 \in Nat
        OBVIOUS
      <4>2. QED
        BY <4>1, <2>0, <2>1, <1>2, WindowsCover
    <3>2. QED
      BY <3>1 DEF AreWindows
  <2>3. pieces' = w
    BY <1>1, <1>7, <2>0
  <2>4. ChunksFit'
    <3>1. \A c \in ToSet(w) : c.end - c.begin \in 1 .. ChunkSize
      BY <2>2 DEF ToSet
    <3>2. \A i, j \in DOMAIN w : lines[1].begin <= w[i].begin /\ w[j].end <= lines[1].end
      BY <2>1, <2>2
    <3>3. QED
      BY <3>1, <3>2, <2>1, <2>3, <1>1 DEF ChunksFit
  <2>5. HeadingsTrue'
    <3>1. \A c \in ToSet(w) : c.path = {}
      BY <2>2 DEF ToSet
    <3>2. split' /\ Len(lines') = 1
      BY <1>1, <1>7
    <3>3. QED
      BY <3>1, <3>2, <2>3 DEF HeadingsTrue
  <2>6. Covered(w, lines)
    <3>1. \A n \in DOMAIN lines : lines[n].begin = 0 /\ lines[n].end = PageEnd
      BY <2>1, <1>2, <1>7
    <3>2. QED
      BY <3>1, <2>2 DEF Covered, ToSet
  <2>7. QED
    BY <1>6, <2>2, <2>3, <2>4, <2>5, <2>6
<1>8. CASE Len(lines) # 1
  <2> DEFINE all == pieces \o Closed(draft)
  <2>1. pieces' = all
    BY <1>1, <1>8
  <2>2. Sound(all, lines, PageEnd) /\ Covered(all, lines)
    BY <1>1, DraftClosed
  <2> HIDE DEF all
  <2>3. ChunksFit'
    BY <2>1, <2>2, <1>1 DEF Sound, ChunksFit, ToSet
  <2>4. \A n : HeadingsAbove(n)' = Above(lines, n)
    BY <1>1 DEF HeadingsAbove, Above
  <2>5. HeadingsTrue'
    BY <2>1, <2>2, <2>4, <1>1, <1>8 DEF Sound, HeadingsTrue, ToSet
  <2>6. QED
    BY <1>6, <2>1, <2>2, <2>3, <2>5 DEF Sound
<1>9. QED
  BY <1>7, <1>8

\* The inductive invariant of the loop over the lines.
THEOREM ChunkInvariant == ChunkSpec => []ChunkInduction
<1>1. ChunkInduction /\ [ChunkNext]_chunkVars => ChunkInduction'
  <2>1. SUFFICES ASSUME ChunkInduction, [ChunkNext]_chunkVars PROVE ChunkInduction'
    OBVIOUS
  <2>2. CASE ReadLine
    BY <2>1, <2>2, ReadLineStep
  <2>3. CASE EndPage
    BY <2>1, <2>3, EndPageStep
  <2>4. CASE UNCHANGED chunkVars
    <3>1. lines' = lines /\ outline' = outline /\ draft' = draft /\ pieces' = pieces /\ split' = split
      BY <2>4 DEF chunkVars
    <3>2. PageEnd' = PageEnd /\ \A n : HeadingsAbove(n)' = HeadingsAbove(n)
      BY <3>1 DEF PageEnd, HeadingsAbove
    <3>3. ChunkTypeOK' /\ LinesInOrder' /\ DraftHolds'
      BY <2>1, <3>1, <3>2 DEF ChunkInduction, ChunkTypeOK, LinesInOrder, DraftHolds, NoDraft, Chunk
    <3>4. NothingLost' /\ ChunksFit' /\ HeadingsTrue'
      BY <2>1, <3>1, <3>2 DEF ChunkInduction, NothingLost, ChunksFit, HeadingsTrue, Closed
    <3>5. QED
      BY <2>1, <3>1, <3>2, <3>3, <3>4 DEF ChunkInduction, NoDraft, Chunk
  <2>5. QED
    BY <2>1, <2>2, <2>3, <2>4 DEF ChunkNext
<1>2. QED
  BY ChunkStarts, <1>1, PTL DEF ChunkSpec

\* However long the lines of a page are and whatever they begin, its chunks
\* hold all of its text, are of the right size and share only what windows
\* of one line share, and name the headings they stand under.
THEOREM ChunksKept == ChunkSpec => []ChunkInv
<1>1. ChunkInduction => ChunkInv
  <2>1. ASSUME ChunkInduction, split PROVE WholePageIndexed
    <3>1. ToSet(pieces \o Closed(draft)) = ToSet(pieces)
      BY <2>1, ClosedType DEF ChunkInduction
    <3>2. QED
      BY <3>1, <2>1 DEF ChunkInduction, NothingLost, WholePageIndexed
  <2>2. QED
    BY <2>1 DEF ChunkInv, ChunkInduction, WholePageIndexed
<1>2. QED
  BY ChunkInvariant, <1>1, PTL

----------------------------------------------------------------------------
(* Ordering: what sorted returns.                                          *)

\* Of any two different elements one is ahead of the other, and what is
\* ahead of it too.
Sorts(ahead, S) ==
  /\ ahead \in [S -> SUBSET S]
  /\ \A a \in S : a \notin ahead[a]
  /\ \A a, b \in S : a \in ahead[b] => ahead[a] \subseteq ahead[b]
  /\ \A a, b \in S : a # b => a \in ahead[b] \/ b \in ahead[a]

\* More are ahead of b than of what is ahead of b, and never all.
LEMMA AheadCount ==
  ASSUME NEW S, IsFiniteSet(S), NEW ahead, Sorts(ahead, S)
  PROVE  /\ Cardinality(S) \in Nat
         /\ \A b \in S : Cardinality(ahead[b]) \in Nat /\ Cardinality(ahead[b]) + 1 \in 1 .. Cardinality(S)
         /\ \A a, b \in S : a \in ahead[b] => Cardinality(ahead[a]) < Cardinality(ahead[b])
<1>1. Cardinality(S) \in Nat
  BY FS_CardinalityType
<1>2. ASSUME NEW b \in S PROVE
        /\ IsFiniteSet(ahead[b]) /\ Cardinality(ahead[b]) \in Nat
        /\ Cardinality(ahead[b]) + 1 \in 1 .. Cardinality(S)
  <2>1. ahead[b] \in SUBSET S /\ b \notin ahead[b]
    BY DEF Sorts
  <2>2. IsFiniteSet(ahead[b]) /\ Cardinality(ahead[b]) <= Cardinality(S)
        /\ (Cardinality(S) = Cardinality(ahead[b]) => S = ahead[b])
    BY <2>1, FS_Subset
  <2>3. Cardinality(ahead[b]) \in Nat
    BY <2>2, FS_CardinalityType
  <2>4. QED
    BY <1>1, <2>1, <2>2, <2>3
<1>3. ASSUME NEW a \in S, NEW b \in S, a \in ahead[b] PROVE
        Cardinality(ahead[a]) < Cardinality(ahead[b])
  <2>1. ahead[a] \in SUBSET ahead[b] /\ a \notin ahead[a]
    BY <1>3 DEF Sorts
  <2>2. Cardinality(ahead[a]) <= Cardinality(ahead[b])
        /\ (Cardinality(ahead[b]) = Cardinality(ahead[a]) => ahead[b] = ahead[a])
    BY <1>2, <2>1, FS_Subset
  <2>3. QED
    BY <1>2, <1>3, <2>1, <2>2
<1>4. QED
  BY <1>1, <1>2, <1>3

\* Each has its own number of elements ahead of it, and every number of
\* them comes up.
LEMMA AheadCounted ==
  ASSUME NEW S, IsFiniteSet(S), NEW ahead, Sorts(ahead, S)
  PROVE  /\ \A a, b \in S : Cardinality(ahead[a]) = Cardinality(ahead[b]) => a = b
         /\ \A n \in 1 .. Cardinality(S) : \E p \in S : Cardinality(ahead[p]) = n - 1
<1> DEFINE place == [b \in S |-> Cardinality(ahead[b]) + 1]
           T == 1 .. Cardinality(S)
<1>1. /\ Cardinality(S) \in Nat
      /\ \A b \in S : Cardinality(ahead[b]) \in Nat /\ place[b] \in T
      /\ \A a, b \in S : a \in ahead[b] => Cardinality(ahead[a]) < Cardinality(ahead[b])
  BY AheadCount
<1>2. ASSUME NEW a \in S, NEW b \in S, Cardinality(ahead[a]) = Cardinality(ahead[b]) PROVE a = b
  BY <1>1, <1>2 DEF Sorts
<1>3. place \in Injection(S, T)
  <2>1. place \in [S -> T]
    BY <1>1
  <2>2. \A a, b \in S : place[a] = place[b] => a = b
    BY <1>1, <1>2
  <2>3. QED
    BY <2>1, <2>2 DEF Injection, IsInjective
<1>4. IsFiniteSet(T) /\ Cardinality(T) = Cardinality(S)
  BY <1>1, FS_Interval
<1>5. place \in Surjection(S, T)
  BY <1>3, <1>4, FS_Injection
<1>6. \A n \in T : \E p \in S : place[p] = n
  BY <1>5 DEF Surjection
<1>7. QED
  BY <1>1, <1>2, <1>6

\* sorted returns each element once, after those that are ahead of it.
LEMMA OrderedAll ==
  ASSUME NEW S, IsFiniteSet(S), NEW ahead, Sorts(ahead, S)
  PROVE  LET s == Ordered(ahead)
         IN  /\ Cardinality(S) \in Nat
             /\ s \in [1 .. Cardinality(S) -> S]
             /\ s \in Seq(S) /\ Len(s) = Cardinality(S) /\ DOMAIN s = 1 .. Cardinality(S)
             /\ \A n \in DOMAIN s : Cardinality(ahead[s[n]]) = n - 1
             /\ \A a \in S : \E n \in DOMAIN s : s[n] = a
             /\ \A i, j \in DOMAIN s : s[i] = s[j] => i = j
             /\ \A i, j \in DOMAIN s : (i < j) <=> s[i] \in ahead[s[j]]
<1> DEFINE s == Ordered(ahead)
           size == Cardinality(S)
<1>1. /\ size \in Nat
      /\ \A b \in S : Cardinality(ahead[b]) \in Nat /\ Cardinality(ahead[b]) + 1 \in 1 .. size
      /\ \A a, b \in S : a \in ahead[b] => Cardinality(ahead[a]) < Cardinality(ahead[b])
  BY AheadCount
<1>2. /\ \A a, b \in S : Cardinality(ahead[a]) = Cardinality(ahead[b]) => a = b
      /\ \A n \in 1 .. size : \E p \in S : Cardinality(ahead[p]) = n - 1
  BY AheadCounted
<1>3. DOMAIN ahead = S
  BY DEF Sorts
<1>4. s = [n \in 1 .. size |-> CHOOSE p \in S : Cardinality(ahead[p]) = n - 1]
  BY <1>3 DEF Ordered
<1>5. ASSUME NEW n \in 1 .. size PROVE s[n] \in S /\ Cardinality(ahead[s[n]]) = n - 1
  BY <1>2, <1>4
<1>6. s \in [1 .. size -> S] /\ DOMAIN s = 1 .. size
  BY <1>4, <1>5
<1>7. s \in Seq(S) /\ Len(s) = size
  BY <1>1, <1>6
<1>8. ASSUME NEW a \in S PROVE \E n \in DOMAIN s : s[n] = a
  <2>1. Cardinality(ahead[a]) + 1 \in 1 .. size
    BY <1>1
  <2>2. Cardinality(ahead[s[Cardinality(ahead[a]) + 1]]) = Cardinality(ahead[a])
    BY <1>1, <1>5, <2>1
  <2>3. QED
    BY <1>2, <1>5, <1>6, <2>1, <2>2
<1>9. ASSUME NEW i \in DOMAIN s, NEW j \in DOMAIN s, s[i] = s[j] PROVE i = j
  <2>1. i \in 1 .. size /\ j \in 1 .. size
    BY <1>6
  <2>2. i - 1 = j - 1
    BY <1>5, <1>9, <2>1
  <2>3. QED
    BY <1>1, <2>1, <2>2
<1>10. ASSUME NEW i \in DOMAIN s, NEW j \in DOMAIN s PROVE (i < j) <=> s[i] \in ahead[s[j]]
  <2>1. s[i] \in S /\ s[j] \in S /\ Cardinality(ahead[s[i]]) = i - 1 /\ Cardinality(ahead[s[j]]) = j - 1
        /\ i \in Int /\ j \in Int
    <3>1. i \in 1 .. size /\ j \in 1 .. size
      BY <1>6
    <3>2. QED
      BY <1>1, <1>5, <3>1
  <2>2. s[i] \in ahead[s[j]] => i < j
    BY <1>1, <2>1
  <2>3. ASSUME i < j PROVE s[i] \in ahead[s[j]]
    <3>1. s[i] # s[j]
      BY <1>9, <2>1, <2>3
    <3>2. s[j] \notin ahead[s[i]]
      BY <1>1, <2>1, <2>3
    <3>3. QED
      BY <2>1, <3>1, <3>2 DEF Sorts
  <2>4. QED
    BY <2>2, <2>3
<1>11. QED
  BY <1>1, <1>5, <1>6, <1>7, <1>8, <1>9, <1>10

\* The one with n - 1 elements ahead is the n-th.
LEMMA OrderedIs ==
  ASSUME NEW S, IsFiniteSet(S), NEW ahead, Sorts(ahead, S),
         NEW n \in 1 .. Cardinality(S), NEW p \in S, Cardinality(ahead[p]) = n - 1
  PROVE  Ordered(ahead)[n] = p
<1>1. \A a, b \in S : Cardinality(ahead[a]) = Cardinality(ahead[b]) => a = b
  BY AheadCounted
<1>2. Ordered(ahead)[n] \in S /\ Cardinality(ahead[Ordered(ahead)[n]]) = n - 1
  BY OrderedAll
<1>3. QED
  BY <1>1, <1>2

\* [:n] of a sequence.
LEMMA FirstItemsAre ==
  ASSUME NEW S, NEW s \in Seq(S), NEW n \in Nat
  PROVE  LET t == FirstItems(s, n)
         IN  /\ t \in Seq(S) /\ Len(t) \in Nat /\ Len(t) <= Len(s) /\ DOMAIN t = 1 .. Len(t)
             /\ Len(t) = Lower(Len(s), n)
             /\ DOMAIN t \subseteq DOMAIN s
             /\ \A i \in DOMAIN t : t[i] = s[i]
             /\ n > 0 /\ s # <<>> => t # <<>>
<1>1. Len(s) \in Nat /\ Lower(Len(s), n) \in Nat /\ Lower(Len(s), n) <= Len(s)
  BY DEF Lower
<1>2. FirstItems(s, n) \in Seq(S) /\ Len(FirstItems(s, n)) = Lower(Len(s), n)
      /\ \A i \in 1 .. Lower(Len(s), n) : FirstItems(s, n)[i] = s[i]
  BY <1>1 DEF FirstItems
<1>3. n > 0 /\ s # <<>> => Len(FirstItems(s, n)) > 0
  BY <1>2 DEF Lower
<1>4. QED
  BY <1>1, <1>2, <1>3

\* The places of a sequence are in the order of their numbers.
LEMMA PlacesSorted ==
  ASSUME NEW n \in Nat, NEW places \in SUBSET (1 .. n)
  PROVE  LET ahead == [p \in places |-> {q \in places : q < p}]
         IN  /\ IsFiniteSet(places) /\ Sorts(ahead, places) /\ DOMAIN ahead = places
             /\ \A p, q \in places : (q \in ahead[p]) <=> q < p
<1> DEFINE ahead == [p \in places |-> {q \in places : q < p}]
<1>1. IsFiniteSet(places)
  <2>1. IsFiniteSet(1 .. n)
    BY FS_Interval
  <2>2. QED
    BY <2>1, FS_Subset
<1>2. /\ ahead \in [places -> SUBSET places] /\ DOMAIN ahead = places
      /\ \A p, q \in places : (q \in ahead[p]) <=> q < p
  OBVIOUS
<1>3. \A p \in places : p \in Int
  OBVIOUS
<1> HIDE DEF ahead
<1>4. Sorts(ahead, places)
  <2>1. ASSUME NEW a \in places, NEW b \in places, a \in ahead[b], NEW c \in ahead[a]
        PROVE  c \in ahead[b]
    BY <1>2, <1>3, <2>1
  <2>2. \A a, b \in places : a \in ahead[b] => ahead[a] \subseteq ahead[b]
    BY <1>2, <2>1
  <2>3. /\ \A a \in places : a \notin ahead[a]
        /\ \A a, b \in places : a # b => a \in ahead[b] \/ b \in ahead[a]
    BY <1>2, <1>3
  <2>4. QED
    BY <1>2, <2>2, <2>3 DEF Sorts
<1>5. QED
  BY <1>1, <1>2, <1>4 DEF ahead

\* What is kept of a sequence: the members of the set, in their order.
LEMMA KeptItemsAre ==
  ASSUME NEW S, NEW items \in Seq(S), NEW set
  PROVE  LET t == KeptItems(items, set)
         IN  /\ t \in Seq(S)
             /\ \A n \in DOMAIN t : t[n] \in set /\ \E p \in DOMAIN items : t[n] = items[p]
             /\ (\A i, j \in DOMAIN items : items[i] = items[j] => i = j)
                  => \A i, j \in DOMAIN t : t[i] = t[j] => i = j
<1> DEFINE places == {p \in DOMAIN items : items[p] \in set}
           ahead == [p \in places |-> {q \in places : q < p}]
           order == Ordered(ahead)
           t == KeptItems(items, set)
<1>1. places \in SUBSET (1 .. Len(items)) /\ Len(items) \in Nat /\ DOMAIN items = 1 .. Len(items)
  OBVIOUS
<1>2. IsFiniteSet(places) /\ Sorts(ahead, places)
  BY <1>1, PlacesSorted
<1>3. /\ Cardinality(places) \in Nat /\ DOMAIN order = 1 .. Cardinality(places)
      /\ \A n \in DOMAIN order : order[n] \in places
      /\ \A i, j \in DOMAIN order : order[i] = order[j] => i = j
  <2> HIDE DEF places, ahead
  <2>1. QED
    BY <1>2, OrderedAll
<1>4. t = [n \in DOMAIN order |-> items[order[n]]]
  BY DEF KeptItems
<1>5. \A n \in DOMAIN t : order[n] \in DOMAIN items /\ items[order[n]] \in set /\ t[n] = items[order[n]]
  BY <1>3, <1>4
<1>6. t \in Seq(S)
  <2>1. DOMAIN t = 1 .. Cardinality(places) /\ \A n \in DOMAIN t : t[n] \in S
    BY <1>1, <1>3, <1>4, <1>5
  <2>2. t \in [1 .. Cardinality(places) -> S]
    BY <1>4, <2>1
  <2>3. QED
    <3> HIDE DEF t, places
    <3>1. QED
      BY <1>3, <2>2
<1>7. ASSUME \A i, j \in DOMAIN items : items[i] = items[j] => i = j,
             NEW i \in DOMAIN t, NEW j \in DOMAIN t, t[i] = t[j]
      PROVE  i = j
  <2>1. order[i] = order[j]
    BY <1>5, <1>7
  <2>2. i \in DOMAIN order /\ j \in DOMAIN order
    BY <1>4
  <2>3. QED
    BY <1>3, <2>1, <2>2
<1>8. QED
  BY <1>5, <1>6, <1>7

\* If these are the first m, they are what is kept.
LEMMA KeptItemsFirst ==
  ASSUME NEW S, NEW items \in Seq(S), NEW set, NEW m \in Nat, m <= Len(items),
         {p \in DOMAIN items : items[p] \in set} = 1 .. m
  PROVE  KeptItems(items, set) = SubSeq(items, 1, m)
<1> DEFINE places == {p \in DOMAIN items : items[p] \in set}
           ahead == [p \in places |-> {q \in places : q < p}]
           order == Ordered(ahead)
<1>1. places = 1 .. m /\ Len(items) \in Nat /\ DOMAIN items = 1 .. Len(items)
  OBVIOUS
<1>2. IsFiniteSet(places) /\ Sorts(ahead, places) /\ \A p \in places : ahead[p] = 1 .. p - 1
  <2>1. places \in SUBSET (1 .. Len(items))
    OBVIOUS
  <2>2. IsFiniteSet(places) /\ Sorts(ahead, places)
    BY <1>1, <2>1, PlacesSorted
  <2>3. ASSUME NEW p \in places PROVE ahead[p] = 1 .. p - 1
    <3>1. ahead[p] = {q \in 1 .. m : q < p} /\ p \in 1 .. m
      BY <1>1
    <3>2. QED
      BY <3>1
  <2>4. QED
    BY <2>2, <2>3
<1>3. Cardinality(places) = m
  <2>1. Cardinality(1 .. m) = m
    BY FS_Interval
  <2>2. QED
    BY <1>1, <2>1
<1>4. \A n \in 1 .. m : n \in places /\ Cardinality(ahead[n]) = n - 1
  <2>1. ASSUME NEW n \in 1 .. m PROVE Cardinality(1 .. n - 1) = n - 1
    BY FS_Interval
  <2>2. QED
    BY <1>1, <1>2, <2>1
<1>5. DOMAIN order = 1 .. m /\ \A n \in 1 .. m : order[n] = n
  <2> HIDE DEF places, ahead
  <2>1. \A n \in 1 .. m : order[n] = n
    BY <1>2, <1>3, <1>4, OrderedIs
  <2>2. QED
    BY <1>2, <1>3, <2>1, OrderedAll
<1>6. KeptItems(items, set) = [n \in DOMAIN order |-> items[order[n]]]
  BY DEF KeptItems
<1>7. KeptItems(items, set) = [n \in 1 .. m |-> items[n]]
  BY <1>5, <1>6
<1>8. SubSeq(items, 1, m) = [n \in 1 .. m |-> items[n]]
  BY <1>1
<1>9. QED
  BY <1>7, <1>8

\* The highest key first, of equals the lowest tie.
Keyed(ahead, S, key, tie) ==
  /\ ahead \in [S -> SUBSET S] /\ key \in [S -> Int] /\ tie \in [S -> Int]
  /\ \A a, b \in S : tie[a] = tie[b] => a = b
  /\ \A a, b \in S : (a \in ahead[b]) <=> (key[a] > key[b] \/ (key[a] = key[b] /\ tie[a] < tie[b]))

LEMMA SortsByKeys ==
  ASSUME NEW S, NEW ahead, NEW key, NEW tie, Keyed(ahead, S, key, tie)
  PROVE  Sorts(ahead, S)
<1> USE DEF Keyed
<1>1. \A a \in S : key[a] \in Int /\ tie[a] \in Int
  OBVIOUS
<1>2. /\ \A a \in S : a \notin ahead[a]
      /\ \A a, b \in S : a # b => a \in ahead[b] \/ b \in ahead[a]
  BY <1>1
<1>3. ASSUME NEW a \in S, NEW b \in S, a \in ahead[b], NEW c \in ahead[a] PROVE c \in ahead[b]
  <2>1. c \in S
    OBVIOUS
  <2>2. key[c] \in Int /\ tie[c] \in Int /\ key[a] \in Int /\ tie[a] \in Int /\ key[b] \in Int /\ tie[b] \in Int
    BY <1>1, <2>1
  <2>3. QED
    BY <1>3, <2>1, <2>2
<1>4. \A a, b \in S : a \in ahead[b] => ahead[a] \subseteq ahead[b]
  BY <1>3
<1>5. QED
  BY <1>2, <1>4 DEF Sorts

----------------------------------------------------------------------------
(* Retrieval: what a search finds.                                         *)

RetrievalTypeOK ==
  /\ lookup \in [limit : Nat, store : {"memory", "postgres"}, rerank : BOOLEAN]
  /\ match \in [Chunks -> [similarity : Int, words : Nat, named : BOOLEAN]]

LEMMA MatchTypes ==
  ASSUME RetrievalTypeOK
  PROVE  /\ \A c \in Chunks : match[c].similarity \in Int /\ match[c].words \in Int /\ match[c].named \in BOOLEAN
         /\ \A c \in Chunks : Id[c] \in Int /\ c \in Int
         /\ \A a, b \in Chunks : Id[a] = Id[b] => a = b
         /\ \A limit \in Nat : Candidates(limit) \in Nat /\ Listed(limit) \in Nat
<1>1. Chunks \subseteq Int
  <2>1. Chunks = 1 .. Cardinality(Chunks) /\ Cardinality(Chunks) \in Nat
    BY ChunksAssumption, FS_CardinalityType
  <2>2. QED
    BY <2>1
<1>2. \A limit \in Nat : Candidates(limit) \in Nat /\ Listed(limit) \in Nat
  <2>1. \A m, n \in Nat : m * n \in Nat
    OBVIOUS
  <2>2. QED
    BY <2>1, LimitsAssumption DEF Candidates, Listed
<1>3. \A c \in Chunks : Id[c] \in Int /\ c \in Int
  BY <1>1, ChunksAssumption
<1>4. \A c \in Chunks : match[c].similarity \in Int /\ match[c].words \in Int /\ match[c].named \in BOOLEAN
  <2>1. \A c \in Chunks : match[c] \in [similarity : Int, words : Nat, named : BOOLEAN]
    BY DEF RetrievalTypeOK
  <2>2. QED
    BY <2>1
<1>5. QED
  BY <1>2, <1>3, <1>4, ChunksAssumption

\* A sorted set of chunks, cut: different chunks of the set.
LEMMA CutIs ==
  ASSUME NEW S, S \subseteq Chunks, NEW ahead, Sorts(ahead, S), NEW n \in Nat
  PROVE  LET t == FirstItems(Ordered(ahead), n)
         IN  /\ t \in Seq(Chunks)
             /\ \A i \in DOMAIN t : t[i] \in S
             /\ \A i, j \in DOMAIN t : t[i] = t[j] => i = j
<1>1. IsFiniteSet(S)
  BY ChunksAssumption, FS_Subset
<1>2. /\ Ordered(ahead) \in Seq(S)
      /\ \A i, j \in DOMAIN Ordered(ahead) : Ordered(ahead)[i] = Ordered(ahead)[j] => i = j
  BY <1>1, OrderedAll
<1>3. /\ FirstItems(Ordered(ahead), n) \in Seq(S)
      /\ DOMAIN FirstItems(Ordered(ahead), n) \subseteq DOMAIN Ordered(ahead)
      /\ \A i \in DOMAIN FirstItems(Ordered(ahead), n) : FirstItems(Ordered(ahead), n)[i] = Ordered(ahead)[i]
  BY <1>2, FirstItemsAre
<1>4. QED
  BY <1>2, <1>3

LEMMA LexicalIs ==
  ASSUME RetrievalTypeOK, NEW limit \in Nat
  PROVE  /\ Lexical(limit) \in Seq(Chunks)
         /\ \A i, j \in DOMAIN Lexical(limit) : Lexical(limit)[i] = Lexical(limit)[j] => i = j
<1> DEFINE sharing == {c \in Chunks : match[c].words > 0}
           ahead == [b \in sharing |-> {a \in sharing :
                       \/ match[a].words > match[b].words
                       \/ match[a].words = match[b].words /\ Id[a] < Id[b]}]
           key == [c \in sharing |-> match[c].words]
           tie == [c \in sharing |-> Id[c]]
<1>1. Sorts(ahead, sharing)
  <2>1. ahead \in [sharing -> SUBSET sharing] /\ key \in [sharing -> Int] /\ tie \in [sharing -> Int]
    BY MatchTypes
  <2>2. \A a, b \in sharing : tie[a] = tie[b] => a = b
    BY MatchTypes
  <2>3. \A a, b \in sharing : (a \in ahead[b]) <=> (key[a] > key[b] \/ (key[a] = key[b] /\ tie[a] < tie[b]))
    OBVIOUS
  <2> HIDE DEF ahead, key, tie, sharing
  <2>4. Keyed(ahead, sharing, key, tie)
    BY <2>1, <2>2, <2>3 DEF Keyed
  <2>5. QED
    BY <2>4, SortsByKeys
<1>2. Lexical(limit) = FirstItems(Ordered(ahead), Listed(limit))
  BY DEF Lexical
<1>3. sharing \subseteq Chunks
  OBVIOUS
<1> HIDE DEF ahead, sharing
<1>4. Listed(limit) \in Nat
  BY MatchTypes
<1> DEFINE cut == FirstItems(Ordered(ahead), Listed(limit))
<1>5. cut \in Seq(Chunks) /\ \A i, j \in DOMAIN cut : cut[i] = cut[j] => i = j
  BY <1>1, <1>3, <1>4, CutIs
<1>6. QED
  BY <1>2, <1>5

\* Both stores sort by similarity, and of equals one or the other first.
ByIndex(S) ==
  [b \in S |-> {a \in S : \/ match[a].similarity > match[b].similarity
                          \/ match[a].similarity = match[b].similarity /\ a < b}]
ById(S) ==
  [b \in S |-> {a \in S : \/ match[a].similarity > match[b].similarity
                          \/ match[a].similarity = match[b].similarity /\ Id[a] < Id[b]}]

LEMMA SimilaritySorts ==
  ASSUME RetrievalTypeOK, NEW S \in SUBSET Chunks
  PROVE  Sorts(ByIndex(S), S) /\ Sorts(ById(S), S)
<1> DEFINE key == [c \in S |-> match[c].similarity]
           index == [c \in S |-> c]
           id == [c \in S |-> Id[c]]
<1>1. key \in [S -> Int]
  BY MatchTypes
<1>2. Sorts(ByIndex(S), S)
  <2>1. index \in [S -> Int] /\ \A a, b \in S : index[a] = index[b] => a = b
    BY MatchTypes
  <2>2. ByIndex(S) \in [S -> SUBSET S]
    BY DEF ByIndex
  <2>3. \A a, b \in S : (a \in ByIndex(S)[b]) <=> (key[a] > key[b] \/ (key[a] = key[b] /\ index[a] < index[b]))
    BY DEF ByIndex
  <2> HIDE DEF key, index, id
  <2>4. Keyed(ByIndex(S), S, key, index)
    BY <1>1, <2>1, <2>2, <2>3 DEF Keyed
  <2>5. QED
    BY <2>4, SortsByKeys
<1>3. Sorts(ById(S), S)
  <2>1. id \in [S -> Int] /\ \A a, b \in S : id[a] = id[b] => a = b
    BY MatchTypes
  <2>2. ById(S) \in [S -> SUBSET S]
    BY DEF ById
  <2>3. \A a, b \in S : (a \in ById(S)[b]) <=> (key[a] > key[b] \/ (key[a] = key[b] /\ id[a] < id[b]))
    BY DEF ById
  <2> HIDE DEF key, index, id
  <2>4. Keyed(ById(S), S, key, id)
    BY <1>1, <2>1, <2>2, <2>3 DEF Keyed
  <2>5. QED
    BY <2>4, SortsByKeys
<1>4. QED
  BY <1>2, <1>3

\* The store in memory admits what is similar enough, in its order.
LEMMA AdmittedIs ==
  ASSUME RetrievalTypeOK
  PROVE  /\ MemoryAdmitted = Ordered(ByIndex(Similar)) /\ ToSet(MemoryAdmitted) = Similar
         /\ Similar \in SUBSET Chunks /\ IsFiniteSet(Similar)
<1>1. Similar \in SUBSET Chunks /\ MemoryAdmitted = Ordered(ByIndex(Similar))
  BY DEF Similar, MemoryAdmitted, ByIndex
<1>2. IsFiniteSet(Similar) /\ Sorts(ByIndex(Similar), Similar)
  BY <1>1, SimilaritySorts, ChunksAssumption, FS_Subset
<1>3. ToSet(Ordered(ByIndex(Similar))) = Similar
  <2>1. /\ \A n \in DOMAIN Ordered(ByIndex(Similar)) : Ordered(ByIndex(Similar))[n] \in Similar
        /\ \A a \in Similar : \E n \in DOMAIN Ordered(ByIndex(Similar)) : Ordered(ByIndex(Similar))[n] = a
    BY <1>2, OrderedAll
  <2>2. QED
    BY <2>1 DEF ToSet
<1>4. QED
  BY <1>1, <1>2, <1>3

\* The chunks similar enough are the first of all, in either store, unless
\* ties are broken in another way.
LEMMA SimilarAreFirst ==
  ASSUME RetrievalTypeOK,
         \A a, b \in Chunks : match[a].similarity = match[b].similarity => (a < b) = (Id[a] < Id[b])
  PROVE  LET all == Ordered(ById(Chunks))
         IN  /\ MemoryAdmitted \in Seq(Similar) /\ all \in Seq(Chunks) /\ Len(MemoryAdmitted) <= Len(all)
             /\ \A n \in 1 .. Len(MemoryAdmitted) : all[n] = MemoryAdmitted[n]
             /\ \A n \in DOMAIN all : (all[n] \in Similar) <=> n <= Len(MemoryAdmitted)
<1> DEFINE all == Ordered(ById(Chunks))
           few == Ordered(ByIndex(Similar))
           m == Cardinality(Similar)
<1>1. MemoryAdmitted = few /\ Similar \in SUBSET Chunks /\ IsFiniteSet(Similar) /\ IsFiniteSet(Chunks)
  BY AdmittedIs, ChunksAssumption
<1>2. Sorts(ByIndex(Similar), Similar) /\ Sorts(ById(Chunks), Chunks)
  BY <1>1, SimilaritySorts
<1>3. /\ m \in Nat /\ few \in Seq(Similar) /\ Len(few) = m /\ DOMAIN few = 1 .. m
      /\ \A n \in 1 .. m : few[n] \in Similar /\ Cardinality(ByIndex(Similar)[few[n]]) = n - 1
      /\ \A a \in Similar : \E n \in 1 .. m : few[n] = a
  <2>1. /\ m \in Nat /\ few \in Seq(Similar) /\ Len(few) = m /\ DOMAIN few = 1 .. m
        /\ few \in [1 .. m -> Similar]
        /\ \A n \in DOMAIN few : Cardinality(ByIndex(Similar)[few[n]]) = n - 1
        /\ \A a \in Similar : \E n \in DOMAIN few : few[n] = a
    BY <1>1, <1>2, OrderedAll
  <2> HIDE DEF few, m
  <2>2. QED
    BY <2>1
<1>4. /\ Cardinality(Chunks) \in Nat /\ all \in Seq(Chunks)
      /\ Len(all) = Cardinality(Chunks) /\ DOMAIN all = 1 .. Cardinality(Chunks)
      /\ \A i, j \in DOMAIN all : all[i] = all[j] => i = j
  BY <1>1, <1>2, OrderedAll
<1>5. m <= Cardinality(Chunks)
  BY <1>1, FS_Subset
<1>6. ASSUME NEW c \in Similar PROVE ByIndex(Similar)[c] = ById(Chunks)[c]
  <2>1. c \in Chunks /\ match[c].similarity >= Threshold /\ match[c].similarity \in Int /\ Threshold \in Int
    BY MatchTypes, ScoresAssumption DEF Similar
  <2>2. \A a \in Chunks : (a \in ById(Chunks)[c]) <=> (a \in Similar /\ a \in ByIndex(Similar)[c])
    <3>1. ASSUME NEW a \in Chunks PROVE (a \in ById(Chunks)[c]) <=> (a \in Similar /\ a \in ByIndex(Similar)[c])
      <4>1. match[a].similarity \in Int
        BY MatchTypes
      <4>2. a \in Similar <=> match[a].similarity >= Threshold
        BY DEF Similar
      <4>3. (a \in ById(Chunks)[c]) <=>
              (match[a].similarity > match[c].similarity
                \/ (match[a].similarity = match[c].similarity /\ Id[a] < Id[c]))
        BY <2>1 DEF ById
      <4>4. a \in Similar => ((a \in ByIndex(Similar)[c]) <=>
              (match[a].similarity > match[c].similarity
                \/ (match[a].similarity = match[c].similarity /\ a < c)))
        BY DEF ByIndex
      <4>5. match[a].similarity = match[c].similarity => (a < c) = (Id[a] < Id[c])
        BY <2>1
      <4>6. QED
        BY <2>1, <4>1, <4>2, <4>3, <4>4, <4>5
    <3>2. QED
      BY <3>1
  <2>3. ById(Chunks)[c] \subseteq Chunks /\ ByIndex(Similar)[c] \subseteq Similar
    BY <2>1 DEF ById, ByIndex
  <2>4. QED
    BY <1>1, <2>2, <2>3
<1>7. ASSUME NEW n \in 1 .. m PROVE all[n] = few[n]
  <2>1. few[n] \in Chunks /\ Cardinality(ById(Chunks)[few[n]]) = n - 1
    BY <1>1, <1>3, <1>6
  <2>2. n \in 1 .. Cardinality(Chunks)
    BY <1>3, <1>4, <1>5
  <2>3. QED
    BY <1>1, <1>2, <2>1, <2>2, OrderedIs
<1>8. ASSUME NEW n \in DOMAIN all PROVE (all[n] \in Similar) <=> n <= m
  <2>1. n \in 1 .. Cardinality(Chunks) /\ n \in Int
    BY <1>4
  <2>2. n <= m => all[n] \in Similar
    BY <1>3, <1>7, <2>1
  <2>3. ASSUME all[n] \in Similar PROVE n <= m
    <3>1. PICK k \in 1 .. m : few[k] = all[n]
      BY <1>3, <2>3
    <3>2. k \in DOMAIN all /\ all[k] = all[n]
      BY <1>3, <1>4, <1>5, <1>7, <3>1
    <3>3. QED
      BY <1>4, <3>1, <3>2
  <2>4. QED
    BY <2>2, <2>3
<1>9. QED
  BY <1>1, <1>3, <1>4, <1>5, <1>7, <1>8

\* So the rows that PostgreSQL keeps of its list are the list of the store
\* in memory.
LEMMA SameSemanticList ==
  ASSUME RetrievalTypeOK, NEW limit \in Nat,
         \A a, b \in Chunks : match[a].similarity = match[b].similarity => (a < b) = (Id[a] < Id[b])
  PROVE  FirstItems(MemoryAdmitted, limit) = KeptItems(FirstItems(Ordered(ById(Chunks)), limit), Similar)
<1> DEFINE all == Ordered(ById(Chunks))
           cut == FirstItems(all, limit)
           m == Len(MemoryAdmitted)
           k == Lower(m, limit)
<1>1. /\ MemoryAdmitted \in Seq(Similar) /\ all \in Seq(Chunks) /\ m <= Len(all)
      /\ \A n \in 1 .. m : all[n] = MemoryAdmitted[n]
      /\ \A n \in DOMAIN all : (all[n] \in Similar) <=> n <= m
  BY SimilarAreFirst
<1>2. /\ cut \in Seq(Chunks) /\ Len(cut) = Lower(Len(all), limit) /\ DOMAIN cut = 1 .. Len(cut)
      /\ Len(cut) \in Nat /\ DOMAIN cut \subseteq DOMAIN all
      /\ \A i \in DOMAIN cut : cut[i] = all[i]
  BY <1>1, FirstItemsAre
<1>3. m \in Nat /\ Len(all) \in Nat
  BY <1>1
<1>4. k \in Nat /\ k <= m /\ k <= Len(cut) /\ \A n \in 1 .. Len(cut) : n <= m <=> n <= k
  BY <1>1, <1>2, <1>3 DEF Lower
<1>5. {p \in DOMAIN cut : cut[p] \in Similar} = 1 .. k
  <2>1. \A p \in DOMAIN cut : (cut[p] \in Similar) <=> p <= k
    BY <1>1, <1>2, <1>4
  <2>2. DOMAIN cut = 1 .. Len(cut) /\ 1 .. k \subseteq DOMAIN cut
    BY <1>2, <1>4
  <2> HIDE DEF cut, k
  <2>3. QED
    BY <1>2, <1>4, <2>1, <2>2
<1>6. KeptItems(cut, Similar) = SubSeq(cut, 1, k)
  <2> HIDE DEF cut, k
  <2>1. QED
    BY <1>2, <1>4, <1>5, KeptItemsFirst
<1>7. SubSeq(cut, 1, k) = [i \in 1 .. k |-> cut[i]]
  <2> HIDE DEF cut, k
  <2>1. QED
    BY <1>2, <1>4
<1>8. SubSeq(MemoryAdmitted, 1, k) = [i \in 1 .. k |-> MemoryAdmitted[i]]
  <2> HIDE DEF k
  <2>1. QED
    BY <1>1, <1>4
<1>9. \A i \in 1 .. k : cut[i] = MemoryAdmitted[i]
  <2>1. ASSUME NEW i \in 1 .. k PROVE i \in 1 .. m /\ i \in DOMAIN cut
    BY <1>2, <1>3, <1>4
  <2> HIDE DEF cut, k
  <2>2. QED
    BY <1>1, <1>2, <2>1
<1>10. FirstItems(MemoryAdmitted, limit) = SubSeq(MemoryAdmitted, 1, k)
  BY DEF FirstItems
<1>11. QED
  <2> HIDE DEF cut, k
  <2>1. [i \in 1 .. k |-> cut[i]] = [i \in 1 .. k |-> MemoryAdmitted[i]]
    BY <1>9
  <2>2. QED
    BY <1>6, <1>7, <1>8, <1>10, <2>1 DEF cut

\* The two stores fuse the same lists.
LEMMA StoresAgreeHere ==
  ASSUME RetrievalTypeOK
  PROVE  StoresAgree
<1>1. SUFFICES ASSUME lookup.limit > 0,
                      \A a, b \in Chunks :
                        match[a].similarity = match[b].similarity => (a < b) = (Id[a] < Id[b])
               PROVE  Fusion("memory", lookup.limit) = Fusion("postgres", lookup.limit)
  BY DEF StoresAgree
<1>2. lookup.limit \in Nat
  BY DEF RetrievalTypeOK
<1> DEFINE limit == Listed(lookup.limit)
<1>3. limit \in Nat
  BY <1>2, MatchTypes
<1>4. FirstItems(MemoryAdmitted, limit) = KeptItems(FirstItems(Ordered(ById(Chunks)), limit), Similar)
  BY <1>1, <1>3, SameSemanticList
<1>5. ToSet(MemoryAdmitted) = Similar
  BY AdmittedIs
<1>6. MemoryLists(lookup.limit) = PostgresLists(lookup.limit)
  BY <1>4, <1>5 DEF MemoryLists, PostgresLists, ById
<1>7. QED
  BY <1>6 DEF Fusion

----------------------------------------------------------------------------
(* reciprocal_rank_fusion and the reranker.                                *)

LEMMA RankScoreType ==
  ASSUME NEW list \in Seq(Chunks), NEW c \in Chunks
  PROVE  RankScore(list, c) \in Int /\ (c \notin ToSet(list) => RankScore(list, c) = 0)
<1>1. CASE c \notin ToSet(list)
  BY <1>1 DEF RankScore
<1>2. CASE c \in ToSet(list)
  <2> DEFINE rank == CHOOSE n \in DOMAIN list : list[n] = c
  <2>1. rank \in Nat
    BY <1>2 DEF ToSet
  <2>2. RankScore(list, c) = Common \div (RankConstant + rank)
    BY <1>2 DEF RankScore
  <2> HIDE DEF rank
  <2>3. RankConstant + rank \in Nat /\ RankConstant + rank > 0 /\ Common \in Int
    BY <2>1, CommonAssumption DEF RankConstant
  <2>4. QED
    BY <1>2, <2>2, <2>3
<1>3. QED
  BY <1>1, <1>2

\* A fusion returns different chunks of the lists that it fuses.
LEMMA FusedAre ==
  ASSUME RetrievalTypeOK, NEW limit \in Nat,
         NEW lists, lists[1] \in Seq(Chunks), lists[2] \in Seq(Chunks)
  PROVE  LET fused == Fused(lists, limit)
         IN  /\ fused \in Seq(Chunks)
             /\ \A i \in DOMAIN fused : fused[i] \in ToSet(lists[1]) \cup ToSet(lists[2])
             /\ \A i, j \in DOMAIN fused : fused[i] = fused[j] => i = j
<1> DEFINE score == [c \in Chunks |-> RankScore(lists[1], c) + RankScore(lists[2], c)]
           words == [c \in Chunks |-> IF c \in ToSet(lists[2]) THEN match[c].words ELSE 0]
           ranked == {c \in Chunks : score[c] > 0}
           ahead == [b \in ranked |-> {a \in ranked :
                       \/ score[a] > score[b]
                       \/ score[a] = score[b] /\ words[a] > words[b]
                       \/ score[a] = score[b] /\ words[a] = words[b] /\ Id[a] < Id[b]}]
           fused == FirstItems(Ordered(ahead), Listed(limit))
<1>1. /\ \A c \in Chunks : score[c] \in Int /\ words[c] \in Int /\ Id[c] \in Int
      /\ \A a, b \in Chunks : Id[a] = Id[b] => a = b
  <2>1. \A c \in Chunks : RankScore(lists[1], c) \in Int /\ RankScore(lists[2], c) \in Int
    BY RankScoreType
  <2>2. \A c \in Chunks : match[c].words \in Int /\ Id[c] \in Int
    BY MatchTypes
  <2>3. QED
    BY <2>1, <2>2, MatchTypes
<1>2. ranked \subseteq Chunks /\ \A c \in ranked : c \in ToSet(lists[1]) \cup ToSet(lists[2])
  BY RankScoreType
<1>3. ahead \in [ranked -> SUBSET ranked]
  OBVIOUS
<1>4. \A a, b \in ranked : (a \in ahead[b]) <=>
        \/ score[a] > score[b]
        \/ score[a] = score[b] /\ words[a] > words[b]
        \/ score[a] = score[b] /\ words[a] = words[b] /\ Id[a] < Id[b]
  OBVIOUS
<1>5. Fused(lists, limit) = fused
  BY DEF Fused
<1> HIDE DEF score, words, ranked, ahead
<1>6. Sorts(ahead, ranked)
  <2>1. \A a \in ranked : score[a] \in Int /\ words[a] \in Int /\ Id[a] \in Int /\ a \in Chunks
    BY <1>1, <1>2
  <2>2. ASSUME NEW a \in ranked, NEW b \in ranked, a \in ahead[b], NEW c \in ahead[a] PROVE c \in ahead[b]
    <3>1. c \in ranked
      BY <1>3
    <3>2. QED
      BY <1>4, <2>1, <2>2, <3>1
  <2>3. \A a, b \in ranked : a \in ahead[b] => ahead[a] \subseteq ahead[b]
    BY <2>2
  <2>4. /\ \A a \in ranked : a \notin ahead[a]
        /\ \A a, b \in ranked : a # b => a \in ahead[b] \/ b \in ahead[a]
    BY <1>1, <1>4, <2>1
  <2>5. QED
    BY <1>3, <2>3, <2>4 DEF Sorts
<1>7. Listed(limit) \in Nat
  BY MatchTypes
<1>8. /\ fused \in Seq(Chunks)
      /\ \A i \in DOMAIN fused : fused[i] \in ranked
      /\ \A i, j \in DOMAIN fused : fused[i] = fused[j] => i = j
  BY <1>2, <1>6, <1>7, CutIs
<1>9. QED
  BY <1>2, <1>5, <1>8

\* Either store fuses what it admits.
LEMMA FusionIs ==
  ASSUME RetrievalTypeOK, NEW limit \in Nat, NEW store \in {"memory", "postgres"}
  PROVE  LET candidates == Fusion(store, limit)
         IN  /\ candidates \in Seq(Chunks)
             /\ \A i \in DOMAIN candidates : candidates[i] \in Similar \cup Naming
             /\ \A i, j \in DOMAIN candidates : candidates[i] = candidates[j] => i = j
<1> DEFINE Admissible(lists) ==
             /\ lists[1] \in Seq(Chunks) /\ lists[2] \in Seq(Chunks)
             /\ ToSet(lists[1]) \cup ToSet(lists[2]) \subseteq Similar \cup Naming
           lexical == Lexical(limit)
           words == KeptItems(lexical, Similar \cup Naming)
<1>1. /\ Listed(limit) \in Nat /\ lexical \in Seq(Chunks)
      /\ Similar \in SUBSET Chunks /\ ToSet(MemoryAdmitted) = Similar
  BY MatchTypes, LexicalIs, AdmittedIs
<1>2. words \in Seq(Chunks) /\ ToSet(words) \subseteq Similar \cup Naming
  BY <1>1, KeptItemsAre DEF ToSet
<1>3. Admissible(MemoryLists(limit))
  <2> DEFINE semantic == FirstItems(MemoryAdmitted, Listed(limit))
  <2>1. MemoryAdmitted = Ordered(ByIndex(Similar)) /\ Sorts(ByIndex(Similar), Similar) /\ Similar \subseteq Chunks
    BY <1>1, AdmittedIs, SimilaritySorts
  <2>2. semantic \in Seq(Chunks) /\ \A i \in DOMAIN semantic : semantic[i] \in Similar
    BY <1>1, <2>1, CutIs
  <2>3. ToSet(semantic) \subseteq Similar
    BY <2>2 DEF ToSet
  <2>4. MemoryLists(limit) = <<semantic, words>>
    BY <1>1 DEF MemoryLists
  <2> HIDE DEF semantic, words
  <2>5. QED
    BY <1>2, <2>2, <2>3, <2>4
<1>4. Admissible(PostgresLists(limit))
  <2> DEFINE near == FirstItems(Ordered(ById(Chunks)), Listed(limit))
             semantic == KeptItems(near, Similar)
  <2>1. Sorts(ById(Chunks), Chunks)
    BY SimilaritySorts
  <2>2. near \in Seq(Chunks)
    BY <1>1, <2>1, CutIs
  <2>3. semantic \in Seq(Chunks) /\ ToSet(semantic) \subseteq Similar
    BY <2>2, KeptItemsAre DEF ToSet
  <2>4. PostgresLists(limit) = <<semantic, words>>
    BY DEF PostgresLists, ById
  <2> HIDE DEF semantic, words
  <2>5. QED
    BY <1>2, <2>3, <2>4
<1>5. PICK lists : Admissible(lists) /\ Fusion(store, limit) = Fused(lists, limit)
  BY <1>3, <1>4 DEF Fusion
<1>6. QED
  BY <1>5, FusedAre

\* A complete reply gives each candidate the score of its own text.
LEMMA ScoresAreOwn ==
  ASSUME NEW candidates \in Seq(Chunks), NEW n \in Nat, n = Len(candidates),
         NEW reply \in [1 .. n -> 1 .. n], Complete(candidates, reply)
  PROVE  \A i \in DOMAIN candidates : Scores(candidates, reply)[i] = Relevance[candidates[i]]
<1>1. SUFFICES ASSUME NEW i \in DOMAIN candidates
               PROVE  Scores(candidates, reply)[i] = Relevance[candidates[i]]
  OBVIOUS
<1> DEFINE k == CHOOSE m \in DOMAIN reply : reply[m] = i
<1>2. \E m \in DOMAIN reply : reply[m] = i
  BY DEF Complete
<1>3. k \in DOMAIN reply /\ reply[k] = i
  BY <1>2
<1>4. Scores(candidates, reply)[i] = Replied(candidates, reply)[k]
  BY DEF Scores
<1> HIDE DEF k
<1>5. QED
  BY <1>3, <1>4 DEF Replied

\* The reranker moves candidates, the best of its scores first.
LEMMA RerankedAre ==
  ASSUME RetrievalTypeOK, NEW limit \in Nat,
         NEW candidates \in Seq(Chunks),
         \A i, j \in DOMAIN candidates : candidates[i] = candidates[j] => i = j,
         NEW n \in Nat, n = Len(candidates),
         NEW reply \in [1 .. n -> 1 .. n], Complete(candidates, reply)
  PROVE  LET reranked == Reranked(candidates, reply, limit)
         IN  /\ \A i \in DOMAIN reranked : reranked[i] \in ToSet(candidates)
             /\ \A i \in DOMAIN reranked, c \in ToSet(candidates) :
                  c \in {reranked[j] : j \in 1 .. i - 1} \/ Relevance[reranked[i]] >= Relevance[c]
<1> DEFINE score == Scores(candidates, reply)
           places == DOMAIN candidates
           ahead == [j \in places |-> {i \in places :
                       \/ score[i] > score[j]
                       \/ score[i] = score[j] /\ Id[candidates[i]] < Id[candidates[j]]}]
           order == Ordered(ahead)
           all == [m \in DOMAIN order |-> candidates[order[m]]]
           reranked == FirstItems(all, Candidates(limit))
           key == [i \in places |-> score[i]]
           tie == [i \in places |-> Id[candidates[i]]]
<1>1. \A i \in places : score[i] = Relevance[candidates[i]] /\ candidates[i] \in Chunks
  BY ScoresAreOwn
<1>2. \A i \in places : score[i] \in Int /\ Id[candidates[i]] \in Int
  BY <1>1, MatchTypes, ScoresAssumption
<1>3. Sorts(ahead, places)
  <2>1. ahead \in [places -> SUBSET places] /\ key \in [places -> Int] /\ tie \in [places -> Int]
    BY <1>2
  <2>2. \A a, b \in places : tie[a] = tie[b] => a = b
    BY <1>1, MatchTypes
  <2>3. \A a, b \in places : (a \in ahead[b]) <=> (key[a] > key[b] \/ (key[a] = key[b] /\ tie[a] < tie[b]))
    OBVIOUS
  <2> HIDE DEF ahead, key, tie, places, score
  <2>4. Keyed(ahead, places, key, tie)
    BY <2>1, <2>2, <2>3 DEF Keyed
  <2>5. QED
    BY <2>4, SortsByKeys
<1>4. \A i, j \in places : i \in ahead[j] => score[i] >= score[j]
  BY <1>2
<1>5. IsFiniteSet(places)
  BY FS_Interval
<1>6. Reranked(candidates, reply, limit) = reranked
  BY DEF Reranked
<1>7. Candidates(limit) \in Nat
  BY MatchTypes
<1> HIDE DEF ahead, key, tie, places, score
<1>8. /\ Cardinality(places) \in Nat /\ DOMAIN order = 1 .. Cardinality(places)
      /\ \A m \in DOMAIN order : order[m] \in places
      /\ \A i \in places : \E m \in DOMAIN order : order[m] = i
      /\ \A i, j \in DOMAIN order : (i < j) <=> order[i] \in ahead[order[j]]
  BY <1>3, <1>5, OrderedAll
<1> HIDE DEF order
<1>9. all \in Seq(Chunks)
  <2>1. all \in [1 .. Cardinality(places) -> Chunks]
    BY <1>1, <1>8
  <2>2. QED
    BY <1>8, <2>1
<1>10. \A m \in DOMAIN order : all[m] = candidates[order[m]]
  OBVIOUS
<1>11. DOMAIN all = DOMAIN order
  OBVIOUS
<1> HIDE DEF all
<1>12. /\ DOMAIN reranked = 1 .. Len(reranked) /\ Len(reranked) \in Nat
       /\ DOMAIN reranked \subseteq DOMAIN order
       /\ \A i \in DOMAIN reranked : reranked[i] = candidates[order[i]]
  BY <1>7, <1>9, <1>10, <1>11, FirstItemsAre
<1> HIDE DEF reranked
<1>13. \A i \in DOMAIN reranked : reranked[i] \in ToSet(candidates)
  BY <1>8, <1>12 DEF ToSet, places
<1>14. ASSUME NEW i \in DOMAIN reranked, NEW c \in ToSet(candidates),
              c \notin {reranked[j] : j \in 1 .. i - 1}
       PROVE  Relevance[reranked[i]] >= Relevance[c]
  <2>1. PICK p \in places : c = candidates[p]
    BY DEF ToSet, places
  <2>2. PICK m \in DOMAIN order : order[m] = p
    BY <1>8
  <2>3. i \in DOMAIN order /\ i \in Nat /\ m \in Nat /\ m > 0
    BY <1>8, <1>12
  <2>4. ~ m < i
    <3>1. SUFFICES ASSUME m < i PROVE FALSE
      OBVIOUS
    <3>2. m \in 1 .. i - 1 /\ m \in DOMAIN reranked
      BY <1>12, <2>3, <3>1
    <3>3. reranked[m] = c
      BY <1>12, <2>1, <2>2, <3>2
    <3>4. QED
      BY <1>14, <3>2, <3>3
  <2>5. order[i] = p \/ order[i] \in ahead[p]
    BY <1>8, <2>2, <2>3, <2>4
  <2>6. order[i] \in places /\ reranked[i] = candidates[order[i]]
    BY <1>8, <1>12, <2>3
  <2>7. score[order[i]] >= score[p]
    BY <1>2, <1>4, <2>1, <2>5, <2>6
  <2>8. QED
    BY <1>1, <2>1, <2>6, <2>7
<1>15. QED
  BY <1>6, <1>13, <1>14

----------------------------------------------------------------------------
\* What is returned is the fusion, cut, or what the reranker made of it.
FromTheFusion ==
  found # <<>> =>
    LET candidates == Fusion(lookup.store, lookup.limit)
        n == Len(candidates)
    IN  \/ found = FirstItems(candidates, Candidates(lookup.limit))
        \/ /\ lookup.rerank
           /\ \E reply \in [1 .. n -> 1 .. n] :
                Complete(candidates, reply) /\ found = Reranked(candidates, reply, lookup.limit)

RetrievalIInv ==
  /\ RetrievalTypeOK
  /\ lookup.limit = 0 => found = <<>>
  /\ FromTheFusion

\* The fusion depends on what matches only.
LEMMA FusionKept ==
  ASSUME lookup' = lookup, match' = match
  PROVE  Fusion(lookup.store, lookup.limit)' = Fusion(lookup.store, lookup.limit)
<1>1. Similar' = Similar /\ Naming' = Naming
  BY DEF Similar, Naming
<1>2. MemoryAdmitted' = MemoryAdmitted
  BY <1>1 DEF MemoryAdmitted
<1>3. Lexical(lookup.limit)' = Lexical(lookup.limit)
  BY DEF Lexical
<1>4. MemoryLists(lookup.limit)' = MemoryLists(lookup.limit)
  BY <1>1, <1>2, <1>3 DEF MemoryLists
<1>5. PostgresLists(lookup.limit)' = PostgresLists(lookup.limit)
  BY <1>1, <1>3 DEF PostgresLists
<1>6. QED
  BY <1>4, <1>5 DEF Fusion, Fused

LEMMA FromTheFusionKept ==
  ASSUME FromTheFusion, lookup' = lookup, match' = match, found' = found
  PROVE  FromTheFusion'
BY FusionKept DEF FromTheFusion

LEMMA RetrievalInitInv ==
  ASSUME RetrievalInit
  PROVE  RetrievalIInv
BY DEF RetrievalInit, RetrievalIInv, RetrievalTypeOK, FromTheFusion

LEMMA AskStoreInv ==
  ASSUME RetrievalIInv, AskStore
  PROVE  RetrievalIInv'
<1>1. lookup' \in [limit : Nat, store : {"memory", "postgres"}, rerank : BOOLEAN]
  <2>1. lookup' \in [limit : 1 .. MaxResults, store : {"memory", "postgres"}, rerank : BOOLEAN]
    BY DEF AskStore
  <2>2. QED
    BY <2>1, LimitsAssumption
<1>2. match' \in [Chunks -> [similarity : Int, words : Nat, named : BOOLEAN]]
  BY ScoresAssumption DEF AskStore
<1>3. found' = <<>>
  BY DEF AskStore, RetrievalIInv
<1>4. QED
  BY <1>1, <1>2, <1>3 DEF RetrievalIInv, RetrievalTypeOK, FromTheFusion

LEMMA FindChunksInv ==
  ASSUME RetrievalIInv, FindChunks
  PROVE  RetrievalIInv'
<1>1. lookup' = lookup /\ match' = match /\ lookup.limit > 0
  BY DEF FindChunks
<1>2. RetrievalTypeOK' /\ lookup'.limit # 0
  BY <1>1 DEF RetrievalIInv, RetrievalTypeOK
<1>3. FromTheFusion'
  BY <1>1, FusionKept DEF FindChunks, FromTheFusion
<1>4. QED
  BY <1>2, <1>3 DEF RetrievalIInv

LEMMA FoundHere ==
  ASSUME RetrievalIInv
  PROVE  FoundInv
<1> DEFINE candidates == Fusion(lookup.store, lookup.limit)
           n == Len(candidates)
           cut == FirstItems(candidates, Candidates(lookup.limit))
<1>1. RetrievalTypeOK /\ lookup.limit \in Nat /\ lookup.store \in {"memory", "postgres"}
  BY DEF RetrievalIInv, RetrievalTypeOK
<1>2. /\ candidates \in Seq(Chunks)
      /\ \A i \in DOMAIN candidates : candidates[i] \in Similar \cup Naming
      /\ \A i, j \in DOMAIN candidates : candidates[i] = candidates[j] => i = j
  BY <1>1, FusionIs
<1>3. n \in Nat /\ Candidates(lookup.limit) \in Nat
  <2>1. Candidates(lookup.limit) \in Nat
    BY <1>1, MatchTypes
  <2> HIDE DEF candidates
  <2>2. n \in Nat
    BY <1>2
  <2>3. QED
    BY <2>1, <2>2
<1>4. ToSet(candidates) \subseteq Similar \cup Naming
  BY <1>2 DEF ToSet
<1>5. \A i \in DOMAIN cut : cut[i] \in ToSet(candidates)
  <2> HIDE DEF candidates
  <2>1. DOMAIN cut \subseteq DOMAIN candidates /\ \A i \in DOMAIN cut : cut[i] = candidates[i]
    BY <1>2, <1>3, FirstItemsAre
  <2>2. QED
    BY <2>1 DEF ToSet
<1>6. ASSUME found # <<>>, found # cut
      PROVE  \E reply \in [1 .. n -> 1 .. n] : /\ Complete(candidates, reply) /\ lookup.rerank
                                               /\ found = Reranked(candidates, reply, lookup.limit)
  BY <1>6 DEF RetrievalIInv, FromTheFusion
<1> HIDE DEF candidates, n, cut
<1>7. ASSUME found # <<>>, found # cut
      PROVE  /\ lookup.rerank
             /\ \A i \in DOMAIN found : found[i] \in ToSet(candidates)
             /\ \A i \in DOMAIN found, c \in ToSet(candidates) :
                  c \in {found[j] : j \in 1 .. i - 1} \/ Relevance[found[i]] >= Relevance[c]
  <2>1. PICK reply \in [1 .. n -> 1 .. n] :
          /\ Complete(candidates, reply) /\ lookup.rerank
          /\ found = Reranked(candidates, reply, lookup.limit)
    BY <1>6, <1>7
  <2>2. QED
    BY SMTT(30), <1>1, <1>2, <1>3, <2>1, RerankedAre DEF n
<1>8. OnlyAdmissible
  <2>1. \A i \in DOMAIN found : found[i] \in ToSet(candidates)
    BY <1>5, <1>7
  <2>2. \A c \in ToSet(found) : c \in Similar \cup Naming
    BY <1>4, <2>1 DEF ToSet
  <2>3. QED
    BY <2>2 DEF OnlyAdmissible, Similar, Naming
<1>9. RerankedByOwnScore
  BY <1>7 DEF RerankedByOwnScore, candidates, cut
<1>10. StoresAgree
  BY <1>1, StoresAgreeHere
<1>11. QED
  BY <1>8, <1>9, <1>10 DEF FoundInv

\* A search returns only chunks that are similar enough or name an
\* identifier of the question, the same from either store where ties are
\* broken alike, and in the order of the reranker's scores, each of its own
\* text, if there is a complete reply (hybrid_search, search_hybrid,
\* rerank_candidates): for any chunks, similarities, words and limits.
THEOREM SearchFindsWhatItMay == RetrievalSpec => []FoundInv
<1>1. RetrievalInit => RetrievalIInv
  BY RetrievalInitInv
<1>2. RetrievalIInv /\ [RetrievalNext]_retrievalVars => RetrievalIInv'
  <2>1. CASE RetrievalNext
    BY <2>1, AskStoreInv, FindChunksInv DEF RetrievalNext
  <2>2. ASSUME RetrievalIInv, UNCHANGED retrievalVars PROVE RetrievalIInv'
    <3>1. lookup' = lookup /\ match' = match /\ found' = found
      BY <2>2 DEF retrievalVars
    <3>2. FromTheFusion'
      BY <2>2, <3>1, FromTheFusionKept DEF RetrievalIInv
    <3>3. QED
      BY <2>2, <3>1, <3>2 DEF RetrievalIInv, RetrievalTypeOK
  <2>3. QED
    BY <2>1, <2>2
<1>3. RetrievalIInv => FoundInv
  BY FoundHere
<1>4. QED
  BY <1>1, <1>2, <1>3, PTL DEF RetrievalSpec

=============================================================================
