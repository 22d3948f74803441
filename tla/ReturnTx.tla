------------------------------ MODULE ReturnTx ------------------------------
(***************************************************************************)
(* The transactions of the return store in PostgreSQL, by the statements   *)
(* in which they meet other transactions at READ COMMITTED.                *)
(*                                                                         *)
(* Every call first locks the row of its order (withLockedOrder) until it  *)
(* commits, so that the calls of one order follow each other; ReturnDraft  *)
(* has them in full.  But the row of the policy is read once or twice,     *)
(* and FOR SHARE locks it only if there is one, while a first policy waits *)
(* for the row of its order, which it references (V4, order_id); the       *)
(* drafts of all orders are counted before one is inserted; and the        *)
(* /service endpoint confirms (confirm_draft, service_api.py) what it read *)
(* in a transaction before.                                                *)
(***************************************************************************)
EXTENDS Naturals, FiniteSets

CONSTANTS
  Goods,         \* orders
  Followed,      \* bound: those that change and are more than started
  Contents,      \* what a row of orders may say
  Rules,         \* rows of order_return_policies
  NoRule,        \* there is none yet
  Returnable,    \* contents: canApply, which no policy takes away
  Unquestioned,  \* <<content, rule>>: NO_REASON_ALLOWED
  Workers,       \* requests served at a time
  DraftLimit,    \* 10000
  Hour,
  LastTick,      \* bound: the clock stops here
  MaxRows        \* bound: draft ids of an order

ASSUME LimitAssumption == DraftLimit \in Nat \ {0} /\ Hour \in Nat \ {0} /\ MaxRows \in Nat
ASSUME RulesAssumption == NoRule \notin Rules
ASSUME FollowedAssumption == Followed \subseteq Goods
ASSUME WorkersAssumption == IsFiniteSet(Workers)

VARIABLES
  content,       \* table orders
  rule,          \* table order_return_policies
  clock,
  rows,          \* table return_drafts; id 0 where an order has no row
  issuedIds,     \* draft ids handed out to each order
  shownRows,     \* history: what each id stood for
  made,          \* table return_applications, and the page it was confirmed on
  jobs           \* what each worker is doing

txVars == <<content, rule, clock, rows, issuedIds, shownRows, made, jobs>>

NoPage == [content |-> NoRule, expires |-> 0]
IdleJob == [step |-> "idle", call |-> "none", good |-> NoRule, id |-> 0, page |-> NoPage,
            first |-> NoRule, second |-> NoRule]
NoRow == [id |-> 0, content |-> NoRule, rule |-> NoRule, expires |-> 0, review |-> "none", cancelled |-> FALSE]

Running(w) == jobs[w].step \in {"open", "read", "decided"}

\* Seeded fault: a cancellation, which needs nothing of the order, does not
\* lock it.
BusyUnlessCancelled(g) == \E w \in Workers : Running(w) /\ jobs[w].good = g /\ jobs[w].call # "cancel"

\* A transaction holds the row of the order.
Busy(g) == \E w \in Workers : Running(w) /\ jobs[w].good = g

\* Seeded fault: only a confirmation reads the policy FOR SHARE.
SharedByConfirm(g) ==
  \E w \in Workers : Running(w) /\ jobs[w].good = g /\ jobs[w].call = "confirm" /\ jobs[w].first # NoRule

\* A transaction holds the row of the policy: there was one when it read.
Shared(g) ==
  \E w \in Workers : /\ Running(w) /\ jobs[w].good = g
                     /\ {jobs[w].first, jobs[w].second} # {NoRule}

RowOf(j) == rows[j.good]
MadeFor(g) == {a \in made : a.good = g}

\* Seeded fault: a draft keeps its value when the policy changes.
StaleByOrder(j, r) == content[j.good] # RowOf(j).content

\* orderSnapshotChanged, for the policy r it sees.
Stale(j, r) == content[j.good] # RowOf(j).content \/ r # RowOf(j).rule

CanReturn(j) == content[j.good] \in Returnable

Accepted(j) ==
  IF RowOf(j).review = "none" THEN <<RowOf(j).content, RowOf(j).rule>> \in Unquestioned
  ELSE RowOf(j).review = "acceptable"

\* What the checks of a call say, once all are made.  submit evaluates the
\* order before it compares it with the draft, the others afterwards.
Granted(j) ==
  CASE j.call = "start" -> CanReturn(j)
    [] j.call = "cancel" -> TRUE
    [] j.call = "submit" -> ~Stale(j, j.second) /\ CanReturn(j)
    [] j.call = "confirm" -> ~Stale(j, j.first) /\ CanReturn(j) /\ Accepted(j)
    [] j.call = "refresh" -> Stale(j, j.first) /\ CanReturn(j)

----------------------------------------------------------------------------
(* The statements.                                                         *)

Continues(w, job) == jobs' = [jobs EXCEPT ![w] = job]
Stays == UNCHANGED <<content, rule, clock, rows, issuedIds, shownRows, made>>

\* What the row of the draft says before anything else is read.  The calls
\* that end here have written nothing.
Admissible(j) ==
  CASE j.call = "start" -> RowOf(j).id = 0
    [] j.call = "submit" -> ~RowOf(j).cancelled /\ RowOf(j).review = "none" /\ clock < RowOf(j).expires
    [] j.call = "confirm" -> ~RowOf(j).cancelled /\ MadeFor(j.good) = {} /\ clock < RowOf(j).expires
    [] j.call = "cancel" -> MadeFor(j.good) = {}
    [] j.call = "refresh" -> ~RowOf(j).cancelled /\ MadeFor(j.good) = {}

\* SELECT ... FOR UPDATE of the order, then of the draft.
OpenTransaction(w) ==
  /\ \/ /\ jobs[w].step = "idle"
        /\ \E g \in Goods : Continues(w, [IdleJob EXCEPT !.step = "open", !.call = "start", !.good = g])
     \/ /\ jobs[w].step = "idle"
        /\ \E g \in Followed, call \in {"submit", "confirm", "cancel", "refresh"} : \E id \in 1 .. issuedIds[g] :
             Continues(w, [IdleJob EXCEPT !.step = "open", !.call = call, !.good = g, !.id = id])
     \/ jobs[w].step = "shown" /\ Continues(w, [jobs[w] EXCEPT !.step = "open", !.call = "confirm"])
  /\ LET j == jobs'[w]
     IN  ~Busy(j.good) /\ RowOf(j).id = j.id /\ Admissible(j)
  /\ Stays

\* confirm_draft: the page sends what it showed; a transaction of its own
\* reads the draft.
GetForService(w) ==
  /\ jobs[w].step = "idle"
  /\ \E g \in Followed, s \in shownRows :      \* of this draft or of another
       /\ ~Busy(g) /\ rows[g].id # 0
       /\ rows[g].content = s.content /\ rows[g].expires = s.expires
       /\ Continues(w, [IdleJob EXCEPT !.step = "shown", !.good = g, !.id = rows[g].id,
                                  !.page = [content |-> s.content, expires |-> s.expires]])
  /\ Stays

\* The first look at the policy; start has only this one.
ReadPolicy(w) ==
  /\ jobs[w].step = "open" /\ jobs[w].call # "cancel"
  /\ jobs[w].call = "start" => CanReturn(jobs[w])
  /\ Continues(w, [jobs[w] EXCEPT !.first = rule[jobs[w].good], !.step = "read"])
  /\ Stays

\* Seeded fault: one draft more than the limit is let in.
RoomForOneMore == Cardinality({g \in Goods : rows[g].id # 0}) <= DraftLimit

\* SELECT COUNT(*): the drafts that are committed.
Room == Cardinality({g \in Goods : rows[g].id # 0}) < DraftLimit

CountDrafts(w) ==
  /\ jobs[w].step = "read" /\ jobs[w].call = "start"
  /\ Room
  /\ Continues(w, [jobs[w] EXCEPT !.second = jobs[w].first, !.step = "decided"])
  /\ Stays

\* The second look.
ReadPolicyAgain(w) ==
  /\ jobs[w].step = "read" /\ jobs[w].call # "start"
  /\ Continues(w, [jobs[w] EXCEPT !.second = rule[jobs[w].good], !.step = "decided"])
  /\ Stays

\* Seeded fault: a refreshed draft keeps its id.
NewIdKept(j) == IF RowOf(j).id = 0 THEN 1 ELSE RowOf(j).id

NewId(j) == issuedIds[j.good] + 1

WriteDraft(j) ==
  LET row == [NoRow EXCEPT !.id = NewId(j), !.content = content[j.good], !.rule = j.second,
                           !.expires = clock + Hour]
  IN  /\ issuedIds[j.good] < MaxRows
      /\ issuedIds' = [issuedIds EXCEPT ![j.good] = @ + 1]
      /\ rows' = [rows EXCEPT ![j.good] = row]
      /\ shownRows' = shownRows \cup {[id |-> row.id, good |-> j.good, content |-> row.content,
                                      rule |-> row.rule, expires |-> row.expires]}
      /\ UNCHANGED made

WriteReview(j) ==
  /\ \E review \in {"acceptable", "rejected"} : rows' = [rows EXCEPT ![j.good].review = review]
  /\ UNCHANGED <<issuedIds, shownRows, made>>

\* ON CONFLICT (draft_id) DO NOTHING.
WriteApplication(j) ==
  /\ made' = IF \E a \in made : a.good = j.good /\ a.id = j.id THEN made
             ELSE made \cup {[id |-> j.id, good |-> j.good, content |-> content[j.good], page |-> j.page]}
  /\ UNCHANGED <<rows, issuedIds, shownRows>>

WriteCancelled(j) ==
  /\ rows' = [rows EXCEPT ![j.good].cancelled = TRUE]
  /\ UNCHANGED <<issuedIds, shownRows, made>>

\* The write, and COMMIT.
Commit(w) ==
  LET j == jobs[w]
  IN  /\ j.step = (IF j.call = "cancel" THEN "open" ELSE "decided") /\ Granted(j)
      /\ \/ j.call \in {"start", "refresh"} /\ WriteDraft(j)
         \/ j.call = "submit" /\ WriteReview(j)
         \/ j.call = "confirm" /\ WriteApplication(j)
         \/ j.call = "cancel" /\ WriteCancelled(j)
      /\ Continues(w, IdleJob)
      /\ UNCHANGED <<content, rule, clock>>

\* A refusal, a lost connection, the end of the process.
RollBack(w) == jobs[w].step # "idle" /\ Continues(w, IdleJob) /\ Stays

----------------------------------------------------------------------------
(* Other systems write single rows, and wait for those that are locked; to *)
(* insert a policy is to lock the key of its order.                        *)

CorrectOrder(g) ==
  /\ ~Busy(g)
  /\ \E c \in Contents : content' = [content EXCEPT ![g] = c]
  /\ UNCHANGED <<rule, clock, rows, issuedIds, shownRows, made, jobs>>

RecordPolicy(g) ==
  /\ ~Shared(g)
  /\ rule[g] = NoRule => ~Busy(g)
  /\ \E r \in Rules : rule' = [rule EXCEPT ![g] = r]
  /\ UNCHANGED <<content, clock, rows, issuedIds, shownRows, made, jobs>>

HourPasses ==
  /\ clock < LastTick
  /\ clock' = clock + 1
  /\ UNCHANGED <<content, rule, rows, issuedIds, shownRows, made, jobs>>

TxInit ==
  /\ content \in [Goods -> Contents] /\ rule = [g \in Goods |-> NoRule]
  /\ clock = 0 /\ issuedIds = [g \in Goods |-> 0] /\ shownRows = {} /\ made = {}
  /\ rows = [g \in Goods |-> NoRow]
  /\ jobs = [w \in Workers |-> IdleJob]

TxNext ==
  \/ \E w \in Workers : \/ OpenTransaction(w) \/ GetForService(w) \/ ReadPolicy(w) \/ CountDrafts(w)
                         \/ ReadPolicyAgain(w) \/ Commit(w) \/ RollBack(w)
  \/ \E g \in Followed : CorrectOrder(g) \/ RecordPolicy(g)
  \/ HourPasses

TxSpec == TxInit /\ [][TxNext]_txVars

----------------------------------------------------------------------------
(* Correctness.                                                            *)

CallNames == {"start", "submit", "confirm", "cancel", "refresh"}
Pages == [content : Contents \cup {NoRule}, expires : Nat]
RowRecords ==
  [id : Nat, content : Contents \cup {NoRule}, rule : Rules \cup {NoRule}, expires : Nat,
   review : {"none", "acceptable", "rejected"}, cancelled : BOOLEAN]
ShownRecords ==
  [id : Nat, good : Goods, content : Contents, rule : Rules \cup {NoRule}, expires : Nat]
MadeRecords == [id : Nat, good : Goods, content : Contents, page : Pages]
JobRecords ==
  [step : {"idle", "shown", "open", "read", "decided"}, call : CallNames \cup {"none"},
   good : Goods \cup {NoRule}, id : Nat, page : Pages,
   first : Rules \cup {NoRule}, second : Rules \cup {NoRule}]

\* A worker is where its call takes it; every call but start is about an id.
WellFormedJob(j) ==
  /\ j.step = "idle" => j = IdleJob
  /\ j.step # "idle" => j.good \in Goods /\ (j.id = 0 <=> j.call = "start")
  /\ j.step = "shown" => j.call = "none"
  /\ j.step \in {"open", "read", "decided"} => j.call \in CallNames
  /\ j.step \in {"shown", "open"} => j.first = NoRule /\ j.second = NoRule

\* The types of tables, histories and workers.
TxTypeOK ==
  /\ content \in [Goods -> Contents]
  /\ rule \in [Goods -> Rules \cup {NoRule}]
  /\ clock \in Nat
  /\ rows \in [Goods -> RowRecords]
  /\ issuedIds \in [Goods -> Nat]
  /\ shownRows \subseteq ShownRecords
  /\ made \subseteq MadeRecords
  /\ jobs \in [Workers -> JobRecords]
  /\ \A w \in Workers : WellFormedJob(jobs[w])

\* When an application is committed the order still is what its draft
\* showed, and so is its policy, though one transaction looked and another
\* may have written since: what was there is locked, and what was not there
\* cannot come.
AuthorisedAtCommit ==
  [][\A a \in made' \ made :
       \E s \in shownRows :
         /\ s.id = a.id /\ s.good = a.good
         /\ s.content = a.content /\ s.content = content[a.good]
         /\ s.rule = rule[a.good]]_txVars

\* A refresh, which buys another hour, always shows something new, though it
\* takes the new draft from another look at the policy than the one that
\* found the old draft stale.
RefreshBringsNews ==
  [][\A g \in Goods :
       rows[g].id # 0 /\ rows'[g].expires # rows[g].expires =>
         <<rows'[g].content, rows'[g].rule>> # <<rows[g].content, rows[g].rule>>]_txVars

\* count() and the insert are two statements: the limit may be passed, but
\* never by more than the requests served at the same time.
LimitPassedByFew == Cardinality({g \in Goods : rows[g].id # 0}) < DraftLimit + Cardinality(Workers)

\* What /service confirms is what its page showed, though it reads and
\* confirms in two transactions: a refresh in between takes the id away.
ShownIsConfirmed ==
  \A a \in made : a.page # NoPage =>
    \E s \in shownRows : s.good = a.good /\ s.id = a.id /\ [content |-> s.content, expires |-> s.expires] = a.page
                         /\ s.content = a.content

\* An order that was given back was not also cancelled, and was given back
\* once, whatever calls were served at the same time.
SettledOnce ==
  \A g \in Goods :
    /\ Cardinality(MadeFor(g)) <= 1
    /\ \A a \in MadeFor(g) : ~rows[g].cancelled /\ rows[g].id = a.id

\* The invariant of the store, whatever transactions run beside each other.
TxInv == TxTypeOK /\ LimitPassedByFew /\ ShownIsConfirmed /\ SettledOnce

\* What the tables say of an order's return; an id is the order's own.
NothingStands == [phase |-> "none"]
StandingDeal(g) ==
  IF rows[g].id = 0 THEN NothingStands
  ELSE [phase |-> IF rows[g].cancelled THEN "cancelled" ELSE IF MadeFor(g) # {} THEN "applied" ELSE "open",
        id |-> <<g, rows[g].id>>, terms |-> rows[g].content]

\* The transactions keep the promise that the calls of ReturnDraft keep one
\* after the other: whatever runs beside it, a commit makes an offer under a
\* new id, settles the one that stands, or changes neither.
StorePromise == INSTANCE ReturnPromise WITH
  Orders <- Goods, Ids <- Goods \X (1 .. MaxRows), Terms <- Contents, NoDeal <- NothingStands,
  deal   <- [g \in Goods |-> StandingDeal(g)],
  issued <- {<<s.good, s.id>> : s \in shownRows}
StoreKeepsPromise == StorePromise!PromiseSpec

----------------------------------------------------------------------------
(* Why these hold: with the following the proofs go by induction.          *)

\* Each transaction has its order to itself, so that the draft stays as the
\* transaction found it.
OneAtATime ==
  \A v, w \in Workers : Running(v) /\ Running(w) /\ jobs[v].good = jobs[w].good => v = w

FoundStays ==
  \A w \in Workers :
    LET j == jobs[w]
    IN  Running(w)
          => /\ RowOf(j).id = j.id
             /\ j.call \in {"confirm", "refresh"} => ~RowOf(j).cancelled
             /\ j.call \in {"start", "confirm", "cancel", "refresh"} => MadeFor(j.good) = {}

\* What a transaction read of the policy is what it says until the end.
PolicyRead ==
  \A w \in Workers :
    LET j == jobs[w]
    IN  /\ j.step \in {"read", "decided"} => rule[j.good] = j.first
        /\ j.step = "decided" => j.second = j.first

\* An id stands for one content, for as long as there is a draft.
ShownById ==
  /\ \A s \in shownRows : s.id <= issuedIds[s.good]
  /\ \A s, t \in shownRows : s.good = t.good /\ s.id = t.id => s = t
  /\ \A g \in Goods :
       LET row == rows[g]
       IN  row.id # 0 => [id |-> row.id, good |-> g, content |-> row.content, rule |-> row.rule,
                          expires |-> row.expires] \in shownRows

\* What a worker of /service read of the draft it confirms.
PageRead ==
  \A w \in Workers :
    LET j == jobs[w]
    IN  j.page # NoPage =>
          \E s \in shownRows :
            s.good = j.good /\ s.id = j.id /\ [content |-> s.content, expires |-> s.expires] = j.page

\* An order is given back once, as the draft that it has.
OneApplication ==
  /\ \A a, b \in made : a.good = b.good => a = b
  /\ \A a \in made : ~rows[a.good].cancelled /\ rows[a.good].id = a.id /\ a.id # 0

\* Whoever counted and did not write yet is one of the workers.
Taken == {g \in Goods : rows[g].id # 0}
Counted == {w \in Workers : jobs[w].step = "decided" /\ jobs[w].call = "start"}
CountedInTime ==
  /\ IsFiniteSet(Taken)
  /\ Cardinality(Taken) + Cardinality(Counted) < DraftLimit + Cardinality(Workers)

TxInduction ==
  /\ TxTypeOK /\ OneAtATime /\ FoundStays /\ PolicyRead
  /\ ShownById /\ PageRead /\ OneApplication /\ ShownIsConfirmed /\ CountedInTime
=============================================================================
