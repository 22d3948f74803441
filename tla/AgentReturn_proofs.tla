------------------------- MODULE AgentReturn_proofs -------------------------
(***************************************************************************)
(* Proofs about AgentReturn for every set of orders and threads: whatever  *)
(* conversations, late requests and crashes do, nothing is applied for     *)
(* that no customer said yes to, and what a conversation was told stays    *)
(* true.  The proofs about the service by itself are ReturnDraft_proofs.   *)
(***************************************************************************)
EXTENDS AgentReturn, ReturnDraft_proofs

----------------------------------------------------------------------------
(* What the service's steps keep of what conversations know.               *)

\* A draft that is found has an id.
LEMMA FoundId ==
  ASSUME TypeOK, NEW o \in Orders, NEW d, Found(o, d)
  PROVE  d \in Ids /\ o \in Drafted /\ drafts[o] \in Drafts
BY DEF Found, TypeOK, Drafted, Drafts

\* Only start and refresh make an offer, and under a new id.
LEMMA OffersStep ==
  ASSUME TypeOK, Bookkeeping, OffersIdentified, [Next]_vars
  PROVE  OffersIdentified' /\ offers \subseteq offers'
<1>1. ASSUME NEW o \in Orders, uuids < MaxIds,
             offers' = offers \cup {OfferOf(o, Snapshot(o, uuids + 1))}
      PROVE  OffersIdentified' /\ offers \subseteq offers'
  <2>1. \A x \in offers : x.draft # uuids + 1
    <3>1. SUFFICES ASSUME NEW x \in offers PROVE x.draft # uuids + 1
      OBVIOUS
    <3>2. x.order \in Drafted /\ x.draft <= drafts[x.order].id /\ drafts[x.order].id <= uuids
      BY DEF Bookkeeping, LatestOffer
    <3>3. x.draft \in Int /\ drafts[x.order].id \in Int /\ uuids \in Int
      BY <3>2 DEF TypeOK, Offers, Ids, Drafted, Drafts
    <3>4. QED
      BY <3>2, <3>3
  <2>2. OfferOf(o, Snapshot(o, uuids + 1)).draft = uuids + 1
    BY DEF OfferOf, Snapshot
  <2>3. QED
    BY <1>1, <2>1, <2>2 DEF OffersIdentified
<1>2. CASE UNCHANGED offers
  BY <1>2 DEF OffersIdentified
<1>3. QED
  BY <1>1, <1>2 DEF Next, Calls, Environment, Start, Submit, Confirm, Cancel, Refresh,
                    Tick, ChangeOrder, ChangePolicy, history, vars

\* The row of an order keeps its id, and then its review, its hour and its
\* cancellation; or it gets a new id.
LEMMA RowStep ==
  ASSUME TypeOK, [Next]_vars, NEW o \in Drafted
  PROVE  \/ /\ drafts'[o].id = drafts[o].id
            /\ drafts'[o].expires = drafts[o].expires
            /\ drafts[o].cancelled => drafts'[o].cancelled
            /\ drafts[o].result # NULL => /\ drafts'[o].result = drafts[o].result
                                          /\ drafts'[o].submitted = drafts[o].submitted
         \/ drafts'[o].id = uuids + 1
<1>1. drafts[o] \in Drafts /\ drafts[o] # NoDraft /\ o \in Orders
  BY DEF TypeOK, Drafted
<1>2. CASE \E p \in Orders : Start(p) \/ \E d \in Ids : Refresh(p, d)
  <2>1. PICK p \in Orders : Start(p) \/ \E d \in Ids : Refresh(p, d)
    BY <1>2
  <2>2. drafts' = [drafts EXCEPT ![p] = Snapshot(p, uuids + 1)]
    BY <2>1 DEF Start, Refresh
  <2>3. Snapshot(p, uuids + 1).id = uuids + 1
    BY DEF Snapshot
  <2>4. drafts'[o] = IF o = p THEN Snapshot(p, uuids + 1) ELSE drafts[o]
    BY <1>1, <2>2 DEF TypeOK
  <2>5. QED
    BY <2>3, <2>4
<1>3. CASE \E p \in Orders, d \in Ids, request \in Requests : Submit(p, d, request)
  <2>1. PICK p \in Orders, d \in Ids, request \in Requests : Submit(p, d, request)
    BY <1>3
  <2>2. CASE p = o
    <3>1. drafts[o].result = NULL
      BY <2>1, <2>2 DEF Submit
    <3>2. drafts'[o] = [drafts[o] EXCEPT !.submitted = request,
                                         !.result = Review(drafts[o].eligibility, request.code)]
      BY <1>1, <2>1, <2>2 DEF Submit, TypeOK
    <3>3. QED
      BY <1>1, <3>1, <3>2 DEF Drafts
  <2>3. CASE p # o
    BY <1>1, <2>1, <2>3 DEF Submit, TypeOK
  <2>4. QED
    BY <2>2, <2>3
<1>4. CASE \E p \in Orders, d \in Ids : Cancel(p, d)
  <2>1. PICK p \in Orders, d \in Ids : Cancel(p, d)
    BY <1>4
  <2>2. CASE p = o
    <3>1. drafts'[o] = [drafts[o] EXCEPT !.cancelled = TRUE]
      BY <1>1, <2>1, <2>2 DEF Cancel, TypeOK
    <3>2. QED
      BY <1>1, <3>1 DEF Drafts
  <2>3. CASE p # o
    BY <1>1, <2>1, <2>3 DEF Cancel, TypeOK
  <2>4. QED
    BY <2>2, <2>3
<1>5. CASE UNCHANGED drafts
  BY <1>5
<1>6. QED
  BY <1>2, <1>3, <1>4, <1>5 DEF Next, Calls, Environment, Confirm, Tick, ChangeOrder,
                                ChangePolicy, tables, vars

\* Applications stay as they are, and the clock does not go back.
LEMMA ServiceGrows ==
  ASSUME TypeOK, [Next]_vars
  PROVE  applications \subseteq applications' /\ now <= now'
<1>1. applications \subseteq applications'
  <2>1. ASSUME NEW o \in Orders, NEW d \in Ids, Refresh(o, d) PROVE applications \subseteq applications'
    BY <2>1, RefreshMovesNothing
  <2>2. ASSUME NEW o \in Orders, NEW d \in Ids, Confirm(o, d) PROVE applications \subseteq applications'
    BY <2>2 DEF Confirm
  <2>3. QED
    BY <2>1, <2>2 DEF Next, Calls, Environment, Start, Submit, Cancel, Tick, ChangeOrder,
                      ChangePolicy, tables, vars
<1>2. now <= now'
  <2>1. now \in Nat /\ MaxNow \in Nat
    BY ClockAssumption DEF TypeOK
  <2>2. ASSUME NEW o \in Orders, NEW d \in Ids, Confirm(o, d) PROVE now' \in now..MaxNow \/ now' = now
    BY <2>2 DEF Confirm
  <2>3. now' \in {now, now + 1} \/ now' \in now..MaxNow
    BY <2>2 DEF Next, Calls, Environment, Start, Submit, Cancel, Refresh, Tick,
                ChangeOrder, ChangePolicy, environment, vars
  <2>4. QED
    BY <2>1, <2>3
<1>3. QED
  BY <1>1, <1>2

\* Who shows an offer shows what the row says, as long as it has that id; and
\* another order's row has another.
LEMMA OfferIsRow ==
  ASSUME TypeOK, Bookkeeping, OffersIdentified, NEW offer \in offers,
         NEW o \in Orders, Found(o, offer.draft)
  PROVE  offer = OfferOf(o, drafts[o]) /\ offer.order = o /\ offer.terms = drafts[o].terms
<1>1. o \in Drafted /\ drafts[o].id = offer.draft
  BY DEF Found, Drafted
<1>2. OfferOf(o, drafts[o]) \in offers
  BY <1>1 DEF Bookkeeping, LatestOffer
<1>3. OfferOf(o, drafts[o]).draft = offer.draft
  BY <1>1 DEF OfferOf
<1>4. offer = OfferOf(o, drafts[o])
  BY <1>2, <1>3 DEF OffersIdentified
<1>5. QED
  BY <1>4 DEF OfferOf

\* The id of an offer whose row has got another never comes back.
LEMMA NoReturn ==
  ASSUME TypeOK, Bookkeeping, [Next]_vars, NEW offer \in offers, Found(offer.order, offer.draft)'
  PROVE  /\ offer.order \in Drafted
         /\ Found(offer.order, offer.draft)
         /\ drafts'[offer.order].expires = drafts[offer.order].expires
         /\ drafts[offer.order].cancelled => drafts'[offer.order].cancelled
         /\ drafts[offer.order].result # NULL =>
              /\ drafts'[offer.order].result = drafts[offer.order].result
              /\ drafts'[offer.order].submitted = drafts[offer.order].submitted
<1>1. PICK o \in Drafted : o = offer.order
  BY DEF Bookkeeping, LatestOffer
<1>2. PICK d \in Ids : d = offer.draft
  BY DEF TypeOK, Offers
<1>3. d <= drafts[o].id /\ drafts[o].id <= uuids
  BY <1>1, <1>2 DEF Bookkeeping, LatestOffer
<1>4. drafts[o].id \in Int /\ uuids \in Int /\ d \in Int
  BY <1>1, <1>2 DEF TypeOK, Drafted, Drafts, Ids
<1>5. drafts'[o].id = d
  BY <1>1, <1>2 DEF Found
<1>6. d # uuids + 1
  BY <1>3, <1>4
<1>7. QED
  BY <1>1, <1>2, <1>5, <1>6, RowStep DEF Found, Drafted

\* A draft that is over stays over.
LEMMA OverStays ==
  ASSUME TypeOK, Bookkeeping, OffersIdentified, [Next]_vars,
         NEW offer \in offers, Over(offer.order, offer.draft)
  PROVE  Over(offer.order, offer.draft)'
<1>1. PICK o \in Drafted : o = offer.order
  BY DEF Bookkeeping, LatestOffer
<1>2. PICK d \in Ids : d = offer.draft
  BY DEF TypeOK, Offers
<1>3. ApplicationsOf(d) = {} /\ (Found(o, d) => drafts[o].cancelled \/ ~Live(o)) /\ o \in Orders
  BY <1>1, <1>2 DEF Over, Drafted
<1>4. ASSUME NEW a \in applications', a.draft = d PROVE FALSE
  <2>1. a \notin applications
    BY <1>3, <1>4 DEF ApplicationsOf
  <2>2. PICK p \in Orders, e \in Ids :
          /\ Confirm(p, e) /\ ~Applied(p)
          /\ a = ApplicationFor(p, e)
    BY <2>1, NewApplicationStep
  <2>3. e = d
    BY <1>4, <2>2 DEF ApplicationFor
  <2>4. Found(p, d) /\ ~drafts[p].cancelled /\ Live(p)
    BY <2>2, <2>3 DEF Confirm, ConfirmOutcome
  <2>5. p = o
    BY <1>1, <1>2, <2>4, OfferIsRow
  <2>6. QED
    BY <1>3, <2>4, <2>5
<1>5. ASSUME Found(o, d)' PROVE drafts'[o].cancelled \/ ~Live(o)'
  <2>1. /\ Found(o, d)
        /\ drafts'[o].expires = drafts[o].expires
        /\ drafts[o].cancelled => drafts'[o].cancelled
    BY <1>1, <1>2, <1>5, NoReturn
  <2>2. now <= now' /\ now \in Int /\ drafts[o].expires \in Int
    BY <1>1, ServiceGrows DEF TypeOK, Drafted, Drafts
  <2>3. now' \in Int
    BY TypesStep DEF TypeOK
  <2>4. QED
    BY <1>3, <2>1, <2>2, <2>3 DEF Live
<1>6. ApplicationsOf(d)' = {}
  BY <1>4 DEF ApplicationsOf
<1>7. QED
  BY <1>1, <1>2, <1>5, <1>6 DEF Over

\* What makes a checkpoint one that a thread may have.
LEMMA KeptWhen ==
  ASSUME NEW run \in Runs, Shaped(run), ShowsOffer(run), EndHolds(run), ReviewHolds(run), SaidYes(run)
  PROVE  run \in Kept
BY DEF Kept

LEMMA KeptWhenNext ==
  ASSUME NEW run \in Runs, Shaped(run), ShowsOffer(run)', EndHolds(run)', ReviewHolds(run)', SaidYes(run)'
  PROVE  run \in Kept'
BY DEF Kept

LEMMA KeptIs ==
  ASSUME NEW run \in Kept
  PROVE  /\ run \in Runs
         /\ Shaped(run) /\ ShowsOffer(run) /\ EndHolds(run) /\ ReviewHolds(run) /\ SaidYes(run)
BY DEF Kept

LEMMA KeptIsNext ==
  ASSUME NEW run \in Kept'
  PROVE  /\ run \in Runs
         /\ Shaped(run) /\ ShowsOffer(run)' /\ EndHolds(run)' /\ ReviewHolds(run)' /\ SaidYes(run)'
BY DEF Kept

\* What a run was told stays true through every step of the service, whoever
\* asked for it.
LEMMA KeptStays ==
  ASSUME TypeOK, Bookkeeping, OffersIdentified, [Next]_vars, approvals \subseteq approvals'
  PROVE  Kept \subseteq Kept'
<1>1. SUFFICES ASSUME NEW run \in Kept PROVE run \in Kept'
  OBVIOUS
<1>2. run \in Runs /\ Shaped(run) /\ ShowsOffer(run) /\ EndHolds(run) /\ ReviewHolds(run) /\ SaidYes(run)
  BY KeptIs
<1>3. offers \subseteq offers' /\ applications \subseteq applications'
  BY OffersStep, ServiceGrows
<1>4. ShowsOffer(run)' /\ SaidYes(run)'
  BY <1>2, <1>3 DEF ShowsOffer, SaidYes
<1>5. EndHolds(run)'
  <2>1. CASE run.draft = NULL
    BY <1>2, <1>3, <2>1 DEF EndHolds, Shaped
  <2>2. CASE run.draft # NULL
    <3>1. PICK offer \in offers : offer.draft = run.draft.id /\ offer.order = run.order
      BY <1>2, <2>2 DEF ShowsOffer
    <3>2. Over(run.order, run.draft.id) => Over(run.order, run.draft.id)'
      BY <3>1, OverStays DEF Over, Found, Live, ApplicationsOf
    <3>3. QED
      BY <1>2, <1>3, <3>2 DEF EndHolds
  <2>3. QED
    BY <2>1, <2>2
<1>6. ReviewHolds(run)'
  <2>1. SUFFICES ASSUME run.next = "await_return_confirmation", run.draft.status = "REVIEWED",
                        Found(run.order, run.draft.id)'
                 PROVE  /\ drafts'[run.order].submitted = run.reason
                        /\ drafts'[run.order].result # NULL
                        /\ drafts'[run.order].result.decision = "ACCEPTABLE"
    BY DEF ReviewHolds
  <2>2. run.draft # NULL
    BY <1>2, <2>1 DEF Shaped
  <2>3. PICK offer \in offers : offer.draft = run.draft.id /\ offer.order = run.order
    BY <1>2, <2>2 DEF ShowsOffer
  <2>4. Found(offer.order, offer.draft)'
    BY <2>1, <2>3 DEF Found
  <2>5. /\ Found(run.order, run.draft.id)
        /\ drafts[run.order].result # NULL =>
              /\ drafts'[run.order].result = drafts[run.order].result
              /\ drafts'[run.order].submitted = drafts[run.order].submitted
    BY <2>3, <2>4, NoReturn
  <2>6. QED
    BY <1>2, <2>1, <2>5 DEF ReviewHolds
<1>7. QED
  BY <1>2, <1>4, <1>5, <1>6, KeptWhenNext

----------------------------------------------------------------------------
(* What is seen of a run (AgentRun).                                       *)

Views == [at : Life!Places, status : RunStatuses, draft : Ids \cup {NULL}, applied : BOOLEAN]

LEMMA SeenIs ==
  ASSUME NEW run \in Runs
  PROVE  /\ Seen(run) = Life!RunView(Place[run.next], run.status,
                                     IF run.draft = NULL THEN NULL ELSE run.draft.id,
                                     run.application # NULL)
         /\ Seen(run) \in Views /\ Seen(run) # NoRun
<1>1. run # NoRun
  BY MissingAssumption
<1>2. Seen(run) = Life!RunView(Place[run.next], run.status,
                               IF run.draft = NULL THEN NULL ELSE run.draft.id,
                               run.application # NULL)
  BY <1>1 DEF Seen, Life!RunView
<1>3. Place[run.next] \in Life!Places /\ run.status \in RunStatuses
  BY DEF Runs, Nodes, Place, Life!Places
<1>4. (IF run.draft = NULL THEN NULL ELSE run.draft.id) \in Ids \cup {NULL}
  BY DEF Runs, Shown
<1>5. (run.application # NULL) \in BOOLEAN
  OBVIOUS
<1>6. ASSUME NEW at \in Life!Places, NEW status \in RunStatuses, NEW draft \in Ids \cup {NULL},
             NEW applied \in BOOLEAN
      PROVE  Life!RunView(at, status, draft, applied) \in Views
  BY DEF Life!RunView, Views
<1>7. Seen(run) \in Views
  BY <1>2, <1>3, <1>4, <1>5, <1>6, Zenon
<1>8. QED
  BY <1>2, <1>7, ViewAssumption DEF Views

LEMMA Places ==
  /\ Place["read_tool"] = "start" /\ Place["prepare_return_draft"] = "start"
  /\ Place["ask_return_reason"] = "reason" /\ Place["finish_reason_collection"] = "review"
  /\ Place["await_return_confirmation"] = "confirm" /\ Place["execute_return"] = "execute"
  /\ Place["cancel_return"] = "cancel" /\ Place["END"] = "end"
BY DEF Place

\* The ways a run moves on are among those AgentRun names.
LEMMA LifeSteps ==
  ASSUME NEW view, view # NoRun
  PROVE  /\ Life!NodeSteps(view) \subseteq Life!RunSteps(view)
         /\ Life!RefreshSteps(view) \subseteq Life!RunSteps(view)
         /\ Life!UndoSteps(view) \subseteq Life!RunSteps(view)
         /\ \A action \in {"reason", "confirm", "cancel"} :
              Life!AnswerSteps(view, action) \subseteq Life!RunSteps(view)
BY DEF Life!RunSteps

LEMMA StartLeads ==
  ASSUME NEW d \in Ids
  PROVE  /\ Life!Waiting(d) \subseteq Life!StartSteps
         /\ Life!RunView("review", "WAITING_REASON", d, FALSE) \in Life!StartSteps
         /\ Life!Ended("EXPIRED", d) \in Life!StartSteps
<1> DEFINE steps(e) == Life!Waiting(e) \cup {Life!RunView("review", "WAITING_REASON", e, FALSE),
                                             Life!Ended("EXPIRED", e)}
<1>1. steps(d) \subseteq UNION {steps(e) : e \in Ids}
  OBVIOUS
<1>2. UNION {steps(e) : e \in Ids} \subseteq Life!StartSteps
  BY Zenon DEF Life!StartSteps
<1>3. QED
  BY <1>1, <1>2, Zenon

\* start_agent_graph
LEMMA StartSeen ==
  ASSUME NEW run \in Runs, Shaped(run), run.next = "read_tool"
  PROVE  Seen(run) = Life!Started /\ Seen(run) \in Life!RunSteps(NoRun)
         /\ NoRun \in Life!UndoSteps(Seen(run))
<1>1. run.draft = NULL /\ run.status = "RUNNING" /\ run.application = NULL
  BY DEF Shaped
<1>2. Seen(run) = Life!Started
  BY <1>1, SeenIs, Places DEF Life!Started
<1>3. Life!Started.at = "start"
  BY DEF Life!Started, Life!RunView
<1>4. QED
  BY <1>2, <1>3 DEF Life!RunSteps, Life!UndoSteps

\* A run before the draft shows nothing but its status.
LEMMA EarlySeen ==
  ASSUME NEW run \in Runs, Shaped(run), run.next \in {"read_tool", "prepare_return_draft"}
  PROVE  Seen(run) \in {Life!Started, Life!RunView("start", "WAITING_REASON", NULL, FALSE)}
         /\ Seen(run).at = "start"
<1>1. run.draft = NULL /\ run.status \in {"RUNNING", "WAITING_REASON"} /\ run.application = NULL
  BY DEF Shaped
<1>2. Seen(run) = Life!RunView("start", run.status, NULL, FALSE)
  BY <1>1, SeenIs, Places
<1>3. Life!RunView("start", run.status, NULL, FALSE).at = "start"
  BY DEF Life!RunView
<1>4. Seen(run) \in {Life!Started, Life!RunView("start", "WAITING_REASON", NULL, FALSE)}
  BY <1>1, <1>2, Zenon DEF Life!Started
<1>5. QED
  BY <1>2, <1>3, <1>4

\* A run with a draft and no receipt.
LEMMA DraftSeen ==
  ASSUME NEW run \in Runs, run.draft # NULL, run.application = NULL
  PROVE  /\ Seen(run) = Life!RunView(Place[run.next], run.status, run.draft.id, FALSE)
         /\ Seen(run).at = Place[run.next] /\ Seen(run).status = run.status
         /\ Seen(run).draft = run.draft.id /\ Seen(run).applied = FALSE
         /\ run.draft \in Shown /\ run.draft.id \in Ids
<1>1. Seen(run) = Life!RunView(Place[run.next], run.status, run.draft.id, FALSE)
  BY SeenIs
<1>2. run.draft \in Shown /\ run.draft.id \in Ids
  BY DEF Runs, Shown
<1>3. QED
  BY <1>1, <1>2 DEF Life!RunView

----------------------------------------------------------------------------
(* The parts of the invariant, and how a step of one thread keeps them.    *)

Callings == [doing : {"nothing", "graph", "refresh"}, decision : Decisions \cup {NULL},
             saved : Runs \cup {NoRun}]

ServicePart == TypeOK /\ Bookkeeping /\ OffersIdentified
WorldPart == /\ wire \subseteq WireRequests /\ WireHolds
             /\ approvals \subseteq [draft : Ids, terms : Terms] /\ ApplicationsApproved
ThreadPart ==
  /\ runs \in [Threads -> Kept \cup {NoRun}]
  /\ calls \in [Threads -> Callings]
  /\ \A t \in Threads :
       /\ calls[t].saved \in Kept \cup {NoRun}
       /\ calls[t].doing # "nothing" => runs[t] # NoRun /\ Linked(calls[t], runs[t])

\* Every run is seen to live as AgentRun says.
Lives == \A t \in Threads : View(t)' = View(t) \/ View(t)' \in Life!RunSteps(View(t))

LEMMA Parts == AgentInduction <=> ServicePart /\ WorldPart /\ ThreadPart
<1>1. ASSUME ThreadPart, NEW t \in Threads
      PROVE  /\ runs[t] \in Runs \cup {NoRun}
             /\ Known(t) /\ runs[t].next \notin {"read_tool", "prepare_return_draft", "END"}
                  => runs[t].draft # NULL
  <2>1. runs[t] \in Kept \cup {NoRun}
    BY <1>1 DEF ThreadPart
  <2>2. CASE runs[t] = NoRun
    BY <2>2 DEF Known
  <2>3. CASE runs[t] \in Kept
    BY <2>3, KeptIs DEF Shaped
  <2>4. QED
    BY <2>1, <2>2, <2>3
<1>2. ThreadPart => runs \in [Threads -> Runs \cup {NoRun}]
  BY <1>1 DEF ThreadPart
<1>3. ASSUME ServicePart, WorldPart, ThreadPart PROVE AgentInduction
  BY <1>1, <1>2, <1>3 DEF AgentInduction, ServicePart, WorldPart, ThreadPart, AgentTypeOK,
                          IsIdle, Known, Callings
<1>4. ASSUME AgentInduction PROVE ServicePart /\ WorldPart
  BY <1>4 DEF AgentInduction, AgentTypeOK, ServicePart, WorldPart
<1>5. ASSUME AgentInduction PROVE ThreadPart
  BY <1>5 DEF AgentInduction, AgentTypeOK, ThreadPart, IsIdle, Callings
<1>6. QED
  BY <1>3, <1>4, <1>5

LEMMA PartsNext == ServicePart' /\ WorldPart' /\ ThreadPart' => AgentInduction'
BY Parts, PTL

\* The service's own books are kept whoever calls it.
LEMMA ServiceStays ==
  ASSUME ServicePart, [Next]_vars
  PROVE  ServicePart' /\ offers \subseteq offers' /\ applications \subseteq applications'
BY TypesStep, BooksStep, OffersStep, ServiceGrows DEF ServicePart

\* What is known of a thread that has a checkpoint, and of one a call works on.
LEMMA ThreadIs ==
  ASSUME ThreadPart, NEW t \in Threads, Known(t) \/ calls[t].doing # "nothing"
  PROVE  /\ Known(t) /\ runs[t] \in Kept /\ runs[t] \in Runs /\ runs[t].order \in Orders
         /\ calls[t] \in Callings
         /\ calls[t].doing # "nothing" => Linked(calls[t], runs[t])
<1>1. Known(t) /\ runs[t] \in Kept /\ calls[t] \in Callings
      /\ (calls[t].doing # "nothing" => Linked(calls[t], runs[t]))
  BY DEF ThreadPart, Known
<1>2. runs[t] \in Runs
  BY <1>1, KeptIs
<1>3. QED
  BY <1>1, <1>2 DEF Runs

\* A thread gets another checkpoint and another call.
LEMMA Moves ==
  ASSUME ServicePart, ThreadPart, [Next]_vars, approvals \subseteq approvals',
         NEW t \in Threads, NEW run \in Kept' \cup {NoRun}, NEW call \in Callings,
         call.saved \in Kept' \cup {NoRun},
         call.doing # "nothing" => run # NoRun /\ Linked(call, run),
         Seen(run) = View(t) \/ Seen(run) \in Life!RunSteps(View(t)),
         runs' = [runs EXCEPT ![t] = run],
         calls' = [calls EXCEPT ![t] = call]
  PROVE  ThreadPart' /\ Lives
<1>1. Kept \subseteq Kept'
  BY KeptStays DEF ServicePart
<1>2. runs \in [Threads -> Kept' \cup {NoRun}]
  BY <1>1 DEF ThreadPart
<1>3. runs' \in [Threads -> Kept' \cup {NoRun}] /\ calls' \in [Threads -> Callings]
  BY <1>2 DEF ThreadPart
<1>4. runs'[t] = run /\ calls'[t] = call
      /\ \A u \in Threads \ {t} : runs'[u] = runs[u] /\ calls'[u] = calls[u]
  BY DEF ThreadPart
<1>5. ASSUME NEW u \in Threads
      PROVE  /\ calls'[u].saved \in Kept' \cup {NoRun}
             /\ calls'[u].doing # "nothing" => runs'[u] # NoRun /\ Linked(calls'[u], runs'[u])
  <2>1. CASE u = t
    BY <1>4, <2>1
  <2>2. CASE u # t
    <3>1. calls[u].saved \in Kept \cup {NoRun}
          /\ (calls[u].doing # "nothing" => runs[u] # NoRun /\ Linked(calls[u], runs[u]))
      BY DEF ThreadPart
    <3>2. QED
      BY <1>1, <1>4, <2>2, <3>1
  <2>3. QED
    BY <2>1, <2>2
<1>6. Lives
  BY <1>4 DEF Lives, View
<1>7. Callings' = Callings
  BY DEF Callings
<1>8. QED
  BY <1>3, <1>5, <1>6, <1>7 DEF ThreadPart, Linked

\* The call ends, with the run as it is on disk or another one.
LEMMA Leaves ==
  ASSUME ServicePart, ThreadPart, [Next]_vars, approvals \subseteq approvals',
         NEW t \in Threads, NEW run \in Kept' \cup {NoRun}, Leave(t, run),
         Seen(run) = View(t) \/ Seen(run) \in Life!RunSteps(View(t))
  PROVE  ThreadPart' /\ Lives
<1>1. Idle \in Callings /\ Idle.saved = NoRun /\ Idle.doing = "nothing"
  BY DEF Idle, Callings
<1>2. QED
  BY <1>1, Moves DEF Leave, End

LEMMA LeavesUnsaved ==
  ASSUME ServicePart, ThreadPart, [Next]_vars, approvals \subseteq approvals',
         NEW t \in Threads, LeaveUnsaved(t)
  PROVE  ThreadPart' /\ Lives
<1>1. PICK run \in Kept \cup {NoRun} : run = runs[t]
  BY DEF ThreadPart
<1>2. run \in Kept' \cup {NoRun}
  BY KeptStays DEF ServicePart
<1>3. runs' = [runs EXCEPT ![t] = run]
  BY <1>1 DEF LeaveUnsaved, ThreadPart
<1>4. QED
  BY <1>1, <1>2, <1>3, Leaves DEF LeaveUnsaved, Leave, View

\* The call goes on from the checkpoint there was.
LEMMA Continues ==
  ASSUME ServicePart, ThreadPart, [Next]_vars, approvals \subseteq approvals',
         NEW t \in Threads, NEW run \in Kept', Continue(t, run),
         Seen(run) = View(t) \/ Seen(run) \in Life!RunSteps(View(t)),
         View(t) = Seen(run) \/ View(t) \in Life!UndoSteps(Seen(run))
  PROVE  ThreadPart' /\ Lives
<1>1. PICK saved \in Kept \cup {NoRun} : saved = runs[t]
  BY DEF ThreadPart
<1>2. saved \in Kept' \cup {NoRun}
  BY KeptStays DEF ServicePart
<1>3. run # NoRun /\ saved \in Runs \cup {NoRun}
  BY <1>1, KeptIs, KeptIsNext, MissingAssumption
<1>4. PICK call : call = Working(saved)
  OBVIOUS
<1>5. call \in Callings /\ call.saved = saved /\ call.doing = "graph"
  BY <1>3, <1>4 DEF Working, Callings
<1>6. Linked(call, run)
  BY <1>1, <1>5 DEF Linked, View
<1>7. runs' = [runs EXCEPT ![t] = run] /\ calls' = [calls EXCEPT ![t] = call]
  BY <1>1, <1>4 DEF Continue
<1>8. QED
  BY <1>2, <1>3, <1>5, <1>6, <1>7, Moves

\* Nothing outside the thread changes, and no application is made.
LEMMA WorldStays ==
  ASSUME WorldPart, offers \subseteq offers', applications' \subseteq applications,
         UNCHANGED wire, approvals \subseteq approvals', approvals' \subseteq [draft : Ids, terms : Terms]
  PROVE  WorldPart'
BY DEF WorldPart, WireHolds, ApplicationsApproved

\* The service is not called, or refuses.
LEMMA Quiet ==
  ASSUME AgentInduction, UNCHANGED vars, UNCHANGED wire,
         approvals \subseteq approvals', approvals' \subseteq [draft : Ids, terms : Terms]
  PROVE  /\ [Next]_vars /\ ServicePart /\ ThreadPart
         /\ ServicePart' /\ WorldPart' /\ Kept \subseteq Kept'
<1>1. ServicePart /\ WorldPart /\ ThreadPart
  BY Parts
<1>2. [Next]_vars /\ UNCHANGED <<offers, applications>>
  BY DEF vars
<1>3. ServicePart'
  BY <1>1, <1>2, ServiceStays
<1>4. WorldPart'
  BY <1>1, <1>2, WorldStays
<1>5. Kept \subseteq Kept'
  BY <1>1, <1>2, KeptStays DEF ServicePart
<1>6. QED
  BY <1>1, <1>2, <1>3, <1>4, <1>5

LEMMA QuietLeave ==
  ASSUME AgentInduction, UNCHANGED <<vars, wire, approvals>>,
         NEW t \in Threads, NEW run \in Kept \cup {NoRun}, Leave(t, run),
         Seen(run) = View(t) \/ Seen(run) \in Life!RunSteps(View(t))
  PROVE  AgentInduction' /\ Lives
<1>1. /\ [Next]_vars /\ ServicePart /\ ThreadPart
      /\ ServicePart' /\ WorldPart' /\ Kept \subseteq Kept'
  BY Quiet, Parts DEF WorldPart
<1>2. ThreadPart' /\ Lives
  BY <1>1, Leaves
<1>3. QED
  BY <1>1, <1>2, PartsNext

LEMMA QuietContinue ==
  ASSUME AgentInduction, UNCHANGED <<vars, wire, approvals>>,
         NEW t \in Threads, NEW run \in Kept, Continue(t, run),
         Seen(run) = View(t) \/ Seen(run) \in Life!RunSteps(View(t)),
         View(t) = Seen(run) \/ View(t) \in Life!UndoSteps(Seen(run))
  PROVE  AgentInduction' /\ Lives
<1>1. /\ [Next]_vars /\ ServicePart /\ ThreadPart
      /\ ServicePart' /\ WorldPart' /\ Kept \subseteq Kept'
  BY Quiet, Parts DEF WorldPart
<1>2. ThreadPart' /\ Lives
  BY <1>1, Continues
<1>3. QED
  BY <1>1, <1>2, PartsNext

\* A refusal ends the call and changes nothing else.
LEMMA RefusedStep ==
  ASSUME AgentInduction, NEW t \in Threads, Refused(t)
  PROVE  AgentInduction' /\ Lives /\ [Next]_vars
<1>1. /\ [Next]_vars /\ ServicePart /\ ThreadPart
      /\ ServicePart' /\ WorldPart' /\ Kept \subseteq Kept'
  BY Quiet, Parts DEF WorldPart, Refused
<1>2. ThreadPart' /\ Lives
  BY <1>1, LeavesUnsaved DEF Refused
<1>3. QED
  BY <1>1, <1>2, PartsNext

----------------------------------------------------------------------------
(* The customer's calls.                                                   *)

LEMMA StartAgentGraphStep ==
  ASSUME AgentInduction, NEW t \in Threads, StartAgentGraph(t)
  PROVE  AgentInduction' /\ Lives
<1>1. PICK o \in Orders, reason \in FirstReasons :
         Continue(t, [order |-> o, next |-> "read_tool", status |-> "RUNNING",
                      decision |-> NULL, draft |-> NULL, reason |-> reason,
                      approved |-> "none", application |-> NULL])
  BY DEF StartAgentGraph
<1> DEFINE run == [order |-> o, next |-> "read_tool", status |-> "RUNNING",
                   decision |-> NULL, draft |-> NULL, reason |-> reason,
                   approved |-> "none", application |-> NULL]
<1>2. run \in Runs
  BY FirstReasonsAssumption DEF Runs, Nodes, RunStatuses
<1>3. Shaped(run) /\ ShowsOffer(run) /\ EndHolds(run) /\ ReviewHolds(run) /\ SaidYes(run)
  BY DEF Shaped, ShowsOffer, EndHolds, ReviewHolds, SaidYes
<1>4. run \in Kept
  BY <1>2, <1>3, KeptWhen
<1>5. View(t) = NoRun
  BY DEF StartAgentGraph, Known, View, Seen
<1>6. Seen(run) \in Life!RunSteps(NoRun) /\ NoRun \in Life!UndoSteps(Seen(run))
  BY <1>2, <1>3, StartSeen
<1> HIDE DEF run
<1>7. QED
  BY <1>1, <1>4, <1>5, <1>6, QuietContinue DEF StartAgentGraph, run

LEMMA SubmitReturnReasonStep ==
  ASSUME AgentInduction, NEW t \in Threads, NEW request \in Requests, SubmitReturnReason(t, request)
  PROVE  AgentInduction' /\ Lives
<1>1. PICK old \in Kept : old = runs[t] /\ View(t) = Seen(old)
  BY Parts, ThreadIs DEF SubmitReturnReason, View
<1>2. old \in Runs /\ Shaped(old) /\ ShowsOffer(old) /\ EndHolds(old) /\ ReviewHolds(old) /\ SaidYes(old)
  BY KeptIs
<1>3. UNCHANGED <<vars, wire, approvals>>
  BY DEF SubmitReturnReason
<1>4. CASE Continue(t, runs[t])
  BY <1>1, <1>3, <1>4, QuietContinue
<1>5. CASE /\ old.next = "ask_return_reason"
           /\ Continue(t, [runs[t] EXCEPT !.reason = request, !.status = "RUNNING",
                                          !.next = "finish_reason_collection"])
  <2> DEFINE run == [old EXCEPT !.reason = request, !.status = "RUNNING",
                                !.next = "finish_reason_collection"]
  <2>1. run \in Runs
    BY <1>2 DEF Runs, Nodes, RunStatuses
  <2>2. /\ run.order = old.order /\ run.next = "finish_reason_collection" /\ run.status = "RUNNING"
        /\ run.draft = old.draft /\ run.reason = request /\ run.approved = old.approved
        /\ run.application = old.application
    BY <1>2 DEF Runs
  <2>3. old.draft # NULL /\ old.application = NULL /\ old.status = "WAITING_REASON"
    BY <1>2, <1>5 DEF Shaped
  <2> HIDE DEF run
  <2>4. Shaped(run)
    BY <1>2, <1>5, <2>2, <2>3, SentinelAssumption DEF Shaped
  <2>5. ShowsOffer(run) /\ EndHolds(run) /\ ReviewHolds(run) /\ SaidYes(run)
    BY <1>2, <2>2, <2>3 DEF ShowsOffer, EndHolds, ReviewHolds, SaidYes
  <2>6. run \in Kept
    BY <2>1, <2>4, <2>5, KeptWhen
  <2>7. Seen(old) = Life!RunView("reason", "WAITING_REASON", old.draft.id, FALSE)
        /\ Seen(old).at = "reason" /\ Seen(old).draft = old.draft.id /\ Seen(old) # NoRun
    BY <1>2, <1>5, <2>3, DraftSeen, SeenIs, Places
  <2>8. Seen(run) = Life!RunView("review", "RUNNING", old.draft.id, FALSE)
        /\ Seen(run).at = "review" /\ Seen(run).draft = old.draft.id
    BY <2>1, <2>2, <2>3, DraftSeen, Places
  <2>9. Seen(run) \in Life!RunSteps(Seen(old))
    <3>1. Seen(run) \in Life!AnswerSteps(Seen(old), "reason")
      BY <2>7, <2>8 DEF Life!AnswerSteps
    <3>2. QED
      BY <2>7, <3>1, LifeSteps
  <2>10. Seen(old) \in Life!UndoSteps(Seen(run))
    BY <2>7, <2>8 DEF Life!UndoSteps
  <2>11. Continue(t, run)
    BY <1>1, <1>5 DEF run
  <2>12. QED
    BY <1>1, <1>3, <2>6, <2>9, <2>10, <2>11, QuietContinue
<1>6. QED
  BY <1>1, <1>4, <1>5 DEF SubmitReturnReason

\* Two runs that are seen to differ only in their place.
LEMMA SeenElsewhere ==
  ASSUME NEW x \in Views, NEW y \in Views,
         x.status = y.status, x.draft = y.draft, x.applied = y.applied
  PROVE  x = [y EXCEPT !.at = x.at] /\ y = [x EXCEPT !.at = y.at]
BY DEF Views

\* How a yes or a no is seen.
LEMMA AnswerSeen ==
  ASSUME NEW old \in Runs, NEW run \in Runs, Shaped(old), old.next = "await_return_confirmation",
         run.next \in {"execute_return", "cancel_return"}, run.draft = old.draft,
         run.status = old.status, run.application = old.application
  PROVE  Seen(run) \in Life!RunSteps(Seen(old)) /\ Seen(old) \in Life!UndoSteps(Seen(run))
<1>1. old.draft # NULL /\ old.application = NULL
  BY DEF Shaped
<1>2. Seen(old) \in Views /\ Seen(run) \in Views /\ Seen(old) # NoRun
  BY SeenIs
<1>3. /\ Seen(old).at = "confirm" /\ Seen(run).at = Place[run.next]
      /\ Seen(run).status = Seen(old).status /\ Seen(run).draft = Seen(old).draft
      /\ Seen(run).applied = Seen(old).applied
  BY <1>1, DraftSeen, Places
<1>4. Seen(run) = [Seen(old) EXCEPT !.at = Seen(run).at] /\ Seen(old) = [Seen(run) EXCEPT !.at = "confirm"]
  BY <1>2, <1>3, SeenElsewhere
<1>5. Seen(run).at \in {"execute", "cancel"}
  BY <1>3, Places
<1>6. \E action \in {"reason", "confirm", "cancel"} : Seen(run) \in Life!AnswerSteps(Seen(old), action)
  <2>1. CASE Seen(run).at = "execute"
    <3>1. Seen(run) \in Life!AnswerSteps(Seen(old), "confirm")
      BY <1>3, <1>4, <2>1 DEF Life!AnswerSteps
    <3>2. QED
      BY <3>1
  <2>2. CASE Seen(run).at = "cancel"
    <3>1. Seen(run) \in Life!AnswerSteps(Seen(old), "cancel")
      BY <1>3, <1>4, <2>2 DEF Life!AnswerSteps
    <3>2. QED
      BY <3>1
  <2>3. QED
    BY <1>5, <2>1, <2>2
<1>7. Seen(old) \in Life!UndoSteps(Seen(run))
  BY <1>4, <1>5 DEF Life!UndoSteps
<1>8. QED
  BY <1>2, <1>6, <1>7, LifeSteps

LEMMA ApproveStep ==
  ASSUME AgentInduction, NEW t \in Threads, Approve(t)
  PROVE  AgentInduction' /\ Lives
<1>1. PICK old \in Kept : old = runs[t] /\ View(t) = Seen(old)
  BY Parts, ThreadIs DEF Approve, View
<1>2. old \in Runs /\ Shaped(old) /\ ShowsOffer(old) /\ EndHolds(old) /\ ReviewHolds(old) /\ SaidYes(old)
  BY KeptIs
<1>3. old.draft # NULL /\ old.draft \in Shown
  BY <1>1, <1>2 DEF Approve, Shaped, Runs
<1>4. /\ UNCHANGED vars /\ UNCHANGED wire
      /\ approvals' = approvals \cup {[draft |-> old.draft.id, terms |-> old.draft.terms]}
  BY <1>1 DEF Approve
<1>5. approvals' \subseteq [draft : Ids, terms : Terms]
  BY <1>3, <1>4, Parts DEF WorldPart, Shown
<1>6. /\ [Next]_vars /\ ServicePart /\ ThreadPart
      /\ ServicePart' /\ WorldPart' /\ Kept \subseteq Kept'
  BY <1>4, <1>5, Quiet
<1>7. CASE Continue(t, runs[t])
  <2>1. ThreadPart' /\ Lives
    BY <1>1, <1>4, <1>6, <1>7, Continues
  <2>2. QED
    BY <1>6, <2>1, PartsNext
<1>8. CASE /\ old.next = "await_return_confirmation"
           /\ Continue(t, [runs[t] EXCEPT !.approved = "yes", !.next = "execute_return"])
  <2> DEFINE run == [old EXCEPT !.approved = "yes", !.next = "execute_return"]
  <2>1. run \in Runs
    BY <1>2 DEF Runs, Nodes
  <2>2. /\ run.order = old.order /\ run.next = "execute_return" /\ run.status = old.status
        /\ run.draft = old.draft /\ run.reason = old.reason /\ run.approved = "yes"
        /\ run.application = old.application
    BY <1>2 DEF Runs
  <2>3. old.application = NULL /\ old.status \notin {"CANCELLED", "EXPIRED", "STALE_CONFIRMATION"}
    BY <1>2, <1>8 DEF Shaped
  <2> HIDE DEF run
  <2>4. Shaped(run)
    BY <1>2, <1>3, <2>2, <2>3 DEF Shaped
  <2>6. ShowsOffer(run)' /\ SaidYes(run)'
    <3>1. ShowsOffer(run)
      BY <1>2, <2>2 DEF ShowsOffer
    <3>2. UNCHANGED offers
      BY <1>4 DEF vars
    <3>3. QED
      BY <1>4, <2>2, <3>1, <3>2 DEF ShowsOffer, SaidYes
  <2>7. EndHolds(run)' /\ ReviewHolds(run)'
    BY <2>2, <2>3 DEF EndHolds, ReviewHolds
  <2>8. run \in Kept'
    BY <2>1, <2>4, <2>6, <2>7, KeptWhenNext
  <2>9. Seen(run) \in Life!RunSteps(Seen(old)) /\ Seen(old) \in Life!UndoSteps(Seen(run))
    BY <1>2, <1>8, <2>1, <2>2, AnswerSeen
  <2>10. Continue(t, run)
    BY <1>1, <1>8 DEF run
  <2>11. ThreadPart' /\ Lives
    BY <1>1, <1>4, <1>6, <2>8, <2>9, <2>10, Continues
  <2>12. QED
    BY <1>6, <2>11, PartsNext
<1>9. QED
  BY <1>1, <1>7, <1>8 DEF Approve

LEMMA DeclineStep ==
  ASSUME AgentInduction, NEW t \in Threads, Decline(t)
  PROVE  AgentInduction' /\ Lives
<1>1. PICK old \in Kept : old = runs[t] /\ View(t) = Seen(old)
  BY Parts, ThreadIs DEF Decline, View
<1>2. old \in Runs /\ Shaped(old) /\ ShowsOffer(old) /\ EndHolds(old) /\ ReviewHolds(old) /\ SaidYes(old)
  BY KeptIs
<1>3. old.next = "await_return_confirmation"
  BY <1>1 DEF Decline
<1> DEFINE run == [old EXCEPT !.approved = "no", !.next = "cancel_return"]
<1>4. run \in Runs
  BY <1>2 DEF Runs, Nodes
<1>5. /\ run.order = old.order /\ run.next = "cancel_return" /\ run.status = old.status
      /\ run.draft = old.draft /\ run.reason = old.reason /\ run.approved = "no"
      /\ run.application = old.application
  BY <1>2 DEF Runs
<1>6. Continue(t, run)
  BY <1>1 DEF Decline
<1> HIDE DEF run
<1>7. Shaped(run)
  BY <1>2, <1>3, <1>5 DEF Shaped
<1>8. ShowsOffer(run) /\ EndHolds(run) /\ ReviewHolds(run) /\ SaidYes(run)
  BY <1>2, <1>3, <1>5 DEF ShowsOffer, EndHolds, ReviewHolds, SaidYes
<1>9. run \in Kept
  BY <1>4, <1>7, <1>8, KeptWhen
<1>10. Seen(run) \in Life!RunSteps(Seen(old)) /\ Seen(old) \in Life!UndoSteps(Seen(run))
  BY <1>2, <1>3, <1>4, <1>5, AnswerSeen
<1>11. QED
  BY <1>1, <1>6, <1>9, <1>10, QuietContinue DEF Decline

LEMMA RefreshReturnConfirmationStep ==
  ASSUME AgentInduction, NEW t \in Threads, RefreshReturnConfirmation(t)
  PROVE  AgentInduction' /\ Lives
<1>1. PICK run \in Kept : run = runs[t] /\ View(t) = Seen(run)
  BY Parts, ThreadIs DEF RefreshReturnConfirmation, View
<1>2. /\ [Next]_vars /\ ServicePart /\ ThreadPart
      /\ ServicePart' /\ WorldPart' /\ Kept \subseteq Kept'
  BY Quiet, Parts DEF WorldPart, RefreshReturnConfirmation
<1> DEFINE call == [doing |-> "refresh", decision |-> NULL, saved |-> NoRun]
<1>3. call \in Callings /\ call.saved = NoRun /\ Linked(call, run) /\ run # NoRun
  BY <1>1 DEF Callings, Linked, RefreshReturnConfirmation, Known
<1>4. runs' = [runs EXCEPT ![t] = run] /\ calls' = [calls EXCEPT ![t] = call]
  BY <1>1, <1>2 DEF RefreshReturnConfirmation, ThreadPart
<1> HIDE DEF call
<1>5. ThreadPart' /\ Lives
  <2>1. /\ run \in Kept' \cup {NoRun} /\ call.saved \in Kept' \cup {NoRun}
        /\ Seen(run) = View(t) /\ UNCHANGED approvals
    BY <1>1, <1>2, <1>3 DEF RefreshReturnConfirmation
  <2>2. QED
    BY <1>2, <1>3, <1>4, <2>1, Moves
<1>6. QED
  BY <1>2, <1>5, PartsNext

----------------------------------------------------------------------------
(* The nodes.                                                              *)

\* What is known of a thread at a node.
LEMMA AtNode ==
  ASSUME AgentInduction, NEW t \in Threads, NEW node, At(t, node)
  PROVE  \E old \in Kept : /\ old = runs[t] /\ View(t) = Seen(old) /\ old.next = node
                           /\ old \in Runs /\ Shaped(old) /\ ShowsOffer(old) /\ EndHolds(old)
                           /\ ReviewHolds(old) /\ SaidYes(old) /\ Seen(old) # NoRun
<1>1. PICK old \in Kept : old = runs[t] /\ View(t) = Seen(old)
  BY Parts, ThreadIs DEF At, View
<1>2. QED
  BY <1>1, KeptIs, SeenIs DEF At

LEMMA ReadToolStep ==
  ASSUME AgentInduction, NEW t \in Threads, ReadTool(t)
  PROVE  AgentInduction' /\ Lives
<1>1. PICK old \in Kept : /\ old = runs[t] /\ View(t) = Seen(old) /\ old.next = "read_tool"
                         /\ old \in Runs /\ Shaped(old) /\ ShowsOffer(old) /\ EndHolds(old)
                         /\ ReviewHolds(old) /\ SaidYes(old) /\ Seen(old) # NoRun
  BY AtNode DEF ReadTool
<1>2. /\ old.draft = NULL /\ old.application = NULL /\ old.approved # "yes"
      /\ Seen(old) = Life!Started /\ Seen(old).at = "start"
  BY <1>1, StartSeen, EarlySeen DEF Shaped
<1>3. Eligibility(old.order).decision \in Decisions
  BY <1>1, Parts, EvaluateType DEF Eligibility, EligibilityRecord, ServicePart, TypeOK, Runs
<1>4. PICK decision \in Decisions : decision = Eligibility(old.order).decision
  BY <1>3
<1>5. CASE decision \in {"NO_REASON_ALLOWED", "REASON_REQUIRED"}
  <2>1. PICK status \in {"RUNNING", "WAITING_REASON"} :
           Continue(t, [old EXCEPT !.next = "prepare_return_draft", !.decision = decision,
                                   !.status = status])
    BY <1>1, <1>4, <1>5 DEF ReadTool
  <2> DEFINE run == [old EXCEPT !.next = "prepare_return_draft", !.decision = decision,
                                !.status = status]
  <2>2. run \in Runs
    <3>1. /\ old \in Runs /\ status \in RunStatuses /\ decision \in Decisions \cup {NULL}
          /\ "prepare_return_draft" \in Nodes
      BY <1>1 DEF Nodes, RunStatuses
    <3>2. QED
      BY <3>1 DEF Runs
  <2>3. /\ run.next = "prepare_return_draft" /\ run.status = status /\ run.draft = NULL
        /\ run.approved # "yes" /\ run.application = NULL
    BY <1>1, <1>2 DEF Runs
  <2> HIDE DEF run
  <2>4. Shaped(run) /\ ShowsOffer(run) /\ EndHolds(run) /\ ReviewHolds(run) /\ SaidYes(run)
    BY <2>3 DEF Shaped, ShowsOffer, EndHolds, ReviewHolds, SaidYes
  <2>5. run \in Kept
    BY <2>2, <2>4, KeptWhen
  <2>6. /\ Seen(run) \in {Life!Started, Life!RunView("start", "WAITING_REASON", NULL, FALSE)}
        /\ Seen(run).at = "start"
    BY <2>2, <2>3, <2>4, EarlySeen
  <2>7. Seen(run) = Seen(old) \/ Seen(run) \in Life!RunSteps(Seen(old))
    <3>1. CASE Seen(run) = Life!RunView("start", "WAITING_REASON", NULL, FALSE)
      <4>1. Seen(run) \in Life!NodeSteps(Seen(old))
        BY <1>2, <3>1 DEF Life!NodeSteps, Life!StartSteps
      <4>2. QED
        BY <1>1, <4>1, LifeSteps
    <3>2. QED
      BY <1>2, <2>6, <3>1
  <2>8. Seen(old) \in Life!UndoSteps(Seen(run))
    BY <1>2, <2>6 DEF Life!UndoSteps
  <2>9. QED
    BY <1>1, <2>1, <2>5, <2>7, <2>8, QuietContinue DEF run, ReadTool
<1>6. CASE decision \notin {"NO_REASON_ALLOWED", "REASON_REQUIRED"}
  <2> DEFINE run == [old EXCEPT !.next = "END", !.decision = decision, !.status = "COMPLETED"]
  <2>1. Leave(t, run)
    BY <1>1, <1>4, <1>6 DEF ReadTool
  <2>2. run \in Runs
    BY <1>1 DEF Runs, Nodes, RunStatuses
  <2>3. /\ run.next = "END" /\ run.status = "COMPLETED" /\ run.draft = NULL
        /\ run.approved # "yes" /\ run.application = NULL
    BY <1>1, <1>2 DEF Runs
  <2> HIDE DEF run
  <2>4. Shaped(run) /\ ShowsOffer(run) /\ EndHolds(run) /\ ReviewHolds(run) /\ SaidYes(run)
    BY <2>3 DEF Shaped, ShowsOffer, EndHolds, ReviewHolds, SaidYes
  <2>5. run \in Kept
    BY <2>2, <2>4, KeptWhen
  <2>6. Seen(run) = Life!Ended("COMPLETED", NULL)
    BY <2>2, <2>3, SeenIs, Places DEF Life!Ended
  <2>7. Seen(run) \in Life!NodeSteps(Seen(old))
    BY <1>2, <2>6 DEF Life!NodeSteps, Life!StartSteps
  <2>8. Seen(run) \in Life!RunSteps(Seen(old))
    BY <1>1, <2>7, LifeSteps
  <2>9. QED
    BY <1>1, <2>1, <2>5, <2>8, QuietLeave DEF ReadTool
<1>7. QED
  BY <1>5, <1>6

----------------------------------------------------------------------------
(* What a call of the service leaves behind.                               *)

\* The draft an answer shows is an offer for the order.
ShownFacts ==
  \A o \in Orders : drafts[o] # NoDraft =>
    /\ ShownDraft(o) \in Shown
    /\ ShownDraft(o).id = drafts[o].id
    /\ ShownDraft(o).status = DraftStatus(o)
    /\ \E offer \in offers : /\ offer.draft = ShownDraft(o).id
                             /\ offer.order = o
                             /\ offer.terms = ShownDraft(o).terms

LEMMA ShownHolds == ServicePart => ShownFacts
<1>1. SUFFICES ASSUME ServicePart, NEW o \in Orders, drafts[o] # NoDraft
               PROVE  /\ ShownDraft(o) \in Shown
                      /\ ShownDraft(o).id = drafts[o].id
                      /\ ShownDraft(o).status = DraftStatus(o)
                      /\ \E offer \in offers : /\ offer.draft = ShownDraft(o).id
                                               /\ offer.order = o
                                               /\ offer.terms = ShownDraft(o).terms
  BY DEF ShownFacts
<1>2. drafts[o].id \in Ids /\ drafts[o].terms \in Terms
  BY <1>1 DEF ServicePart, TypeOK, Drafts
<1>3. DraftStatus(o) \in {"WAITING_REASON", "EXPIRED", "REVIEWED", "SUBMITTED", "CANCELLED"}
  BY DEF DraftStatus
<1>4. ShownDraft(o) \in Shown
  BY <1>2, <1>3 DEF ShownDraft, Shown
<1>5. /\ ShownDraft(o).id = drafts[o].id /\ ShownDraft(o).terms = drafts[o].terms
      /\ ShownDraft(o).status = DraftStatus(o)
  BY DEF ShownDraft
<1>6. OfferOf(o, drafts[o]) \in offers
  BY <1>1 DEF ServicePart, Bookkeeping, LatestOffer, Drafted
<1>7. /\ OfferOf(o, drafts[o]).draft = drafts[o].id /\ OfferOf(o, drafts[o]).order = o
      /\ OfferOf(o, drafts[o]).terms = drafts[o].terms
  BY DEF OfferOf
<1>8. QED
  BY <1>4, <1>5, <1>6, <1>7

LEMMA ShownHoldsNext == ServicePart' => ShownFacts'
BY ShownHolds, PTL

LEMMA ServesStart ==
  ASSUME ServicePart, NEW o \in Orders, ServeStart(o)
  PROVE  [Next]_vars /\ UNCHANGED applications /\ drafts'[o] # NoDraft
<1>1. CASE Start(o)
  <2>1. uuids + 1 \in Ids
    BY <1>1, ClockAssumption DEF Start, ServicePart, TypeOK, Ids
  <2>2. drafts'[o] = Snapshot(o, uuids + 1)
    BY <1>1 DEF Start, ServicePart, TypeOK
  <2>3. drafts'[o] # NoDraft
    BY <2>1, <2>2, SnapshotType, SentinelAssumption DEF ServicePart
  <2>4. QED
    BY <1>1, <2>3 DEF Start, Next, Calls
<1>2. CASE drafts[o] # NoDraft /\ UNCHANGED vars
  BY <1>2 DEF vars
<1>3. QED
  BY <1>1, <1>2 DEF ServeStart

LEMMA ServesSubmit ==
  ASSUME ServicePart, NEW o \in Orders, NEW d, NEW request \in Requests, ServeSubmit(o, d, request)
  PROVE  /\ [Next]_vars /\ UNCHANGED applications
         /\ drafts'[o].submitted = request /\ drafts'[o].result # NULL
<1>1. Found(o, d) /\ d \in Ids /\ drafts[o] \in Drafts /\ SubmitOutcome(o, d, request) = "OK"
  BY FoundId DEF ServeSubmit, SubmitOutcome, ServicePart
<1>2. CASE Submit(o, d, request)
  <2>1. drafts'[o] = [drafts[o] EXCEPT !.submitted = request,
                                       !.result = Review(drafts[o].eligibility, request.code)]
    BY <1>1, <1>2 DEF Submit, ServicePart, TypeOK
  <2>2. drafts'[o].submitted = request
        /\ drafts'[o].result = Review(drafts[o].eligibility, request.code)
    BY <1>1, <2>1 DEF Drafts
  <2>3. Review(drafts[o].eligibility, request.code) # NULL
    BY <1>1, ReviewType, SentinelAssumption DEF Drafts, EligibilityRecord
  <2>4. QED
    BY <1>1, <1>2, <2>2, <2>3 DEF Submit, Next, Calls
<1>3. CASE drafts[o].result # NULL /\ UNCHANGED vars
  BY <1>1, <1>3 DEF SubmitOutcome, vars
<1>4. QED
  BY <1>2, <1>3 DEF ServeSubmit

LEMMA Confirms ==
  ASSUME ServicePart, NEW o \in Orders, NEW d, Confirm(o, d)
  PROVE  /\ [Next]_vars /\ UNCHANGED offers /\ d \in Ids /\ Found(o, d)
         /\ \A a \in applications' \ applications : a.draft = d /\ a.terms = drafts[o].terms
<1>1. Found(o, d) /\ d \in Ids
  BY FoundId DEF Confirm, ConfirmOutcome, ServicePart
<1>2. ASSUME NEW a \in applications' \ applications PROVE a.draft = d /\ a.terms = drafts[o].terms
  <2>1. ~Applied(o)
    BY DEF Confirm
  <2>2. a.draft = d /\ a.terms = orders[o].terms
    BY <2>1 DEF Confirm, ApplicationFor
  <2>3. orders[o].terms = drafts[o].terms
    BY <2>1 DEF Confirm, ConfirmOutcome, SnapshotChanged
  <2>4. QED
    BY <2>2, <2>3
<1>3. QED
  BY <1>1, <1>2 DEF Confirm, Next, Calls

LEMMA Cancels ==
  ASSUME ServicePart, NEW o \in Orders, NEW d, Cancel(o, d)
  PROVE  /\ [Next]_vars /\ UNCHANGED applications /\ Over(o, d)'
<1>1. Found(o, d) /\ d \in Ids /\ drafts[o] \in Drafts /\ ~Applied(o)
  BY FoundId DEF Cancel, CancelOutcome, ServicePart
<1>2. drafts'[o] = [drafts[o] EXCEPT !.cancelled = TRUE]
  BY DEF Cancel, ServicePart, TypeOK
<1>3. drafts'[o].cancelled
  BY <1>1, <1>2 DEF Drafts
<1>4. ApplicationsOf(d) = {} /\ UNCHANGED applications
  BY <1>1 DEF Applied, Found, Cancel
<1>5. QED
  BY <1>1, <1>3, <1>4 DEF Over, ApplicationsOf, Cancel, Next, Calls

LEMMA Refreshes ==
  ASSUME ServicePart, NEW o \in Orders, NEW d, Refresh(o, d)
  PROVE  /\ [Next]_vars /\ UNCHANGED applications
         /\ drafts'[o] # NoDraft /\ drafts'[o].result = NULL /\ drafts'[o].id # d
<1>1. Found(o, d) /\ d \in Ids /\ o \in Drafted
  BY FoundId DEF Refresh, RefreshOutcome, ServicePart
<1>2. uuids + 1 \in Ids /\ UNCHANGED applications
  <2>1. uuids + 1 \in Ids
    BY ClockAssumption DEF Refresh, ServicePart, TypeOK, Ids
  <2>2. UNCHANGED applications
    BY <1>1, RefreshMovesNothing DEF ServicePart
  <2>3. QED
    BY <2>1, <2>2
<1>3. drafts'[o] = Snapshot(o, uuids + 1)
  BY DEF Refresh, ServicePart, TypeOK
<1>4. drafts'[o] # NoDraft /\ drafts'[o].result = NULL /\ drafts'[o].id = uuids + 1
  BY <1>2, <1>3, SnapshotType, SentinelAssumption DEF ServicePart, Snapshot
<1>5. d <= uuids /\ uuids \in Int /\ d \in Int
  BY <1>1 DEF Found, ServicePart, Bookkeeping, LatestOffer, TypeOK, Ids
<1>6. QED
  BY <1>1, <1>2, <1>4, <1>5 DEF Next, Calls

----------------------------------------------------------------------------
(* The nodes that call the service.                                        *)

\* The service served a request of this thread: what follows for the rest.
LEMMA Served ==
  ASSUME AgentInduction, [Next]_vars, UNCHANGED <<wire, approvals>>, applications' \subseteq applications
  PROVE  ServicePart /\ ThreadPart /\ ServicePart' /\ WorldPart' /\ Kept \subseteq Kept'
<1>1. ServicePart /\ WorldPart /\ ThreadPart
  BY Parts
<1>2. ServicePart' /\ offers \subseteq offers'
  BY <1>1, ServiceStays
<1>3. WorldPart'
  BY <1>1, <1>2, WorldStays DEF WorldPart
<1>4. Kept \subseteq Kept'
  BY <1>1, KeptStays DEF ServicePart
<1>5. QED
  BY <1>1, <1>2, <1>3, <1>4

LEMMA PrepareReturnDraftStep ==
  ASSUME AgentInduction, NEW t \in Threads, PrepareReturnDraft(t)
  PROVE  AgentInduction' /\ Lives /\ [Next]_vars
<1>1. PICK old \in Kept : /\ old = runs[t] /\ View(t) = Seen(old) /\ old.next = "prepare_return_draft"
                         /\ old \in Runs /\ Shaped(old) /\ ShowsOffer(old) /\ EndHolds(old)
                         /\ ReviewHolds(old) /\ SaidYes(old) /\ Seen(old) # NoRun
  BY AtNode DEF PrepareReturnDraft
<1>2. PICK o \in Orders : o = old.order
  BY <1>1 DEF Runs
<1>3. CASE Refused(t)
  BY <1>3, RefusedStep
<1>4. CASE ServeStart(o) /\ UNCHANGED <<wire, approvals>> /\ ~Refused(t)
  <2>1. [Next]_vars /\ UNCHANGED applications /\ drafts'[o] # NoDraft
    BY <1>4, Parts, ServesStart
  <2>2. ServicePart /\ ThreadPart /\ ServicePart' /\ WorldPart' /\ Kept \subseteq Kept'
    BY <1>4, <2>1, Served
  <2>3. CASE LeaveUnsaved(t)
    BY <1>4, <2>1, <2>2, <2>3, LeavesUnsaved, PartsNext
  <2>4. CASE ~LeaveUnsaved(t)
    <3>1. PICK shown \in Shown :
            /\ shown = ShownDraft(o)'
            /\ \E offer \in offers' : /\ offer.draft = shown.id /\ offer.order = o
                                      /\ offer.terms = shown.terms
      BY <2>1, <2>2, ShownHoldsNext DEF ShownFacts
    <3>2. PICK status \in {"EXPIRED", "WAITING_CONFIRMATION", "WAITING_REASON"} :
            status = IF shown.status = "EXPIRED" THEN "EXPIRED" ELSE WaitingStatus(old.decision)
      BY DEF WaitingStatus
    <3>3. PICK found : found = [old EXCEPT !.draft = shown, !.status = status]
      OBVIOUS
    <3>4. PICK next : next = AfterDraft(found)
      OBVIOUS
    <3>5. PICK run : run = [found EXCEPT !.next = next]
      OBVIOUS
    <3>6. /\ shown.status \notin {"REVIEWED", "SUBMITTED", "CANCELLED"}
          /\ IF run.next = "finish_reason_collection" THEN Continue(t, run) ELSE Leave(t, run)
      <4>1. IF shown.status \in {"REVIEWED", "SUBMITTED", "CANCELLED"} THEN LeaveUnsaved(t)
            ELSE LET drafted == [old EXCEPT !.draft = shown, !.status = status]
                     routed == [drafted EXCEPT !.next = AfterDraft(drafted)]
                 IN  IF routed.next = "finish_reason_collection" THEN Continue(t, routed)
                     ELSE Leave(t, routed)
        BY <1>1, <1>2, <1>4, <3>1, <3>2 DEF PrepareReturnDraft
      <4>2. QED
        BY <2>4, <3>3, <3>4, <3>5, <4>1
    <3>7. /\ found \in Runs /\ found.order = o /\ found.status = status /\ found.draft = shown
          /\ found.reason = old.reason /\ found.approved = old.approved
          /\ found.application = old.application
      <4>1. old \in Runs /\ status \in RunStatuses /\ old.order = o
        BY <1>1, <1>2, <3>2 DEF RunStatuses
      <4>2. found \in Runs
        BY <3>3, <4>1 DEF Runs
      <4>3. QED
        BY <3>3, <4>1, <4>2 DEF Runs
    <3>8. next = IF status = "EXPIRED" THEN "END"
                 ELSE IF status = "WAITING_CONFIRMATION" THEN "await_return_confirmation"
                 ELSE IF old.reason = NULL THEN "ask_return_reason" ELSE "finish_reason_collection"
      BY <3>4, <3>7 DEF AfterDraft
    <3>9. next \in Nodes
      BY <3>8 DEF Nodes
    <3>10. /\ run \in Runs /\ run.order = o /\ run.next = next /\ run.status = status
           /\ run.draft = shown /\ run.reason = old.reason /\ run.approved = old.approved
           /\ run.application = old.application
      BY <3>5, <3>7, <3>9 DEF Runs
    <3>11. old.approved # "yes" /\ old.application = NULL /\ old.draft = NULL /\ shown # NULL
      BY <1>1, MissingAssumption DEF Shaped
    <3>12. Shaped(run)
      BY <3>2, <3>8, <3>10, <3>11 DEF Shaped
    <3>13. ShowsOffer(run)' /\ EndHolds(run)' /\ ReviewHolds(run)' /\ SaidYes(run)'
      <4>1. ShowsOffer(run)'
        BY <3>1, <3>10 DEF ShowsOffer
      <4>2. EndHolds(run)'
        BY <3>2, <3>10, <3>11 DEF EndHolds
      <4>3. ReviewHolds(run)'
        BY <3>6, <3>10 DEF ReviewHolds
      <4>4. SaidYes(run)'
        BY <3>8, <3>10 DEF SaidYes
      <4>5. QED
        BY <4>1, <4>2, <4>3, <4>4
    <3>14. run \in Kept'
      BY <3>10, <3>12, <3>13, KeptWhenNext
    <3>15. Seen(old) \in {Life!Started, Life!RunView("start", "WAITING_REASON", NULL, FALSE)}
           /\ Seen(old).at = "start"
      BY <1>1, EarlySeen
    <3>16. /\ Seen(run) = Life!RunView(Place[next], status, shown.id, FALSE)
           /\ Seen(run).at = Place[next] /\ shown.id \in Ids
      BY <3>10, <3>11, DraftSeen
    <3>17. Seen(run) \in Life!StartSteps
      <4>1. CASE status = "EXPIRED"
        <5>1. Seen(run) = Life!Ended("EXPIRED", shown.id)
          BY <3>8, <3>16, <4>1, Places DEF Life!Ended
        <5>2. QED
          BY <3>16, <5>1, StartLeads, Zenon
      <4>2. CASE status = "WAITING_CONFIRMATION"
        <5>1. Seen(run) \in Life!Waiting(shown.id)
          BY <3>8, <3>16, <4>2, Places DEF Life!Waiting
        <5>2. QED
          BY <3>16, <5>1, StartLeads, Zenon
      <4>3. CASE status = "WAITING_REASON" /\ old.reason = NULL
        <5>1. Seen(run) \in Life!Waiting(shown.id)
          BY <3>8, <3>16, <4>3, Places DEF Life!Waiting
        <5>2. QED
          BY <3>16, <5>1, StartLeads, Zenon
      <4>4. CASE status = "WAITING_REASON" /\ old.reason # NULL
        <5>1. Seen(run) = Life!RunView("review", "WAITING_REASON", shown.id, FALSE)
          BY <3>8, <3>16, <4>4, Places
        <5>2. QED
          BY <3>16, <5>1, StartLeads, Zenon
      <4>5. QED
        BY <3>2, <4>1, <4>2, <4>3, <4>4
    <3>18. Seen(run) \in Life!RunSteps(Seen(old))
      <4>1. Seen(run) \in Life!NodeSteps(Seen(old))
        BY <3>15, <3>17 DEF Life!NodeSteps
      <4>2. QED
        BY <1>1, <4>1, LifeSteps
    <3>19. CASE next = "finish_reason_collection"
      <4>1. Seen(run).at = "review"
        BY <3>16, <3>19, Places
      <4>2. Seen(old) \in Life!UndoSteps(Seen(run))
        BY <3>15, <4>1 DEF Life!UndoSteps
      <4>3. Continue(t, run)
        BY <3>6, <3>10, <3>19
      <4>4. QED
        BY <1>1, <1>4, <2>1, <2>2, <3>14, <3>18, <4>2, <4>3, Continues, PartsNext
    <3>20. CASE next # "finish_reason_collection"
      <4>1. Leave(t, run)
        BY <3>6, <3>10, <3>20
      <4>2. QED
        BY <1>1, <1>4, <2>1, <2>2, <3>14, <3>18, <4>1, Leaves, PartsNext
    <3>21. QED
      BY <2>1, <3>19, <3>20
  <2>5. QED
    BY <2>3, <2>4
<1>5. QED
  BY <1>1, <1>2, <1>3, <1>4 DEF PrepareReturnDraft

\* A node ends with the run at one of its ends, or waiting for the customer.
LEMMA NodeSeen ==
  ASSUME NEW old \in Runs, NEW run \in Runs, old.draft # NULL, old.application = NULL,
         run.draft # NULL, run.draft.id = old.draft.id,
         \/ /\ old.next = "finish_reason_collection" /\ run.application = NULL
            /\ \/ run.next = "await_return_confirmation" /\ run.status = "WAITING_CONFIRMATION"
               \/ run.next = "END" /\ run.status \in {"COMPLETED", "EXPIRED"}
         \/ /\ old.next = "execute_return" /\ run.next = "END"
            /\ \/ run.status = "COMPLETED" /\ run.application # NULL
               \/ run.status \in {"STALE_CONFIRMATION", "EXPIRED"} /\ run.application = NULL
         \/ /\ old.next = "cancel_return" /\ run.next = "END"
            /\ run.status = "CANCELLED" /\ run.application = NULL
  PROVE  Seen(run) \in Life!RunSteps(Seen(old))
<1>1. /\ Seen(old).at = Place[old.next] /\ Seen(old).draft = old.draft.id /\ Seen(old) # NoRun
  BY DraftSeen, SeenIs
<1>2. Seen(run) = Life!RunView(Place[run.next], run.status, old.draft.id, run.application # NULL)
  BY SeenIs
<1>3. CASE old.next = "finish_reason_collection"
  <2>1. Seen(run) \in Life!ReviewSteps(Seen(old))
    BY <1>1, <1>2, <1>3, Places DEF Life!ReviewSteps, Life!Ended
  <2>2. Seen(run) \in Life!NodeSteps(Seen(old))
    BY <1>1, <1>3, <2>1, Places DEF Life!NodeSteps
  <2>3. QED
    BY <1>1, <2>2, LifeSteps
<1>4. CASE old.next = "execute_return"
  <2>1. Seen(run) \in Life!ExecuteSteps(Seen(old))
    BY <1>1, <1>2, <1>4, Places DEF Life!ExecuteSteps, Life!Ended
  <2>2. Seen(run) \in Life!NodeSteps(Seen(old))
    BY <1>1, <1>4, <2>1, Places DEF Life!NodeSteps
  <2>3. QED
    BY <1>1, <2>2, LifeSteps
<1>5. CASE old.next = "cancel_return"
  <2>1. Seen(run) = Life!Ended("CANCELLED", Seen(old).draft)
    BY <1>1, <1>2, <1>5, Places DEF Life!Ended
  <2>2. Seen(run) \in Life!NodeSteps(Seen(old))
    BY <1>1, <1>5, <2>1, Places DEF Life!NodeSteps
  <2>3. QED
    BY <1>1, <2>2, LifeSteps
<1>6. QED
  BY <1>3, <1>4, <1>5

\* Another status of the draft shown.
LEMMA Restated ==
  ASSUME NEW draft \in Shown, NEW status \in {"WAITING_REASON", "EXPIRED", "REVIEWED", "SUBMITTED", "CANCELLED"}
  PROVE  LET new == [draft EXCEPT !.status = status]
         IN  /\ new \in Shown /\ new # NULL
             /\ new.id = draft.id /\ new.terms = draft.terms /\ new.status = status
BY MissingAssumption DEF Shown

LEMMA FinishReasonCollectionStep ==
  ASSUME AgentInduction, NEW t \in Threads, FinishReasonCollection(t)
  PROVE  AgentInduction' /\ Lives /\ [Next]_vars
<1>1. PICK old \in Kept : /\ old = runs[t] /\ View(t) = Seen(old) /\ old.next = "finish_reason_collection"
                         /\ old \in Runs /\ Shaped(old) /\ ShowsOffer(old) /\ EndHolds(old)
                         /\ ReviewHolds(old) /\ SaidYes(old) /\ Seen(old) # NoRun
  BY AtNode DEF FinishReasonCollection
<1>2. /\ old.draft # NULL /\ old.draft \in Shown /\ old.order \in Orders /\ old.reason \in Requests
      /\ old.application = NULL /\ old.approved # "yes"
  BY <1>1 DEF Shaped, Runs
<1>3. CASE Refused(t)
  BY <1>3, RefusedStep
<1>4. CASE /\ SubmitOutcome(old.order, old.draft.id, old.reason) = "DRAFT_EXPIRED"
           /\ Leave(t, [old EXCEPT !.draft.status = "EXPIRED", !.status = "EXPIRED", !.next = "END"])
           /\ UNCHANGED <<vars, wire, approvals>>
  <2> DEFINE draft == [old.draft EXCEPT !.status = "EXPIRED"]
             run == [old EXCEPT !.draft = draft, !.status = "EXPIRED", !.next = "END"]
  <2>1. draft \in Shown /\ draft # NULL /\ draft.id = old.draft.id /\ draft.terms = old.draft.terms
    BY <1>2, Restated
  <2>2. [old EXCEPT !.draft.status = "EXPIRED", !.status = "EXPIRED", !.next = "END"] = run
    BY <1>1 DEF Runs
  <2> HIDE DEF draft
  <2>3. /\ run \in Runs /\ run.order = old.order /\ run.next = "END" /\ run.status = "EXPIRED"
        /\ run.draft = draft /\ run.approved = old.approved /\ run.application = NULL
    <3>1. old \in Runs /\ "END" \in Nodes /\ "EXPIRED" \in RunStatuses
      BY <1>1 DEF RunStatuses, Nodes
    <3>2. run \in Runs
      BY <3>1, <1>2, <2>1 DEF Runs
    <3>3. QED
      BY <3>1, <3>2, <1>2, <2>1 DEF Runs
  <2> HIDE DEF run
  <2>4. Shaped(run)
    BY <1>2, <2>1, <2>3 DEF Shaped
  <2>5. ShowsOffer(run) /\ EndHolds(run) /\ ReviewHolds(run) /\ SaidYes(run)
    BY <1>1, <1>2, <2>1, <2>3 DEF ShowsOffer, EndHolds, ReviewHolds, SaidYes
  <2>6. run \in Kept
    BY <2>3, <2>4, <2>5, KeptWhen
  <2>7. Seen(run) \in Life!RunSteps(Seen(old))
    BY <1>1, <1>2, <2>1, <2>3, NodeSeen
  <2>8. [Next]_vars
    BY <1>4
  <2>9. QED
    BY <1>1, <1>4, <2>2, <2>6, <2>7, <2>8, QuietLeave
<1>5. CASE ServeSubmit(old.order, old.draft.id, old.reason) /\ UNCHANGED <<wire, approvals>>
  <2>1. PICK o \in Orders, request \in Requests : o = old.order /\ request = old.reason
    BY <1>2
  <2>2. /\ [Next]_vars /\ UNCHANGED applications
        /\ drafts'[o].submitted = request /\ drafts'[o].result # NULL
    BY <1>5, <2>1, Parts, ServesSubmit
  <2>3. ServicePart /\ ThreadPart /\ ServicePart' /\ WorldPart' /\ Kept \subseteq Kept'
    BY <1>5, <2>2, Served
  <2>4. CASE LeaveUnsaved(t)
    BY <1>5, <2>2, <2>3, <2>4, LeavesUnsaved, PartsNext
  <2>5. ASSUME NEW status, NEW next,
               \/ /\ status = "WAITING_CONFIRMATION" /\ next = "await_return_confirmation"
                  /\ drafts'[o].result.decision = "ACCEPTABLE"
               \/ status = "COMPLETED" /\ next = "END",
               Leave(t, [old EXCEPT !.draft.status = "REVIEWED", !.status = status, !.next = next])
        PROVE  AgentInduction' /\ Lives
    <3> DEFINE draft == [old.draft EXCEPT !.status = "REVIEWED"]
               run == [old EXCEPT !.draft = draft, !.status = status, !.next = next]
    <3>1. draft \in Shown /\ draft # NULL /\ draft.id = old.draft.id /\ draft.terms = old.draft.terms
      BY <1>2, Restated
    <3>2. [old EXCEPT !.draft.status = "REVIEWED", !.status = status, !.next = next] = run
      BY <1>1 DEF Runs
    <3> HIDE DEF draft
    <3>a. status \in RunStatuses /\ next \in Nodes /\ old \in Runs
      BY <1>1, <2>5 DEF RunStatuses, Nodes
    <3>3. /\ run \in Runs /\ run.order = o /\ run.next = next /\ run.status = status
          /\ run.draft = draft /\ run.reason = request /\ run.approved = old.approved
          /\ run.application = NULL
      BY <1>2, <2>1, <3>1, <3>a DEF Runs
    <3> HIDE DEF run
    <3>4. Shaped(run)
      BY <1>2, <2>5, <3>1, <3>3 DEF Shaped
    <3>5. ShowsOffer(run)'
      <4>1. offers \subseteq offers'
        BY <2>2, <2>3, ServiceStays
      <4>2. QED
        BY <1>1, <1>2, <2>1, <3>1, <3>3, <4>1 DEF ShowsOffer
    <3>6. EndHolds(run)' /\ SaidYes(run)'
      BY <2>5, <3>3 DEF EndHolds, SaidYes
    <3>7. ReviewHolds(run)'
      BY <2>2, <2>5, <3>3 DEF ReviewHolds
    <3>8. run \in Kept'
      BY <3>3, <3>4, <3>5, <3>6, <3>7, KeptWhenNext
    <3>9. Seen(run) \in Life!RunSteps(Seen(old))
      BY <1>1, <1>2, <2>5, <3>1, <3>3, NodeSeen
    <3>10. ThreadPart' /\ Lives
      BY <1>1, <1>5, <2>2, <2>3, <2>5, <3>2, <3>8, <3>9, Leaves
    <3>11. QED
      BY <2>3, <3>10, PartsNext
  <2>6. CASE ~LeaveUnsaved(t) /\ ~Refused(t)
             /\ SubmitOutcome(old.order, old.draft.id, old.reason) # "DRAFT_EXPIRED"
    <3>1. \/ /\ drafts'[o].result.decision = "ACCEPTABLE"
             /\ Leave(t, [old EXCEPT !.draft.status = "REVIEWED", !.status = "WAITING_CONFIRMATION",
                                     !.next = "await_return_confirmation"])
          \/ Leave(t, [old EXCEPT !.draft.status = "REVIEWED", !.status = "COMPLETED", !.next = "END"])
      BY <1>1, <2>1, <2>6, Zenon DEF FinishReasonCollection
    <3>2. QED
      BY <2>2, <2>5, <3>1
  <2>7. SubmitOutcome(old.order, old.draft.id, old.reason) = "OK"
    BY <1>5 DEF ServeSubmit
  <2>8. QED
    BY <1>3, <2>2, <2>4, <2>6, <2>7
<1>6. QED
  BY <1>1, <1>3, <1>4, <1>5 DEF FinishReasonCollection

\* A confirmation the customer said yes to makes no other application, and
\* the receipt is for the offer it was said of.
LEMMA ConfirmsApproved ==
  ASSUME ServicePart, WorldPart, NEW offer \in offers, Confirm(offer.order, offer.draft),
         [draft |-> offer.draft, terms |-> offer.terms] \in approvals,
         wire' \subseteq wire, UNCHANGED approvals
  PROVE  /\ [Next]_vars /\ ServicePart' /\ WorldPart'
         /\ \A a \in applications' : a.draft = offer.draft => a.terms = offer.terms
<1>1. PICK o \in Orders, d \in Ids : o = offer.order /\ d = offer.draft
  BY DEF ServicePart, TypeOK, Offers
<1>2. /\ [Next]_vars /\ UNCHANGED offers
      /\ \A a \in applications' \ applications : a.draft = d
  BY <1>1, Confirms
<1>3. ServicePart'
  BY <1>2, ServiceStays
<1>4. ASSUME NEW a \in applications', a.draft = d PROVE a.terms = offer.terms
  <2>1. UNCHANGED drafts
    BY DEF Confirm
  <2>2. PICK p \in Orders : p = a.order /\ Found(p, d) /\ a.terms = drafts[p].terms
    BY <1>3, <1>4, <2>1 DEF ServicePart, Bookkeeping, ApplicationsStay, Drafted, Found
  <2>3. QED
    BY <1>1, <2>2, OfferIsRow DEF ServicePart
<1>5. ASSUME NEW a \in applications' PROVE [draft |-> a.draft, terms |-> a.terms] \in approvals
  <2>1. CASE a \in applications
    BY <2>1 DEF WorldPart, ApplicationsApproved
  <2>2. CASE a \notin applications
    <3>1. a.draft = d /\ a.terms = offer.terms
      BY <1>2, <1>4, <2>2
    <3>2. QED
      BY <1>1, <3>1
  <2>3. QED
    BY <2>1, <2>2
<1>6. WorldPart'
  BY <1>2, <1>5 DEF WorldPart, WireHolds, ApplicationsApproved
<1>7. QED
  BY <1>1, <1>2, <1>3, <1>4, <1>6

LEMMA ExecuteReturnStep ==
  ASSUME AgentInduction, NEW t \in Threads, ExecuteReturn(t)
  PROVE  AgentInduction' /\ Lives /\ [Next]_vars
<1>1. PICK old \in Kept : /\ old = runs[t] /\ View(t) = Seen(old) /\ old.next = "execute_return"
                         /\ old \in Runs /\ Shaped(old) /\ ShowsOffer(old) /\ EndHolds(old)
                         /\ ReviewHolds(old) /\ SaidYes(old) /\ Seen(old) # NoRun
  BY AtNode DEF ExecuteReturn
<1>2. /\ old.draft # NULL /\ old.draft \in Shown /\ old.order \in Orders /\ old.application = NULL
      /\ old.draft.id \in Ids
  BY <1>1 DEF Shaped, Runs, Shown
<1>3. CASE Refused(t)
  BY <1>3, RefusedStep
<1>4. CASE /\ ConfirmOutcome(old.order, old.draft.id) = "ORDER_CHANGED"
           /\ Leave(t, [old EXCEPT !.next = "END", !.status = "STALE_CONFIRMATION"])
           /\ UNCHANGED <<vars, wire, approvals>>
  <2> DEFINE run == [old EXCEPT !.next = "END", !.status = "STALE_CONFIRMATION"]
  <2>1. /\ run \in Runs /\ run.order = old.order /\ run.next = "END"
        /\ run.status = "STALE_CONFIRMATION" /\ run.draft = old.draft
        /\ run.approved = old.approved /\ run.application = NULL
    <3>1. old \in Runs /\ "END" \in Nodes /\ "STALE_CONFIRMATION" \in RunStatuses
      BY <1>1 DEF RunStatuses, Nodes
    <3>2. run \in Runs
      BY <3>1, <1>2 DEF Runs
    <3>3. QED
      BY <3>1, <3>2, <1>2 DEF Runs
  <2> HIDE DEF run
  <2>2. Shaped(run) /\ ShowsOffer(run) /\ EndHolds(run) /\ ReviewHolds(run) /\ SaidYes(run)
    BY <1>1, <1>2, <2>1 DEF Shaped, ShowsOffer, EndHolds, ReviewHolds, SaidYes
  <2>3. run \in Kept
    BY <2>1, <2>2, KeptWhen
  <2>4. Seen(run) \in Life!RunSteps(Seen(old))
    BY <1>1, <1>2, <2>1, NodeSeen
  <2>5. [Next]_vars
    BY <1>4
  <2>6. QED
    BY <1>1, <1>4, <2>3, <2>4, <2>5, QuietLeave DEF run
<1>5. CASE /\ ConfirmOutcome(old.order, old.draft.id) = "DRAFT_EXPIRED"
           /\ Leave(t, [old EXCEPT !.next = "END", !.status = "EXPIRED", !.draft.status = "EXPIRED"])
           /\ UNCHANGED <<vars, wire, approvals>>
  <2> DEFINE draft == [old.draft EXCEPT !.status = "EXPIRED"]
             run == [old EXCEPT !.next = "END", !.status = "EXPIRED", !.draft = draft]
  <2>1. draft \in Shown /\ draft # NULL /\ draft.id = old.draft.id /\ draft.terms = old.draft.terms
    BY <1>2, Restated
  <2>2. [old EXCEPT !.next = "END", !.status = "EXPIRED", !.draft.status = "EXPIRED"] = run
    BY <1>1 DEF Runs
  <2> HIDE DEF draft
  <2>3. /\ run \in Runs /\ run.order = old.order /\ run.next = "END" /\ run.status = "EXPIRED"
        /\ run.draft = draft /\ run.approved = old.approved /\ run.application = NULL
    <3>1. old \in Runs /\ "END" \in Nodes /\ "EXPIRED" \in RunStatuses
      BY <1>1 DEF RunStatuses, Nodes
    <3>2. run \in Runs
      BY <3>1, <1>2, <2>1 DEF Runs
    <3>3. QED
      BY <3>1, <3>2, <1>2, <2>1 DEF Runs
  <2> HIDE DEF run
  <2>4. Shaped(run)
    BY <2>1, <2>3 DEF Shaped
  <2>5. Over(old.order, old.draft.id)
    BY <1>5 DEF ConfirmOutcome, Over, Found, Applied
  <2>6. ShowsOffer(run) /\ EndHolds(run) /\ ReviewHolds(run) /\ SaidYes(run)
    BY <1>1, <1>2, <2>1, <2>3, <2>5 DEF ShowsOffer, EndHolds, ReviewHolds, SaidYes
  <2>7. run \in Kept
    BY <2>3, <2>4, <2>6, KeptWhen
  <2>8. Seen(run) \in Life!RunSteps(Seen(old))
    BY <1>1, <1>2, <2>1, <2>3, NodeSeen
  <2>9. [Next]_vars
    BY <1>5
  <2>10. QED
    BY <1>1, <1>5, <2>2, <2>7, <2>8, <2>9, QuietLeave
<1>6. CASE /\ Confirm(old.order, old.draft.id)
           /\ \E a \in applications' :
                /\ a.draft = old.draft.id
                /\ Leave(t, [old EXCEPT !.next = "END", !.status = "COMPLETED", !.application = a,
                                        !.draft.status = "SUBMITTED"])
           /\ UNCHANGED <<wire, approvals>>
  <2>1. PICK offer \in offers : /\ offer.draft = old.draft.id /\ offer.order = old.order
                                /\ offer.terms = old.draft.terms
    BY <1>1, <1>2 DEF ShowsOffer
  <2>2. ServicePart /\ WorldPart /\ ThreadPart
    BY Parts
  <2>3. /\ [Next]_vars /\ ServicePart' /\ WorldPart'
        /\ \A a \in applications' : a.draft = offer.draft => a.terms = offer.terms
    <3>1. [draft |-> offer.draft, terms |-> offer.terms] \in approvals
      BY <1>1, <2>1 DEF SaidYes
    <3>2. QED
      BY <1>6, <2>1, <2>2, <3>1, ConfirmsApproved
  <2>4. PICK a \in applications' :
          /\ a.draft = old.draft.id
          /\ Leave(t, [old EXCEPT !.next = "END", !.status = "COMPLETED", !.application = a,
                                  !.draft.status = "SUBMITTED"])
    BY <1>6
  <2>5. a \in Applications /\ a # NULL /\ a.terms = old.draft.terms
    BY <2>1, <2>3, <2>4, MissingAssumption DEF ServicePart, TypeOK
  <2> DEFINE draft == [old.draft EXCEPT !.status = "SUBMITTED"]
             run == [old EXCEPT !.next = "END", !.status = "COMPLETED", !.application = a,
                                !.draft = draft]
  <2>6. draft \in Shown /\ draft # NULL /\ draft.id = old.draft.id /\ draft.terms = old.draft.terms
    BY <1>2, Restated
  <2>7. [old EXCEPT !.next = "END", !.status = "COMPLETED", !.application = a,
                    !.draft.status = "SUBMITTED"] = run
    BY <1>1 DEF Runs
  <2> HIDE DEF draft
  <2>8. /\ run \in Runs /\ run.order = old.order /\ run.next = "END" /\ run.status = "COMPLETED"
        /\ run.draft = draft /\ run.approved = old.approved /\ run.application = a
    BY <1>1, <2>5, <2>6 DEF Runs, RunStatuses, Nodes
  <2> HIDE DEF run
  <2>9. Shaped(run)
    BY <2>6, <2>8 DEF Shaped
  <2>10. ShowsOffer(run)'
    BY <2>1, <2>2, <2>3, <2>6, <2>8, ServiceStays DEF ShowsOffer
  <2>11. EndHolds(run)' /\ ReviewHolds(run)' /\ SaidYes(run)'
    BY <2>4, <2>5, <2>6, <2>8 DEF EndHolds, ReviewHolds, SaidYes
  <2>12. run \in Kept'
    BY <2>8, <2>9, <2>10, <2>11, KeptWhenNext
  <2>13. Seen(run) \in Life!RunSteps(Seen(old))
    BY <1>1, <1>2, <2>5, <2>6, <2>8, NodeSeen
  <2>14. ThreadPart' /\ Lives
    BY <1>1, <1>6, <2>2, <2>3, <2>4, <2>7, <2>12, <2>13, Leaves
  <2>15. QED
    BY <2>3, <2>14, PartsNext
<1>7. QED
  BY <1>1, <1>3, <1>4, <1>5, <1>6 DEF ExecuteReturn

LEMMA CancelReturnStep ==
  ASSUME AgentInduction, NEW t \in Threads, CancelReturn(t)
  PROVE  AgentInduction' /\ Lives /\ [Next]_vars
<1>1. PICK old \in Kept : /\ old = runs[t] /\ View(t) = Seen(old) /\ old.next = "cancel_return"
                         /\ old \in Runs /\ Shaped(old) /\ ShowsOffer(old) /\ EndHolds(old)
                         /\ ReviewHolds(old) /\ SaidYes(old) /\ Seen(old) # NoRun
  BY AtNode DEF CancelReturn
<1>2. /\ old.draft # NULL /\ old.draft \in Shown /\ old.order \in Orders /\ old.application = NULL
      /\ old.approved # "yes"
  BY <1>1 DEF Shaped, Runs
<1>3. CASE Refused(t)
  BY <1>3, RefusedStep
<1>4. CASE /\ Cancel(old.order, old.draft.id)
           /\ Leave(t, [old EXCEPT !.next = "END", !.status = "CANCELLED",
                                   !.draft.status = "CANCELLED"])
           /\ UNCHANGED <<wire, approvals>>
  <2>1. PICK o \in Orders, d \in Ids : o = old.order /\ d = old.draft.id
    BY <1>2 DEF Shown
  <2>2. [Next]_vars /\ UNCHANGED applications /\ Over(o, d)'
    BY <1>4, <2>1, Parts, Cancels
  <2>3. ServicePart /\ ThreadPart /\ ServicePart' /\ WorldPart' /\ Kept \subseteq Kept'
    BY <1>4, <2>2, Served
  <2> DEFINE draft == [old.draft EXCEPT !.status = "CANCELLED"]
             run == [old EXCEPT !.next = "END", !.status = "CANCELLED", !.draft = draft]
  <2>4. draft \in Shown /\ draft # NULL /\ draft.id = d /\ draft.terms = old.draft.terms
    BY <1>2, <2>1, Restated
  <2>5. [old EXCEPT !.next = "END", !.status = "CANCELLED", !.draft.status = "CANCELLED"] = run
    BY <1>1 DEF Runs
  <2> HIDE DEF draft
  <2>6. /\ run \in Runs /\ run.order = o /\ run.next = "END" /\ run.status = "CANCELLED"
        /\ run.draft = draft /\ run.approved = old.approved /\ run.application = NULL
    <3>1. old \in Runs /\ "END" \in Nodes /\ "CANCELLED" \in RunStatuses
      BY <1>1 DEF RunStatuses, Nodes
    <3>2. run \in Runs
      BY <3>1, <1>2, <2>1, <2>4 DEF Runs
    <3>3. QED
      BY <3>1, <3>2, <1>2, <2>1, <2>4 DEF Runs
  <2> HIDE DEF run
  <2>7. Shaped(run)
    BY <1>2, <2>4, <2>6 DEF Shaped
  <2>8. ShowsOffer(run)'
    <3>1. offers \subseteq offers'
      BY <2>2, <2>3, ServiceStays
    <3>2. QED
      BY <1>1, <1>2, <2>1, <2>4, <2>6, <3>1 DEF ShowsOffer
  <2>9. EndHolds(run)' /\ ReviewHolds(run)' /\ SaidYes(run)'
    <3>1. Over(run.order, run.draft.id)'
      BY <2>2, <2>4, <2>6
    <3>2. QED
      BY <2>6, <3>1 DEF EndHolds, ReviewHolds, SaidYes
  <2>10. run \in Kept'
    BY <2>6, <2>7, <2>8, <2>9, KeptWhenNext
  <2>11. Seen(run) \in Life!RunSteps(Seen(old))
    BY <1>1, <1>2, <2>1, <2>4, <2>6, NodeSeen
  <2>12. ThreadPart' /\ Lives
    BY <1>1, <1>4, <2>2, <2>3, <2>5, <2>10, <2>11, Leaves
  <2>13. QED
    BY <2>2, <2>3, <2>12, PartsNext
<1>5. QED
  BY <1>1, <1>3, <1>4 DEF CancelReturn
----------------------------------------------------------------------------
(* The refresh of a stale run.                                             *)

\* What is known of a run that is being refreshed.
LEMMA Refreshing ==
  ASSUME AgentInduction, NEW t \in Threads, calls[t].doing = "refresh"
  PROVE  \E old \in Kept :
           /\ old = runs[t] /\ View(t) = Seen(old) /\ old \in Runs /\ ShowsOffer(old)
           /\ old.status = "STALE_CONFIRMATION" /\ old.next = "END" /\ old.draft # NULL
           /\ old.draft \in Shown /\ old.draft.id \in Ids /\ old.application = NULL
           /\ old.order \in Orders /\ calls[t] \in Callings
           /\ Seen(old) # NoRun /\ Life!Stale(Seen(old)) /\ Seen(old).draft = old.draft.id
<1>1. PICK old \in Kept : /\ old = runs[t] /\ View(t) = Seen(old)
                          /\ Linked(calls[t], old) /\ calls[t] \in Callings
  BY Parts, ThreadIs DEF View
<1>2. old \in Runs /\ Shaped(old) /\ ShowsOffer(old) /\ old.status = "STALE_CONFIRMATION"
  BY <1>1, KeptIs DEF Linked
<1>3. old.next = "END" /\ old.draft # NULL /\ old.application = NULL
  BY <1>2 DEF Shaped
<1>4. Seen(old) # NoRun /\ Seen(old).status = "STALE_CONFIRMATION" /\ Seen(old).draft = old.draft.id
      /\ old.draft \in Shown /\ old.draft.id \in Ids
  BY <1>2, <1>3, SeenIs, DraftSeen
<1>5. old.order \in Orders
  BY <1>2 DEF Runs
<1>6. QED
  BY <1>1, <1>2, <1>3, <1>4, <1>5 DEF Life!Stale

LEMMA RefreshLeads ==
  ASSUME NEW view, Life!Stale(view), NEW d \in Ids, d # view.draft
  PROVE  Life!Waiting(d) \subseteq Life!RefreshSteps(view)
<1>1. Life!Waiting(d) \subseteq UNION {Life!Waiting(e) : e \in Ids \ {view.draft}}
  OBVIOUS
<1>2. UNION {Life!Waiting(e) : e \in Ids \ {view.draft}} \subseteq Life!RefreshSteps(view)
  BY DEF Life!RefreshSteps
<1>3. QED
  BY <1>1, <1>2, Zenon

LEMMA RefreshEligibilityStep ==
  ASSUME AgentInduction, NEW t \in Threads, RefreshEligibility(t)
  PROVE  AgentInduction' /\ Lives /\ [Next]_vars
<1>1. PICK old \in Kept :
           /\ old = runs[t] /\ View(t) = Seen(old) /\ old \in Runs /\ ShowsOffer(old)
           /\ old.status = "STALE_CONFIRMATION" /\ old.next = "END" /\ old.draft # NULL
           /\ old.draft \in Shown /\ old.draft.id \in Ids /\ old.application = NULL
           /\ old.order \in Orders /\ calls[t] \in Callings
           /\ Seen(old) # NoRun /\ Life!Stale(Seen(old)) /\ Seen(old).draft = old.draft.id
  BY Refreshing DEF RefreshEligibility
<1>2. UNCHANGED <<vars, wire, approvals>> /\ [Next]_vars
  BY DEF RefreshEligibility
<1>3. PICK decision \in Decisions : decision = Eligibility(old.order).decision
  BY <1>1, Parts, EvaluateType DEF Eligibility, EligibilityRecord, ServicePart, TypeOK
<1>4. CASE decision = "NOT_ALLOWED"
  <2> DEFINE run == [old EXCEPT !.status = "COMPLETED", !.decision = decision,
                                !.application = NULL, !.next = "END"]
  <2>1. Leave(t, run)
    BY <1>1, <1>3, <1>4 DEF RefreshEligibility
  <2>2. /\ run \in Runs /\ run.order = old.order /\ run.next = "END" /\ run.status = "COMPLETED"
        /\ run.draft = old.draft /\ run.application = NULL
    <3>1. old \in Runs /\ "END" \in Nodes /\ "COMPLETED" \in RunStatuses
      BY <1>1 DEF RunStatuses, Nodes
    <3>2. run \in Runs
      BY <3>1 DEF Runs
    <3>3. QED
      BY <3>1, <3>2 DEF Runs
  <2> HIDE DEF run
  <2>3. Shaped(run) /\ ShowsOffer(run) /\ EndHolds(run) /\ ReviewHolds(run) /\ SaidYes(run)
    BY <1>1, <2>2 DEF Shaped, ShowsOffer, EndHolds, ReviewHolds, SaidYes
  <2>4. run \in Kept
    BY <2>2, <2>3, KeptWhen
  <2>5. Seen(run) = Life!Ended("COMPLETED", old.draft.id)
    <3>1. Seen(run) = Life!RunView(Place["END"], "COMPLETED", old.draft.id, FALSE)
      BY <1>1, <2>2, DraftSeen
    <3>2. QED
      BY <3>1, Places DEF Life!Ended
  <2>6. Seen(run) \in Life!RefreshSteps(Seen(old))
    BY <1>1, <2>5 DEF Life!RefreshSteps
  <2>7. Seen(run) \in Life!RunSteps(Seen(old))
    BY <1>1, <2>6, LifeSteps
  <2>8. QED
    BY <1>1, <1>2, <2>1, <2>4, <2>7, QuietLeave
<1>5. CASE decision # "NOT_ALLOWED"
  <2>1. PICK call : call = [calls[t] EXCEPT !.decision = decision]
    OBVIOUS
  <2>2. call \in Callings /\ call.doing = "refresh" /\ call.saved = calls[t].saved
    BY <1>1, <2>1 DEF Callings, RefreshEligibility
  <2>3. /\ ServicePart /\ ThreadPart /\ ServicePart' /\ WorldPart' /\ Kept \subseteq Kept'
    BY <1>2, Quiet, Parts DEF WorldPart
  <2>4. runs' = [runs EXCEPT ![t] = old] /\ calls' = [calls EXCEPT ![t] = call]
    BY <1>1, <1>3, <1>5, <2>1, <2>3 DEF RefreshEligibility, ThreadPart
  <2>5. Linked(call, old) /\ old # NoRun /\ call.saved \in Kept' \cup {NoRun}
    BY <1>1, <2>2, <2>3, MissingAssumption DEF Linked, ThreadPart
  <2>6. ThreadPart' /\ Lives
    BY <1>1, <1>2, <2>2, <2>3, <2>4, <2>5, Moves
  <2>7. QED
    BY <1>2, <2>3, <2>6, PartsNext
<1>6. QED
  BY <1>2, <1>4, <1>5

LEMMA RefreshDraftStep ==
  ASSUME AgentInduction, NEW t \in Threads, RefreshDraft(t)
  PROVE  AgentInduction' /\ Lives /\ [Next]_vars
<1>1. PICK old \in Kept :
           /\ old = runs[t] /\ View(t) = Seen(old) /\ old \in Runs /\ ShowsOffer(old)
           /\ old.status = "STALE_CONFIRMATION" /\ old.next = "END" /\ old.draft # NULL
           /\ old.draft \in Shown /\ old.draft.id \in Ids /\ old.application = NULL
           /\ old.order \in Orders /\ calls[t] \in Callings
           /\ Seen(old) # NoRun /\ Life!Stale(Seen(old)) /\ Seen(old).draft = old.draft.id
  BY Refreshing DEF RefreshDraft
<1>2. PICK o \in Orders, d \in Ids, decision \in Decisions :
        o = old.order /\ d = old.draft.id /\ decision = calls[t].decision
  BY <1>1 DEF RefreshDraft, Callings
<1>3. CASE Refused(t)
  BY <1>3, RefusedStep
<1>4. CASE /\ Refresh(o, d) /\ UNCHANGED <<wire, approvals>>
           /\ LET renewed == Renewed(old, decision, ShownDraft(o)')
              IN  Leave(t, [renewed EXCEPT !.next = AfterDraft(renewed)])
  <2>1. /\ [Next]_vars /\ UNCHANGED applications
        /\ drafts'[o] # NoDraft /\ drafts'[o].result = NULL /\ drafts'[o].id # d
    BY <1>4, Parts, Refreshes
  <2>2. ServicePart /\ ThreadPart /\ ServicePart' /\ WorldPart' /\ Kept \subseteq Kept'
    BY <1>4, <2>1, Served
  <2>3. PICK shown \in Shown :
          /\ shown = ShownDraft(o)' /\ shown.id = drafts'[o].id /\ shown.status = DraftStatus(o)'
          /\ \E offer \in offers' : /\ offer.draft = shown.id /\ offer.order = o
                                    /\ offer.terms = shown.terms
    BY <2>1, <2>2, ShownHoldsNext DEF ShownFacts
  <2>4. shown.id # d /\ shown.id \in Ids /\ shown # NULL /\ shown.status # "REVIEWED"
    BY <2>1, <2>3, MissingAssumption DEF DraftStatus, Shown
  <2>5. PICK status \in {"WAITING_CONFIRMATION", "WAITING_REASON"} : status = WaitingStatus(decision)
    BY DEF WaitingStatus
  <2>6. PICK renewed : renewed = [old EXCEPT !.status = status, !.decision = decision, !.draft = shown,
                                             !.reason = NULL, !.approved = "no", !.application = NULL]
    OBVIOUS
  <2>7. PICK next : next = AfterDraft(renewed)
    OBVIOUS
  <2>8. PICK run : run = [renewed EXCEPT !.next = next]
    OBVIOUS
  <2>9. Leave(t, run)
    <3>1. renewed = Renewed(old, decision, ShownDraft(o)')
      BY <2>3, <2>5, <2>6 DEF Renewed
    <3>2. QED
      BY <1>4, <2>7, <2>8, <3>1
  <2>10. /\ renewed \in Runs /\ renewed.order = o /\ renewed.status = status
         /\ renewed.draft = shown /\ renewed.reason = NULL /\ renewed.approved = "no"
         /\ renewed.application = NULL
    <3>1. old \in Runs /\ old.order = o /\ status \in RunStatuses
      BY <1>1, <1>2, <2>5 DEF RunStatuses
    <3>2. renewed \in Runs
      BY <2>6, <3>1 DEF Runs
    <3>3. QED
      BY <2>6, <3>1, <3>2 DEF Runs
  <2>11. next = IF status = "WAITING_CONFIRMATION" THEN "await_return_confirmation"
                ELSE "ask_return_reason"
    BY <2>5, <2>7, <2>10 DEF AfterDraft
  <2>12. next \in Nodes
    BY <2>11 DEF Nodes
  <2>13. /\ run \in Runs /\ run.order = o /\ run.next = next /\ run.status = status
         /\ run.draft = shown /\ run.reason = NULL /\ run.approved = "no" /\ run.application = NULL
    BY <2>8, <2>10, <2>12 DEF Runs
  <2>14. Shaped(run)
    BY <2>4, <2>5, <2>11, <2>13 DEF Shaped
  <2>15. ShowsOffer(run)'
    BY <2>3, <2>13 DEF ShowsOffer
  <2>16. EndHolds(run)' /\ ReviewHolds(run)' /\ SaidYes(run)'
    BY <2>4, <2>5, <2>11, <2>13 DEF EndHolds, ReviewHolds, SaidYes
  <2>17. run \in Kept'
    BY <2>13, <2>14, <2>15, <2>16, KeptWhenNext
  <2>18. Seen(run) = Life!RunView(Place[next], status, shown.id, FALSE)
    BY <2>4, <2>13, DraftSeen
  <2>19. Seen(run) \in Life!Waiting(shown.id)
    BY <2>5, <2>11, <2>18, Places DEF Life!Waiting
  <2>20. Seen(run) \in Life!RunSteps(Seen(old))
    <3>1. Seen(run) \in Life!RefreshSteps(Seen(old))
      BY <1>1, <1>2, <2>4, <2>19, RefreshLeads
    <3>2. QED
      BY <1>1, <3>1, LifeSteps
  <2>21. ThreadPart' /\ Lives
    BY <1>1, <1>4, <2>1, <2>2, <2>9, <2>17, <2>20, Leaves
  <2>22. QED
    BY <2>1, <2>2, <2>21, PartsNext
<1>5. QED
  BY <1>1, <1>2, <1>3, <1>4 DEF RefreshDraft

----------------------------------------------------------------------------
(* Lost answers, crashes and requests that are served late.                *)

\* The request a call waits for says what the run says.
LEMMA PendingHolds ==
  ASSUME AgentInduction, NEW t \in Threads, calls[t].doing # "nothing", NEW r \in Pending(t)
  PROVE  /\ r \in WireRequests
         /\ r.kind = "submit" => r.reason \in Requests
         /\ r.kind = "confirm" =>
              \E offer \in offers : /\ offer.draft = r.draft
                                    /\ offer.order = r.order
                                    /\ [draft |-> r.draft, terms |-> offer.terms] \in approvals
<1>1. PICK old \in Kept : old = runs[t] /\ Linked(calls[t], old)
  BY Parts, ThreadIs
<1>2. old \in Runs /\ Shaped(old) /\ ShowsOffer(old) /\ SaidYes(old) /\ old.order \in Orders
  BY KeptIs DEF Runs
<1>3. old.draft # NULL => old.draft.id \in Ids
  BY <1>2 DEF Runs, Shown
<1> DEFINE Request(kind, draft, reason) ==
             [kind |-> kind, order |-> old.order, draft |-> draft, reason |-> reason]
<1>4. ASSUME NEW kind \in {"start", "submit", "confirm", "cancel", "refresh"},
             NEW draft \in Ids \cup {NULL}, NEW reason \in Requests \cup {NULL}
      PROVE  /\ Request(kind, draft, reason) \in WireRequests
             /\ Request(kind, draft, reason).kind = kind
             /\ Request(kind, draft, reason).order = old.order
             /\ Request(kind, draft, reason).draft = draft
             /\ Request(kind, draft, reason).reason = reason
  BY <1>2 DEF WireRequests
<1>5. \/ r = Request("refresh", old.draft.id, NULL) /\ calls[t].doing = "refresh"
      \/ r = Request("start", NULL, NULL)
      \/ r = Request("submit", old.draft.id, old.reason) /\ old.next = "finish_reason_collection"
      \/ r = Request("confirm", old.draft.id, NULL) /\ old.next = "execute_return"
      \/ r = Request("cancel", old.draft.id, NULL) /\ old.next = "cancel_return"
  BY <1>1 DEF Pending
<1> HIDE DEF Request
<1>6. CASE r = Request("refresh", old.draft.id, NULL) /\ calls[t].doing = "refresh"
  <2>1. old.draft # NULL
    BY <1>1, <1>2, <1>6 DEF Linked, Shaped
  <2>2. r \in WireRequests /\ r.kind \notin {"submit", "confirm"}
    BY <1>3, <1>4, <1>6, <2>1
  <2>3. QED
    BY <2>2
<1>7. CASE r = Request("start", NULL, NULL)
  BY <1>4, <1>7
<1>8. CASE r = Request("submit", old.draft.id, old.reason) /\ old.next = "finish_reason_collection"
  <2>1. old.draft # NULL /\ old.reason \in Requests
    BY <1>2, <1>8 DEF Shaped, Runs
  <2>2. QED
    BY <1>3, <1>4, <1>8, <2>1
<1>9. CASE r = Request("confirm", old.draft.id, NULL) /\ old.next = "execute_return"
  <2>1. old.draft # NULL
    BY <1>2, <1>9 DEF Shaped
  <2>2. PICK offer \in offers : /\ offer.draft = old.draft.id /\ offer.order = old.order
                                /\ offer.terms = old.draft.terms
    BY <1>2, <2>1 DEF ShowsOffer
  <2>3. [draft |-> old.draft.id, terms |-> offer.terms] \in approvals
    BY <1>2, <1>9, <2>2 DEF SaidYes
  <2>4. /\ r \in WireRequests /\ r.kind = "confirm" /\ r.draft = old.draft.id /\ r.order = old.order
    BY <1>3, <1>4, <1>9, <2>1
  <2>5. QED
    BY <2>2, <2>3, <2>4
<1>10. CASE r = Request("cancel", old.draft.id, NULL) /\ old.next = "cancel_return"
  <2>1. old.draft # NULL
    BY <1>2, <1>10 DEF Shaped
  <2>2. r \in WireRequests /\ r.kind \notin {"submit", "confirm"}
    BY <1>3, <1>4, <1>10, <2>1
  <2>3. QED
    BY <2>2
<1>11. QED
  BY <1>5, <1>6, <1>7, <1>8, <1>9, <1>10

\* The caller gives up: its request is lost or stays on the wire.
LEMMA GivesUp ==
  ASSUME AgentInduction, NEW t \in Threads, calls[t].doing # "nothing",
         UNCHANGED <<vars, approvals>>, UNCHANGED wire \/ wire' = wire \cup Pending(t)
  PROVE  /\ [Next]_vars /\ ServicePart /\ ThreadPart
         /\ ServicePart' /\ WorldPart' /\ Kept \subseteq Kept'
<1>1. ServicePart /\ WorldPart /\ ThreadPart /\ [Next]_vars
  BY Parts
<1>2. ServicePart' /\ Kept \subseteq Kept'
  BY <1>1, ServiceStays, KeptStays DEF ServicePart
<1>3. UNCHANGED <<offers, applications>>
  BY DEF vars
<1>4. ASSUME NEW r \in wire'
      PROVE  /\ r \in WireRequests
             /\ r.kind = "submit" => r.reason \in Requests
             /\ r.kind = "confirm" =>
                  \E offer \in offers : /\ offer.draft = r.draft
                                        /\ offer.order = r.order
                                        /\ [draft |-> r.draft, terms |-> offer.terms] \in approvals
  <2>1. CASE r \in wire
    BY <1>1, <2>1 DEF WorldPart, WireHolds
  <2>2. CASE r \in Pending(t)
    BY <2>2, PendingHolds
  <2>3. QED
    BY <1>4, <2>1, <2>2
<1>5. WorldPart'
  BY <1>1, <1>3, <1>4 DEF WorldPart, WireHolds, ApplicationsApproved
<1>6. QED
  BY <1>1, <1>2, <1>5

LEMMA TimeOutStep ==
  ASSUME AgentInduction, NEW t \in Threads, TimeOut(t)
  PROVE  AgentInduction' /\ Lives /\ [Next]_vars
<1>1. calls[t].doing # "nothing" /\ UNCHANGED <<vars, approvals>> /\ LeaveUnsaved(t)
      /\ (UNCHANGED wire \/ wire' = wire \cup Pending(t))
  BY DEF TimeOut, IsIdle
<1>2. /\ [Next]_vars /\ ServicePart /\ ThreadPart
      /\ ServicePart' /\ WorldPart' /\ Kept \subseteq Kept'
  BY <1>1, GivesUp
<1>3. ThreadPart' /\ Lives
  BY <1>1, <1>2, LeavesUnsaved
<1>4. QED
  BY <1>2, <1>3, PartsNext

LEMMA CrashStep ==
  ASSUME AgentInduction, NEW t \in Threads, Crash(t)
  PROVE  AgentInduction' /\ Lives /\ [Next]_vars
<1>1. calls[t].doing = "graph" /\ UNCHANGED <<vars, approvals>> /\ Leave(t, calls[t].saved)
      /\ (UNCHANGED wire \/ wire' = wire \cup Pending(t))
  BY DEF Crash
<1>2. /\ [Next]_vars /\ ServicePart /\ ThreadPart
      /\ ServicePart' /\ WorldPart' /\ Kept \subseteq Kept'
  BY <1>1, GivesUp
<1>3. PICK saved \in Kept' \cup {NoRun} : saved = calls[t].saved
  BY <1>2 DEF ThreadPart
<1>4. PICK old \in Kept : old = runs[t] /\ View(t) = Seen(old) /\ Linked(calls[t], old)
  BY <1>1, <1>2, ThreadIs DEF View
<1>5. Seen(old) # NoRun
  BY KeptIs, SeenIs
<1>6. Seen(saved) = Seen(old) \/ Seen(saved) \in Life!RunSteps(Seen(old))
  BY <1>1, <1>3, <1>4, <1>5, LifeSteps DEF Linked
<1>7. ThreadPart' /\ Lives
  BY <1>1, <1>2, <1>3, <1>4, <1>6, Leaves
<1>8. QED
  BY <1>2, <1>7, PartsNext

\* No thread takes a step.
LEMMA ThreadsStay ==
  ASSUME ServicePart, ThreadPart, [Next]_vars, approvals \subseteq approvals',
         UNCHANGED <<runs, calls>>
  PROVE  ThreadPart' /\ Lives
<1>1. Kept \subseteq Kept'
  BY KeptStays DEF ServicePart
<1>2. Callings' = Callings
  BY DEF Callings
<1>3. runs' \in [Threads -> Kept' \cup {NoRun}]
  BY <1>1 DEF ThreadPart
<1>4. QED
  BY <1>1, <1>2, <1>3 DEF ThreadPart, Lives, View, Linked

LEMMA LateArrivalStep ==
  ASSUME AgentInduction, LateArrival
  PROVE  AgentInduction' /\ Lives /\ [Next]_vars
<1>1. ServicePart /\ WorldPart /\ ThreadPart
  BY Parts
<1>2. PICK r \in wire :
        /\ wire' = wire \ {r}
        /\ \/ r.kind = "start" /\ ServeStart(r.order)
           \/ r.kind = "submit" /\ ServeSubmit(r.order, r.draft, r.reason)
           \/ r.kind = "confirm" /\ Confirm(r.order, r.draft)
           \/ r.kind = "cancel" /\ Cancel(r.order, r.draft)
           \/ r.kind = "refresh" /\ Refresh(r.order, r.draft)
  BY DEF LateArrival
<1>3. UNCHANGED <<runs, calls, approvals>>
  BY DEF LateArrival
<1>4. r.order \in Orders /\ (r.kind = "submit" => r.reason \in Requests)
  BY <1>1 DEF WorldPart, WireHolds, WireRequests
<1>5. CASE r.kind = "confirm" /\ Confirm(r.order, r.draft)
  <2>1. PICK offer \in offers : /\ offer.draft = r.draft /\ offer.order = r.order
                                /\ [draft |-> r.draft, terms |-> offer.terms] \in approvals
    BY <1>1, <1>5 DEF WorldPart, WireHolds
  <2>2. [Next]_vars /\ ServicePart' /\ WorldPart'
    BY <1>1, <1>2, <1>3, <1>5, <2>1, ConfirmsApproved
  <2>3. QED
    BY <1>1, <1>3, <2>2, ThreadsStay, PartsNext
<1>6. CASE r.kind # "confirm"
  <2>1. [Next]_vars /\ UNCHANGED applications
    BY <1>1, <1>2, <1>4, <1>6, ServesStart, ServesSubmit, Cancels, Refreshes
  <2>2. ServicePart' /\ offers \subseteq offers'
    BY <1>1, <2>1, ServiceStays
  <2>3. WorldPart'
    BY <1>1, <1>2, <1>3, <2>1, <2>2 DEF WorldPart, WireHolds, ApplicationsApproved
  <2>4. QED
    BY <1>1, <1>3, <2>1, <2>2, <2>3, ThreadsStay, PartsNext
<1>7. QED
  BY <1>2, <1>5, <1>6

\* Other systems write the tables, time passes, or nothing happens.
LEMMA WorldStep ==
  ASSUME AgentInduction, World \/ UNCHANGED allVars
  PROVE  AgentInduction' /\ Lives /\ [Next]_vars
<1>1. /\ [Next]_vars /\ UNCHANGED applications /\ UNCHANGED agentVars
  BY DEF World, Environment, Next, Tick, ChangeOrder, ChangePolicy, tables, allVars, vars, agentVars
<1>2. UNCHANGED <<wire, approvals>> /\ UNCHANGED <<runs, calls>>
  BY <1>1 DEF agentVars
<1>3. ServicePart /\ ThreadPart /\ ServicePart' /\ WorldPart'
  BY <1>1, <1>2, Served
<1>4. QED
  BY <1>1, <1>2, <1>3, ThreadsStay, PartsNext
----------------------------------------------------------------------------
(* The theorems.                                                           *)

LEMMA AgentStart == AgentInit => AgentInduction
<1>1. SUFFICES ASSUME AgentInit PROVE ServicePart /\ WorldPart /\ ThreadPart
  BY Parts
<1>2. Init /\ runs = [t \in Threads |-> NoRun] /\ calls = [t \in Threads |-> Idle]
      /\ wire = {} /\ approvals = {}
  BY <1>1 DEF AgentInit
<1>3. OffersIdentified
  <2>legacy. PICK old \in SUBSET LegacyOrders :
          \E legacy \in [old -> LegacyDrafts] :
            /\ \A o1, o2 \in old : legacy[o1].id = legacy[o2].id => o1 = o2
            /\ offers = {OfferOf(o, legacy[o]) : o \in old}
    BY <1>2 DEF Init
  <2>1. PICK legacy \in [old -> LegacyDrafts] :
          /\ \A o1, o2 \in old : legacy[o1].id = legacy[o2].id => o1 = o2
          /\ offers = {OfferOf(o, legacy[o]) : o \in old}
    BY <2>legacy
  <2>2. \A o \in old : OfferOf(o, legacy[o]).draft = legacy[o].id
    BY DEF OfferOf
  <2>3. QED
    BY <2>1, <2>2 DEF OffersIdentified
<1>4. ServicePart
  BY <1>2, <1>3, TypesStart, BooksStart DEF ServicePart
<1>5. WorldPart
  BY <1>2 DEF WorldPart, WireHolds, ApplicationsApproved, Init
<1>6. ThreadPart
  <2>1. Idle \in Callings /\ Idle.saved = NoRun /\ Idle.doing = "nothing"
    BY DEF Idle, Callings
  <2>2. QED
    BY <1>2, <2>1 DEF ThreadPart
<1>7. QED
  BY <1>4, <1>5, <1>6

LEMMA AgentStep ==
  ASSUME AgentInduction, [AgentNext]_allVars
  PROVE  AgentInduction' /\ Lives /\ [Next]_vars
<1>1. ASSUME NEW t \in Threads, Customer(t) PROVE AgentInduction' /\ Lives /\ [Next]_vars
  <2>1. UNCHANGED vars
    BY <1>1 DEF Customer, StartAgentGraph, SubmitReturnReason, Approve, Decline,
                RefreshReturnConfirmation
  <2>2. QED
    BY <1>1, <2>1, StartAgentGraphStep, SubmitReturnReasonStep, ApproveStep, DeclineStep,
       RefreshReturnConfirmationStep DEF Customer
<1>2. ASSUME NEW t \in Threads, Work(t) PROVE AgentInduction' /\ Lives /\ [Next]_vars
  <2>1. CASE ReadTool(t)
    <3>1. UNCHANGED vars
      BY <2>1 DEF ReadTool
    <3>2. QED
      BY <2>1, <3>1, ReadToolStep
  <2>2. QED
    BY <1>2, <2>1, PrepareReturnDraftStep, FinishReasonCollectionStep, ExecuteReturnStep,
       CancelReturnStep, RefreshEligibilityStep, RefreshDraftStep DEF Work
<1>3. ASSUME NEW t \in Threads, Fail(t) PROVE AgentInduction' /\ Lives /\ [Next]_vars
  BY <1>3, TimeOutStep, CrashStep DEF Fail
<1>4. QED
  BY <1>1, <1>2, <1>3, LateArrivalStep, WorldStep DEF AgentNext

\* The inductive invariant: what the service keeps of its drafts, what every
\* checkpoint (on disk or one node further) and every request on the wire
\* say of them, and that a call is one step beyond its checkpoint, hold
\* whatever the conversations, the network and crashes do (agent_graph.py).
THEOREM AgentInvariant == AgentSpec => []AgentInduction
<1>1. AgentInduction /\ [AgentNext]_allVars => AgentInduction'
  BY AgentStep
<1>2. QED
  BY <1>1, AgentStart, PTL DEF AgentSpec

\* A checkpoint is always one the graph can write, and a run waits for the
\* confirmation of a reviewed draft only after the service accepted the
\* reason this run collected (finish_reason_collection, prepare_return_draft).
THEOREM ConversationsKept == AgentSpec => []AgentInv
<1>1. ASSUME AgentInduction PROVE AgentInv
  <2>1. AgentTypeOK
    BY <1>1 DEF AgentInduction
  <2>2. ASSUME NEW t \in Threads, Known(t), runs[t].next = "await_return_confirmation",
               runs[t].draft.status = "REVIEWED", Found(runs[t].order, runs[t].draft.id)
        PROVE  /\ drafts[runs[t].order].submitted = runs[t].reason
               /\ drafts[runs[t].order].result.decision = "ACCEPTABLE"
    <3>1. ReviewHolds(runs[t])
      BY <1>1, <2>2, Parts, ThreadIs, KeptIs
    <3>2. QED
      BY <2>2, <3>1 DEF ReviewHolds
  <2>3. QED
    BY <2>1, <2>2 DEF AgentInv, ReviewIsOfThisReason
<1>2. QED
  BY <1>1, AgentInvariant, PTL

\* Whatever retries, late requests, refreshes and other conversations do, an
\* application is one the customer said yes to, for the draft it was made
\* from and with the product and amount shown (await_return_confirmation).
THEOREM NothingUnapproved == AgentSpec => []ApplicationsApproved
<1>1. AgentInduction => ApplicationsApproved
  BY DEF AgentInduction
<1>2. QED
  BY <1>1, AgentInvariant, PTL

\* What a run told its customer stays true: its receipt is the application
\* there is, a cancelled draft never becomes one, and neither does one that
\* was confirmed after its hour (execute_return, cancel_return).
THEOREM OutcomesStay == AgentSpec => []OutcomesHold
<1>1. ASSUME AgentInduction, NEW t \in Threads, Known(t)
      PROVE  /\ runs[t].application # NULL =>
                  /\ runs[t].application \in applications
                  /\ runs[t].application.draft = runs[t].draft.id
                  /\ runs[t].application.terms = runs[t].draft.terms
             /\ runs[t].status = "CANCELLED" =>
                  ~\E a \in applications : a.draft = runs[t].draft.id
             /\ runs[t].status = "EXPIRED" /\ runs[t].approved = "yes" =>
                  ~\E a \in applications : a.draft = runs[t].draft.id
  <2>1. EndHolds(runs[t])
    BY <1>1, Parts, ThreadIs, KeptIs
  <2>2. QED
    BY <2>1 DEF EndHolds, Over, ApplicationsOf
<1>2. AgentInduction => OutcomesHold
  BY <1>1 DEF OutcomesHold
<1>3. QED
  BY <1>2, AgentInvariant, PTL

\* Seen from outside every run lives as AgentRun promises: it gets another
\* draft only by the refresh of a stale one, an end is an end, a receipt
\* comes only from execute_return.  PortalTurn builds on that promise.
THEOREM RunsLiveAsPromised == AgentSpec => RunsLive
<1>1. AgentInduction /\ [AgentNext]_allVars =>
        [\A t \in Threads : View(t)' = View(t) \/ View(t)' \in Life!RunSteps(View(t))]_allVars
  BY AgentStep DEF Lives
<1>2. QED
  BY <1>1, AgentInvariant, PTL DEF AgentSpec, RunsLive

\* Under conversations, time-outs and late requests the draft service takes
\* no step it would not take by itself, so that every theorem about Spec
\* (ReturnDraft_proofs) holds of it here too.
THEOREM ServiceUnderAgent == AgentSpec => Spec
<1>1. AgentInit => Init
  BY DEF AgentInit
<1>2. AgentInduction /\ [AgentNext]_allVars => [Next]_vars
  BY AgentStep
<1>3. QED
  BY <1>1, <1>2, AgentInvariant, PTL DEF AgentSpec, Spec
=============================================================================
