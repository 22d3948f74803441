---------------------------- MODULE AgentReturn ----------------------------
(***************************************************************************)
(* The return part of the LangGraph agent (agent_graph.py) on top of the   *)
(* business service: conversations that lead a customer to a return draft, *)
(* ask for a reason, wait for the confirmation and send it.  A run is the  *)
(* checkpoint of one thread_id; at most one call works on it at a time (the *)
(* portal's claim on a conversation).  Several runs may be about one order. *)
(*                                                                         *)
(* A node of the graph makes at most one call to the service.  The answer  *)
(* may not come (2 s timeout, connection, crash of this process), and then *)
(* the request may still be served later, at any time: it stays on the     *)
(* wire.  LangGraph writes a checkpoint while the next node already runs,  *)
(* so a crash also may lose the last step.                                 *)
(*                                                                         *)
(* Only messages that ask for an application (wants_return_application)    *)
(* are modelled; the model's choice of tools is not.                       *)
(***************************************************************************)
EXTENDS ReturnDraft

CONSTANTS
  Threads,       \* thread ids
  FirstReasons,  \* reasons a start request may bring along; NULL: none
  NoRun,         \* no checkpoint for the thread
  MaxWire        \* bound: requests on the wire

ASSUME FirstReasonsAssumption == FirstReasons \subseteq Requests \cup {NULL}
ASSUME WireAssumption == MaxWire \in Nat

VARIABLES
  runs,          \* the checkpoint of each thread
  calls,         \* what the API call working on the thread is doing
  wire,          \* requests whose caller has given up
  approvals      \* history: drafts a customer said yes to, as they were shown

agentVars == <<runs, calls, wire, approvals>>
allVars == <<now, orders, policies, drafts, applications, uuids, offers, receipts,
             runs, calls, wire, approvals>>

Nodes == {"read_tool", "prepare_return_draft", "ask_return_reason",
          "finish_reason_collection", "await_return_confirmation",
          "execute_return", "cancel_return", "END"}
RunStatuses == {"RUNNING", "WAITING_REASON", "WAITING_CONFIRMATION", "COMPLETED",
                "CANCELLED", "EXPIRED", "STALE_CONFIRMATION"}
Shown == [id : Ids, terms : Terms,
          status : {"WAITING_REASON", "EXPIRED", "REVIEWED", "SUBMITTED", "CANCELLED"}]
Runs == [order : Orders, next : Nodes, status : RunStatuses,
         decision : Decisions \cup {NULL}, draft : Shown \cup {NULL},
         reason : Requests \cup {NULL}, approved : {"none", "yes", "no"},
         application : Applications \cup {NULL}]
WireRequests == [kind : {"start", "submit", "confirm", "cancel", "refresh"}, order : Orders,
                 draft : Ids \cup {NULL}, reason : Requests \cup {NULL}]

\* The values that stand for something missing are not values here either.
ASSUME MissingAssumption ==
  /\ NoRun \notin Runs /\ NULL \notin Shown /\ NULL \notin Decisions
  /\ NULL \notin Applications /\ NULL \notin Ids

Idle == [doing |-> "nothing", decision |-> NULL, saved |-> NoRun]

\* A call enters the graph; the checkpoint on disk is still saved.
Working(saved) == [doing |-> "graph", decision |-> NULL, saved |-> saved]

IsIdle(t) == calls[t].doing = "nothing"
At(t, node) == calls[t].doing = "graph" /\ runs[t].next = node
Known(t) == runs[t] # NoRun

----------------------------------------------------------------------------
(* The calls of the gateway, when the service serves them.                 *)

ServeStart(o) ==
  /\ StartOutcome(o) = "OK"
  /\ Start(o) \/ (drafts[o] # NoDraft /\ UNCHANGED vars)

ServeSubmit(o, d, request) ==
  /\ SubmitOutcome(o, d, request) = "OK"
  /\ Submit(o, d, request) \/ (drafts[o].result # NULL /\ UNCHANGED vars)

\* The request is served when its caller no longer waits for the answer.
LateArrival ==
  /\ \E r \in wire :
       /\ wire' = wire \ {r}
       /\ \/ r.kind = "start" /\ ServeStart(r.order)
          \/ r.kind = "submit" /\ ServeSubmit(r.order, r.draft, r.reason)
          \/ r.kind = "confirm" /\ Confirm(r.order, r.draft)
          \/ r.kind = "cancel" /\ Cancel(r.order, r.draft)
          \/ r.kind = "refresh" /\ Refresh(r.order, r.draft)
  /\ UNCHANGED <<runs, calls, approvals>>

\* The request the thread's call waits for.
Pending(t) ==
  LET run == runs[t]
      Request(kind, draft, reason) ==
        [kind |-> kind, order |-> run.order, draft |-> draft, reason |-> reason]
  IN  IF calls[t].doing = "refresh"
      THEN IF calls[t].decision = NULL THEN {} ELSE {Request("refresh", run.draft.id, NULL)}
      ELSE CASE run.next = "prepare_return_draft" -> {Request("start", NULL, NULL)}
             [] run.next = "finish_reason_collection" -> {Request("submit", run.draft.id, run.reason)}
             [] run.next = "execute_return" -> {Request("confirm", run.draft.id, NULL)}
             [] run.next = "cancel_return" -> {Request("cancel", run.draft.id, NULL)}
             [] OTHER -> {}

----------------------------------------------------------------------------
(* How a node leaves the run.                                              *)

End(t) == calls' = [calls EXCEPT ![t] = Idle]

\* The run waits for the customer, or is over.
Leave(t, run) ==
  /\ runs' = [runs EXCEPT ![t] = run]
  /\ End(t)

\* The call goes on to the next node.
Continue(t, run) ==
  /\ runs' = [runs EXCEPT ![t] = run]
  /\ calls' = [calls EXCEPT ![t] = Working(runs[t])]

\* The node raises: the checkpoint before it stays.
LeaveUnsaved(t) == End(t) /\ UNCHANGED runs

\* The service refused, so nothing happened there either.
Refused(t) ==
  /\ LeaveUnsaved(t)
  /\ UNCHANGED <<vars, wire, approvals>>

\* No answer from the service: the request is lost or late.
TimeOut(t) ==
  /\ ~IsIdle(t)
  /\ \/ UNCHANGED wire
     \/ Cardinality(wire \cup Pending(t)) <= MaxWire /\ wire' = wire \cup Pending(t)
  /\ LeaveUnsaved(t)
  /\ UNCHANGED <<vars, approvals>>

\* The process dies in a call, before the last checkpoint was written.
Crash(t) ==
  /\ calls[t].doing = "graph"
  /\ \/ UNCHANGED wire
     \/ Cardinality(wire \cup Pending(t)) <= MaxWire /\ wire' = wire \cup Pending(t)
  /\ Leave(t, calls[t].saved)
  /\ UNCHANGED <<vars, approvals>>

----------------------------------------------------------------------------
(* A new run: eligibility is read, then the draft is made or found.        *)

\* start_agent_graph
StartAgentGraph(t) ==
  /\ ~Known(t)
  /\ IsIdle(t)
  /\ \E o \in Orders, reason \in FirstReasons :
       Continue(t, [order |-> o, next |-> "read_tool", status |-> "RUNNING",
                    decision |-> NULL, draft |-> NULL, reason |-> reason,
                    approved |-> "none", application |-> NULL])
  /\ UNCHANGED <<vars, wire, approvals>>

\* read_tool with check_return_eligibility, and route_after_read.  An order
\* that cannot be returned is left to the model's final answer.
ReadTool(t) ==
  /\ At(t, "read_tool")
  /\ LET run == runs[t]
         decision == Eligibility(run.order).decision
     IN  IF decision \in {"NO_REASON_ALLOWED", "REASON_REQUIRED"}
         THEN Continue(t, [run EXCEPT !.next = "prepare_return_draft", !.decision = decision,
                             !.status = IF decision = "REASON_REQUIRED" /\ run.reason = NULL
                                        THEN "WAITING_REASON" ELSE "RUNNING"])
         ELSE Leave(t, [run EXCEPT !.next = "END", !.decision = decision, !.status = "COMPLETED"])
  /\ UNCHANGED <<vars, wire, approvals>>

\* ReturnDraftResponse of the draft the order has after the call.
ShownDraft(o) == [id |-> drafts[o].id, terms |-> drafts[o].terms, status |-> DraftStatus(o)]

WaitingStatus(decision) ==
  IF decision = "NO_REASON_ALLOWED" THEN "WAITING_CONFIRMATION" ELSE "WAITING_REASON"

\* route_after_draft
AfterDraft(run) ==
  IF run.status = "EXPIRED" THEN "END"
  ELSE IF run.status = "WAITING_CONFIRMATION" THEN "await_return_confirmation"
  ELSE IF run.reason = NULL THEN "ask_return_reason" ELSE "finish_reason_collection"

\* prepare_return_draft: the draft found may be another conversation's.  The
\* waiting status follows the eligibility read before, not the draft's.
PrepareReturnDraft(t) ==
  /\ At(t, "prepare_return_draft")
  /\ \E o \in {runs[t].order} :
       \/ /\ StartOutcome(o) # "OK"
          /\ Refused(t)
       \/ /\ ServeStart(o)
          /\ IF ShownDraft(o)'.status \in {"REVIEWED", "SUBMITTED", "CANCELLED"}
             THEN LeaveUnsaved(t)
             ELSE LET status == IF ShownDraft(o)'.status = "EXPIRED" THEN "EXPIRED"
                                ELSE WaitingStatus(runs[t].decision)
                      found == [runs[t] EXCEPT !.draft = ShownDraft(o)', !.status = status]
                      routed == [found EXCEPT !.next = AfterDraft(found)]
                  IN  IF routed.next = "finish_reason_collection" THEN Continue(t, routed)
                      ELSE Leave(t, routed)
          /\ UNCHANGED <<wire, approvals>>

----------------------------------------------------------------------------
(* The reason.                                                             *)

\* submit_return_reason and ask_return_reason: a saved reason can only be
\* sent again as it is.
SubmitReturnReason(t, request) ==
  /\ Known(t)
  /\ IsIdle(t)
  /\ \/ /\ runs[t].next = "finish_reason_collection"
        /\ runs[t].reason = request
        /\ Continue(t, runs[t])
     \/ /\ runs[t].next = "ask_return_reason"
        /\ Continue(t, [runs[t] EXCEPT !.reason = request, !.status = "RUNNING",
                                       !.next = "finish_reason_collection"])
  /\ UNCHANGED <<vars, wire, approvals>>

\* finish_reason_collection: only an expired draft is caught; a review the
\* client does not take for an answer of the contract raises after the
\* service stored it.
FinishReasonCollection(t) ==
  /\ At(t, "finish_reason_collection")
  /\ LET run == runs[t]
         outcome == SubmitOutcome(run.order, run.draft.id, run.reason)
         review == drafts'[run.order].result
         accepted == review.decision = "ACCEPTABLE"
     IN  \/ /\ ServeSubmit(run.order, run.draft.id, run.reason)
            /\ IF DraftClientAccepts(review)
               THEN Leave(t, [run EXCEPT
                                !.draft.status = "REVIEWED",
                                !.status = IF accepted THEN "WAITING_CONFIRMATION" ELSE "COMPLETED",
                                !.next = IF accepted THEN "await_return_confirmation" ELSE "END"])
               ELSE LeaveUnsaved(t)
            /\ UNCHANGED <<wire, approvals>>
         \/ /\ outcome = "DRAFT_EXPIRED"
            /\ Leave(t, [run EXCEPT !.draft.status = "EXPIRED", !.status = "EXPIRED", !.next = "END"])
            /\ UNCHANGED <<vars, wire, approvals>>
         \/ /\ outcome \notin {"OK", "DRAFT_EXPIRED"}
            /\ Refused(t)

----------------------------------------------------------------------------
(* The confirmation.                                                       *)

\* Seeded fault: only a waiting run is resumed.
ApproveOnlyWaiting(t) ==
  /\ Known(t)
  /\ IsIdle(t)
  /\ runs[t].next = "await_return_confirmation"
  /\ Continue(t, [runs[t] EXCEPT !.approved = "yes", !.next = "execute_return"])
  /\ approvals' = approvals \cup {[draft |-> runs[t].draft.id, terms |-> runs[t].draft.terms]}
  /\ UNCHANGED <<vars, wire>>

\* resume_agent_graph with approved = TRUE, await_return_confirmation and
\* route_after_return_confirmation.  A run that has the receipt only shows
\* it again; one that stands at execute_return sends the same draft again.
Approve(t) ==
  /\ Known(t)
  /\ IsIdle(t)
  /\ \/ /\ runs[t].next = "execute_return"
        /\ runs[t].approved = "yes"
        /\ Continue(t, runs[t])
     \/ /\ runs[t].next = "await_return_confirmation"
        /\ Continue(t, [runs[t] EXCEPT !.approved = "yes", !.next = "execute_return"])
  /\ approvals' = approvals \cup {[draft |-> runs[t].draft.id, terms |-> runs[t].draft.terms]}
  /\ UNCHANGED <<vars, wire>>

\* The same with approved = FALSE: there is no way back to cancel_return.
Decline(t) ==
  /\ Known(t)
  /\ IsIdle(t)
  /\ runs[t].next = "await_return_confirmation"
  /\ Continue(t, [runs[t] EXCEPT !.approved = "no", !.next = "cancel_return"])
  /\ UNCHANGED <<vars, wire, approvals>>

\* execute_return
ExecuteReturn(t) ==
  /\ At(t, "execute_return")
  /\ LET run == runs[t]
         outcome == ConfirmOutcome(run.order, run.draft.id)
         over == [run EXCEPT !.next = "END"]
     IN  \/ /\ Confirm(run.order, run.draft.id)
            /\ \E a \in applications' :
                 /\ a.draft = run.draft.id
                 /\ Leave(t, [over EXCEPT !.status = "COMPLETED", !.application = a,
                                          !.draft.status = "SUBMITTED"])
            /\ UNCHANGED <<wire, approvals>>
         \/ /\ outcome = "ORDER_CHANGED"
            /\ Leave(t, [over EXCEPT !.status = "STALE_CONFIRMATION"])
            /\ UNCHANGED <<vars, wire, approvals>>
         \/ /\ outcome = "DRAFT_EXPIRED"
            /\ Leave(t, [over EXCEPT !.status = "EXPIRED", !.draft.status = "EXPIRED"])
            /\ UNCHANGED <<vars, wire, approvals>>
         \/ /\ outcome \notin {"OK", "ORDER_CHANGED", "DRAFT_EXPIRED"}
            /\ Refused(t)

\* Seeded fault: a refused cancellation is shown as one.
CancelReturnAlways(t) ==
  /\ At(t, "cancel_return")
  /\ \/ Cancel(runs[t].order, runs[t].draft.id)
     \/ CancelOutcome(runs[t].order, runs[t].draft.id) # "OK" /\ UNCHANGED vars
  /\ Leave(t, [runs[t] EXCEPT !.next = "END", !.status = "CANCELLED", !.draft.status = "CANCELLED"])
  /\ UNCHANGED <<wire, approvals>>

\* cancel_return
CancelReturn(t) ==
  /\ At(t, "cancel_return")
  /\ LET run == runs[t]
     IN  \/ /\ Cancel(run.order, run.draft.id)
            /\ Leave(t, [run EXCEPT !.next = "END", !.status = "CANCELLED",
                                    !.draft.status = "CANCELLED"])
            /\ UNCHANGED <<wire, approvals>>
         \/ /\ CancelOutcome(run.order, run.draft.id) # "OK"
            /\ Refused(t)

----------------------------------------------------------------------------
(* refresh_return_confirmation: not a node but two calls to the service    *)
(* with a checkpoint after them.                                           *)

\* Seeded fault: any run that shows a draft is refreshed.
RefreshWheneverShown(t) ==
  /\ Known(t)
  /\ IsIdle(t)
  /\ runs[t].draft # NULL
  /\ calls' = [calls EXCEPT ![t] = [doing |-> "refresh", decision |-> NULL, saved |-> NoRun]]
  /\ UNCHANGED <<vars, runs, wire, approvals>>

RefreshReturnConfirmation(t) ==
  /\ Known(t)
  /\ IsIdle(t)
  /\ runs[t].status = "STALE_CONFIRMATION"
  /\ calls' = [calls EXCEPT ![t] = [doing |-> "refresh", decision |-> NULL, saved |-> NoRun]]
  /\ UNCHANGED <<vars, runs, wire, approvals>>

RefreshEligibility(t) ==
  /\ calls[t].doing = "refresh"
  /\ calls[t].decision = NULL
  /\ LET decision == Eligibility(runs[t].order).decision
     IN  IF decision = "NOT_ALLOWED"
         THEN Leave(t, [runs[t] EXCEPT !.status = "COMPLETED", !.decision = decision,
                                       !.application = NULL, !.next = "END"])
         ELSE /\ calls' = [calls EXCEPT ![t].decision = decision]
              /\ UNCHANGED runs
  /\ UNCHANGED <<vars, wire, approvals>>

\* Seeded fault: the new checkpoint forgets the draft with the rest.
RenewedWithoutDraft(run, decision, draft) ==
  [run EXCEPT !.status = WaitingStatus(decision), !.decision = decision, !.draft = NULL,
              !.reason = NULL, !.approved = "no", !.application = NULL]

\* Seeded fault: only the id of the draft is renewed.
RenewedOldContent(run, decision, draft) ==
  [run EXCEPT !.status = WaitingStatus(decision), !.decision = decision, !.draft.id = draft.id,
              !.reason = NULL, !.approved = "no", !.application = NULL]

\* The checkpoint written as if prepare_return_draft had run.
Renewed(run, decision, draft) ==
  [run EXCEPT !.status = WaitingStatus(decision), !.decision = decision, !.draft = draft,
              !.reason = NULL, !.approved = "no", !.application = NULL]

RefreshDraft(t) ==
  /\ calls[t].doing = "refresh"
  /\ calls[t].decision # NULL
  /\ \E o \in {runs[t].order} :
       \/ /\ RefreshOutcome(o, runs[t].draft.id) # "OK"
          /\ Refused(t)
       \/ /\ Refresh(o, runs[t].draft.id)
          /\ LET renewed == Renewed(runs[t], calls[t].decision, ShownDraft(o)')
             IN  Leave(t, [renewed EXCEPT !.next = AfterDraft(renewed)])
          /\ UNCHANGED <<wire, approvals>>

----------------------------------------------------------------------------
AgentInit ==
  /\ Init
  /\ runs = [t \in Threads |-> NoRun]
  /\ calls = [t \in Threads |-> Idle]
  /\ wire = {}
  /\ approvals = {}

Customer(t) ==
  \/ StartAgentGraph(t)
  \/ \E request \in Requests : SubmitReturnReason(t, request)
  \/ Approve(t)
  \/ Decline(t)
  \/ RefreshReturnConfirmation(t)

Work(t) ==
  \/ ReadTool(t)
  \/ PrepareReturnDraft(t)
  \/ FinishReasonCollection(t)
  \/ ExecuteReturn(t)
  \/ CancelReturn(t)
  \/ RefreshEligibility(t)
  \/ RefreshDraft(t)

Fail(t) == TimeOut(t) \/ Crash(t)

World == Environment /\ UNCHANGED agentVars

AgentNext ==
  \/ \E t \in Threads : Customer(t) \/ Work(t) \/ Fail(t)
  \/ LateArrival
  \/ World

AgentSpec == AgentInit /\ [][AgentNext]_allVars

\* A customer who was told nothing tries again, and not every call is lost.
AgentFairSpec ==
  /\ AgentSpec
  /\ \A t \in Threads :
       /\ WF_allVars(Approve(t))
       /\ SF_allVars(ExecuteReturn(t))

----------------------------------------------------------------------------
(* Correctness.                                                            *)

\* The types of the checkpoints, the calls and the wire.
AgentTypeOK ==
  /\ runs \in [Threads -> Runs \cup {NoRun}]
  /\ calls \in [Threads -> [doing : {"nothing", "graph", "refresh"},
                            decision : Decisions \cup {NULL}, saved : Runs \cup {NoRun}]]
  /\ \A t \in Threads :
       /\ ~IsIdle(t) => Known(t)
       /\ Known(t) /\ runs[t].next \notin {"read_tool", "prepare_return_draft", "END"}
            => runs[t].draft # NULL
  /\ wire \subseteq WireRequests
  /\ approvals \subseteq [draft : Ids, terms : Terms]

\* Every application there is was said yes to by the customer, for the draft
\* it was made from and with the product and amount shown for that draft:
\* no retry, late request, refresh or other conversation confirms anything
\* on its own, or with another content than the one on the screen.
ApplicationsApproved ==
  \A a \in applications : [draft |-> a.draft, terms |-> a.terms] \in approvals

\* What a run tells its customer about the draft it shows stays true while
\* other conversations and late requests go on with the order: the receipt
\* is the application there is, a cancelled draft never becomes one, and
\* "no application was made" at the end of the hour holds for good.
OutcomesHold ==
  \A t \in Threads : Known(t) =>
    LET run == runs[t]
        applied == \E a \in applications : a.draft = run.draft.id
    IN  /\ run.application # NULL =>
             /\ run.application \in applications
             /\ run.application.draft = run.draft.id
             /\ run.application.terms = run.draft.terms
        /\ run.status = "CANCELLED" => ~applied
        /\ run.status = "EXPIRED" /\ run.approved = "yes" => ~applied

\* A run that waits for the confirmation after a review does so because the
\* service reviewed and accepted the reason this run collected, not one
\* another conversation sent for the same draft.
ReviewIsOfThisReason ==
  \A t \in Threads :
    /\ Known(t)
    /\ runs[t].next = "await_return_confirmation"
    /\ runs[t].draft.status = "REVIEWED"
    /\ Found(runs[t].order, runs[t].draft.id)
    => /\ drafts[runs[t].order].submitted = runs[t].reason
       /\ drafts[runs[t].order].result.decision = "ACCEPTABLE"

\* The invariant of the conversations by themselves: a checkpoint is one the
\* graph can write, and its review is the one of its own reason.
AgentInv == AgentTypeOK /\ ReviewIsOfThisReason

\* If the answer to a confirmation got lost after the service made the
\* application, a customer who asks again gets the receipt, whatever became
\* of the order, the policy and the hour in the meantime.
ReceiptRecovered ==
  \A t \in Threads :
    /\ Known(t)
    /\ runs[t].next = "execute_return"
    /\ runs[t].approved = "yes"
    /\ \E a \in applications : a.draft = runs[t].draft.id
    ~> Known(t) /\ (runs[t].application # NULL \/ runs[t].approved = "no")

\* What the portal and the customer can tell of a run.
Place == [read_tool |-> "start", prepare_return_draft |-> "start",
          ask_return_reason |-> "reason", finish_reason_collection |-> "review",
          await_return_confirmation |-> "confirm", execute_return |-> "execute",
          cancel_return |-> "cancel", END |-> "end"]
Seen(run) ==
  IF run = NoRun THEN NoRun
  ELSE [at |-> Place[run.next], status |-> run.status,
        draft |-> IF run.draft = NULL THEN NULL ELSE run.draft.id,
        applied |-> run.application # NULL]
View(t) == Seen(runs[t])
Life == INSTANCE AgentRun WITH DraftIds <- Ids

ASSUME ViewAssumption ==
  NoRun \notin [at : Life!Places, status : RunStatuses, draft : Ids \cup {NULL}, applied : BOOLEAN]

\* Seen from outside every run lives as AgentRun says, whatever other
\* conversations, late requests and crashes do: it gets another draft only by
\* a refresh of a stale one, an end is an end, a receipt comes only from
\* execute_return.
RunsLive ==
  [][\A t \in Threads : View(t)' = View(t) \/ View(t)' \in Life!RunSteps(View(t))]_allVars

----------------------------------------------------------------------------
(* What the repository says of the agent and the code does not keep.       *)

\* main.py says of resume that the checkpoint is kept so that the same
\* request can be retried: a run shown as waiting for the confirmation takes
\* a yes or a no.
WaitingConfirmationCanBeAnswered ==
  \A t \in Threads :
    Known(t) /\ IsIdle(t) /\ runs[t].status = "WAITING_CONFIRMATION"
      => \/ runs[t].next = "await_return_confirmation"
         \/ runs[t].next = "execute_return" /\ runs[t].approved = "yes"

----------------------------------------------------------------------------
(* Why: the inductive invariant behind the properties.                     *)

\* A checkpoint's fields fit the node it stands at: before the draft is there
\* nothing is shown, and only an end has an outcome.
Shaped(run) ==
  /\ run.next \in {"read_tool", "prepare_return_draft"} => run.draft = NULL
  /\ run.next = "read_tool" => run.status = "RUNNING"
  /\ run.next = "prepare_return_draft" => run.status \in {"RUNNING", "WAITING_REASON"}
  /\ run.next = "ask_return_reason" => run.status = "WAITING_REASON"
  /\ run.next \notin {"read_tool", "prepare_return_draft", "END"} => run.draft # NULL
  /\ run.next = "finish_reason_collection" => run.reason # NULL
  /\ run.approved = "yes" => run.next \in {"execute_return", "END"}
  /\ run.status \in {"CANCELLED", "EXPIRED", "STALE_CONFIRMATION"} =>
       run.next = "END" /\ run.draft # NULL
  /\ run.application # NULL => run.next = "END" /\ run.status = "COMPLETED" /\ run.draft # NULL

\* The draft of a run is an offer the service made for its order.
ShowsOffer(run) ==
  run.draft # NULL =>
    \E offer \in offers : /\ offer.draft = run.draft.id
                          /\ offer.order = run.order
                          /\ offer.terms = run.draft.terms

\* Nobody applies by this draft any more: it has no application, and its row,
\* if it still has one, is cancelled or out of its hour.
Over(o, d) ==
  /\ ApplicationsOf(d) = {}
  /\ Found(o, d) => drafts[o].cancelled \/ ~Live(o)

\* What a run was told by the service holds: of its end ...
EndHolds(run) ==
  /\ run.application # NULL => /\ run.application \in applications
                              /\ run.application.draft = run.draft.id
                              /\ run.application.terms = run.draft.terms
  /\ run.status = "CANCELLED" \/ (run.status = "EXPIRED" /\ run.approved = "yes")
       => Over(run.order, run.draft.id)

\* ... and of its review.
ReviewHolds(run) ==
  /\ run.next = "await_return_confirmation"
  /\ run.draft.status = "REVIEWED"
  /\ Found(run.order, run.draft.id)
  => /\ drafts[run.order].submitted = run.reason
     /\ drafts[run.order].result # NULL
     /\ drafts[run.order].result.decision = "ACCEPTABLE"

\* A run that confirms was told to, for the draft as it shows it.
SaidYes(run) ==
  run.next = "execute_return" =>
    [draft |-> run.draft.id, terms |-> run.draft.terms] \in approvals

\* The checkpoints a thread may have, on disk or one node further.
Kept == {run \in Runs : Shaped(run) /\ ShowsOffer(run) /\ EndHolds(run)
                         /\ ReviewHolds(run) /\ SaidYes(run)}

\* A call inside the graph is one step beyond what is on disk; a refresh is
\* of a stale run.
Linked(call, run) ==
  /\ call.doing = "graph" =>
       Seen(call.saved) = Seen(run) \/ Seen(call.saved) \in Life!UndoSteps(Seen(run))
  /\ call.doing = "refresh" => run.status = "STALE_CONFIRMATION"

\* A late request says what its caller said: a reason is one, and a
\* confirmation has the customer's yes to the offer as it was made.
WireHolds ==
  \A r \in wire :
    /\ r.kind = "submit" => r.reason \in Requests
    /\ r.kind = "confirm" =>
         \E offer \in offers : /\ offer.draft = r.draft
                               /\ offer.order = r.order
                               /\ [draft |-> r.draft, terms |-> offer.terms] \in approvals

\* No two offers have the same id, not even one that was replaced.
OffersIdentified == \A x, y \in offers : x.draft = y.draft => x = y

AgentInduction ==
  /\ TypeOK /\ Bookkeeping /\ OffersIdentified
  /\ AgentTypeOK /\ WireHolds /\ ApplicationsApproved
  /\ \A t \in Threads :
       /\ runs[t] \in Kept \cup {NoRun}
       /\ calls[t].saved \in Kept \cup {NoRun}
       /\ ~IsIdle(t) => runs[t] # NoRun /\ Linked(calls[t], runs[t])
=============================================================================
