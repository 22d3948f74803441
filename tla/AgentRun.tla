------------------------------ MODULE AgentRun ------------------------------
(***************************************************************************)
(* What the rest of the system can see of one run of the agent: where the  *)
(* checkpoint stands, the status it carries, the draft it shows and        *)
(* whether it holds the receipt of an application.  The module promises    *)
(* which steps a run may take; AgentReturn is checked to keep the promise  *)
(* and PortalTurn is built on it.                                          *)
(***************************************************************************)
CONSTANTS
  DraftIds,      \* ids a draft may have
  NoRun,         \* no checkpoint
  NULL

\* The checkpoint's place: before the draft is there, waiting for the reason
\* or the confirmation, inside one of the three nodes that call the service,
\* or over.
Places == {"start", "reason", "review", "confirm", "execute", "cancel", "end"}

RunView(at, status, draft, applied) ==
  [at |-> at, status |-> status, draft |-> draft, applied |-> applied]

Started == RunView("start", "RUNNING", NULL, FALSE)

\* A node is to be worked on; at the other places the graph waits or ends.
Busy(run) == run.at \in {"start", "review", "execute", "cancel"}
Stale(run) == run.status = "STALE_CONFIRMATION"

Ended(status, draft) == RunView("end", status, draft, FALSE)
Waiting(draft) == {RunView("reason", "WAITING_REASON", draft, FALSE),
                   RunView("confirm", "WAITING_CONFIRMATION", draft, FALSE)}

\* call_model, read_tool and prepare_return_draft; read_tool may write the
\* waiting status before there is a draft, and a reason given at the start
\* goes straight to the review.
StartSteps ==
  {RunView("start", "WAITING_REASON", NULL, FALSE), Ended("COMPLETED", NULL)}
  \cup UNION {Waiting(d) \cup {RunView("review", "WAITING_REASON", d, FALSE),
                               Ended("EXPIRED", d)} : d \in DraftIds}

\* finish_reason_collection
ReviewSteps(run) ==
  {RunView("confirm", "WAITING_CONFIRMATION", run.draft, FALSE),
   Ended("COMPLETED", run.draft), Ended("EXPIRED", run.draft)}

\* execute_return
ExecuteSteps(run) ==
  {RunView("end", "COMPLETED", run.draft, TRUE),
   Ended("STALE_CONFIRMATION", run.draft), Ended("EXPIRED", run.draft)}

\* What the graph may write next when a node succeeds.
NodeSteps(run) ==
  CASE run.at = "start" -> StartSteps
    [] run.at = "review" -> ReviewSteps(run)
    [] run.at = "execute" -> ExecuteSteps(run)
    [] run.at = "cancel" -> {Ended("CANCELLED", run.draft)}
    [] OTHER -> {}

\* How the customer's answer moves a waiting run into a node.
AnswerSteps(run, action) ==
  CASE run.at = "reason" /\ action = "reason" ->
         {RunView("review", "RUNNING", run.draft, FALSE)}
    [] run.at = "confirm" /\ action = "confirm" -> {[run EXCEPT !.at = "execute"]}
    [] run.at = "confirm" /\ action = "cancel" -> {[run EXCEPT !.at = "cancel"]}
    [] OTHER -> {}

\* refresh_return_confirmation: another draft, or no longer returnable.
RefreshSteps(run) ==
  IF Stale(run)
  THEN {Ended("COMPLETED", run.draft)} \cup UNION {Waiting(d) : d \in DraftIds \ {run.draft}}
  ELSE {}

\* A crash loses the step before the node that was being worked on.
UndoSteps(run) ==
  CASE run.at = "start" -> {NoRun, Started}
    [] run.at = "review" -> {RunView("reason", "WAITING_REASON", run.draft, FALSE),
                             RunView("start", "WAITING_REASON", NULL, FALSE), Started}
    [] run.at \in {"execute", "cancel"} -> {[run EXCEPT !.at = "confirm"]}
    [] OTHER -> {}

\* Everything that may become of a run.
RunSteps(run) ==
  IF run = NoRun THEN {Started}
  ELSE NodeSteps(run) \cup RefreshSteps(run) \cup UndoSteps(run)
       \cup UNION {AnswerSteps(run, action) : action \in {"reason", "confirm", "cancel"}}

\* The status a page is shown: a waiting run whose draft has expired at the
\* service is shown as expired, the checkpoint stays (get_agent_graph_state).
ShownStatuses(run) ==
  {run.status} \cup
  IF run.status \in {"WAITING_REASON", "WAITING_CONFIRMATION"} /\ run.draft # NULL
  THEN {"EXPIRED"} ELSE {}
=============================================================================
