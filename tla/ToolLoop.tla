------------------------------ MODULE ToolLoop ------------------------------
(***************************************************************************)
(* The part of the agent graph in which the model chooses tools            *)
(* (agent_graph.py: call_model, read_tool, propose_change and the approval *)
(* of a change).  Every reply of a live model is possible, the offline     *)
(* model is the function it is.  What is asked, found and admitted as      *)
(* evidence is reduced to what decides the way through the graph.          *)
(*                                                                         *)
(* A node that raises leaves the checkpoint in front of it and the request *)
(* fails; nothing resumes a run there, since a used thread id is refused   *)
(* and only the approval can be resumed.  The way of a return application  *)
(* after its draft is AgentReturn.                                         *)
(***************************************************************************)
EXTENDS SequencesExt, Naturals

CONSTANTS
  OrderIds,
  MaxToolSteps,      \* MAX_TOOL_STEPS
  Nothing

\* MAX_TOOL_STEPS = 3: as many as the sources of a joint question.
ASSUME StepsAssumption == MaxToolSteps \in Nat /\ MaxToolSteps >= 3

VARIABLES
  question,      \* task_question, as far as the graph looks at it
  setting,       \* mode, and whether authentication is required
  at,            \* the next node, or how the run stopped
  call,          \* tool_name and the order in its arguments
  steps,         \* tool_steps
  trace,         \* tool_trace: tool, order and whether there was a result
  evidence,      \* rag_evidence: how many admitted excerpts
  retries,       \* completion_retries
  asked,         \* model_requests and simulated_model_requests
  answer,        \* what the final answer is made of
  proposals,     \* actions this run has created
  written        \* the ticket was changed

loopVars == <<question, setting, at, call, steps, trace, evidence, retries, asked, answer,
              proposals, written>>

Order == "query_order"
Search == "search_knowledge_base"
Eligibility == "check_return_eligibility"
Ticket == "query_ticket"
Change == "request_priority_change"
LegacyTools == {Ticket, Change}
Tools == {Order, Search, Eligibility} \cup LegacyTools

\* What the answer of a run is made of, or why it failed.
RunAnswers == {"guidance", "direct", "model", "quoted", "grounded", "insufficient", "no_evidence",
               "executed", "cancelled", "evidence_missing", "another_order", "refused",
               "no_reply", "tool_failed"}

\* The calls a reply may ask for; some tools are about no order.
ToolCalls == [tool : Tools, order : OrderIds \cup {Nothing}]

ASSUME NothingAssumption ==
  /\ Nothing \notin OrderIds \cup Tools \cup RunAnswers \cup ToolCalls
  /\ Ticket \notin OrderIds

----------------------------------------------------------------------------
(* What the graph reads from a question.                                   *)

Plain == [help |-> FALSE, simple |-> FALSE, policy |-> FALSE, eligibility |-> FALSE,
          apply |-> FALSE, returns |-> FALSE, change |-> FALSE, about |-> Nothing]

\* Greetings; one order and nothing else; an order and a policy, perhaps with
\* eligibility; an application; may I return it; a ticket; a change; none.
Questions ==
  {[Plain EXCEPT !.help = TRUE], Plain,
   [Plain EXCEPT !.about = Ticket], [Plain EXCEPT !.about = Ticket, !.change = TRUE]}
  \cup UNION {{[Plain EXCEPT !.about = id, !.simple = TRUE],
               [Plain EXCEPT !.about = id, !.policy = TRUE],
               [Plain EXCEPT !.about = id, !.policy = TRUE, !.eligibility = TRUE, !.returns = TRUE],
               [Plain EXCEPT !.about = id, !.apply = TRUE, !.returns = TRUE],
               [Plain EXCEPT !.about = id, !.returns = TRUE]} : id \in OrderIds}

\* Order and policy in one question need both sources.
Required ==
  IF question.apply \/ question.about \notin OrderIds \/ ~question.policy THEN {}
  ELSE {Order, Search} \cup IF question.eligibility THEN {Eligibility} ELSE {}

Called == {step.tool : step \in Range(trace)}

\* Seeded fault: what was called counts, found or not.
CompletedWhenCalled == Called

Completed == {step.tool : step \in {s \in Range(trace) : s.found}}
Found(tool) == {i \in DOMAIN trace : trace[i].tool = tool /\ trace[i].found}

\* How many searches came back.
Searched == Cardinality(Found(Search))

\* Seeded fault: what was not offered is not refused either.
EnabledEverywhere(tool) == tool \in Tools

\* tool_is_enabled: without an owner's rule tickets are for offline lessons.
Enabled(tool) == tool \in LegacyTools => ~setting.auth

----------------------------------------------------------------------------
(* The run goes on, ends with an answer, or fails.                         *)

Ends(kind) == at' = "end" /\ answer' = kind
Fails(kind) == at' = "failed" /\ answer' = kind
GoesTo(node) == at' = node /\ UNCHANGED answer

\* service_guidance answers before any model is asked.
Guide ==
  /\ at = "call_model" /\ trace = <<>>
  /\ question.help
  /\ Ends("guidance")
  /\ UNCHANGED <<question, setting, call, steps, trace, evidence, retries, asked, proposals, written>>

DirectQuery == setting.mode = "live" /\ question.simple

\* Seeded fault: the direct query is no step.
QueryDirectlyUncounted ==
  /\ at = "call_model" /\ trace = <<>>
  /\ DirectQuery
  /\ call' = [tool |-> Order, order |-> question.about]
  /\ GoesTo("read_tool")
  /\ UNCHANGED <<question, setting, steps, trace, evidence, retries, asked, proposals, written>>

\* The one order of a simple question is looked up without the model.
QueryDirectly ==
  /\ at = "call_model" /\ trace = <<>>
  /\ DirectQuery
  /\ call' = [tool |-> Order, order |-> question.about]
  /\ steps' = 1
  /\ GoesTo("read_tool")
  /\ UNCHANGED <<question, setting, trace, evidence, retries, asked, proposals, written>>

OfferTools == steps < MaxToolSteps

\* Seeded fault: the offline model looks for the policy before the decision
\* and takes the search for the last step.
MockReplySearchLast ==
  IF ~OfferTools THEN Nothing
  ELSE IF trace = <<>>
    THEN IF question.about = Ticket THEN IF question.change THEN Change ELSE Ticket
         ELSE IF question.about = Nothing THEN Search
         ELSE IF question.returns /\ (Required = {} \/ question.apply) THEN Eligibility ELSE Order
  ELSE IF Required # {} /\ Search \notin Called THEN Search ELSE Nothing

\* _select_mock_tool, then _select_mock_follow_up.
MockReply ==
  LET first == IF question.about = Ticket THEN IF question.change THEN Change ELSE Ticket
               ELSE IF question.about = Nothing THEN Search
               ELSE IF question.returns /\ (Required = {} \/ question.apply) THEN Eligibility ELSE Order
      next == IF Order \notin Called THEN Nothing
              ELSE IF Eligibility \in Required \ Called THEN Eligibility
              ELSE IF Required # {} /\ Search \notin Called THEN Search ELSE Nothing
  IN  IF ~OfferTools THEN Nothing ELSE IF trace = <<>> THEN first ELSE next

MockCall == [tool |-> MockReply,
             order |-> IF question.about \in OrderIds THEN question.about ELSE Nothing]

Replies ==
  IF setting.mode = "mock"
  THEN {IF MockReply = Nothing THEN Nothing ELSE MockCall}
  ELSE {Nothing} \cup [tool : {Order, Eligibility}, order : OrderIds]
       \cup {[tool |-> tool, order |-> Nothing] : tool \in {Search} \cup LegacyTools}

\* Seeded fault: every answer without the results counts as the first.
AskAgainAlways == OfferTools /\ asked <= 9

\* A model is told once which result is missing.
AskAgain == OfferTools /\ retries < 1

\* Seeded fault: a decision about any order will do.
GroundedAnyEligibility ==
  LET orders == Found(Order)
  IN  IF orders = {} \/ evidence = 0 THEN Fails("evidence_missing")
      ELSE IF trace[Min(orders)].order # question.about THEN Fails("another_order")
      ELSE Ends("grounded")

\* grounded_order_policy_answer: from the first order and the last decision.
Grounded ==
  LET orders == Found(Order)
      decisions == Found(Eligibility)
  IN  IF orders = {} \/ evidence = 0 THEN Fails("evidence_missing")
      ELSE IF \/ trace[Min(orders)].order # question.about
              \/ Eligibility \in Required /\ trace[Max(decisions)].order # question.about
           THEN Fails("another_order")
      ELSE Ends("grounded")

\* The reply is text.
TakeText ==
  /\ UNCHANGED <<call, steps>>
  /\ IF Required \ Completed # {}
     THEN IF AskAgain THEN retries' = 1 /\ GoesTo("call_model")
          ELSE Ends("insufficient") /\ UNCHANGED retries
     ELSE /\ UNCHANGED retries
          /\ IF Required # {} THEN Grounded
             ELSE IF evidence > 0 THEN Ends("quoted") ELSE Ends("model")

\* The reply is a call of one tool.
TakeCall(reply) ==
  /\ UNCHANGED retries
  /\ IF ~OfferTools \/ ~Enabled(reply.tool)
     THEN Fails("refused") /\ UNCHANGED <<call, steps>>
     ELSE /\ call' = reply
          /\ steps' = steps + 1
          /\ GoesTo(IF reply.tool = Change THEN "propose_change" ELSE "read_tool")

CallModel ==
  /\ at = "call_model"
  /\ ~(trace = <<>> /\ (question.help \/ DirectQuery))
  /\ asked' = asked + 1
  /\ \E reply \in Replies : IF reply = Nothing THEN TakeText ELSE TakeCall(reply)
  /\ UNCHANGED <<question, setting, trace, evidence, proposals, written>>

\* The gateway raises, or the reply has not the form of one.
CallModelFails ==
  /\ at = "call_model"
  /\ setting.mode = "live"
  /\ ~(trace = <<>> /\ (question.help \/ DirectQuery))
  /\ Fails("no_reply")
  /\ UNCHANGED <<question, setting, call, steps, trace, evidence, retries, asked, proposals, written>>

----------------------------------------------------------------------------
(* read_tool                                                               *)

Traced(found) == trace' = Append(trace, [tool |-> call.tool, order |-> call.order, found |-> found])

\* In live mode a reviewer, where one is configured, is a model too; without
\* a candidate it is not asked.
Review ==
  \/ UNCHANGED asked
  \/ setting.mode = "live" /\ asked' = asked + 1

\* Seeded fault: the model may go on after a search without evidence.
ReadSearchAnyway ==
  /\ call.tool = Search
  /\ Traced(TRUE)
  /\ Review
  /\ \E admitted \in 0 .. 1 : evidence' = evidence + admitted
  /\ GoesTo("call_model")

\* The gate and the reviewer admit some of what was found; nothing admitted
\* is answered at once.
ReadSearch ==
  /\ call.tool = Search
  /\ Traced(TRUE)
  /\ Review
  /\ \E admitted \in 0 .. 1 :
       /\ evidence' = evidence + admitted
       /\ IF admitted = 0 THEN Ends("no_evidence") ELSE GoesTo("call_model")

ReadOrder ==
  /\ call.tool = Order
  /\ \E found \in BOOLEAN : Traced(found)
  /\ IF DirectQuery THEN Ends("direct") ELSE GoesTo("call_model")
  /\ UNCHANGED <<evidence, asked>>

\* An eligibility that allows an application that was asked for leads to the
\* draft.
ReadEligibility ==
  /\ call.tool = Eligibility
  /\ \E decision \in {"NO_REASON_ALLOWED", "REASON_REQUIRED", "NOT_ALLOWED", "not_found"} :
       /\ Traced(decision # "not_found")
       /\ GoesTo(IF question.apply /\ decision \in {"NO_REASON_ALLOWED", "REASON_REQUIRED"}
                 THEN "prepare_return_draft" ELSE "call_model")
  /\ UNCHANGED <<evidence, asked>>

ReadTicket ==
  /\ call.tool = Ticket
  /\ \E found \in BOOLEAN : Traced(found)
  /\ GoesTo("call_model")
  /\ UNCHANGED <<evidence, asked>>

ReadTool ==
  /\ at = "read_tool"
  /\ ReadSearch \/ ReadOrder \/ ReadEligibility \/ ReadTicket
  /\ UNCHANGED <<question, setting, call, steps, retries, proposals, written>>

\* Arguments that do not validate, a service that raises, a review that
\* breaks its contract.
ReadToolFails ==
  /\ at = "read_tool"
  /\ Fails("tool_failed")
  /\ UNCHANGED <<question, setting, call, steps, trace, evidence, retries, asked, proposals, written>>

----------------------------------------------------------------------------
(* The change of a ticket.                                                 *)

\* propose_change: an action is created, or the ticket does not exist.
ProposeChange ==
  /\ at = "propose_change"
  /\ \/ /\ proposals' = proposals + 1
        /\ Traced(TRUE)
        /\ GoesTo("await_approval")
     \/ Fails("tool_failed") /\ UNCHANGED <<proposals, trace>>
  /\ UNCHANGED <<question, setting, call, steps, evidence, retries, asked, written>>

\* resume_agent_graph: the person's answer; the store may refuse it.
Resume ==
  /\ at = "await_approval"
  /\ \/ Ends("executed") /\ written' = TRUE
     \/ Ends("cancelled") /\ UNCHANGED written
     \/ Fails("tool_failed") /\ UNCHANGED written
  /\ UNCHANGED <<question, setting, call, steps, trace, evidence, retries, asked, proposals>>

LoopInit ==
  /\ question \in Questions
  /\ setting \in [mode : {"mock", "live"}, auth : BOOLEAN]
  /\ at = "call_model"
  /\ call = [tool |-> Nothing, order |-> Nothing]
  /\ steps = 0 /\ trace = <<>> /\ evidence = 0 /\ retries = 0 /\ asked = 0
  /\ answer = Nothing
  /\ proposals = 0 /\ written = FALSE

LoopNext ==
  \/ Guide \/ QueryDirectly \/ CallModel \/ CallModelFails
  \/ ReadTool \/ ReadToolFails \/ ProposeChange \/ Resume

LoopSpec == LoopInit /\ [][LoopNext]_loopVars

----------------------------------------------------------------------------
(* Correctness.                                                            *)

\* Types, and the trace tells as many tools as were called.
LoopTypeOK ==
  /\ question \in Questions
  /\ at \in {"call_model", "read_tool", "propose_change", "await_approval",
             "prepare_return_draft", "end", "failed"}
  /\ steps \in 0 .. MaxToolSteps
  /\ \A i \in DOMAIN trace : trace[i].tool \in Tools /\ trace[i].found \in BOOLEAN
  /\ at \notin {"read_tool", "propose_change", "failed"} => Len(trace) = steps
  /\ evidence \in 0 .. MaxToolSteps
  /\ proposals \in 0 .. 1 /\ written \in BOOLEAN

\* agent_graph.py, call_model: at the limit no tools are offered any more, to
\* keep the run from looping for ever.  Whatever the models reply, a run asks
\* once for every tool, once after the reminder, once for the final words and
\* once for every search that is reviewed.
ModelRequestsBounded == asked <= MaxToolSteps + 2 + Searched

\* When the required results are there, so is the evidence: the check of
\* grounded_order_policy_answer never finds it missing.
EvidenceNeverMissing == answer # "evidence_missing"

\* The model's own words are the answer only while nothing was looked up in
\* the knowledge base: what was searched is quoted or refused.
OwnWordsBeforeSearch == answer = "model" => Search \notin Called /\ Required = {}

\* A joint answer speaks of the order in the question, in the order's part
\* and in the decision, although the model chose every argument.
JointAnswerOfOneOrder ==
  answer = "grounded" =>
    /\ trace[Min(Found(Order))].order = question.about
    /\ Eligibility \in Required => trace[Max(Found(Eligibility))].order = question.about

\* The offline model answers a joint question unless some result was not
\* there: no test in mock mode depends on the reminder.
MockAnswersJointly ==
  setting.mode = "mock" /\ answer = "insufficient" =>
    \E step \in Range(trace) : ~step.found

\* A ticket is only written after the person's answer to the one action the
\* run proposed, and never where authentication is required.
ChangeAnswered ==
  /\ written => proposals = 1 /\ answer = "executed"
  /\ setting.auth => proposals = 0

\* The invariant of a run, whatever the model replies: it ends, and what it
\* answers or writes rests on results about the right order.
LoopInv ==
  /\ LoopTypeOK
  /\ ModelRequestsBounded
  /\ EvidenceNeverMissing
  /\ OwnWordsBeforeSearch
  /\ JointAnswerOfOneOrder
  /\ MockAnswersJointly
  /\ ChangeAnswered

----------------------------------------------------------------------------
(* Why the invariant holds: with these the proof goes by induction.        *)

Stopped == at \in {"end", "failed"}
TraceSteps == [tool : Tools, order : OrderIds \cup {Nothing}, found : BOOLEAN]

LoopTypes ==
  /\ LoopTypeOK
  /\ setting \in [mode : {"mock", "live"}, auth : BOOLEAN]
  /\ trace \in Seq(TraceSteps) /\ Len(trace) <= steps
  /\ call \in [tool : Tools \cup {Nothing}, order : OrderIds \cup {Nothing}]
  /\ retries \in 0 .. 1 /\ asked \in Nat

\* A run that goes on has no answer yet, has asked a model for every step,
\* reminder and search only, and has evidence of every search.
RunHolds ==
  /\ ~Stopped => answer = Nothing /\ ~written /\ asked <= steps + retries + Searched
  /\ ~Stopped /\ Search \in Called => evidence > 0
  /\ evidence <= Len(trace)
  /\ \A i \in DOMAIN trace : trace[i].tool = Search => trace[i].found
  /\ at \in {"call_model", "read_tool", "propose_change"} => proposals = 0
  /\ at = "await_approval" => proposals = 1
  /\ at \in {"read_tool", "propose_change"} => steps = Len(trace) + 1 /\ Enabled(call.tool)
  /\ at = "read_tool" => call.tool \in Tools \ {Change}
  /\ at = "propose_change" => call.tool = Change

\* The offline model goes through the sources of a joint question in order.
PlanLength == IF Eligibility \in Required THEN 3 ELSE 2
Planned(i) == IF i = 1 THEN Order ELSE IF i < PlanLength THEN Eligibility ELSE Search
OfflinePlan ==
  setting.mode = "mock" /\ Required # {} =>
    /\ Len(trace) <= PlanLength
    /\ \A i \in DOMAIN trace : trace[i].tool = Planned(i)
    /\ at \notin {"propose_change", "await_approval"}
    /\ at = "read_tool" => Len(trace) < PlanLength /\ call.tool = Planned(Len(trace) + 1)

LoopInduction == LoopInv /\ LoopTypes /\ RunHolds /\ OfflinePlan
=============================================================================
