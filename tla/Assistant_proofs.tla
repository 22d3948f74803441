-------------------------- MODULE Assistant_proofs ---------------------------
(***************************************************************************)
(* What the assistant answers with, and how much it asks for it: the tool  *)
(* loop of the graph, the agents before it, the admission of requests to   *)
(* the model, the rules and the review of evidence, and the history told   *)
(* with a question.  For any orders, passages, turns, limits and number of *)
(* workers, whatever the model replies.                                    *)
(***************************************************************************)
EXTENDS ToolLoop, LegacyAgents, ModelAdmission, EvidenceGate, EvidenceReview, ContextBudget,
        Knowledge_proofs

----------------------------------------------------------------------------
(* ToolLoop: what the model asks for, and what is answered.                *)

\* What was called and what was found, by the places in the trace.
LEMMA CalledIs ==
  /\ \A tool : tool \in Called <=> \E i \in DOMAIN trace : trace[i].tool = tool
  /\ \A tool : (tool \in Called)' <=> \E i \in DOMAIN trace' : trace'[i].tool = tool
BY DEF Called, Range

LEMMA CompletedIs ==
  \A tool : tool \in Completed <=> \E i \in DOMAIN trace : trace[i].tool = tool /\ trace[i].found
BY DEF Completed, Range

\* How many searches came back is a number, and as long as the trace stays
\* the same it does.
LEMMA SearchedIs ==
  ASSUME LoopInduction
  PROVE  /\ Found(Search) \subseteq 1 .. Len(trace) /\ IsFiniteSet(Found(Search)) /\ Searched \in Nat
         /\ trace' = trace => Searched' = Searched
<1>1. trace \in Seq(TraceSteps)
  BY DEF LoopInduction, LoopTypes
<1>2. Found(Search) \subseteq 1 .. Len(trace) /\ Len(trace) \in Nat
  BY <1>1 DEF Found
<1>3. IsFiniteSet(1 .. Len(trace))
  BY <1>2, FS_Interval
<1>4. IsFiniteSet(Found(Search))
  BY <1>2, <1>3, FS_Subset
<1>5. Searched \in Nat
  BY <1>4, FS_CardinalityType DEF Searched
<1>6. trace' = trace => Searched' = Searched
  BY DEF Searched, Found
<1>7. QED
  BY <1>2, <1>4, <1>5, <1>6

\* Numbers of a trace that grows by a step.
LEMMA LastIndex ==
  \A l \in Nat : /\ l + 1 \in Nat /\ l + 1 \in 1 .. l + 1 /\ l < l + 1
                /\ 1 .. l + 1 = (1 .. l) \cup {l + 1}
OBVIOUS

LEMMA TraceIs ==
  ASSUME NEW s \in Seq(TraceSteps)
  PROVE  \A i \in DOMAIN s : s[i].tool \in Tools /\ s[i].found \in BOOLEAN
<1>1. \A step \in TraceSteps : step.tool \in Tools /\ step.found \in BOOLEAN
  BY DEF TraceSteps
<1>2. \A i \in DOMAIN s : s[i] \in TraceSteps
  OBVIOUS
<1>3. QED
  BY <1>1, <1>2

LEMMA QuestionIs ==
  ASSUME question \in Questions
  PROVE  /\ question.about \in OrderIds \cup {Nothing, Ticket}
         /\ question.simple => question.about \in OrderIds
<1>1. CASE question \in {[Plain EXCEPT !.help = TRUE], Plain, [Plain EXCEPT !.about = Ticket],
                        [Plain EXCEPT !.about = Ticket, !.change = TRUE]}
  <2>1. Plain.about = Nothing /\ Plain.simple = FALSE
    BY DEF Plain
  <2>2. /\ [Plain EXCEPT !.help = TRUE].about = Nothing /\ [Plain EXCEPT !.help = TRUE].simple = FALSE
        /\ [Plain EXCEPT !.about = Ticket].about = Ticket /\ [Plain EXCEPT !.about = Ticket].simple = FALSE
    BY DEF Plain
  <2>3. /\ [Plain EXCEPT !.about = Ticket, !.change = TRUE].about = Ticket
        /\ [Plain EXCEPT !.about = Ticket, !.change = TRUE].simple = FALSE
    BY DEF Plain
  <2>4. (question.about = Nothing \/ question.about = Ticket) /\ question.simple = FALSE
    BY <1>1, <2>1, <2>2, <2>3
  <2>5. QED
    BY <2>4
<1>2. ASSUME NEW id \in OrderIds,
             question \in {[Plain EXCEPT !.about = id, !.simple = TRUE],
                          [Plain EXCEPT !.about = id, !.policy = TRUE],
                          [Plain EXCEPT !.about = id, !.policy = TRUE, !.eligibility = TRUE, !.returns = TRUE],
                          [Plain EXCEPT !.about = id, !.apply = TRUE, !.returns = TRUE],
                          [Plain EXCEPT !.about = id, !.returns = TRUE]}
      PROVE  question.about = id
  BY <1>2 DEF Plain
<1>3. QED
  BY <1>1, <1>2 DEF Questions

LEMMA RequiredIs ==
  Required # {} =>
    /\ {Order, Search} \subseteq Required /\ Required \subseteq {Order, Search, Eligibility}
    /\ question.about \in OrderIds /\ question.about # Ticket /\ question.about # Nothing
    /\ ~question.apply
BY NothingAssumption DEF Required

LEMMA ToolsDiffer ==
  /\ Order # Search /\ Order # Eligibility /\ Search # Eligibility
  /\ Change \notin {Order, Search, Eligibility, Ticket} /\ Ticket \notin {Order, Search, Eligibility}
  /\ {Order, Search, Eligibility, Ticket, Change} = Tools
  /\ Nothing \notin Tools
BY NothingAssumption DEF Order, Search, Eligibility, Change, Ticket, Tools, LegacyTools

\* The run stops with an answer that is true of what it found.
LEMMA Stops ==
  ASSUME LoopInduction, at' \in {"end", "failed"},
         UNCHANGED <<question, setting, trace, evidence, proposals>>,
         steps' \in 0 .. MaxToolSteps, Len(trace) <= steps', at' = "end" => Len(trace) = steps',
         call' = call, retries' = retries, asked' \in Nat, asked' <= MaxToolSteps + 2 + Searched,
         written' \in BOOLEAN, written' => proposals = 1 /\ answer' = "executed",
         answer' # "evidence_missing",
         answer' = "model" => Search \notin Called /\ Required = {},
         answer' = "grounded" =>
           /\ trace[Min(Found(Order))].order = question.about
           /\ Eligibility \in Required => trace[Max(Found(Eligibility))].order = question.about,
         setting.mode = "mock" /\ answer' = "insufficient" => \E step \in Range(trace) : ~step.found
  PROVE  LoopInduction'
<1>1. LoopTypes'
  BY DEF LoopInduction, LoopTypes, LoopTypeOK, Tools, LegacyTools
<1>2. RunHolds'
  BY DEF LoopInduction, RunHolds, Stopped
<1>3. OfflinePlan'
  BY DEF LoopInduction, OfflinePlan, Required, PlanLength, Planned
<1>4. /\ ModelRequestsBounded' /\ EvidenceNeverMissing'
  BY SearchedIs DEF ModelRequestsBounded, EvidenceNeverMissing
<1>5. OwnWordsBeforeSearch'
  BY DEF OwnWordsBeforeSearch, Called, Required
<1>6. JointAnswerOfOneOrder'
  BY DEF JointAnswerOfOneOrder, Found, Required
<1>7. MockAnswersJointly'
  BY DEF MockAnswersJointly
<1>8. ChangeAnswered'
  BY DEF LoopInduction, LoopInv, ChangeAnswered
<1>9. QED
  BY <1>1, <1>2, <1>3, <1>4, <1>5, <1>6, <1>7, <1>8 DEF LoopInduction, LoopInv, LoopTypes

\* It stops with words or an error that say nothing of what was found.
LEMMA StopsPlainly ==
  ASSUME LoopInduction, ~Stopped, at' \in {"end", "failed"}, at' = "end" => Len(trace) = steps,
         UNCHANGED <<question, setting, call, steps, trace, evidence, retries, proposals, written>>,
         asked' \in Nat, asked' <= MaxToolSteps + 2 + Searched,
         answer' \in {"guidance", "quoted", "refused", "no_reply", "tool_failed", "another_order"}
  PROVE  LoopInduction'
<1>1. written = FALSE /\ written' = FALSE /\ steps' \in 0 .. MaxToolSteps /\ Len(trace) <= steps'
  BY DEF LoopInduction, LoopTypes, LoopTypeOK, RunHolds
<1>2. /\ answer' # "evidence_missing" /\ answer' # "model" /\ answer' # "grounded"
      /\ answer' # "insufficient" /\ written' \in BOOLEAN
  BY <1>1
<1>3. QED
  BY <1>1, <1>2, Stops

\* The run goes on, with numbers that fit the place it has reached.
LEMMA GoesOn ==
  ASSUME LoopInduction, ~Stopped, answer' = answer, UNCHANGED <<question, setting, written>>,
         at' \in {"call_model", "read_tool", "propose_change", "await_approval", "prepare_return_draft"},
         NEW n \in 0 .. MaxToolSteps, NEW l \in Nat, NEW r \in 0 .. 1, NEW a \in Nat, NEW e \in Nat,
         NEW s \in Nat, steps' = n, Len(trace') = l, retries' = r, asked' = a, evidence' = e,
         Searched' = s, a <= n + r + s, e <= l,
         n = IF at' \in {"read_tool", "propose_change"} THEN l + 1 ELSE l,
         trace' \in Seq(TraceSteps),
         \A i \in DOMAIN trace' : trace'[i].tool = Search => trace'[i].found,
         (Search \in Called)' => e > 0,
         call' \in [tool : Tools \cup {Nothing}, order : OrderIds \cup {Nothing}],
         at' = "read_tool" => call'.tool \in Tools \ {Change},
         at' = "propose_change" => call'.tool = Change,
         at' \in {"read_tool", "propose_change"} => Enabled(call.tool)',
         proposals' = IF at' = "await_approval" THEN 1 ELSE 0, setting.auth => proposals' = 0,
         OfflinePlan'
  PROVE  LoopInduction'
<1>1. /\ answer' = Nothing /\ Nothing \notin RunAnswers /\ ~written' /\ written' \in BOOLEAN
      /\ MaxToolSteps \in Nat /\ ~Stopped'
  BY NothingAssumption, StepsAssumption
     DEF LoopInduction, LoopTypes, LoopTypeOK, RunHolds, Stopped
<1>2. /\ EvidenceNeverMissing' /\ OwnWordsBeforeSearch' /\ JointAnswerOfOneOrder'
      /\ MockAnswersJointly' /\ ChangeAnswered'
  BY <1>1 DEF EvidenceNeverMissing, OwnWordsBeforeSearch, JointAnswerOfOneOrder,
              MockAnswersJointly, ChangeAnswered, RunAnswers
<1>3. ModelRequestsBounded'
  BY <1>1 DEF ModelRequestsBounded
<1>4. LoopTypeOK'
  <2>1. \A i \in DOMAIN trace' : trace'[i].tool \in Tools /\ trace'[i].found \in BOOLEAN
    BY TraceIs
  <2>2. e \in 0 .. MaxToolSteps /\ (at' \notin {"read_tool", "propose_change"} => l = n)
    BY <1>1
  <2>3. question' \in Questions
    BY DEF LoopInduction, LoopTypes, LoopTypeOK
  <2>4. QED
    BY <1>1, <2>1, <2>2, <2>3 DEF LoopTypeOK
<1>5. LoopTypes'
  <2>1. l <= n
    BY <1>1
  <2>2. setting' \in [mode : {"mock", "live"}, auth : BOOLEAN]
    BY DEF LoopInduction, LoopTypes
  <2>3. QED
    BY <1>4, <2>1, <2>2 DEF LoopTypes
<1>6. RunHolds'
  <2>1. asked' <= steps' + retries' + Searched' /\ evidence' <= Len(trace')
    OBVIOUS
  <2>2. at' \in {"read_tool", "propose_change"} => steps' = Len(trace') + 1
    OBVIOUS
  <2>3. QED
    BY <1>1, <2>1, <2>2 DEF RunHolds
<1>7. QED
  BY <1>2, <1>3, <1>4, <1>5, <1>6 DEF LoopInduction, LoopInv

\* What is known before the model is asked.
LEMMA Asking ==
  ASSUME LoopInduction, at = "call_model"
  PROVE  /\ ~Stopped /\ answer = Nothing /\ written = FALSE /\ proposals = 0
         /\ steps \in 0 .. MaxToolSteps /\ MaxToolSteps \in Nat /\ MaxToolSteps >= 3
         /\ Len(trace) = steps /\ retries \in 0 .. 1 /\ asked \in Nat
         /\ Searched \in Nat /\ asked <= steps + retries + Searched
         /\ asked <= MaxToolSteps + 1 + Searched /\ asked <= MaxToolSteps + 2 + Searched
         /\ (Search \in Called => evidence > 0)
BY StepsAssumption, SearchedIs DEF LoopInduction, LoopTypes, LoopTypeOK, RunHolds, Stopped

LEMMA GuideStep ==
  ASSUME LoopInduction, Guide
  PROVE  LoopInduction'
<1>1. at = "call_model" /\ at' = "end" /\ answer' = "guidance"
      /\ UNCHANGED <<question, setting, call, steps, trace, evidence, retries, asked, proposals, written>>
  BY DEF Guide, Ends
<1>2. QED
  BY <1>1, Asking, StopsPlainly

LEMMA CallModelFailsStep ==
  ASSUME LoopInduction, CallModelFails
  PROVE  LoopInduction'
<1>1. at = "call_model" /\ at' = "failed" /\ answer' = "no_reply"
      /\ UNCHANGED <<question, setting, call, steps, trace, evidence, retries, asked, proposals, written>>
  BY DEF CallModelFails, Fails
<1>2. QED
  BY <1>1, Asking, StopsPlainly

\* A tool is to be called: by the direct query or because the model asked.
LEMMA CallFollows ==
  ASSUME LoopInduction, at = "call_model", steps < MaxToolSteps,
         steps' = steps + 1, call' \in ToolCalls,
         Enabled(call'.tool), asked' \in {asked, asked + 1},
         at' = IF call'.tool = Change THEN "propose_change" ELSE "read_tool",
         UNCHANGED <<question, setting, trace, evidence, retries, answer, proposals, written>>,
         setting.mode = "mock" /\ Required # {} =>
           Len(trace) < PlanLength /\ call'.tool = Planned(Len(trace) + 1)
  PROVE  LoopInduction'
<1>1. OfflinePlan'
  <2>1. Required' = Required /\ PlanLength' = PlanLength /\ \A i : Planned(i)' = Planned(i)
    BY DEF Required, PlanLength, Planned
  <2>2. ASSUME NEW i \in Nat PROVE Planned(i) # Change
    BY ToolsDiffer DEF Planned
  <2>3. Len(trace) + 1 \in Nat
    BY Asking
  <2>4. QED
    BY <2>1, <2>2, <2>3 DEF LoopInduction, OfflinePlan
<1>2. PICK n \in 0 .. MaxToolSteps : n = steps + 1
  BY Asking
<1>3. PICK l \in Nat : l = Len(trace) /\ n = l + 1
  BY <1>2, Asking
<1>4. PICK a, s \in Nat : a = asked' /\ s = Searched' /\ a <= n + retries + s
  BY <1>2, Asking, SearchedIs
<1>5. /\ evidence \in Nat /\ evidence <= l /\ trace' \in Seq(TraceSteps)
      /\ \A i \in DOMAIN trace' : trace'[i].tool = Search => trace'[i].found
  BY <1>3 DEF LoopInduction, LoopTypes, LoopTypeOK, RunHolds
<1>6. (Search \in Called)' => evidence > 0
  BY Asking DEF Called
<1>7. Enabled(call.tool)'
  BY DEF Enabled
<1>8. /\ call' \in [tool : Tools \cup {Nothing}, order : OrderIds \cup {Nothing}] /\ call'.tool \in Tools
      /\ at' \in {"read_tool", "propose_change"} /\ proposals' = 0 /\ ~Stopped
      /\ at' = "read_tool" => call'.tool \in Tools \ {Change}
      /\ at' = "propose_change" => call'.tool = Change
      /\ retries \in 0 .. 1 /\ retries' = retries
  <2>1. \A c \in ToolCalls : /\ c \in [tool : Tools \cup {Nothing}, order : OrderIds \cup {Nothing}]
                             /\ c.tool \in Tools
    BY DEF ToolCalls
  <2>2. call'.tool \in Tools
    BY <2>1
  <2>3. /\ at' \in {"read_tool", "propose_change"}
        /\ at' = "read_tool" => call'.tool # Change
        /\ at' = "propose_change" => call'.tool = Change
    OBVIOUS
  <2>4. QED
    BY <2>1, <2>2, <2>3, Asking
<1>9. /\ steps' = n /\ Len(trace') = l /\ evidence' = evidence /\ asked' = a /\ Searched' = s
  BY <1>2, <1>3, <1>4
<1>10. QED
  BY <1>1, <1>3, <1>4, <1>5, <1>6, <1>7, <1>8, <1>9, GoesOn

LEMMA QueryDirectlyStep ==
  ASSUME LoopInduction, QueryDirectly
  PROVE  LoopInduction'
<1>1. /\ at = "call_model" /\ trace = <<>> /\ setting.mode = "live" /\ question.simple
      /\ call' = [tool |-> Order, order |-> question.about] /\ steps' = 1 /\ at' = "read_tool"
      /\ UNCHANGED <<question, setting, trace, evidence, retries, asked, answer, proposals, written>>
  BY DEF QueryDirectly, DirectQuery, GoesTo
<1>2. question.about \in OrderIds
  BY <1>1, QuestionIs DEF LoopInduction, LoopTypes, LoopTypeOK
<1>3. steps = 0 /\ steps < MaxToolSteps
  BY <1>1, Asking
<1>4. Enabled(Order) /\ Order # Change
  BY ToolsDiffer DEF Enabled, LegacyTools
<1>5. call' \in ToolCalls /\ call'.tool = Order
  BY <1>1, <1>2, ToolsDiffer DEF ToolCalls
<1>6. QED
  BY <1>1, <1>3, <1>4, <1>5, Asking, CallFollows

\* What the offline model has called, by the length of the trace.
LEMMA PlanCalled ==
  ASSUME LoopInduction, setting.mode = "mock", Required # {}, at = "call_model"
  PROVE  /\ PlanLength \in {2, 3} /\ Len(trace) \in 0 .. PlanLength
         /\ trace # <<>> <=> Len(trace) > 0
         /\ Order \in Called <=> Len(trace) > 0
         /\ Eligibility \in Called <=> PlanLength = 3 /\ Len(trace) > 1
         /\ Search \in Called <=> Len(trace) = PlanLength
         /\ Eligibility \in Required <=> PlanLength = 3
<1>1. /\ Len(trace) <= PlanLength /\ \A i \in DOMAIN trace : trace[i].tool = Planned(i)
      /\ trace \in Seq(TraceSteps)
  BY DEF LoopInduction, OfflinePlan, LoopTypes
<1>2. /\ PlanLength \in {2, 3} /\ Len(trace) \in 0 .. PlanLength /\ DOMAIN trace = 1 .. Len(trace)
      /\ (Eligibility \in Required <=> PlanLength = 3) /\ (trace # <<>> <=> Len(trace) > 0)
  BY <1>1 DEF PlanLength
<1>3. \A tool : tool \in Called <=> \E i \in 1 .. Len(trace) : Planned(i) = tool
  BY <1>1, <1>2, CalledIs
<1>4. /\ Planned(1) = Order /\ Planned(PlanLength) = Search
      /\ PlanLength = 3 => Planned(2) = Eligibility
      /\ \A i \in 1 .. PlanLength : /\ Planned(i) = Order => i = 1
                                    /\ Planned(i) = Eligibility => i = 2 /\ PlanLength = 3
                                    /\ Planned(i) = Search => i = PlanLength
  BY <1>2, ToolsDiffer DEF Planned
<1>5. Order \in Called <=> Len(trace) > 0
  BY <1>2, <1>3, <1>4
<1>6. Eligibility \in Called <=> PlanLength = 3 /\ Len(trace) > 1
  BY <1>2, <1>3, <1>4
<1>7. Search \in Called <=> Len(trace) = PlanLength
  <2>1. ASSUME Len(trace) = PlanLength PROVE Search \in Called
    <3>1. PlanLength \in 1 .. Len(trace)
      BY <1>2, <2>1
    <3>2. QED
      BY <1>3, <1>4, <3>1
  <2>2. ASSUME Search \in Called PROVE Len(trace) = PlanLength
    <3>1. PICK i \in 1 .. Len(trace) : Planned(i) = Search
      BY <1>3, <2>2
    <3>2. i \in 1 .. PlanLength
      BY <1>2, <3>1
    <3>3. i = PlanLength
      BY <1>4, <3>1, <3>2
    <3>4. PlanLength \in 1 .. Len(trace) /\ Len(trace) \in 0 .. PlanLength
      BY <1>2, <3>1, <3>3
    <3>5. \A m, l \in Nat : m \in 1 .. l /\ l \in 0 .. m => l = m
      OBVIOUS
    <3>6. PlanLength \in Nat /\ Len(trace) \in Nat
      BY <1>2
    <3>7. QED
      BY <3>4, <3>5, <3>6
  <2>3. QED
    BY <2>1, <2>2
<1>8. QED
  BY <1>2, <1>5, <1>6, <1>7

\* To a joint question the offline model replies with the next source, or it
\* has called them all.
LEMMA MockReplyIs ==
  ASSUME LoopInduction, setting.mode = "mock", Required # {}, at = "call_model"
  PROVE  \/ Len(trace) < PlanLength /\ MockReply = Planned(Len(trace) + 1)
         \/ MockReply = Nothing /\ Required \subseteq Called
<1>1. CASE ~OfferTools
  <2>1. MockReply = Nothing
    BY <1>1 DEF MockReply
  <2>2. Len(trace) >= 3
    BY <1>1, Asking DEF OfferTools
  <2>3. Required \subseteq Called
    BY <2>2, PlanCalled, RequiredIs
  <2>4. QED
    BY <2>1, <2>3
<1>2. CASE OfferTools /\ Len(trace) = 0
  <2>1. MockReply = Order
    BY <1>2, PlanCalled, RequiredIs DEF MockReply
  <2>2. QED
    BY <1>2, <2>1, PlanCalled DEF Planned
<1>3. CASE OfferTools /\ Len(trace) > 0
  <2>1. trace # <<>> /\ Order \in Called
    BY <1>3, PlanCalled
  <2>2. CASE Eligibility \in Required /\ Eligibility \notin Called
    <3>1. MockReply = Eligibility
      BY <1>3, <2>1, <2>2 DEF MockReply
    <3>2. PlanLength = 3 /\ Len(trace) = 1
      <4>1. PlanLength = 3 /\ ~(Len(trace) > 1) /\ Len(trace) \in Nat /\ Len(trace) > 0
        BY <1>3, <2>2, PlanCalled
      <4>2. \A l \in Nat : l > 0 /\ ~(l > 1) => l = 1
        OBVIOUS
      <4>3. QED
        BY <4>1, <4>2
    <3>3. QED
      BY <3>1, <3>2 DEF Planned
  <2>3. CASE ~(Eligibility \in Required /\ Eligibility \notin Called) /\ Search \notin Called
    <3>1. MockReply = Search
      BY <1>3, <2>1, <2>3 DEF MockReply
    <3>2. Len(trace) = PlanLength - 1
      BY <1>3, <2>3, PlanCalled
    <3>3. QED
      BY <3>1, <3>2, PlanCalled DEF Planned
  <2>4. CASE ~(Eligibility \in Required /\ Eligibility \notin Called) /\ Search \in Called
    <3>1. MockReply = Nothing
      BY <1>3, <2>1, <2>4 DEF MockReply
    <3>2. QED
      BY <2>1, <2>4, <3>1, RequiredIs
  <2>5. QED
    BY <2>2, <2>3, <2>4
<1>4. QED
  BY <1>1, <1>2, <1>3, PlanCalled

LEMMA MockReplyTool ==
  ASSUME LoopInduction, at = "call_model"
  PROVE  MockReply \in Tools \cup {Nothing}
BY ToolsDiffer DEF MockReply

\* The reply is a call.
LEMMA TakeCallStep ==
  ASSUME LoopInduction, at = "call_model", NEW said \in Replies, said # Nothing,
         TakeCall(said), asked' = asked + 1,
         UNCHANGED <<question, setting, trace, evidence, proposals, written>>
  PROVE  LoopInduction'
<1>1. said \in ToolCalls
  <2>1. CASE setting.mode = "mock"
    <3>1. said = MockCall /\ MockReply # Nothing
      BY <2>1 DEF Replies
    <3>2. QED
      BY <3>1, MockReplyTool DEF MockCall, ToolCalls
  <2>2. CASE setting.mode # "mock"
    BY <2>2, ToolsDiffer DEF Replies, LegacyTools, ToolCalls
  <2>3. QED
    BY <2>1, <2>2
<1>2. CASE ~OfferTools \/ ~Enabled(said.tool)
  <2>1. at' = "failed" /\ answer' = "refused" /\ UNCHANGED <<call, steps, retries>>
    BY <1>2 DEF TakeCall, Fails
  <2>2. asked' \in Nat /\ asked' <= MaxToolSteps + 2 + Searched
    BY Asking
  <2>3. QED
    BY <2>1, <2>2, Asking, StopsPlainly
<1>3. CASE OfferTools /\ Enabled(said.tool)
  <2>1. /\ call' = said /\ steps' = steps + 1 /\ UNCHANGED <<retries, answer>>
        /\ at' = IF said.tool = Change THEN "propose_change" ELSE "read_tool"
    BY <1>3 DEF TakeCall, GoesTo
  <2>2. ASSUME setting.mode = "mock", Required # {}
        PROVE  Len(trace) < PlanLength /\ said.tool = Planned(Len(trace) + 1)
    <3>1. said.tool = MockReply /\ MockReply # Nothing
      BY <2>2 DEF Replies, MockCall
    <3>2. QED
      BY <2>2, <3>1, MockReplyIs
  <2>3. steps < MaxToolSteps
    BY <1>3 DEF OfferTools
  <2>4. QED
    BY <1>1, <1>3, <2>1, <2>2, <2>3, CallFollows
<1>4. QED
  BY <1>2, <1>3

\* The reply is text.
LEMMA TakeTextStep ==
  ASSUME LoopInduction, at = "call_model", Nothing \in Replies, TakeText, asked' = asked + 1,
         UNCHANGED <<question, setting, trace, evidence, proposals, written>>
  PROVE  LoopInduction'
<1>1. UNCHANGED <<call, steps>>
  BY DEF TakeText
<1>2. asked' \in Nat /\ asked' <= MaxToolSteps + 2 + Searched /\ steps' \in 0 .. MaxToolSteps /\ Len(trace) = steps'
  BY <1>1, Asking
<1>3. CASE Required \ Completed # {} /\ AskAgain
  <2>1. retries' = 1 /\ at' = "call_model" /\ UNCHANGED answer
    BY <1>3 DEF TakeText, GoesTo
  <2>2. retries = 0
    BY <1>3, Asking DEF AskAgain
  <2>3. OfflinePlan'
    BY <1>1, <2>1 DEF LoopInduction, OfflinePlan, Required, PlanLength, Planned
  <2>4. PICK a, s \in Nat : a = asked' /\ s = Searched' /\ a <= steps + 1 + s
    BY <2>2, Asking, SearchedIs
  <2>5. /\ evidence \in Nat /\ evidence <= Len(trace) /\ trace' \in Seq(TraceSteps)
        /\ \A i \in DOMAIN trace' : trace'[i].tool = Search => trace'[i].found
        /\ call' \in [tool : Tools \cup {Nothing}, order : OrderIds \cup {Nothing}]
    BY <1>1 DEF LoopInduction, LoopTypes, LoopTypeOK, RunHolds
  <2>6. (Search \in Called)' => evidence > 0
    BY Asking DEF Called
  <2>7. /\ steps' = steps /\ steps \in 0 .. MaxToolSteps /\ Len(trace') = steps /\ steps \in Nat
        /\ 1 \in 0 .. 1 /\ retries' = 1 /\ evidence' = evidence /\ asked' = a /\ Searched' = s
        /\ ~Stopped /\ evidence <= steps /\ proposals' = 0
    BY <1>1, <2>1, <2>4, <2>5, Asking
  <2>8. QED
    BY <2>1, <2>3, <2>4, <2>5, <2>6, <2>7, GoesOn
<1>4. CASE Required \ Completed # {} /\ ~AskAgain
  <2>1. at' = "end" /\ answer' = "insufficient" /\ UNCHANGED retries
    BY <1>4 DEF TakeText, Ends
  <2>2. ASSUME setting.mode = "mock" PROVE \E step \in Range(trace) : ~step.found
    <3>1. MockReply = Nothing
      <4>1. MockReply # Nothing => MockCall \in ToolCalls
        BY MockReplyTool DEF MockCall, ToolCalls
      <4>2. QED
        BY <2>2, <4>1, NothingAssumption DEF Replies
    <3>2. Required # {}
      BY <1>4
    <3>3. \A i \in Nat : Planned(i) # Nothing
      BY ToolsDiffer DEF Planned
    <3>4. Required \subseteq Called
      BY <2>2, <3>1, <3>2, <3>3, MockReplyIs, Asking
    <3>5. PICK tool \in Called : tool \notin Completed
      BY <1>4, <3>4
    <3>6. PICK i \in DOMAIN trace : ~trace[i].found
      BY <3>5, CalledIs, CompletedIs
    <3>7. QED
      BY <3>6 DEF Range
  <2>3. QED
    BY <1>1, <1>2, <2>1, <2>2, Asking, Stops
<1>5. CASE Required \ Completed = {} /\ Required # {}
  <2>1. Grounded /\ UNCHANGED retries
    BY <1>5 DEF TakeText
  <2>2. Order \in Completed /\ Search \in Completed
    BY <1>5, RequiredIs
  <2>3. Found(Order) # {}
    BY <2>2, CompletedIs DEF Found
  <2>4. evidence > 0
    BY <2>2, CalledIs, CompletedIs, Asking
  <2>5. evidence # 0
    BY <2>4, Asking
  <2>6. CASE \/ trace[Min(Found(Order))].order # question.about
             \/ Eligibility \in Required /\ trace[Max(Found(Eligibility))].order # question.about
    <3>1. at' = "failed" /\ answer' = "another_order"
      BY <2>1, <2>3, <2>5, <2>6 DEF Grounded, Fails
    <3>2. QED
      BY <1>1, <1>2, <2>1, <3>1, Asking, StopsPlainly
  <2>7. CASE ~(\/ trace[Min(Found(Order))].order # question.about
               \/ Eligibility \in Required /\ trace[Max(Found(Eligibility))].order # question.about)
    <3>1. at' = "end" /\ answer' = "grounded"
      BY <2>1, <2>3, <2>5, <2>7 DEF Grounded, Ends
    <3>2. QED
      BY <1>1, <1>2, <2>1, <2>7, <3>1, Asking, Stops
  <2>8. QED
    BY <2>6, <2>7
<1>6. CASE Required = {} /\ evidence > 0
  <2>1. at' = "end" /\ answer' = "quoted" /\ UNCHANGED retries
    BY <1>6 DEF TakeText, Ends
  <2>2. QED
    BY <1>1, <1>2, <2>1, Asking, StopsPlainly
<1>7. CASE Required = {} /\ ~(evidence > 0)
  <2>1. at' = "end" /\ answer' = "model" /\ UNCHANGED retries
    BY <1>7 DEF TakeText, Ends
  <2>2. Search \notin Called
    BY <1>7, Asking
  <2>3. QED
    BY <1>1, <1>2, <1>7, <2>1, <2>2, Asking, Stops
<1>8. QED
  BY <1>3, <1>4, <1>5, <1>6, <1>7

LEMMA CallModelStep ==
  ASSUME LoopInduction, CallModel
  PROVE  LoopInduction'
<1>1. PICK said \in Replies : IF said = Nothing THEN TakeText ELSE TakeCall(said)
  BY DEF CallModel
<1>2. QED
  BY <1>1, TakeCallStep, TakeTextStep DEF CallModel

----------------------------------------------------------------------------
\* What is known while a tool runs, and of the trace after it.
LEMMA Reading ==
  ASSUME LoopInduction, at \in {"read_tool", "propose_change"}
  PROVE  /\ ~Stopped /\ answer = Nothing /\ written = FALSE /\ proposals = 0
         /\ steps \in 0 .. MaxToolSteps /\ MaxToolSteps \in Nat /\ steps = Len(trace) + 1
         /\ retries \in 0 .. 1 /\ asked \in Nat /\ Searched \in Nat
         /\ asked <= steps + retries + Searched /\ asked <= MaxToolSteps + 2 + Searched
         /\ Len(trace) \in Nat
         /\ (Search \in Called => evidence > 0) /\ evidence \in Nat /\ evidence <= Len(trace)
         /\ trace \in Seq(TraceSteps) /\ call.tool \in Tools /\ call.order \in OrderIds \cup {Nothing}
         /\ Enabled(call.tool)
BY StepsAssumption, SearchedIs DEF LoopInduction, LoopTypes, LoopTypeOK, RunHolds, Stopped, Tools, LegacyTools

LEMMA TracedIs ==
  ASSUME LoopInduction, at \in {"read_tool", "propose_change"}, NEW hit \in BOOLEAN, Traced(hit),
         NEW l \in Nat, l = Len(trace)
  PROVE  /\ trace' \in Seq(TraceSteps) /\ Len(trace') = l + 1
         /\ DOMAIN trace = 1 .. l /\ DOMAIN trace' = 1 .. l + 1
         /\ \A i \in 1 .. l : trace'[i] = trace[i]
         /\ trace'[l + 1].tool = call.tool /\ trace'[l + 1].found = hit
         /\ \A tool : (tool \in Called)' <=> tool \in Called \/ tool = call.tool
<1>1. PICK step : step = [tool |-> call.tool, order |-> call.order, found |-> hit]
  OBVIOUS
<1>2. step \in TraceSteps /\ step.tool = call.tool /\ step.found = hit
  BY <1>1, Reading DEF TraceSteps
<1>3. trace' = Append(trace, step) /\ trace \in Seq(TraceSteps)
  BY <1>1, Reading DEF Traced
<1>4. /\ trace' \in Seq(TraceSteps) /\ Len(trace') = l + 1
      /\ DOMAIN trace = 1 .. l /\ DOMAIN trace' = 1 .. l + 1
      /\ \A i \in 1 .. l : trace'[i] = trace[i]
      /\ trace'[l + 1] = step
  BY <1>2, <1>3
<1>5. ASSUME NEW tool PROVE (tool \in Called)' <=> tool \in Called \/ tool = call.tool
  <2>1. (tool \in Called)' <=> \E i \in 1 .. l + 1 : trace'[i].tool = tool
    BY <1>4, CalledIs
  <2>2. tool \in Called <=> \E i \in 1 .. l : trace'[i].tool = tool
    BY <1>4, CalledIs
  <2>3. trace'[l + 1].tool = call.tool
    BY <1>2, <1>4
  <2>4. \A i \in 1 .. l + 1 : i \in 1 .. l \/ i = l + 1
    OBVIOUS
  <2>5. l + 1 \in 1 .. l + 1 /\ 1 .. l \subseteq 1 .. l + 1
    OBVIOUS
  <2>6. QED
    BY <2>1, <2>2, <2>3, <2>4, <2>5
<1>6. QED
  BY <1>2, <1>4, <1>5

\* Every search that comes back counts, and nothing else does.
LEMMA TracedSearched ==
  ASSUME LoopInduction, at \in {"read_tool", "propose_change"}, NEW hit \in BOOLEAN, Traced(hit)
  PROVE  Searched' = IF call.tool = Search /\ hit THEN Searched + 1 ELSE Searched
<1>1. PICK l \in Nat : l = Len(trace)
  BY Reading
<1>2. /\ DOMAIN trace = 1 .. l /\ DOMAIN trace' = 1 .. l + 1
      /\ \A i \in 1 .. l : trace'[i] = trace[i]
      /\ trace'[l + 1].tool = call.tool /\ trace'[l + 1].found = hit
  BY <1>1, TracedIs
<1>3. 1 .. l + 1 = (1 .. l) \cup {l + 1} /\ l + 1 \notin 1 .. l
  OBVIOUS
<1>4. /\ Found(Search) = {i \in 1 .. l : trace[i].tool = Search /\ trace[i].found}
      /\ Found(Search)' = {i \in 1 .. l + 1 : trace'[i].tool = Search /\ trace'[i].found}
  BY <1>2 DEF Found
<1>5. CASE call.tool = Search /\ hit
  <2>1. Found(Search)' = Found(Search) \cup {l + 1}
    BY <1>2, <1>3, <1>4, <1>5
  <2>2. l + 1 \notin Found(Search) /\ IsFiniteSet(Found(Search))
    BY <1>3, <1>4, SearchedIs
  <2>3. Cardinality(Found(Search) \cup {l + 1}) = Cardinality(Found(Search)) + 1
    BY <2>2, FS_AddElement
  <2>4. QED
    BY <1>5, <2>1, <2>3 DEF Searched
<1>6. CASE ~(call.tool = Search /\ hit)
  <2>1. Found(Search)' = Found(Search)
    BY <1>2, <1>3, <1>4, <1>6
  <2>2. QED
    BY <1>6, <2>1 DEF Searched
<1>7. QED
  BY <1>5, <1>6

\* The tool has run, and the run goes on or stops for want of evidence.
LEMMA ToolRan ==
  ASSUME LoopInduction, at \in {"read_tool", "propose_change"}, NEW hit \in BOOLEAN, Traced(hit),
         UNCHANGED <<question, setting, call, steps, retries, written>>,
         asked' = asked \/ (call.tool = Search /\ asked' = asked + 1),
         at' \in {"call_model", "prepare_return_draft", "await_approval", "end"},
         at' = "end" => answer' \in {"no_evidence", "direct"},
         at' # "end" => answer' = answer,
         NEW e \in Nat, evidence' = e, e <= Len(trace) + 1, evidence > 0 => e > 0,
         call.tool = Search => hit /\ (at' # "end" => e > 0),
         proposals' = IF at' = "await_approval" THEN 1 ELSE 0,
         at' = "await_approval" => at = "propose_change" /\ ~setting.auth
  PROVE  LoopInduction'
<1>1. PICK l \in Nat : l = Len(trace) /\ steps = l + 1
  BY Reading
<1>2. /\ trace' \in Seq(TraceSteps) /\ Len(trace') = l + 1
      /\ DOMAIN trace = 1 .. l /\ DOMAIN trace' = 1 .. l + 1
      /\ \A i \in 1 .. l : trace'[i] = trace[i]
      /\ trace'[l + 1].tool = call.tool /\ trace'[l + 1].found = hit
      /\ \A tool : (tool \in Called)' <=> tool \in Called \/ tool = call.tool
  BY <1>1, TracedIs
<1>3. e <= l + 1 /\ (at' # "end" /\ (Search \in Called)' => e > 0)
  BY <1>1, <1>2, Reading
<1>4. \A i \in DOMAIN trace' : trace'[i].tool = Search => trace'[i].found
  <2>1. \A i \in 1 .. l + 1 : i \in 1 .. l \/ i = l + 1
    BY LastIndex
  <2>2. \A i \in 1 .. l : trace[i].tool = Search => trace[i].found
    BY <1>2 DEF LoopInduction, RunHolds
  <2>3. QED
    BY <1>2, <2>1, <2>2
<1>5. OfflinePlan'
  <2>1. SUFFICES ASSUME setting.mode = "mock", Required # {} PROVE OfflinePlan'
    BY DEF OfflinePlan, Required
  <2>2. PICK m \in {2, 3} : m = PlanLength
    BY DEF PlanLength
  <2>3. /\ \A i \in 1 .. l : trace[i].tool = Planned(i)
        /\ at = "read_tool" /\ l < m /\ call.tool = Planned(l + 1)
    BY <1>1, <1>2, <2>1, <2>2 DEF LoopInduction, OfflinePlan
  <2>4. Required' = Required /\ PlanLength' = m /\ \A i : Planned(i)' = Planned(i)
    BY <2>2 DEF Required, PlanLength, Planned
  <2>5. l + 1 <= m
    <3>1. \A k, n \in Nat : k < n => k + 1 <= n
      OBVIOUS
    <3>2. QED
      BY <2>3, <3>1
  <2>6. \A i \in DOMAIN trace' : trace'[i].tool = Planned(i)
    <3>1. \A i \in 1 .. l + 1 : i \in 1 .. l \/ i = l + 1
      BY LastIndex
    <3>2. QED
      BY <1>2, <2>3, <3>1
  <2>7. at' \notin {"read_tool", "propose_change", "await_approval"}
    BY <2>3
  <2>8. Len(trace') <= PlanLength'
    BY <1>2, <2>4, <2>5
  <2>9. QED
    BY <2>4, <2>6, <2>7, <2>8 DEF OfflinePlan
<1>9. PICK a, s \in Nat : a = asked' /\ s = Searched' /\ a <= l + 1 + retries + s
  <2>5. Searched' = IF call.tool = Search /\ hit THEN Searched + 1 ELSE Searched
    BY TracedSearched
  <2>6. /\ asked \in Nat /\ Searched \in Nat /\ retries \in 0 .. 1
        /\ asked <= steps + retries + Searched
    BY Reading
  <2>1. /\ Searched' = IF call.tool = Search /\ hit THEN Searched + 1 ELSE Searched
        /\ asked \in Nat /\ Searched \in Nat /\ retries \in Nat
        /\ asked <= l + 1 + retries + Searched
    BY <1>1, <2>5, <2>6
  <2>2. CASE call.tool = Search
    <3>1. Searched' = Searched + 1 /\ asked' \in {asked, asked + 1}
      BY <2>1, <2>2
    <3>2. QED
      BY <2>1, <3>1
  <2>3. CASE call.tool # Search
    <3>1. Searched' = Searched /\ asked' = asked
      BY <2>1, <2>3
    <3>2. QED
      BY <2>1, <3>1
  <2>4. QED
    BY <2>2, <2>3
<1>6. CASE at' # "end"
  <2>2. /\ l + 1 \in Nat /\ l + 1 \in 0 .. MaxToolSteps /\ steps' = l + 1
    <3>1. steps' = steps /\ steps \in 0 .. MaxToolSteps
      BY Reading
    <3>2. QED
      BY <1>1, <3>1
  <2>6. /\ retries \in 0 .. 1 /\ retries' = retries
        /\ ~Stopped /\ (setting.auth => proposals' = 0)
        /\ (Search \in Called)' => e > 0
    BY <1>3, <1>6, Reading
  <2>3. call' \in [tool : Tools \cup {Nothing}, order : OrderIds \cup {Nothing}]
    BY DEF LoopInduction, LoopTypes
  <2>4. /\ at' \in {"call_model", "await_approval", "prepare_return_draft"}
        /\ answer' = answer
    BY <1>6
  <2>5. QED
    BY <1>2, <1>3, <1>4, <1>5, <1>9, <2>2, <2>3, <2>4, <2>6, GoesOn
<1>7. CASE at' = "end"
  <2>1. /\ EvidenceNeverMissing' /\ OwnWordsBeforeSearch' /\ JointAnswerOfOneOrder'
        /\ MockAnswersJointly'
    BY <1>7 DEF EvidenceNeverMissing, OwnWordsBeforeSearch, JointAnswerOfOneOrder, MockAnswersJointly
  <2>2. ChangeAnswered' /\ proposals' = 0 /\ written' = FALSE
    BY <1>7, Reading DEF ChangeAnswered
  <2>10. ModelRequestsBounded'
    <3>1. steps \in 0 .. MaxToolSteps /\ retries \in 0 .. 1 /\ MaxToolSteps \in Nat
      BY Reading
    <3>2. l + 1 <= MaxToolSteps /\ retries <= 1 /\ retries \in Nat
      BY <1>1, <3>1
    <3>3. \A n, m, r, k, b \in Nat : n + 1 <= m /\ r <= 1 /\ b <= n + 1 + r + k => b <= m + 2 + k
      OBVIOUS
    <3>4. a <= MaxToolSteps + 2 + s
      BY <1>9, <3>1, <3>2, <3>3
    <3>5. QED
      BY <1>9, <3>4 DEF ModelRequestsBounded
  <2>3. \A i \in DOMAIN trace' : trace'[i].tool \in Tools /\ trace'[i].found \in BOOLEAN
    BY <1>2, TraceIs
  <2>4. e \in 0 .. MaxToolSteps /\ Len(trace') = steps' /\ steps' = l + 1
    <3>1. steps' = steps /\ steps \in 0 .. MaxToolSteps /\ MaxToolSteps \in Nat
      BY Reading
    <3>2. \A n, m \in Nat : n <= l + 1 /\ l + 1 <= m => n <= m
      OBVIOUS
    <3>3. l + 1 <= MaxToolSteps /\ MaxToolSteps \in Nat
      BY <1>1, <3>1
    <3>4. e <= MaxToolSteps
      BY <1>3, <3>2, <3>3
    <3>5. QED
      BY <1>1, <1>2, <3>1, <3>4
  <2>5. LoopTypeOK'
    BY <1>3, <1>7, <2>2, <2>3, <2>4 DEF LoopInduction, LoopTypes, LoopTypeOK
  <2>6. LoopTypes'
    BY <1>1, <1>2, <1>9, <2>4, <2>5 DEF LoopInduction, LoopTypes
  <2>7. evidence' <= Len(trace')
    BY <1>2, <1>3
  <2>8. RunHolds'
    BY <1>4, <1>7, <2>7 DEF RunHolds, Stopped
  <2>9. QED
    BY <1>5, <2>1, <2>2, <2>5, <2>6, <2>8, <2>10 DEF LoopInduction, LoopInv
<1>8. QED
  BY <1>6, <1>7

LEMMA MoreEvidence ==
  \A had, l \in Nat, more \in 0 .. 1 :
    had <= l => /\ had + more \in Nat /\ had + more <= l + 1 /\ (had > 0 => had + more > 0)
                /\ (more # 0 => had + more > 0) /\ had <= l + 1
OBVIOUS

LEMMA NoMoreEvidence ==
  ASSUME LoopInduction, at \in {"read_tool", "propose_change"}, UNCHANGED evidence
  PROVE  \E e \in Nat : e = evidence' /\ e <= Len(trace) + 1 /\ (evidence > 0 => e > 0)
<1>1. evidence <= Len(trace) + 1 /\ evidence \in Nat
  BY Reading, MoreEvidence
<1>2. QED
  BY <1>1

LEMMA ReadToolStep ==
  ASSUME LoopInduction, ReadTool
  PROVE  LoopInduction'
<1>1. /\ at = "read_tool" /\ call.tool # Change /\ proposals = 0
      /\ UNCHANGED <<question, setting, call, steps, retries, proposals, written>>
  BY DEF ReadTool, LoopInduction, RunHolds
<1>2. CASE ReadSearch
  <2>1. PICK more \in 0 .. 1 :
          /\ evidence' = evidence + more
          /\ IF more = 0 THEN Ends("no_evidence") ELSE GoesTo("call_model")
    BY <1>2 DEF ReadSearch
  <2>2. /\ Traced(TRUE) /\ call.tool = Search
        /\ asked' = asked \/ asked' = asked + 1
    BY <1>2 DEF ReadSearch, Review
  <2>3. /\ at' \in {"call_model", "end"} /\ (at' = "end" => answer' = "no_evidence")
        /\ (at' # "end" => answer' = answer /\ more # 0)
    BY <2>1 DEF Ends, GoesTo
  <2>4. PICK e \in Nat : /\ e = evidence' /\ e <= Len(trace) + 1 /\ (evidence > 0 => e > 0)
                         /\ (more # 0 => e > 0)
    BY <1>1, <2>1, MoreEvidence, Reading
  <2>5. QED
    BY <1>1, <2>2, <2>3, <2>4, ToolRan
<1>3. CASE ReadOrder
  <2>1. PICK hit \in BOOLEAN : Traced(hit)
    BY <1>3 DEF ReadOrder
  <2>2. /\ at' \in {"call_model", "end"} /\ (at' = "end" => answer' = "direct")
        /\ (at' # "end" => answer' = answer) /\ call.tool # Search
        /\ evidence' = evidence /\ asked' = asked
    BY <1>3, ToolsDiffer DEF ReadOrder, Ends, GoesTo
  <2>3. PICK e \in Nat : e = evidence' /\ e <= Len(trace) + 1 /\ (evidence > 0 => e > 0)
    BY <1>1, <2>2, NoMoreEvidence
  <2>4. QED
    BY <1>1, <2>1, <2>2, <2>3, ToolRan
<1>4. CASE ReadEligibility
  <2>1. PICK decision \in {"NO_REASON_ALLOWED", "REASON_REQUIRED", "NOT_ALLOWED", "not_found"} :
          /\ Traced(decision # "not_found")
          /\ GoesTo(IF question.apply /\ decision \in {"NO_REASON_ALLOWED", "REASON_REQUIRED"}
                    THEN "prepare_return_draft" ELSE "call_model")
    BY <1>4 DEF ReadEligibility
  <2>2. PICK hit \in BOOLEAN : Traced(hit)
    BY <2>1
  <2>3. /\ at' \in {"call_model", "prepare_return_draft"} /\ answer' = answer
        /\ call.tool # Search /\ evidence' = evidence /\ asked' = asked
    BY <1>4, <2>1, ToolsDiffer DEF ReadEligibility, GoesTo
  <2>4. PICK e \in Nat : e = evidence' /\ e <= Len(trace) + 1 /\ (evidence > 0 => e > 0)
    BY <1>1, <2>3, NoMoreEvidence
  <2>5. QED
    BY <1>1, <2>2, <2>3, <2>4, ToolRan
<1>5. CASE ReadTicket
  <2>1. PICK hit \in BOOLEAN : Traced(hit)
    BY <1>5 DEF ReadTicket
  <2>2. /\ at' = "call_model" /\ answer' = answer /\ call.tool # Search
        /\ evidence' = evidence /\ asked' = asked
    BY <1>5, ToolsDiffer DEF ReadTicket, GoesTo
  <2>3. PICK e \in Nat : e = evidence' /\ e <= Len(trace) + 1 /\ (evidence > 0 => e > 0)
    BY <1>1, <2>2, NoMoreEvidence
  <2>4. QED
    BY <1>1, <2>1, <2>2, <2>3, ToolRan
<1>6. QED
  BY <1>2, <1>3, <1>4, <1>5 DEF ReadTool

LEMMA ReadToolFailsStep ==
  ASSUME LoopInduction, ReadToolFails
  PROVE  LoopInduction'
<1>1. at = "read_tool" /\ at' = "failed" /\ answer' = "tool_failed"
      /\ UNCHANGED <<question, setting, call, steps, trace, evidence, retries, asked, proposals, written>>
  BY DEF ReadToolFails, Fails
<1>2. QED
  BY <1>1, Reading, StopsPlainly

LEMMA ProposeChangeStep ==
  ASSUME LoopInduction, ProposeChange
  PROVE  LoopInduction'
<1>1. /\ at = "propose_change" /\ call.tool = Change
      /\ UNCHANGED <<question, setting, call, steps, evidence, retries, asked, written>>
  BY DEF ProposeChange, LoopInduction, RunHolds
<1>2. CASE proposals' = proposals + 1 /\ Traced(TRUE) /\ GoesTo("await_approval")
  <2>1. at' = "await_approval" /\ answer' = answer /\ proposals' = 1
    BY <1>1, <1>2, Reading DEF GoesTo
  <2>2. ~setting.auth /\ call.tool # Search
    BY <1>1, Reading, ToolsDiffer DEF Enabled, LegacyTools
  <2>3. PICK e \in Nat : e = evidence' /\ e <= Len(trace) + 1 /\ (evidence > 0 => e > 0)
    BY <1>1, NoMoreEvidence
  <2>4. QED
    BY <1>1, <1>2, <2>1, <2>2, <2>3, ToolRan
<1>3. CASE Fails("tool_failed") /\ UNCHANGED <<proposals, trace>>
  <2>1. at' = "failed" /\ answer' = "tool_failed"
    BY <1>3 DEF Fails
  <2>2. QED
    BY <1>1, <1>3, <2>1, Reading, StopsPlainly
<1>4. QED
  BY <1>2, <1>3 DEF ProposeChange

LEMMA ResumeStep ==
  ASSUME LoopInduction, Resume
  PROVE  LoopInduction'
<1>1. /\ at = "await_approval" /\ proposals = 1
      /\ UNCHANGED <<question, setting, call, steps, trace, evidence, retries, asked, proposals>>
      /\ steps \in 0 .. MaxToolSteps /\ Len(trace) = steps /\ asked \in Nat
      /\ asked <= MaxToolSteps + 2 + Searched /\ written = FALSE
  BY StepsAssumption
     DEF Resume, LoopInduction, LoopInv, ModelRequestsBounded, LoopTypes, LoopTypeOK, RunHolds, Stopped
<1>2. /\ at' \in {"end", "failed"} /\ answer' \in {"executed", "cancelled", "tool_failed"}
      /\ written' \in BOOLEAN /\ (written' => answer' = "executed")
  BY <1>1 DEF Resume, Ends, Fails
<1>3. QED
  BY <1>1, <1>2, Stops

LEMMA LoopStart == LoopInit => LoopInduction
<1>1. SUFFICES ASSUME LoopInit PROVE LoopInduction
  OBVIOUS
<1>2. /\ at = "call_model" /\ steps = 0 /\ trace = <<>> /\ evidence = 0 /\ retries = 0 /\ asked = 0
      /\ answer = Nothing /\ proposals = 0 /\ written = FALSE
  BY <1>1 DEF LoopInit
<1>3. LoopTypes
  <2>1. question \in Questions /\ setting \in [mode : {"mock", "live"}, auth : BOOLEAN]
    BY <1>1 DEF LoopInit
  <2>2. call = [tool |-> Nothing, order |-> Nothing]
    BY <1>1 DEF LoopInit
  <2>3. trace \in Seq(TraceSteps) /\ Len(trace) = 0 /\ DOMAIN trace = {}
    BY <1>2
  <2>4. 0 \in 0 .. MaxToolSteps
    BY StepsAssumption
  <2>5. LoopTypeOK
    <3>1. /\ steps \in 0 .. MaxToolSteps /\ evidence \in 0 .. MaxToolSteps /\ proposals \in 0 .. 1
          /\ Len(trace) = steps
      BY <1>2, <2>3, <2>4
    <3>2. \A i \in DOMAIN trace : trace[i].tool \in Tools /\ trace[i].found \in BOOLEAN
      BY <2>3
    <3>3. QED
      BY <1>2, <2>1, <3>1, <3>2 DEF LoopTypeOK
  <2>6. QED
    BY <1>2, <2>1, <2>2, <2>3, <2>5 DEF LoopTypes
<1>4. Called = {} /\ Searched = 0
  <2>1. Called = {} /\ Found(Search) = {}
    BY <1>2 DEF Called, Found, Range
  <2>2. QED
    BY <2>1, FS_EmptySet DEF Searched
<1>5. RunHolds
  BY <1>2, <1>4 DEF RunHolds, Stopped
<1>6. OfflinePlan
  BY <1>2 DEF OfflinePlan, PlanLength
<1>7. /\ ModelRequestsBounded /\ EvidenceNeverMissing /\ OwnWordsBeforeSearch
      /\ JointAnswerOfOneOrder /\ MockAnswersJointly /\ ChangeAnswered
  BY <1>2, <1>4, NothingAssumption, StepsAssumption
     DEF ModelRequestsBounded, EvidenceNeverMissing, OwnWordsBeforeSearch, JointAnswerOfOneOrder,
         MockAnswersJointly, ChangeAnswered, RunAnswers
<1>8. QED
  BY <1>3, <1>5, <1>6, <1>7 DEF LoopInduction, LoopInv, LoopTypes

LEMMA LoopStep == LoopInduction /\ [LoopNext]_loopVars => LoopInduction'
<1>1. SUFFICES ASSUME LoopInduction, [LoopNext]_loopVars PROVE LoopInduction'
  OBVIOUS
<1>2. CASE UNCHANGED loopVars
  <2>1. LoopTypes' /\ RunHolds' /\ OfflinePlan'
    BY <1>1, <1>2 DEF loopVars, LoopInduction, LoopTypes, LoopTypeOK, RunHolds, Stopped, Called, Enabled,
                      OfflinePlan, Required, PlanLength, Planned, Searched, Found
  <2>2. /\ ModelRequestsBounded' /\ EvidenceNeverMissing' /\ OwnWordsBeforeSearch'
        /\ JointAnswerOfOneOrder' /\ MockAnswersJointly' /\ ChangeAnswered'
    BY <1>1, <1>2 DEF loopVars, LoopInduction, LoopInv, ModelRequestsBounded, EvidenceNeverMissing,
       OwnWordsBeforeSearch, JointAnswerOfOneOrder, MockAnswersJointly, ChangeAnswered, Called, Required,
       Found, Searched
  <2>3. QED
    BY <2>1, <2>2 DEF LoopInduction, LoopInv, LoopTypes
<1>3. QED
  BY <1>1, <1>2, GuideStep, QueryDirectlyStep, CallModelStep, CallModelFailsStep, ReadToolStep,
     ReadToolFailsStep, ProposeChangeStep, ResumeStep DEF LoopNext

THEOREM LoopInvariant == LoopSpec => []LoopInduction
BY LoopStart, LoopStep, PTL DEF LoopSpec

THEOREM LoopKept == LoopSpec => []LoopInv
<1>1. LoopInduction => LoopInv
  BY DEF LoopInduction
<1>2. QED
  BY <1>1, LoopInvariant, PTL

----------------------------------------------------------------------------
(* LegacyAgents: what the older agents ask and take for an answer.         *)

LEMMA AskAgentStep ==
  ASSUME LegacyInduction, AskAgent
  PROVE  LegacyInduction'
<1>1. /\ stage = "ask" /\ MayAsk /\ UNCHANGED <<agent, ran>> /\ requests \in Nat
      /\ requests + 1 \in Nat /\ requests' = requests + 1
  BY DEF AskAgent, LegacyInduction, LegacyTypeOK
<1>2. \/ stage' = "run" /\ wants' \in LegacyKinds /\ AnotherTool
      \/ stage' = "words" /\ wants' = wants /\ (agent = "loop" \/ requests > 0)
      \/ stage' = "failed" /\ wants' = wants
  BY <1>1 DEF AskAgent, LegacyKinds
<1>3. LegacyTypeOK'
  BY <1>1, <1>2 DEF LegacyInduction, LegacyTypeOK
<1>4. \A i \in DOMAIN ran : ran[i].tool = "search" => ran[i].found
  BY <1>1 DEF LegacyInduction
<1>5. CASE agent = "loop"
  <2>1. requests' <= MaxRequests
    <3>1. \A n, m \in Nat : n < m => n + 1 <= m
      OBVIOUS
    <3>2. requests < MaxRequests /\ MaxRequests \in Nat
      BY <1>1, <1>5, RequestsAssumption DEF MayAsk
    <3>3. QED
      BY <1>1, <3>1, <3>2
  <2>2. LegacyRequestsBounded' /\ WordsRestOnResults'
    BY <1>1, <1>4, <1>5, <2>1 DEF LegacyRequestsBounded, WordsRestOnResults
  <2>3. QED
    BY <1>1, <1>3, <1>4, <1>5, <2>2 DEF LegacyInduction, LegacyInv
<1>6. CASE agent # "loop"
  <2>1. requests <= 1 /\ Len(ran) = requests /\ ran \in Seq(RanSteps)
    BY <1>1, <1>6 DEF LegacyInduction, LegacyTypeOK
  <2>2. \A n \in Nat : n <= 1 => n + 1 <= 2 /\ (n > 0 => n = 1)
    OBVIOUS
  <2>3. LegacyRequestsBounded'
    BY <1>1, <1>6, <2>1, <2>2 DEF LegacyRequestsBounded
  <2>4. WordsRestOnResults'
    BY <1>1, <1>2, <1>4, <1>6, <2>1, <2>2 DEF WordsRestOnResults
  <2>5. stage' = "run" => requests' = 1 /\ ran' = <<>>
    BY <1>1, <1>2, <1>6, <2>1 DEF AnotherTool
  <2>6. stage' # "ask"
    BY <1>2
  <2>7. QED
    BY <1>1, <1>3, <1>4, <2>3, <2>4, <2>5, <2>6 DEF LegacyInduction, LegacyInv
<1>7. QED
  BY <1>5, <1>6

LEMMA GiveUpStep ==
  ASSUME LegacyInduction, GiveUp
  PROVE  LegacyInduction'
BY DEF GiveUp, LegacyInduction, LegacyTypeOK, LegacyInv, LegacyRequestsBounded, WordsRestOnResults

LEMMA RunToolStep ==
  ASSUME LegacyInduction, RunTool
  PROVE  LegacyInduction'
<1>1. /\ stage = "run" /\ UNCHANGED <<agent, wants, requests>> /\ requests \in Nat
      /\ wants \in LegacyKinds /\ ran \in Seq(RanSteps)
      /\ \A i \in DOMAIN ran : ran[i].tool = "search" => ran[i].found
  BY DEF RunTool, LegacyInduction, LegacyTypeOK
<1>2. CASE stage' = "failed" /\ UNCHANGED ran
  BY <1>1, <1>2 DEF LegacyInduction, LegacyTypeOK, LegacyInv, LegacyRequestsBounded, WordsRestOnResults
<1>3. ASSUME NEW hit \in BOOLEAN, ran' = Append(ran, [tool |-> wants, found |-> hit]), AfterTool(hit)
      PROVE  LegacyInduction'
  <2>1. PICK step \in RanSteps : step = [tool |-> wants, found |-> hit]
    BY <1>1 DEF RanSteps
  <2>2. /\ ran' = Append(ran, step) /\ ran' \in Seq(RanSteps) /\ Len(ran') = Len(ran) + 1
        /\ step.tool = wants /\ step.found = hit
    BY <1>1, <1>3, <2>1
  <2>3. CASE stage' = "ask"
    <3>1. wants = "search" => hit
      BY <1>3, <2>3 DEF AfterTool
    <3>2. \A i \in DOMAIN ran' : ran'[i].tool = "search" => ran'[i].found
      <4>1. \A i \in DOMAIN ran' : (i \in DOMAIN ran /\ ran'[i] = ran[i]) \/ ran'[i] = step
        BY <1>1, <2>2
      <4>2. QED
        BY <1>1, <2>2, <3>1, <4>1
    <3>3. agent # "loop" => requests = 1 /\ requests <= 1 /\ Len(ran') = 1 /\ Len(ran') <= 1
      BY <1>1, <2>2 DEF LegacyInduction
    <3>4. LegacyTypeOK'
      BY <1>1, <2>2, <2>3 DEF LegacyInduction, LegacyTypeOK
    <3>5. LegacyRequestsBounded'
      BY <1>1, <3>3 DEF LegacyInduction, LegacyInv, LegacyRequestsBounded
    <3>6. WordsRestOnResults'
      BY <2>3 DEF WordsRestOnResults
    <3>7. agent' # "loop" => requests' <= 1 /\ Len(ran') = requests'
      BY <1>1, <3>3
    <3>8. QED
      BY <2>3, <3>2, <3>4, <3>5, <3>6, <3>7 DEF LegacyInduction, LegacyInv
  <2>4. CASE stage' = "no_evidence"
    <3>1. agent # "loop" => requests = 1 /\ Len(ran') <= 1
      BY <1>1, <2>2 DEF LegacyInduction
    <3>2. LegacyTypeOK'
      BY <1>1, <2>2, <2>4 DEF LegacyInduction, LegacyTypeOK
    <3>3. LegacyRequestsBounded'
      BY <1>1, <3>1 DEF LegacyInduction, LegacyInv, LegacyRequestsBounded
    <3>4. WordsRestOnResults'
      BY <2>4 DEF WordsRestOnResults
    <3>5. QED
      BY <2>4, <3>2, <3>3, <3>4 DEF LegacyInduction, LegacyInv
  <2>5. QED
    BY <1>3, <2>3, <2>4 DEF AfterTool
<1>4. QED
  BY <1>2, <1>3 DEF RunTool

\* The older agents ask for a bounded number of replies, and take words for
\* an answer only after results.
THEOREM LegacyKept == LegacySpec => []LegacyInv
<1>1. LegacyInit => LegacyInduction
  <2>1. SUFFICES ASSUME LegacyInit PROVE LegacyInduction
    OBVIOUS
  <2>2. /\ agent \in {"loop", "roundtrip", "mock"} /\ stage = "ask" /\ wants = "record"
        /\ requests = 0 /\ ran = <<>>
    BY <2>1 DEF LegacyInit
  <2>3. LegacyTypeOK
    BY <2>2 DEF LegacyTypeOK, LegacyKinds
  <2>4. LegacyInv
    BY <2>2, RequestsAssumption DEF LegacyInv, LegacyRequestsBounded, WordsRestOnResults
  <2>5. QED
    BY <2>2, <2>3, <2>4 DEF LegacyInduction
<1>2. LegacyInduction /\ [LegacyNext]_legacyVars => LegacyInduction'
  <2>1. SUFFICES ASSUME LegacyInduction, [LegacyNext]_legacyVars PROVE LegacyInduction'
    OBVIOUS
  <2>2. CASE UNCHANGED legacyVars
    BY <2>1, <2>2 DEF legacyVars, LegacyInduction, LegacyTypeOK, LegacyInv, LegacyRequestsBounded,
                      WordsRestOnResults
  <2>3. QED
    BY <2>1, <2>2, AskAgentStep, GiveUpStep, RunToolStep DEF LegacyNext
<1>3. LegacyInduction => LegacyInv
  BY DEF LegacyInduction
<1>4. QED
  BY <1>1, <1>2, <1>3, PTL DEF LegacySpec

----------------------------------------------------------------------------
(* ModelAdmission: what a window of the quota lets pass.                   *)

LEMMA AttemptsType == AdmissionTypeOK => Attempts \in Nat /\ Attempts > 0
BY AdmissionAssumption DEF Attempts

\* One worker's turn moves on; whatever the others' numbers say stays true.
LEMMA TurnGoes ==
  ASSUME AdmissionInduction, NEW w \in Workers, UNCHANGED config,
         NEW row \in WorkerRecords, NEW told \in TelemetryRecords, NEW out \in Nat, NEW given \in Nat,
         worker' = [worker EXCEPT ![w] = row], telemetry' = [telemetry EXCEPT ![w] = told],
         sent' = [sent EXCEPT ![w] = out], admitted' = [admitted EXCEPT ![w] = given],
         TurnHolds(row, told, out, given),
         counter' \in [count : Nat, expires : BOOLEAN], granted' \in Nat,
         QuotaPerWindow', CounterExpires'
  PROVE  AdmissionInduction'
<1>1. /\ worker'[w] = row /\ telemetry'[w] = told /\ sent'[w] = out /\ admitted'[w] = given
      /\ \A v \in Workers \ {w} : /\ worker'[v] = worker[v] /\ telemetry'[v] = telemetry[v]
                                  /\ sent'[v] = sent[v] /\ admitted'[v] = admitted[v]
  BY DEF AdmissionInduction, AdmissionTypeOK
<1>2. AdmissionTypeOK'
  BY DEF AdmissionInduction, AdmissionTypeOK
<1>3. ASSUME NEW v \in Workers PROVE TurnHolds(worker'[v], telemetry'[v], sent'[v], admitted'[v])
  BY <1>1 DEF AdmissionInduction
<1>4. Attempts' = Attempts
  BY DEF Attempts
<1>5. \A v \in Workers : TurnHolds(worker[v], telemetry[v], sent[v], admitted[v])'
  BY <1>3, <1>4 DEF TurnHolds
<1>6. QED
  BY <1>2, <1>5 DEF AdmissionInduction

LEMMA CounterStays ==
  ASSUME AdmissionInduction, UNCHANGED <<counter, granted>>
  PROVE  /\ counter' \in [count : Nat, expires : BOOLEAN] /\ granted' \in Nat
         /\ QuotaPerWindow' /\ CounterExpires'
BY DEF AdmissionInduction, AdmissionTypeOK, QuotaPerWindow, CounterExpires

\* What is known of a worker.
LEMMA TurnIs ==
  ASSUME AdmissionInduction, NEW w \in Workers
  PROVE  /\ worker[w] \in WorkerRecords /\ telemetry[w] \in TelemetryRecords
         /\ sent[w] \in Nat /\ admitted[w] \in Nat
         /\ TurnHolds(worker[w], telemetry[w], sent[w], admitted[w])
         /\ telemetry = [telemetry EXCEPT ![w] = telemetry[w]]
         /\ sent = [sent EXCEPT ![w] = sent[w]] /\ admitted = [admitted EXCEPT ![w] = admitted[w]]
         /\ Attempts \in Nat /\ Attempts > 0
BY AttemptsType DEF AdmissionInduction, AdmissionTypeOK

LEMMA PlaceReached ==
  ASSUME AdmissionInduction, NEW w \in Workers, NEW place \in Over \cup {"prepare", "acquire", "send"},
         Goes(w, place)
  PROVE  \E row \in WorkerRecords : /\ row.at = place /\ row.attempt = worker[w].attempt
                                    /\ worker' = [worker EXCEPT ![w] = row]
<1>1. worker[w] \in WorkerRecords /\ worker \in [Workers -> WorkerRecords]
  BY DEF AdmissionInduction, AdmissionTypeOK
<1>2. PICK row : row = [worker[w] EXCEPT !.at = place]
  OBVIOUS
<1>3. row \in WorkerRecords /\ row.at = place /\ row.attempt = worker[w].attempt
  BY <1>1, <1>2 DEF WorkerRecords
<1>4. worker' = [worker EXCEPT ![w] = row]
  BY <1>1, <1>2 DEF Goes
<1>5. QED
  BY <1>3, <1>4

LEMMA CountsOne ==
  ASSUME AdmissionInduction, NEW w \in Workers, Counts(w)
  PROVE  \E told \in TelemetryRecords :
           /\ told.attempts = telemetry[w].attempts + 1
           /\ told.retries = telemetry[w].retries + (IF worker[w].attempt > 0 THEN 1 ELSE 0)
           /\ telemetry' = [telemetry EXCEPT ![w] = told]
<1>1. telemetry[w] \in TelemetryRecords /\ telemetry \in [Workers -> TelemetryRecords]
  BY DEF AdmissionInduction, AdmissionTypeOK
<1>2. PICK told : told = [attempts |-> telemetry[w].attempts + 1,
                          retries |-> telemetry[w].retries + (IF worker[w].attempt > 0 THEN 1 ELSE 0)]
  OBVIOUS
<1>3. /\ told \in TelemetryRecords /\ told.attempts = telemetry[w].attempts + 1
      /\ told.retries = telemetry[w].retries + (IF worker[w].attempt > 0 THEN 1 ELSE 0)
  BY <1>1, <1>2 DEF TelemetryRecords
<1>4. telemetry' = [telemetry EXCEPT ![w] = told]
  BY <1>1, <1>2 DEF Counts
<1>5. QED
  BY <1>3, <1>4

\* A turn begins, or its worker dies.
LEMMA FreshTurn ==
  ASSUME AdmissionInduction, NEW w \in Workers, NEW row \in WorkerRecords,
         row.at \in {"prepare", "idle"}, row.at = "prepare" => row.attempt = 0,
         worker' = [worker EXCEPT ![w] = row], telemetry' = [telemetry EXCEPT ![w] = NoTelemetry],
         sent' = [sent EXCEPT ![w] = 0], admitted' = [admitted EXCEPT ![w] = 0],
         UNCHANGED <<config, counter, granted>>
  PROVE  AdmissionInduction'
<1>1. NoTelemetry \in TelemetryRecords /\ NoTelemetry.attempts = 0 /\ NoTelemetry.retries = 0
  BY DEF NoTelemetry, TelemetryRecords
<1>2. TurnHolds(row, NoTelemetry, 0, 0)
  BY <1>1, TurnIs DEF TurnHolds, Over
<1>3. QED
  BY <1>1, <1>2, TurnGoes, CounterStays

LEMMA BeginTurnStep ==
  ASSUME AdmissionInduction, NEW w \in Workers, BeginTurn(w)
  PROVE  AdmissionInduction'
<1>1. PICK row \in WorkerRecords : row = [at |-> "prepare", attempt |-> 0]
  BY DEF WorkerRecords
<1>2. QED
  BY <1>1, FreshTurn DEF BeginTurn

LEMMA WorkerDiesStep ==
  ASSUME AdmissionInduction, NEW w \in Workers, WorkerDies(w)
  PROVE  AdmissionInduction'
<1>1. PICK row \in WorkerRecords : row.at = "idle" /\ worker' = [worker EXCEPT ![w] = row]
  BY PlaceReached DEF WorkerDies, Over
<1>2. QED
  BY <1>1, FreshTurn DEF WorkerDies

\* A turn that sends nothing goes on or fails.
LEMMA OnlyGoes ==
  ASSUME AdmissionInduction, NEW w \in Workers, worker[w].at \in {"prepare", "acquire"},
         NEW place \in {"acquire", "send", "failed"}, Goes(w, place),
         place = "send" => config.admission = "off",
         UNCHANGED <<config, telemetry, sent, admitted>>,
         counter' \in [count : Nat, expires : BOOLEAN], granted' \in Nat,
         QuotaPerWindow', CounterExpires'
  PROVE  AdmissionInduction'
<1>1. PICK row \in WorkerRecords : /\ row.at = place /\ row.attempt = worker[w].attempt
                                   /\ worker' = [worker EXCEPT ![w] = row]
  BY PlaceReached DEF Over
<1>2. TurnHolds(row, telemetry[w], sent[w], admitted[w])
  BY <1>1, TurnIs DEF TurnHolds, Over, TelemetryRecords, WorkerRecords
<1>3. /\ telemetry' = [telemetry EXCEPT ![w] = telemetry[w]] /\ sent' = [sent EXCEPT ![w] = sent[w]]
      /\ admitted' = [admitted EXCEPT ![w] = admitted[w]]
      /\ telemetry[w] \in TelemetryRecords /\ sent[w] \in Nat /\ admitted[w] \in Nat
  BY TurnIs
<1>4. PICK told \in TelemetryRecords, out \in Nat, given \in Nat :
        told = telemetry[w] /\ out = sent[w] /\ given = admitted[w]
  BY <1>3
<1>5. TurnHolds(row, told, out, given)
  BY <1>2, <1>4
<1>6. /\ telemetry' = [telemetry EXCEPT ![w] = told] /\ sent' = [sent EXCEPT ![w] = out]
      /\ admitted' = [admitted EXCEPT ![w] = given] /\ config' = config
  BY <1>3, <1>4
<1>7. QED
  BY <1>1, <1>5, <1>6, TurnGoes

LEMMA PrepareStep ==
  ASSUME AdmissionInduction, NEW w \in Workers, Prepare(w)
  PROVE  AdmissionInduction'
BY OnlyGoes, CounterStays DEF Prepare

LEMMA NoAdmissionStep ==
  ASSUME AdmissionInduction, NEW w \in Workers, NoAdmission(w)
  PROVE  AdmissionInduction'
BY OnlyGoes, CounterStays DEF NoAdmission

LEMMA UnconvertibleStep ==
  ASSUME AdmissionInduction, NEW w \in Workers, Unconvertible(w)
  PROVE  AdmissionInduction'
<1>1. PICK row \in WorkerRecords : row.at = "failed" /\ worker' = [worker EXCEPT ![w] = row]
  BY PlaceReached DEF Unconvertible, Over
<1>2. PICK told \in TelemetryRecords :
           /\ told.attempts = telemetry[w].attempts + 1
           /\ told.retries = telemetry[w].retries + (IF worker[w].attempt > 0 THEN 1 ELSE 0)
           /\ telemetry' = [telemetry EXCEPT ![w] = told]
  BY CountsOne DEF Unconvertible
<1>3. TurnHolds(row, told, sent[w], admitted[w])
  BY <1>1, <1>2, TurnIs DEF TurnHolds, Over, TelemetryRecords, WorkerRecords, Unconvertible
<1>4. QED
  BY <1>1, <1>2, <1>3, TurnIs, TurnGoes, CounterStays DEF Unconvertible

LEMMA AcquireStep ==
  ASSUME AdmissionInduction, NEW w \in Workers, Acquire(w)
  PROVE  AdmissionInduction'
<1>1. /\ counter \in [count : Nat, expires : BOOLEAN] /\ granted \in Nat
      /\ granted <= counter.count /\ counter.count <= Limit /\ Limit \in Nat
      /\ (counter.count > 0 => counter.expires)
  BY AdmissionAssumption DEF AdmissionInduction, AdmissionTypeOK, QuotaPerWindow, CounterExpires
<1>2. worker[w].at = "acquire" /\ UNCHANGED <<config, telemetry, sent>>
  BY DEF Acquire
<1>3. ASSUME Counted, Admits
      PROVE  /\ counter' \in [count : Nat, expires : BOOLEAN]
             /\ counter'.count = counter.count + 1 /\ counter'.count <= Limit /\ counter'.expires
  BY <1>1, <1>3 DEF Counted, Admits
<1>4. CASE /\ Admits /\ Counted /\ granted' = granted + 1
           /\ admitted' = [admitted EXCEPT ![w] = @ + 1] /\ Goes(w, "send")
  <2>1. PICK row \in WorkerRecords : /\ row.at = "send" /\ row.attempt = worker[w].attempt
                                     /\ worker' = [worker EXCEPT ![w] = row]
    BY <1>4, PlaceReached
  <2>2. TurnHolds(row, telemetry[w], sent[w], admitted[w] + 1)
    BY <1>2, <2>1, TurnIs DEF TurnHolds, Over, TelemetryRecords, WorkerRecords
  <2>3. admitted' = [admitted EXCEPT ![w] = admitted[w] + 1] /\ admitted[w] + 1 \in Nat
    BY <1>4, TurnIs
  <2>4. granted' \in Nat /\ QuotaPerWindow' /\ CounterExpires'
    BY <1>1, <1>3, <1>4 DEF QuotaPerWindow, CounterExpires
  <2>5. QED
    <3> DEFINE told == telemetry[w]
               out == sent[w]
               given == admitted[w] + 1
    <3>1. /\ worker' = [worker EXCEPT ![w] = row] /\ telemetry' = [telemetry EXCEPT ![w] = told]
          /\ sent' = [sent EXCEPT ![w] = out] /\ admitted' = [admitted EXCEPT ![w] = given]
          /\ told \in TelemetryRecords /\ out \in Nat /\ given \in Nat
      BY <1>2, <2>1, <2>3, TurnIs
    <3>2. counter' \in [count : Nat, expires : BOOLEAN] /\ UNCHANGED config
      BY <1>2, <1>3, <1>4
    <3>3. TurnHolds(row, told, out, given)
      BY <2>2
    <3> HIDE DEF told, out, given
    <3>4. QED
      BY <2>4, <3>1, <3>2, <3>3, TurnGoes
<1>5. CASE Admits /\ Counted /\ Goes(w, "failed") /\ UNCHANGED <<granted, admitted>>
  <2>1. granted' \in Nat /\ QuotaPerWindow' /\ CounterExpires'
    BY <1>1, <1>3, <1>5 DEF QuotaPerWindow, CounterExpires
  <2>2. QED
    BY <1>2, <1>3, <1>5, <2>1, OnlyGoes
<1>6. CASE /\ counter' = [counter EXCEPT !.expires = TRUE]
           /\ Goes(w, "failed") /\ UNCHANGED <<granted, admitted>>
  <2>1. /\ counter' \in [count : Nat, expires : BOOLEAN]
        /\ counter'.count = counter.count /\ counter'.expires
    BY <1>1, <1>6
  <2>2. granted' \in Nat /\ QuotaPerWindow' /\ CounterExpires'
    BY <1>1, <1>6, <2>1 DEF QuotaPerWindow, CounterExpires
  <2>3. QED
    BY <1>2, <1>6, <2>1, <2>2, OnlyGoes
<1>7. CASE Goes(w, "failed") /\ UNCHANGED <<counter, granted, admitted>>
  BY <1>2, <1>7, OnlyGoes, CounterStays
<1>8. QED
  BY <1>4, <1>5, <1>6, <1>7 DEF Acquire

LEMMA SendStep ==
  ASSUME AdmissionInduction, NEW w \in Workers, Send(w)
  PROVE  AdmissionInduction'
<1>1. worker[w].at = "send" /\ UNCHANGED <<config, counter, admitted, granted>>
      /\ sent' = [sent EXCEPT ![w] = sent[w] + 1] /\ sent[w] + 1 \in Nat
  BY TurnIs DEF Send
<1>2. PICK told \in TelemetryRecords :
           /\ told.attempts = telemetry[w].attempts + 1
           /\ told.retries = telemetry[w].retries + (IF worker[w].attempt > 0 THEN 1 ELSE 0)
           /\ telemetry' = [telemetry EXCEPT ![w] = told]
  BY CountsOne DEF Send
<1>3. PICK row \in WorkerRecords :
        /\ worker' = [worker EXCEPT ![w] = row]
        /\ \/ row.at \in {"answered", "failed"}
           \/ row.at = "prepare" /\ row.attempt = worker[w].attempt + 1
              /\ worker[w].attempt < Attempts - 1
  <2>1. CASE Goes(w, "answered") \/ Goes(w, "failed")
    BY <2>1, PlaceReached DEF Over
  <2>2. CASE NextAttempt(w) /\ worker[w].attempt < Attempts - 1
    <3>1. PICK row : row = [at |-> "prepare", attempt |-> worker[w].attempt + 1]
      OBVIOUS
    <3>2. row \in WorkerRecords /\ row.at = "prepare" /\ row.attempt = worker[w].attempt + 1
      BY <3>1, TurnIs DEF WorkerRecords
    <3>3. worker' = [worker EXCEPT ![w] = row]
      BY <2>2, <3>1 DEF NextAttempt, AdmissionInduction, AdmissionTypeOK
    <3>4. QED
      BY <2>2, <3>2, <3>3
  <2>3. QED
    BY <2>1, <2>2 DEF Send
<1>4. TurnHolds(row, told, sent[w] + 1, admitted[w])
  BY <1>1, <1>2, <1>3, TurnIs DEF TurnHolds, Over, TelemetryRecords, WorkerRecords
<1>5. QED
  BY <1>1, <1>2, <1>3, <1>4, TurnIs, TurnGoes, CounterStays

LEMMA WindowEndsStep ==
  ASSUME AdmissionInduction, WindowEnds
  PROVE  AdmissionInduction'
<1>1. /\ counter' = [count |-> 0, expires |-> FALSE] /\ granted' = 0
      /\ UNCHANGED <<config, worker, telemetry, sent, admitted>>
  BY DEF WindowEnds, NoCounter
<1>2. AdmissionTypeOK'
  BY <1>1 DEF AdmissionInduction, AdmissionTypeOK
<1>3. QuotaPerWindow' /\ CounterExpires'
  BY <1>1, AdmissionAssumption DEF QuotaPerWindow, CounterExpires
<1>4. \A w \in Workers : TurnHolds(worker[w], telemetry[w], sent[w], admitted[w])'
  BY <1>1 DEF AdmissionInduction, TurnHolds, Attempts
<1>5. QED
  BY <1>2, <1>3, <1>4 DEF AdmissionInduction

LEMMA AdmissionStart == AdmissionInit => AdmissionInduction
<1>1. SUFFICES ASSUME AdmissionInit PROVE AdmissionInduction
  OBVIOUS
<1>2. /\ NoCounter \in [count : Nat, expires : BOOLEAN] /\ NoCounter.count = 0
      /\ NoTelemetry \in TelemetryRecords /\ NoTelemetry.attempts = 0 /\ NoTelemetry.retries = 0
      /\ [at |-> "idle", attempt |-> 0] \in WorkerRecords
  BY DEF NoCounter, NoTelemetry, TelemetryRecords, WorkerRecords, Over
<1>3. AdmissionTypeOK
  BY <1>1, <1>2 DEF AdmissionInit, AdmissionTypeOK
<1>4. QuotaPerWindow /\ CounterExpires
  BY <1>1, <1>2, AdmissionAssumption DEF AdmissionInit, QuotaPerWindow, CounterExpires
<1>5. ASSUME NEW w \in Workers PROVE TurnHolds(worker[w], telemetry[w], sent[w], admitted[w])
  <2>1. worker[w].at = "idle" /\ telemetry[w] = NoTelemetry /\ sent[w] = 0 /\ admitted[w] = 0
    BY <1>1 DEF AdmissionInit
  <2>2. QED
    BY <1>2, <1>3, <2>1, AttemptsType DEF TurnHolds, Over
<1>6. QED
  BY <1>3, <1>4, <1>5 DEF AdmissionInduction

LEMMA AdmissionStep == AdmissionInduction /\ [AdmissionNext]_admissionVars => AdmissionInduction'
<1>1. CASE UNCHANGED admissionVars
  BY <1>1 DEF admissionVars, AdmissionInduction, AdmissionTypeOK, QuotaPerWindow, CounterExpires,
              TurnHolds, Attempts
<1>2. QED
  BY <1>1, BeginTurnStep, PrepareStep, UnconvertibleStep, AcquireStep, NoAdmissionStep, SendStep,
     WorkerDiesStep, WindowEndsStep DEF AdmissionNext

\* The inductive invariant.
THEOREM AdmissionInvariant == AdmissionSpec => []AdmissionInduction
BY AdmissionStart, AdmissionStep, PTL DEF AdmissionSpec

THEOREM QuotaKept == AdmissionSpec => []AdmissionInv
<1>1. AdmissionInduction => AdmissionInv
  BY DEF AdmissionInduction, AdmissionInv, TurnHolds, EveryAttemptAdmitted, TelemetryTrue
<1>2. QED
  BY <1>1, AdmissionInvariant, PTL

----------------------------------------------------------------------------
(* EvidenceGate: what a passage is admitted for.                           *)

Kinds == Subject \cup {"types"}

LEMMA StatementIs ==
  ASSUME NEW c \in Statements
  PROVE  /\ \A f \in Kinds : c[f] \in SUBSET Vocabulary(f)
         /\ c.done \in BOOLEAN
BY DEF Statements, Kinds, Subject

LEMMA RelevantIs ==
  ASSUME NEW c \in Statements, NEW q
  PROVE  /\ Relevant(q, c) \in Statements
         /\ \A f \in {"topics", "ids", "types"} : Relevant(q, c)[f] = c[f]
         /\ Relevant(q, c).labels = {l \in c.labels : l[1] \in q.topics}
         /\ Relevant(q, c).done = c.done
BY DEF Statements, Relevant

LEMMA MergedIs ==
  ASSUME NEW u \in Statements, NEW c \in Statements
  PROVE  /\ Merged(u, c) \in Statements
         /\ \A f \in Kinds : Merged(u, c)[f] = u[f] \cup c[f]
         /\ Merged(u, c).done = (u.done \/ c.done)
BY DEF Statements, Merged, Kinds, Subject

\* A clause more extends the units of the clauses before it: for any number
\* of clauses, for else there would be a least number without.
LEMMA ScopedIs ==
  ASSUME NEW q, NEW s \in Seq(Clauses)
  PROVE  \E units :
           /\ units[0] = <<>>
           /\ \A n \in 1 .. Len(s) : units[n] = Extended(units[n - 1], Relevant(q, s[n]))
           /\ Scoped(q, s) = units[Len(s)]
<1> DEFINE Rec(u, l) == u = [n \in 0 .. l |-> IF n = 0 THEN <<>>
                                             ELSE Extended(u[n - 1], Relevant(q, s[n]))]
           T == {l \in Nat : ~ \E u : Rec(u, l)}
<1>1. T = {}
  <2>1. SUFFICES ASSUME T # {} PROVE FALSE
    OBVIOUS
  <2>2. T \in SUBSET Nat
    OBVIOUS
  <2>3. \E l \in T : \A m \in T : l <= m
    <3> HIDE DEF T
    <3>1. QED
      BY <2>1, <2>2, LeastNumber
  <2>4. PICK l \in T : \A m \in T : l <= m
    BY <2>3
  <2>5. CASE l = 0
    <3> DEFINE u == [n \in 0 .. 0 |-> <<>>]
    <3>1. Rec(u, 0)
      OBVIOUS
    <3>2. QED
      BY <2>4, <2>5, <3>1
  <2>6. CASE l # 0
    <3>1. l \in Nat /\ l - 1 \in Nat /\ ~(l <= l - 1)
      BY <2>4, <2>6
    <3>2. l - 1 \notin T
      BY <2>4, <3>1
    <3>3. PICK u : Rec(u, l - 1)
      BY <3>1, <3>2
    <3> DEFINE v == [n \in 0 .. l |-> IF n = l THEN Extended(u[l - 1], Relevant(q, s[l])) ELSE u[n]]
    <3>4. \A n \in 0 .. l : v[n] = IF n = 0 THEN <<>> ELSE Extended(v[n - 1], Relevant(q, s[n]))
      <4>1. TAKE n \in 0 .. l
      <4>2. CASE n = l
        <5>1. v[n] = Extended(u[l - 1], Relevant(q, s[l])) /\ v[l - 1] = u[l - 1]
          BY <3>1, <4>2
        <5>2. QED
          BY <2>6, <4>2, <5>1
      <4>3. CASE n # l
        <5>1. n \in 0 .. l - 1 /\ v[n] = u[n]
          BY <3>1, <4>3
        <5>2. u[n] = IF n = 0 THEN <<>> ELSE Extended(u[n - 1], Relevant(q, s[n]))
          BY <3>3, <5>1
        <5>3. n # 0 => v[n - 1] = u[n - 1]
          BY <3>1, <5>1
        <5>4. QED
          BY <5>1, <5>2, <5>3
      <4>4. QED
        BY <4>2, <4>3
    <3>5. Rec(v, l)
      BY <3>4
    <3>6. QED
      BY <2>4, <3>5
  <2>7. QED
    BY <2>5, <2>6
<1>2. Len(s) \in Nat
  OBVIOUS
<1>3. \E u : Rec(u, Len(s))
  BY <1>1, <1>2
<1> DEFINE units == CHOOSE u : Rec(u, Len(s))
<1>4. Rec(units, Len(s))
  BY <1>3
<1>5. Scoped(q, s) = units[Len(s)]
  BY DEF Scoped
<1> HIDE DEF units
<1>6. units[0] = <<>>
  BY <1>2, <1>4
<1>7. \A n \in 1 .. Len(s) : units[n] = Extended(units[n - 1], Relevant(q, s[n]))
  BY <1>2, <1>4
<1>8. QED
  BY <1>5, <1>6, <1>7

\* The clauses a .. b of a sentence make up a unit: what they name of the
\* subject is what the unit names or nothing, and all of it comes from them.
Spans(q, s, unit, a, b) ==
  /\ \A i \in a .. b : \A f \in Subject : Relevant(q, s[i])[f] \in {{}, unit[f]}
  /\ \A f \in Subject : unit[f] # {} => \E i \in a .. b : Relevant(q, s[i])[f] = unit[f]
  /\ \A t \in unit.types : \E i \in a .. b : t \in s[i].types

\* The units of the first m clauses of a sentence.
UnitsUpTo(q, s, m, units) ==
  /\ units \in Seq(Statements)
  /\ m > 0 => units # <<>>
  /\ \A n \in DOMAIN units : \E a, b \in 1 .. m : Spans(q, s, units[n], a, b)
  /\ units # <<>> => \E a \in 1 .. m : Spans(q, s, units[Len(units)], a, m)
  /\ \A k \in 1 .. m : \E n \in DOMAIN units : \A f \in Kinds : Relevant(q, s[k])[f] \subseteq units[n][f]
  /\ \A n \in DOMAIN units : units[n].done => \E k \in 1 .. m : s[k].done

LEMMA SpansOne ==
  ASSUME NEW q, NEW s \in Seq(Clauses), NEW m \in DOMAIN s
  PROVE  Spans(q, s, Relevant(q, s[m]), m, m)
<1>1. m \in Int /\ s[m] \in Statements /\ \A i \in m .. m : i = m
  BY StatementsAssumption
<1>2. m \in m .. m
  BY <1>1
<1>3. Relevant(q, s[m]).types = s[m].types
  BY <1>1, RelevantIs
<1>4. QED
  BY <1>1, <1>2, <1>3 DEF Spans

LEMMA SpansMore ==
  ASSUME NEW q, NEW s \in Seq(Clauses), NEW m \in Nat, m + 1 \in DOMAIN s, NEW u \in Statements,
         NEW a \in 1 .. m, Spans(q, s, u, a, m), ~Changed(u, Relevant(q, s[m + 1]))
  PROVE  Spans(q, s, Merged(u, Relevant(q, s[m + 1])), a, m + 1)
<1> DEFINE c == Relevant(q, s[m + 1])
           w == Merged(u, c)
<1>1. s[m + 1] \in Statements /\ c \in Statements /\ c.types = s[m + 1].types
  BY StatementsAssumption, RelevantIs
<1>2. \A f \in Kinds : w[f] = u[f] \cup c[f]
  BY <1>1, MergedIs
<1>3. a .. m + 1 = (a .. m) \cup {m + 1} /\ m + 1 \in a .. m + 1
  OBVIOUS
<1>4. \A f \in Subject : u[f] = {} \/ c[f] = {} \/ u[f] = c[f]
  BY DEF Changed
<1>5. Subject \subseteq Kinds /\ "types" \in Kinds
  BY DEF Kinds
<1> HIDE DEF w, c
<1>6. ASSUME NEW f \in Subject
      PROVE  /\ \A i \in a .. m + 1 : Relevant(q, s[i])[f] \in {{}, w[f]}
             /\ w[f] # {} => \E i \in a .. m + 1 : Relevant(q, s[i])[f] = w[f]
  <2>1. w[f] = u[f] \cup c[f] /\ (u[f] = {} \/ c[f] = {} \/ u[f] = c[f])
    BY <1>2, <1>4, <1>5
  <2>2. /\ \A i \in a .. m : Relevant(q, s[i])[f] \in {{}, u[f]}
        /\ u[f] # {} => \E i \in a .. m : Relevant(q, s[i])[f] = u[f]
    BY DEF Spans
  <2>3. Relevant(q, s[m + 1])[f] = c[f]
    BY DEF c
  <2>4. CASE u[f] = {}
    <3>1. w[f] = c[f]
      BY <2>1, <2>4
    <3>2. QED
      BY <1>3, <2>2, <2>3, <2>4, <3>1
  <2>5. CASE u[f] # {}
    <3>1. w[f] = u[f] /\ c[f] \in {{}, u[f]}
      BY <2>1, <2>5
    <3>2. QED
      BY <1>3, <2>2, <2>3, <2>5, <3>1
  <2>6. QED
    BY <2>4, <2>5
<1>7. ASSUME NEW t \in w.types
      PROVE  \E i \in a .. m + 1 : t \in s[i].types
  <2>1. t \in u.types \/ t \in c.types
    BY <1>2, <1>5
  <2>2. t \in u.types => \E i \in a .. m : t \in s[i].types
    BY DEF Spans
  <2>3. QED
    BY <1>1, <1>3, <2>1, <2>2
<1>8. Spans(q, s, w, a, m + 1)
  BY <1>6, <1>7 DEF Spans
<1>9. QED
  BY <1>8 DEF w, c

\* The next clause opens a unit or goes into the last one.
LEMMA UnitsGrow ==
  ASSUME NEW q, NEW s \in Seq(Clauses), NEW m \in Nat, m + 1 \in DOMAIN s,
         NEW units, UnitsUpTo(q, s, m, units)
  PROVE  UnitsUpTo(q, s, m + 1, Extended(units, Relevant(q, s[m + 1])))
<1> DEFINE c == Relevant(q, s[m + 1])
           new == Extended(units, c)
           l == Len(units)
<1>1. s[m + 1] \in Statements /\ c \in Statements /\ c.done = s[m + 1].done
  BY StatementsAssumption, RelevantIs
<1>2. units \in Seq(Statements) /\ l \in Nat /\ DOMAIN units = 1 .. l
      /\ \A n \in 1 .. l : units[n] \in Statements
  <2>1. units \in Seq(Statements)
    BY DEF UnitsUpTo
  <2>2. QED
    BY <2>1
<1>3. 1 .. m + 1 = (1 .. m) \cup {m + 1} /\ m + 1 \in 1 .. m + 1 /\ m + 1 > 0
  OBVIOUS
<1>4. /\ \A n \in 1 .. l : \E a, b \in 1 .. m : Spans(q, s, units[n], a, b)
      /\ units # <<>> => \E a \in 1 .. m : Spans(q, s, units[l], a, m)
      /\ \A k \in 1 .. m : \E n \in 1 .. l : \A f \in Kinds : Relevant(q, s[k])[f] \subseteq units[n][f]
      /\ \A n \in 1 .. l : units[n].done => \E k \in 1 .. m : s[k].done
  BY <1>2 DEF UnitsUpTo
<1>5. CASE units = <<>> \/ Changed(Last(units), c)
  <2>1. new = Append(units, c)
    BY <1>5 DEF Extended
  <2>2. /\ new \in Seq(Statements) /\ Len(new) = l + 1 /\ DOMAIN new = 1 .. l + 1 /\ new # <<>>
        /\ \A n \in 1 .. l : new[n] = units[n]
        /\ new[l + 1] = c
    <3>1. c \in Statements /\ units \in Seq(Statements) /\ l = Len(units) /\ l \in Nat /\ new = Append(units, c)
      BY <1>1, <1>2, <2>1
    <3> HIDE DEF new, c, l
    <3>2. new \in Seq(Statements) /\ Len(new) = l + 1
      BY <3>1
    <3>3. DOMAIN new = 1 .. l + 1 /\ new # <<>>
      BY <3>1, <3>2
    <3>4. (\A n \in 1 .. l : new[n] = units[n]) /\ new[l + 1] = c
      BY <3>1
    <3>5. QED
      BY <3>2, <3>3, <3>4
  <2>3. 1 .. l + 1 = (1 .. l) \cup {l + 1} /\ l + 1 \in 1 .. l + 1
    BY <1>2
  <2>4. Spans(q, s, c, m + 1, m + 1)
    BY SpansOne
  <2> HIDE DEF new, c, l
  <2>5. \A n \in DOMAIN new : \E a, b \in 1 .. m + 1 : Spans(q, s, new[n], a, b)
    BY <1>3, <1>4, <2>2, <2>3, <2>4
  <2>6. \E a \in 1 .. m + 1 : Spans(q, s, new[Len(new)], a, m + 1)
    BY <1>3, <2>2, <2>4
  <2>7. \A k \in 1 .. m + 1 : \E n \in DOMAIN new : \A f \in Kinds : Relevant(q, s[k])[f] \subseteq new[n][f]
    <3>1. TAKE k \in 1 .. m + 1
    <3>2. CASE k \in 1 .. m
      BY <1>4, <2>2, <2>3, <3>2
    <3>3. CASE k = m + 1
      <4>1. \A f \in Kinds : Relevant(q, s[k])[f] \subseteq new[l + 1][f]
        BY <2>2, <3>3 DEF c
      <4>2. QED
        BY <2>2, <2>3, <4>1
    <3>4. QED
      BY <1>3, <3>2, <3>3
  <2>8. \A n \in DOMAIN new : new[n].done => \E k \in 1 .. m + 1 : s[k].done
    BY <1>1, <1>3, <1>4, <2>2, <2>3
  <2>9. UnitsUpTo(q, s, m + 1, new)
    BY <2>2, <2>5, <2>6, <2>7, <2>8 DEF UnitsUpTo
  <2>10. QED
    BY <2>9 DEF new, c
<1>6. CASE ~(units = <<>> \/ Changed(Last(units), c))
  <2>1. new = [units EXCEPT ![l] = Merged(units[l], c)]
    BY <1>6 DEF Extended
  <2>2. l \in 1 .. l
    BY <1>2, <1>6
  <2>3. units[l] \in Statements /\ Last(units) = units[l]
    BY <1>2, <2>2 DEF Last
  <2>4. /\ Merged(units[l], c) \in Statements
        /\ \A f \in Kinds : Merged(units[l], c)[f] = units[l][f] \cup c[f]
        /\ Merged(units[l], c).done = (units[l].done \/ c.done)
    BY <1>1, <2>3, MergedIs
  <2>5. PICK a \in 1 .. m : Spans(q, s, units[l], a, m)
    BY <1>4, <1>6
  <2>6. Spans(q, s, Merged(units[l], c), a, m + 1)
    BY <1>6, <2>3, <2>5, SpansMore
  <2> DEFINE w == Merged(units[l], c)
  <2> HIDE DEF w
  <2>7. new = [units EXCEPT ![l] = w] /\ w \in Statements
    BY <2>1, <2>4 DEF w
  <2>8. /\ new \in Seq(Statements) /\ Len(new) = l /\ DOMAIN new = 1 .. l /\ new # <<>>
        /\ \A n \in 1 .. l : n # l => new[n] = units[n]
        /\ new[l] = w
    BY <1>2, <1>6, <2>2, <2>7
  <2> HIDE DEF new, c, l
  <2>9. \A n \in DOMAIN new : \E x, y \in 1 .. m + 1 : Spans(q, s, new[n], x, y)
    <3>1. TAKE n \in DOMAIN new
    <3>2. CASE n = l
      <4>1. Spans(q, s, new[n], a, m + 1)
        BY <2>6, <2>8, <3>2 DEF w
      <4>2. QED
        BY <1>3, <4>1
    <3>3. CASE n # l
      <4>1. new[n] = units[n] /\ \E x, y \in 1 .. m : Spans(q, s, units[n], x, y)
        BY <1>4, <2>8, <3>3
      <4>2. QED
        BY <1>3, <4>1
    <3>4. QED
      BY <3>2, <3>3
  <2>10. \E x \in 1 .. m + 1 : Spans(q, s, new[Len(new)], x, m + 1)
    BY <1>3, <2>6, <2>8 DEF w
  <2>11. \A n \in 1 .. l : \A f \in Kinds : units[n][f] \subseteq new[n][f]
    BY <2>4, <2>8 DEF w
  <2>12. \A k \in 1 .. m + 1 : \E n \in DOMAIN new : \A f \in Kinds : Relevant(q, s[k])[f] \subseteq new[n][f]
    <3>1. TAKE k \in 1 .. m + 1
    <3>2. CASE k \in 1 .. m
      <4>1. PICK n \in 1 .. l : \A f \in Kinds : Relevant(q, s[k])[f] \subseteq units[n][f]
        BY <1>4, <3>2
      <4>2. \A f \in Kinds : Relevant(q, s[k])[f] \subseteq new[n][f]
        BY <2>11, <4>1
      <4>3. QED
        BY <2>8, <4>2
    <3>3. CASE k = m + 1
      <4>1. \A f \in Kinds : Relevant(q, s[k])[f] \subseteq new[l][f]
        BY <2>4, <2>8, <3>3 DEF w, c
      <4>2. QED
        BY <2>2, <2>8, <4>1
    <3>4. QED
      BY <1>3, <3>2, <3>3
  <2>13. \A n \in DOMAIN new : new[n].done => \E k \in 1 .. m + 1 : s[k].done
    <3>1. TAKE n \in DOMAIN new
    <3>2. new[n].done => units[n].done \/ (n = l /\ c.done)
      BY <2>4, <2>8 DEF w
    <3>3. QED
      BY <1>1, <1>3, <1>4, <2>8, <3>2
  <2>14. UnitsUpTo(q, s, m + 1, new)
    BY <2>8, <2>9, <2>10, <2>12, <2>13 DEF UnitsUpTo
  <2>15. QED
    BY <2>14 DEF new, c
<1>7. QED
  BY <1>5, <1>6

LEMMA ScopedUnits ==
  ASSUME NEW q, NEW s \in Seq(Clauses)
  PROVE  UnitsUpTo(q, s, Len(s), Scoped(q, s))
<1>1. PICK units :
        /\ units[0] = <<>>
        /\ \A n \in 1 .. Len(s) : units[n] = Extended(units[n - 1], Relevant(q, s[n]))
        /\ Scoped(q, s) = units[Len(s)]
  BY ScopedIs
<1> DEFINE T == {m \in 0 .. Len(s) : ~UnitsUpTo(q, s, m, units[m])}
<1>2. T = {}
  <2>1. SUFFICES ASSUME T # {} PROVE FALSE
    OBVIOUS
  <2>2. T \in SUBSET Nat
    OBVIOUS
  <2>3. \E m \in T : \A n \in T : m <= n
    <3> HIDE DEF T
    <3>1. QED
      BY <2>1, <2>2, LeastNumber
  <2>4. PICK m \in T : \A n \in T : m <= n
    BY <2>3
  <2>5. m # 0
    <3>1. UnitsUpTo(q, s, 0, <<>>)
      BY DEF UnitsUpTo
    <3>2. QED
      BY <1>1, <2>4, <3>1
  <2>6. m \in 1 .. Len(s) /\ m - 1 \in Nat /\ ~(m <= m - 1) /\ m - 1 \in 0 .. Len(s) /\ (m - 1) + 1 = m
    BY <2>4, <2>5
  <2>7. UnitsUpTo(q, s, m - 1, units[m - 1])
    BY <2>4, <2>6
  <2>8. (m - 1) + 1 \in DOMAIN s
    BY <2>6
  <2>9. UnitsUpTo(q, s, (m - 1) + 1, Extended(units[m - 1], Relevant(q, s[(m - 1) + 1])))
    BY <2>6, <2>7, <2>8, UnitsGrow
  <2>10. UnitsUpTo(q, s, m, units[m])
    BY <1>1, <2>6, <2>9
  <2>11. QED
    BY <2>4, <2>10
<1>3. Len(s) \in 0 .. Len(s)
  OBVIOUS
<1>4. QED
  BY <1>1, <1>2, <1>3

\* The units of a passage are the units of its sentences.
LEMMA UnitsAre ==
  ASSUME NEW q, NEW passage \in Seq(Seq(Clauses))
  PROVE  /\ \A u : (u \in Units(q, passage)) <=>
              \E n \in DOMAIN passage : \E k \in DOMAIN Scoped(q, passage[n]) : u = Scoped(q, passage[n])[k]
         /\ \A n \in DOMAIN passage : /\ passage[n] \in Seq(Clauses)
                                      /\ UnitsUpTo(q, passage[n], Len(passage[n]), Scoped(q, passage[n]))
<1>1. \A n \in DOMAIN passage : passage[n] \in Seq(Clauses)
  OBVIOUS
<1>2. \A n \in DOMAIN passage : UnitsUpTo(q, passage[n], Len(passage[n]), Scoped(q, passage[n]))
  BY <1>1, ScopedUnits
<1>3. QED
  BY SMTT(30), <1>1, <1>2 DEF Units, ToSet

LEMMA UnitsOfStatements ==
  ASSUME NEW q, NEW passage \in Seq(Seq(Clauses)), NEW u \in Units(q, passage)
  PROVE  u \in Statements
<1>1. PICK n \in DOMAIN passage : \E k \in DOMAIN Scoped(q, passage[n]) : u = Scoped(q, passage[n])[k]
  BY UnitsAre
<1>2. Scoped(q, passage[n]) \in Seq(Statements)
  BY UnitsAre DEF UnitsUpTo
<1>3. QED
  BY <1>1, <1>2

----------------------------------------------------------------------------
\* A unit with all the grades asked for is of the grade asked for, and has
\* them all if it is.
LEMMA QualifierIs ==
  ASSUME NEW q \in PolicyQuestions, NEW u
  PROVE  /\ Qualifier(q, u) = "match" => q.labels \subseteq u.labels
         /\ q.labels \subseteq u.labels => Qualifier(q, u) = "match"
<1> DEFINE open == {t \in q.topics : ~ Grades(q.labels, t) \subseteq Grades(u.labels, t)}
<1>1. Qualifier(q, u) = "match" <=> open = {}
  BY DEF Qualifier
<1>2. ASSUME open = {}, NEW l \in q.labels PROVE l \in u.labels
  <2>1. l[1] \in q.topics
    BY StatementsAssumption
  <2>2. Grades(q.labels, l[1]) \subseteq Grades(u.labels, l[1])
    BY <1>2, <2>1
  <2>3. QED
    BY <2>2 DEF Grades
<1>3. q.labels \subseteq u.labels => open = {}
  BY DEF Grades
<1>4. QED
  BY <1>1, <1>2, <1>3

\* What a unit of the question names, the question being of it.
LEMMA OwnNames ==
  ASSUME NEW q \in PolicyQuestions, NEW u, Fit(q, u) = "own"
  PROVE  \A f \in Subject : q[f] \subseteq u[f]
<1>1. q.topics \subseteq u.topics
  BY DEF Fit
<1>2. q.ids \subseteq u.ids
  BY <1>1 DEF Fit
<1>3. Qualifier(q, u) = "match"
  <2>1. Qualifier(q, u) \in {"match", "uncertain", "conflict"}
    BY DEF Qualifier
  <2>2. QED
    BY <1>1, <1>2, <2>1 DEF Fit
<1>4. QED
  BY <1>1, <1>2, <1>3, QualifierIs DEF Subject

\* A unit that names all that is asked about is never about something else.
LEMMA NamesEnough ==
  ASSUME NEW q \in PolicyQuestions, NEW u, \A f \in Subject : q[f] \subseteq u[f]
  PROVE  Fit(q, u) \in {"own", "unclear"}
<1>1. q.topics \subseteq u.topics /\ q.ids \subseteq u.ids /\ q.labels \subseteq u.labels
  BY DEF Subject
<1>2. Qualifier(q, u) = "match"
  BY <1>1, QualifierIs
<1>3. QED
  BY <1>1, <1>2 DEF Fit

\* A fact of the unit comes from one of its clauses, and that clause is about
\* what the unit names.
LEMMA UnitsTell ==
  ASSUME NEW q \in PolicyQuestions, NEW s \in Seq(Clauses), NEW u \in Statements,
         NEW a \in 1 .. Len(s), NEW b \in 1 .. Len(s), Spans(q, s, u, a, b),
         Fit(q, u) = "own", NEW fact \in u.types
  PROVE  \E k \in DOMAIN s : fact \in s[k].types /\ About(q, s, k)
<1>1. PICK k \in a .. b : fact \in s[k].types
  BY DEF Spans
<1>2. DOMAIN s = 1 .. Len(s) /\ a .. b \subseteq DOMAIN s
  OBVIOUS
<1>3. ASSUME NEW f \in Subject, q[f] # {}
      PROVE  \E j \in DOMAIN s :
               LET named == Relevant(q, s[j])[f]
               IN  /\ q[f] \subseteq named
                   /\ \A i \in DOMAIN s : i \in k .. j \cup j .. k => Relevant(q, s[i])[f] \in {{}, named}
  <2>1. q[f] \subseteq u[f]
    BY OwnNames
  <2>2. PICK j \in a .. b : Relevant(q, s[j])[f] = u[f]
    BY <1>3, <2>1 DEF Spans
  <2>3. \A i \in k .. j \cup j .. k : i \in a .. b
    BY <1>2
  <2>4. \A i \in k .. j \cup j .. k : Relevant(q, s[i])[f] \in {{}, u[f]}
    BY <2>3 DEF Spans
  <2>5. QED
    BY <1>2, <2>1, <2>2, <2>4
<1>4. About(q, s, k)
  BY <1>3 DEF About
<1>5. QED
  BY <1>1, <1>2, <1>4

\* When a passage is admitted.
LEMMA AdmittedWhen ==
  ASSUME NEW q, NEW passage
  PROVE  Assess(q, passage) = "admit" <=>
           /\ ~(q.topics = {} /\ q.ids = {}) /\ q.ids \subseteq Identifiers(passage) /\ q.types # {}
           /\ \E u \in Units(q, passage) : Fit(q, u) = "own"
           /\ \/ \A t \in q.types : \E u \in Units(q, passage) : Fit(q, u) = "own" /\ t \in Provided(u)
              \/ /\ q.types = {"overview"}
                 /\ \E u \in Units(q, passage) : Fit(q, u) = "own" /\ Provided(u) # {}
<1> DEFINE own == {u \in Units(q, passage) : Fit(q, u) = "own"}
           unclear == \E u \in Units(q, passage) : Fit(q, u) = "unclear"
           provided == UNION {Provided(u) : u \in own}
<1>1. /\ own # {} <=> \E u \in Units(q, passage) : Fit(q, u) = "own"
      /\ q.types \subseteq provided
           <=> \A t \in q.types : \E u \in Units(q, passage) : Fit(q, u) = "own" /\ t \in Provided(u)
      /\ provided # {} <=> \E u \in Units(q, passage) : Fit(q, u) = "own" /\ Provided(u) # {}
  OBVIOUS
<1>2. Assess(q, passage) =
        IF q.topics = {} /\ q.ids = {} THEN "uncertain"
        ELSE IF ~ q.ids \subseteq Identifiers(passage) THEN "reject"
        ELSE IF q.types = {} THEN "uncertain"
        ELSE IF own # {} /\ (q.types \subseteq provided \/ (q.types = {"overview"} /\ provided # {}))
          THEN "admit"
        ELSE IF ~unclear /\ (own = {} \/ (provided # {} /\ q.types \cap provided = {})) THEN "reject"
        ELSE "uncertain"
  BY DEF Assess
<1> HIDE DEF own, unclear, provided
<1>3. QED
  BY <1>1, <1>2

\* When it is rejected.
LEMMA RejectedWhen ==
  ASSUME NEW q, NEW passage, Assess(q, passage) = "reject", q.ids \subseteq Identifiers(passage)
  PROVE  /\ \A u \in Units(q, passage) : Fit(q, u) # "unclear"
         /\ \A u \in Units(q, passage) : Fit(q, u) = "own" =>  q.types \cap Provided(u) = {}
<1> DEFINE own == {u \in Units(q, passage) : Fit(q, u) = "own"}
           unclear == \E u \in Units(q, passage) : Fit(q, u) = "unclear"
           provided == UNION {Provided(u) : u \in own}
<1>1. \A u \in Units(q, passage) : Fit(q, u) = "own" => own # {} /\ Provided(u) \subseteq provided
  OBVIOUS
<1>2. Assess(q, passage) =
        IF q.topics = {} /\ q.ids = {} THEN "uncertain"
        ELSE IF ~ q.ids \subseteq Identifiers(passage) THEN "reject"
        ELSE IF q.types = {} THEN "uncertain"
        ELSE IF own # {} /\ (q.types \subseteq provided \/ (q.types = {"overview"} /\ provided # {}))
          THEN "admit"
        ELSE IF ~unclear /\ (own = {} \/ (provided # {} /\ q.types \cap provided = {})) THEN "reject"
        ELSE "uncertain"
  BY DEF Assess
<1>3. ~unclear
  <2> HIDE DEF own, unclear, provided
  <2>1. QED
    BY <1>2
<1>4. own = {} \/ q.types \cap provided = {}
  <2> HIDE DEF own, unclear, provided
  <2>1. QED
    BY <1>2
<1>5. \A u \in Units(q, passage) : Fit(q, u) = "own" =>  q.types \cap Provided(u) = {}
  <2> HIDE DEF own, unclear, provided
  <2>1. QED
    BY <1>1, <1>4
<1>6. QED
  BY <1>3, <1>5

\* What is admitted answers, each fact from a clause about the question.
LEMMA BorrowsNothing ==
  ASSUME NEW q \in PolicyQuestions, NEW passage \in Seq(Seq(Clauses)),
         Assess(q, passage) = "admit", NEW fact \in Facts(q)
  PROVE  \E n \in DOMAIN passage : \E k \in DOMAIN passage[n] :
           fact \in passage[n][k].types /\ About(q, passage[n], k)
<1>1. fact \in q.types /\ q.types # {"overview"}
  BY DEF Facts
<1>2. PICK u \in Units(q, passage) : Fit(q, u) = "own" /\ fact \in Provided(u)
  BY <1>1, AdmittedWhen
<1>3. fact \in u.types
  BY <1>2 DEF Provided
<1>4. PICK n \in DOMAIN passage : \E i \in DOMAIN Scoped(q, passage[n]) : u = Scoped(q, passage[n])[i]
  BY UnitsAre
<1>5. PICK i \in DOMAIN Scoped(q, passage[n]) : u = Scoped(q, passage[n])[i]
  BY <1>4
<1>6. passage[n] \in Seq(Clauses) /\ UnitsUpTo(q, passage[n], Len(passage[n]), Scoped(q, passage[n]))
  BY UnitsAre
<1>7. \E a, b \in 1 .. Len(passage[n]) : Spans(q, passage[n], u, a, b)
  BY <1>5, <1>6 DEF UnitsUpTo
<1>8. u \in Statements
  BY UnitsOfStatements
<1>9. \E k \in DOMAIN passage[n] : fact \in passage[n][k].types /\ About(q, passage[n], k)
  BY <1>2, <1>3, <1>6, <1>7, <1>8, UnitsTell
<1>10. QED
  BY <1>9

\* What answers is in a unit that names all the clause does.
LEMMA AnswerKept ==
  ASSUME NEW q \in PolicyQuestions, NEW passage \in Seq(Seq(Clauses)),
         NEW n \in DOMAIN passage, NEW k \in DOMAIN passage[n],
         \A f \in Subject : q[f] \subseteq passage[n][k][f],
         q.types \cap passage[n][k].types # {},
         \A i \in DOMAIN passage[n] : ~passage[n][i].done
  PROVE  Assess(q, passage) # "reject"
<1> DEFINE s == passage[n]
           c == s[k]
<1>1. s \in Seq(Clauses) /\ UnitsUpTo(q, s, Len(s), Scoped(q, s)) /\ k \in 1 .. Len(s) /\ c \in Clauses
  <2>1. s \in Seq(Clauses)
    OBVIOUS
  <2>2. k \in 1 .. Len(s) /\ c \in Clauses
    BY <2>1
  <2>3. QED
    BY <2>1, <2>2, ScopedUnits
<1>2. c \in Statements
  BY <1>1, StatementsAssumption
<1>3. PICK i \in DOMAIN Scoped(q, s) : \A f \in Kinds : Relevant(q, c)[f] \subseteq Scoped(q, s)[i][f]
  BY <1>1 DEF UnitsUpTo
<1> DEFINE u == Scoped(q, s)[i]
<1>4. u \in Units(q, passage) /\ u \in Statements
  <2>1. u \in Units(q, passage)
    BY UnitsAre
  <2>2. QED
    BY <2>1, UnitsOfStatements
<1>5. ~u.done
  <2>1. u.done => \E j \in 1 .. Len(s) : s[j].done
    BY <1>1 DEF UnitsUpTo
  <2>2. DOMAIN s = 1 .. Len(s)
    BY <1>1
  <2>3. QED
    BY <2>1, <2>2
<1> HIDE DEF u
<1>6. \A f \in Kinds : Relevant(q, c)[f] \subseteq u[f]
  BY <1>3 DEF u
<1>7. c.types \subseteq u.types
  BY <1>2, <1>6, RelevantIs DEF Kinds
<1>8. \A f \in Subject : q[f] \subseteq u[f]
  <2>1. q.topics \subseteq Relevant(q, c).topics /\ q.ids \subseteq Relevant(q, c).ids
    BY <1>2, RelevantIs DEF Subject
  <2>2. q.labels \subseteq Relevant(q, c).labels
    <3>1. q.labels \subseteq c.labels /\ \A l \in q.labels : l[1] \in q.topics
      BY StatementsAssumption DEF Subject
    <3>2. QED
      BY <1>2, <3>1, RelevantIs
  <2>3. QED
    BY <1>6, <2>1, <2>2 DEF Subject, Kinds
<1>9. q.ids \subseteq Identifiers(passage)
  <2>1. q.ids \subseteq c.ids
    BY DEF Subject
  <2>2. c.ids \subseteq Identifiers(passage)
    <3>1. s \in ToSet(passage) /\ c \in ToSet(s)
      BY <1>1 DEF ToSet
    <3>2. c \in UNION {ToSet(t) : t \in ToSet(passage)}
      BY <3>1
    <3>3. QED
      BY <3>2 DEF Identifiers
  <2>3. QED
    BY <2>1, <2>2
<1>10. Fit(q, u) \in {"own", "unclear"}
  BY <1>8, NamesEnough
<1>11. q.types \cap Provided(u) # {}
  BY <1>5, <1>7 DEF Provided
<1>12. QED
  BY <1>4, <1>9, <1>10, <1>11, RejectedWhen

\* The first sentences of a passage.
LEMMA FirstSentences ==
  ASSUME NEW q, NEW passage \in Seq(Seq(Clauses)), NEW n \in DOMAIN passage
  PROVE  /\ Units(q, SubSeq(passage, 1, n)) \subseteq Units(q, passage)
         /\ Identifiers(SubSeq(passage, 1, n)) \subseteq Identifiers(passage)
<1> DEFINE first == SubSeq(passage, 1, n)
<1>1. n \in 1 .. Len(passage) /\ DOMAIN first = 1 .. n /\ \A i \in 1 .. n : first[i] = passage[i]
  OBVIOUS
<1>2. 1 .. n \subseteq DOMAIN passage
  OBVIOUS
<1> HIDE DEF first
<1>3. ToSet(first) \subseteq ToSet(passage)
  BY <1>1, <1>2 DEF ToSet
<1>4. Units(q, first) \subseteq Units(q, passage) /\ Identifiers(first) \subseteq Identifiers(passage)
  BY <1>3 DEF Units, Identifiers
<1>5. QED
  BY <1>4 DEF first

LEMMA AdmittedStays ==
  ASSUME NEW q, NEW passage \in Seq(Seq(Clauses)), NEW n \in DOMAIN passage,
         Assess(q, SubSeq(passage, 1, n)) = "admit"
  PROVE  Assess(q, passage) = "admit"
<1> DEFINE first == SubSeq(passage, 1, n)
<1>1. Units(q, first) \subseteq Units(q, passage) /\ Identifiers(first) \subseteq Identifiers(passage)
  BY FirstSentences
<1>2. Assess(q, first) = "admit"
  OBVIOUS
<1> HIDE DEF first
<1>3. QED
  BY <1>1, <1>2, AdmittedWhen

\* A question, and a passage of sentences of clauses.
GateIInv ==
  /\ sought = Blank \/ sought \in PolicyQuestions
  /\ text \in Seq(Seq(Clauses))

LEMMA WriteInv ==
  ASSUME GateIInv, Write
  PROVE  GateIInv'
<1>1. sought' = sought /\ sought \in PolicyQuestions /\ text \in Seq(Seq(Clauses))
  BY DEF GateIInv, Write
<1>2. PICK c \in Clauses :
        \/ text' = Append(text, <<c>>)
        \/ text # <<>> /\ text' = [text EXCEPT ![Len(text)] = Append(@, c)]
  BY DEF Write
<1>3. CASE text' = Append(text, <<c>>)
  <2>1. <<c>> \in Seq(Clauses)
    OBVIOUS
  <2>2. QED
    BY <1>1, <1>3, <2>1 DEF GateIInv
<1>4. CASE text # <<>> /\ text' = [text EXCEPT ![Len(text)] = Append(@, c)]
  <2>1. Len(text) \in DOMAIN text /\ text[Len(text)] \in Seq(Clauses)
    BY <1>1, <1>4
  <2>2. Append(text[Len(text)], c) \in Seq(Clauses)
    BY <2>1
  <2>3. text' \in Seq(Seq(Clauses))
    BY <1>1, <1>4, <2>1, <2>2
  <2>4. QED
    BY <1>1, <2>3 DEF GateIInv
<1>5. QED
  BY <1>2, <1>3, <1>4

LEMMA GateHere ==
  ASSUME GateIInv
  PROVE  GateInv
<1>1. CASE sought = Blank
  BY <1>1 DEF GateInv, NothingBorrowed, NoAnswerRejected, MoreTextNeverHurts
<1>2. CASE sought # Blank
  <2>1. sought \in PolicyQuestions /\ text \in Seq(Seq(Clauses))
    BY <1>2 DEF GateIInv
  <2>2. NothingBorrowed
    BY <2>1, BorrowsNothing DEF NothingBorrowed
  <2>3. NoAnswerRejected
    BY <2>1, AnswerKept DEF NoAnswerRejected
  <2>4. MoreTextNeverHurts
    BY <2>1, AdmittedStays DEF MoreTextNeverHurts
  <2>5. QED
    BY <2>2, <2>3, <2>4 DEF GateInv
<1>3. QED
  BY <1>1, <1>2

\* The rules for evidence admit a passage only for facts it states about the
\* topic, the identifier and the grade of the question, leave what answers to
\* the reviewer at least, and take nothing back for more text: for passages
\* of any length, over any topics, identifiers and grades.
THEOREM EvidenceIsOfTheQuestion == GateSpec => []GateInv
<1>1. GateInit => GateIInv
  BY DEF GateInit, GateIInv
<1>2. GateIInv /\ [GateNext]_gateVars => GateIInv'
  <2>1. ASSUME GateIInv, Ask PROVE GateIInv'
    BY <2>1 DEF Ask, GateIInv
  <2>2. ASSUME GateIInv, UNCHANGED gateVars PROVE GateIInv'
    BY <2>2 DEF GateIInv, gateVars
  <2>3. QED
    BY <2>1, <2>2, WriteInv DEF GateNext
<1>3. GateIInv => GateInv
  BY GateHere
<1>4. QED
  BY <1>1, <1>2, <1>3, PTL DEF GateSpec

----------------------------------------------------------------------------
(* EvidenceReview: what is sent to a reviewer and quoted from it.          *)

LEMMA ReviewNumbers ==
  /\ ReviewAttempts \in Nat /\ 1 <= ReviewAttempts /\ 1 \in 1 .. MaxLimit
  /\ \A n, h, b \in Nat : n <= b - h => h + n <= b
  /\ \A n \in Nat : n <= 1 => n + 1 <= 2
BY ReviewAssumption

LEMMA MovesTo ==
  ASSUME CitedTypeOK, NEW place \in Stages, Moves(place)
  PROVE  \E row \in [at : Stages, correction : BOOLEAN, http : Nat, retries : Nat, sent : Nat] :
           /\ exchange' = row /\ row.at = place /\ row.correction = exchange.correction
           /\ row.http = exchange.http /\ row.retries = exchange.retries /\ row.sent = exchange.sent
<1>1. exchange \in [at : Stages, correction : BOOLEAN, http : Nat, retries : Nat, sent : Nat]
  BY DEF CitedTypeOK
<1>2. exchange' = [exchange EXCEPT !.at = place]
  BY DEF Moves
<1>3. QED
  BY <1>1, <1>2

\* What the model replied changes, or the review goes on, and nothing is sent.
LEMMA NothingSent ==
  ASSUME CitedInduction, NEW place \in Stages \ {"answered", "idle", "sorted"}, Moves(place),
         exchange.at # "answered", UNCHANGED <<policy, verdict, cited>>,
         place = "request" => exchange.at = "sorted",
         place \in {"parse", "correct"} => exchange.at = "parse"
  PROVE  CitedInduction'
<1>1. PICK row \in [at : Stages, correction : BOOLEAN, http : Nat, retries : Nat, sent : Nat] :
        /\ exchange' = row /\ row.at = place /\ row.correction = exchange.correction
        /\ row.http = exchange.http /\ row.retries = exchange.retries /\ row.sent = exchange.sent
  BY MovesTo DEF CitedInduction
<1>2. CitedTypeOK'
  BY <1>1 DEF CitedInduction, CitedTypeOK
<1>3. cited' = NoAnswer /\ NoAnswer.passages = {}
  BY DEF CitedInduction, NoAnswer
<1>4. LiveAnswersReviewed'
  BY <1>3 DEF LiveAnswersReviewed
<1>5. Spent'
  <2>1. /\ exchange'.sent = exchange.sent /\ exchange'.http = exchange.http
        /\ exchange'.retries = exchange.retries /\ exchange'.correction = exchange.correction
        /\ exchange'.at = place /\ exchange.sent \in Nat
    BY <1>1 DEF CitedInduction, CitedTypeOK
  <2>2. /\ exchange.sent = exchange.http
        /\ exchange.retries = IF exchange.sent = 0 THEN 0 ELSE exchange.sent - 1
        /\ exchange.correction => exchange.sent > 0
        /\ exchange.sent <= ReviewAttempts
    BY DEF CitedInduction, Spent
  <2>3. place = "request" => exchange.sent = 0 /\ ~exchange.correction
    BY DEF CitedInduction, Spent
  <2>4. place \in {"parse", "correct"} => exchange.sent > 0
    BY DEF CitedInduction, Spent
  <2>5. policy.provider = "ollama" =>
          exchange.sent <= IF exchange.correction /\ place # "request" THEN 2 ELSE 1
    BY <2>1, <2>3 DEF CitedInduction, Spent
  <2>6. QED
    BY <2>1, <2>2, <2>3, <2>4, <2>5, ReviewNumbers DEF Spent
<1>6. QED
  BY <1>2, <1>3, <1>4, <1>5 DEF CitedInduction

\* The review ends with an answer that is true of the reply.
LEMMA Answers ==
  ASSUME CitedInduction, Moves("answered"), UNCHANGED <<policy, verdict>>, LiveAnswersReviewed'
  PROVE  CitedInduction'
<1>1. PICK row \in [at : Stages, correction : BOOLEAN, http : Nat, retries : Nat, sent : Nat] :
        /\ exchange' = row /\ row.at = "answered" /\ row.correction = exchange.correction
        /\ row.http = exchange.http /\ row.retries = exchange.retries /\ row.sent = exchange.sent
  BY MovesTo DEF CitedInduction, Stages
<1>2. CitedTypeOK'
  BY <1>1 DEF CitedInduction, CitedTypeOK
<1>3. Spent'
  <2>1. /\ exchange'.sent = exchange.sent /\ exchange'.http = exchange.http
        /\ exchange'.retries = exchange.retries /\ exchange'.correction = exchange.correction
        /\ exchange'.at = "answered" /\ exchange.sent \in Nat
    BY <1>1 DEF CitedInduction, CitedTypeOK
  <2>2. /\ exchange.sent = exchange.http
        /\ exchange.retries = IF exchange.sent = 0 THEN 0 ELSE exchange.sent - 1
        /\ exchange.correction => exchange.sent > 0
        /\ exchange.sent <= ReviewAttempts
    BY DEF CitedInduction, Spent
  <2>3. policy.provider = "ollama" => exchange.sent <= IF exchange.correction THEN 2 ELSE 1
    BY <2>1 DEF CitedInduction, Spent
  <2>4. QED
    BY <2>1, <2>2, <2>3 DEF Spent
<1>4. QED
  BY <1>1, <1>2, <1>3 DEF CitedInduction

LEMMA AskPolicyStep ==
  ASSUME CitedInduction, AskPolicy
  PROVE  CitedInduction'
<1>1. /\ exchange.at = "idle" /\ Moves("sorted") /\ UNCHANGED <<reply, cited>>
      /\ policy' \in [mode : {"mock", "live"}, provider : {"ollama", "cloud"}, limit : 1 .. MaxLimit]
      /\ verdict' \in [Passages -> {"admit", "uncertain", "reject"}]
  BY DEF AskPolicy
<1>2. PICK row \in [at : Stages, correction : BOOLEAN, http : Nat, retries : Nat, sent : Nat] :
        /\ exchange' = row /\ row.at = "sorted" /\ row.correction = exchange.correction
        /\ row.http = exchange.http /\ row.retries = exchange.retries /\ row.sent = exchange.sent
  BY <1>1, MovesTo DEF CitedInduction, Stages
<1>3. exchange.sent = 0 /\ exchange.http = 0 /\ exchange.retries = 0 /\ ~exchange.correction
  BY <1>1 DEF CitedInduction, Spent
<1>4. Spent'
  BY <1>2, <1>3, ReviewNumbers DEF Spent
<1>5. cited' = NoAnswer /\ NoAnswer.passages = {}
  BY <1>1 DEF CitedInduction, NoAnswer
<1>6. QED
  BY <1>1, <1>2, <1>4, <1>5 DEF CitedInduction, CitedTypeOK, LiveAnswersReviewed

LEMMA SortStep ==
  ASSUME CitedInduction, Sort
  PROVE  CitedInduction'
<1>1. exchange.at = "sorted" /\ UNCHANGED <<policy, verdict, reply>>
  BY DEF Sort
<1>2. CASE policy.mode = "mock" \/ Reviewable = {}
  <2>1. cited' = [passages |-> FirstOf(Sorted({"admit"})), reviewed |-> FALSE] /\ Moves("answered")
    BY <1>2 DEF Sort
  <2>2. Reviewable = {} => FirstOf(Sorted({"admit"})) = {}
    BY DEF Reviewable, Sorted, FirstOf
  <2>3. LiveAnswersReviewed'
    BY <1>1, <1>2, <2>1, <2>2 DEF LiveAnswersReviewed
  <2>4. QED
    BY <1>1, <2>1, <2>3, Answers
<1>3. CASE ~(policy.mode = "mock" \/ Reviewable = {})
  BY <1>1, <1>3, NothingSent DEF Sort, Stages
<1>4. QED
  BY <1>2, <1>3

LEMMA RequestReviewStep ==
  ASSUME CitedInduction, RequestReview
  PROVE  CitedInduction'
<1>1. /\ exchange.at = "request" /\ UNCHANGED <<policy, verdict, reply, cited>>
      /\ exchange \in [at : Stages, correction : BOOLEAN, http : Nat, retries : Nat, sent : Nat]
      /\ exchange.sent \in Nat /\ exchange.retries \in Nat /\ exchange.http = exchange.sent
  BY DEF RequestReview, CitedInduction, CitedTypeOK, Spent
<1>2. PICK n \in 0 .. Budget, outcome \in {"answered", "cut_off", "failed"} :
       /\ n = 0 => outcome = "failed"
       /\ exchange' = [exchange EXCEPT
            !.at = IF outcome = "answered" THEN "parse" ELSE IF outcome = "cut_off" THEN "correct" ELSE "failed",
            !.http = @ + n, !.sent = @ + n,
            !.retries = IF n = 0 THEN @ ELSE @ + CountedRetries(n)]
  BY DEF RequestReview
<1>3. n \in Nat /\ exchange.sent + n \in Nat
  BY <1>1
<1>4. PICK total \in Nat : total = exchange.sent + n
  BY <1>3
<1>5. PICK counted : counted = IF n = 0 THEN exchange.retries ELSE exchange.retries + CountedRetries(n)
  OBVIOUS
<1>6. counted \in Nat /\ counted = IF total = 0 THEN 0 ELSE total - 1
  <2>1. exchange.retries = IF exchange.sent = 0 THEN 0 ELSE exchange.sent - 1
    BY DEF CitedInduction, Spent
  <2>2. CASE n = 0
    BY <1>1, <1>4, <1>5, <2>1, <2>2
  <2>3. CASE n # 0 /\ exchange.correction
    <3>1. exchange.sent > 0
      BY <2>3 DEF CitedInduction, Spent
    <3>2. counted = exchange.sent - 1 + ((n - 1) + 1)
      BY <1>5, <2>1, <2>3, <3>1 DEF CountedRetries
    <3>3. QED
      BY <1>1, <1>3, <1>4, <3>1, <3>2
  <2>4. CASE n # 0 /\ ~exchange.correction
    <3>1. exchange.sent = 0
      BY <1>1, <2>4 DEF CitedInduction, Spent
    <3>2. counted = 0 + ((n - 1) + 0)
      BY <1>5, <2>1, <2>4, <3>1 DEF CountedRetries
    <3>3. QED
      BY <1>3, <1>4, <2>4, <3>1, <3>2
  <2>5. QED
    BY <2>2, <2>3, <2>4
<1>7. /\ exchange' \in [at : Stages, correction : BOOLEAN, http : Nat, retries : Nat, sent : Nat]
      /\ exchange'.at \in {"parse", "correct", "failed"} /\ (n = 0 => exchange'.at = "failed")
      /\ exchange'.sent = total /\ exchange'.http = total /\ exchange'.retries = counted
      /\ exchange'.correction = exchange.correction
  <2>1. PICK place \in {"parse", "correct", "failed"} :
          /\ n = 0 => place = "failed"
          /\ exchange' = [exchange EXCEPT !.at = place, !.http = total, !.sent = total, !.retries = counted]
    BY <1>1, <1>2, <1>4, <1>5
  <2>2. QED
    BY <1>1, <1>4, <1>6, <2>1 DEF Stages
<1>8. policy.provider = "ollama" => n <= 1
  BY DEF Budget
<1>9. total <= ReviewAttempts
  <2>1. exchange.sent < ReviewAttempts
    BY <1>1 DEF CitedInduction, Spent
  <2>2. CASE policy.provider = "ollama"
    BY <1>1, <1>3, <1>4, <1>8, <2>1, <2>2, ReviewNumbers
  <2>3. CASE policy.provider # "ollama"
    <3>1. n <= ReviewAttempts - exchange.sent
      BY <1>1, <2>3, ReviewNumbers DEF Budget
    <3>2. QED
      BY <1>1, <1>3, <1>4, <3>1, ReviewNumbers
  <2>4. QED
    BY <2>2, <2>3
<1>10. policy.provider = "ollama" => total <= IF exchange.correction THEN 2 ELSE 1
  <2>1. policy.provider = "ollama" => exchange.sent <= IF exchange.correction THEN 1 ELSE 0
    BY <1>1 DEF CitedInduction, Spent
  <2>2. QED
    BY <1>1, <1>3, <1>4, <1>8, <2>1
<1>11. exchange.correction \/ n # 0 => total > 0
  <2>1. exchange.correction => exchange.sent > 0
    BY DEF CitedInduction, Spent
  <2>2. QED
    BY <1>1, <1>3, <1>4, <2>1
<1>12. Spent'
  BY <1>1, <1>4, <1>6, <1>7, <1>9, <1>10, <1>11 DEF Spent
<1>13. cited' = NoAnswer /\ NoAnswer.passages = {}
  BY <1>1 DEF CitedInduction, NoAnswer
<1>14. QED
  BY <1>1, <1>7, <1>12, <1>13 DEF CitedInduction, CitedTypeOK, LiveAnswersReviewed

LEMMA ParseReplyStep ==
  ASSUME CitedInduction, ParseReply
  PROVE  CitedInduction'
<1>1. exchange.at = "parse" /\ UNCHANGED <<policy, verdict, cited>>
  BY DEF ParseReply
<1>2. Moves("verify") \/ Moves("correct") \/ Moves("failed")
  BY DEF ParseReply
<1>3. QED
  BY <1>1, <1>2, NothingSent DEF Stages

\* A correction is only asked for while a request is left.
LEMMA CorrectStep ==
  ASSUME CitedInduction, Correct
  PROVE  CitedInduction'
<1>1. exchange.at = "correct" /\ UNCHANGED <<policy, verdict, reply, cited>>
  BY DEF Correct
<1>2. CASE exchange.correction \/ exchange.http >= ReviewAttempts
  <2>1. Moves("failed")
    BY <1>2 DEF Correct, Moves
  <2>2. QED
    BY <1>1, <2>1, NothingSent DEF Stages
<1>3. CASE ~(exchange.correction \/ exchange.http >= ReviewAttempts)
  <2>1. exchange \in [at : Stages, correction : BOOLEAN, http : Nat, retries : Nat, sent : Nat]
    BY DEF CitedInduction, CitedTypeOK
  <2>2. exchange' = [exchange EXCEPT !.at = "request", !.correction = TRUE]
    BY <1>3 DEF Correct
  <2>3. /\ exchange' \in [at : Stages, correction : BOOLEAN, http : Nat, retries : Nat, sent : Nat]
        /\ exchange'.at = "request" /\ exchange'.correction = TRUE
        /\ exchange'.sent = exchange.sent /\ exchange'.http = exchange.http
        /\ exchange'.retries = exchange.retries
    BY <2>1, <2>2 DEF Stages
  <2>4. /\ exchange.sent = exchange.http /\ exchange.sent > 0
        /\ exchange.retries = IF exchange.sent = 0 THEN 0 ELSE exchange.sent - 1
    BY <1>1 DEF CitedInduction, Spent
  <2>5. exchange.sent < ReviewAttempts
    BY <1>3, <2>1, <2>4, ReviewNumbers
  <2>6. policy.provider = "ollama" => exchange.sent <= 1
    BY <1>1, <1>3 DEF CitedInduction, Spent
  <2>7. Spent'
    BY <1>1, <2>1, <2>3, <2>4, <2>5, <2>6, ReviewNumbers DEF Spent
  <2>8. cited' = NoAnswer /\ NoAnswer.passages = {}
    BY <1>1 DEF CitedInduction, NoAnswer
  <2>9. QED
    BY <1>1, <2>3, <2>7, <2>8 DEF CitedInduction, CitedTypeOK, LiveAnswersReviewed
<1>4. QED
  BY <1>2, <1>3

\* What is quoted was shown; a reply that supports nothing quotes nothing.
LEMMA VerifyReplyStep ==
  ASSUME CitedInduction, VerifyReply
  PROVE  CitedInduction'
<1>1. exchange.at = "verify" /\ UNCHANGED <<policy, verdict, reply>>
  BY DEF VerifyReply
<1>2. CASE Moves("failed") /\ UNCHANGED cited
  BY <1>1, <1>2, NothingSent DEF Stages
<1>3. CASE ~(Moves("failed") /\ UNCHANGED cited)
  <2>1. /\ cited' = [passages |-> Selected, reviewed |-> TRUE] /\ Moves("answered")
        /\ IF reply.supported THEN Faithful ELSE reply.quotes = {}
    BY <1>3 DEF VerifyReply
  <2>2. \A p \in Quoted : p \in Reviewable
    BY <2>1 DEF Quoted, Faithful
  <2>3. \A p \in Quoted : verdict[p] # "reject"
    BY <2>2 DEF Reviewable, Sorted
  <2>4. cited'.reviewed /\ (cited'.passages = {} \/ cited'.passages = Quoted)
    BY <2>1 DEF Selected
  <2>5. Quoted' = Quoted
    BY <1>1 DEF Quoted
  <2>6. LiveAnswersReviewed'
    BY <1>1, <2>3, <2>4, <2>5 DEF LiveAnswersReviewed
  <2>7. QED
    BY <1>1, <2>1, <2>6, Answers
<1>4. QED
  BY <1>2, <1>3

LEMMA FailAnswerStep ==
  ASSUME CitedInduction, FailAnswer
  PROVE  CitedInduction'
BY NothingSent DEF FailAnswer, Stages

LEMMA ReviewStutter ==
  ASSUME CitedInduction, UNCHANGED reviewVars
  PROVE  CitedInduction'
BY DEF CitedInduction, CitedTypeOK, Spent, LiveAnswersReviewed, Quoted, reviewVars

LEMMA ReviewStarts ==
  ASSUME ReviewInit
  PROVE  CitedInduction
BY ReviewNumbers DEF ReviewInit, Unsent, NoAnswer, CitedInduction, CitedTypeOK, Spent, Stages,
                     LiveAnswersReviewed

\* Every step of a review, whoever answers and whatever, keeps the invariant.
THEOREM CitedInvariant == ReviewSpec => []CitedInduction
<1>1. ReviewInit => CitedInduction
  BY ReviewStarts
<1>2. CitedInduction /\ [ReviewNext]_reviewVars => CitedInduction'
  BY AskPolicyStep, SortStep, RequestReviewStep, ParseReplyStep, CorrectStep, VerifyReplyStep,
     FailAnswerStep, ReviewStutter DEF ReviewNext
<1>3. QED
  BY <1>1, <1>2, PTL DEF ReviewSpec

\* A review sends no more than its budget of requests and counts every one
\* but the first as a retry, and with a model an answer quotes what the model
\* was shown and quoted, all of it.
THEOREM CitedKept == ReviewSpec => []CitedInv
<1>1. CitedInduction => CitedInv
  <2>1. SUFFICES ASSUME CitedInduction PROVE CitedInv
    OBVIOUS
  <2>2. exchange.sent \in Nat
    BY <2>1 DEF CitedInduction, CitedTypeOK
  <2>3. exchange.sent <= IF policy.provider = "ollama" THEN 2 ELSE ReviewAttempts
    BY <2>1, <2>2 DEF CitedInduction, Spent
  <2>4. exchange.sent > 0 => exchange.retries = exchange.sent - 1
    BY <2>1, <2>2 DEF CitedInduction, Spent
  <2>5. QED
    BY <2>1, <2>3, <2>4 DEF CitedInduction, CitedInv, ReviewWithinBudget
<1>2. QED
  BY <1>1, CitedInvariant, PTL

----------------------------------------------------------------------------
(* ContextBudget: what messages weigh.                                     *)

Items == [turns : SUBSET Nat, kind : {"recent", "retrieved", "summary"}, weight : Nat]

\* A weight for each place.
Weighs(items, kept) == \A i \in kept : items[i].weight \in Nat

LEMMA CountTo ==
  ASSUME NEW w \in Nat
  PROVE  IsFiniteSet(1 .. w) /\ Cardinality(1 .. w) = w
BY FS_Interval

LEMMA RowIs ==
  ASSUME NEW i, NEW w \in Nat
  PROVE  IsFiniteSet({i} \X (1 .. w)) /\ Cardinality({i} \X (1 .. w)) = w
<1>1. IsFiniteSet(1 .. w) /\ Cardinality(1 .. w) = w
  BY CountTo
<1>2. IsFiniteSet({i}) /\ Cardinality({i}) = 1
  BY FS_Singleton
<1> DEFINE row == {i}
           places == 1 .. w
<1>3. IsFiniteSet(row) /\ IsFiniteSet(places) /\ Cardinality(row) = 1 /\ Cardinality(places) = w
  BY <1>1, <1>2
<1> HIDE DEF row, places
<1>4. IsFiniteSet(row \X places) /\ Cardinality(row \X places) = Cardinality(row) * Cardinality(places)
  BY <1>3, FS_Product
<1>5. IsFiniteSet(row \X places) /\ Cardinality(row \X places) = w
  BY <1>3, <1>4
<1>6. QED
  BY <1>5 DEF row, places

LEMMA DisjointUnion ==
  ASSUME NEW S, IsFiniteSet(S), NEW T, IsFiniteSet(T), S \cap T = {}
  PROVE  Cardinality(S \cup T) = Cardinality(S) + Cardinality(T)
<1>1. Cardinality(S \cup T) = Cardinality(S) + Cardinality(T) - Cardinality(S \cap T)
  BY FS_Union
<1>2. Cardinality(S \cap T) = 0
  BY FS_EmptySet
<1>3. Cardinality(S) \in Nat /\ Cardinality(T) \in Nat
  BY FS_CardinalityType
<1>4. QED
  BY <1>1, <1>2, <1>3

LEMMA BytesAre ==
  ASSUME NEW items, NEW kept, IsFiniteSet(kept), Weighs(items, kept)
  PROVE  /\ IsFiniteSet(Bytes(items, kept)) /\ WeightOf(items, kept) \in Nat
         /\ \A x : x \in Bytes(items, kept) <=>
              \E i \in kept : \E n \in 1 .. items[i].weight : x = <<i, n>>
<1> DEFINE row == [i \in kept |-> {i} \X (1 .. items[i].weight)]
           rows == {row[i] : i \in kept}
<1>1. Bytes(items, kept) = UNION rows
  BY DEF Bytes
<1>2. IsFiniteSet(rows)
  <2>1. row \in Surjection(kept, rows)
    BY DEF Surjection
  <2> HIDE DEF row, rows
  <2>2. QED
    BY <2>1, FS_Surjection
<1>3. ASSUME NEW i \in kept PROVE IsFiniteSet(row[i])
  <2>1. items[i].weight \in Nat
    BY DEF Weighs
  <2>2. QED
    BY <2>1, RowIs
<1>4. IsFiniteSet(UNION rows)
  <2>1. \A T \in rows : IsFiniteSet(T)
    BY <1>3
  <2> HIDE DEF rows
  <2>2. QED
    BY <1>2, <2>1, FS_UNION
<1>5. IsFiniteSet(Bytes(items, kept)) /\ WeightOf(items, kept) \in Nat
  BY <1>1, <1>4, FS_CardinalityType DEF WeightOf
<1>6. ASSUME NEW x
      PROVE  x \in Bytes(items, kept) <=> \E i \in kept : \E n \in 1 .. items[i].weight : x = <<i, n>>
  BY DEF Bytes
<1>7. QED
  BY <1>5, <1>6

\* Places that are not the same add their weights.
LEMMA WeightUnion ==
  ASSUME NEW items, NEW A, IsFiniteSet(A), NEW B, IsFiniteSet(B), A \cap B = {},
         Weighs(items, A), Weighs(items, B)
  PROVE  WeightOf(items, A \cup B) = WeightOf(items, A) + WeightOf(items, B)
<1>1. /\ IsFiniteSet(Bytes(items, A))
      /\ \A x : x \in Bytes(items, A) <=> \E j \in A : \E n \in 1 .. items[j].weight : x = <<j, n>>
  BY BytesAre
<1>2. /\ IsFiniteSet(Bytes(items, B))
      /\ \A x : x \in Bytes(items, B) <=> \E j \in B : \E n \in 1 .. items[j].weight : x = <<j, n>>
  BY BytesAre
<1>3. ASSUME NEW x \in Bytes(items, A), x \in Bytes(items, B) PROVE FALSE
  <2>1. PICK i \in A : \E n \in 1 .. items[i].weight : x = <<i, n>>
    BY <1>1
  <2>2. PICK j \in B : \E n \in 1 .. items[j].weight : x = <<j, n>>
    BY <1>2, <1>3
  <2>3. i = j
    BY <2>1, <2>2
  <2>4. QED
    BY <2>3
<1>4. Bytes(items, A \cup B) = Bytes(items, A) \cup Bytes(items, B)
  BY DEF Bytes
<1>5. Bytes(items, A) \cap Bytes(items, B) = {}
  BY <1>3
<1>6. QED
  BY <1>1, <1>2, <1>4, <1>5, DisjointUnion DEF WeightOf

LEMMA WeightOne ==
  ASSUME NEW items, NEW i, items[i].weight \in Nat
  PROVE  WeightOf(items, {i}) = items[i].weight
<1>1. Bytes(items, {i}) = {i} \X (1 .. items[i].weight)
  BY DEF Bytes
<1>2. QED
  BY <1>1, RowIs DEF WeightOf

\* A weight depends on the places it counts only, and these may be elsewhere.
LEMMA WeightMoves ==
  ASSUME NEW a, NEW A, IsFiniteSet(A), Weighs(a, A),
         NEW b, NEW B, IsFiniteSet(B), Weighs(b, B),
         NEW f \in [A -> B], \A i, j \in A : f[i] = f[j] => i = j, \A k \in B : \E i \in A : f[i] = k,
         \A i \in A : b[f[i]].weight = a[i].weight
  PROVE  WeightOf(a, A) = WeightOf(b, B)
<1> DEFINE S == Bytes(a, A)
           T == Bytes(b, B)
           g == [x \in S |-> <<f[x[1]], x[2]>>]
<1>1. /\ IsFiniteSet(S)
      /\ \A x : x \in S <=> \E i \in A : \E n \in 1 .. a[i].weight : x = <<i, n>>
  BY BytesAre
<1>2. /\ IsFiniteSet(T)
      /\ \A x : x \in T <=> \E i \in B : \E n \in 1 .. b[i].weight : x = <<i, n>>
  BY BytesAre
<1> HIDE DEF S, T
<1>3. g \in [S -> T]
  <2>1. ASSUME NEW x \in S PROVE <<f[x[1]], x[2]>> \in T
    <3>1. PICK i \in A : \E n \in 1 .. a[i].weight : x = <<i, n>>
      BY <1>1
    <3>2. PICK n \in 1 .. a[i].weight : x = <<i, n>>
      BY <3>1
    <3>3. f[x[1]] \in B /\ x[2] \in 1 .. b[f[x[1]]].weight
      BY <3>2
    <3>4. QED
      BY <1>2, <3>3
  <2>2. QED
    BY <2>1
<1>4. ASSUME NEW x \in S, NEW y \in S, g[x] = g[y] PROVE x = y
  <2>1. PICK i \in A : \E n \in 1 .. a[i].weight : x = <<i, n>>
    BY <1>1
  <2>2. PICK j \in A : \E m \in 1 .. a[j].weight : y = <<j, m>>
    BY <1>1
  <2>3. <<f[x[1]], x[2]>> = <<f[y[1]], y[2]>>
    BY <1>4
  <2>4. x[1] = i /\ y[1] = j /\ x = <<x[1], x[2]>> /\ y = <<y[1], y[2]>>
    BY <2>1, <2>2
  <2>5. QED
    BY <2>3, <2>4
<1>5. ASSUME NEW y \in T PROVE \E x \in S : g[x] = y
  <2>1. PICK k \in B : \E n \in 1 .. b[k].weight : y = <<k, n>>
    BY <1>2
  <2>2. PICK n \in 1 .. b[k].weight : y = <<k, n>>
    BY <2>1
  <2>3. PICK i \in A : f[i] = k
    OBVIOUS
  <2>4. <<i, n>> \in S
    BY <1>1, <2>2, <2>3
  <2>5. g[<<i, n>>] = y
    BY <2>2, <2>3, <2>4
  <2>6. QED
    BY <2>4, <2>5
<1>6. ExistsBijection(S, T)
  <2>1. g \in Bijection(S, T)
    BY <1>3, <1>4, <1>5 DEF Bijection, Injection, Surjection, IsInjective
  <2>2. QED
    BY <2>1 DEF ExistsBijection
<1>7. QED
  BY <1>1, <1>6, FS_Bijection DEF WeightOf, S, T

LEMMA SumType ==
  ASSUME NEW s \in Seq(Items)
  PROVE  SumOf(s) \in Nat /\ Weighs(s, DOMAIN s) /\ IsFiniteSet(DOMAIN s)
<1>1. Weighs(s, DOMAIN s)
  <2>1. \A i \in DOMAIN s : s[i] \in Items
    OBVIOUS
  <2>2. QED
    BY <2>1 DEF Weighs, Items
<1>2. IsFiniteSet(DOMAIN s)
  <2>1. DOMAIN s = 1 .. Len(s) /\ Len(s) \in Nat
    OBVIOUS
  <2>2. QED
    BY <2>1, CountTo
<1>3. QED
  BY <1>1, <1>2, BytesAre DEF SumOf

LEMMA SumNone ==
  SumOf(<<>>) = 0 /\ \A items : WeightOf(items, {}) = 0
<1>1. \A items : Bytes(items, {}) = {}
  BY DEF Bytes
<1>2. \A items : WeightOf(items, {}) = 0
  BY <1>1, FS_EmptySet DEF WeightOf
<1>3. DOMAIN <<>> = {}
  OBVIOUS
<1>4. QED
  BY <1>2, <1>3 DEF SumOf

LEMMA SumOne ==
  ASSUME NEW item \in Items
  PROVE  SumOf(<<item>>) = item.weight
<1>1. item.weight \in Nat
  BY DEF Items
<1>2. DOMAIN <<item>> = {1} /\ <<item>>[1] = item
  OBVIOUS
<1>3. WeightOf(<<item>>, {1}) = item.weight
  BY <1>1, <1>2, WeightOne
<1>4. QED
  BY <1>2, <1>3 DEF SumOf

\* A concatenation weighs what its parts do.
LEMMA SumConcat ==
  ASSUME NEW s \in Seq(Items), NEW t \in Seq(Items)
  PROVE  s \o t \in Seq(Items) /\ SumOf(s \o t) = SumOf(s) + SumOf(t)
<1> DEFINE st == s \o t
           m == Len(s)
           n == Len(t)
           A == 1 .. m
           B == m + 1 .. m + n
           C == 1 .. n
           back == [i \in B |-> i - m]
           same == [i \in A |-> i]
<1>1. /\ m \in Nat /\ n \in Nat /\ st \in Seq(Items) /\ DOMAIN st = A \cup B
      /\ DOMAIN s = A /\ DOMAIN t = C
      /\ \A i \in A : st[i] = s[i]
      /\ \A i \in B : st[i] = t[i - m]
  OBVIOUS
<1>2. IsFiniteSet(A) /\ IsFiniteSet(B) /\ IsFiniteSet(C) /\ A \cap B = {}
  <2>1. IsFiniteSet(A) /\ IsFiniteSet(C)
    BY <1>1, CountTo
  <2>2. IsFiniteSet(B)
    BY <1>1, FS_Interval
  <2>3. A \cap B = {}
    BY <1>1
  <2>4. QED
    BY <2>1, <2>2, <2>3
<1>3. Weighs(s, A) /\ Weighs(t, C) /\ Weighs(st, A) /\ Weighs(st, B)
  <2>1. Weighs(s, A) /\ Weighs(t, C) /\ Weighs(st, A \cup B)
    BY <1>1, SumType
  <2>2. QED
    BY <2>1 DEF Weighs
<1>4. /\ same \in [A -> A] /\ (\A i, j \in A : same[i] = same[j] => i = j)
      /\ (\A k \in A : \E i \in A : same[i] = k) /\ \A i \in A : st[same[i]].weight = s[i].weight
  BY <1>1
<1>5. /\ back \in [B -> C] /\ (\A i, j \in B : back[i] = back[j] => i = j)
      /\ \A i \in B : t[back[i]].weight = st[i].weight
  BY <1>1
<1>6. \A k \in C : \E i \in B : back[i] = k
  <2>1. ASSUME NEW k \in C PROVE m + k \in B /\ back[m + k] = k
    BY <1>1
  <2>2. QED
    BY <2>1
<1> HIDE DEF st, A, B, C, back, same
<1>7. WeightOf(s, A) = WeightOf(st, A)
  BY <1>2, <1>3, <1>4, WeightMoves
<1>8. WeightOf(st, B) = WeightOf(t, C)
  BY <1>2, <1>3, <1>5, <1>6, WeightMoves
<1>9. WeightOf(st, A \cup B) = WeightOf(st, A) + WeightOf(st, B)
  BY <1>2, <1>3, WeightUnion
<1>10. QED
  BY <1>1, <1>7, <1>8, <1>9 DEF SumOf, st

----------------------------------------------------------------------------
(* build_conversation_history: what is selected.                           *)

\* References of one kind about some of the turns.
Part(s, kind, S) ==
  s \in Seq(Items) /\ \A i \in DOMAIN s : s[i].kind = kind /\ s[i].turns \subseteq S

LEMMA TurnsAre ==
  ASSUME dialog \in Seq(Turns)
  PROVE  /\ DOMAIN dialog = 1 .. Len(dialog) /\ Len(dialog) \in Nat /\ IsFiniteSet(DOMAIN dialog)
         /\ RecentTurns \subseteq DOMAIN dialog /\ OlderTurns \subseteq DOMAIN dialog
         /\ RecentTurns \cap OlderTurns = {}
         /\ \A p \in DOMAIN dialog :
              /\ p \in Nat /\ Messages(p) \in {1, 2} /\ Whole(p) \in Nat
              /\ Whole(p) = Messages(p) * dialog[p].weight
              /\ dialog[p].weight \in Nat /\ dialog[p].relevance \in Nat /\ IsFiniteSet(dialog[p].asked)
<1>1. DOMAIN dialog = 1 .. Len(dialog) /\ Len(dialog) \in Nat
  OBVIOUS
<1>2. IsFiniteSet(DOMAIN dialog)
  BY <1>1, CountTo
<1>3. ASSUME NEW p \in DOMAIN dialog
      PROVE  /\ p \in Nat /\ Messages(p) \in {1, 2} /\ Whole(p) \in Nat
             /\ Whole(p) = Messages(p) * dialog[p].weight
             /\ dialog[p].weight \in Nat /\ dialog[p].relevance \in Nat /\ IsFiniteSet(dialog[p].asked)
  <2>1. dialog[p] \in Turns
    OBVIOUS
  <2>2. /\ dialog[p].weight \in Nat /\ dialog[p].relevance \in Nat /\ IsFiniteSet(dialog[p].asked)
        /\ dialog[p].answered \in BOOLEAN
    BY <2>1, TurnsAssumption
  <2>3. Messages(p) \in {1, 2}
    BY DEF Messages
  <2>4. QED
    BY <1>1, <2>2, <2>3 DEF Whole
<1>4. QED
  BY <1>1, <1>2, <1>3 DEF RecentTurns, OlderTurns

LEMMA PairIs ==
  ASSUME dialog \in Seq(Turns), NEW p \in DOMAIN dialog, NEW w \in Nat
  PROVE  LET pair == [m \in 1 .. Messages(p) |-> Item({p}, "recent", w)]
         IN  Part(pair, "recent", {p}) /\ SumOf(pair) = Messages(p) * w
<1> DEFINE item == Item({p}, "recent", w)
           pair == [m \in 1 .. Messages(p) |-> item]
<1>1. item \in Items /\ item.kind = "recent" /\ item.turns = {p} /\ item.weight = w
  BY TurnsAre DEF Item, Items
<1> HIDE DEF item
<1>2. SumOf(<<item>>) = w
  BY <1>1, SumOne
<1>3. pair \in Seq(Items) /\ \A i \in DOMAIN pair : pair[i] = item
  <2>1. Messages(p) \in Nat
    BY TurnsAre
  <2>2. pair \in [1 .. Messages(p) -> Items]
    BY <1>1
  <2>3. pair \in Seq(Items)
    BY <2>1, <2>2
  <2>4. QED
    BY <2>3
<1>4. ASSUME Messages(p) = 1 PROVE SumOf(pair) = Messages(p) * w
  <2>1. pair = <<item>>
    BY <1>4
  <2> HIDE DEF pair
  <2>2. QED
    BY <1>2, <1>4, <2>1
<1>5. ASSUME Messages(p) = 2 PROVE SumOf(pair) = Messages(p) * w
  <2>1. pair = <<item>> \o <<item>>
    BY <1>5
  <2>2. <<item>> \in Seq(Items)
    BY <1>1
  <2> HIDE DEF pair
  <2>3. SumOf(pair) = w + w
    BY <1>2, <2>1, <2>2, SumConcat
  <2>4. QED
    BY <1>5, <2>3
<1>6. Part(pair, "recent", {p})
  BY <1>1, <1>3 DEF Part
<1>7. SumOf(pair) = Messages(p) * w
  BY <1>4, <1>5, TurnsAre
<1>8. QED
  BY <1>6, <1>7 DEF item

\* The members of a concatenation are those of its parts.
LEMMA ConcatMembers ==
  ASSUME NEW s \in Seq(Items), NEW t \in Seq(Items)
  PROVE  \A i \in DOMAIN (s \o t) :
           \/ \E k \in DOMAIN s : (s \o t)[i] = s[k]
           \/ \E k \in DOMAIN t : (s \o t)[i] = t[k]
<1>1. \A i \in DOMAIN (s \o t) :
        \/ i \in DOMAIN s /\ (s \o t)[i] = s[i]
        \/ i - Len(s) \in DOMAIN t /\ (s \o t)[i] = t[i - Len(s)]
  OBVIOUS
<1>2. QED
  BY <1>1

LEMMA PartConcat ==
  ASSUME NEW s, NEW t, NEW kind, NEW S, Part(s, kind, S), Part(t, kind, S)
  PROVE  Part(s \o t, kind, S) /\ SumOf(s \o t) = SumOf(s) + SumOf(t)
<1>1. s \o t \in Seq(Items) /\ SumOf(s \o t) = SumOf(s) + SumOf(t)
  BY SumConcat DEF Part
<1>2. s \in Seq(Items) /\ t \in Seq(Items)
  BY DEF Part
<1>3. \A i \in DOMAIN (s \o t) :
        \/ \E k \in DOMAIN s : (s \o t)[i] = s[k]
        \/ \E k \in DOMAIN t : (s \o t)[i] = t[k]
  BY <1>2, ConcatMembers
<1>4. QED
  BY <1>1, <1>3 DEF Part

LEMMA FitRecentFits ==
  ASSUME dialog \in Seq(Turns), NEW p \in RecentTurns, NEW budget \in Nat,
         NEW recent, Part(recent, "recent", RecentTurns), SumOf(recent) <= budget
  PROVE  LET more == FitRecent(recent, p, budget)
         IN  Part(more, "recent", RecentTurns) /\ SumOf(more) <= budget
<1> DEFINE left == budget - SumOf(recent)
           pair(w) == [m \in 1 .. Messages(p) |-> Item({p}, "recent", w)]
<1>1. p \in DOMAIN dialog /\ Messages(p) \in Nat /\ Whole(p) = Messages(p) * dialog[p].weight
      /\ dialog[p].weight \in Nat /\ Whole(p) \in Nat
  BY TurnsAre
<1>2. SumOf(recent) \in Nat /\ left \in Nat
  BY SumType DEF Part
<1>3. ASSUME NEW w \in Nat, Messages(p) * w <= left
      PROVE  Part(pair(w) \o recent, "recent", RecentTurns) /\ SumOf(pair(w) \o recent) <= budget
  <2>1. Part(pair(w), "recent", {p}) /\ SumOf(pair(w)) = Messages(p) * w
    BY <1>1, PairIs
  <2>2. Part(pair(w), "recent", RecentTurns)
    BY <2>1 DEF Part
  <2> HIDE DEF pair
  <2>3. Part(pair(w) \o recent, "recent", RecentTurns) /\ SumOf(pair(w) \o recent) = SumOf(pair(w)) + SumOf(recent)
    BY <2>2, PartConcat
  <2>4. Messages(p) * w \in Nat
    BY <1>1
  <2>5. QED
    BY <1>2, <1>3, <2>1, <2>3, <2>4
<1>4. CASE Whole(p) <= left
  <2>1. FitRecent(recent, p, budget) = pair(dialog[p].weight) \o recent
    BY <1>4 DEF FitRecent
  <2> HIDE DEF pair
  <2>2. QED
    BY <1>1, <1>3, <1>4, <2>1
<1>5. CASE ~ (Whole(p) <= left) /\ Messages(p) <= left
  <2>1. Messages(p) * 1 <= left
    BY <1>1, <1>5
  <2>2. FitRecent(recent, p, budget) = pair(1) \o recent
    BY <1>5 DEF FitRecent
  <2> HIDE DEF pair
  <2>3. QED
    BY <1>3, <2>1, <2>2
<1>6. CASE ~ (Whole(p) <= left) /\ ~ (Messages(p) <= left)
  <2>1. FitRecent(recent, p, budget) = recent
    BY <1>6 DEF FitRecent
  <2>2. QED
    BY <2>1
<1>7. QED
  BY <1>4, <1>5, <1>6

LEMMA RecentBudgetIs ==
  ASSUME NEW q
  PROVE  RecentBudget(q) \in Nat /\ RecentBudget(q) <= HistoryBudget
<1>1. HistoryBudget \in Nat
  BY BudgetsAssumption
<1>2. (HistoryBudget * 3) \div 5 \in Nat /\ (HistoryBudget * 3) \div 5 <= HistoryBudget
  BY <1>1
<1>3. QED
  BY <1>1, <1>2 DEF RecentBudget

\* Recent turns keep to the budget.
LEMMA RecentIs ==
  ASSUME dialog \in Seq(Turns), NEW q
  PROVE  Part(Recent(q), "recent", RecentTurns) /\ SumOf(Recent(q)) <= HistoryBudget
<1> DEFINE budget == RecentBudget(q)
           with(recent, p) == IF p \in RecentTurns THEN FitRecent(recent, p, budget) ELSE recent
           Good(recent) == Part(recent, "recent", RecentTurns) /\ SumOf(recent) <= budget
           n == Len(dialog)
<1>1. budget \in Nat /\ budget <= HistoryBudget /\ HistoryBudget \in Nat
  BY RecentBudgetIs, BudgetsAssumption
<1>2. ASSUME NEW recent, NEW p, Good(recent) PROVE Good(with(recent, p))
  BY <1>1, <1>2, FitRecentFits
<1>3. Good(<<>>)
  <2>1. <<>> \in Seq(Items) /\ DOMAIN <<>> = {}
    OBVIOUS
  <2>2. SumOf(<<>>) <= budget
    BY <1>1, SumNone
  <2>3. QED
    BY <2>1, <2>2 DEF Part
<1>4. Recent(q) = with(with(with(<<>>, n), n - 1), n - 2)
  BY DEF Recent
<1>5. Good(Recent(q))
  <2> HIDE DEF with, Good
  <2>1. QED
    BY <1>2, <1>3, <1>4
<1>6. SumOf(Recent(q)) \in Nat
  BY <1>5, SumType DEF Part
<1>7. QED
  BY <1>1, <1>5, <1>6

\* The turns that match, none of another order.
LEMMA RankedAre ==
  ASSUME dialog \in Seq(Turns), NEW q
  PROVE  Allowed(q) \subseteq OlderTurns /\ \A n \in DOMAIN Ranked(q) : Ranked(q)[n] \in Allowed(q)
<1> DEFINE matching == {p \in Allowed(q) : Score(q, p) > 0}
           ahead == [b \in matching |-> {a \in matching :
                       Score(q, a) > Score(q, b) \/ (Score(q, a) = Score(q, b) /\ a > b)}]
           key == [p \in matching |-> Score(q, p)]
           tie == [p \in matching |-> 0 - p]
<1>1. Allowed(q) \subseteq OlderTurns /\ OlderTurns \subseteq DOMAIN dialog /\ IsFiniteSet(DOMAIN dialog)
  BY TurnsAre DEF Allowed
<1>2. matching \subseteq Allowed(q) /\ IsFiniteSet(matching)
  <2>1. matching \in SUBSET DOMAIN dialog
    BY <1>1
  <2>2. QED
    BY <1>1, <2>1, FS_Subset
<1>3. ASSUME NEW p \in matching PROVE Score(q, p) \in Int /\ p \in Int
  <2>1. p \in DOMAIN dialog
    BY <1>1, <1>2
  <2>2. IsFiniteSet(dialog[p].asked) /\ dialog[p].relevance \in Nat /\ p \in Nat
    BY <2>1, TurnsAre
  <2>3. IsFiniteSet(dialog[p].asked \cap q.orders)
    BY <2>2, FS_Intersection
  <2>4. Cardinality(dialog[p].asked \cap q.orders) \in Nat
    BY <2>3, FS_CardinalityType
  <2>5. QED
    BY <2>2, <2>4 DEF Score
<1>4. Sorts(ahead, matching)
  <2>1. ahead \in [matching -> SUBSET matching] /\ key \in [matching -> Int] /\ tie \in [matching -> Int]
    BY <1>3
  <2>2. \A a, b \in matching : tie[a] = tie[b] => a = b
    BY <1>3
  <2>3. \A a, b \in matching : (a \in ahead[b]) <=> (key[a] > key[b] \/ (key[a] = key[b] /\ tie[a] < tie[b]))
    <3>1. ASSUME NEW a \in matching, NEW b \in matching
          PROVE  (a \in ahead[b]) <=> (key[a] > key[b] \/ (key[a] = key[b] /\ tie[a] < tie[b]))
      <4>1. (a > b) <=> (0 - a < 0 - b)
        BY <1>3
      <4>2. QED
        BY <4>1
    <3>2. QED
      BY <3>1
  <2> HIDE DEF ahead, key, tie, matching
  <2>4. Keyed(ahead, matching, key, tie)
    BY <2>1, <2>2, <2>3 DEF Keyed
  <2>5. QED
    BY <2>4, SortsByKeys
<1>5. Ranked(q) = Ordered(ahead)
  BY DEF Ranked
<1> HIDE DEF ahead, matching
<1>6. \A n \in DOMAIN Ranked(q) : Ranked(q)[n] \in matching
  BY <1>2, <1>4, <1>5, OrderedAll
<1>7. QED
  BY <1>1, <1>2, <1>6

LEMMA PartAppend ==
  ASSUME NEW s, NEW kind \in {"recent", "retrieved", "summary"}, NEW S \in SUBSET Nat, Part(s, kind, S),
         NEW turns \in SUBSET S, NEW w \in Nat
  PROVE  LET t == Append(s, Item(turns, kind, w))
         IN  Part(t, kind, S) /\ SumOf(t) = SumOf(s) + w
<1> DEFINE item == Item(turns, kind, w)
<1>1. item \in Items /\ item.kind = kind /\ item.turns = turns /\ item.weight = w
  BY DEF Item, Items
<1>2. s \in Seq(Items)
  BY DEF Part
<1> HIDE DEF item
<1>3. <<item>> \in Seq(Items) /\ Append(s, item) = s \o <<item>>
  BY <1>1, <1>2
<1>4. Part(<<item>>, kind, S)
  <2>1. DOMAIN <<item>> = {1} /\ <<item>>[1] = item
    OBVIOUS
  <2>2. QED
    BY <1>1, <1>3, <2>1 DEF Part
<1>5. SumOf(<<item>>) = w
  BY <1>1, SumOne
<1>6. Part(Append(s, item), kind, S) /\ SumOf(Append(s, item)) = SumOf(s) + w
  BY <1>3, <1>4, <1>5, PartConcat
<1>7. QED
  BY <1>6 DEF item

LEMMA RetrieveFits ==
  ASSUME dialog \in Seq(Turns), NEW q, NEW p \in Allowed(q), NEW room \in Nat,
         NEW fetched, Part(fetched, "retrieved", Allowed(q)), SumOf(fetched) <= room
  PROVE  LET more == Retrieve(fetched, p, room)
         IN  Part(more, "retrieved", Allowed(q)) /\ SumOf(more) <= room
<1> DEFINE left == room - SumOf(fetched)
<1>1. /\ Allowed(q) \in SUBSET Nat /\ {p} \in SUBSET Allowed(q)
      /\ Messages(p) \in Nat /\ Whole(p) \in Nat
  BY RankedAre, TurnsAre
<1>2. SumOf(fetched) \in Nat /\ left \in Nat
  BY SumType DEF Part
<1>3. ASSUME NEW w \in Nat, w <= left
      PROVE  /\ Part(Append(fetched, Item({p}, "retrieved", w)), "retrieved", Allowed(q))
             /\ SumOf(Append(fetched, Item({p}, "retrieved", w))) <= room
  <2>1. /\ Part(Append(fetched, Item({p}, "retrieved", w)), "retrieved", Allowed(q))
        /\ SumOf(Append(fetched, Item({p}, "retrieved", w))) = SumOf(fetched) + w
    BY <1>1, PartAppend
  <2>2. QED
    BY <1>2, <1>3, <2>1
<1>4. CASE Whole(p) <= left
  <2>1. Retrieve(fetched, p, room) = Append(fetched, Item({p}, "retrieved", Whole(p)))
    BY <1>4 DEF Retrieve
  <2>2. QED
    BY <1>1, <1>3, <1>4, <2>1
<1>5. CASE ~ (Whole(p) <= left) /\ Messages(p) <= left
  <2>1. Retrieve(fetched, p, room) = Append(fetched, Item({p}, "retrieved", Messages(p)))
    BY <1>5 DEF Retrieve
  <2>2. QED
    BY <1>1, <1>3, <1>5, <2>1
<1>6. CASE ~ (Whole(p) <= left) /\ ~ (Messages(p) <= left)
  <2>1. Retrieve(fetched, p, room) = fetched
    BY <1>6 DEF Retrieve
  <2>2. QED
    BY <2>1
<1>7. QED
  BY <1>4, <1>5, <1>6

\* What is retrieved fits beside the recent turns.
LEMMA RetrievedIs ==
  ASSUME dialog \in Seq(Turns), NEW q,
         NEW recent, SumOf(recent) \in Nat, SumOf(recent) <= HistoryBudget
  PROVE  LET fetched == Retrieved(q, recent)
         IN  /\ Part(fetched, "retrieved", Allowed(q))
             /\ SumOf(fetched) \in Nat /\ SumOf(fetched) <= HistoryBudget - SumOf(recent)
<1> DEFINE room == HistoryBudget - SumOf(recent)
           best == Ranked(q)
           with(fetched, n) == IF n \in DOMAIN best THEN Retrieve(fetched, best[n], room) ELSE fetched
           Good(fetched) == Part(fetched, "retrieved", Allowed(q)) /\ SumOf(fetched) <= room
<1>1. room \in Nat
  BY BudgetsAssumption
<1>2. ASSUME NEW fetched, NEW n, Good(fetched) PROVE Good(with(fetched, n))
  <2>1. n \in DOMAIN best => best[n] \in Allowed(q)
    BY RankedAre
  <2> HIDE DEF room, best
  <2>2. QED
    BY <1>1, <1>2, <2>1, RetrieveFits
<1>3. Good(<<>>)
  <2>1. <<>> \in Seq(Items) /\ DOMAIN <<>> = {}
    OBVIOUS
  <2>2. SumOf(<<>>) <= room
    BY <1>1, SumNone
  <2>3. QED
    BY <2>1, <2>2 DEF Part
<1>4. Retrieved(q, recent) = with(with(with(<<>>, 1), 2), 3)
  BY DEF Retrieved
<1>5. Good(Retrieved(q, recent))
  <2> HIDE DEF with, Good
  <2>1. QED
    BY <1>2, <1>3, <1>4
<1>6. SumOf(Retrieved(q, recent)) \in Nat
  BY <1>5, SumType DEF Part
<1>7. QED
  BY <1>5, <1>6

\* No more than n of finitely many numbers have fewer than n after them.
LEMMA LatestFew ==
  ASSUME NEW rest \in SUBSET Nat, IsFiniteSet(rest), NEW n \in Nat
  PROVE  LET few == {p \in rest : Cardinality({later \in rest : later > p}) < n}
         IN  Cardinality(few) \in Nat /\ Cardinality(few) <= n
<1> DEFINE few == {p \in rest : Cardinality({later \in rest : later > p}) < n}
           ahead == [p \in rest |-> {later \in rest : later > p}]
           key == [p \in rest |-> p]
           place == [p \in few |-> Cardinality(ahead[p]) + 1]
<1>1. Sorts(ahead, rest)
  <2>1. ahead \in [rest -> SUBSET rest] /\ key \in [rest -> Int]
    OBVIOUS
  <2>2. \A a, b \in rest : key[a] = key[b] => a = b
    OBVIOUS
  <2>3. \A a, b \in rest : (a \in ahead[b]) <=> (key[a] > key[b] \/ (key[a] = key[b] /\ key[a] < key[b]))
    OBVIOUS
  <2> HIDE DEF ahead, key
  <2>4. Keyed(ahead, rest, key, key)
    BY <2>1, <2>2, <2>3 DEF Keyed
  <2>5. QED
    BY <2>4, SortsByKeys
<1>2. few \in SUBSET rest /\ \A p \in few : Cardinality(ahead[p]) < n
  OBVIOUS
<1> HIDE DEF ahead, few
<1>3. /\ \A a, b \in rest : Cardinality(ahead[a]) = Cardinality(ahead[b]) => a = b
      /\ \A p \in rest : Cardinality(ahead[p]) \in Nat
  BY <1>1, AheadCounted, AheadCount
<1>4. place \in Injection(few, 1 .. n)
  <2>1. \A p \in few : place[p] \in 1 .. n
    BY <1>2, <1>3
  <2>2. \A a, b \in few : place[a] = place[b] => a = b
    BY <1>2, <1>3
  <2>3. QED
    BY <2>1, <2>2 DEF Injection, IsInjective
<1>5. IsFiniteSet(1 .. n) /\ Cardinality(1 .. n) = n
  BY CountTo
<1>6. Cardinality(few) <= n /\ IsFiniteSet(few)
  BY <1>4, <1>5, FS_Injection
<1>7. Cardinality(few) \in Nat
  BY <1>6, FS_CardinalityType
<1>8. QED
  BY <1>6, <1>7 DEF few

\* The summary is of the turns that were not retrieved, as many as fit.
LEMMA SummaryIs ==
  ASSUME dialog \in Seq(Turns), NEW q, NEW fetched, NEW left \in Nat
  PROVE  LET summary == Summary(q, fetched, left)
         IN  /\ Part(summary, "summary", Rest(q, fetched))
             /\ SumOf(summary) \in Nat /\ SumOf(summary) <= left
<1> DEFINE rest == Rest(q, fetched)
           turns == {p \in rest : Cardinality({later \in rest : later > p}) < left}
           item == Item(turns, "summary", Cardinality(turns))
<1>1. rest \in SUBSET Nat /\ IsFiniteSet(rest)
  <2>1. rest \in SUBSET DOMAIN dialog /\ IsFiniteSet(DOMAIN dialog) /\ DOMAIN dialog \subseteq Nat
    BY RankedAre, TurnsAre DEF Rest
  <2>2. QED
    BY <2>1, FS_Subset
<1>2. Cardinality(turns) \in Nat /\ Cardinality(turns) <= left
  <2> HIDE DEF rest
  <2>1. QED
    BY <1>1, LatestFew
<1>3. turns \subseteq rest
  OBVIOUS
<1>4. Summary(q, fetched, left) = IF turns = {} THEN <<>> ELSE <<item>>
  BY DEF Summary
<1> HIDE DEF turns, rest
<1>5. item \in Items /\ item.kind = "summary" /\ item.turns = turns /\ item.weight = Cardinality(turns)
  BY <1>1, <1>2, <1>3 DEF Item, Items
<1> HIDE DEF item
<1>6. /\ Part(<<item>>, "summary", rest)
      /\ SumOf(<<item>>) = Cardinality(turns)
  <2>1. <<item>> \in Seq(Items)
    BY <1>5
  <2>2. QED
    BY <1>3, <1>5, <2>1, SumOne DEF Part
<1>7. Part(<<>>, "summary", rest) /\ SumOf(<<>>) = 0
  <2>1. <<>> \in Seq(Items) /\ DOMAIN <<>> = {}
    OBVIOUS
  <2>2. QED
    BY <2>1, SumNone DEF Part
<1>8. QED
  BY <1>2, <1>4, <1>6, <1>7 DEF rest

\* What is true of the history told with a question.
WellTold(q, told) ==
  /\ told \in Seq(Items)
  /\ SumOf(told) <= HistoryBudget
  /\ \A i, j \in DOMAIN told : told[i].turns \cap told[j].turns # {} => told[i].kind = told[j].kind
  /\ \A i \in DOMAIN told : told[i].kind # "recent" => told[i].turns \subseteq Allowed(q)

LEMMA SelectIs ==
  ASSUME dialog \in Seq(Turns), NEW q \in Inquiries
  PROVE  WellTold(q, Select(q))
<1> DEFINE recent == Recent(q)
           fetched == Retrieved(q, recent)
           summary == Summarised(q, fetched, recent)
           retold == UNION {i.turns : i \in ToSet(fetched)}
<1>1. Part(recent, "recent", RecentTurns) /\ SumOf(recent) <= HistoryBudget /\ SumOf(recent) \in Nat
  BY RecentIs, SumType DEF Part
<1>2. HistoryBudget \in Nat
  BY BudgetsAssumption
<1> HIDE DEF recent
<1>3. /\ Part(fetched, "retrieved", Allowed(q))
      /\ SumOf(fetched) \in Nat /\ SumOf(fetched) <= HistoryBudget - SumOf(recent)
  BY <1>1, RetrievedIs
<1>4. \A i \in DOMAIN fetched : fetched[i].turns \subseteq retold
  BY DEF ToSet
<1>5. Rest(q, fetched) = Allowed(q) \ retold
  BY DEF Rest
<1> HIDE DEF fetched
<1>6. /\ Part(summary, "summary", Rest(q, fetched))
      /\ SumOf(summary) \in Nat /\ SumOf(summary) <= HistoryBudget - SumOf(recent) - SumOf(fetched)
  <2>1. HistoryBudget - SumOf(recent) - SumOf(fetched) \in Nat
    BY <1>1, <1>2, <1>3
  <2>2. QED
    BY <2>1, SummaryIs DEF Summarised
<1> HIDE DEF summary, retold
<1>7. Allowed(q) \cap RecentTurns = {}
  BY RankedAre, TurnsAre
<1>8. CASE ~ q.given
  <2>1. Select(q) = recent
    BY <1>8 DEF Select, recent
  <2>2. QED
    BY <1>1, <2>1 DEF WellTold, Part
<1>9. CASE q.given
  <2> DEFINE told == summary \o fetched \o recent
  <2>1. Select(q) = told
    BY <1>9 DEF Select, recent, fetched, summary
  <2>2. summary \in Seq(Items) /\ fetched \in Seq(Items) /\ recent \in Seq(Items)
    BY <1>1, <1>3, <1>6 DEF Part
  <2>3. summary \o fetched \in Seq(Items) /\ SumOf(summary \o fetched) = SumOf(summary) + SumOf(fetched)
    BY <2>2, SumConcat
  <2>4. told \in Seq(Items) /\ SumOf(told) = SumOf(summary) + SumOf(fetched) + SumOf(recent)
    BY <2>2, <2>3, SumConcat
  <2>5. SumOf(told) <= HistoryBudget
    BY <1>1, <1>2, <1>3, <1>6, <2>4
  <2>6. \A i \in DOMAIN told :
          \/ \E k \in DOMAIN summary : told[i] = summary[k]
          \/ \E k \in DOMAIN fetched : told[i] = fetched[k]
          \/ \E k \in DOMAIN recent : told[i] = recent[k]
    <3>1. \A i \in DOMAIN (summary \o fetched) :
            \/ \E k \in DOMAIN summary : (summary \o fetched)[i] = summary[k]
            \/ \E k \in DOMAIN fetched : (summary \o fetched)[i] = fetched[k]
      BY <2>2, ConcatMembers
    <3> DEFINE front == summary \o fetched
    <3>2. told = front \o recent /\ front \in Seq(Items)
      BY <2>2, <2>3
    <3> HIDE DEF front
    <3>3. \A i \in DOMAIN told :
            \/ \E k \in DOMAIN front : told[i] = front[k]
            \/ \E k \in DOMAIN recent : told[i] = recent[k]
      <4> HIDE DEF told
      <4>1. \A i \in DOMAIN (front \o recent) :
              \/ \E k \in DOMAIN front : (front \o recent)[i] = front[k]
              \/ \E k \in DOMAIN recent : (front \o recent)[i] = recent[k]
        BY <2>2, <3>2, ConcatMembers
      <4>2. QED
        BY <3>2, <4>1
    <3> HIDE DEF told
    <3>4. QED
      BY <3>1, <3>3 DEF front
  <2> HIDE DEF told
  <2>7. ASSUME NEW i \in DOMAIN told
        PROVE  \/ told[i].kind = "summary" /\ told[i].turns \subseteq Allowed(q) \ retold
               \/ told[i].kind = "retrieved" /\ told[i].turns \subseteq Allowed(q) \cap retold
               \/ told[i].kind = "recent" /\ told[i].turns \subseteq RecentTurns
    <3>1. CASE \E k \in DOMAIN summary : told[i] = summary[k]
      BY <1>5, <1>6, <3>1 DEF Part
    <3>2. CASE \E k \in DOMAIN fetched : told[i] = fetched[k]
      BY <1>3, <1>4, <3>2 DEF Part
    <3>3. CASE \E k \in DOMAIN recent : told[i] = recent[k]
      BY <1>1, <3>3 DEF Part
    <3>4. QED
      BY <2>6, <3>1, <3>2, <3>3
  <2>8. \A i, j \in DOMAIN told : told[i].turns \cap told[j].turns # {} => told[i].kind = told[j].kind
    BY <1>7, <2>7
  <2>9. \A i \in DOMAIN told : told[i].kind # "recent" => told[i].turns \subseteq Allowed(q)
    BY <2>7
  <2>10. QED
    BY <2>1, <2>4, <2>5, <2>8, <2>9 DEF WellTold
<1>10. QED
  BY <1>8, <1>9

----------------------------------------------------------------------------
(* prepare_context: what is removed.                                       *)

\* Summaries are given up first, then recent messages, in their order.
LEMMA RemovalIs ==
  ASSUME NEW items \in Seq(Items)
  PROVE  LET order == Removal(items)
             before(i, j) == \/ Priority(items[i]) < Priority(items[j])
                             \/ Priority(items[i]) = Priority(items[j]) /\ i <= j
         IN  /\ DOMAIN order = 1 .. Len(items)
             /\ \A i \in DOMAIN items : Priority(items[i]) \in Int
             /\ \A n \in 1 .. Len(items) : order[n] \in DOMAIN items
             /\ \A i \in DOMAIN items : \E n \in 1 .. Len(items) : order[n] = i
             /\ \A n, m \in 1 .. Len(items) : (n <= m) <=> before(order[n], order[m])
<1> DEFINE S == DOMAIN items
           ahead == [b \in S |-> {a \in S :
                       \/ Priority(items[a]) < Priority(items[b])
                       \/ Priority(items[a]) = Priority(items[b]) /\ a < b}]
           key == [a \in S |-> 0 - Priority(items[a])]
           tie == [a \in S |-> a]
           order == Removal(items)
<1>1. S = 1 .. Len(items) /\ Len(items) \in Nat /\ \A i \in S : i \in Int
  OBVIOUS
<1>2. IsFiniteSet(S) /\ Cardinality(S) = Len(items)
  BY <1>1, CountTo
<1>3. \A i \in S : Priority(items[i]) \in Int
  <2>1. \A i \in S : items[i].kind \in {"recent", "retrieved", "summary"}
    <3>1. \A i \in S : items[i] \in Items
      OBVIOUS
    <3>2. QED
      BY <3>1 DEF Items
  <2>2. QED
    BY <2>1 DEF Priority
<1>4. order = Ordered(ahead)
  BY DEF Removal
<1>5. Sorts(ahead, S)
  <2>1. ahead \in [S -> SUBSET S] /\ key \in [S -> Int] /\ tie \in [S -> Int]
    BY <1>1, <1>3
  <2>2. \A a, b \in S : tie[a] = tie[b] => a = b
    OBVIOUS
  <2>3. ASSUME NEW a \in S, NEW b \in S
        PROVE  (a \in ahead[b]) <=> (key[a] > key[b] \/ (key[a] = key[b] /\ tie[a] < tie[b]))
    <3>1. Priority(items[a]) \in Int /\ Priority(items[b]) \in Int
      BY <1>3
    <3>2. QED
      BY <3>1
  <2> HIDE DEF ahead, key, tie, S
  <2>4. Keyed(ahead, S, key, tie)
    BY <2>1, <2>2, <2>3 DEF Keyed
  <2>5. QED
    BY <2>4, SortsByKeys
<1>6. \A a, b \in S : (a \in ahead[b]) <=>
        \/ Priority(items[a]) < Priority(items[b])
        \/ Priority(items[a]) = Priority(items[b]) /\ a < b
  OBVIOUS
<1> HIDE DEF S, ahead, order
<1>7. /\ DOMAIN order = 1 .. Len(items)
      /\ \A n \in DOMAIN order : order[n] \in S
      /\ \A i \in S : \E n \in DOMAIN order : order[n] = i
      /\ \A n, m \in DOMAIN order : order[n] = order[m] => n = m
      /\ \A n, m \in DOMAIN order : (n < m) <=> order[n] \in ahead[order[m]]
  BY <1>2, <1>4, <1>5, OrderedAll
<1>8. ASSUME NEW n \in 1 .. Len(items), NEW m \in 1 .. Len(items)
      PROVE  (n <= m) <=>
               \/ Priority(items[order[n]]) < Priority(items[order[m]])
               \/ Priority(items[order[n]]) = Priority(items[order[m]]) /\ order[n] <= order[m]
  <2>1. order[n] \in S /\ order[m] \in S /\ (n = m <=> order[n] = order[m])
    BY <1>7
  <2>2. (n < m) <=>
          \/ Priority(items[order[n]]) < Priority(items[order[m]])
          \/ Priority(items[order[n]]) = Priority(items[order[m]]) /\ order[n] < order[m]
    BY <1>6, <1>7, <2>1
  <2>3. n \in Int /\ m \in Int /\ order[n] \in Int /\ order[m] \in Int
        /\ Priority(items[order[n]]) \in Int /\ Priority(items[order[m]]) \in Int
    BY <1>1, <1>3, <2>1
  <2>4. QED
    BY <2>1, <2>2, <2>3
<1>9. QED
  BY <1>3, <1>7, <1>8 DEF S, order

\* What a request prepared with this much besides may be.
WellPrepared(items, weight, result) ==
  LET removed == DOMAIN items \ result.kept
      before(i, j) == \/ Priority(items[i]) < Priority(items[j])
                      \/ Priority(items[i]) = Priority(items[j]) /\ i <= j
  IN  IF result.refused THEN weight > Window
      ELSE /\ WeightOf(items, result.kept) + weight <= Window
           /\ \A i \in result.kept, j \in removed : Priority(items[i]) >= Priority(items[j])
           /\ \A j \in removed : (\A i \in removed : before(i, j)) =>
                WeightOf(items, result.kept \cup {j}) + weight > Window

LEMMA WeightType ==
  ASSUME NEW items \in Seq(Items), NEW kept \in SUBSET DOMAIN items
  PROVE  WeightOf(items, kept) \in Nat
<1>1. IsFiniteSet(DOMAIN items) /\ Weighs(items, DOMAIN items)
  BY SumType
<1>2. IsFiniteSet(kept) /\ Weighs(items, kept)
  BY <1>1, FS_Subset DEF Weighs
<1>3. QED
  BY <1>2, BytesAre

\* With everything removed nothing of the history weighs.
LEMMA NoneFits ==
  ASSUME NEW items \in Seq(Items), NEW weight \in Nat,
         \A k \in 0 .. Len(items) : ~ (WeightOf(items, Left(items, k)) + weight <= Window)
  PROVE  weight > Window
<1> DEFINE n == Len(items)
           order == Removal(items)
<1>1. /\ \A m \in 1 .. n : order[m] \in DOMAIN items
      /\ \A i \in DOMAIN items : \E m \in 1 .. n : order[m] = i
  BY RemovalIs
<1> HIDE DEF order
<1>2. Left(items, n) = {}
  BY <1>1 DEF Left, order
<1>3. n \in 0 .. Len(items)
  OBVIOUS
<1>4. ~ (WeightOf(items, {}) + weight <= Window)
  BY <1>2, <1>3
<1>5. WeightOf(items, {}) = 0 /\ Window \in Nat
  BY SumNone, BudgetsAssumption
<1>6. QED
  BY <1>4, <1>5

\* The fewest that make it fit were removed.
LEMMA FewestRemoved ==
  ASSUME NEW items \in Seq(Items), NEW weight \in Nat, NEW k \in 0 .. Len(items),
         WeightOf(items, Left(items, k)) + weight <= Window,
         \A l \in 0 .. Len(items) : WeightOf(items, Left(items, l)) + weight <= Window => k <= l
  PROVE  WellPrepared(items, weight, Sent(Left(items, k)))
<1> DEFINE n == Len(items)
           order == Removal(items)
           kept == Left(items, k)
           before(i, j) == \/ Priority(items[i]) < Priority(items[j])
                           \/ Priority(items[i]) = Priority(items[j]) /\ i <= j
<1>1. /\ \A i \in DOMAIN items : Priority(items[i]) \in Int
      /\ \A m \in 1 .. n : order[m] \in DOMAIN items
      /\ \A i \in DOMAIN items : \E m \in 1 .. n : order[m] = i
      /\ \A l, m \in 1 .. n : (l <= m) <=> before(order[l], order[m])
  BY RemovalIs
<1>2. n \in Nat /\ k \in Nat /\ k <= n /\ \A i \in DOMAIN items : i \in Int
  OBVIOUS
<1>3. \A l \in 0 .. n : Left(items, l) = DOMAIN items \ {order[m] : m \in 1 .. l}
  BY DEF Left
<1> HIDE DEF order, n
<1>4. \A l, m \in 1 .. n : order[l] = order[m] => l = m
  <2>1. ASSUME NEW l \in 1 .. n, NEW m \in 1 .. n, order[l] = order[m] PROVE l = m
    <3>1. before(order[l], order[m]) /\ before(order[m], order[l])
      BY <1>1, <1>2, <2>1
    <3>2. l <= m /\ m <= l
      BY <1>1, <3>1
    <3>3. QED
      BY <1>2, <3>2
  <2>2. QED
    BY <2>1
<1>5. \A j \in DOMAIN items \ kept : \E m \in 1 .. k : order[m] = j
  BY <1>2, <1>3 DEF n
<1>6. \A m \in 1 .. k : order[m] \in DOMAIN items \ kept
  <2>1. ASSUME NEW m \in 1 .. k PROVE order[m] \in DOMAIN items \ kept
    <3>1. m \in 1 .. n /\ k \in 0 .. n
      BY <1>2
    <3>2. QED
      BY <1>1, <1>3, <3>1
  <2>2. QED
    BY <2>1
<1>7. kept \subseteq DOMAIN items
  BY DEF Left
<1>8. ASSUME NEW i \in kept, NEW j \in DOMAIN items \ kept
      PROVE  Priority(items[i]) >= Priority(items[j])
  <2>1. PICK l \in 1 .. k : order[l] = j
    BY <1>5
  <2>2. PICK m \in 1 .. n : order[m] = i
    BY <1>1, <1>7
  <2>3. ~ m \in 1 .. k
    BY <1>6, <2>2
  <2>4. l \in 1 .. n /\ l <= m
    BY <1>2, <2>3
  <2>5. before(j, i)
    BY <1>1, <2>1, <2>2, <2>4
  <2>6. i \in DOMAIN items /\ j \in DOMAIN items
    BY <1>7
  <2>7. Priority(items[i]) \in Int /\ Priority(items[j]) \in Int
    BY <1>1, <2>6
  <2>8. QED
    BY <2>5, <2>7
<1>9. ASSUME NEW j \in DOMAIN items \ kept, \A i \in DOMAIN items \ kept : before(i, j)
      PROVE  WeightOf(items, kept \cup {j}) + weight > Window
  <2>1. PICK l \in 1 .. k : order[l] = j
    BY <1>5
  <2>2. k \in 1 .. k /\ k \in 1 .. n /\ l \in 1 .. n
    BY <1>2
  <2>3. before(order[k], j)
    BY <1>6, <1>9, <2>2
  <2>4. k <= l
    BY <1>1, <2>1, <2>2, <2>3
  <2>5. l = k /\ order[k] = j
    BY <1>2, <2>1, <2>4
  <2>6. kept \cup {j} = Left(items, k - 1)
    <3>1. 1 .. k = (1 .. k - 1) \cup {k} /\ k - 1 \in 0 .. n
      BY <1>2, <2>2
    <3>2. \A m \in 1 .. k - 1 : order[m] # j
      BY <1>2, <1>4, <2>2, <2>5
    <3>3. {order[m] : m \in 1 .. k} = {order[m] : m \in 1 .. k - 1} \cup {j}
      BY <2>5, <3>1
    <3>4. j \notin {order[m] : m \in 1 .. k - 1}
      BY <3>2
    <3>5. Left(items, k) = DOMAIN items \ {order[m] : m \in 1 .. k}
          /\ Left(items, k - 1) = DOMAIN items \ {order[m] : m \in 1 .. k - 1}
      BY <1>2, <1>3, <3>1
    <3>6. j \in DOMAIN items
      OBVIOUS
    <3>7. QED
      BY <3>3, <3>4, <3>5, <3>6
  <2>7. k - 1 \in 0 .. Len(items) /\ ~ (k <= k - 1)
    BY <1>2, <2>2 DEF n
  <2>8. ~ (WeightOf(items, Left(items, k - 1)) + weight <= Window)
    BY <2>7
  <2>9. WeightOf(items, kept \cup {j}) \in Nat /\ Window \in Nat
    BY <1>7, WeightType, BudgetsAssumption
  <2>10. ~ (WeightOf(items, kept \cup {j}) + weight <= Window)
    BY <2>6, <2>8
  <2> HIDE DEF kept
  <2>11. QED
    BY <2>9, <2>10
<1>10. Sent(kept).refused = FALSE /\ Sent(kept).kept = kept
  BY DEF Sent
<1> HIDE DEF kept
<1>11. WeightOf(items, kept) + weight <= Window
  BY DEF kept
<1>12. QED
  BY <1>8, <1>9, <1>10, <1>11 DEF WellPrepared, kept

LEMMA PreparedIs ==
  ASSUME NEW items \in Seq(Items), NEW weight \in Nat
  PROVE  WellPrepared(items, weight, PrepareContext(items, weight))
<1> DEFINE fitting == {k \in 0 .. Len(items) : WeightOf(items, Left(items, k)) + weight <= Window}
<1>1. CASE fitting = {}
  <2>1. weight > Window
    BY <1>1, NoneFits
  <2>2. PrepareContext(items, weight).refused
    BY <1>1 DEF PrepareContext
  <2>3. QED
    BY <2>1, <2>2 DEF WellPrepared
<1>2. CASE fitting # {}
  <2>1. fitting \in SUBSET Nat
    OBVIOUS
  <2>2. \E k \in fitting : \A l \in fitting : k <= l
    BY <1>2, <2>1, LeastNumber
  <2> DEFINE k == CHOOSE k \in fitting : \A l \in fitting : k <= l
  <2>3. k \in fitting /\ \A l \in fitting : k <= l
    BY <2>2
  <2>4. PrepareContext(items, weight) = Sent(Left(items, k))
    BY <1>2 DEF PrepareContext
  <2> HIDE DEF k
  <2>5. WellPrepared(items, weight, Sent(Left(items, k)))
    BY <2>3, FewestRemoved
  <2>6. QED
    BY <2>4, <2>5
<1>3. QED
  BY <1>1, <1>2

----------------------------------------------------------------------------
\* The history is the selection for the question, the prompt what is left of
\* it beside what the run has added.
ContextIInv ==
  /\ dialog \in Seq(Turns) /\ protected \in Nat
  /\ inquiry = <<>> => history = <<>> /\ protected = 0 /\ prompt = Sent({})
  /\ inquiry # <<>> =>
       /\ \E q \in Inquiries : inquiry = <<q>> /\ history = Select(q)
       /\ prompt = PrepareContext(history, protected)

LEMMA SayInv ==
  ASSUME ContextIInv, Say
  PROVE  ContextIInv'
<1>1. dialog' \in Seq(Turns)
  BY DEF Say, ContextIInv
<1>2. inquiry' = <<>> /\ history' = <<>> /\ protected' = 0 /\ prompt' = Sent({})
  BY DEF Say, ContextIInv
<1>3. QED
  BY <1>1, <1>2 DEF ContextIInv

LEMMA SelectKept ==
  ASSUME NEW q, dialog' = dialog
  PROVE  Select(q)' = Select(q)
<1>1. RecentTurns' = RecentTurns /\ OlderTurns' = OlderTurns
  BY DEF RecentTurns, OlderTurns
<1>2. Recent(q)' = Recent(q)
  <2>1. \A recent, p, budget : FitRecent(recent, p, budget)' = FitRecent(recent, p, budget)
    BY DEF FitRecent, Whole, Messages
  <2>2. QED
    BY <1>1, <2>1 DEF Recent, RecentBudget
<1>3. Allowed(q)' = Allowed(q)
  BY <1>1 DEF Allowed
<1>4. Ranked(q)' = Ranked(q)
  BY <1>3 DEF Ranked, Score
<1>5. Retrieved(q, Recent(q))' = Retrieved(q, Recent(q))
  <2>1. \A kept, p, budget : Retrieve(kept, p, budget)' = Retrieve(kept, p, budget)
    BY DEF Retrieve, Whole, Messages
  <2>2. QED
    BY <1>2, <1>4, <2>1 DEF Retrieved
<1>6. QED
  BY <1>2, <1>3, <1>5 DEF Select, Summarised, Summary, Rest

LEMMA InquireInv ==
  ASSUME ContextIInv, Inquire
  PROVE  ContextIInv'
<1>1. PICK q \in Inquiries : inquiry' = <<q>> /\ history' = Select(q)
  BY DEF Inquire
<1>2. dialog' = dialog /\ protected' = protected /\ prompt' = PrepareContext(history', protected)
  BY DEF Inquire
<1>3. history' = Select(q)'
  BY <1>1, <1>2, SelectKept
<1>4. inquiry' # <<>>
  BY <1>1
<1>5. QED
  BY <1>1, <1>2, <1>3, <1>4 DEF ContextIInv

LEMMA RoundInv ==
  ASSUME ContextIInv, Round
  PROVE  ContextIInv'
<1>1. PICK w \in ToolWeights : protected' = protected + w /\ prompt' = PrepareContext(history, protected + w)
  BY DEF Round
<1>2. dialog' = dialog /\ inquiry' = inquiry /\ history' = history /\ inquiry # <<>>
  BY DEF Round
<1>3. protected' \in Nat
  BY <1>1, BudgetsAssumption DEF ContextIInv
<1>4. \E q \in Inquiries : inquiry' = <<q>> /\ history' = Select(q)'
  BY <1>2, SelectKept DEF ContextIInv
<1>5. QED
  BY <1>1, <1>2, <1>3, <1>4 DEF ContextIInv

LEMMA ContextHere ==
  ASSUME ContextIInv
  PROVE  ContextInv
<1>1. CASE inquiry = <<>>
  <2>1. history = <<>> /\ protected = 0 /\ prompt.kept = {} /\ ~ prompt.refused /\ DOMAIN history = {}
    BY <1>1 DEF ContextIInv, Sent
  <2>2. HistoryBudget \in Nat /\ Window \in Nat
    BY BudgetsAssumption
  <2>3. SumOf(history) = 0 /\ WeightOf(history, prompt.kept) = 0
    BY <2>1, SumNone
  <2>4. HistoryWithinBudget
    BY <2>1, <2>2, <2>3 DEF HistoryWithinBudget
  <2>5. OtherOrdersKeptOut
    BY <2>1 DEF OtherOrdersKeptOut
  <2>6. PromptKeepsTheBest
    BY <2>1, <2>2, <2>3 DEF PromptKeepsTheBest
  <2>7. QED
    BY <2>4, <2>5, <2>6 DEF ContextInv
<1>2. CASE inquiry # <<>>
  <2>1. PICK q \in Inquiries : inquiry = <<q>> /\ history = Select(q)
    BY <1>2 DEF ContextIInv
  <2>2. WellTold(q, history)
    BY <2>1, SelectIs DEF ContextIInv
  <2>3. WellPrepared(history, protected, prompt)
    BY <1>2, <2>2, PreparedIs DEF ContextIInv, WellTold
  <2>4. HistoryWithinBudget
    BY <2>2 DEF HistoryWithinBudget, WellTold
  <2>5. OtherOrdersKeptOut
    BY <2>1, <2>2 DEF OtherOrdersKeptOut, WellTold, Allowed
  <2>6. PromptKeepsTheBest
    BY <2>3 DEF PromptKeepsTheBest, WellPrepared
  <2>7. QED
    BY <2>4, <2>5, <2>6 DEF ContextInv
<1>3. QED
  BY <1>1, <1>2

\* The history told with a question keeps to its budget, tells no turn twice
\* and, of other orders than the one asked about, only what the last turns
\* say (build_conversation_history); of it a request sends all but the least
\* important that have to go (prepare_context): for any turns, questions and
\* budgets.
THEOREM HistoryIsToldWithinBudget == ContextSpec => []ContextInv
<1>1. ContextInit => ContextIInv
  BY DEF ContextInit, ContextIInv
<1>2. ContextIInv /\ [ContextNext]_contextVars => ContextIInv'
  <2>1. CASE ContextNext
    BY <2>1, SayInv, InquireInv, RoundInv DEF ContextNext
  <2>2. ASSUME ContextIInv, UNCHANGED contextVars PROVE ContextIInv'
    <3>1. dialog' = dialog /\ inquiry' = inquiry /\ history' = history
          /\ protected' = protected /\ prompt' = prompt
      BY <2>2 DEF contextVars
    <3>2. inquiry # <<>> => \E q \in Inquiries : inquiry' = <<q>> /\ history' = Select(q)'
      BY <2>2, <3>1, SelectKept DEF ContextIInv
    <3>3. QED
      BY <2>2, <3>1, <3>2 DEF ContextIInv
  <2>3. QED
    BY <2>1, <2>2
<1>3. ContextIInv => ContextInv
  BY ContextHere
<1>4. QED
  BY <1>1, <1>2, <1>3, PTL DEF ContextSpec

=============================================================================
