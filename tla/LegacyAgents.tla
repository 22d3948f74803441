---------------------------- MODULE LegacyAgents ----------------------------
(***************************************************************************)
(* The two agents from before the graph: the loop of agent_loop.py, with a *)
(* bounded number of model requests, and the round trip of                 *)
(* agent_roundtrip.py behind /chat, with one tool.  The offline model of   *)
(* chat_service.py answers a round trip.                                   *)
(***************************************************************************)
EXTENDS Sequences, Naturals

CONSTANT MaxRequests     \* max_steps of run_agent

ASSUME RequestsAssumption == MaxRequests \in Nat \ {0}

VARIABLES
  agent,      \* "loop", "roundtrip" or "mock": a round trip with the offline model
  stage,      \* "ask", "run", "words", "no_evidence" or "failed"
  wants,      \* the tool of the last reply
  requests,   \* model requests
  ran         \* tools run: which, and whether there was a result

legacyVars == <<agent, stage, wants, requests, ran>>

LegacyKinds == {"record", "search", "change"}

\* Seeded fault: the final request offers the tools again.
AnotherToolTwice == requests < 2 \/ agent = "loop"

\* A loop takes a tool at every request, a round trip at its first only.
AnotherTool == requests = 0 \/ agent = "loop"

\* range(max_steps); the round trip asks twice.
MayAsk == agent = "loop" => requests < MaxRequests

\* The offline model looks a record up or proposes a change, then answers.
AskAgent ==
  /\ stage = "ask"
  /\ MayAsk
  /\ requests' = requests + 1
  /\ \/ \E tool \in IF agent = "mock" THEN LegacyKinds \ {"search"} ELSE LegacyKinds :
          /\ AnotherTool
          /\ wants' = tool
          /\ stage' = "run"
     \/ /\ agent = "loop" \/ requests > 0
        /\ stage' = "words" /\ UNCHANGED wants
     \/ /\ agent # "mock"
        /\ stage' = "failed" /\ UNCHANGED wants
  /\ UNCHANGED <<agent, ran>>

\* "maximum number of requests reached, the task is not finished".
GiveUp ==
  /\ stage = "ask"
  /\ ~MayAsk
  /\ stage' = "failed"
  /\ UNCHANGED <<agent, wants, requests, ran>>

\* Seeded fault: an empty search is told to the model.
AfterToolAsk(found) == stage' = "ask"

\* answer_when_evidence_is_missing: an empty search is the end.
AfterTool(found) == stage' = IF wants = "search" /\ ~found THEN "no_evidence" ELSE "ask"

RunTool ==
  /\ stage = "run"
  /\ \/ \E found \in BOOLEAN :
          /\ wants = "change" => found
          /\ ran' = Append(ran, [tool |-> wants, found |-> found])
          /\ AfterTool(found)
     \/ stage' = "failed" /\ UNCHANGED ran
  /\ UNCHANGED <<agent, wants, requests>>

LegacyInit ==
  /\ agent \in {"loop", "roundtrip", "mock"}
  /\ stage = "ask" /\ wants = "record" /\ requests = 0 /\ ran = <<>>

LegacyNext == AskAgent \/ GiveUp \/ RunTool

LegacySpec == LegacyInit /\ [][LegacyNext]_legacyVars

----------------------------------------------------------------------------
(* Correctness.                                                            *)

\* The numbers that agent_roundtrip.py:1 promises of a round trip, two model
\* requests and one query, and max_steps of run_agent, whatever the model
\* replies; that the query only reads is a matter of the tools.
LegacyRequestsBounded ==
  /\ requests <= IF agent = "loop" THEN MaxRequests ELSE 2
  /\ agent # "loop" => Len(ran) <= 1

\* The model's words are only taken when no search came back empty, and of a
\* round trip only after its one tool.
WordsRestOnResults ==
  stage = "words" =>
    /\ \A i \in DOMAIN ran : ran[i].tool = "search" => ran[i].found
    /\ agent # "loop" => Len(ran) = 1

\* The invariant of the older agents, whatever the model replies.
LegacyInv == LegacyRequestsBounded /\ WordsRestOnResults

----------------------------------------------------------------------------
(* Why: the inductive invariant behind the properties.                     *)

RanSteps == [tool : LegacyKinds, found : BOOLEAN]

LegacyTypeOK ==
  /\ agent \in {"loop", "roundtrip", "mock"}
  /\ stage \in {"ask", "run", "words", "no_evidence", "failed"}
  /\ wants \in LegacyKinds /\ requests \in Nat /\ ran \in Seq(RanSteps)

\* A round trip is asked once before its tool and once after it, and no agent
\* asks again after an empty search.
LegacyInduction ==
  /\ LegacyTypeOK /\ LegacyInv
  /\ agent # "loop" =>
       /\ stage = "ask" => requests <= 1 /\ Len(ran) = requests
       /\ stage = "run" => requests = 1 /\ ran = <<>>
  /\ stage \in {"ask", "run"} => \A i \in DOMAIN ran : ran[i].tool = "search" => ran[i].found
=============================================================================
