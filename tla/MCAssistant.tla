---------------------------- MODULE MCAssistant ----------------------------
(***************************************************************************)
(* Systems that share no state, one of which a behaviour is of: a run of   *)
(* the graph's tool loop, the agents before it, two workers at the quota   *)
(* of the model; three uploads or reviews at a time of a document with     *)
(* text on every page and of one with a page that has none; the rules of   *)
(* the evidence gate on every passage of a few clauses, the review of two  *)
(* passages; the history told with a question; the chunks of a page, the   *)
(* store in memory, and a search for three chunks.                         *)
(***************************************************************************)
EXTENDS ToolLoop, ModelAdmission, LegacyAgents, DocumentReview,
        EvidenceGate, EvidenceReview, ContextBudget,
        Chunker, KnowledgeIngest, Retrieval, TLC

CONSTANTS full, scan, p1, p2, p3

TwoDocuments == {full, scan}
ThreePages == {p1, p2, p3}
TextOfDocuments == full :> ThreePages @@ scan :> {p1, p2}

ReviewSymmetry == Permutations(Calls) \cup Permutations({p1, p2})

\* Of one topic with a grade, one with none, and two identifiers.
Named(topics, ids, labels, types) ==
  [topics |-> topics, ids |-> ids, labels |-> labels, types |-> types, done |-> FALSE]
Urgent == {<<"refund", "emergency">>}

MCPolicyQuestions ==
  {Named({"refund"}, i, l, {"timing"}) : i \in {{}, {"A-1"}}, l \in {{}, Urgent}}
  \cup {Named({"refund"}, {}, {}, y) : y \in {{}, {"overview"}, {"procedure"}, {"timing", "procedure"}}}
  \cup {Named({}, {"A-1"}, {}, {"timing"}), Named({"refund", "invoice"}, {}, {}, {"timing"}),
        Named({}, {}, {}, {"timing"})}

MCClauses ==
  {Named(s[1], s[2], s[3], y) : y \in {{}, {"timing"}}, s \in
     {<<{}, {}, {}>>, <<{"refund"}, {}, {}>>, <<{"invoice"}, {}, {}>>, <<{"refund", "invoice"}, {}, {}>>,
      <<{}, {"A-1"}, {}>>, <<{}, {"B-2"}, {}>>, <<{"refund"}, {"A-1"}, {}>>,
      <<{}, {}, Urgent>>, <<{}, {}, {<<"refund", "standard">>}>>}}
  \cup {Named({}, {}, {}, {"procedure"}), [Named({}, {}, {}, {"timing"}) EXCEPT !.done = TRUE]}

\* Turns about no order, about one, the other, both; long and short.
Told(orders, relevance, weight, answered) ==
  [orders |-> orders, asked |-> orders \ {"B"}, relevance |-> relevance,
   weight |-> weight, answered |-> answered]

MCTurns ==
  {Told({}, 0, 1, TRUE), Told({}, 1, 2, TRUE), Told({"A"}, 10, 3, TRUE),
   Told({"B"}, 1, 1, TRUE), Told({"A", "B"}, 1, 1, FALSE)}

MCInquiries ==
  {[given |-> FALSE, orders |-> {}]} \cup {[given |-> TRUE, orders |-> o] : o \in {{}, {"A"}}}

\* A page of a few characters; chunks have four.
Line(kind, size, level, ends) == [kind |-> kind, size |-> size, level |-> level, ends |-> ends]

MCPageLines ==
  {Line("text", 2, 0, TRUE), Line("text", 3, 0, FALSE), Line("text", 9, 0, TRUE),
   Line("heading", 2, 1, FALSE), Line("heading", 5, 2, FALSE), Line("label", 1, 3, FALSE),
   Line("item", 2, 0, FALSE), Line("blank", 1, 0, FALSE)}

\* Scanned, clean, doubtful, with a rule that two chunks share, ending in a
\* table, ending in the middle of a sentence.
Page(readable, flagged, cut, head, tail) ==
  [text |-> readable, flagged |-> flagged, cut |-> cut, head |-> head, tail |-> tail]

MCPageKinds ==
  {Page(FALSE, TRUE, FALSE, "none", "none"), Page(TRUE, FALSE, FALSE, "plain", "plain"),
   Page(TRUE, TRUE, FALSE, "plain", "plain"), Page(TRUE, FALSE, TRUE, "plain", "plain"),
   Page(TRUE, FALSE, FALSE, "table", "table"), Page(TRUE, FALSE, FALSE, "plain", "open")}

MCPrefixed == {<<"guide", "guide">>, <<"guide-plus", "guide-plus">>, <<"guide", "guide-plus">>}

MCId == 1 :> 2 @@ 2 :> 3 @@ 3 :> 1
MCRelevance == 1 :> 1 @@ 2 :> 0 @@ 3 :> 2

VARIABLE part

agentVars == <<loopVars, admissionVars, legacyVars>>
knowledgeVars == <<gateVars, reviewVars, contextVars, chunkVars, ingestVars, retrievalVars>>

MCInit ==
  /\ part \in {"loop", "admission", "legacy", "review", "gate", "evidence", "context",
              "chunks", "ingest", "retrieval"}
  /\ LoopInit /\ AdmissionInit /\ LegacyInit /\ Init /\ GateInit /\ ReviewInit /\ ContextInit
  /\ ChunkInit /\ IngestInit /\ RetrievalInit
  /\ part # "loop" => question = Plain /\ setting = [mode |-> "mock", auth |-> FALSE]
  /\ part # "admission" => config = [provider |-> "ollama", admission |-> "off"]
  /\ part # "legacy" => agent = "loop"

\* Only the review of documents is never over: its calls may always come.
MCNext ==
  /\ UNCHANGED part
  /\ \/ part = "loop" /\ LoopNext
     \/ part = "admission" /\ AdmissionNext
     \/ part = "legacy" /\ LegacyNext
     \/ part = "review" /\ Next
     \/ part = "gate" /\ GateNext
     \/ part = "evidence" /\ ReviewNext
     \/ part = "context" /\ ContextNext
     \/ part = "chunks" /\ ChunkNext
     \/ part = "ingest" /\ IngestNext
     \/ part = "retrieval" /\ RetrievalNext
     \/ part # "review" /\ UNCHANGED <<agentVars, vars, knowledgeVars>>
  /\ part # "loop" => UNCHANGED loopVars
  /\ part # "admission" => UNCHANGED admissionVars
  /\ part # "legacy" => UNCHANGED legacyVars
  /\ part # "review" => UNCHANGED vars
  /\ part # "gate" => UNCHANGED gateVars
  /\ part # "evidence" => UNCHANGED reviewVars
  /\ part # "context" => UNCHANGED contextVars
  /\ part # "chunks" => UNCHANGED chunkVars
  /\ part # "ingest" => UNCHANGED ingestVars
  /\ part # "retrieval" => UNCHANGED retrievalVars

MCSpec == MCInit /\ [][MCNext]_<<part, agentVars, vars, knowledgeVars>>
=============================================================================
