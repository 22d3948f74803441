--------------------------- MODULE EvidenceReview ---------------------------
(***************************************************************************)
(* What becomes of the passages a search found: the rules of EvidenceGate  *)
(* sort them, and in live mode a model reviews the rest and must quote     *)
(* them word for word (evidence_review.py).  A reply that is not JSON may  *)
(* be corrected once, with what is left of three HTTP requests.  Three     *)
(* callers answer with the result: the search tool of the graph, the       *)
(* policy reader of the portal, and /service/knowledge/answer.             *)
(***************************************************************************)
EXTENDS Naturals, FiniteSets

CONSTANTS
  Passages,      \* what the search found, best first: 1 .. n
  MaxLimit,      \* largest limit asked for
  ReviewAttempts \* MAX_REVIEW_HTTP_ATTEMPTS

ASSUME PassagesAssumption == Passages = 1 .. Cardinality(Passages)
ASSUME ReviewAssumption == ReviewAttempts \in Nat \ {0} /\ MaxLimit \in Nat \ {0}

VARIABLES
  policy,        \* the request: in which mode, of which model, how many
  verdict,       \* what the rules say of each passage
  exchange,      \* how far the review is, its telemetry, what was really sent
  reply,         \* the verdict of the model
  cited          \* what the answer quotes, and of which passages

reviewVars == <<policy, verdict, exchange, reply, cited>>

NoReply == [supported |-> FALSE, quotes |-> {}, missing |-> TRUE]
NoAnswer == [passages |-> {}, reviewed |-> FALSE]
Unsent == [at |-> "idle", correction |-> FALSE, http |-> 0, retries |-> 0, sent |-> 0]

Sorted(kinds) == {p \in Passages : verdict[p] \in kinds}
Reviewable == Sorted({"admit", "uncertain"})

\* The best of them, as many as asked for.
FirstOf(found) == {p \in found : Cardinality({x \in found : x < p}) < policy.limit}

Moves(at) == exchange' = [exchange EXCEPT !.at = at]

----------------------------------------------------------------------------
AskPolicy ==
  /\ exchange.at = "idle"
  /\ policy' \in [mode : {"mock", "live"}, provider : {"ollama", "cloud"}, limit : 1 .. MaxLimit]
  /\ verdict' \in [Passages -> {"admit", "uncertain", "reject"}]
  /\ Moves("sorted")
  /\ UNCHANGED <<reply, cited>>

\* Seeded fault: with a model, what the rules admit needs no review.
SortedAdmitted ==
  /\ exchange.at = "sorted"
  /\ IF Sorted({"admit"}) # {} \/ policy.mode = "mock"
     THEN cited' = [passages |-> FirstOf(Sorted({"admit"})), reviewed |-> FALSE] /\ Moves("answered")
     ELSE Moves("request") /\ UNCHANGED cited
  /\ UNCHANGED <<policy, verdict, reply>>

\* Without a model, or with nothing to review, the rules decide.
Sort ==
  /\ exchange.at = "sorted"
  /\ IF policy.mode = "mock" \/ Reviewable = {}
     THEN cited' = [passages |-> FirstOf(Sorted({"admit"})), reviewed |-> FALSE] /\ Moves("answered")
     ELSE Moves("request") /\ UNCHANGED cited
  /\ UNCHANGED <<policy, verdict, reply>>

\* Seeded fault: the correction has three requests of its own.
BudgetAfresh == IF policy.provider = "ollama" THEN 1 ELSE ReviewAttempts

Budget == IF policy.provider = "ollama" THEN 1 ELSE ReviewAttempts - exchange.http

\* Seeded fault: the first request of the correction is no retry.
CountedFresh(n) == n - 1

\* What one call of request_message_with_retry adds to retry_count, and one
\* for a correction that was sent.
CountedRetries(n) == (n - 1) + (IF exchange.correction THEN 1 ELSE 0)

\* request_message_with_retry: n requests were sent, the last one answered,
\* failed, or, of the local model, was cut off; or the quota refused the
\* first or a further one.
RequestReview ==
  /\ exchange.at = "request"
  /\ \E n \in 0 .. Budget, outcome \in {"answered", "cut_off", "failed"} :
       /\ n = 0 => outcome = "failed"
       /\ outcome = "cut_off" => policy.provider = "ollama"
       /\ exchange' = [exchange EXCEPT
            !.at = IF outcome = "answered" THEN "parse" ELSE IF outcome = "cut_off" THEN "correct" ELSE "failed",
            !.http = @ + n, !.sent = @ + n,
            !.retries = IF n = 0 THEN @ ELSE @ + CountedRetries(n)]
  /\ UNCHANGED <<policy, verdict, reply, cited>>

\* parse_evidence_review_message: an object of the form of a verdict or not,
\* something that is no JSON, a message of another role or with tool calls.
ParseReply ==
  /\ exchange.at = "parse"
  /\ \/ /\ reply' \in [supported : BOOLEAN, missing : BOOLEAN,
                       quotes : SUBSET (Passages \X {"verbatim", "made_up"} \cup {<<0, "made_up">>})]
        /\ Moves("verify")
     \/ Moves("correct") /\ UNCHANGED reply
     \/ Moves("failed") /\ UNCHANGED reply
  /\ UNCHANGED <<policy, verdict, cited>>

\* One correction, while a request is left.
Correct ==
  /\ exchange.at = "correct"
  /\ exchange' = IF exchange.correction \/ exchange.http >= ReviewAttempts
                 THEN [exchange EXCEPT !.at = "failed"]
                 ELSE [exchange EXCEPT !.at = "request", !.correction = TRUE]
  /\ UNCHANGED <<policy, verdict, reply, cited>>

Quoted == {q[1] : q \in reply.quotes}

\* Seeded fault: a quote may be of any passage the search found.
FaithfulAnyPassage == \A q \in reply.quotes : q[1] \in Passages /\ q[2] = "verbatim"

\* Every quote is verbatim in a passage that was shown.
Faithful == \A q \in reply.quotes : q[1] \in Reviewable /\ q[2] = "verbatim"

\* Seeded fault: what is over the limit is left out.
SelectedCut == FirstOf(Quoted)

\* The verdict held for all quotes together: over the limit nothing is left.
Selected == IF Cardinality(Quoted) > policy.limit THEN {} ELSE Quoted

\* verify_evidence_review: a verdict that contradicts itself breaks the
\* contract.
VerifyReply ==
  /\ exchange.at = "verify"
  /\ IF IF reply.supported THEN reply.quotes # {} /\ ~reply.missing /\ Faithful
        ELSE reply.quotes = {} /\ reply.missing
     THEN /\ cited' = [passages |-> Selected, reviewed |-> TRUE]
          /\ Moves("answered")
     ELSE Moves("failed") /\ UNCHANGED cited
  /\ UNCHANGED <<policy, verdict, reply>>

\* The run fails, the turn fails, the endpoint answers 503: no caller falls
\* back on what the rules admitted.
FailAnswer ==
  /\ exchange.at = "failed"
  /\ Moves("refused")
  /\ UNCHANGED <<policy, verdict, reply, cited>>

ReviewInit ==
  /\ policy = [mode |-> "mock", provider |-> "ollama", limit |-> 1]
  /\ verdict = [p \in Passages |-> "reject"]
  /\ exchange = Unsent
  /\ reply = NoReply
  /\ cited = NoAnswer

ReviewNext == AskPolicy \/ Sort \/ RequestReview \/ ParseReply \/ Correct \/ VerifyReply \/ FailAnswer

ReviewSpec == ReviewInit /\ [][ReviewNext]_reviewVars

----------------------------------------------------------------------------
(* Correctness.                                                            *)

\* Retries and the correction share one budget of requests ("a correction
\* with a total budget", evidence_review.py:4), the local model is asked
\* twice at most; and every request but the first is counted as a retry.
ReviewWithinBudget ==
  /\ exchange.sent <= IF policy.provider = "ollama" THEN 2 ELSE ReviewAttempts
  /\ exchange.sent > 0 => exchange.retries = exchange.sent - 1

\* With a model, an answer quotes what the model was shown and quoted, all
\* of it: neither a passage the rules rejected, nor one nobody reviewed, nor
\* a part of what was found sufficient together.
LiveAnswersReviewed ==
  policy.mode = "live" /\ cited.passages # {} =>
    /\ cited.reviewed
    /\ cited.passages = Quoted
    /\ \A p \in cited.passages : verdict[p] # "reject"

\* The invariant of a review, whatever the model replies.
CitedInv == ReviewWithinBudget /\ LiveAnswersReviewed

----------------------------------------------------------------------------
(* Why: the inductive invariant behind the properties.                     *)

Stages == {"idle", "sorted", "request", "parse", "correct", "verify", "answered", "failed", "refused"}

CitedTypeOK ==
  /\ policy \in [mode : {"mock", "live"}, provider : {"ollama", "cloud"}, limit : 1 .. MaxLimit]
  /\ verdict \in [Passages -> {"admit", "uncertain", "reject"}]
  /\ exchange \in [at : Stages, correction : BOOLEAN, http : Nat, retries : Nat, sent : Nat]

\* What was sent is what the budget knows of.  The local model is asked once,
\* and once more for the correction, which there is only of something sent.
Spent ==
  /\ exchange.sent = exchange.http
  /\ exchange.retries = IF exchange.sent = 0 THEN 0 ELSE exchange.sent - 1
  /\ exchange.at \in {"idle", "sorted"} \/ (exchange.at = "request" /\ ~exchange.correction)
       => exchange.sent = 0 /\ ~exchange.correction
  /\ exchange.correction \/ exchange.at \in {"parse", "correct"} => exchange.sent > 0
  /\ exchange.sent <= ReviewAttempts
  /\ exchange.at = "request" => exchange.sent < ReviewAttempts
  /\ policy.provider = "ollama" =>
       exchange.sent <= IF exchange.correction /\ exchange.at # "request" THEN 2 ELSE 1

CitedInduction ==
  /\ CitedTypeOK /\ Spent /\ LiveAnswersReviewed
  /\ exchange.at # "answered" => cited = NoAnswer
=============================================================================
