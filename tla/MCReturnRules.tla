--------------------------- MODULE MCReturnRules ---------------------------
(***************************************************************************)
(* Checks ReturnRules over every combination of recorded facts, on every   *)
(* day up to MaxDay after delivery.  The steps are what can happen to the  *)
(* inputs: a day passes, or the shop records or corrects one of the facts  *)
(* about the purchase and the use of the product.                          *)
(***************************************************************************)
EXTENDS ReturnRules

CONSTANTS Promises,   \* values of merchant_no_reason_days to try
          Versions,   \* values of policy_version to try
          MaxDay      \* bound: last day looked at

\* V4__category_return_policies.sql: CHECK (merchant_no_reason_days BETWEEN 0
\* AND 365).  The day of delivery is day 0.
ASSUME PromisesAssumption == Promises \subseteq 0 .. 365 \cup {NULL} /\ NULL # 0

VARIABLES order, policy, today

rulesVars == <<order, policy, today>>

RulesInit ==
  /\ order \in [status : {"delivered", "cancelled", "shipped"}, delivered : {0}]
  /\ policy \in [category : Categories, condition : Conditions,
                 exclusionConfirmed : {"unknown"}, downloadedOrUnsealed : {"unknown"},
                 activated : {"unknown"}, merchantDays : Promises, version : Versions]
  /\ today = 0

NextDay ==
  /\ today < MaxDay
  /\ today' = today + 1
  /\ UNCHANGED <<order, policy>>

RecordFact ==
  /\ \E value \in Tri :
       \/ policy' = [policy EXCEPT !.exclusionConfirmed = value]
       \/ policy' = [policy EXCEPT !.downloadedOrUnsealed = value]
       \/ policy' = [policy EXCEPT !.activated = value]
  /\ UNCHANGED <<order, today>>

RulesNext == NextDay \/ RecordFact

RulesSpec == RulesInit /\ [][RulesNext]_rulesVars

RulesTypeOK ==
  /\ order \in [status : {"delivered", "cancelled", "shipped"}, delivered : {0}]
  /\ policy \in [category : Categories, condition : Conditions, exclusionConfirmed : Tri,
                 downloadedOrUnsealed : Tri, activated : Tri, merchantDays : Promises,
                 version : Versions]
  /\ today \in Nat

----------------------------------------------------------------------------
Verdict == Evaluate(order, policy, today)
PersonalReview == Review(Verdict, "PERSONAL_PREFERENCE")

\* The last day on which an intact product goes back without a reason, by
\* the decision table of docs/category-return-policy.md: at least seven days
\* for an ordinary product, only what the merchant promised for an excluded
\* one.
LastNoReasonDay ==
  IF ~Excluded(policy) THEN (IF policy.merchantDays > 7 THEN policy.merchantDays ELSE 7)
  ELSE IF policy.merchantDays > 0 THEN policy.merchantDays
  ELSE -1

\* The chain of early returns in ReturnEligibilityService.evaluate allows a
\* return without a reason exactly when the order is delivered, every fact
\* that matters is on record, the product is intact or merely inspected and
\* the last day is not past: no order of the checks lets one case slip.
NoReasonExactlyByTable ==
  Verdict.decision = "NO_REASON_ALLOWED" <=>
    /\ order.status = "delivered"
    /\ FactsRecorded(policy)
    /\ policy.condition \in {"INTACT", "REASONABLE_INSPECTION"}
    /\ UseRecorded(policy)
    /\ today <= LastNoReasonDay

\* An unknown category, condition or version of the policy, or an exclusion
\* nobody confirmed, neither approves nor rejects a personal reason: the
\* review sends it to a person (unknown facts "neither release automatically
\* nor take the right away").
OpenFactsGoToAPerson ==
  /\ order.status = "delivered"
  /\ \/ ~FactsRecorded(policy)
     \/ policy.condition = "UNKNOWN"
     \/ /\ policy.condition # "NOT_INTACT"
        /\ Excluded(policy)
        /\ policy.exclusionConfirmed # "yes"
        /\ today > LastNoReasonDay
  => PersonalReview.decision = "MANUAL_REVIEW"

Rank(decision) == CASE decision = "NO_REASON_ALLOWED" -> 2
                    [] decision = "REASON_REQUIRED" -> 1
                    [] decision = "NOT_ALLOWED" -> 0

\* A longer recorded promise of the merchant never leaves the customer with
\* less than a shorter one would, on any day and for any category.
LongerPromiseNeverHurts ==
  \A m \in Promises \ {NULL} :
    policy.merchantDays # NULL /\ m > policy.merchantDays
      => Rank(Evaluate(order, [policy EXCEPT !.merchantDays = m], today).decision)
           >= Rank(Verdict.decision)

\* With the facts unchanged, a passing day never opens a window that was
\* closed: an order that needs a reason today needs one tomorrow.
AgeNeverHelps ==
  \A later \in today .. MaxDay :
    Rank(Evaluate(order, policy, later).decision) <= Rank(Verdict.decision)

\* Every review the Java rules can produce is one the standalone Python
\* client return_review_client.py takes for an answer of the contract.
ReviewClientTakesEveryReview ==
  \A code \in ReasonCodes : ReviewClientAccepts(Review(Verdict, code))

\* The rules as a whole: the documented table, gaps to a person, and no turn
\* of time or promise against the customer.
RulesInv ==
  /\ NoReasonExactlyByTable
  /\ OpenFactsGoToAPerson
  /\ LongerPromiseNeverHurts
  /\ AgeNeverHelps
  /\ ReviewClientTakesEveryReview

\* The same for the client of the draft workflow, return_draft_client.py,
\* whose tests and docs promise that a review that needs a person comes back
\* as MANUAL_REVIEW, not as a failure of the service.
DraftClientTakesEveryReview ==
  \A code \in ReasonCodes : DraftClientAccepts(Review(Verdict, code))
=============================================================================
