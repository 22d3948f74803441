---------------------------- MODULE ReturnRules ----------------------------
(***************************************************************************)
(* The pure business rules of the return service (business-service,        *)
(* package orders): ReturnEligibilityService.evaluate decides what an      *)
(* order's recorded facts allow on a given day, ReturnReviewService.review *)
(* decides what a submitted reason is worth under that eligibility.        *)
(* return_review_client.py and return_draft_client.py decide which of the  *)
(* reviews the Python side takes for an answer of the contract.            *)
(*                                                                         *)
(* Days are integers.  A nullable Boolean column is a member of Tri, a     *)
(* missing value of any other column is NULL.  The SHA-256 fingerprint of  *)
(* a policy is the policy record itself: equal exactly when the facts are. *)
(***************************************************************************)
EXTENDS Integers

CONSTANT NULL      \* a missing database value

Categories == {"STANDARD", "CUSTOM_MADE", "FRESH_PERISHABLE", "DIGITAL",
               "NEWSPAPER_PERIODICAL", "SEALED_HEALTH", "VALUE_SENSITIVE",
               "DISCLOSED_DISCOUNT", "UNKNOWN"}
Conditions == {"INTACT", "REASONABLE_INSPECTION", "NOT_INTACT", "UNKNOWN"}
Tri == {"yes", "no", "unknown"}
Statuses == {"processing", "shipped", "delivered", "cancelled"}
ReasonCodes == {"PERSONAL_PREFERENCE", "QUALITY_ISSUE", "OTHER"}
Decisions == {"NO_REASON_ALLOWED", "REASON_REQUIRED", "NOT_ALLOWED"}
ReviewDecisions == {"ACCEPTABLE", "REJECTED", "MANUAL_REVIEW"}

\* The codes evaluate and review give as a reason; LEGACY stands for those
\* of drafts older than the policy facts.
EligibilityReasons ==
  {"ORDER_CANCELLED", "ORDER_NOT_DELIVERED", "POLICY_FACTS_REQUIRED",
   "PRODUCT_CONDITION_UNKNOWN", "PRODUCT_NOT_INTACT", "EXCLUSION_CONFIRMATION_REQUIRED",
   "WITHIN_7_DAY_NO_REASON_WINDOW", "WITHIN_MERCHANT_NO_REASON_WINDOW",
   "NO_REASON_CATEGORY_EXCLUDED", "NO_REASON_WINDOW_EXPIRED", "LEGACY"}
ReviewReasons == EligibilityReasons \cup {"EVIDENCE_REVIEW_REQUIRED", "NO_REASON_WINDOW"}

NoReasonWindow == 7                \* NO_REASON_WINDOW_DAYS

\* OrderReturnPolicy.unknown(): what an order without a policy row has.
UnknownPolicy ==
  [category |-> "UNKNOWN", condition |-> "UNKNOWN",
   exclusionConfirmed |-> "unknown", downloadedOrUnsealed |-> "unknown",
   activated |-> "unknown", merchantDays |-> NULL, version |-> "unknown"]

\* Facts without which no window can be computed; a blank version is NULL.
FactsRecorded(policy) ==
  /\ policy.category # "UNKNOWN"
  /\ policy.version # NULL
  /\ policy.merchantDays # NULL
  /\ policy.merchantDays \in 0..365

\* The use of the product decides for three categories: was it recorded?
UseRecorded(policy) ==
  /\ policy.category \in {"DIGITAL", "SEALED_HEALTH"}
       => policy.downloadedOrUnsealed # "unknown"
  /\ policy.category = "VALUE_SENSITIVE" => policy.activated # "unknown"

\* The no-reason right is excluded by category, for some only after use.
Excluded(policy) ==
  \/ policy.category \in {"CUSTOM_MADE", "FRESH_PERISHABLE",
                          "NEWSPAPER_PERIODICAL", "DISCLOSED_DISCOUNT"}
  \/ /\ policy.category \in {"DIGITAL", "SEALED_HEALTH"}
     /\ policy.downloadedOrUnsealed = "yes"
  \/ policy.category = "VALUE_SENSITIVE" /\ policy.activated = "yes"

\* Seeded fault: the last promised day is not counted.
WithinPromiseExclusive(policy, days) ==
  policy.merchantDays > 0 /\ days < policy.merchantDays

\* Seeded fault: the comparison is reversed.
WithinPromiseReversed(policy, days) ==
  policy.merchantDays > 0 /\ days >= policy.merchantDays

WithinPromise(policy, days) ==
  policy.merchantDays > 0 /\ days <= policy.merchantDays

\* Seeded fault: a merchant's promise replaces the legal window.
WindowReplaced(policy) ==
  IF policy.merchantDays > 0 THEN policy.merchantDays
  ELSE IF Excluded(policy) THEN 0 ELSE NoReasonWindow

\* Days in which no reason is asked for; 0 when there is no such window.
Window(policy) ==
  LET legal == IF Excluded(policy) THEN 0 ELSE NoReasonWindow
  IN  IF policy.merchantDays > legal THEN policy.merchantDays ELSE legal

\* The outcome for a delivered order: the first check that fails names the
\* reason, in the order of the early returns.
WindowReason(policy, days) ==
  IF ~FactsRecorded(policy) THEN "POLICY_FACTS_REQUIRED"
  ELSE IF policy.condition = "UNKNOWN" THEN "PRODUCT_CONDITION_UNKNOWN"
  ELSE IF policy.condition = "NOT_INTACT" THEN "PRODUCT_NOT_INTACT"
  ELSE IF ~UseRecorded(policy) THEN "POLICY_FACTS_REQUIRED"
  ELSE IF /\ Excluded(policy)
          /\ policy.exclusionConfirmed # "yes"
          /\ ~WithinPromise(policy, days) THEN "EXCLUSION_CONFIRMATION_REQUIRED"
  ELSE IF Window(policy) > 0 /\ days <= Window(policy) THEN
         IF Window(policy) = NoReasonWindow THEN "WITHIN_7_DAY_NO_REASON_WINDOW"
         ELSE "WITHIN_MERCHANT_NO_REASON_WINDOW"
  ELSE IF Excluded(policy) /\ Window(policy) = 0 THEN "NO_REASON_CATEGORY_EXCLUDED"
  ELSE "NO_REASON_WINDOW_EXPIRED"

WindowReasons == {"WITHIN_7_DAY_NO_REASON_WINDOW", "WITHIN_MERCHANT_NO_REASON_WINDOW"}

\* ReturnEligibilityService.evaluate.  A delivery day after today makes the
\* code throw; callers of Evaluate see to it that today >= order.delivered.
Evaluate(order, policy, today) ==
  IF order.status = "cancelled"
  THEN [decision |-> "NOT_ALLOWED", reason |-> "ORDER_CANCELLED", fingerprint |-> NULL]
  ELSE IF order.status # "delivered" \/ order.delivered = NULL
  THEN [decision |-> "NOT_ALLOWED", reason |-> "ORDER_NOT_DELIVERED", fingerprint |-> NULL]
  ELSE LET reason == WindowReason(policy, today - order.delivered)
       IN  [decision |-> IF reason \in WindowReasons THEN "NO_REASON_ALLOWED"
                         ELSE "REASON_REQUIRED",
            reason |-> reason, fingerprint |-> policy]

CanApply(eligibility) == eligibility.decision # "NOT_ALLOWED"

\* Seeded fault: an unconfirmed exclusion is not left to a person.
OpenFactsNarrow == {"POLICY_FACTS_REQUIRED", "PRODUCT_CONDITION_UNKNOWN"}

\* Gaps in the record that a person has to close.
OpenFacts == {"POLICY_FACTS_REQUIRED", "PRODUCT_CONDITION_UNKNOWN",
              "EXCLUSION_CONFIRMATION_REQUIRED"}

\* ReturnReviewService.reviewWithEligibility for a well-formed request; its
\* last return is unreachable with the three codes there are.
Review(eligibility, code) ==
  IF eligibility.decision = "NOT_ALLOWED"
  THEN [decision |-> "REJECTED", reason |-> eligibility.reason]
  ELSE IF code \in {"QUALITY_ISSUE", "OTHER"}
  THEN [decision |-> "MANUAL_REVIEW", reason |-> "EVIDENCE_REVIEW_REQUIRED"]
  ELSE IF eligibility.decision = "NO_REASON_ALLOWED"
  THEN [decision |-> "ACCEPTABLE", reason |-> "NO_REASON_WINDOW"]
  ELSE [decision |-> IF eligibility.reason \in OpenFacts THEN "MANUAL_REVIEW" ELSE "REJECTED",
        reason |-> eligibility.reason]

----------------------------------------------------------------------------
(* The Python clients recompute the decision a reason code must come with  *)
(* and treat any other answer as a broken contract (OrderServiceError).    *)

\* The Literal of ReturnReviewResponse.reason.
ContractReasons ==
  OpenFacts \cup
  {"NO_REASON_WINDOW", "PERSONAL_REASON_OUTSIDE_WINDOW", "EVIDENCE_REVIEW_REQUIRED",
   "ORDER_CANCELLED", "ORDER_NOT_DELIVERED", "RETURN_WINDOW_EXPIRED",
   "NO_REASON_CATEGORY_EXCLUDED", "NO_REASON_WINDOW_EXPIRED", "PRODUCT_NOT_INTACT"}

DraftClientAccepts(review) ==
  /\ review.reason \in ContractReasons
  /\ review.decision =
       (IF review.reason = "NO_REASON_WINDOW" THEN "ACCEPTABLE"
        ELSE IF review.reason = "EVIDENCE_REVIEW_REQUIRED" THEN "MANUAL_REVIEW"
        ELSE "REJECTED")

ReviewClientAccepts(review) ==
  /\ review.reason \in ContractReasons
  /\ review.decision =
       (IF review.reason = "NO_REASON_WINDOW" THEN "ACCEPTABLE"
        ELSE IF review.reason \in OpenFacts \cup {"EVIDENCE_REVIEW_REQUIRED"}
        THEN "MANUAL_REVIEW" ELSE "REJECTED")
=============================================================================
