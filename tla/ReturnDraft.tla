---------------------------- MODULE ReturnDraft ----------------------------
(***************************************************************************)
(* The return drafts and applications of the business service:             *)
(* ReturnDraftService over a store whose transactions are serial, as       *)
(* InMemoryReturnDraftStore's are (one monitor) and as the row locks of    *)
(* PostgresOrderRepository and PostgresReturnDraftStore make them for the  *)
(* requests of one order.  Every public method is one action; a call that  *)
(* is refused changes nothing, and XxxOutcome names the refusal.           *)
(*                                                                         *)
(* A confirmation takes time: between the look at the clock that decides   *)
(* whether the hour is over and the one that dates the application it may  *)
(* wait for a writer of the policy, so its step may leave a later time     *)
(* behind.  No other call waits between two looks at the clock, except for *)
(* submit, whose second one decides nothing: CanApply is of any day.       *)
(*                                                                         *)
(* The orders, their return policies and the clock belong to the           *)
(* environment: no code of the repository changes an order that exists.    *)
(***************************************************************************)
EXTENDS ReturnRules, FiniteSets

CONSTANTS
  Orders,        \* ids of the orders of the customer
  Terms,         \* contents a customer confirms: product and amount
  Policies,      \* rows order_return_policies may hold; a missing row is UnknownPolicy
  OrderFacts,    \* rows orders may hold: status, delivered, terms
  Requests,      \* reason requests a client may send: text, code
  Blank,         \* a text review refuses as INVALID_RETURN_REASON
  NoDraft,       \* the order has no row in return_drafts
  Capacity,      \* drafts the service keeps (10000 in the code)
  Lifetime,      \* ticks of the clock in the hour a draft lives
  TicksPerDay,   \* ticks of the clock in a day
  LegacyOrders,  \* orders that may have a draft from before migration V4
  MaxNow,        \* bound: the clock stops here
  MaxIds         \* bound: UUIDs handed out

ASSUME CapacityAssumption == Capacity \in Nat
ASSUME ClockAssumption ==
  /\ Lifetime \in Nat \ {0}
  /\ TicksPerDay \in Nat \ {0}
  /\ MaxNow \in Nat
  /\ MaxIds \in Nat
ASSUME FactsAssumption ==
  /\ OrderFacts \subseteq [status : Statuses, delivered : Int, terms : Terms]
  /\ \A facts \in OrderFacts : facts.delivered <= 0   \* a later day would make evaluate throw
  /\ \A request \in Requests : request.code \in ReasonCodes
ASSUME LegacyAssumption == LegacyOrders \subseteq Orders

Ids == 1..MaxIds

\* Rows of return_drafts and return_applications, and offers on record.
Drafts == [id : Ids, terms : Terms, status : Statuses, delivered : Int,
           eligibility : [decision : Decisions, reason : EligibilityReasons,
                          fingerprint : Policies \cup {UnknownPolicy, NULL}],
           expires : Nat, submitted : Requests \cup {NULL},
           result : [decision : ReviewDecisions, reason : ReviewReasons] \cup {NULL},
           cancelled : BOOLEAN]
Applications == [id : Ids, draft : Ids, order : Orders, terms : Terms, created : Nat]
Offers == [draft : Ids, order : Orders, terms : Terms, status : Statuses,
           delivered : Int, fingerprint : Policies \cup {UnknownPolicy, NULL}, expires : Nat]

\* The values that stand for something missing are not values.
ASSUME SentinelAssumption ==
  /\ NULL \notin Policies
  /\ NULL # UnknownPolicy
  /\ NULL \notin Requests
  /\ NULL \notin [decision : ReviewDecisions, reason : ReviewReasons]
  /\ NoDraft \notin Drafts
  /\ NoDraft \notin [phase : {"open", "cancelled", "applied"}, id : Ids, terms : Terms]

VARIABLES
  now,           \* the service's clock, in ticks
  orders,        \* table orders
  policies,      \* table order_return_policies
  drafts,        \* table return_drafts: one row per order
  applications,  \* table return_applications
  uuids,         \* UUIDs handed out so far: 1..uuids
  offers,        \* history: the snapshot every draft id stood for
  receipts       \* history: applications returned to a caller, by draft id asked for

tables == <<drafts, applications>>
environment == <<now, orders, policies>>
history == <<offers, receipts>>
vars == <<now, orders, policies, drafts, applications, uuids, offers, receipts>>

Today == now \div TicksPerDay

----------------------------------------------------------------------------
(* Reading the tables.                                                     *)

Eligibility(o) == Evaluate(orders[o], policies[o], Today)

Drafted == {o \in Orders : drafts[o] # NoDraft}

\* find(orderId, draftId): the row, if the id is still the row's id.
Found(o, d) == drafts[o] # NoDraft /\ drafts[o].id = d

\* The LEFT JOIN of a draft with its application, on draft_id.
ApplicationsOf(d) == {a \in applications : a.draft = d}
Applied(o) == drafts[o] # NoDraft /\ ApplicationsOf(drafts[o].id) # {}

\* Seeded fault: the amount and the product are not compared.
SnapshotChangedNotTerms(o) ==
  \/ orders[o].status # drafts[o].status
  \/ orders[o].delivered # drafts[o].delivered
  \/ Eligibility(o).fingerprint # drafts[o].eligibility.fingerprint

\* Seeded fault: a policy that was never recorded counts as unchanged.
SnapshotChangedNullMatches(o) ==
  \/ orders[o].terms # drafts[o].terms
  \/ orders[o].status # drafts[o].status
  \/ orders[o].delivered # drafts[o].delivered
  \/ /\ drafts[o].eligibility.fingerprint # NULL
     /\ Eligibility(o).fingerprint # drafts[o].eligibility.fingerprint

\* orderSnapshotChanged: any fact the customer saw, or the policy, differs.
SnapshotChanged(o) ==
  \/ orders[o].terms # drafts[o].terms
  \/ orders[o].status # drafts[o].status
  \/ orders[o].delivered # drafts[o].delivered
  \/ Eligibility(o).fingerprint # drafts[o].eligibility.fingerprint

Live(o) == now < drafts[o].expires

\* describe: the status a draft is shown with.
DraftStatus(o) ==
  IF Applied(o) THEN "SUBMITTED"
  ELSE IF drafts[o].cancelled THEN "CANCELLED"
  ELSE IF drafts[o].result # NULL THEN "REVIEWED"
  ELSE IF Live(o) THEN "WAITING_REASON"
  ELSE "EXPIRED"

----------------------------------------------------------------------------
(* What a call answers.  The refusals are in the order of the checks.      *)

StartOutcome(o) ==
  IF drafts[o] # NoDraft THEN "OK"
  ELSE IF ~CanApply(Eligibility(o)) THEN "ORDER_NOT_ELIGIBLE"
  ELSE IF Cardinality(Drafted) >= Capacity THEN "DRAFT_CAPACITY_REACHED"
  ELSE "OK"

\* Seeded fault: a stored review answers whatever reason is sent.
SubmitOutcomeAnyReason(o, d, request) ==
  IF ~Found(o, d) THEN "DRAFT_NOT_FOUND"
  ELSE IF drafts[o].cancelled THEN "DRAFT_CANCELLED"
  ELSE IF drafts[o].result # NULL THEN "OK"
  ELSE IF ~Live(o) THEN "DRAFT_EXPIRED"
  ELSE IF SnapshotChanged(o) \/ ~CanApply(Eligibility(o)) THEN "ORDER_CHANGED"
  ELSE "OK"

SubmitOutcome(o, d, request) ==
  IF ~Found(o, d) THEN "DRAFT_NOT_FOUND"
  ELSE IF drafts[o].cancelled THEN "DRAFT_CANCELLED"
  ELSE IF drafts[o].result # NULL THEN
         IF drafts[o].submitted = request THEN "OK" ELSE "DRAFT_ALREADY_SUBMITTED"
  ELSE IF ~Live(o) THEN "DRAFT_EXPIRED"
  ELSE IF SnapshotChanged(o) \/ ~CanApply(Eligibility(o)) THEN "ORDER_CHANGED"
  ELSE IF request.text = Blank THEN "INVALID_RETURN_REASON"
  ELSE "OK"

\* Without a review the eligibility of the snapshot decides.
Acceptable(o) ==
  IF drafts[o].result = NULL THEN drafts[o].eligibility.decision = "NO_REASON_ALLOWED"
  ELSE drafts[o].result.decision = "ACCEPTABLE"

\* Seeded fault: confirmation asks only whether a reason was needed.
ConfirmOutcomeIgnoringReview(o, d) ==
  IF ~Found(o, d) THEN "DRAFT_NOT_FOUND"
  ELSE IF Applied(o) THEN "OK"
  ELSE IF drafts[o].cancelled THEN "DRAFT_CANCELLED"
  ELSE IF ~Live(o) THEN "DRAFT_EXPIRED"
  ELSE IF SnapshotChanged(o) \/ ~CanApply(Eligibility(o)) THEN "ORDER_CHANGED"
  ELSE IF drafts[o].eligibility.decision # "NO_REASON_ALLOWED" THEN "RETURN_NOT_ACCEPTABLE"
  ELSE "OK"

\* An application there already is answers a retry whatever happened since.
ConfirmOutcome(o, d) ==
  IF ~Found(o, d) THEN "DRAFT_NOT_FOUND"
  ELSE IF Applied(o) THEN "OK"
  ELSE IF drafts[o].cancelled THEN "DRAFT_CANCELLED"
  ELSE IF ~Live(o) THEN "DRAFT_EXPIRED"
  ELSE IF SnapshotChanged(o) \/ ~CanApply(Eligibility(o)) THEN "ORDER_CHANGED"
  ELSE IF ~Acceptable(o) THEN "RETURN_NOT_ACCEPTABLE"
  ELSE "OK"

\* Seeded fault: an application does not stop a cancellation.
CancelOutcomeAlways(o, d) == IF ~Found(o, d) THEN "DRAFT_NOT_FOUND" ELSE "OK"

CancelOutcome(o, d) ==
  IF ~Found(o, d) THEN "DRAFT_NOT_FOUND"
  ELSE IF Applied(o) THEN "APPLICATION_ALREADY_SUBMITTED"
  ELSE "OK"

\* Seeded fault: a draft that is not stale is refreshed too.
RefreshOutcomeUnchanged(o, d) ==
  IF ~Found(o, d) THEN "DRAFT_NOT_FOUND"
  ELSE IF Applied(o) THEN "APPLICATION_ALREADY_SUBMITTED"
  ELSE IF drafts[o].cancelled THEN "DRAFT_CANCELLED"
  ELSE IF ~CanApply(Eligibility(o)) THEN "ORDER_NOT_ELIGIBLE"
  ELSE "OK"

\* Seeded fault: an application does not stop a refresh.
RefreshOutcomeApplied(o, d) ==
  IF ~Found(o, d) THEN "DRAFT_NOT_FOUND"
  ELSE IF drafts[o].cancelled THEN "DRAFT_CANCELLED"
  ELSE IF ~SnapshotChanged(o) THEN "DRAFT_NOT_STALE"
  ELSE IF ~CanApply(Eligibility(o)) THEN "ORDER_NOT_ELIGIBLE"
  ELSE "OK"

RefreshOutcome(o, d) ==
  IF ~Found(o, d) THEN "DRAFT_NOT_FOUND"
  ELSE IF Applied(o) THEN "APPLICATION_ALREADY_SUBMITTED"
  ELSE IF drafts[o].cancelled THEN "DRAFT_CANCELLED"
  ELSE IF ~SnapshotChanged(o) THEN "DRAFT_NOT_STALE"
  ELSE IF ~CanApply(Eligibility(o)) THEN "ORDER_NOT_ELIGIBLE"
  ELSE "OK"

----------------------------------------------------------------------------
(* The calls that change the tables.                                       *)

\* A draft made of the order's present facts; started is expires - Lifetime.
Snapshot(o, id) ==
  [id |-> id, terms |-> orders[o].terms, status |-> orders[o].status,
   delivered |-> orders[o].delivered, eligibility |-> Eligibility(o),
   expires |-> now + Lifetime, submitted |-> NULL, result |-> NULL, cancelled |-> FALSE]

OfferOf(o, draft) ==
  [draft |-> draft.id, order |-> o, terms |-> draft.terms, status |-> draft.status,
   delivered |-> draft.delivered, fingerprint |-> draft.eligibility.fingerprint,
   expires |-> draft.expires]

\* start: an existing draft, whatever its state, is only described.
Start(o) ==
  /\ drafts[o] = NoDraft
  /\ StartOutcome(o) = "OK"
  /\ uuids < MaxIds
  /\ uuids' = uuids + 1
  /\ drafts' = [drafts EXCEPT ![o] = Snapshot(o, uuids + 1)]
  /\ offers' = offers \cup {OfferOf(o, Snapshot(o, uuids + 1))}
  /\ UNCHANGED <<environment, applications, receipts>>

\* Seeded fault: the column of the text is not written.
SubmitLosesText(o, d, request) ==
  /\ SubmitOutcome(o, d, request) = "OK"
  /\ drafts[o].result = NULL
  /\ drafts' = [drafts EXCEPT
                  ![o].submitted = [text |-> Blank, code |-> request.code],
                  ![o].result = Review(drafts[o].eligibility, request.code)]
  /\ UNCHANGED <<environment, applications, uuids, history>>

\* submit: judged by the eligibility of the snapshot, not of today.  It does
\* not look at the application, so a reason can follow one.
Submit(o, d, request) ==
  /\ SubmitOutcome(o, d, request) = "OK"
  /\ drafts[o].result = NULL
  /\ drafts' = [drafts EXCEPT
                  ![o].submitted = request,
                  ![o].result = Review(drafts[o].eligibility, request.code)]
  /\ UNCHANGED <<environment, applications, uuids, history>>

\* The application a confirmation writes, dated at the end of the call.
ApplicationFor(o, d) ==
  [id |-> uuids + 1, draft |-> d, order |-> o, terms |-> orders[o].terms, created |-> now']

\* Seeded fault: the receipt of a lost confirmation is written again.
ConfirmAgain(o, d) ==
  /\ ConfirmOutcome(o, d) = "OK"
  /\ uuids < MaxIds
  /\ uuids' = uuids + 1
  /\ now' \in now..MaxNow
  /\ applications' = applications \cup {ApplicationFor(o, d)}
  /\ receipts' = receipts \cup {[draft |-> d, application |-> ApplicationFor(o, d)]}
  /\ UNCHANGED <<orders, policies, drafts, offers>>

\* confirm: the answer is read back from the table after the write.
Confirm(o, d) ==
  /\ ConfirmOutcome(o, d) = "OK"
  /\ \/ /\ Applied(o)
        /\ receipts' = receipts \cup {[draft |-> d, application |-> a] : a \in ApplicationsOf(d)}
        /\ UNCHANGED <<now, applications, uuids>>
     \/ /\ ~Applied(o)
        /\ uuids < MaxIds
        /\ uuids' = uuids + 1
        /\ now' \in now..MaxNow
        /\ applications' = applications \cup {ApplicationFor(o, d)}
        /\ receipts' = receipts \cup {[draft |-> d, application |-> ApplicationFor(o, d)]}
  /\ UNCHANGED <<orders, policies, drafts, offers>>

\* cancel: neither the clock nor the order is looked at.
Cancel(o, d) ==
  /\ CancelOutcome(o, d) = "OK"
  /\ drafts' = [drafts EXCEPT ![o].cancelled = TRUE]
  /\ UNCHANGED <<environment, applications, uuids, history>>

\* refresh: the row gets a new id and a new snapshot, and ON UPDATE CASCADE
\* would take the applications of the old id along.
Refresh(o, d) ==
  /\ RefreshOutcome(o, d) = "OK"
  /\ uuids < MaxIds
  /\ uuids' = uuids + 1
  /\ drafts' = [drafts EXCEPT ![o] = Snapshot(o, uuids + 1)]
  /\ applications' = {IF a.draft = d THEN [a EXCEPT !.draft = uuids + 1] ELSE a : a \in applications}
  /\ offers' = offers \cup {OfferOf(o, Snapshot(o, uuids + 1))}
  /\ UNCHANGED <<environment, receipts>>

----------------------------------------------------------------------------
(* The environment: other systems write orders and policies, time passes.  *)

ChangeOrder(o) ==
  /\ \E facts \in OrderFacts : orders' = [orders EXCEPT ![o] = facts]
  /\ UNCHANGED <<now, policies, tables, uuids, history>>

ChangePolicy(o) ==
  /\ \E policy \in Policies : policies' = [policies EXCEPT ![o] = policy]
  /\ UNCHANGED <<now, orders, tables, uuids, history>>

Tick ==
  /\ now < MaxNow
  /\ now' = now + 1
  /\ UNCHANGED <<orders, policies, tables, uuids, history>>

----------------------------------------------------------------------------
\* Drafts written before V4 added policy_fingerprint: no policy on record.
LegacyDrafts ==
  [id : Ids, terms : Terms, status : {"delivered"},
   delivered : {facts.delivered : facts \in OrderFacts},
   eligibility : [decision : {"NO_REASON_ALLOWED", "REASON_REQUIRED"},
                  reason : {"LEGACY"}, fingerprint : {NULL}],
   expires : {Lifetime}, submitted : {NULL}, result : {NULL}, cancelled : {FALSE}]

Init ==
  /\ now = 0
  /\ orders \in [Orders -> OrderFacts]
  /\ policies \in [Orders -> Policies \cup {UnknownPolicy}]
  /\ applications = {}
  /\ receipts = {}
  /\ uuids \in 0..MaxIds
  /\ \E old \in SUBSET LegacyOrders : \E legacy \in [old -> LegacyDrafts] :
       /\ {legacy[o].id : o \in old} = 1..uuids
       /\ \A o1, o2 \in old : legacy[o1].id = legacy[o2].id => o1 = o2
       /\ drafts = [o \in Orders |-> IF o \in old THEN legacy[o] ELSE NoDraft]
       /\ offers = {OfferOf(o, legacy[o]) : o \in old}

Calls(o) ==
  \/ Start(o)
  \/ \E d \in Ids :
       \/ \E request \in Requests : Submit(o, d, request)
       \/ Confirm(o, d)
       \/ Cancel(o, d)
       \/ Refresh(o, d)

Environment == Tick \/ \E o \in Orders : ChangeOrder(o) \/ ChangePolicy(o)

Next == (\E o \in Orders : Calls(o)) \/ Environment

Spec == Init /\ [][Next]_vars

----------------------------------------------------------------------------
(* Correctness.                                                            *)

\* The types of the tables and of the histories.
TypeOK ==
  /\ now \in 0..MaxNow
  /\ orders \in [Orders -> OrderFacts]
  /\ policies \in [Orders -> Policies \cup {UnknownPolicy}]
  /\ drafts \in [Orders -> Drafts \cup {NoDraft}]
  /\ applications \subseteq Applications
  /\ uuids \in 0..MaxIds
  /\ offers \subseteq Offers
  /\ receipts \subseteq [draft : Ids, application : Applications]

\* An order has at most one application, though only draft_id is unique in
\* return_applications: what keeps a second one out is that a draft with an
\* application is neither refreshed nor replaced, on any path of calls.
OneApplicationPerOrder ==
  \A a1, a2 \in applications : a1.order = a2.order => a1 = a2

\* Whatever draft id a caller confirmed, and however often, the receipt it
\* got is the order's one application, and its product and amount are those
\* of the snapshot that id stood for when it was shown.
ReceiptsMatchOffers ==
  \A r \in receipts :
    /\ r.application \in applications
    /\ \E offer \in offers :
         /\ offer.draft = r.draft
         /\ offer.order = r.application.order
         /\ offer.terms = r.application.terms

\* When an application comes to exist, the order, its delivery and its policy
\* are exactly what the offer with that id showed, and its hour was not over
\* when the confirmation was checked: no interleaving of corrections,
\* refreshes and retries turns a confirmation of one content into an
\* application for another.  The application's own date may be later than the
\* hour, by as long as the call had to wait.
AuthorisedContent ==
  [][\A a \in applications' \ applications :
       \E offer \in offers :
         /\ offer.draft = a.draft
         /\ offer.order = a.order
         /\ offer.terms = a.terms
         /\ orders[a.order] = [status |-> offer.status, delivered |-> offer.delivered,
                               terms |-> offer.terms]
         /\ policies[a.order] = offer.fingerprint
         /\ now < offer.expires
         /\ now <= a.created]_vars

\* A review that did not accept the reason holds for that offer: the draft
\* cannot be confirmed around it, even if the order allowed a return
\* without any reason (docs/category-return-policy.md).
AdverseReviewStands ==
  [][\A o \in Drafted :
       /\ drafts[o].result # NULL
       /\ drafts[o].result.decision # "ACCEPTABLE"
       /\ ~Applied(o)
       => ~Applied(o)' \/ drafts'[o].id # drafts[o].id]_vars

\* Two offers for an order with no other offer in between differ in what
\* the order was: calling refresh or start again never buys another hour
\* for the same content.
NoFreeHour ==
  \A x, y \in offers :
    /\ x.order = y.order
    /\ x.draft < y.draft
    /\ ~\E z \in offers : z.order = x.order /\ x.draft < z.draft /\ z.draft < y.draft
    => <<x.terms, x.status, x.delivered, x.fingerprint>>
         # <<y.terms, y.status, y.delivered, y.fingerprint>>

----------------------------------------------------------------------------
(* Why: the inductive invariant behind the properties.                     *)

\* A draft id belongs to one order.
IdsIdentifyDrafts ==
  \A o1, o2 \in Drafted : drafts[o1].id = drafts[o2].id => o1 = o2

\* What a row says is what its id was offered as, and no id was handed out
\* for the order after it.
LatestOffer ==
  /\ \A o \in Drafted : drafts[o].id <= uuids /\ OfferOf(o, drafts[o]) \in offers
  /\ \A offer \in offers :
       /\ offer.order \in Drafted
       /\ offer.draft <= drafts[offer.order].id
       /\ offer.draft = drafts[offer.order].id
            => offer = OfferOf(offer.order, drafts[offer.order])

\* An application stays with the row it was made from.
ApplicationsStay ==
  \A a \in applications :
    /\ a.order \in Drafted
    /\ a.draft = drafts[a.order].id
    /\ a.terms = drafts[a.order].terms

ReceiptsStay ==
  \A r \in receipts : r.application \in applications /\ r.draft = r.application.draft

\* The tables and the history agree: no call leaves an application, a
\* receipt or an offer that belongs to another row than it says.
Bookkeeping ==
  /\ IdsIdentifyDrafts
  /\ LatestOffer
  /\ ApplicationsStay
  /\ ReceiptsStay
  /\ OneApplicationPerOrder

----------------------------------------------------------------------------
\* The deal each order stands at, for ReturnPromise.
DealOf(o) ==
  IF drafts[o] = NoDraft THEN NoDraft
  ELSE [phase |-> IF drafts[o].cancelled THEN "cancelled"
                  ELSE IF Applied(o) THEN "applied" ELSE "open",
        id |-> drafts[o].id, terms |-> drafts[o].terms]

Promise == INSTANCE ReturnPromise WITH
  NoDeal <- NoDraft,
  deal   <- [o \in Orders |-> DealOf(o)],
  issued <- {offer.draft : offer \in offers}

\* The draft service keeps the promise: an offer has one identity, is
\* settled once, by cancellation or application, and stays settled.
KeepsPromise == Promise!PromiseSpec
=============================================================================
