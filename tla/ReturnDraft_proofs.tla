------------------------ MODULE ReturnDraft_proofs -------------------------
(***************************************************************************)
(* Proofs about ReturnDraft for every set of orders, contents, policies    *)
(* and requests, every capacity, lifetime and length of a day.             *)
(***************************************************************************)
EXTENDS ReturnDraft, TLAPS

\* What an evaluation of an order's facts is, for a policy it may have.
EligibilityRecord == [decision : Decisions, reason : EligibilityReasons,
                      fingerprint : Policies \cup {UnknownPolicy, NULL}]

\* evaluate always answers with a decision, a reason and the policy it used.
LEMMA EvaluateType ==
  ASSUME NEW order, NEW policy \in Policies \cup {UnknownPolicy}, NEW today
  PROVE  Evaluate(order, policy, today) \in EligibilityRecord
<1>1. ASSUME NEW days
      PROVE  WindowReason(policy, days) \in EligibilityReasons
  BY DEF WindowReason, EligibilityReasons
<1>2. ASSUME NEW decision \in Decisions, NEW reason \in EligibilityReasons,
             NEW fingerprint \in Policies \cup {UnknownPolicy, NULL}
      PROVE  [decision |-> decision, reason |-> reason, fingerprint |-> fingerprint]
               \in EligibilityRecord
  BY DEF EligibilityRecord
<1>3. /\ "NOT_ALLOWED" \in Decisions
      /\ "NO_REASON_ALLOWED" \in Decisions
      /\ "REASON_REQUIRED" \in Decisions
  BY DEF Decisions
<1>4. NULL \in Policies \cup {UnknownPolicy, NULL}
  OBVIOUS
<1>5. "ORDER_CANCELLED" \in EligibilityReasons /\ "ORDER_NOT_DELIVERED" \in EligibilityReasons
  BY DEF EligibilityReasons
<1>6. CASE order.status = "cancelled"
  <2>1. Evaluate(order, policy, today)
          = [decision |-> "NOT_ALLOWED", reason |-> "ORDER_CANCELLED", fingerprint |-> NULL]
    BY <1>6, Zenon DEF Evaluate
  <2>2. QED
    BY <2>1, <1>2, <1>3, <1>4, <1>5, Zenon
<1>7. CASE order.status # "cancelled" /\ (order.status # "delivered" \/ order.delivered = NULL)
  <2>1. Evaluate(order, policy, today)
          = [decision |-> "NOT_ALLOWED", reason |-> "ORDER_NOT_DELIVERED", fingerprint |-> NULL]
    BY <1>7, Zenon DEF Evaluate
  <2>2. QED
    BY <2>1, <1>2, <1>3, <1>4, <1>5, Zenon
<1>8. CASE order.status # "cancelled" /\ ~(order.status # "delivered" \/ order.delivered = NULL)
  <2> DEFINE reason == WindowReason(policy, today - order.delivered)
             decision == IF reason \in WindowReasons THEN "NO_REASON_ALLOWED"
                         ELSE "REASON_REQUIRED"
  <2>1. Evaluate(order, policy, today)
          = [decision |-> decision, reason |-> reason, fingerprint |-> policy]
    BY <1>8, Zenon DEF Evaluate
  <2>2. reason \in EligibilityReasons /\ decision \in Decisions
    BY <1>1, <1>3, Zenon
  <2>3. policy \in Policies \cup {UnknownPolicy, NULL}
    OBVIOUS
  <2> HIDE DEF reason, decision
  <2>4. QED
    BY <2>1, <2>2, <2>3, <1>2, Zenon
<1>9. QED
  BY <1>6, <1>7, <1>8

\* reviewWithEligibility always answers with a decision and a reason.
LEMMA ReviewType ==
  ASSUME NEW eligibility \in EligibilityRecord, NEW code
  PROVE  Review(eligibility, code) \in [decision : ReviewDecisions, reason : ReviewReasons]
<1>1. ASSUME NEW decision \in ReviewDecisions, NEW reason \in ReviewReasons
      PROVE  [decision |-> decision, reason |-> reason]
               \in [decision : ReviewDecisions, reason : ReviewReasons]
  OBVIOUS
<1>2. /\ "REJECTED" \in ReviewDecisions
      /\ "MANUAL_REVIEW" \in ReviewDecisions
      /\ "ACCEPTABLE" \in ReviewDecisions
  BY DEF ReviewDecisions
<1>3. eligibility.reason \in ReviewReasons
  BY DEF EligibilityRecord, ReviewReasons
<1>4. "EVIDENCE_REVIEW_REQUIRED" \in ReviewReasons /\ "NO_REASON_WINDOW" \in ReviewReasons
  BY DEF ReviewReasons
<1>5. (IF eligibility.reason \in OpenFacts THEN "MANUAL_REVIEW" ELSE "REJECTED")
        \in ReviewDecisions
  BY <1>2, Zenon
<1>6. QED
  BY <1>1, <1>2, <1>3, <1>4, <1>5, Zenon DEF Review

\* The snapshot a draft is made of is a row of return_drafts.
LEMMA SnapshotType ==
  ASSUME TypeOK, NEW o \in Orders, NEW id \in Ids
  PROVE  /\ Snapshot(o, id) \in Drafts
         /\ OfferOf(o, Snapshot(o, id)) \in Offers
<1>1. Eligibility(o) \in EligibilityRecord
  BY EvaluateType DEF Eligibility, TypeOK
<1>2. /\ orders[o].terms \in Terms
      /\ orders[o].status \in Statuses
      /\ orders[o].delivered \in Int
  BY FactsAssumption DEF TypeOK
<1>3. now + Lifetime \in Nat
  BY ClockAssumption DEF TypeOK
<1>4. Snapshot(o, id) \in Drafts
  BY <1>1, <1>2, <1>3 DEF Snapshot, Drafts, EligibilityRecord
<1>5. OfferOf(o, Snapshot(o, id)) \in Offers
  BY <1>1, <1>2, <1>3 DEF Snapshot, OfferOf, Offers, EligibilityRecord
<1>6. QED
  BY <1>4, <1>5

\* A draft from before migration V4 is a row of return_drafts.
LEMMA LegacyType ==
  ASSUME NEW draft \in LegacyDrafts
  PROVE  draft \in Drafts
<1>1. draft.delivered \in Int
  <2>1. PICK facts \in OrderFacts : draft.delivered = facts.delivered
    BY DEF LegacyDrafts
  <2>2. QED
    BY <2>1, FactsAssumption
<1>2. draft.status \in Statuses
  BY DEF LegacyDrafts, Statuses
<1>3. draft.expires \in Nat
  BY ClockAssumption DEF LegacyDrafts
<1>4. draft.eligibility \in [decision : Decisions, reason : EligibilityReasons,
                             fingerprint : Policies \cup {UnknownPolicy, NULL}]
  <2>1. draft.eligibility \in [decision : {"NO_REASON_ALLOWED", "REASON_REQUIRED"},
                                reason : {"LEGACY"}, fingerprint : {NULL}]
    BY DEF LegacyDrafts
  <2>2. QED
    BY <2>1 DEF Decisions, EligibilityReasons
<1>5. QED
  BY <1>1, <1>2, <1>3, <1>4 DEF LegacyDrafts, Drafts

\* The tables start with their types (V1 to V4 of the migrations).
LEMMA TypesStart == Init => TypeOK
<1>1. SUFFICES ASSUME Init PROVE TypeOK
  OBVIOUS
<1>legacy. PICK old \in SUBSET LegacyOrders :
        \E legacy \in [old -> LegacyDrafts] :
          /\ drafts = [o \in Orders |-> IF o \in old THEN legacy[o] ELSE NoDraft]
          /\ offers = {OfferOf(o, legacy[o]) : o \in old}
  BY <1>1 DEF Init
<1>2. PICK legacy \in [old -> LegacyDrafts] :
        /\ drafts = [o \in Orders |-> IF o \in old THEN legacy[o] ELSE NoDraft]
        /\ offers = {OfferOf(o, legacy[o]) : o \in old}
  BY <1>legacy
<1>3. LegacyDrafts \subseteq Drafts
  BY LegacyType
<1>4. drafts \in [Orders -> Drafts \cup {NoDraft}]
  BY <1>2, <1>3
<1>5. offers \subseteq Offers
  BY <1>2, <1>3, LegacyAssumption DEF OfferOf, Offers, Drafts
<1>6. QED
  BY <1>1, <1>4, <1>5, ClockAssumption DEF Init, TypeOK

\* Every call keeps the types of the tables.
LEMMA TypesStep == TypeOK /\ [Next]_vars => TypeOK'
<1>1. SUFFICES ASSUME TypeOK, [Next]_vars PROVE TypeOK'
  OBVIOUS
<1>2. ASSUME NEW o \in Orders, Start(o) PROVE TypeOK'
  <2>1. uuids + 1 \in Ids /\ uuids' \in 0..MaxIds
    BY <1>1, <1>2, ClockAssumption DEF Start, TypeOK, Ids
  <2>2. QED
    BY <1>1, <1>2, <2>1, SnapshotType DEF Start, TypeOK, environment
<1>3. ASSUME NEW o \in Orders, NEW d \in Ids, NEW request \in Requests, Submit(o, d, request)
      PROVE  TypeOK'
  <2>1. drafts[o] \in Drafts
    BY <1>1, <1>3 DEF Submit, SubmitOutcome, Found, TypeOK
  <2>2. Review(drafts[o].eligibility, request.code)
          \in [decision : ReviewDecisions, reason : ReviewReasons]
    BY <2>1, ReviewType DEF Drafts, EligibilityRecord
  <2>3. drafts' \in [Orders -> Drafts \cup {NoDraft}]
    BY <1>1, <1>3, <2>1, <2>2 DEF Submit, TypeOK, Drafts
  <2>4. QED
    BY <1>1, <1>3, <2>3 DEF Submit, TypeOK, environment, history
<1>4. ASSUME NEW o \in Orders, NEW d \in Ids, Confirm(o, d) PROVE TypeOK'
  <2>1. CASE Applied(o)
    BY <1>1, <1>4, <2>1 DEF Confirm, TypeOK, ApplicationsOf
  <2>2. CASE ~Applied(o)
    <3> DEFINE application == ApplicationFor(o, d)
    <3>1. uuids + 1 \in Ids /\ uuids' \in 0..MaxIds /\ now' \in 0..MaxNow
      BY <1>1, <1>4, <2>2, ClockAssumption DEF Confirm, TypeOK, Ids
    <3>2. application \in Applications
      BY <1>1, <3>1, FactsAssumption, ClockAssumption DEF TypeOK, Applications, ApplicationFor
    <3>3. /\ applications' = applications \cup {application}
          /\ receipts' = receipts \cup {[draft |-> d, application |-> application]}
      BY <1>4, <2>2 DEF Confirm
    <3> HIDE DEF application
    <3>4. QED
      BY <1>1, <1>4, <3>1, <3>2, <3>3 DEF Confirm, TypeOK
  <2>3. QED
    BY <2>1, <2>2
<1>5. ASSUME NEW o \in Orders, NEW d \in Ids, Cancel(o, d) PROVE TypeOK'
  <2>1. drafts[o] \in Drafts
    BY <1>1, <1>5 DEF Cancel, CancelOutcome, Found, TypeOK
  <2>2. drafts' \in [Orders -> Drafts \cup {NoDraft}]
    BY <1>1, <1>5, <2>1 DEF Cancel, TypeOK, Drafts
  <2>3. QED
    BY <1>1, <1>5, <2>2 DEF Cancel, TypeOK, environment, history
<1>6. ASSUME NEW o \in Orders, NEW d \in Ids, Refresh(o, d) PROVE TypeOK'
  <2>1. uuids + 1 \in Ids /\ uuids' \in 0..MaxIds
    BY <1>1, <1>6, ClockAssumption DEF Refresh, TypeOK, Ids
  <2>2. applications' \subseteq Applications
    BY <1>1, <1>6, <2>1 DEF Refresh, TypeOK, Applications
  <2>3. QED
    BY <1>1, <1>6, <2>1, <2>2, SnapshotType DEF Refresh, TypeOK, environment
<1>7. ASSUME Environment PROVE TypeOK'
  <2>1. ASSUME Tick PROVE TypeOK'
    BY <1>1, <2>1, ClockAssumption DEF Tick, TypeOK, tables, history
  <2>2. ASSUME NEW o \in Orders, ChangeOrder(o) PROVE TypeOK'
    BY <1>1, <2>2 DEF ChangeOrder, TypeOK, tables, history
  <2>3. ASSUME NEW o \in Orders, ChangePolicy(o) PROVE TypeOK'
    BY <1>1, <2>3 DEF ChangePolicy, TypeOK, tables, history
  <2>4. QED
    BY <1>7, <2>1, <2>2, <2>3 DEF Environment
<1>8. CASE UNCHANGED vars
  BY <1>1, <1>8 DEF vars, TypeOK
<1>9. QED
  BY <1>1, <1>2, <1>3, <1>4, <1>5, <1>6, <1>7, <1>8 DEF Next, Calls

\* The tables keep their types through every call.
THEOREM TypeCorrect == Spec => []TypeOK
BY TypesStart, TypesStep, PTL DEF Spec

----------------------------------------------------------------------------
\* A new draft's row under a fresh id, for an order without an application,
\* keeps the books: start and refresh have this in common.
LEMMA NewOffer ==
  ASSUME TypeOK, Bookkeeping,
         NEW o \in Orders,
         uuids + 1 \in Ids,
         ~Applied(o),
         drafts' = [drafts EXCEPT ![o] = Snapshot(o, uuids + 1)],
         offers' = offers \cup {OfferOf(o, Snapshot(o, uuids + 1))},
         uuids' = uuids + 1,
         UNCHANGED <<applications, receipts>>
  PROVE  Bookkeeping'
<1> DEFINE new == Snapshot(o, uuids + 1)
<1>1. /\ new \in Drafts
      /\ new # NoDraft
      /\ new.id = uuids + 1
  BY SnapshotType, SentinelAssumption DEF Snapshot
<1>2. /\ drafts'[o] = new
      /\ \A p \in Orders \ {o} : drafts'[p] = drafts[p]
      /\ Drafted' = Drafted \cup {o}
  BY <1>1 DEF TypeOK, Drafted
<1>3. uuids \in Nat /\ \A p \in Drafted : drafts[p].id \in Nat /\ drafts[p].id <= uuids
  BY DEF Bookkeeping, LatestOffer, TypeOK, Drafted, Drafts, Ids
<1>4. \A offer \in offers : /\ offer.draft \in Nat
                            /\ offer.order \in Drafted
                            /\ offer.draft <= drafts[offer.order].id
  BY DEF Bookkeeping, LatestOffer, TypeOK, Offers, Ids
<1>5. OfferOf(o, new).draft = uuids + 1 /\ OfferOf(o, new).order = o
  BY <1>1 DEF OfferOf
<1>6. \A a \in applications : a.order # o
  BY DEF Bookkeeping, ApplicationsStay, Applied, ApplicationsOf, Drafted
<1> HIDE DEF new
<1>7. IdsIdentifyDrafts'
  BY <1>1, <1>2, <1>3 DEF IdsIdentifyDrafts, Bookkeeping, Drafted
<1>8. LatestOffer'
  <2>1. ASSUME NEW p \in Drafted'
        PROVE  drafts'[p].id <= uuids' /\ OfferOf(p, drafts'[p]) \in offers'
    <3>1. CASE p = o
      BY <1>1, <1>2, <1>3, <3>1 DEF new
    <3>2. CASE p # o
      <4>1. p \in Drafted /\ drafts'[p] = drafts[p]
        BY <1>2, <3>2 DEF Drafted
      <4>2. OfferOf(p, drafts[p]) \in offers
        BY <4>1 DEF Bookkeeping, LatestOffer
      <4>3. QED
        BY <1>3, <4>1, <4>2 DEF OfferOf
    <3>3. QED
      BY <3>1, <3>2
  <2>2. ASSUME NEW offer \in offers'
        PROVE  /\ offer.order \in Drafted'
               /\ offer.draft <= drafts'[offer.order].id
               /\ offer.draft = drafts'[offer.order].id
                    => offer = OfferOf(offer.order, drafts'[offer.order])
    <3>1. CASE offer = OfferOf(o, new)
      BY <1>1, <1>2, <1>3, <1>5, <3>1
    <3>2. CASE offer \in offers /\ offer.order = o
      BY <1>1, <1>2, <1>3, <1>4, <3>2
    <3>3. CASE offer \in offers /\ offer.order # o
      <4>1. /\ offer.order \in Drafted
            /\ offer.draft <= drafts[offer.order].id
            /\ offer.draft = drafts[offer.order].id
                 => offer = OfferOf(offer.order, drafts[offer.order])
        BY <3>3 DEF Bookkeeping, LatestOffer
      <4>2. drafts'[offer.order] = drafts[offer.order]
        BY <1>2, <3>3, <4>1 DEF Drafted
      <4>3. QED
        BY <1>2, <4>1, <4>2 DEF OfferOf
    <3>4. QED
      BY <3>1, <3>2, <3>3 DEF new
  <2>3. QED
    BY <2>1, <2>2 DEF LatestOffer, OfferOf
<1>9. ApplicationsStay'
  BY <1>2, <1>6 DEF ApplicationsStay, Bookkeeping, Drafted
<1>10. ReceiptsStay' /\ OneApplicationPerOrder'
  BY DEF ReceiptsStay, OneApplicationPerOrder, Bookkeeping
<1>11. QED
  BY <1>7, <1>8, <1>9, <1>10 DEF Bookkeeping

\* A step that rewrites only what a row says about the reason or the
\* cancellation keeps the books: submit and cancel have this in common.
LEMMA RowRewritten ==
  ASSUME TypeOK, Bookkeeping,
         NEW o \in Drafted, NEW row,
         row # NoDraft,
         row.id = drafts[o].id,
         OfferOf(o, row) = OfferOf(o, drafts[o]),
         row.terms = drafts[o].terms,
         drafts' = [drafts EXCEPT ![o] = row],
         UNCHANGED <<applications, uuids, offers, receipts>>
  PROVE  Bookkeeping'
<1>1. /\ Drafted' = Drafted
      /\ \A p \in Drafted : /\ drafts'[p].id = drafts[p].id
                            /\ drafts'[p].terms = drafts[p].terms
                            /\ p # o => drafts'[p] = drafts[p]
      /\ drafts'[o] = row
  BY DEF TypeOK, Drafted
<1>2. \A p \in Drafted : OfferOf(p, drafts'[p]) = OfferOf(p, drafts[p])
  BY <1>1
<1>3. IdsIdentifyDrafts'
  BY <1>1 DEF IdsIdentifyDrafts, Bookkeeping
<1>4. LatestOffer'
  BY <1>1, <1>2 DEF LatestOffer, Bookkeeping, OfferOf
<1>5. ApplicationsStay'
  BY <1>1 DEF ApplicationsStay, Bookkeeping
<1>6. ReceiptsStay' /\ OneApplicationPerOrder'
  BY DEF ReceiptsStay, OneApplicationPerOrder, Bookkeeping
<1>7. QED
  BY <1>3, <1>4, <1>5, <1>6 DEF Bookkeeping

\* A confirmation adds the first application of its order, or none.
LEMMA ConfirmKeepsBooks ==
  ASSUME TypeOK, Bookkeeping, NEW o \in Orders, NEW d \in Ids, Confirm(o, d)
  PROVE  Bookkeeping'
<1>1. /\ o \in Drafted
      /\ drafts[o].id = d
      /\ UNCHANGED <<drafts, offers>>
  BY DEF Confirm, ConfirmOutcome, Found, Drafted
<1>2. Drafted' = Drafted
  BY <1>1 DEF Drafted
<1>3. IdsIdentifyDrafts'
  BY <1>1, <1>2 DEF IdsIdentifyDrafts, Bookkeeping
<1>4. uuids' \in {uuids, uuids + 1} /\ uuids \in Nat /\ \A p \in Drafted : drafts[p].id \in Nat
  BY DEF Confirm, TypeOK, Drafted, Drafts, Ids
<1>5. LatestOffer'
  BY <1>1, <1>2, <1>4 DEF LatestOffer, Bookkeeping, OfferOf
<1>6. CASE Applied(o)
  <2>1. UNCHANGED applications
        /\ receipts' = receipts \cup {[draft |-> d, application |-> a] : a \in ApplicationsOf(d)}
    BY <1>6 DEF Confirm
  <2>2. ReceiptsStay'
    BY <2>1 DEF ReceiptsStay, Bookkeeping, ApplicationsOf
  <2>3. QED
    BY <1>1, <1>2, <1>3, <1>5, <2>1, <2>2
    DEF Bookkeeping, ApplicationsStay, OneApplicationPerOrder
<1>7. CASE ~Applied(o)
  <2> DEFINE application == ApplicationFor(o, d)
  <2>1. /\ applications' = applications \cup {application}
        /\ receipts' = receipts \cup {[draft |-> d, application |-> application]}
    BY <1>7 DEF Confirm
  <2>a. /\ application.order = o
        /\ application.draft = d
        /\ application.terms = orders[o].terms
    BY DEF ApplicationFor
  <2> HIDE DEF application
  <2>2. orders[o].terms = drafts[o].terms
    BY <1>7 DEF Confirm, ConfirmOutcome, SnapshotChanged
  <2>3. \A a \in applications : a.order # o
    BY <1>1, <1>7 DEF Bookkeeping, ApplicationsStay, Applied, ApplicationsOf, Drafted
  <2>4. ApplicationsStay'
    BY <1>1, <1>2, <2>1, <2>2, <2>a DEF ApplicationsStay, Bookkeeping
  <2>5. ReceiptsStay'
    BY <2>1, <2>a DEF ReceiptsStay, Bookkeeping
  <2>6. OneApplicationPerOrder'
    BY <2>1, <2>3, <2>a DEF OneApplicationPerOrder, Bookkeeping
  <2>7. QED
    BY <1>3, <1>5, <2>4, <2>5, <2>6 DEF Bookkeeping
<1>8. QED
  BY <1>6, <1>7

\* A refreshed draft has no application, so the cascade moves none.
LEMMA RefreshMovesNothing ==
  ASSUME TypeOK, NEW o \in Orders, NEW d \in Ids, Refresh(o, d)
  PROVE  UNCHANGED applications /\ ~Applied(o) /\ o \in Drafted /\ drafts[o].id = d
<1>1. ~Applied(o) /\ o \in Drafted /\ drafts[o].id = d
  BY DEF Refresh, RefreshOutcome, Found, Drafted
<1>2. \A a \in applications : a.draft # d
  BY <1>1 DEF Applied, ApplicationsOf, Drafted
<1>3. QED
  BY <1>1, <1>2 DEF Refresh

\* The books agree when the service starts.
LEMMA BooksStart == Init => Bookkeeping
<1>1. SUFFICES ASSUME Init PROVE Bookkeeping
  OBVIOUS
<1>legacy. PICK old \in SUBSET LegacyOrders :
        \E legacy \in [old -> LegacyDrafts] :
          /\ {legacy[o].id : o \in old} = 1..uuids
          /\ \A o1, o2 \in old : legacy[o1].id = legacy[o2].id => o1 = o2
          /\ drafts = [o \in Orders |-> IF o \in old THEN legacy[o] ELSE NoDraft]
          /\ offers = {OfferOf(o, legacy[o]) : o \in old}
  BY <1>1 DEF Init
<1>2. PICK legacy \in [old -> LegacyDrafts] :
        /\ {legacy[o].id : o \in old} = 1..uuids
        /\ \A o1, o2 \in old : legacy[o1].id = legacy[o2].id => o1 = o2
        /\ drafts = [o \in Orders |-> IF o \in old THEN legacy[o] ELSE NoDraft]
        /\ offers = {OfferOf(o, legacy[o]) : o \in old}
  BY <1>legacy
<1>3. \A o \in old : legacy[o] \in Drafts /\ legacy[o] # NoDraft
  BY LegacyType, SentinelAssumption
<1>4. Drafted = old /\ \A o \in Drafted : drafts[o] = legacy[o]
  BY <1>2, <1>3, LegacyAssumption DEF Drafted
<1>5. IdsIdentifyDrafts
  BY <1>2, <1>4 DEF IdsIdentifyDrafts
<1>6. LatestOffer
  <2>1. \A o \in Drafted : drafts[o].id <= uuids /\ OfferOf(o, drafts[o]) \in offers
    <3>1. \A o \in old : legacy[o].id \in 1..uuids
      BY <1>2
    <3>2. \A o \in old : OfferOf(o, legacy[o]) \in offers
      BY <1>2
    <3>3. QED
      BY <1>4, <3>1, <3>2
  <2>2. ASSUME NEW offer \in offers
        PROVE  /\ offer.order \in Drafted
               /\ offer.draft <= drafts[offer.order].id
               /\ offer = OfferOf(offer.order, drafts[offer.order])
    <3>1. PICK o \in old : offer = OfferOf(o, legacy[o])
      BY <1>2
    <3>2. offer.order = o /\ offer.draft = legacy[o].id /\ legacy[o].id \in Nat
      BY <1>3, <3>1 DEF OfferOf, Drafts, Ids
    <3>3. QED
      BY <1>4, <3>1, <3>2
  <2>3. QED
    BY <2>1, <2>2 DEF LatestOffer
<1>7. ApplicationsStay /\ ReceiptsStay /\ OneApplicationPerOrder
  BY <1>1 DEF Init, ApplicationsStay, ReceiptsStay, OneApplicationPerOrder
<1>8. QED
  BY <1>5, <1>6, <1>7 DEF Bookkeeping

\* Every call keeps the books.
LEMMA BooksStep == TypeOK /\ Bookkeeping /\ [Next]_vars => Bookkeeping'
<1>1. SUFFICES ASSUME TypeOK, Bookkeeping, [Next]_vars PROVE Bookkeeping'
  OBVIOUS
<1>2. ASSUME NEW o \in Orders, Start(o) PROVE Bookkeeping'
  <2>1. uuids + 1 \in Ids /\ ~Applied(o)
    BY <1>1, <1>2, ClockAssumption DEF Start, TypeOK, Ids, Applied
  <2>2. QED
    BY <1>1, <1>2, <2>1, NewOffer DEF Start
<1>3. ASSUME NEW o \in Orders, NEW d \in Ids, NEW request \in Requests, Submit(o, d, request)
      PROVE  Bookkeeping'
  <2> DEFINE row == [drafts[o] EXCEPT !.submitted = request,
                                      !.result = Review(drafts[o].eligibility, request.code)]
  <2>1. o \in Drafted /\ drafts[o] \in Drafts
    BY <1>1, <1>3 DEF Submit, SubmitOutcome, Found, Drafted, TypeOK
  <2>2. row \in Drafts
    BY <1>3, <2>1, ReviewType DEF Drafts, EligibilityRecord
  <2>3. row # NoDraft /\ row.id = drafts[o].id /\ row.terms = drafts[o].terms
        /\ OfferOf(o, row) = OfferOf(o, drafts[o])
    BY <2>1, <2>2, SentinelAssumption DEF OfferOf, Drafts
  <2>4. drafts' = [drafts EXCEPT ![o] = row]
    BY <1>1, <1>3, <2>1 DEF Submit, TypeOK
  <2> HIDE DEF row
  <2>5. QED
    BY <1>1, <1>3, <2>1, <2>3, <2>4, RowRewritten DEF Submit, history
<1>4. ASSUME NEW o \in Orders, NEW d \in Ids, Confirm(o, d) PROVE Bookkeeping'
  BY <1>1, <1>4, ConfirmKeepsBooks
<1>5. ASSUME NEW o \in Orders, NEW d \in Ids, Cancel(o, d) PROVE Bookkeeping'
  <2> DEFINE row == [drafts[o] EXCEPT !.cancelled = TRUE]
  <2>1. o \in Drafted /\ drafts[o] \in Drafts
    BY <1>1, <1>5 DEF Cancel, CancelOutcome, Found, Drafted, TypeOK
  <2>2. row \in Drafts
    BY <2>1 DEF Drafts
  <2>3. row # NoDraft /\ row.id = drafts[o].id /\ row.terms = drafts[o].terms
        /\ OfferOf(o, row) = OfferOf(o, drafts[o])
    BY <2>1, <2>2, SentinelAssumption DEF OfferOf, Drafts
  <2>4. drafts' = [drafts EXCEPT ![o] = row]
    BY <1>1, <1>5, <2>1 DEF Cancel, TypeOK
  <2> HIDE DEF row
  <2>5. QED
    BY <1>1, <1>5, <2>1, <2>3, <2>4, RowRewritten DEF Cancel, history
<1>6. ASSUME NEW o \in Orders, NEW d \in Ids, Refresh(o, d) PROVE Bookkeeping'
  <2>1. uuids + 1 \in Ids
    BY <1>1, <1>6, ClockAssumption DEF Refresh, TypeOK, Ids
  <2>2. UNCHANGED applications /\ ~Applied(o)
    BY <1>1, <1>6, RefreshMovesNothing
  <2>3. QED
    BY <1>1, <1>6, <2>1, <2>2, NewOffer DEF Refresh
<1>7. ASSUME UNCHANGED <<drafts, applications, uuids, offers, receipts>> PROVE Bookkeeping'
  <2>1. Drafted' = Drafted
    BY <1>7 DEF Drafted
  <2>2. QED
    BY <1>1, <1>7, <2>1 DEF Bookkeeping, IdsIdentifyDrafts, LatestOffer, ApplicationsStay,
                            ReceiptsStay, OneApplicationPerOrder, OfferOf
<1>8. QED
  BY <1>1, <1>2, <1>3, <1>4, <1>5, <1>6, <1>7
  DEF Next, Calls, Environment, Tick, ChangeOrder, ChangePolicy, tables, history, vars

\* The books are kept by every call, whatever the environment does to the
\* orders in between.
THEOREM BooksKept == Spec => []Bookkeeping
BY BooksStart, BooksStep, TypeCorrect, PTL DEF Spec

\* An order has at most one application.
THEOREM AtMostOneApplication == Spec => []OneApplicationPerOrder
<1>1. Bookkeeping => OneApplicationPerOrder
  BY DEF Bookkeeping
<1>2. QED
  BY <1>1, BooksKept, PTL

\* Every receipt is the application of the order whose snapshot its draft
\* id stood for, with that snapshot's product and amount.
THEOREM ReceiptsHonest == Spec => []ReceiptsMatchOffers
<1>1. Bookkeeping => ReceiptsMatchOffers
  <2>1. SUFFICES ASSUME Bookkeeping, NEW r \in receipts
                 PROVE  /\ r.application \in applications
                        /\ \E offer \in offers :
                             /\ offer.draft = r.draft
                             /\ offer.order = r.application.order
                             /\ offer.terms = r.application.terms
    BY DEF ReceiptsMatchOffers
  <2> DEFINE a == r.application
             offer == OfferOf(a.order, drafts[a.order])
  <2>2. a \in applications /\ r.draft = a.draft
    BY <2>1 DEF Bookkeeping, ReceiptsStay
  <2>3. a.order \in Drafted /\ a.draft = drafts[a.order].id /\ a.terms = drafts[a.order].terms
    BY <2>1, <2>2 DEF Bookkeeping, ApplicationsStay
  <2>4. offer \in offers
    BY <2>1, <2>3 DEF Bookkeeping, LatestOffer
  <2>5. offer.draft = r.draft /\ offer.order = a.order /\ offer.terms = a.terms
    BY <2>2, <2>3 DEF OfferOf
  <2>6. QED
    BY <2>2, <2>4, <2>5
<1>2. QED
  BY <1>1, BooksKept, PTL

\* An eligibility that lets a return be asked for names the policy it used.
LEMMA FingerprintIsPolicy ==
  ASSUME NEW order, NEW policy, NEW today, CanApply(Evaluate(order, policy, today))
  PROVE  Evaluate(order, policy, today).fingerprint = policy
BY Zenon DEF CanApply, Evaluate

\* The only step that makes an application is the confirmation of a live
\* offer, whose facts are the order's and the policy's at that moment.
LEMMA NewApplicationStep ==
  ASSUME TypeOK, [Next]_vars, NEW a \in applications' \ applications
  PROVE  \E o \in Orders, d \in Ids :
           /\ Confirm(o, d)
           /\ ~Applied(o)
           /\ a = ApplicationFor(o, d)
           /\ now' \in now..MaxNow
<1>1. CASE \E o \in Orders, d \in Ids : Confirm(o, d)
  <2>1. PICK o \in Orders, d \in Ids : Confirm(o, d)
    BY <1>1
  <2>2. ~Applied(o)
    BY <2>1 DEF Confirm
  <2>3. QED
    BY <2>1, <2>2 DEF Confirm
<1>2. CASE \E o \in Orders, d \in Ids : Refresh(o, d)
  BY <1>2, RefreshMovesNothing
<1>3. CASE UNCHANGED applications
  BY <1>3
<1>4. QED
  BY <1>1, <1>2, <1>3
  DEF Next, Calls, Environment, Start, Submit, Cancel, Tick, ChangeOrder, ChangePolicy,
      tables, history, environment, vars

\* An application is made only for the content, the delivery and the policy
\* its offer showed, by a confirmation that was checked within that offer's
\* hour; how much later it is dated is not bounded.
THEOREM ContentAuthorised == Spec => AuthorisedContent
<1>1. TypeOK /\ Bookkeeping /\ [Next]_vars =>
        [\A a \in applications' \ applications :
           \E offer \in offers :
             /\ offer.draft = a.draft
             /\ offer.order = a.order
             /\ offer.terms = a.terms
             /\ orders[a.order] = [status |-> offer.status, delivered |-> offer.delivered,
                                   terms |-> offer.terms]
             /\ policies[a.order] = offer.fingerprint
             /\ now < offer.expires
             /\ now <= a.created]_vars
  <2>1. SUFFICES ASSUME TypeOK, Bookkeeping, [Next]_vars, NEW a \in applications' \ applications
                 PROVE  \E offer \in offers :
                          /\ offer.draft = a.draft
                          /\ offer.order = a.order
                          /\ offer.terms = a.terms
                          /\ orders[a.order] = [status |-> offer.status,
                                                delivered |-> offer.delivered,
                                                terms |-> offer.terms]
                          /\ policies[a.order] = offer.fingerprint
                          /\ now < offer.expires
                          /\ now <= a.created
    OBVIOUS
  <2>2. PICK o \in Orders, d \in Ids :
          /\ Confirm(o, d)
          /\ ~Applied(o)
          /\ a = ApplicationFor(o, d)
          /\ now' \in now..MaxNow
    BY <2>1, NewApplicationStep
  <2>a. a.draft = d /\ a.order = o /\ a.terms = orders[o].terms /\ a.created = now'
    BY <2>2 DEF ApplicationFor
  <2> DEFINE offer == OfferOf(o, drafts[o])
  <2>3. /\ o \in Drafted
        /\ drafts[o].id = d
        /\ Live(o)
        /\ ~SnapshotChanged(o)
        /\ CanApply(Eligibility(o))
    BY <2>2 DEF Confirm, ConfirmOutcome, Found, Drafted
  <2>4. offer \in offers
    BY <2>1, <2>3 DEF Bookkeeping, LatestOffer
  <2>5. orders[o] \in [status : Statuses, delivered : Int, terms : Terms]
    BY <2>1, FactsAssumption DEF TypeOK
  <2>6. /\ orders[o].terms = drafts[o].terms
        /\ orders[o].status = drafts[o].status
        /\ orders[o].delivered = drafts[o].delivered
        /\ Eligibility(o).fingerprint = drafts[o].eligibility.fingerprint
    BY <2>3 DEF SnapshotChanged
  <2>7. Eligibility(o).fingerprint = policies[o]
    BY <2>3, FingerprintIsPolicy DEF Eligibility
  <2>8. orders[o] = [status |-> offer.status, delivered |-> offer.delivered,
                     terms |-> offer.terms]
    BY <2>5, <2>6 DEF OfferOf
  <2>9. now < offer.expires /\ now <= a.created
    <3>1. now < offer.expires
      BY <2>3 DEF Live, OfferOf
    <3>2. now <= now'
      BY <2>1, <2>2, ClockAssumption DEF TypeOK
    <3>3. QED
      BY <2>a, <3>1, <3>2
  <2>10. QED
    BY <2>a, <2>3, <2>4, <2>6, <2>7, <2>8, <2>9 DEF OfferOf
<1>2. QED
  BY <1>1, TypeCorrect, BooksKept, PTL DEF Spec, AuthorisedContent

\* A review that did not accept the reason is not got around: the only step
\* that makes an application for the row asks the row's own review.
THEOREM ReviewBinds == Spec => AdverseReviewStands
<1>1. TypeOK /\ Bookkeeping /\ [Next]_vars =>
        [\A o \in Drafted :
           /\ drafts[o].result # NULL
           /\ drafts[o].result.decision # "ACCEPTABLE"
           /\ ~Applied(o)
           => ~Applied(o)' \/ drafts'[o].id # drafts[o].id]_vars
  <2>1. SUFFICES ASSUME TypeOK, Bookkeeping, [Next]_vars, NEW o \in Drafted,
                        drafts[o].result # NULL,
                        drafts[o].result.decision # "ACCEPTABLE",
                        ~Applied(o), Applied(o)', drafts'[o].id = drafts[o].id
                 PROVE  FALSE
    OBVIOUS
  <2>2. PICK a \in applications' : a.draft = drafts[o].id
    BY <2>1 DEF Applied, ApplicationsOf
  <2>3. a \notin applications
    BY <2>1, <2>2 DEF Applied, ApplicationsOf, Drafted
  <2>4. PICK p \in Orders, d \in Ids :
          /\ Confirm(p, d)
          /\ ~Applied(p)
          /\ a = ApplicationFor(p, d)
    BY <2>1, <2>2, <2>3, NewApplicationStep
  <2>a. a.draft = d
    BY <2>4 DEF ApplicationFor
  <2>5. p \in Drafted /\ drafts[p].id = d /\ Acceptable(p)
    BY <2>4 DEF Confirm, ConfirmOutcome, Found, Drafted
  <2>6. p = o
    BY <2>1, <2>2, <2>a, <2>5 DEF Bookkeeping, IdsIdentifyDrafts
  <2>7. QED
    BY <2>1, <2>5, <2>6 DEF Acceptable
<1>2. QED
  BY <1>1, TypeCorrect, BooksKept, PTL DEF Spec, AdverseReviewStands

----------------------------------------------------------------------------
\* What an offer shows of the order, apart from its identity and its hour.
Content(offer) == <<offer.terms, offer.status, offer.delivered, offer.fingerprint>>

\* The latest id of an order is its row's: a new offer needs to differ from
\* that row only.
LEMMA LaterOffer ==
  ASSUME TypeOK, Bookkeeping, NoFreeHour, NEW o \in Orders, uuids + 1 \in Ids,
         offers' = offers \cup {OfferOf(o, Snapshot(o, uuids + 1))},
         drafts[o] = NoDraft
           \/ Content(OfferOf(o, drafts[o])) # Content(OfferOf(o, Snapshot(o, uuids + 1)))
  PROVE  NoFreeHour'
<1> DEFINE new == OfferOf(o, Snapshot(o, uuids + 1))
<1>1. new.order = o /\ new.draft = uuids + 1
  BY DEF OfferOf, Snapshot
<1>2. \A offer \in offers : /\ offer.order \in Drafted
                            /\ offer.draft \in Nat
                            /\ offer.draft <= drafts[offer.order].id
                            /\ drafts[offer.order].id \in Nat
                            /\ drafts[offer.order].id <= uuids
  BY DEF Bookkeeping, LatestOffer, TypeOK, Offers, Drafted, Drafts, Ids
<1>3. uuids \in Nat
  BY DEF TypeOK
<1>4. SUFFICES ASSUME NEW x \in offers', NEW y \in offers',
                      x.order = y.order, x.draft < y.draft,
                      ~\E z \in offers' : /\ z.order = x.order
                                          /\ x.draft < z.draft
                                          /\ z.draft < y.draft
               PROVE  Content(x) # Content(y)
  BY DEF NoFreeHour, Content
<1>5. x # new
  <2>1. SUFFICES ASSUME x = new PROVE FALSE
    OBVIOUS
  <2>2. CASE y = new
    BY <1>1, <1>3, <1>4, <2>1, <2>2
  <2>3. CASE y \in offers
    BY <1>1, <1>2, <1>3, <1>4, <2>1, <2>3
  <2>4. QED
    BY <2>2, <2>3
<1>6. CASE y \in offers
  <2>1. x \in offers
    BY <1>5
  <2>2. ~\E z \in offers : z.order = x.order /\ x.draft < z.draft /\ z.draft < y.draft
    BY <1>4
  <2>3. QED
    BY <1>4, <1>6, <2>1, <2>2 DEF NoFreeHour, Content
<1>7. CASE y = new
  <2> DEFINE last == OfferOf(o, drafts[o])
  <2>1. x \in offers /\ x.order = o /\ o \in Drafted
    BY <1>1, <1>2, <1>4, <1>5, <1>7
  <2>2. last \in offers /\ last.order = o /\ last.draft = drafts[o].id
    BY <2>1 DEF Bookkeeping, LatestOffer, OfferOf
  <2>3. x.draft = drafts[o].id
    <3>1. ~(x.draft < last.draft /\ last.draft < y.draft)
      BY <1>4, <2>1, <2>2
    <3>2. last.draft < y.draft
      BY <1>1, <1>2, <1>3, <1>7, <2>1, <2>2
    <3>3. x.draft <= last.draft /\ x.draft \in Nat /\ last.draft \in Nat
      BY <1>2, <2>1, <2>2
    <3>4. QED
      BY <2>2, <3>1, <3>2, <3>3
  <2>4. x = last
    BY <2>1, <2>3 DEF Bookkeeping, LatestOffer
  <2>5. drafts[o] # NoDraft
    BY <2>1 DEF Drafted
  <2>6. QED
    BY <1>7, <2>4, <2>5
<1>8. QED
  BY <1>6, <1>7

\* No sequence of start and refresh renews the hour of the same content.
THEOREM HoursNotRenewed == Spec => []NoFreeHour
<1>1. Init => NoFreeHour
  <2>1. SUFFICES ASSUME Init PROVE NoFreeHour
    OBVIOUS
  <2>2. PICK old \in SUBSET LegacyOrders :
          \E legacy \in [old -> LegacyDrafts] : offers = {OfferOf(o, legacy[o]) : o \in old}
    BY <2>1 DEF Init
  <2>3. PICK legacy \in [old -> LegacyDrafts] : offers = {OfferOf(o, legacy[o]) : o \in old}
    BY <2>2
  <2>4. ASSUME NEW x \in offers, NEW y \in offers, x.order = y.order PROVE x = y
    <3>1. PICK o \in old, p \in old : x = OfferOf(o, legacy[o]) /\ y = OfferOf(p, legacy[p])
      BY <2>3
    <3>2. o = p
      BY <2>4, <3>1 DEF OfferOf
    <3>3. QED
      BY <3>1, <3>2
  <2>5. ASSUME NEW x \in offers PROVE ~(x.draft < x.draft)
    <3>1. PICK o \in old : x = OfferOf(o, legacy[o])
      BY <2>3
    <3>2. x.draft \in Nat
      BY <3>1, LegacyType DEF OfferOf, Drafts, Ids
    <3>3. QED
      BY <3>2
  <2>6. QED
    BY <2>4, <2>5 DEF NoFreeHour
<1>2. TypeOK /\ Bookkeeping /\ NoFreeHour /\ [Next]_vars => NoFreeHour'
  <2>1. SUFFICES ASSUME TypeOK, Bookkeeping, NoFreeHour, [Next]_vars PROVE NoFreeHour'
    OBVIOUS
  <2>2. ASSUME NEW o \in Orders, Start(o) PROVE NoFreeHour'
    <3>1. uuids + 1 \in Ids
      BY <2>1, <2>2, ClockAssumption DEF Start, TypeOK, Ids
    <3>2. QED
      BY <2>1, <2>2, <3>1, LaterOffer DEF Start
  <2>3. ASSUME NEW o \in Orders, NEW d \in Ids, Refresh(o, d) PROVE NoFreeHour'
    <3>1. uuids + 1 \in Ids
      BY <2>1, <2>3, ClockAssumption DEF Refresh, TypeOK, Ids
    <3>2. SnapshotChanged(o)
      BY <2>3 DEF Refresh, RefreshOutcome
    <3>3. Content(OfferOf(o, drafts[o])) # Content(OfferOf(o, Snapshot(o, uuids + 1)))
      BY <3>2 DEF Content, OfferOf, Snapshot, SnapshotChanged
    <3>4. QED
      BY <2>1, <2>3, <3>1, <3>3, LaterOffer DEF Refresh
  <2>4. CASE UNCHANGED offers
    BY <2>1, <2>4 DEF NoFreeHour
  <2>5. QED
    BY <2>1, <2>2, <2>3, <2>4
    DEF Next, Calls, Environment, Submit, Confirm, Cancel, Tick, ChangeOrder, ChangePolicy,
        tables, history, vars
<1>3. QED
  BY <1>1, <1>2, TypeCorrect, BooksKept, PTL DEF Spec

----------------------------------------------------------------------------
\* What the promise sees of the tables.
LEMMA DealOfDraft ==
  ASSUME TypeOK, NEW o \in Drafted
  PROVE  /\ DealOf(o) = [phase |-> IF drafts[o].cancelled THEN "cancelled"
                                   ELSE IF Applied(o) THEN "applied" ELSE "open",
                         id |-> drafts[o].id, terms |-> drafts[o].terms]
         /\ DealOf(o) # NoDraft
         /\ DealOf(o).phase = IF drafts[o].cancelled THEN "cancelled"
                              ELSE IF Applied(o) THEN "applied" ELSE "open"
         /\ DealOf(o).id = drafts[o].id
         /\ DealOf(o).terms = drafts[o].terms
<1>1. drafts[o] \in Drafts
  BY DEF TypeOK, Drafted
<1>2. drafts[o].id \in Ids /\ drafts[o].terms \in Terms
  BY <1>1 DEF Drafts
<1>3. DealOf(o) = [phase |-> IF drafts[o].cancelled THEN "cancelled"
                             ELSE IF Applied(o) THEN "applied" ELSE "open",
                   id |-> drafts[o].id, terms |-> drafts[o].terms]
  BY DEF DealOf, Drafted
<1>4. DealOf(o) \in [phase : {"open", "cancelled", "applied"}, id : Ids, terms : Terms]
  BY <1>2, <1>3
<1>5. QED
  BY <1>3, <1>4, SentinelAssumption

\* The deal of an order whose row and application stay stays.
LEMMA DealUnchanged ==
  ASSUME NEW o \in Orders, drafts'[o] = drafts[o], Applied(o)' <=> Applied(o)
  PROVE  DealOf(o)' = DealOf(o)
BY DEF DealOf

\* A fresh snapshot of an order is a new offer to its customer.
LEMMA NewOfferIsOffer ==
  ASSUME TypeOK, TypeOK', Bookkeeping, NEW o \in Orders, uuids + 1 \in Ids,
         drafts[o] = NoDraft \/ (~Applied(o) /\ ~drafts[o].cancelled),
         drafts' = [drafts EXCEPT ![o] = Snapshot(o, uuids + 1)],
         offers' = offers \cup {OfferOf(o, Snapshot(o, uuids + 1))},
         UNCHANGED applications
  PROVE  Promise!Offer(o)
<1> DEFINE new == Snapshot(o, uuids + 1)
           deal == [p \in Orders |-> DealOf(p)]
           issued == {offer.draft : offer \in offers}
<1>1. /\ new \in Drafts
      /\ new # NoDraft
      /\ new.id = uuids + 1
      /\ new.terms = orders[o].terms
      /\ new.cancelled = FALSE
      /\ OfferOf(o, new).draft = uuids + 1
  BY SnapshotType, SentinelAssumption DEF Snapshot, OfferOf
<1>2. orders[o].terms \in Terms
  BY FactsAssumption DEF TypeOK
<1>3. /\ drafts'[o] = new
      /\ \A p \in Orders \ {o} : drafts'[p] = drafts[p]
  BY DEF TypeOK
<1>4. deal[o] = NoDraft \/ deal[o].phase = "open"
  BY DealOfDraft DEF DealOf, Drafted
<1>5. \A offer \in offers : offer.draft \in Nat /\ offer.draft <= uuids
  BY DEF Bookkeeping, LatestOffer, TypeOK, Offers, Ids, Drafted, Drafts
<1>6. \A a \in applications : a.draft # uuids + 1
  BY DEF Bookkeeping, ApplicationsStay, LatestOffer, TypeOK, Drafted, Drafts, Ids
<1>7. uuids + 1 \in Ids \ issued
  BY <1>5 DEF TypeOK
<1>8. issued' = issued \cup {uuids + 1}
  BY <1>1
<1> HIDE DEF new
<1>9. DealOf(o)' = [phase |-> "open", id |-> uuids + 1, terms |-> orders[o].terms]
  BY <1>1, <1>3, <1>6 DEF DealOf, Applied, ApplicationsOf
<1>10. \A p \in Orders \ {o} : DealOf(p)' = DealOf(p)
  BY <1>3 DEF DealOf, Applied, ApplicationsOf
<1>11. deal' = [deal EXCEPT ![o] = [phase |-> "open", id |-> uuids + 1,
                                    terms |-> orders[o].terms]]
  BY <1>9, <1>10
<1> HIDE DEF deal, issued
<1>12. QED
  BY <1>2, <1>4, <1>7, <1>8, <1>11 DEF Promise!Offer, deal, issued

\* A call that adds an application, or cancels, settles the order's deal.
LEMMA SettlesDeal ==
  ASSUME TypeOK, NEW o \in Drafted, ~Applied(o), ~drafts[o].cancelled,
         NEW phase \in {"applied", "cancelled"},
         DealOf(o)' = [phase |-> phase, id |-> drafts[o].id, terms |-> drafts[o].terms],
         \A p \in Orders \ {o} : DealOf(p)' = DealOf(p),
         UNCHANGED offers
  PROVE  Promise!Settle(o, phase)
<1> DEFINE deal == [p \in Orders |-> DealOf(p)]
<1>1. o \in Orders
  BY DEF Drafted
<1>2. /\ deal[o] # NoDraft
      /\ deal[o].phase = "open"
      /\ deal[o].id = drafts[o].id
      /\ deal[o].terms = drafts[o].terms
  BY <1>1, DealOfDraft
<1>3. deal' = [deal EXCEPT ![o] = [phase |-> phase, id |-> deal[o].id, terms |-> deal[o].terms]]
  BY <1>1, <1>2
<1>4. UNCHANGED {offer.draft : offer \in offers}
  OBVIOUS
<1> HIDE DEF deal
<1>5. QED
  BY <1>2, <1>3, <1>4 DEF Promise!Settle, deal

\* The draft service implements the promise: whatever is asked of it, in
\* whatever order and however often, an order's deal is settled once, by
\* the offer that stood then, and every offer has an identity of its own.
THEOREM PromiseKept == Spec => KeepsPromise
<1> DEFINE deal == [p \in Orders |-> DealOf(p)]
           issued == {offer.draft : offer \in offers}
<1>1. Init /\ TypeOK => Promise!PromiseInit
  <2>1. SUFFICES ASSUME Init, TypeOK PROVE Promise!PromiseInit
    OBVIOUS
  <2>2. issued \subseteq Ids
    BY <2>1 DEF TypeOK, Offers
  <2>legacy. PICK old \in SUBSET LegacyOrders :
          \E legacy \in [old -> LegacyDrafts] :
            /\ drafts = [o \in Orders |-> IF o \in old THEN legacy[o] ELSE NoDraft]
            /\ offers = {OfferOf(o, legacy[o]) : o \in old}
    BY <2>1 DEF Init
  <2>3. PICK legacy \in [old -> LegacyDrafts] :
          /\ drafts = [o \in Orders |-> IF o \in old THEN legacy[o] ELSE NoDraft]
          /\ offers = {OfferOf(o, legacy[o]) : o \in old}
    BY <2>legacy
  <2>4. ASSUME NEW o \in Orders
        PROVE  DealOf(o) \in {NoDraft} \cup [phase : {"open"}, id : issued, terms : Terms]
    <3>1. CASE o \notin old
      BY <2>3, <3>1 DEF DealOf
    <3>2. CASE o \in old
      <4>1. drafts[o] = legacy[o] /\ legacy[o] \in Drafts /\ legacy[o] # NoDraft
        BY <2>3, <3>2, LegacyType, SentinelAssumption
      <4>2. ~drafts[o].cancelled
        BY <4>1, <3>2 DEF LegacyDrafts
      <4>3. ~Applied(o)
        BY <2>1 DEF Init, Applied, ApplicationsOf
      <4>4. drafts[o].id \in issued
        <5>1. OfferOf(o, legacy[o]) \in offers
          BY <2>3, <3>2
        <5>2. OfferOf(o, legacy[o]).draft = drafts[o].id
          BY <4>1 DEF OfferOf
        <5>3. QED
          BY <5>1, <5>2
      <4>5. drafts[o].terms \in Terms
        BY <4>1 DEF Drafts
      <4>6. DealOf(o) = [phase |-> "open", id |-> drafts[o].id, terms |-> drafts[o].terms]
        BY <4>1, <4>2, <4>3 DEF DealOf
      <4>7. QED
        BY <4>4, <4>5, <4>6
    <3>3. QED
      BY <3>1, <3>2
  <2>5. QED
    BY <2>2, <2>4 DEF Promise!PromiseInit
<1>2. TypeOK /\ TypeOK' /\ Bookkeeping /\ [Next]_vars
        => [Promise!PromiseNext]_(Promise!promiseVars)
  <2>1. SUFFICES ASSUME TypeOK, TypeOK', Bookkeeping, [Next]_vars
                 PROVE  [Promise!PromiseNext]_(Promise!promiseVars)
    OBVIOUS
  <2>2. ASSUME NEW o \in Orders, Start(o) PROVE Promise!Offer(o)
    <3>1. uuids + 1 \in Ids
      BY <2>1, <2>2, ClockAssumption DEF Start, TypeOK, Ids
    <3>2. QED
      BY <2>1, <2>2, <3>1, NewOfferIsOffer DEF Start
  <2>3. ASSUME NEW o \in Orders, NEW d \in Ids, Refresh(o, d) PROVE Promise!Offer(o)
    <3>1. uuids + 1 \in Ids
      BY <2>1, <2>3, ClockAssumption DEF Refresh, TypeOK, Ids
    <3>2. UNCHANGED applications /\ ~Applied(o)
      BY <2>1, <2>3, RefreshMovesNothing
    <3>3. ~drafts[o].cancelled
      BY <2>3 DEF Refresh, RefreshOutcome
    <3>4. QED
      BY <2>1, <2>3, <3>1, <3>2, <3>3, NewOfferIsOffer DEF Refresh
  <2>4. ASSUME NEW o \in Orders, NEW d \in Ids, Confirm(o, d), ~Applied(o)
        PROVE  Promise!Settle(o, "applied")
    <3>1. o \in Drafted /\ drafts[o].id = d /\ ~drafts[o].cancelled
          /\ UNCHANGED <<drafts, offers>>
      BY <2>4 DEF Confirm, ConfirmOutcome, Found, Drafted
    <3>2. PICK new : applications' = applications \cup {new} /\ new.draft = d
      <4> DEFINE application == ApplicationFor(o, d)
      <4>1. applications' = applications \cup {application}
        BY <2>4 DEF Confirm
      <4>2. application.draft = d
        BY DEF ApplicationFor
      <4> HIDE DEF application
      <4>3. QED
        BY <4>1, <4>2
    <3>3. Applied(o)'
      BY <3>1, <3>2 DEF Applied, ApplicationsOf, Drafted
    <3>4. DealOf(o)' = [phase |-> "applied", id |-> drafts[o].id, terms |-> drafts[o].terms]
      BY <3>1, <3>3 DEF DealOf, Drafted
    <3>5. ASSUME NEW p \in Orders \ {o} PROVE DealOf(p)' = DealOf(p)
      <4>1. p \in Drafted => drafts[p].id # d
        BY <2>1, <3>1 DEF Bookkeeping, IdsIdentifyDrafts
      <4>2. Applied(p)' <=> Applied(p)
        BY <3>1, <3>2, <4>1 DEF Applied, ApplicationsOf, Drafted
      <4>3. QED
        BY <3>1, <4>2, DealUnchanged
    <3>6. QED
      BY <2>1, <2>4, <3>1, <3>4, <3>5, SettlesDeal
  <2>5. ASSUME NEW o \in Orders, NEW d \in Ids, Cancel(o, d), ~drafts[o].cancelled
        PROVE  Promise!Settle(o, "cancelled")
    <3>1. o \in Drafted /\ ~Applied(o) /\ drafts[o] \in Drafts
          /\ UNCHANGED <<applications, offers>>
      BY <2>1, <2>5 DEF Cancel, CancelOutcome, Found, Drafted, TypeOK, history
    <3>2. drafts'[o] = [drafts[o] EXCEPT !.cancelled = TRUE]
          /\ \A p \in Orders \ {o} : drafts'[p] = drafts[p]
      BY <2>1, <2>5, <3>1 DEF Cancel, TypeOK
    <3>3. drafts'[o].cancelled /\ drafts'[o].id = drafts[o].id
          /\ drafts'[o].terms = drafts[o].terms /\ drafts'[o] \in Drafts
      BY <3>1, <3>2 DEF Drafts
    <3>4. DealOf(o)' = [phase |-> "cancelled", id |-> drafts[o].id, terms |-> drafts[o].terms]
      BY <3>3, SentinelAssumption DEF DealOf
    <3>5. \A p \in Orders \ {o} : DealOf(p)' = DealOf(p)
      BY <3>1, <3>2 DEF DealOf, Applied, ApplicationsOf
    <3>6. QED
      BY <2>1, <2>5, <3>1, <3>4, <3>5, SettlesDeal
  <2>6. ASSUME \A p \in Orders : DealOf(p)' = DealOf(p), UNCHANGED offers
        PROVE  UNCHANGED Promise!promiseVars
    <3>1. deal' = deal
      BY <2>6
    <3>2. issued' = issued
      BY <2>6
    <3>3. QED
      BY <3>1, <3>2 DEF Promise!promiseVars
  <2>7. ASSUME NEW o \in Orders, NEW d \in Ids, Confirm(o, d), Applied(o)
        PROVE  UNCHANGED Promise!promiseVars
    <3>1. UNCHANGED <<drafts, applications, offers>>
      BY <2>7 DEF Confirm
    <3>2. QED
      BY <2>6, <3>1 DEF DealOf, Applied, ApplicationsOf
  <2>8. ASSUME NEW o \in Orders, NEW d \in Ids, Cancel(o, d), drafts[o].cancelled
        PROVE  UNCHANGED Promise!promiseVars
    <3>1. drafts[o] \in Drafts
      BY <2>1, <2>8 DEF Cancel, CancelOutcome, Found, TypeOK
    <3>2. drafts' = drafts
      BY <2>1, <2>8, <3>1 DEF Cancel, TypeOK, Drafts
    <3>3. UNCHANGED <<applications, offers>>
      BY <2>8 DEF Cancel, history
    <3>4. QED
      BY <2>6, <3>2, <3>3 DEF DealOf, Applied, ApplicationsOf
  <2>9. ASSUME NEW o \in Orders, NEW d \in Ids, NEW request \in Requests, Submit(o, d, request)
        PROVE  UNCHANGED Promise!promiseVars
    <3>1. drafts[o] \in Drafts
      BY <2>1, <2>9 DEF Submit, SubmitOutcome, Found, TypeOK
    <3>2. /\ drafts'[o] \in Drafts
          /\ drafts'[o].id = drafts[o].id
          /\ drafts'[o].terms = drafts[o].terms
          /\ drafts'[o].cancelled = drafts[o].cancelled
          /\ \A p \in Orders \ {o} : drafts'[p] = drafts[p]
          /\ UNCHANGED <<applications, offers>>
      BY <2>1, <2>9, <3>1, ReviewType DEF Submit, TypeOK, Drafts, EligibilityRecord, history
    <3>3. DealOf(o)' = DealOf(o)
      BY <3>1, <3>2, SentinelAssumption DEF DealOf, Applied, ApplicationsOf
    <3>4. \A p \in Orders \ {o} : DealOf(p)' = DealOf(p)
      BY <3>2 DEF DealOf, Applied, ApplicationsOf
    <3>5. QED
      BY <2>6, <3>2, <3>3, <3>4
  <2>10. ASSUME UNCHANGED <<drafts, applications, offers>>
         PROVE  UNCHANGED Promise!promiseVars
    BY <2>6, <2>10 DEF DealOf, Applied, ApplicationsOf
  <2>11. QED
    BY <2>1, <2>2, <2>3, <2>4, <2>5, <2>7, <2>8, <2>9, <2>10
    DEF Promise!PromiseNext, Next, Calls, Environment, Tick, ChangeOrder, ChangePolicy,
        tables, history, vars
<1>3. QED
  BY <1>1, <1>2, TypeCorrect, BooksKept, PTL DEF Spec, KeepsPromise, Promise!PromiseSpec
=============================================================================
