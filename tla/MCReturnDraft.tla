--------------------------- MODULE MCReturnDraft ---------------------------
(***************************************************************************)
(* A small shop for ReturnDraft: two contents of an order, delivered seven *)
(* days before the clock starts, so that the no-reason window closes when  *)
(* the first day of the run ends, and a day of two ticks that a draft of   *)
(* two ticks can cross.  As a system of its own, the rules the drafts are  *)
(* decided by, over all facts.                                             *)
(***************************************************************************)
EXTENDS ReturnDraft, MCReturnRules

VARIABLE part    \* which of the two systems the behaviour is of

Policy(category, confirmed, version) ==
  [category |-> category, condition |-> "INTACT", exclusionConfirmed |-> confirmed,
   downloadedOrUnsealed |-> "no", activated |-> "no", merchantDays |-> 0,
   version |-> version]

MCPolicies == {Policy("STANDARD", "no", "v1"), Policy("CUSTOM_MADE", "yes", "v1")}

MCOrderFacts ==
  {[status |-> "delivered", delivered |-> -7, terms |-> "keyboard"],
   [status |-> "delivered", delivered |-> -7, terms |-> "mouse"],
   [status |-> "cancelled", delivered |-> -7, terms |-> "keyboard"]}

MCTerms == {"keyboard", "mouse"}

MCRequests ==
  {[text |-> "changed my mind", code |-> "PERSONAL_PREFERENCE"],
   [text |-> "broken", code |-> "QUALITY_ISSUE"],
   [text |-> Blank, code |-> "OTHER"]}

\* One system runs, the other stays in one of its first states.
MCInit ==
  /\ Init /\ RulesInit
  /\ \/ /\ part = "drafts"
        /\ order.status = "cancelled"
        /\ policy.category = "UNKNOWN" /\ policy.condition = "UNKNOWN"
        /\ policy.merchantDays = NULL /\ policy.version = NULL
     \/ /\ part = "rules"
        /\ uuids = 0
        /\ \A o \in Orders : orders[o].status = "cancelled" /\ policies[o] = UnknownPolicy

MCNext ==
  /\ UNCHANGED part
  /\ \/ part = "drafts" /\ Next /\ UNCHANGED rulesVars
     \/ part = "rules" /\ RulesNext /\ UNCHANGED vars

MCSpec == MCInit /\ [][MCNext]_<<part, vars, rulesVars>>
=============================================================================
