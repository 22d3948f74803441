--------------------------- MODULE MCAgentReturn ---------------------------
(***************************************************************************)
(* One order two conversations can be about: delivered seven days before   *)
(* the clock starts, in a shop that may correct its content once.          *)
(***************************************************************************)
EXTENDS AgentReturn, TLC

MCPolicies ==
  {[category |-> "STANDARD", condition |-> "INTACT", exclusionConfirmed |-> "no",
    downloadedOrUnsealed |-> "no", activated |-> "no", merchantDays |-> 0,
    version |-> "v1"]}

MCTerms == {"keyboard", "mouse"}

MCOrderFacts ==
  {[status |-> "delivered", delivered |-> -7, terms |-> terms] : terms \in MCTerms}

\* The shop may also cancel the order.
MCAllFacts == MCOrderFacts \cup {[status |-> "cancelled", delivered |-> -7, terms |-> "keyboard"]}

Preference == [text |-> "changed my mind", code |-> "PERSONAL_PREFERENCE"]
Broken == [text |-> "broken", code |-> "QUALITY_ISSUE"]
MCRequests == {Preference, Broken}

\* The two conversations are interchangeable.
ThreadSymmetry == Permutations(Threads)

NoFirstReason == {NULL}
SomeFirstReason == {NULL, Preference}
=============================================================================
