-------------------------- MODULE MCPortalAccounts --------------------------
(***************************************************************************)
(* Transactions of two requests at a time.  Of the portal: two             *)
(* administrators and a newcomer within a window of the brake; the brake   *)
(* itself over two windows; and, since that part shares no table with the  *)
(* accounts, two owners with three conversation ids.  Of the service: an   *)
(* order that changes, and two more that only take up drafts.              *)
(***************************************************************************)
EXTENDS PortalAccounts, PortalShelf, ReturnTx, TLC

CONSTANTS policy1, policy2

VARIABLE part    \* which of the systems the behaviour is of

\* Without a policy on record a reason is always asked for.
MCUnquestioned == {<<"sold", policy1>>, <<"repriced", policy1>>}

\* Administrators are interchangeable, and so are tokens and requests; the
\* orders that do not change and the workers are the same model values, and
\* interchangeable with them.
AccountSymmetry == Permutations(Admins) \cup Permutations(Tokens) \cup Permutations(Requests)

Init ==
  /\ AccountsInit /\ ShelfInit /\ TxInit
  /\ part \in {"accounts", "brake", "shelf", "returns"}
  /\ content = [g \in Goods |-> "sold"]

\* Where accounts are looked at, nobody is refused for his attempts and the
\* count is taken as the request comes in.
AdmittedAtOnce == \A r \in Requests : requests[r].at = "counting" => requests'[r].at = "admitted"

\* Where the brake is looked at, whoever was let through is gone, and a
\* registration, which has a scope of its own, is left out.
GoneAtOnce == \A r \in Requests : /\ requests[r].at = "admitted" => requests'[r] = Ready
                                  /\ requests'[r].op # "register"

Next ==
  /\ UNCHANGED part
  /\ \/ part = "accounts" /\ UNCHANGED <<window, shelfVars, txVars>> /\ AccountsNext /\ AdmittedAtOnce
     \/ part = "brake" /\ UNCHANGED <<shelfVars, txVars>> /\ (BrakeNext \/ NextWindow) /\ GoneAtOnce
     \/ part = "shelf" /\ UNCHANGED <<accountVars, txVars>> /\ ShelfNext
     \/ part = "returns" /\ UNCHANGED <<accountVars, shelfVars>> /\ TxNext

Spec == Init /\ [][Next]_<<part, accountVars, shelfVars, txVars>>
=============================================================================
