--------------------------- MODULE ReturnPromise ---------------------------
(***************************************************************************)
(* What the return business promises for every order, whatever instance    *)
(* serves a request and however often it is retried: the customer is made  *)
(* an offer (an identified snapshot of product and amount), may be made a  *)
(* new one under a new identity, and at most one offer, the one standing   *)
(* at that moment, ever becomes the order's single application.            *)
(***************************************************************************)
CONSTANTS Orders,  \* order ids
          Ids,     \* identities an offer can have
          Terms,   \* product and amount
          NoDeal   \* an order nobody asked to return

VARIABLES deal,    \* what each order stands at
          issued   \* identities given to an offer so far

promiseVars == <<deal, issued>>

Deal == [phase : {"open", "cancelled", "applied"}, id : Ids, terms : Terms]

PromiseInit ==
  /\ issued \subseteq Ids
  /\ deal \in [Orders -> {NoDeal} \cup [phase : {"open"}, id : issued, terms : Terms]]

Offer(o) ==
  /\ deal[o] = NoDeal \/ deal[o].phase = "open"
  /\ \E id \in Ids \ issued :
       /\ issued' = issued \cup {id}
       /\ \E terms \in Terms :
            deal' = [deal EXCEPT ![o] = [phase |-> "open", id |-> id, terms |-> terms]]

Settle(o, phase) ==
  /\ deal[o] # NoDeal
  /\ deal[o].phase = "open"
  /\ deal' = [deal EXCEPT ![o] = [phase |-> phase, id |-> deal[o].id, terms |-> deal[o].terms]]
  /\ UNCHANGED issued

PromiseNext ==
  \E o \in Orders : Offer(o) \/ Settle(o, "cancelled") \/ Settle(o, "applied")

PromiseSpec == PromiseInit /\ [][PromiseNext]_promiseVars
=============================================================================
