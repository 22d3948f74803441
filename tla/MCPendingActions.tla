-------------------------- MODULE MCPendingActions --------------------------
(***************************************************************************)
(* One or two actions that three calls start and decide, in Redis: either  *)
(* all are in time and may die, or they live and may outlive their locks.  *)
(* And, as a system of its own, two actions that two threads decide in     *)
(* memory and through one workflow.                                        *)
(***************************************************************************)
EXTENDS PendingActions, PriorityChange, FiniteSets, TLC

VARIABLE part    \* which of the systems the behaviour is of

ActionSymmetry ==
  Permutations(Calls) \cup Permutations(Actions) \cup Permutations(Runs) \cup Permutations(Keys)

MaxOutlived == 1   \* bound: of so many keys, runs and actions the lock expires early

InTime == outlived' = outlived
Slow == Cardinality(outlived') <= MaxOutlived /\ \A x \in Lockable : locks'[x] # "dead"

MCInit == Init /\ ChangeInit /\ part \in {"in time", "slow", "memory"}

MCNext ==
  /\ UNCHANGED part
  /\ \/ part = "in time" /\ Next /\ InTime /\ UNCHANGED changeVars
     \/ part = "slow" /\ Next /\ Slow /\ UNCHANGED changeVars
     \/ part = "memory" /\ ChangeNext /\ UNCHANGED vars

MCSpec == MCInit /\ [][MCNext]_<<part, vars, changeVars>>
=============================================================================
