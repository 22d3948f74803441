--------------------------- MODULE PriorityChange ---------------------------
(***************************************************************************)
(* The same decisions as in PendingActions, where no Redis is configured:  *)
(* PendingActionStore and AgentRunStore in the memory of one process, each *)
(* with one lock that is not reentrant, called by the threads of the API;  *)
(* and the priority change graph above the action store, which has no lock *)
(* and remembers one workflow for every thread_id.                         *)
(***************************************************************************)
EXTENDS Naturals

CONSTANTS
  Proposals,     \* action ids
  MemoryRuns,    \* run ids
  MemoryKeys,    \* <<thread_id, idempotency_key>> pairs
  Flows,         \* thread_ids of workflows
  Threads,       \* threads that serve requests
  None

MemoryRunRecords ==
  [action : Proposals \cup {None}, status : {"WAITING_CONFIRMATION", "COMPLETED", "CANCELLED"}]

ASSUME NoneAssumption == /\ None \notin Proposals \cup Threads \cup MemoryRuns \cup Flows
                         /\ None \notin MemoryRunRecords

VARIABLES
  proposal,      \* _actions of the action store: the status of each action
  changed,       \* history: how often the ticket was changed for an action, up to 2
  run,           \* _runs of the run store
  runOf,         \* _idempotency_index
  lock,          \* who is inside the run store and inside the action store
  flow,          \* the checkpoint of each workflow
  thread         \* how far each request is

changeVars == <<proposal, changed, run, runOf, lock, flow, thread>>

Resting == [op |-> "none", at |-> "none", key |-> None, run |-> None, flow |-> None, action |-> None]
NotStarted == [action |-> None, next |-> "start", status |-> "none"]

In(t, at) == thread[t].at = at
Step(t, at) == thread' = [thread EXCEPT ![t].at = at]

\* Seeded fault: the lock is opened by whoever answers.
LeaveWhoever(t, stores) == lock' = [s \in {"runs", "actions"} |-> IF s \in stores THEN None ELSE lock[s]]

Leave(t, stores) == lock' = [s \in {"runs", "actions"} |-> IF s \in stores /\ lock[s] = t THEN None ELSE lock[s]]

\* The request is answered or raises: every with block is left.
Answer(t) == thread' = [thread EXCEPT ![t] = Resting] /\ Leave(t, {"runs", "actions"})

----------------------------------------------------------------------------
(* AgentRunStore                                                           *)

Request(t) ==
  /\ thread[t] = Resting
  /\ \/ \E k \in MemoryKeys :
          thread' = [thread EXCEPT ![t] = [Resting EXCEPT !.op = "start", !.at = "enter", !.key = k]]
     \/ \E r \in {x \in MemoryRuns : run[x] # None}, op \in {"confirm", "cancel"} :
          thread' = [thread EXCEPT ![t] = [Resting EXCEPT !.op = op, !.at = "enter", !.run = r]]
  /\ UNCHANGED <<proposal, changed, run, runOf, lock, flow>>

\* Seeded fault: a known run is read with get(), which takes the lock again.
KnownThroughGet(t) == Step(t, "enter") /\ lock' = [lock EXCEPT !["runs"] = t]

\* A run that is known is returned, or refused for another message.
KnownRun(t) == Answer(t)

\* with self._lock of the run store.
EnterRuns(t) ==
  /\ In(t, "enter") /\ lock["runs"] = None
  /\ IF thread[t].op = "start"
     THEN IF runOf[thread[t].key] # None THEN KnownRun(t)
          ELSE Step(t, "chat") /\ lock' = [lock EXCEPT !["runs"] = t]
     ELSE LET r == run[thread[t].run]
          IN  IF r.status # "WAITING_CONFIRMATION" \/ r.action = None THEN Answer(t)
              ELSE /\ thread' = [thread EXCEPT ![t].at = "decide", ![t].action = r.action]
                   /\ lock' = [lock EXCEPT !["runs"] = t]
  /\ UNCHANGED <<proposal, changed, run, runOf, flow>>

\* propose_priority_change, inside the action store for a moment.
Proposes(a) ==
  /\ lock["actions"] = None
  /\ proposal[a] = "none"
  /\ proposal' = [proposal EXCEPT ![a] = "pending"]

\* chat_runner proposes a change, looks something up, or raises, while the
\* run store is locked.
RunChat(t) ==
  /\ In(t, "chat")
  /\ \/ \E a \in Proposals :
          /\ Proposes(a)
          /\ thread' = [thread EXCEPT ![t].at = "save", ![t].action = a]
          /\ UNCHANGED lock
     \/ Step(t, "save") /\ UNCHANGED <<proposal, lock>>
     \/ Answer(t) /\ UNCHANGED proposal
  /\ UNCHANGED <<changed, run, runOf, flow>>

\* The checkpoint and the index, unless the agent's result is not the form
\* of one.
SaveNewRun(t) ==
  /\ In(t, "save")
  /\ \/ \E r \in MemoryRuns :
          /\ run[r] = None
          /\ run' = [run EXCEPT ![r] = [action |-> thread[t].action,
               status |-> IF thread[t].action = None THEN "COMPLETED" ELSE "WAITING_CONFIRMATION"]]
          /\ runOf' = [runOf EXCEPT ![thread[t].key] = r]
     \/ UNCHANGED <<run, runOf>>
  /\ Answer(t)
  /\ UNCHANGED <<proposal, changed, flow>>

----------------------------------------------------------------------------
(* PendingActionStore.confirm and cancel                                   *)

\* Seeded fault: the lock is left between the check and the change.
EnterActionsBriefly(t) ==
  /\ In(t, "decide") /\ lock["actions"] = None
  /\ IF proposal[thread[t].action] = "pending" THEN Step(t, "change") /\ UNCHANGED lock
     ELSE Answer(t)
  /\ UNCHANGED <<proposal, changed, run, runOf, flow>>

\* A decision of the same kind is answered again, the other kind refused.
EnterActions(t) ==
  /\ In(t, "decide") /\ lock["actions"] = None
  /\ LET decided == IF thread[t].op = "confirm" THEN "executed" ELSE "cancelled"
     IN  CASE proposal[thread[t].action] = "pending" ->
                Step(t, "change") /\ lock' = [lock EXCEPT !["actions"] = t]
           [] proposal[thread[t].action] = decided -> Step(t, "record") /\ UNCHANGED lock
           [] OTHER -> Answer(t)
  /\ UNCHANGED <<proposal, changed, run, runOf, flow>>

\* The ticket and the action, or neither when the ticket is gone.
Change(t) ==
  /\ In(t, "change")
  /\ \/ /\ proposal' = [proposal EXCEPT ![thread[t].action] =
                          IF thread[t].op = "confirm" THEN "executed" ELSE "cancelled"]
        /\ changed' = [changed EXCEPT ![thread[t].action] =
                         IF thread[t].op = "confirm" /\ @ < 2 THEN @ + 1 ELSE @]
        /\ Step(t, "record") /\ Leave(t, {"actions"})
     \/ /\ thread[t].op = "confirm"
        /\ Answer(t) /\ UNCHANGED <<proposal, changed>>
  /\ UNCHANGED <<run, runOf, flow>>

\* The new version of the run, or the last checkpoint of the workflow.
Record(t) ==
  /\ In(t, "record")
  /\ LET status == IF thread[t].op = "confirm" THEN "COMPLETED" ELSE "CANCELLED"
     IN  \/ /\ thread[t].run # None
            /\ run' = [run EXCEPT ![thread[t].run].status = status]
            /\ UNCHANGED flow
         \/ /\ thread[t].flow # None
            /\ flow' = [flow EXCEPT ![thread[t].flow] =
                          [action |-> thread[t].action, next |-> "end", status |-> status]]
            /\ UNCHANGED run
  /\ Answer(t)
  /\ UNCHANGED <<proposal, changed, runOf>>

----------------------------------------------------------------------------
(* priority_change_graph.py                                                *)

\* start_priority_change_workflow, whatever the thread_id is at: the input's
\* checkpoint keeps what the workflow knew and begins again.
StartFlow(t) ==
  /\ thread[t] = Resting
  /\ \E f \in Flows :
       /\ flow' = [flow EXCEPT ![f].next = "start"]
       /\ thread' = [thread EXCEPT ![t] = [Resting EXCEPT !.op = "start", !.at = "propose", !.flow = f]]
  /\ UNCHANGED <<proposal, changed, run, runOf, lock>>

\* The node proposes, or raises: the workflow is left at its beginning.
ProposeFlow(t) ==
  /\ In(t, "propose")
  /\ \/ \E a \in Proposals :
          /\ Proposes(a)
          /\ thread' = [thread EXCEPT ![t].at = "await", ![t].action = a]
          /\ UNCHANGED lock
     \/ Answer(t) /\ UNCHANGED proposal
  /\ UNCHANGED <<changed, run, runOf, flow>>

\* The checkpoint before the interrupt.
AwaitApproval(t) ==
  /\ In(t, "await")
  /\ flow' = [flow EXCEPT ![thread[t].flow] =
                [action |-> thread[t].action, next |-> "await_approval", status |-> "WAITING_CONFIRMATION"]]
  /\ Answer(t)
  /\ UNCHANGED <<proposal, changed, run, runOf>>

\* resume_priority_change_workflow looks whether the workflow waits.
ResumeFlow(t) ==
  /\ thread[t] = Resting
  /\ \E f \in {x \in Flows : flow[x].next = "await_approval"}, op \in {"confirm", "cancel"} :
       thread' = [thread EXCEPT ![t] = [Resting EXCEPT !.op = op, !.at = "load", !.flow = f]]
  /\ UNCHANGED <<proposal, changed, run, runOf, lock, flow>>

\* graph.invoke loads the checkpoint again and goes on from whatever has
\* become of it: only the interrupt takes the answer, a node that was chosen
\* runs as it was, and a workflow at its beginning proposes.
LoadFlow(t) ==
  /\ In(t, "load")
  /\ LET saved == flow[thread[t].flow]
     IN  CASE saved.next = "await_approval" ->
                /\ thread' = [thread EXCEPT ![t].at = "approve", ![t].action = saved.action]
                /\ UNCHANGED lock
           [] saved.next \in {"confirm", "cancel"} ->
                /\ thread' = [thread EXCEPT ![t].at = "decide", ![t].op = saved.next,
                                            ![t].action = saved.action]
                /\ UNCHANGED lock
           [] saved.next = "start" -> Step(t, "propose") /\ UNCHANGED lock
           [] saved.next = "end" -> Answer(t)
  /\ UNCHANGED <<proposal, changed, run, runOf, flow>>

\* Seeded fault: the node for the answer takes the action of the checkpoint
\* of now and the status of its own.
ApproveLate(t) ==
  /\ In(t, "approve")
  /\ flow' = [flow EXCEPT ![thread[t].flow].next = "end", ![thread[t].flow].status =
                IF thread[t].op = "confirm" THEN "COMPLETED" ELSE "CANCELLED"]
  /\ Step(t, "decide")
  /\ UNCHANGED <<proposal, changed, run, runOf, lock>>

\* The answer is in the checkpoint before the store is asked: a node that
\* raises leaves the workflow there.
Approved(t) ==
  /\ In(t, "approve")
  /\ flow' = [flow EXCEPT ![thread[t].flow] =
                [action |-> thread[t].action, next |-> thread[t].op, status |-> "WAITING_CONFIRMATION"]]
  /\ Step(t, "decide")
  /\ UNCHANGED <<proposal, changed, run, runOf, lock>>

ChangeInit ==
  /\ proposal = [a \in Proposals |-> "none"]
  /\ changed = [a \in Proposals |-> 0]
  /\ run = [r \in MemoryRuns |-> None]
  /\ runOf = [k \in MemoryKeys |-> None]
  /\ lock = [s \in {"runs", "actions"} |-> None]
  /\ flow = [f \in Flows |-> NotStarted]
  /\ thread = [t \in Threads |-> Resting]

Serve(t) ==
  \/ EnterRuns(t) \/ RunChat(t) \/ SaveNewRun(t) \/ EnterActions(t) \/ Change(t) \/ Record(t)
  \/ ProposeFlow(t) \/ AwaitApproval(t) \/ LoadFlow(t) \/ Approved(t)

ChangeNext == \E t \in Threads : Request(t) \/ StartFlow(t) \/ ResumeFlow(t) \/ Serve(t)

ChangeSpec == ChangeInit /\ [][ChangeNext]_changeVars

----------------------------------------------------------------------------
(* Correctness.                                                            *)

FlowRecords ==
  [action : Proposals \cup {None}, next : {"start", "await_approval", "confirm", "cancel", "end"},
   status : {"none", "WAITING_CONFIRMATION", "COMPLETED", "CANCELLED"}]
ThreadRecords ==
  [op : {"none", "start", "confirm", "cancel"},
   at : {"none", "enter", "chat", "save", "decide", "change", "record", "propose", "await",
         "load", "approve"},
   key : MemoryKeys \cup {None}, run : MemoryRuns \cup {None}, flow : Flows \cup {None},
   action : Proposals \cup {None}]

\* The request of a thread is about what its step needs.
WellFormedThread(row) ==
  /\ row.at = "enter" => \/ row.op = "start" /\ row.key \in MemoryKeys /\ row.run = None
                         \/ row.op \in {"confirm", "cancel"} /\ row.run \in MemoryRuns
  /\ row.at \in {"chat", "save"} => row.key \in MemoryKeys /\ row.run = None
  /\ row.at = "await" => row.action \in Proposals
  /\ row.at \in {"propose", "await", "load", "approve"} => row.flow \in Flows /\ row.run = None
  /\ row.at = "load" => row.op \in {"confirm", "cancel"}
  /\ row.at \in {"approve", "decide", "change", "record"} =>
       row.op \in {"confirm", "cancel"} /\ row.action \in Proposals /\ (row.run # None \/ row.flow # None)

\* The types of the stores, of the checkpoints and of the threads; a workflow
\* that was started knows its action.
ChangeTypeOK ==
  /\ proposal \in [Proposals -> {"none", "pending", "executed", "cancelled"}]
  /\ changed \in [Proposals -> 0 .. 2]
  /\ run \in [MemoryRuns -> MemoryRunRecords \cup {None}]
  /\ runOf \in [MemoryKeys -> MemoryRuns \cup {None}]
  /\ lock \in [{"runs", "actions"} -> Threads \cup {None}]
  /\ flow \in [Flows -> FlowRecords]
  /\ \A f \in Flows : flow[f] = NotStarted \/ flow[f].action \in Proposals
  /\ thread \in [Threads -> ThreadRecords]
  /\ \A t \in Threads : WellFormedThread(thread[t])

\* confirm "executes at most once" (pending_actions.py:24) and only what was
\* not cancelled, whichever of the two ways the answers come: in memory the
\* ticket tells exactly what the action says.
ChangedAsDecided ==
  \A a \in Proposals : changed[a] = IF proposal[a] = "executed" THEN 1 ELSE 0

\* A run and a workflow are only shown as decided when their action is, the
\* way they say, although the same action may be decided by two requests and
\* a workflow be started anew in between.
ShownAsDecided ==
  /\ \A r \in MemoryRuns : run[r] # None /\ run[r].action # None =>
       /\ run[r].status = "COMPLETED" => proposal[run[r].action] = "executed"
       /\ run[r].status = "CANCELLED" => proposal[run[r].action] = "cancelled"
  /\ \A f \in Flows :
       /\ flow[f].status = "COMPLETED" => proposal[flow[f].action] = "executed"
       /\ flow[f].status = "CANCELLED" => proposal[flow[f].action] = "cancelled"

\* Whoever holds a lock is inside: in the run store while it asks the agent or
\* decides about a run, in the action store for one step that waits for
\* nobody.
HoldersInside ==
  \A t \in Threads :
    /\ lock["runs"] = t <=> \/ thread[t].at \in {"chat", "save"}
                            \/ thread[t].at \in {"decide", "change", "record"} /\ thread[t].run # None
    /\ lock["actions"] = t <=> thread[t].at = "change"

\* The invariant of the decisions in memory: ticket, action, run and
\* workflow tell the same.
ChangeInv == ChangeTypeOK /\ ChangedAsDecided /\ ShownAsDecided /\ HoldersInside

\* Two locks that are not reentrant, one taken inside the other: whenever a
\* request is inside, one of them can go on.
NobodyStuck ==
  (\E t \in Threads : thread[t] # Resting) => \E t \in Threads : ENABLED Serve(t)

----------------------------------------------------------------------------
(* Why the invariant holds: with the following it goes by induction.       *)

\* What a request that decides knows of its action, in the action store and
\* after it, and of its run.
KnownOf(row, states, runs) ==
  /\ row.at = "change" => states[row.action] = "pending"
  /\ row.at = "record" => states[row.action] = (IF row.op = "confirm" THEN "executed" ELSE "cancelled")
  /\ row.run # None => runs[row.run] # None
  /\ row.run # None /\ row.at \in {"decide", "change", "record"} => runs[row.run].action = row.action

DeciderKnows == \A t \in Threads : KnownOf(thread[t], proposal, run)

ChangeInduction == ChangeInv /\ DeciderKnows
=============================================================================
