----------------------------- MODULE PortalTurn -----------------------------
(***************************************************************************)
(* One conversation of the customer portal (portal_api.py, portal_store.py) *)
(* on top of the agent's runs.  A turn is a row of portal_turns: what the  *)
(* history shows the customer.  Its run is the checkpoint in Redis: what   *)
(* is true.  Browser calls send a turn, act on one or synchronise one; they *)
(* run in threads and each transaction locks the conversation's row.  The  *)
(* row's active_turn_id is the claim a call holds while it works without a *)
(* transaction.                                                            *)
(*                                                                         *)
(* A process may die in a call; the claim then stays, and synchronising    *)
(* the turn takes it back when the row was not written for 15 minutes.     *)
(***************************************************************************)
EXTENDS AgentRun

CONSTANTS
  AgentTurns,    \* request ids of requests in words, one turn each
  VisionTurns,   \* request ids of requests about pictures
  Calls,         \* browser calls in flight
  NoTurn,        \* no row for the request id
  MayDie         \* whether processes die

ASSUME MayDieAssumption == MayDie \in BOOLEAN

Turns == AgentTurns \cup VisionTurns
KindsOf(q) == {kind \in {"agent", "vision"} :
                 q \in IF kind = "agent" THEN AgentTurns ELSE VisionTurns}

VARIABLES
  turns,         \* portal_turns
  active,        \* portal_conversations.active_turn_id
  old,           \* the turns not written for 15 minutes (updated_at)
  runs,          \* the checkpoints, thread_id is the turn's id
  calls          \* the browser calls

vars == <<turns, active, old, runs, calls>>

RunStatuses == {"RUNNING", "WAITING_REASON", "WAITING_CONFIRMATION", "COMPLETED",
                "CANCELLED", "EXPIRED", "STALE_CONFIRMATION"}
Drafts == DraftIds \cup {NULL}
Views == [at : Places, status : RunStatuses, draft : Drafts, applied : BOOLEAN]
Interrupted == "VISION_INTERRUPTED"
Rows == [kind : {"agent", "vision"}, status : RunStatuses \cup {"FAILED", "RESULT_UNKNOWN"},
         draft : Drafts, error : {NULL, Interrupted}]
Actions == {"confirm", "cancel", "reason", "refresh"}
Readings == [status : RunStatuses, draft : Drafts]
CallRecords ==
  [op : {"none", "send", "act", "sync"}, turn : Turns \cup {NULL},
   at : {"none", "claimed", "checked", "graph", "asked", "read", "seen"},
   action : Actions \cup {NULL}, expected : Drafts, active : Turns \cup {NULL},
   seen : Readings \cup {NULL}, fresh : BOOLEAN]

\* What stands for something missing is not a value.
ASSUME MissingAssumption ==
  /\ NoTurn \notin Rows /\ NoRun \notin Views
  /\ NULL \notin Turns /\ NULL \notin DraftIds /\ NULL \notin Readings /\ NULL # Interrupted

Exists(q) == turns[q] # NoTurn
IsAgent(q) == Exists(q) /\ turns[q].kind = "agent"
IsVision(q) == Exists(q) /\ turns[q].kind = "vision"
Verdict(q) == IsVision(q) /\ turns[q].error = Interrupted

\* A call: what it does to which turn, how far it is, and what it remembers
\* from one transaction to the next.
Idle == [op |-> "none", turn |-> NULL, at |-> "none", action |-> NULL, expected |-> NULL,
         active |-> NULL, seen |-> NULL, fresh |-> FALSE]
Sending(q) == [Idle EXCEPT !.op = "send", !.turn = q, !.at = "claimed"]
Acting(q, action, expected) ==
  [Idle EXCEPT !.op = "act", !.turn = q, !.at = "claimed", !.action = action,
               !.expected = expected]
Syncing(q) == [Idle EXCEPT !.op = "sync", !.turn = q, !.at = "asked", !.active = active]

IsIdle(c) == calls[c].op = "none"
Is(c, op, at) == calls[c].op = op /\ calls[c].at = at

\* The call has claimed the turn and not yet given it back.
Holds(c) == calls[c].op \in {"send", "act"}
HeldBy(q) == {c \in Calls : Holds(c) /\ calls[c].turn = q}

\* The run of the turn is being worked on.
InGraph(c, q) == Holds(c) /\ calls[c].turn = q /\ calls[c].at = "graph"

----------------------------------------------------------------------------
(* Writing the row of a turn.  Every write moves updated_at, so that what a *)
(* synchronising call has read of the row is no longer its last version.   *)

Written(q, c, call) ==
  /\ old' = [old EXCEPT ![q] = FALSE]
  /\ calls' = [x \in Calls |->
                 IF x = c THEN call
                 ELSE IF calls[x].op = "sync" /\ calls[x].turn = q
                      THEN [calls[x] EXCEPT !.fresh = FALSE]
                      ELSE calls[x]]

\* The call goes on without a transaction.
Step(c, call) ==
  /\ calls' = [calls EXCEPT ![c] = call]
  /\ UNCHANGED <<turns, active, old>>

Move(c, at) == Step(c, [calls[c] EXCEPT !.at = at])

\* The call is answered and leaves everything as it is.
Leave(c) == Step(c, Idle)

\* Seeded fault: the late answer of an interrupted vision task is stored.
FinishTurnLate(c, row) ==
  LET q == calls[c].turn
  IN  /\ turns' = [turns EXCEPT ![q] = row]
      /\ active' = IF active = q THEN NULL ELSE active
      /\ Written(q, c, Idle)

\* finish_turn, the end of a call: an interrupted vision task keeps its
\* verdict, and the claim is only given up if it is this turn's.
FinishTurn(c, row) ==
  LET q == calls[c].turn
  IN  IF Verdict(q)
      THEN Leave(c)
      ELSE /\ turns' = [turns EXCEPT ![q] = row]
           /\ active' = IF active = q THEN NULL ELSE active
           /\ Written(q, c, Idle)

Row(q, status, draft) == [turns[q] EXCEPT !.status = status, !.draft = draft]

\* What the run is at becomes the history.
FinishWith(c, status) ==
  FinishTurn(c, Row(calls[c].turn, status, runs[calls[c].turn].draft))

----------------------------------------------------------------------------
(* POST turns                                                              *)

\* Seeded fault: a result that is not known does not stop new work.
ClaimTurnWhileUnknown(c, q, kind) ==
  /\ IsIdle(c)
  /\ ~Exists(q)
  /\ active = NULL
  /\ turns' = [turns EXCEPT ![q] =
                 [kind |-> kind, status |-> "RUNNING", draft |-> NULL, error |-> NULL]]
  /\ active' = q
  /\ Written(q, c, Sending(q))
  /\ UNCHANGED runs

\* claim_turn: a request id that is there already, a claim or an unknown
\* result are answered without a change.
ClaimTurn(c, q, kind) ==
  /\ IsIdle(c)
  /\ ~Exists(q)
  /\ active = NULL
  /\ \A other \in Turns : Exists(other) => turns[other].status # "RESULT_UNKNOWN"
  /\ turns' = [turns EXCEPT ![q] =
                 [kind |-> kind, status |-> "RUNNING", draft |-> NULL, error |-> NULL]]
  /\ active' = q
  /\ Written(q, c, Sending(q))
  /\ UNCHANGED runs

\* memory_context and visible_history are done; start_run writes the first
\* checkpoint.
StartRun(c) ==
  /\ Is(c, "send", "claimed")
  /\ IsAgent(calls[c].turn)
  /\ runs' = [runs EXCEPT ![calls[c].turn] = Started]
  /\ Move(c, "graph")

\* A node of the graph succeeds.
RunNode(c) ==
  /\ calls[c].at = "graph"
  /\ LET q == calls[c].turn
     IN  \E run \in NodeSteps(runs[q]) : runs' = [runs EXCEPT ![q] = run]
  /\ UNCHANGED <<turns, active, old, calls>>

\* The graph waits for the customer or is over.
SendAnswered(c) ==
  /\ Is(c, "send", "graph")
  /\ ~Busy(runs[calls[c].turn])
  /\ FinishWith(c, runs[calls[c].turn].status)
  /\ UNCHANGED runs

\* The except branch of send_turn: what the model, the order service, the
\* context or the configuration raised is known not to have written; a
\* conflict of the graph, Redis or the database is not.
SendFails(c) ==
  /\ calls[c].op = "send"
  /\ IsAgent(calls[c].turn)
  /\ \E status \in {"FAILED", "RESULT_UNKNOWN"} : FinishTurn(c, Row(calls[c].turn, status, NULL))
  /\ UNCHANGED runs

\* The vision gateway answers or raises; no run is involved.
VisionEnds(c) ==
  /\ Is(c, "send", "claimed")
  /\ IsVision(calls[c].turn)
  /\ \E status \in {"COMPLETED", "FAILED"} : FinishTurn(c, Row(calls[c].turn, status, NULL))
  /\ UNCHANGED runs

----------------------------------------------------------------------------
(* POST actions                                                            *)

\* Seeded fault: a turn about pictures is acted on.
ClaimActionOnImages(c, q, action, expected) ==
  /\ IsIdle(c)
  /\ Exists(q)
  /\ active = NULL
  /\ active' = q
  /\ Written(q, c, Acting(q, action, expected))
  /\ UNCHANGED <<turns, runs>>

\* Seeded fault: an action does not look at the claim.
ClaimActionAnyway(c, q, action, expected) ==
  /\ IsIdle(c)
  /\ IsAgent(q)
  /\ active' = q
  /\ Written(q, c, Acting(q, action, expected))
  /\ UNCHANGED <<turns, runs>>

\* The kind is checked before claim_action; expected is the draft the
\* customer has on the screen.
ClaimAction(c, q, action, expected) ==
  /\ IsIdle(c)
  /\ IsAgent(q)
  /\ active = NULL
  /\ active' = q
  /\ Written(q, c, Acting(q, action, expected))
  /\ UNCHANGED <<turns, runs>>

\* The run is read under the claim; a confirmation of another draft than the
\* run's gives the claim back with what was read.
CheckAction(c) ==
  /\ Is(c, "act", "claimed")
  /\ LET q == calls[c].turn
         differs == calls[c].action = "confirm" /\ runs[q].draft \notin {NULL, calls[c].expected}
     IN  /\ runs[q] # NoRun
         /\ IF differs THEN \E status \in ShownStatuses(runs[q]) : FinishWith(c, status)
                       ELSE Move(c, "checked")
  /\ UNCHANGED runs

\* read_run raises: the claim is given back, the history stays.
CheckActionFails(c) ==
  /\ Is(c, "act", "claimed")
  /\ FinishTurn(c, turns[calls[c].turn])
  /\ UNCHANGED runs

\* resume_run or submit_reason takes the answer, or goes on at the node an
\* earlier call left.
RunAction(c) ==
  /\ Is(c, "act", "checked")
  /\ LET q == calls[c].turn
         action == calls[c].action
     IN  \/ \E run \in AnswerSteps(runs[q], action) : runs' = [runs EXCEPT ![q] = run]
         \/ /\ \/ action = "confirm" /\ runs[q].at = "execute"
               \/ action = "reason" /\ runs[q].at = "review"
            /\ UNCHANGED runs
  /\ Move(c, "graph")

\* refresh_run: the new checkpoint is written after both calls to the service.
RefreshAction(c) ==
  /\ Is(c, "act", "checked")
  /\ calls[c].action = "refresh"
  /\ LET q == calls[c].turn
     IN  \E run \in RefreshSteps(runs[q]) : runs' = [runs EXCEPT ![q] = run]
  /\ Move(c, "graph")

\* The same confirmation again only shows the receipt.
ShowReceipt(c) ==
  /\ Is(c, "act", "checked")
  /\ calls[c].action = "confirm"
  /\ runs[calls[c].turn].applied
  /\ FinishWith(c, runs[calls[c].turn].status)
  /\ UNCHANGED runs

\* The graph is done; a confirmation that became stale reads the run again,
\* and if that fails nobody gives the claim back.
ActAnswered(c) ==
  /\ Is(c, "act", "graph")
  /\ ~Busy(runs[calls[c].turn])
  /\ \/ FinishWith(c, runs[calls[c].turn].status)
     \/ Stale(runs[calls[c].turn]) /\ Leave(c)
  /\ UNCHANGED runs

\* submit_return_reason lets ORDER_CHANGED through: the run is read again
\* and stays at its node.
ReasonMeetsChangedOrder(c) ==
  /\ Is(c, "act", "graph")
  /\ runs[calls[c].turn].at = "review"
  /\ \/ \E status \in ShownStatuses(runs[calls[c].turn]) : FinishWith(c, status)
     \/ Leave(c)
  /\ UNCHANGED runs

\* Anything else that is raised, a conflict with the run's place included.
ActFails(c) ==
  /\ calls[c].op = "act"
  /\ calls[c].at \in {"checked", "graph"}
  /\ FinishTurn(c, Row(calls[c].turn, "RESULT_UNKNOWN", turns[calls[c].turn].draft))
  /\ UNCHANGED runs

----------------------------------------------------------------------------
(* POST sync                                                               *)

\* The conversation is read.
SyncAsk(c, q) ==
  /\ IsIdle(c)
  /\ IsAgent(q)
  /\ Step(c, Syncing(q))
  /\ UNCHANGED runs

\* Seeded fault: the claim is taken for a dead one at once.
SyncReadTurnAtOnce(c) ==
  /\ Is(c, "sync", "asked")
  /\ Step(c, [calls[c] EXCEPT !.at = "read", !.fresh = TRUE])
  /\ UNCHANGED runs

\* The row is read: a claim counts as alive for 15 minutes after the row was
\* written.
SyncReadTurn(c) ==
  /\ Is(c, "sync", "asked")
  /\ IF calls[c].active # NULL /\ ~old[calls[c].turn]
     THEN Leave(c)
     ELSE Step(c, [calls[c] EXCEPT !.at = "read", !.fresh = TRUE])
  /\ UNCHANGED runs

\* The run is read; there must be one, and it must not be RUNNING.
SyncReadRun(c) ==
  /\ Is(c, "sync", "read")
  /\ LET run == runs[calls[c].turn]
     IN  /\ run # NoRun
         /\ run.status # "RUNNING"
         /\ \E status \in ShownStatuses(run) :
              Step(c, [calls[c] EXCEPT !.at = "seen",
                                       !.seen = [status |-> status, draft |-> run.draft]])
  /\ UNCHANGED runs

\* 404, or read_run raises.
SyncFindsNothing(c) ==
  /\ Is(c, "sync", "read")
  /\ Leave(c)
  /\ UNCHANGED runs

\* "The checkpoint is still executing; nothing was executed again."
SyncFindsRunning(c) ==
  /\ Is(c, "sync", "read")
  /\ runs[calls[c].turn] # NoRun
  /\ runs[calls[c].turn].status = "RUNNING"
  /\ Leave(c)
  /\ UNCHANGED runs

\* Seeded fault: what was read is stored whatever was written since.
SyncFinishBlindly(c) ==
  /\ Is(c, "sync", "seen")
  /\ FinishTurn(c, Row(calls[c].turn, calls[c].seen.status, calls[c].seen.draft))
  /\ UNCHANGED runs

\* Seeded fault: only a claim that was there when the call began is given up.
SyncFinishKeepingClaim(c) ==
  /\ Is(c, "sync", "seen")
  /\ turns' = [turns EXCEPT ![calls[c].turn] =
                 Row(calls[c].turn, calls[c].seen.status, calls[c].seen.draft)]
  /\ Written(calls[c].turn, c, Idle)
  /\ UNCHANGED <<active, runs>>

\* finish_turn with expected_snapshot.
SyncFinish(c) ==
  /\ Is(c, "sync", "seen")
  /\ IF calls[c].fresh /\ active = calls[c].active
     THEN FinishTurn(c, Row(calls[c].turn, calls[c].seen.status, calls[c].seen.draft))
     ELSE Leave(c)
  /\ UNCHANGED runs

\* Seeded fault: the interrupted task keeps the conversation.
RecoverKeepingClaim(q) ==
  /\ IsVision(q)
  /\ turns[q].status = "RUNNING"
  /\ old[q]
  /\ active = q
  /\ turns' = [turns EXCEPT ![q].status = "FAILED", ![q].error = Interrupted]
  /\ old' = [old EXCEPT ![q] = FALSE]
  /\ UNCHANGED <<active, runs, calls>>

\* recover_interrupted_vision, one transaction.
RecoverInterruptedVision(q) ==
  /\ IsVision(q)
  /\ turns[q].status = "RUNNING"
  /\ old[q]
  /\ active = q
  /\ turns' = [turns EXCEPT ![q].status = "FAILED", ![q].error = Interrupted]
  /\ active' = NULL
  /\ old' = [old EXCEPT ![q] = FALSE]
  /\ UNCHANGED <<runs, calls>>

----------------------------------------------------------------------------
\* 15 minutes pass without a write.  A call of the agent is over by then, or
\* its process is dead; a vision task may still be waiting for its model.
Age(q) ==
  /\ Exists(q)
  /\ ~old[q]
  /\ IsVision(q) \/ HeldBy(q) = {}
  /\ old' = [old EXCEPT ![q] = TRUE]
  /\ UNCHANGED <<turns, active, runs, calls>>

\* The process dies; in a node it may lose the last checkpoint.
Die(c) ==
  /\ MayDie
  /\ Holds(c)
  /\ LET q == calls[c].turn
     IN  \/ UNCHANGED runs
         \/ /\ calls[c].at = "graph"
            /\ \E run \in UndoSteps(runs[q]) : runs' = [runs EXCEPT ![q] = run]
  /\ Leave(c)

Init ==
  /\ turns = [q \in Turns |-> NoTurn]
  /\ active = NULL
  /\ old = [q \in Turns |-> FALSE]
  /\ runs = [q \in Turns |-> NoRun]
  /\ calls = [c \in Calls |-> Idle]

Ask(c) ==
  \E q \in Turns :
    \/ \E kind \in KindsOf(q) : ClaimTurn(c, q, kind)
    \/ \E expected \in Drafts : ClaimAction(c, q, "confirm", expected)
    \/ \E action \in Actions \ {"confirm"} : ClaimAction(c, q, action, NULL)
    \/ SyncAsk(c, q)

Send(c) == StartRun(c) \/ SendAnswered(c) \/ SendFails(c) \/ VisionEnds(c)

Act(c) ==
  \/ CheckAction(c) \/ CheckActionFails(c)
  \/ RunAction(c) \/ RefreshAction(c) \/ ShowReceipt(c)
  \/ ActAnswered(c) \/ ReasonMeetsChangedOrder(c) \/ ActFails(c)

Sync(c) ==
  SyncReadTurn(c) \/ SyncReadRun(c) \/ SyncFindsNothing(c) \/ SyncFindsRunning(c) \/ SyncFinish(c)

Next ==
  \/ \E c \in Calls : Ask(c) \/ Send(c) \/ RunNode(c) \/ Act(c) \/ Sync(c) \/ Die(c)
  \/ \E q \in Turns : RecoverInterruptedVision(q) \/ Age(q)

Spec == Init /\ [][Next]_vars

\* Time passes, a call that was made goes on, and a page whose turn is not
\* finished keeps synchronising it; now and then Redis and the service answer.
FairSpec ==
  /\ Spec
  /\ \A q \in Turns : WF_vars(Age(q)) /\ WF_vars(RecoverInterruptedVision(q))
  /\ \A c \in Calls :
       /\ WF_vars(Send(c) \/ RunNode(c) \/ Act(c) \/ Sync(c))
       /\ \A q \in Turns : /\ SF_vars(active = q /\ old[q] /\ SyncAsk(c, q))
                         /\ SF_vars(calls[c].turn = q /\ SyncReadRun(c))

----------------------------------------------------------------------------
(* Correctness.                                                            *)

\* A call is where its operation takes it, about a row of the right kind.
WellFormed(call, rows) ==
  /\ call.op = "none" => call = Idle
  /\ call.op # "none" => call.turn \in Turns /\ rows[call.turn] # NoTurn
  /\ call.op = "send" => call.at \in {"claimed", "graph"}
  /\ call.op = "act" => call.at \in {"claimed", "checked", "graph"}
  /\ call.op = "sync" => call.at \in {"asked", "read", "seen"}
  /\ call.op \in {"act", "sync"} \/ call.at = "graph" => rows[call.turn].kind = "agent"
  /\ call.at = "seen" => call.seen \in Readings
  /\ call.fresh => call.at \in {"read", "seen"}

\* The types of rows, runs and calls.
PortalTypeOK ==
  /\ turns \in [Turns -> Rows \cup {NoTurn}]
  /\ active \in Turns \cup {NULL}
  /\ active # NULL => Exists(active)
  /\ old \in [Turns -> BOOLEAN]
  /\ runs \in [Turns -> Views \cup {NoRun}]
  /\ \A q \in Turns : runs[q] # NoRun => IsAgent(q)
  /\ calls \in [Calls -> CallRecords]
  /\ \A c \in Calls : WellFormed(calls[c], turns)

\* docs/customer-portal-and-vision.md: the conversation never works on two
\* operations at a time.  A call that works does so under the claim; only a
\* vision task that was declared interrupted, and writes nothing, is left.
NoParallelOperations ==
  \A c \in Calls :
    Holds(c) /\ ~Verdict(calls[c].turn)
      => /\ active = calls[c].turn
         /\ \A other \in Calls \ {c} : ~(Holds(other) /\ ~Verdict(calls[other].turn))

\* portal_api.py, before claim_action's checks: whatever other calls do, an
\* approval is never used for another draft than the one it was given for.
ApprovedAsShown ==
  \A c \in Calls :
    LET run == runs[calls[c].turn]
    IN  calls[c].action = "confirm" /\ calls[c].at = "graph" /\ run.at = "execute"
          => calls[c].expected = run.draft

\* When nobody works on a conversation, what its history says of an agent's
\* turn is what the checkpoint says (or that the draft expired there); only
\* a turn that says it does not know, or that failed, is excused.
HistoryTellsCheckpoint ==
  \A q \in Turns :
    IsAgent(q) /\ active # q /\ turns[q].status \notin {"FAILED", "RESULT_UNKNOWN"}
      => /\ runs[q] # NoRun
         /\ turns[q].status \in ShownStatuses(runs[q])
         /\ turns[q].draft = runs[q].draft

\* An unknown result blocks new work: no turn is begun while the history has
\* one, and none comes up behind a turn that is being sent.
UnknownBlocksNewWork ==
  \A c \in Calls, q \in Turns :
    calls[c].op = "send" /\ Exists(q) /\ turns[q].status = "RESULT_UNKNOWN"
      => Verdict(calls[c].turn)

\* A call that acts on a turn, or is in its graph, works on a checkpoint:
\* none is lost under it.
WorkHasRun == \A c \in Calls : calls[c].at \in {"checked", "graph"} => runs[calls[c].turn] # NoRun

\* The invariant of the rows: they are of the kinds the calls work on, and
\* an unknown result stops new work.
PortalInv == PortalTypeOK /\ WorkHasRun /\ UnknownBlocksNewWork

\* A vision task declared interrupted stays so, whenever its late answer
\* comes.
VerdictFinal == [][\A q \in Turns : Verdict(q) => turns'[q] = turns[q]]_vars

\* A conversation is given back: by a vision task whose process died, and by
\* a dead claim of the agent, unless its checkpoint says that it is still
\* being worked on or was never written.
ClaimReleased ==
  \A q \in Turns :
    /\ IsVision(q) /\ active = q ~> active # q
    /\ IsAgent(q) /\ active = q
         ~> active # q \/ runs[q] = NoRun \/ runs[q].status = "RUNNING"

----------------------------------------------------------------------------
(* Why the invariants hold: with these the proofs go by induction.         *)

\* The run of an agent's turn that was not written for 15 minutes is nobody's.
OldIsUnheld == \A q \in Turns : old[q] /\ IsAgent(q) => HeldBy(q) = {}

\* A synchronising call goes on behind a claim only while the row is old.
FreshBehindClaimIsOld ==
  \A c \in Calls : calls[c].fresh /\ calls[c].active # NULL => old[calls[c].turn]

ClaimsInv == NoParallelOperations /\ OldIsUnheld /\ FreshBehindClaimIsOld

\* Only a failed task was declared interrupted.
VerdictIsFailure == \A q \in Turns : Verdict(q) => turns[q].status = "FAILED"

WorkInv == VerdictIsFailure /\ UnknownBlocksNewWork

\* A run that waits, or is in a node behind an answer, has a draft.
WaitingHasDraft ==
  \A q \in Turns : runs[q] # NoRun /\ runs[q].at \notin {"start", "end"} => runs[q].draft # NULL

\* A confirmation that was let through is about the draft of the run.
CheckedIsExpected ==
  \A c \in Calls :
    Is(c, "act", "checked") /\ calls[c].action = "confirm"
      => runs[calls[c].turn].draft \in {NULL, calls[c].expected}

\* What the history says of a turn is what its checkpoint says.
Tells(q) ==
  turns[q].status \notin {"FAILED", "RESULT_UNKNOWN"}
    => /\ runs[q] # NoRun
       /\ turns[q].status \in ShownStatuses(runs[q])
       /\ turns[q].draft = runs[q].draft

\* An action that did not touch the run yet may give the claim back as it is.
ClaimedTells ==
  \A c \in Calls :
    calls[c].op = "act" /\ calls[c].at \in {"claimed", "checked"} => Tells(calls[c].turn)

\* What a synchronising call has seen is the run, unless somebody claimed
\* the turn since; then it does not write.
SeenIsRun ==
  \A c \in Calls :
    LET q == calls[c].turn
    IN  Is(c, "sync", "seen") /\ calls[c].fresh
          => \/ active = q /\ calls[c].active = NULL
             \/ /\ runs[q] # NoRun
                /\ calls[c].seen.status \in ShownStatuses(runs[q])
                /\ calls[c].seen.draft = runs[q].draft

CheckpointInv ==
  /\ WorkHasRun /\ WaitingHasDraft /\ CheckedIsExpected /\ ApprovedAsShown
  /\ ClaimedTells /\ SeenIsRun /\ HistoryTellsCheckpoint

----------------------------------------------------------------------------
(* What the repository says and the code does not keep.                    *)

\* The answer "the checkpoint is still executing" is true when no process
\* dies: some call is working on the run.
RunningIsExecuting ==
  [][\A c \in Calls : SyncFindsRunning(c) => \E other \in Calls : InGraph(other, calls[c].turn)]_vars
=============================================================================
