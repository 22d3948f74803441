------------------------- MODULE PortalTurn_proofs -------------------------
(***************************************************************************)
(* Proofs about PortalTurn for any number of turns, drafts and calls, and  *)
(* whether or not processes die.                                           *)
(***************************************************************************)
EXTENDS PortalTurn, TLAPS

\* Whatever becomes of a run, it is a run or, after a crash, none.
LEMMA RunType ==
  ASSUME NEW run \in Views
  PROVE  /\ Started \in Views
         /\ NodeSteps(run) \subseteq Views
         /\ RefreshSteps(run) \subseteq Views
         /\ UndoSteps(run) \subseteq Views \cup {NoRun}
         /\ \A action : AnswerSteps(run, action) \subseteq Views
<1>1. ASSUME NEW at \in Places, NEW status \in RunStatuses, NEW draft \in Drafts, NEW applied \in BOOLEAN
      PROVE  RunView(at, status, draft, applied) \in Views
  BY DEF RunView, Views
<1>2. run.draft \in Drafts /\ NULL \in Drafts /\ DraftIds \subseteq Drafts
  BY DEF Views, Drafts
<1>3. Started \in Views
  BY <1>1, <1>2 DEF Started, Places, RunStatuses
<1>4. ASSUME NEW d \in Drafts
      PROVE  /\ Waiting(d) \subseteq Views
             /\ RunView("review", "WAITING_REASON", d, FALSE) \in Views
             /\ RunView("review", "RUNNING", d, FALSE) \in Views
             /\ \A status \in RunStatuses : Ended(status, d) \in Views
  BY <1>1 DEF Waiting, Ended, Places, RunStatuses
<1>5. StartSteps \subseteq Views
  <2>1. RunView("start", "WAITING_REASON", NULL, FALSE) \in Views /\ Ended("COMPLETED", NULL) \in Views
    BY <1>1, <1>2, <1>4 DEF Places, RunStatuses
  <2>2. ASSUME NEW d \in DraftIds
        PROVE  Waiting(d) \cup {RunView("review", "WAITING_REASON", d, FALSE), Ended("EXPIRED", d)}
                 \subseteq Views
    BY <1>2, <1>4 DEF RunStatuses
  <2>3. QED
    BY <2>1, <2>2 DEF StartSteps
<1>6. ReviewSteps(run) \subseteq Views /\ ExecuteSteps(run) \subseteq Views
  BY <1>1, <1>2, <1>4 DEF ReviewSteps, ExecuteSteps, Places, RunStatuses
<1>7. NodeSteps(run) \subseteq Views
  BY <1>2, <1>4, <1>5, <1>6 DEF NodeSteps, RunStatuses
<1>8. RefreshSteps(run) \subseteq Views
  BY <1>2, <1>4 DEF RefreshSteps, RunStatuses
<1>9. ASSUME NEW at \in Places PROVE [run EXCEPT !.at = at] \in Views
  BY DEF Views
<1>10. UndoSteps(run) \subseteq Views \cup {NoRun}
  BY <1>1, <1>2, <1>3, <1>9 DEF UndoSteps, Places, RunStatuses
<1>11. ASSUME NEW action PROVE AnswerSteps(run, action) \subseteq Views
  BY <1>2, <1>4, <1>9 DEF AnswerSteps, Places
<1>12. QED
  BY <1>3, <1>7, <1>8, <1>10, <1>11

\* What every step keeps of the rows: which requests they are of.
Kept == \A q \in Turns : Exists(q) => Exists(q)' /\ turns'[q].kind = turns[q].kind

LEMMA KeptWellFormed ==
  ASSUME Kept, NEW call \in CallRecords, WellFormed(call, turns)
  PROVE  WellFormed(call, turns')
<1>1. CASE call.op = "none"
  BY <1>1 DEF WellFormed, Idle
<1>2. CASE call.op # "none"
  BY <1>2 DEF WellFormed, Kept, Exists
<1>3. QED
  BY <1>1, <1>2

\* A row that is given up (recover_interrupted_vision) is a row.
LEMMA FailedRow ==
  \A row \in Rows :
    LET failed == [row EXCEPT !.status = "FAILED", !.error = Interrupted]
    IN  /\ failed \in Rows /\ failed.kind = row.kind
        /\ failed.status = "FAILED" /\ failed.error = Interrupted
BY DEF Rows

LEMMA IdleType == \A rows : Idle \in CallRecords /\ WellFormed(Idle, rows)
BY DEF Idle, CallRecords, Drafts, WellFormed

\* The call that is answered or moves on, and the others, for which what
\* they read of the row may have gone out of date.
LEMMA CallsType ==
  ASSUME PortalTypeOK, Kept, NEW q, NEW c \in Calls, NEW call \in CallRecords, WellFormed(call, turns'),
         \/ calls' = [calls EXCEPT ![c] = call]
         \/ Written(q, c, call)
  PROVE  calls' \in [Calls -> CallRecords] /\ \A x \in Calls : WellFormed(calls'[x], turns')
<1>1. calls \in [Calls -> CallRecords] /\ \A x \in Calls : WellFormed(calls[x], turns')
  BY KeptWellFormed DEF PortalTypeOK
<1>2. CASE calls' = [calls EXCEPT ![c] = call]
  BY <1>1, <1>2
<1>3. CASE Written(q, c, call)
  <2>1. ASSUME NEW x \in Calls, calls[x].op = "sync"
        PROVE  /\ [calls[x] EXCEPT !.fresh = FALSE] \in CallRecords
               /\ WellFormed([calls[x] EXCEPT !.fresh = FALSE], turns')
    <3>1. PICK was \in CallRecords : was = calls[x] /\ was.op = "sync" /\ WellFormed(was, turns')
      BY <1>1, <2>1
    <3> DEFINE new == [was EXCEPT !.fresh = FALSE]
    <3>2. new \in CallRecords
      BY DEF CallRecords
    <3>3. /\ new.op = was.op /\ new.turn = was.turn /\ new.at = was.at /\ new.seen = was.seen
          /\ new.fresh = FALSE
      BY DEF CallRecords
    <3> HIDE DEF new
    <3>4. WellFormed(new, turns')
      BY <3>1, <3>3 DEF WellFormed
    <3>5. QED
      BY <3>1, <3>2, <3>4 DEF new
  <2>2. QED
    BY <1>1, <1>3, <2>1 DEF Written
<1>4. QED
  BY <1>2, <1>3

LEMMA StepKeepsType ==
  ASSUME PortalTypeOK, NEW c \in Calls, NEW call \in CallRecords, WellFormed(call, turns),
         Step(c, call), runs' \in [Turns -> Views \cup {NoRun}],
         \A q \in Turns : runs'[q] # NoRun => IsAgent(q)
  PROVE  PortalTypeOK'
<1>1. Kept /\ turns' = turns
  BY DEF Kept, Step, Exists
<1>2. calls' \in [Calls -> CallRecords] /\ \A x \in Calls : WellFormed(calls'[x], turns')
  BY <1>1, CallsType DEF Step
<1>3. QED
  BY <1>1, <1>2 DEF PortalTypeOK, Step, Exists, IsAgent

\* finish_turn writes a row of the same request, or nothing at all.
LEMMA FinishKeepsType ==
  ASSUME PortalTypeOK, NEW c \in Calls, ~IsIdle(c), NEW row \in Rows,
         row.kind = turns[calls[c].turn].kind, FinishTurn(c, row), UNCHANGED runs
  PROVE  PortalTypeOK' /\ Kept
<1> DEFINE q == calls[c].turn
<1>1. q \in Turns /\ Exists(q) /\ calls[c] \in CallRecords
  BY DEF PortalTypeOK, WellFormed, IsIdle, Exists
<1>2. CASE Verdict(q)
  <2>1. Step(c, Idle)
    BY <1>2 DEF FinishTurn, Leave
  <2>2. PortalTypeOK'
    BY <2>1, IdleType, StepKeepsType DEF PortalTypeOK
  <2>3. QED
    BY <2>1, <2>2 DEF Step, Kept, Exists
<1>3. CASE ~Verdict(q)
  <2>1. /\ turns' = [turns EXCEPT ![q] = row]
        /\ active' = IF active = q THEN NULL ELSE active
        /\ Written(q, c, Idle)
    BY <1>3 DEF FinishTurn
  <2>2. turns' \in [Turns -> Rows \cup {NoTurn}] /\ Kept
    BY <1>1, <2>1, MissingAssumption DEF Kept, Exists, PortalTypeOK
  <2>3. calls' \in [Calls -> CallRecords] /\ \A x \in Calls : WellFormed(calls'[x], turns')
    BY <2>1, <2>2, IdleType, CallsType
  <2>4. old' \in [Turns -> BOOLEAN]
    BY <1>1, <2>1 DEF Written, PortalTypeOK
  <2>5. active' \in Turns \cup {NULL} /\ (active' # NULL => Exists(active)')
    BY <1>1, <2>1, <2>2 DEF PortalTypeOK, Kept
  <2>6. \A p \in Turns : runs[p] # NoRun => IsAgent(p)'
    BY <2>2 DEF PortalTypeOK, Kept, IsAgent
  <2>7. QED
    BY <2>2, <2>3, <2>4, <2>5, <2>6 DEF PortalTypeOK
<1>4. QED
  BY <1>2, <1>3

\* A call of a turn works on its row.
LEMMA TurnOfCall ==
  ASSUME PortalTypeOK, NEW c \in Calls, ~IsIdle(c)
  PROVE  /\ calls[c] \in CallRecords /\ calls[c].turn \in Turns
         /\ Exists(calls[c].turn) /\ turns[calls[c].turn] \in Rows
         /\ (calls[c].op \in {"act", "sync"} \/ calls[c].at = "graph" => IsAgent(calls[c].turn))
BY DEF PortalTypeOK, WellFormed, IsIdle, Exists, IsAgent

LEMMA RowType ==
  ASSUME PortalTypeOK, NEW q \in Turns, Exists(q), NEW draft \in Drafts,
         NEW status \in RunStatuses \cup {"FAILED", "RESULT_UNKNOWN"}
  PROVE  /\ Row(q, status, draft) \in Rows
         /\ Row(q, status, draft).kind = turns[q].kind
         /\ Row(q, status, draft).error = turns[q].error
         /\ Row(q, status, draft).status = status
         /\ Row(q, status, draft).draft = draft
BY DEF Row, Rows, PortalTypeOK, Exists

\* The page may be shown an expiry the checkpoint does not know.
LEMMA ShownType ==
  ASSUME NEW run \in Views
  PROVE  ShownStatuses(run) \subseteq RunStatuses /\ run.status \in ShownStatuses(run)
BY DEF ShownStatuses, Views, RunStatuses

\* A new turn, under the claim.
LEMMA ClaimTurnKeepsType ==
  ASSUME PortalTypeOK, NEW c \in Calls, NEW q \in Turns, NEW kind \in KindsOf(q), ClaimTurn(c, q, kind)
  PROVE  PortalTypeOK' /\ Kept
<1> DEFINE row == [kind |-> kind, status |-> "RUNNING", draft |-> NULL, error |-> NULL]
<1>1. row \in Rows
  BY DEF Rows, KindsOf, RunStatuses, Drafts
<1>2. turns' = [turns EXCEPT ![q] = row] /\ turns \in [Turns -> Rows \cup {NoTurn}]
  BY DEF ClaimTurn, PortalTypeOK
<1>3. turns' \in [Turns -> Rows \cup {NoTurn}] /\ Kept /\ turns'[q] # NoTurn
  BY <1>1, <1>2, MissingAssumption DEF Kept, Exists, ClaimTurn
<1>4. Sending(q) \in CallRecords /\ WellFormed(Sending(q), turns')
  BY <1>3 DEF Sending, Idle, CallRecords, WellFormed, Drafts
<1>5. calls' \in [Calls -> CallRecords] /\ \A x \in Calls : WellFormed(calls'[x], turns')
  BY <1>3, <1>4, CallsType DEF ClaimTurn
<1>6. old' \in [Turns -> BOOLEAN]
  BY DEF ClaimTurn, Written, PortalTypeOK
<1>7. active' = q /\ Exists(q)'
  BY <1>3 DEF ClaimTurn, Exists
<1>8. runs' = runs /\ \A p \in Turns : runs[p] # NoRun => IsAgent(p)'
  BY <1>3 DEF ClaimTurn, PortalTypeOK, Kept, IsAgent
<1>9. PortalTypeOK'
  BY <1>3, <1>5, <1>6, <1>7, <1>8 DEF PortalTypeOK
<1>10. QED
  BY <1>3, <1>9

\* An action on a turn, under the claim.
LEMMA ClaimActionKeepsType ==
  ASSUME PortalTypeOK, NEW c \in Calls, NEW q \in Turns, NEW action \in Actions,
         NEW expected \in Drafts, ClaimAction(c, q, action, expected)
  PROVE  PortalTypeOK' /\ Kept
<1>1. turns' = turns /\ runs' = runs /\ active' = q /\ Written(q, c, Acting(q, action, expected))
      /\ IsAgent(q)
  BY DEF ClaimAction
<1>2. Kept
  BY <1>1 DEF Kept, Exists
<1>3. Acting(q, action, expected) \in CallRecords /\ WellFormed(Acting(q, action, expected), turns')
  BY <1>1 DEF Acting, Idle, CallRecords, WellFormed, IsAgent, Exists
<1>4. calls' \in [Calls -> CallRecords] /\ \A x \in Calls : WellFormed(calls'[x], turns')
  BY <1>1, <1>2, <1>3, CallsType
<1>5. old' \in [Turns -> BOOLEAN]
  BY <1>1 DEF Written, PortalTypeOK
<1>6. PortalTypeOK'
  BY <1>1, <1>4, <1>5 DEF PortalTypeOK, Exists, IsAgent
<1>7. QED
  BY <1>2, <1>6

\* A call that moves on keeps what it works on.
LEMMA MoveType ==
  ASSUME PortalTypeOK, NEW c \in Calls, ~IsIdle(c), NEW at,
         \/ calls[c].op = "send" /\ IsAgent(calls[c].turn) /\ at = "graph"
         \/ calls[c].op = "act" /\ at \in {"checked", "graph"}
  PROVE  /\ [calls[c] EXCEPT !.at = at] \in CallRecords
         /\ WellFormed([calls[c] EXCEPT !.at = at], turns)
<1>1. calls[c] \in CallRecords /\ WellFormed(calls[c], turns)
  BY DEF PortalTypeOK
<1>2. at \in {"checked", "graph"}
  OBVIOUS
<1>3. [calls[c] EXCEPT !.at = at] \in CallRecords
  BY <1>1, <1>2 DEF CallRecords
<1>4. ~calls[c].fresh
  BY <1>1 DEF WellFormed
<1>5. QED
  BY <1>1, <1>3, <1>4 DEF WellFormed, IsIdle, CallRecords, IsAgent

\* What is at an earlier end of a call: it is answered or goes on, and the
\* checkpoint changes only for a call that works on it.
LEMMA RunChangeKeepsType ==
  ASSUME PortalTypeOK, NEW q \in Turns, IsAgent(q), NEW run \in Views \cup {NoRun},
         runs' = [runs EXCEPT ![q] = run]
  PROVE  runs' \in [Turns -> Views \cup {NoRun}] /\ \A p \in Turns : runs'[p] # NoRun => IsAgent(p)
BY DEF PortalTypeOK

LEMMA SendKeepsType ==
  ASSUME PortalTypeOK, WorkHasRun, NEW c \in Calls, Send(c)
  PROVE  PortalTypeOK'
<1>1. ~IsIdle(c) /\ calls[c].op = "send"
  BY DEF Send, StartRun, SendAnswered, SendFails, VisionEnds, Is, IsIdle
<1>2. calls[c].turn \in Turns /\ Exists(calls[c].turn) /\ NULL \in Drafts
  BY <1>1, TurnOfCall DEF Drafts
<1>3. CASE StartRun(c)
  <2>1. Started \in Views
    BY DEF Started, RunView, Views, Places, RunStatuses, Drafts
  <2>2. /\ IsAgent(calls[c].turn) /\ runs' = [runs EXCEPT ![calls[c].turn] = Started]
        /\ Step(c, [calls[c] EXCEPT !.at = "graph"])
    BY <1>3 DEF StartRun, Move
  <2>3. /\ [calls[c] EXCEPT !.at = "graph"] \in CallRecords
        /\ WellFormed([calls[c] EXCEPT !.at = "graph"], turns)
    BY <1>1, <2>2, MoveType
  <2>4. QED
    BY <1>2, <2>1, <2>2, <2>3, RunChangeKeepsType, StepKeepsType
<1>4. ASSUME NEW status \in RunStatuses \cup {"FAILED", "RESULT_UNKNOWN"}, NEW draft \in Drafts,
             FinishTurn(c, Row(calls[c].turn, status, draft)), UNCHANGED runs
      PROVE  PortalTypeOK'
  BY <1>1, <1>2, <1>4, RowType, FinishKeepsType
<1>5. CASE SendAnswered(c)
  <2>1. runs[calls[c].turn] \in Views
    BY <1>2, <1>5 DEF SendAnswered, Is, WorkHasRun, PortalTypeOK
  <2>2. QED
    BY <1>4, <1>5, <2>1 DEF SendAnswered, FinishWith, Views
<1>6. CASE SendFails(c)
  BY <1>2, <1>4, <1>6 DEF SendFails
<1>7. CASE VisionEnds(c)
  BY <1>2, <1>4, <1>7 DEF VisionEnds, RunStatuses
<1>8. QED
  BY <1>3, <1>5, <1>6, <1>7 DEF Send

LEMMA ActKeepsType ==
  ASSUME PortalTypeOK, WorkHasRun, NEW c \in Calls, Act(c)
  PROVE  PortalTypeOK'
<1> DEFINE q == calls[c].turn
           Answered == \E status \in RunStatuses \cup {"FAILED", "RESULT_UNKNOWN"}, draft \in Drafts :
                         FinishTurn(c, Row(q, status, draft))
<1>1. ~IsIdle(c) /\ calls[c].op = "act"
  BY DEF Act, CheckAction, CheckActionFails, RunAction, RefreshAction, ShowReceipt, ActAnswered,
         ReasonMeetsChangedOrder, ActFails, Is, IsIdle
<1>2. q \in Turns /\ Exists(q) /\ IsAgent(q) /\ turns[q] \in Rows
  BY <1>1, TurnOfCall
<1>3. ASSUME Answered, UNCHANGED runs PROVE PortalTypeOK'
  BY <1>1, <1>2, <1>3, RowType, FinishKeepsType
<1>4. ASSUME runs[q] # NoRun, NEW status \in ShownStatuses(runs[q]), FinishWith(c, status)
      PROVE  Answered
  <2>1. runs[q] \in Views
    BY <1>2, <1>4 DEF PortalTypeOK
  <2>2. status \in RunStatuses /\ runs[q].draft \in Drafts
    BY <2>1, <1>4, ShownType DEF Views
  <2>3. QED
    BY <2>2, <1>4 DEF FinishWith
<1>5. ASSUME Leave(c), UNCHANGED runs PROVE PortalTypeOK'
  BY <1>5, IdleType, StepKeepsType DEF Leave, PortalTypeOK
<1>6. ASSUME NEW at \in {"checked", "graph"}, Move(c, at), runs' \in [Turns -> Views \cup {NoRun}],
             \A p \in Turns : runs'[p] # NoRun => IsAgent(p)
      PROVE  PortalTypeOK'
  BY <1>1, <1>6, MoveType, StepKeepsType DEF Move
<1>7. ASSUME runs[q] # NoRun PROVE runs[q].status \in ShownStatuses(runs[q])
  BY <1>2, <1>7, ShownType DEF PortalTypeOK
<1>8. CASE CheckAction(c)
  <2>1. runs[q] # NoRun /\ UNCHANGED runs
    BY <1>8 DEF CheckAction
  <2>2. CASE \E status \in ShownStatuses(runs[q]) : FinishWith(c, status)
    BY <2>1, <2>2, <1>3, <1>4
  <2>3. CASE Move(c, "checked")
    BY <2>1, <2>3, <1>6 DEF PortalTypeOK
  <2>4. QED
    BY <1>8, <2>2, <2>3 DEF CheckAction
<1>9. CASE CheckActionFails(c)
  BY <1>1, <1>2, <1>9, FinishKeepsType DEF CheckActionFails
<1>10. CASE RunAction(c)
  <2>1. runs[q] # NoRun /\ runs[q] \in Views /\ Move(c, "graph")
    BY <1>2, <1>10 DEF RunAction, WorkHasRun, Is, PortalTypeOK
  <2>2. CASE \E run \in AnswerSteps(runs[q], calls[c].action) : runs' = [runs EXCEPT ![q] = run]
    BY <1>2, <1>6, <2>1, <2>2, RunType, RunChangeKeepsType
  <2>3. CASE UNCHANGED runs
    BY <1>6, <2>1, <2>3 DEF PortalTypeOK
  <2>4. QED
    BY <1>10, <2>2, <2>3 DEF RunAction
<1>11. CASE RefreshAction(c)
  <2>1. runs[q] # NoRun /\ runs[q] \in Views /\ Move(c, "graph")
    BY <1>2, <1>11 DEF RefreshAction, WorkHasRun, Is, PortalTypeOK
  <2>2. PICK run \in RefreshSteps(runs[q]) : runs' = [runs EXCEPT ![q] = run]
    BY <1>11 DEF RefreshAction
  <2>3. QED
    BY <1>2, <1>6, <2>1, <2>2, RunType, RunChangeKeepsType
<1>12. CASE ShowReceipt(c)
  BY <1>2, <1>3, <1>4, <1>7, <1>12 DEF ShowReceipt, WorkHasRun, Is
<1>13. CASE ActAnswered(c)
  BY <1>2, <1>3, <1>4, <1>5, <1>7, <1>13 DEF ActAnswered, WorkHasRun, Is
<1>14. CASE ReasonMeetsChangedOrder(c)
  BY <1>2, <1>3, <1>4, <1>5, <1>14 DEF ReasonMeetsChangedOrder, WorkHasRun, Is
<1>15. CASE ActFails(c)
  <2>1. turns[q].draft \in Drafts
    BY <1>2 DEF Rows
  <2>2. QED
    BY <1>3, <1>15, <2>1 DEF ActFails
<1>16. QED
  BY <1>8, <1>9, <1>10, <1>11, <1>12, <1>13, <1>14, <1>15 DEF Act

LEMMA SyncKeepsType ==
  ASSUME PortalTypeOK, NEW c \in Calls, Sync(c)
  PROVE  PortalTypeOK'
<1> DEFINE q == calls[c].turn
<1>1. ~IsIdle(c) /\ calls[c].op = "sync" /\ UNCHANGED runs
  BY DEF Sync, SyncReadTurn, SyncReadRun, SyncFindsNothing, SyncFindsRunning, SyncFinish, Is, IsIdle
<1>2. q \in Turns /\ Exists(q) /\ IsAgent(q) /\ calls[c] \in CallRecords /\ WellFormed(calls[c], turns)
  BY <1>1, TurnOfCall DEF PortalTypeOK
<1>3. CASE Leave(c)
  BY <1>1, <1>3, IdleType, StepKeepsType DEF Leave, PortalTypeOK
<1>4. CASE Step(c, [calls[c] EXCEPT !.at = "read", !.fresh = TRUE])
  <2>1. [calls[c] EXCEPT !.at = "read", !.fresh = TRUE] \in CallRecords
    BY <1>2 DEF CallRecords
  <2>2. WellFormed([calls[c] EXCEPT !.at = "read", !.fresh = TRUE], turns)
    BY <1>1, <1>2 DEF WellFormed, CallRecords
  <2>3. QED
    BY <1>1, <1>4, <2>1, <2>2, StepKeepsType DEF PortalTypeOK
<1>5. CASE SyncReadRun(c)
  <2>1. PICK status \in ShownStatuses(runs[q]) :
          Step(c, [calls[c] EXCEPT !.at = "seen",
                                   !.seen = [status |-> status, draft |-> runs[q].draft]])
    BY <1>5 DEF SyncReadRun
  <2> DEFINE seen == [status |-> status, draft |-> runs[q].draft]
             call == [calls[c] EXCEPT !.at = "seen", !.seen = seen]
  <2>2. runs[q] \in Views
    BY <1>2, <1>5 DEF SyncReadRun, PortalTypeOK
  <2>3. seen \in Readings
    BY <2>2, ShownType DEF Readings, Views
  <2> HIDE DEF seen
  <2>4. call \in CallRecords
    BY <1>2, <2>3 DEF CallRecords
  <2>5. WellFormed(call, turns)
    BY <1>1, <1>2, <2>3 DEF WellFormed, CallRecords
  <2>6. QED
    BY <1>1, <2>1, <2>4, <2>5, StepKeepsType DEF PortalTypeOK, seen
<1>6. CASE SyncFinish(c)
  <2>1. calls[c].seen.status \in RunStatuses /\ calls[c].seen.draft \in Drafts
    BY <1>2, <1>6 DEF SyncFinish, Is, WellFormed, Readings
  <2>2. CASE FinishTurn(c, Row(q, calls[c].seen.status, calls[c].seen.draft))
    BY <1>1, <1>2, <2>1, <2>2, RowType, FinishKeepsType
  <2>3. QED
    BY <1>3, <1>6, <2>2 DEF SyncFinish
<1>7. QED
  BY <1>3, <1>4, <1>5, <1>6 DEF Sync, SyncReadTurn, SyncFindsNothing, SyncFindsRunning

LEMMA OthersKeepType ==
  ASSUME PortalTypeOK, WorkHasRun,
         \/ \E c \in Calls, q \in Turns : SyncAsk(c, q)
         \/ \E c \in Calls : RunNode(c) \/ Die(c)
         \/ \E q \in Turns : RecoverInterruptedVision(q) \/ Age(q)
  PROVE  PortalTypeOK'
<1>1. ASSUME NEW c \in Calls, NEW q \in Turns, SyncAsk(c, q) PROVE PortalTypeOK'
  <2>1. Syncing(q) \in CallRecords /\ WellFormed(Syncing(q), turns)
    BY <1>1 DEF Syncing, Idle, CallRecords, WellFormed, Drafts, SyncAsk, IsAgent, Exists, PortalTypeOK
  <2>2. QED
    BY <1>1, <2>1, StepKeepsType DEF SyncAsk, PortalTypeOK
<1>2. ASSUME NEW c \in Calls, calls[c].at = "graph"
      PROVE  LET q == calls[c].turn
             IN  q \in Turns /\ IsAgent(q) /\ runs[q] \in Views
  <2>1. ~IsIdle(c)
    BY <1>2 DEF PortalTypeOK, WellFormed, IsIdle, Idle
  <2>2. QED
    BY <1>2, <2>1, TurnOfCall DEF WorkHasRun, PortalTypeOK
<1>3. ASSUME NEW c \in Calls, RunNode(c) PROVE PortalTypeOK'
  <2> DEFINE q == calls[c].turn
  <2>1. q \in Turns /\ IsAgent(q) /\ runs[q] \in Views
    BY <1>2, <1>3 DEF RunNode
  <2>2. PICK run \in NodeSteps(runs[q]) : runs' = [runs EXCEPT ![q] = run]
    BY <1>3 DEF RunNode
  <2>3. run \in Views
    BY <2>1, RunType
  <2>4. QED
    BY <1>3, <2>1, <2>2, <2>3, RunChangeKeepsType DEF RunNode, PortalTypeOK, Exists, IsAgent
<1>4. ASSUME NEW c \in Calls, Die(c) PROVE PortalTypeOK'
  <2> DEFINE q == calls[c].turn
  <2>1. runs' \in [Turns -> Views \cup {NoRun}] /\ \A p \in Turns : runs'[p] # NoRun => IsAgent(p)
    <3>1. CASE UNCHANGED runs
      BY <3>1 DEF PortalTypeOK
    <3>2. CASE calls[c].at = "graph" /\ \E run \in UndoSteps(runs[q]) : runs' = [runs EXCEPT ![q] = run]
      BY <1>2, <3>2, RunType, RunChangeKeepsType
    <3>3. QED
      BY <1>4, <3>1, <3>2 DEF Die
  <2>2. QED
    BY <1>4, <2>1, IdleType, StepKeepsType DEF Die, Leave
<1>5. ASSUME NEW q \in Turns, RecoverInterruptedVision(q) PROVE PortalTypeOK'
  <2>1. /\ turns' = [turns EXCEPT ![q].status = "FAILED", ![q].error = Interrupted]
        /\ active' = NULL /\ old' = [old EXCEPT ![q] = FALSE] /\ runs' = runs /\ calls' = calls
        /\ Exists(q)
    BY <1>5 DEF RecoverInterruptedVision, IsVision
  <2>2. turns[q] \in Rows /\ [turns[q] EXCEPT !.status = "FAILED", !.error = Interrupted] \in Rows
    BY <2>1 DEF PortalTypeOK, Exists, Rows
  <2>3. turns' = [turns EXCEPT ![q] = [turns[q] EXCEPT !.status = "FAILED", !.error = Interrupted]]
    BY <2>1, <2>2 DEF PortalTypeOK
  <2>4. turns' \in [Turns -> Rows \cup {NoTurn}]
    BY <2>2, <2>3 DEF PortalTypeOK
  <2>5. Kept
    BY <2>1, <2>2, <2>3, MissingAssumption DEF Kept, Exists, PortalTypeOK, Rows
  <2>6. \A c \in Calls : WellFormed(calls[c], turns')
    BY <2>5, KeptWellFormed DEF PortalTypeOK
  <2>7. \A p \in Turns : runs[p] # NoRun => IsAgent(p)'
    BY <2>5 DEF PortalTypeOK, Kept, IsAgent
  <2>8. QED
    BY <2>1, <2>4, <2>6, <2>7 DEF PortalTypeOK
<1>6. ASSUME NEW q \in Turns, Age(q) PROVE PortalTypeOK'
  BY <1>6 DEF Age, PortalTypeOK, Exists, IsAgent
<1>7. QED
  BY <1>1, <1>3, <1>4, <1>5, <1>6

LEMMA TypeStep ==
  ASSUME PortalTypeOK, WorkHasRun, [Next]_vars
  PROVE  PortalTypeOK'
<1>1. CASE UNCHANGED vars
  BY <1>1 DEF vars, PortalTypeOK, Exists, IsAgent
<1>2. CASE Next
  <2>1. ASSUME NEW c \in Calls, Ask(c) PROVE PortalTypeOK'
    <3>1. NULL \in Drafts /\ "confirm" \in Actions
      BY DEF Drafts, Actions
    <3>2. QED
      BY <2>1, <3>1, ClaimTurnKeepsType, ClaimActionKeepsType, OthersKeepType DEF Ask
  <2>2. QED
    BY <1>2, <2>1, SendKeepsType, ActKeepsType, SyncKeepsType, OthersKeepType DEF Next
<1>3. QED
  BY <1>1, <1>2

----------------------------------------------------------------------------
(* One operation at a time.                                                *)

\* A call moves on, is answered or begins to synchronise.
LEMMA StepKeepsClaims ==
  ASSUME PortalTypeOK, ClaimsInv, NEW c \in Calls, NEW call, Step(c, call),
         \/ call.op \in {"none", "sync"}
         \/ Holds(c) /\ call.op = calls[c].op /\ call.turn = calls[c].turn,
         call.fresh /\ call.active # NULL => old[call.turn]
  PROVE  ClaimsInv'
<1>1. turns' = turns /\ active' = active /\ old' = old /\ calls' = [calls EXCEPT ![c] = call]
  BY DEF Step
<1>2. calls'[c] = call /\ \A x \in Calls \ {c} : calls'[x] = calls[x]
  BY <1>1 DEF PortalTypeOK
<1>3. \A x \in Calls : Holds(x)' => Holds(x) /\ calls'[x].turn = calls[x].turn
  BY <1>2 DEF Holds
<1>4. \A q : Verdict(q)' = Verdict(q) /\ IsAgent(q)' = IsAgent(q)
  BY <1>1 DEF Verdict, IsVision, IsAgent, Exists
<1>5. NoParallelOperations'
  BY <1>1, <1>3, <1>4 DEF ClaimsInv, NoParallelOperations
<1>6. OldIsUnheld'
  BY <1>1, <1>3, <1>4 DEF ClaimsInv, OldIsUnheld, HeldBy
<1>7. FreshBehindClaimIsOld'
  BY <1>1, <1>2 DEF ClaimsInv, FreshBehindClaimIsOld
<1>8. QED
  BY <1>5, <1>6, <1>7 DEF ClaimsInv

\* A turn is given back: by its holder, or by a synchronising call that has
\* found the row unchanged and the claim it knew.  In the second case the
\* row is old, so that nobody holds the turn.
LEMMA FinishKeepsClaims ==
  ASSUME PortalTypeOK, ClaimsInv, NEW c \in Calls, NEW row \in Rows,
         row.kind = turns[calls[c].turn].kind, row.error = turns[calls[c].turn].error,
         \/ Holds(c)
         \/ calls[c].op = "sync" /\ calls[c].fresh /\ active = calls[c].active,
         FinishTurn(c, row)
  PROVE  ClaimsInv'
<1> DEFINE q == calls[c].turn
<1>1. ~IsIdle(c) /\ q \in Turns /\ Exists(q)
  BY TurnOfCall DEF Holds, IsIdle
<1>2. CASE Verdict(q)
  <2>1. Step(c, Idle)
    BY <1>2 DEF FinishTurn, Leave
  <2>2. QED
    BY <2>1, StepKeepsClaims DEF Idle
<1>3. CASE ~Verdict(q)
  <2>1. /\ turns' = [turns EXCEPT ![q] = row]
        /\ active' = IF active = q THEN NULL ELSE active
        /\ old' = [old EXCEPT ![q] = FALSE]
        /\ calls' = [x \in Calls |->
                       IF x = c THEN Idle
                       ELSE IF calls[x].op = "sync" /\ calls[x].turn = q
                            THEN [calls[x] EXCEPT !.fresh = FALSE]
                            ELSE calls[x]]
    BY <1>3 DEF FinishTurn, Written
  <2>2. \A p \in Turns : Verdict(p)' = Verdict(p) /\ IsAgent(p)' = IsAgent(p)
    <3>1. row # NoTurn
      BY MissingAssumption
    <3>2. QED
      BY <1>1, <2>1, <3>1 DEF Verdict, IsVision, IsAgent, Exists, PortalTypeOK
  <2>3. \A x \in Calls : Holds(x)' => x # c /\ Holds(x) /\ calls'[x].turn = calls[x].turn
    BY <2>1 DEF Holds, Idle
  <2>4. ASSUME NEW x \in Calls, Holds(x), x # c, ~Verdict(calls[x].turn)
        PROVE  active = calls[x].turn /\ active # q
    <3>1. active = calls[x].turn /\ calls[x].turn \in Turns
      BY <2>4, TurnOfCall DEF ClaimsInv, NoParallelOperations, Holds, IsIdle
    <3>2. CASE Holds(c)
      BY <1>3, <2>4, <3>2 DEF ClaimsInv, NoParallelOperations
    <3>3. CASE calls[c].op = "sync" /\ calls[c].fresh /\ active = calls[c].active
      <4>1. old[q]
        BY <3>1, <3>3, MissingAssumption DEF ClaimsInv, FreshBehindClaimIsOld
      <4>2. IsAgent(q)
        BY <1>1, <3>3, TurnOfCall
      <4>3. x \notin HeldBy(q)
        BY <1>1, <4>1, <4>2 DEF ClaimsInv, OldIsUnheld
      <4>4. QED
        BY <2>4, <3>1, <4>3 DEF HeldBy
    <3>4. QED
      BY <3>2, <3>3
  <2>5. NoParallelOperations'
    <3>1. SUFFICES ASSUME NEW x \in Calls, Holds(x)', ~Verdict(calls[x].turn)'
                   PROVE  /\ active' = calls'[x].turn
                          /\ \A other \in Calls \ {x} : ~(Holds(other) /\ ~Verdict(calls[other].turn))'
      BY DEF NoParallelOperations
    <3>2. Holds(x) /\ x # c /\ calls'[x].turn = calls[x].turn /\ calls[x].turn \in Turns
      BY <2>3, <3>1, TurnOfCall DEF Holds, IsIdle
    <3>3. ~Verdict(calls[x].turn)
      BY <2>2, <3>1, <3>2 DEF Verdict, IsVision, Exists
    <3>4. active' = calls'[x].turn
      BY <2>1, <2>4, <3>2, <3>3
    <3>5. ASSUME NEW other \in Calls \ {x}, Holds(other)', ~Verdict(calls[other].turn)'
          PROVE  FALSE
      <4>1. Holds(other) /\ calls'[other].turn = calls[other].turn /\ calls[other].turn \in Turns
        BY <2>3, <3>5, TurnOfCall DEF Holds, IsIdle
      <4>2. ~Verdict(calls[other].turn)
        BY <2>2, <3>5, <4>1 DEF Verdict, IsVision, Exists
      <4>3. QED
        BY <3>2, <3>3, <4>1, <4>2 DEF ClaimsInv, NoParallelOperations
    <3>6. QED
      BY <3>4, <3>5
  <2>6. OldIsUnheld'
    BY <2>1, <2>2, <2>3 DEF ClaimsInv, OldIsUnheld, HeldBy, PortalTypeOK
  <2>7. FreshBehindClaimIsOld'
    <3>1. SUFFICES ASSUME NEW x \in Calls, calls'[x].fresh, calls'[x].active # NULL
                   PROVE  old'[calls'[x].turn]
      BY DEF FreshBehindClaimIsOld
    <3>2. x # c /\ calls'[x] = calls[x] /\ ~(calls[x].op = "sync" /\ calls[x].turn = q)
      BY <2>1, <3>1 DEF Idle, PortalTypeOK, CallRecords
    <3>3. calls[x].op = "sync" /\ calls[x].turn \in Turns
      BY <3>1, <3>2 DEF PortalTypeOK, WellFormed, CallRecords, Idle
    <3>4. QED
      BY <2>1, <3>1, <3>2, <3>3 DEF ClaimsInv, FreshBehindClaimIsOld, PortalTypeOK
  <2>8. QED
    BY <2>5, <2>6, <2>7 DEF ClaimsInv
<1>4. QED
  BY <1>2, <1>3

\* A turn is claimed when nobody has a claim; the claim writes the row.
LEMMA ClaimKeepsClaims ==
  ASSUME PortalTypeOK, ClaimsInv, NEW c \in Calls, NEW q \in Turns, NEW call,
         call.op \in {"send", "act"}, call.turn = q, ~call.fresh,
         active = NULL, active' = q, Written(q, c, call), Kept,
         \A p \in Turns \ {q} : turns'[p] = turns[p],
         \A p \in Turns : Verdict(p)' = Verdict(p)
  PROVE  ClaimsInv'
<1>1. /\ old' = [old EXCEPT ![q] = FALSE]
      /\ calls' = [x \in Calls |->
                     IF x = c THEN call
                     ELSE IF calls[x].op = "sync" /\ calls[x].turn = q
                          THEN [calls[x] EXCEPT !.fresh = FALSE]
                          ELSE calls[x]]
  BY DEF Written
<1>2. \A x \in Calls : Holds(x) => calls[x].turn \in Turns /\ Verdict(calls[x].turn)
  BY TurnOfCall, MissingAssumption DEF ClaimsInv, NoParallelOperations, Holds, IsIdle
<1>3. \A x \in Calls : Holds(x)' => x = c \/ (Holds(x) /\ calls'[x].turn = calls[x].turn)
  BY <1>1 DEF Holds
<1>4. \A x \in Calls \ {c} : Holds(x)' => Verdict(calls[x].turn)'
  BY <1>2, <1>3 DEF Verdict, IsVision, Exists
<1>5. NoParallelOperations'
  BY <1>1, <1>4 DEF NoParallelOperations
<1>6. OldIsUnheld'
  <2>1. SUFFICES ASSUME NEW p \in Turns, old'[p], IsAgent(p)'
                 PROVE  HeldBy(p)' = {}
    BY DEF OldIsUnheld
  <2>2. p # q /\ old[p] /\ IsAgent(p)
    BY <1>1, <2>1 DEF PortalTypeOK, IsAgent, Exists
  <2>3. QED
    BY <1>1, <1>3, <2>2 DEF ClaimsInv, OldIsUnheld, HeldBy
<1>7. FreshBehindClaimIsOld'
  <2>1. SUFFICES ASSUME NEW x \in Calls, calls'[x].fresh, calls'[x].active # NULL
                 PROVE  old'[calls'[x].turn]
    BY DEF FreshBehindClaimIsOld
  <2>2. x # c /\ calls'[x] = calls[x] /\ ~(calls[x].op = "sync" /\ calls[x].turn = q)
    BY <1>1, <2>1 DEF PortalTypeOK, CallRecords
  <2>3. calls[x].op = "sync" /\ calls[x].turn \in Turns
    BY <2>1, <2>2 DEF PortalTypeOK, WellFormed, CallRecords, Idle
  <2>4. QED
    BY <1>1, <2>1, <2>2, <2>3 DEF ClaimsInv, FreshBehindClaimIsOld, PortalTypeOK
<1>8. QED
  BY <1>5, <1>6, <1>7 DEF ClaimsInv

\* An interrupted vision task loses the claim with the verdict.
LEMMA RecoverKeepsClaims ==
  ASSUME PortalTypeOK, ClaimsInv, NEW q \in Turns, RecoverInterruptedVision(q)
  PROVE  ClaimsInv'
<1>1. /\ turns' = [turns EXCEPT ![q].status = "FAILED", ![q].error = Interrupted]
      /\ active = q /\ active' = NULL /\ old' = [old EXCEPT ![q] = FALSE]
      /\ calls' = calls /\ IsVision(q) /\ turns[q] \in Rows
  BY DEF RecoverInterruptedVision, IsVision, Exists, PortalTypeOK
<1>2. Verdict(q)' /\ ~IsAgent(q) /\ ~IsAgent(q)'
  BY <1>1, MissingAssumption DEF Verdict, IsVision, IsAgent, Exists, PortalTypeOK, Rows
<1>3. \A p \in Turns \ {q} : Verdict(p)' = Verdict(p) /\ IsAgent(p)' = IsAgent(p)
  BY <1>1 DEF Verdict, IsVision, IsAgent, Exists, PortalTypeOK
<1>4. \A c \in Calls : Holds(c) => calls[c].turn \in Turns
  BY TurnOfCall DEF Holds, IsIdle
<1>5. \A c \in Calls : Holds(c) => Verdict(calls[c].turn)'
  BY <1>1, <1>2, <1>3, <1>4 DEF ClaimsInv, NoParallelOperations, Verdict, IsVision, Exists
<1>6. NoParallelOperations'
  BY <1>1, <1>5 DEF NoParallelOperations, Holds
<1>7. OldIsUnheld'
  BY <1>1, <1>2, <1>3 DEF ClaimsInv, OldIsUnheld, HeldBy, Holds, PortalTypeOK
<1>8. FreshBehindClaimIsOld'
  <2>1. ASSUME NEW c \in Calls, calls[c].fresh
        PROVE  calls[c].turn \in Turns \ {q}
    BY <1>2, <2>1 DEF PortalTypeOK, WellFormed, IsAgent, Exists, CallRecords, Idle
  <2>2. QED
    BY <1>1, <2>1 DEF ClaimsInv, FreshBehindClaimIsOld, PortalTypeOK
<1>9. QED
  BY <1>6, <1>7, <1>8 DEF ClaimsInv

LEMMA ClaimsStep ==
  ASSUME PortalTypeOK, ClaimsInv, WorkHasRun, [Next]_vars
  PROVE  ClaimsInv'
<1>1. CASE UNCHANGED vars
  BY <1>1 DEF vars, ClaimsInv, NoParallelOperations, OldIsUnheld, FreshBehindClaimIsOld, Holds,
              HeldBy, Verdict, IsVision, IsAgent, Exists
<1>2. ASSUME NEW c \in Calls, NEW q \in Turns, NEW kind \in KindsOf(q), ClaimTurn(c, q, kind)
      PROVE  ClaimsInv'
  <2>1. Kept
    BY <1>2, ClaimTurnKeepsType
  <2>2. \A p \in Turns \ {q} : turns'[p] = turns[p]
    BY <1>2 DEF ClaimTurn, PortalTypeOK
  <2>3. ~Verdict(q) /\ ~Verdict(q)'
    BY <1>2, MissingAssumption DEF ClaimTurn, Verdict, IsVision, Exists, PortalTypeOK
  <2>4. \A p \in Turns : Verdict(p)' = Verdict(p)
    BY <2>2, <2>3 DEF Verdict, IsVision, Exists
  <2>5. Sending(q).op = "send" /\ Sending(q).turn = q /\ ~Sending(q).fresh
    BY DEF Sending, Idle
  <2>6. QED
    BY <1>2, <2>1, <2>2, <2>4, <2>5, ClaimKeepsClaims DEF ClaimTurn
<1>3. ASSUME NEW c \in Calls, NEW q \in Turns, NEW action \in Actions, NEW expected \in Drafts,
             ClaimAction(c, q, action, expected)
      PROVE  ClaimsInv'
  <2>1. Kept
    BY <1>3, ClaimActionKeepsType
  <2>2. turns' = turns /\ \A p \in Turns : Verdict(p)' = Verdict(p)
    BY <1>3 DEF ClaimAction, Verdict, IsVision, Exists
  <2>3. /\ Acting(q, action, expected).op = "act" /\ Acting(q, action, expected).turn = q
        /\ ~Acting(q, action, expected).fresh
    BY DEF Acting, Idle
  <2>4. QED
    BY <1>3, <2>1, <2>2, <2>3, ClaimKeepsClaims DEF ClaimAction
<1>4. ASSUME NEW c \in Calls, NEW q \in Turns, SyncAsk(c, q) PROVE ClaimsInv'
  BY <1>4, StepKeepsClaims DEF SyncAsk, Syncing, Idle
<1>5. ASSUME NEW c \in Calls, Leave(c) PROVE ClaimsInv'
  BY <1>5, StepKeepsClaims DEF Leave, Idle
<1>6. ASSUME NEW c \in Calls, Holds(c), NEW at, Move(c, at) PROVE ClaimsInv'
  <2>1. calls[c] \in CallRecords /\ ~calls[c].fresh
    BY <1>6 DEF PortalTypeOK, WellFormed, Holds
  <2>2. QED
    BY <1>6, <2>1, StepKeepsClaims DEF Move, CallRecords
<1>7. ASSUME NEW c \in Calls, Holds(c),
             NEW status \in RunStatuses \cup {"FAILED", "RESULT_UNKNOWN"}, NEW draft \in Drafts,
             FinishTurn(c, Row(calls[c].turn, status, draft))
      PROVE  ClaimsInv'
  <2>1. calls[c].turn \in Turns /\ Exists(calls[c].turn)
    BY <1>7, TurnOfCall DEF Holds, IsIdle
  <2>2. QED
    BY <1>7, <2>1, RowType, FinishKeepsClaims
<1>8. ASSUME NEW c \in Calls, Holds(c), runs[calls[c].turn] # NoRun,
             NEW status \in ShownStatuses(runs[calls[c].turn]), FinishWith(c, status)
      PROVE  ClaimsInv'
  <2>1. runs[calls[c].turn] \in Views
    BY <1>8, TurnOfCall DEF PortalTypeOK, Holds, IsIdle
  <2>2. status \in RunStatuses /\ runs[calls[c].turn].draft \in Drafts
    BY <2>1, ShownType DEF Views
  <2>3. QED
    BY <1>7, <1>8, <2>2 DEF FinishWith
<1>9. ASSUME NEW c \in Calls, Holds(c), calls[c].at \in {"checked", "graph"}
      PROVE  /\ runs[calls[c].turn] # NoRun
             /\ runs[calls[c].turn].status \in ShownStatuses(runs[calls[c].turn])
  BY <1>9, TurnOfCall, ShownType DEF WorkHasRun, PortalTypeOK, Holds, IsIdle
<1>10. ASSUME NEW c \in Calls, Send(c) PROVE ClaimsInv'
  <2>1. Holds(c) /\ NULL \in Drafts
    BY <1>10 DEF Send, StartRun, SendAnswered, SendFails, VisionEnds, Is, Holds, Drafts
  <2>2. CASE StartRun(c)
    BY <1>6, <2>1, <2>2 DEF StartRun
  <2>3. CASE SendAnswered(c)
    BY <1>8, <1>9, <2>1, <2>3 DEF SendAnswered, Is
  <2>4. CASE SendFails(c)
    BY <1>7, <2>1, <2>4 DEF SendFails
  <2>5. CASE VisionEnds(c)
    BY <1>7, <2>1, <2>5 DEF VisionEnds, RunStatuses
  <2>6. QED
    BY <1>10, <2>2, <2>3, <2>4, <2>5 DEF Send
<1>11. ASSUME NEW c \in Calls, Act(c) PROVE ClaimsInv'
  <2>1. Holds(c)
    BY <1>11 DEF Act, CheckAction, CheckActionFails, RunAction, RefreshAction, ShowReceipt,
                 ActAnswered, ReasonMeetsChangedOrder, ActFails, Is, Holds
  <2>2. turns[calls[c].turn] \in Rows /\ turns[calls[c].turn].draft \in Drafts
    BY <2>1, TurnOfCall DEF Holds, IsIdle, Rows
  <2>3. CASE CheckAction(c)
    BY <1>6, <1>8, <2>1, <2>3 DEF CheckAction
  <2>4. CASE CheckActionFails(c)
    BY <2>1, <2>2, <2>4, FinishKeepsClaims DEF CheckActionFails
  <2>5. CASE RunAction(c) \/ RefreshAction(c)
    BY <1>6, <2>1, <2>5 DEF RunAction, RefreshAction
  <2>6. CASE ShowReceipt(c)
    BY <1>8, <1>9, <2>1, <2>6 DEF ShowReceipt, Is
  <2>7. CASE ActAnswered(c)
    BY <1>5, <1>8, <1>9, <2>1, <2>7 DEF ActAnswered, Is
  <2>8. CASE ReasonMeetsChangedOrder(c)
    BY <1>5, <1>8, <1>9, <2>1, <2>8 DEF ReasonMeetsChangedOrder, Is
  <2>9. CASE ActFails(c)
    BY <1>7, <2>1, <2>2, <2>9 DEF ActFails
  <2>10. QED
    BY <1>11, <2>3, <2>4, <2>5, <2>6, <2>7, <2>8, <2>9 DEF Act
<1>12. ASSUME NEW c \in Calls, Sync(c) PROVE ClaimsInv'
  <2>1. calls[c].op = "sync" /\ calls[c] \in CallRecords /\ ~IsIdle(c)
    BY <1>12 DEF Sync, SyncReadTurn, SyncReadRun, SyncFindsNothing, SyncFindsRunning, SyncFinish, Is,
                 IsIdle, PortalTypeOK
  <2>2. CASE SyncReadTurn(c)
    <3>1. CASE Leave(c)
      BY <1>5, <3>1
    <3>2. CASE /\ ~(calls[c].active # NULL /\ ~old[calls[c].turn])
               /\ Step(c, [calls[c] EXCEPT !.at = "read", !.fresh = TRUE])
      BY <2>1, <3>2, StepKeepsClaims DEF CallRecords
    <3>3. QED
      BY <2>2, <3>1, <3>2 DEF SyncReadTurn
  <2>3. CASE SyncReadRun(c)
    <3>1. PICK status \in ShownStatuses(runs[calls[c].turn]) :
            Step(c, [calls[c] EXCEPT !.at = "seen",
                                     !.seen = [status |-> status, draft |-> runs[calls[c].turn].draft]])
      BY <2>3 DEF SyncReadRun
    <3>2. QED
      BY <2>1, <3>1, StepKeepsClaims DEF CallRecords, ClaimsInv, FreshBehindClaimIsOld
  <2>4. CASE SyncFindsNothing(c) \/ SyncFindsRunning(c)
    BY <1>5, <2>4 DEF SyncFindsNothing, SyncFindsRunning
  <2>5. CASE SyncFinish(c)
    <3>1. CASE Leave(c)
      BY <1>5, <3>1
    <3>2. CASE /\ calls[c].fresh /\ active = calls[c].active
               /\ FinishTurn(c, Row(calls[c].turn, calls[c].seen.status, calls[c].seen.draft))
      <4>1. calls[c].seen.status \in RunStatuses /\ calls[c].seen.draft \in Drafts
        BY <2>5 DEF SyncFinish, Is, PortalTypeOK, WellFormed, Readings
      <4>2. calls[c].turn \in Turns /\ Exists(calls[c].turn)
        BY <2>1, TurnOfCall
      <4>3. QED
        BY <2>1, <3>2, <4>1, <4>2, RowType, FinishKeepsClaims
    <3>3. QED
      BY <2>5, <3>1, <3>2 DEF SyncFinish
  <2>6. QED
    BY <1>12, <2>2, <2>3, <2>4, <2>5 DEF Sync
<1>13. ASSUME NEW c \in Calls, RunNode(c) PROVE ClaimsInv'
  BY <1>13 DEF RunNode, ClaimsInv, NoParallelOperations, OldIsUnheld, FreshBehindClaimIsOld, Holds,
               HeldBy, Verdict, IsVision, IsAgent, Exists
<1>14. ASSUME NEW c \in Calls, Die(c) PROVE ClaimsInv'
  BY <1>5, <1>14 DEF Die
<1>15. ASSUME NEW q \in Turns, Age(q) PROVE ClaimsInv'
  <2>1. /\ turns' = turns /\ active' = active /\ calls' = calls
        /\ old' = [old EXCEPT ![q] = TRUE] /\ (IsVision(q) \/ HeldBy(q) = {})
    BY <1>15 DEF Age
  <2>2. NoParallelOperations'
    BY <2>1 DEF ClaimsInv, NoParallelOperations, Holds, Verdict, IsVision, Exists
  <2>3. OldIsUnheld'
    BY <2>1 DEF ClaimsInv, OldIsUnheld, HeldBy, Holds, IsAgent, IsVision, Exists, PortalTypeOK
  <2>4. \A p \in Turns : old[p] => old'[p]
    BY <2>1 DEF PortalTypeOK
  <2>5. \A c \in Calls : calls[c].fresh => calls[c].turn \in Turns
    BY DEF PortalTypeOK, WellFormed, CallRecords, Idle
  <2>6. FreshBehindClaimIsOld'
    BY <2>1, <2>4, <2>5 DEF ClaimsInv, FreshBehindClaimIsOld
  <2>7. QED
    BY <2>2, <2>3, <2>6 DEF ClaimsInv
<1>16. ASSUME NEW c \in Calls, Ask(c) PROVE ClaimsInv'
  <2>1. NULL \in Drafts /\ "confirm" \in Actions
    BY DEF Drafts, Actions
  <2>2. QED
    BY <1>2, <1>3, <1>4, <1>16, <2>1 DEF Ask
<1>17. QED
  BY <1>1, <1>10, <1>11, <1>12, <1>13, <1>14, <1>15, <1>16, RecoverKeepsClaims DEF Next

----------------------------------------------------------------------------
(* The two stores.                                                         *)

\* A run that waits or is behind an answer has a draft.
HasDraft(run) == run.at \notin {"start", "end"} => run.draft # NULL

\* A node never leaves a run in execute_return: only an answer takes it there.
LEMMA RunDrafts ==
  ASSUME NEW run \in Views, HasDraft(run)
  PROVE  /\ HasDraft(Started) /\ Started.at # "execute"
         /\ \A next \in NodeSteps(run) \cup RefreshSteps(run) : HasDraft(next) /\ next.at # "execute"
         /\ \A next \in UndoSteps(run) : next # NoRun => HasDraft(next)
         /\ \A action : \A next \in AnswerSteps(run, action) :
              HasDraft(next) /\ (next.at = "execute" => next.draft = run.draft)
<1>1. HasDraft(Started) /\ Started.at # "execute"
  BY DEF HasDraft, Started, RunView
<1>2. ASSUME NEW d, d # NULL
      PROVE  \A next \in Waiting(d) \cup {RunView("review", "WAITING_REASON", d, FALSE)} :
               HasDraft(next) /\ next.at # "execute"
  BY <1>2 DEF HasDraft, Waiting, RunView
<1>3. ASSUME NEW d, NEW status PROVE HasDraft(Ended(status, d)) /\ Ended(status, d).at # "execute"
  BY DEF HasDraft, Ended, RunView
<1>4. ASSUME NEW next \in StartSteps PROVE HasDraft(next) /\ next.at # "execute"
  <2>1. CASE next \in {RunView("start", "WAITING_REASON", NULL, FALSE), Ended("COMPLETED", NULL)}
    BY <1>3, <2>1 DEF HasDraft, RunView
  <2>2. CASE next \notin {RunView("start", "WAITING_REASON", NULL, FALSE), Ended("COMPLETED", NULL)}
    <3>1. PICK d \in DraftIds :
            next \in Waiting(d) \cup {RunView("review", "WAITING_REASON", d, FALSE), Ended("EXPIRED", d)}
      BY <1>4, <2>2 DEF StartSteps
    <3>2. d # NULL
      BY MissingAssumption
    <3>3. QED
      BY <1>2, <1>3, <3>1, <3>2
  <2>3. QED
    BY <2>1, <2>2
<1>5. ASSUME run.at = "review", NEW next \in ReviewSteps(run) PROVE HasDraft(next) /\ next.at # "execute"
  BY <1>3, <1>5 DEF ReviewSteps, HasDraft, RunView
<1>6. ASSUME NEW next \in ExecuteSteps(run) PROVE HasDraft(next) /\ next.at # "execute"
  BY <1>3, <1>6 DEF ExecuteSteps, HasDraft, RunView
<1>7. ASSUME NEW next \in NodeSteps(run) PROVE HasDraft(next) /\ next.at # "execute"
  BY <1>3, <1>4, <1>5, <1>6, <1>7 DEF NodeSteps
<1>8. ASSUME NEW next \in RefreshSteps(run) PROVE HasDraft(next) /\ next.at # "execute"
  <2>1. CASE next = Ended("COMPLETED", run.draft)
    BY <1>3, <2>1
  <2>2. CASE next # Ended("COMPLETED", run.draft)
    <3>1. PICK d \in DraftIds : next \in Waiting(d)
      BY <1>8, <2>2 DEF RefreshSteps
    <3>2. QED
      BY <1>2, <3>1, MissingAssumption
  <2>3. QED
    BY <2>1, <2>2
<1>9. ASSUME NEW next \in UndoSteps(run), next # NoRun PROVE HasDraft(next)
  <2>1. CASE run.at = "start"
    BY <1>1, <1>9, <2>1 DEF UndoSteps
  <2>2. CASE run.at = "review"
    BY <1>1, <1>9, <2>2 DEF UndoSteps, HasDraft, RunView
  <2>3. CASE run.at \in {"execute", "cancel"}
    <3>1. next = [run EXCEPT !.at = "confirm"]
      BY <1>9, <2>3 DEF UndoSteps
    <3>2. QED
      BY <2>3, <3>1 DEF HasDraft, Views
  <2>4. QED
    BY <1>9, <2>1, <2>2, <2>3 DEF UndoSteps
<1>10. ASSUME NEW action, NEW next \in AnswerSteps(run, action)
       PROVE  HasDraft(next) /\ (next.at = "execute" => next.draft = run.draft)
  <2>1. CASE run.at = "reason" /\ next = RunView("review", "RUNNING", run.draft, FALSE)
    BY <2>1 DEF HasDraft, RunView
  <2>2. CASE run.at = "confirm" /\ next \in {[run EXCEPT !.at = "execute"], [run EXCEPT !.at = "cancel"]}
    BY <2>2 DEF HasDraft, Views
  <2>3. QED
    BY <1>10, <2>1, <2>2 DEF AnswerSteps
<1>11. QED
  BY <1>1, <1>7, <1>8, <1>9, <1>10

\* What a call carries through its steps, in one place.
Carries(call) ==
  LET run == runs[call.turn]
  IN  /\ call.at \in {"checked", "graph"} => run # NoRun
      /\ call.op = "act" /\ call.at = "checked" /\ call.action = "confirm"
           => run.draft \in {NULL, call.expected}
      /\ call.action = "confirm" /\ call.at = "graph" /\ run.at = "execute"
           => call.expected = run.draft
      /\ call.op = "act" /\ call.at \in {"claimed", "checked"} => Tells(call.turn)
      /\ call.op = "sync" /\ call.at = "seen" /\ call.fresh
           => \/ active = call.turn /\ call.active = NULL
              \/ /\ run # NoRun
                 /\ call.seen.status \in ShownStatuses(run)
                 /\ call.seen.draft = run.draft

LEMMA CheckpointParts ==
  /\ CheckpointInv <=> /\ WaitingHasDraft /\ HistoryTellsCheckpoint
                       /\ \A c \in Calls : Carries(calls[c])
  /\ CheckpointInv' <=> /\ WaitingHasDraft' /\ HistoryTellsCheckpoint'
                        /\ \A c \in Calls : Carries(calls[c])'
BY DEF CheckpointInv, WorkHasRun, CheckedIsExpected, ApprovedAsShown, ClaimedTells, SeenIsRun, Carries, Is

\* A call that holds an agent's turn is the only one, and the turn has the claim.
LEMMA OneHolder ==
  ASSUME PortalTypeOK, ClaimsInv, NEW c \in Calls, Holds(c), IsAgent(calls[c].turn)
  PROVE  /\ active = calls[c].turn
         /\ ~old[calls[c].turn]
         /\ \A x \in Calls \ {c} : Holds(x) => calls[x].turn # calls[c].turn
<1>1. ~Verdict(calls[c].turn)
  BY DEF Verdict, IsVision, IsAgent
<1>2. active = calls[c].turn /\ \A x \in Calls \ {c} : Holds(x) => calls[x].turn # calls[c].turn
  BY <1>1 DEF ClaimsInv, NoParallelOperations
<1>3. c \in HeldBy(calls[c].turn) /\ calls[c].turn \in Turns
  BY TurnOfCall DEF HeldBy, Holds, IsIdle
<1>4. QED
  BY <1>2, <1>3 DEF ClaimsInv, OldIsUnheld

\* A call moves on without touching a run.
LEMMA StepKeepsCheckpoint ==
  ASSUME PortalTypeOK, CheckpointInv, NEW c \in Calls, NEW call \in CallRecords,
         Step(c, call), UNCHANGED runs, Carries(call)
  PROVE  CheckpointInv'
<1>1. turns' = turns /\ active' = active /\ runs' = runs /\ calls' = [calls EXCEPT ![c] = call]
  BY DEF Step
<1>2. WaitingHasDraft' /\ HistoryTellsCheckpoint'
  BY <1>1, CheckpointParts DEF WaitingHasDraft, HistoryTellsCheckpoint, IsAgent, Exists
<1>3. ASSUME NEW x \in Calls PROVE Carries(calls[x])'
  <2>1. calls'[x] = IF x = c THEN call ELSE calls[x]
    BY <1>1 DEF PortalTypeOK
  <2>2. Carries(calls[x])
    BY CheckpointParts
  <2>3. CASE x = c
    BY <1>1, <2>1, <2>3 DEF Carries, Tells
  <2>4. CASE x # c
    BY <1>1, <2>1, <2>2, <2>4 DEF Carries, Tells
  <2>5. QED
    BY <2>3, <2>4
<1>4. QED
  BY <1>2, <1>3, CheckpointParts

LEMMA IdleCarries == Carries(Idle)
BY DEF Carries, Idle

\* A call that holds the turn works on its run.
LEMMA WorkKeepsCheckpoint ==
  ASSUME PortalTypeOK, PortalTypeOK', ClaimsInv, CheckpointInv, NEW c \in Calls, Holds(c), NEW call \in CallRecords,
         NEW run \in Views \cup {NoRun},
         IsAgent(calls[c].turn),
         runs' = [runs EXCEPT ![calls[c].turn] = run],
         Step(c, call),
         run # NoRun => HasDraft(run),
         \/ call = Idle
         \/ /\ call.at = "graph" /\ call.turn = calls[c].turn /\ run # NoRun
            /\ call.action = "confirm" /\ run.at = "execute" => call.expected = run.draft
  PROVE  CheckpointInv'
<1> DEFINE q == calls[c].turn
<1>1. /\ turns' = turns /\ active' = active /\ calls' = [calls EXCEPT ![c] = call] /\ q \in Turns
      /\ runs \in [Turns -> Views \cup {NoRun}]
  BY TurnOfCall DEF Step, Holds, IsIdle, PortalTypeOK
<1>2. active = q /\ ~old[q] /\ \A x \in Calls \ {c} : Holds(x) => calls[x].turn # q
  BY OneHolder
<1>3. WaitingHasDraft'
  BY <1>1, CheckpointParts DEF WaitingHasDraft, HasDraft
<1>4. HistoryTellsCheckpoint'
  <2>1. \A p \in Turns \ {q} : runs'[p] = runs[p]
    BY <1>1
  <2>2. QED
    BY <1>1, <1>2, <2>1, CheckpointParts DEF HistoryTellsCheckpoint, IsAgent, Exists
<1>5. ASSUME NEW x \in Calls PROVE Carries(calls[x])'
  <2>1. calls'[x] = IF x = c THEN call ELSE calls[x]
    BY <1>1 DEF PortalTypeOK
  <2>2. CASE x = c /\ call = Idle
    <3>1. calls'[x] = Idle
      BY <2>1, <2>2
    <3>2. QED
      BY <3>1 DEF Carries, Idle
  <2>3. CASE x = c /\ call # Idle
    <3>1. runs'[q] = run
      BY <1>1
    <3>2. calls'[x].at = "graph" /\ calls'[x].turn = q
      BY <2>1, <2>3
    <3>3. QED
      BY <2>1, <2>3, <3>1, <3>2 DEF Carries
  <2>4. CASE x # c /\ calls[x].turn # q
    <3>1. calls'[x] = calls[x] /\ Carries(calls[x])
      BY <2>1, <2>4, CheckpointParts
    <3>2. CASE calls[x].turn \in Turns
      <4>1. runs'[calls[x].turn] = runs[calls[x].turn]
        BY <1>1, <2>4, <3>2
      <4>2. QED
        BY <1>1, <3>1, <4>1 DEF Carries, Tells
    <3>3. CASE calls[x].turn \notin Turns
      <4>1. calls[x] = Idle
        BY <3>3 DEF PortalTypeOK, WellFormed
      <4>2. QED
        BY <3>1, <4>1 DEF Carries, Idle
    <3>4. QED
      BY <3>2, <3>3
  <2>5. CASE x # c /\ calls[x].turn = q
    <3>1. calls'[x] = calls[x] /\ Carries(calls[x]) /\ ~Holds(x)
      BY <1>2, <2>1, <2>5, CheckpointParts
    <3>2. CASE calls[x].op = "none"
      <4>1. calls[x] = Idle
        BY <3>2 DEF PortalTypeOK, WellFormed
      <4>2. QED
        BY <3>1, <4>1 DEF Carries, Idle
    <3>3. CASE calls[x].op = "sync"
      <4>1. calls[x].at \in {"asked", "read", "seen"}
        BY <3>3 DEF PortalTypeOK, WellFormed
      <4>2. calls[x].fresh => calls[x].active = NULL
        BY <1>2, <2>5 DEF ClaimsInv, FreshBehindClaimIsOld
      <4>3. QED
        BY <1>1, <1>2, <2>5, <3>1, <3>3, <4>1, <4>2 DEF Carries
    <3>4. QED
      BY <3>1, <3>2, <3>3 DEF Holds, PortalTypeOK, CallRecords
  <2>6. QED
    BY <2>2, <2>3, <2>4, <2>5
<1>6. QED
  BY <1>3, <1>4, <1>5, CheckpointParts

\* The row becomes what it should tell and the claim is given back.
LEMMA FinishKeepsCheckpoint ==
  ASSUME PortalTypeOK, ClaimsInv, CheckpointInv, NEW c \in Calls, NEW row \in Rows,
         row.kind = turns[calls[c].turn].kind,
         \/ Holds(c)
         \/ calls[c].op = "sync" /\ calls[c].fresh /\ active = calls[c].active,
         FinishTurn(c, row), UNCHANGED runs,
         IsAgent(calls[c].turn) /\ row.status \notin {"FAILED", "RESULT_UNKNOWN"}
           => /\ runs[calls[c].turn] # NoRun
              /\ row.status \in ShownStatuses(runs[calls[c].turn])
              /\ row.draft = runs[calls[c].turn].draft
  PROVE  CheckpointInv'
<1> DEFINE q == calls[c].turn
<1>1. ~IsIdle(c) /\ q \in Turns /\ Exists(q)
  BY TurnOfCall DEF Holds, IsIdle
<1>2. CASE Verdict(q)
  <2>1. Step(c, Idle)
    BY <1>2 DEF FinishTurn, Leave
  <2>2. QED
    BY <2>1, IdleType, IdleCarries, StepKeepsCheckpoint
<1>3. CASE ~Verdict(q)
  <2>1. /\ turns' = [turns EXCEPT ![q] = row]
        /\ active' = IF active = q THEN NULL ELSE active
        /\ calls' = [x \in Calls |->
                       IF x = c THEN Idle
                       ELSE IF calls[x].op = "sync" /\ calls[x].turn = q
                            THEN [calls[x] EXCEPT !.fresh = FALSE]
                            ELSE calls[x]]
        /\ runs' = runs
    BY <1>3 DEF FinishTurn, Written
  <2>2. turns'[q] = row /\ \A p \in Turns \ {q} : turns'[p] = turns[p]
    BY <1>1, <2>1 DEF PortalTypeOK
  <2>3. WaitingHasDraft'
    BY <2>1, CheckpointParts DEF WaitingHasDraft
  <2>4. HistoryTellsCheckpoint'
    <3>1. SUFFICES ASSUME NEW p \in Turns, IsAgent(p)', active' # p,
                          turns'[p].status \notin {"FAILED", "RESULT_UNKNOWN"}
                   PROVE  /\ runs[p] # NoRun
                          /\ turns'[p].status \in ShownStatuses(runs[p])
                          /\ turns'[p].draft = runs[p].draft
      BY <2>1 DEF HistoryTellsCheckpoint
    <3>2. CASE p = q
      BY <1>1, <2>2, <3>1, <3>2 DEF IsAgent
    <3>3. CASE p # q
      BY <2>1, <2>2, <3>1, <3>3, CheckpointParts DEF HistoryTellsCheckpoint, IsAgent, Exists
    <3>4. QED
      BY <3>2, <3>3
  <2>5. ASSUME NEW x \in Calls \ {c}, calls[x].op = "act" PROVE calls[x].turn \in Turns \ {q}
    <3>1. Holds(x) /\ calls[x].turn \in Turns /\ IsAgent(calls[x].turn) /\ ~IsIdle(x)
      BY <2>5, TurnOfCall DEF Holds, IsIdle
    <3>2. active = calls[x].turn /\ \A y \in Calls \ {x} : Holds(y) => calls[y].turn # calls[x].turn
      BY <3>1, OneHolder
    <3>3. CASE Holds(c)
      BY <3>1, <3>2, <3>3
    <3>4. CASE calls[c].op = "sync" /\ calls[c].fresh /\ active = calls[c].active
      <4>1. old[q]
        BY <3>1, <3>2, <3>4, MissingAssumption DEF ClaimsInv, FreshBehindClaimIsOld
      <4>2. QED
        BY <3>1, <4>1, OneHolder
    <3>5. QED
      BY <3>3, <3>4
  <2>6. ASSUME NEW x \in Calls PROVE Carries(calls[x])'
    <3>1. CASE x = c
      <4>1. calls'[x] = Idle
        BY <2>1, <3>1
      <4>2. QED
        BY <4>1 DEF Carries, Idle
    <3>2. CASE x # c /\ calls[x].op = "none"
      <4>1. calls'[x] = Idle
        BY <2>1, <3>2 DEF PortalTypeOK, WellFormed
      <4>2. QED
        BY <4>1 DEF Carries, Idle
    <3>3. CASE x # c /\ calls[x].op = "send"
      <4>1. calls'[x] = calls[x] /\ Carries(calls[x])
        BY <2>1, <3>3, CheckpointParts
      <4>2. QED
        BY <2>1, <3>3, <4>1 DEF Carries
    <3>4. CASE x # c /\ calls[x].op = "act"
      <4>1. calls'[x] = calls[x] /\ Carries(calls[x]) /\ turns'[calls[x].turn] = turns[calls[x].turn]
        BY <2>1, <2>2, <2>5, <3>4, CheckpointParts
      <4>2. QED
        BY <2>1, <3>4, <4>1 DEF Carries, Tells
    <3>5. CASE x # c /\ calls[x].op = "sync"
      <4>1. calls[x].at \in {"asked", "read", "seen"} /\ Carries(calls[x]) /\ calls[x] \in CallRecords
        BY <3>5, CheckpointParts DEF PortalTypeOK, WellFormed
      <4>2. CASE calls[x].turn = q
        <5>1. calls'[x] = [calls[x] EXCEPT !.fresh = FALSE]
          BY <2>1, <3>5, <4>2
        <5>2. ~calls'[x].fresh /\ calls'[x].op = "sync" /\ calls'[x].at = calls[x].at
          BY <3>5, <4>1, <5>1 DEF CallRecords
        <5>3. QED
          BY <4>1, <5>2 DEF Carries
      <4>3. CASE calls[x].turn # q
        <5>1. calls'[x] = calls[x]
          BY <2>1, <3>5, <4>3
        <5>2. QED
          BY <2>1, <3>5, <4>1, <4>3, <5>1 DEF Carries
      <4>4. QED
        BY <4>2, <4>3
    <3>6. QED
      BY <3>1, <3>2, <3>3, <3>4, <3>5 DEF PortalTypeOK, CallRecords
  <2>7. QED
    BY <2>3, <2>4, <2>6, CheckpointParts
<1>4. QED
  BY <1>2, <1>3

\* A turn is claimed: its history is out of the question until it is given
\* back, and nobody acts on a turn.
LEMMA ClaimKeepsCheckpoint ==
  ASSUME PortalTypeOK, ClaimsInv, CheckpointInv, NEW c \in Calls, NEW q \in Turns, NEW call \in CallRecords,
         call.op \in {"send", "act"}, call.turn = q, call.at = "claimed", Kept,
         active = NULL, active' = q, Written(q, c, call), UNCHANGED runs,
         \A p \in Turns \ {q} : turns'[p] = turns[p],
         IsAgent(q) => turns'[q] = turns[q],
         call.op = "act" => IsAgent(q)
  PROVE  CheckpointInv'
<1>1. /\ calls' = [x \in Calls |->
                     IF x = c THEN call
                     ELSE IF calls[x].op = "sync" /\ calls[x].turn = q
                          THEN [calls[x] EXCEPT !.fresh = FALSE]
                          ELSE calls[x]]
      /\ runs' = runs
  BY DEF Written
<1>2. WaitingHasDraft'
  BY <1>1, CheckpointParts DEF WaitingHasDraft
<1>3. HistoryTellsCheckpoint'
  BY <1>1, CheckpointParts, MissingAssumption DEF HistoryTellsCheckpoint, IsAgent, Exists
<1>4. ASSUME NEW x \in Calls PROVE Carries(calls[x])'
  <2>1. CASE x = c
    <3>1. calls'[x] = call
      BY <1>1, <2>1
    <3>2. IsAgent(q) => Tells(q)
      BY CheckpointParts, MissingAssumption DEF HistoryTellsCheckpoint, Tells
    <3>3. QED
      BY <1>1, <3>1, <3>2 DEF Carries, Tells
  <2>2. CASE x # c /\ calls[x].op = "none"
    <3>1. calls'[x] = Idle
      BY <1>1, <2>2 DEF PortalTypeOK, WellFormed
    <3>2. QED
      BY <3>1 DEF Carries, Idle
  <2>3. CASE x # c /\ calls[x].op = "send"
    <3>1. calls'[x] = calls[x] /\ Carries(calls[x])
      BY <1>1, <2>3, CheckpointParts
    <3>2. QED
      BY <1>1, <2>3, <3>1 DEF Carries
  <2>4. CASE x # c /\ calls[x].op = "act"
    <3>1. Holds(x) /\ IsAgent(calls[x].turn) /\ calls[x].turn \in Turns
      BY <2>4, TurnOfCall DEF Holds, IsIdle
    <3>2. QED
      BY <3>1, OneHolder, MissingAssumption
  <2>5. CASE x # c /\ calls[x].op = "sync"
    <3>1. calls[x].at \in {"asked", "read", "seen"} /\ Carries(calls[x]) /\ calls[x] \in CallRecords
          /\ calls[x].turn \in Turns
      BY <2>5, CheckpointParts DEF PortalTypeOK, WellFormed
    <3>2. CASE calls[x].turn = q
      <4>1. calls'[x] = [calls[x] EXCEPT !.fresh = FALSE]
        BY <1>1, <2>5, <3>2
      <4>2. ~calls'[x].fresh /\ calls'[x].op = "sync" /\ calls'[x].at = calls[x].at
        BY <2>5, <3>1, <4>1 DEF CallRecords
      <4>3. QED
        BY <3>1, <4>2 DEF Carries
    <3>3. CASE calls[x].turn # q
      <4>1. calls'[x] = calls[x] /\ active # calls[x].turn
        BY <1>1, <2>5, <3>1, <3>3, MissingAssumption
      <4>2. QED
        BY <1>1, <2>5, <3>1, <4>1 DEF Carries
    <3>4. QED
      BY <3>2, <3>3
  <2>6. QED
    BY <2>1, <2>2, <2>3, <2>4, <2>5 DEF PortalTypeOK, CallRecords
<1>5. QED
  BY <1>2, <1>3, <1>4, CheckpointParts

LEMMA CheckpointStep ==
  ASSUME PortalTypeOK, PortalTypeOK', ClaimsInv, CheckpointInv, [Next]_vars
  PROVE  CheckpointInv'
<1> USE CheckpointParts
<1>1. CASE UNCHANGED vars
  BY <1>1 DEF vars, WaitingHasDraft, HistoryTellsCheckpoint, Carries, Tells, IsAgent, Exists
<1>2. ASSUME NEW c \in Calls, NEW q \in Turns, NEW kind \in KindsOf(q), ClaimTurn(c, q, kind)
      PROVE  CheckpointInv'
  <2>1. Kept /\ \A p \in Turns \ {q} : turns'[p] = turns[p]
    BY <1>2, ClaimTurnKeepsType DEF ClaimTurn, PortalTypeOK
  <2>2. /\ Sending(q) \in CallRecords /\ Sending(q).op = "send" /\ Sending(q).turn = q
        /\ Sending(q).at = "claimed"
    BY DEF Sending, Idle, CallRecords, Drafts
  <2>3. QED
    BY <1>2, <2>1, <2>2, ClaimKeepsCheckpoint DEF ClaimTurn, IsAgent
<1>3. ASSUME NEW c \in Calls, NEW q \in Turns, NEW action \in Actions, NEW expected \in Drafts,
             ClaimAction(c, q, action, expected)
      PROVE  CheckpointInv'
  <2>1. Kept
    BY <1>3, ClaimActionKeepsType
  <2>2. /\ Acting(q, action, expected) \in CallRecords /\ Acting(q, action, expected).op = "act"
        /\ Acting(q, action, expected).turn = q /\ Acting(q, action, expected).at = "claimed"
    BY DEF Acting, Idle, CallRecords
  <2>3. QED
    BY <1>3, <2>1, <2>2, ClaimKeepsCheckpoint DEF ClaimAction
<1>4. ASSUME NEW c \in Calls, NEW q \in Turns, SyncAsk(c, q) PROVE CheckpointInv'
  <2>1. Syncing(q) \in CallRecords /\ Carries(Syncing(q))
    BY DEF Syncing, Idle, CallRecords, Drafts, PortalTypeOK, Carries
  <2>2. QED
    BY <1>4, <2>1, StepKeepsCheckpoint DEF SyncAsk
<1>5. ASSUME NEW c \in Calls, Leave(c), UNCHANGED runs PROVE CheckpointInv'
  BY <1>5, IdleType, IdleCarries, StepKeepsCheckpoint DEF Leave
<1>6. ASSUME NEW c \in Calls, Holds(c),
             NEW status \in {"FAILED", "RESULT_UNKNOWN"}, NEW draft \in Drafts,
             FinishTurn(c, Row(calls[c].turn, status, draft)), UNCHANGED runs
      PROVE  CheckpointInv'
  <2>1. calls[c].turn \in Turns /\ Exists(calls[c].turn)
    BY <1>6, TurnOfCall DEF Holds, IsIdle
  <2>2. QED
    BY <1>6, <2>1, RowType, FinishKeepsCheckpoint
<1>7. ASSUME NEW c \in Calls, Holds(c), runs[calls[c].turn] # NoRun, UNCHANGED runs,
             NEW status \in ShownStatuses(runs[calls[c].turn]), FinishWith(c, status)
      PROVE  CheckpointInv'
  <2>1. runs[calls[c].turn] \in Views /\ calls[c].turn \in Turns /\ Exists(calls[c].turn)
    BY <1>7, TurnOfCall DEF PortalTypeOK, Holds, IsIdle
  <2>2. status \in RunStatuses /\ runs[calls[c].turn].draft \in Drafts
    BY <2>1, ShownType DEF Views
  <2>3. QED
    BY <1>7, <2>1, <2>2, RowType, FinishKeepsCheckpoint DEF FinishWith
<1>8. ASSUME NEW c \in Calls, Holds(c), calls[c].at \in {"checked", "graph"}
      PROVE  /\ runs[calls[c].turn] # NoRun /\ runs[calls[c].turn] \in Views
             /\ HasDraft(runs[calls[c].turn])
             /\ runs[calls[c].turn].status \in ShownStatuses(runs[calls[c].turn])
  <2>1. calls[c].turn \in Turns /\ runs[calls[c].turn] # NoRun
    BY <1>8, TurnOfCall DEF Holds, IsIdle, CheckpointInv, WorkHasRun
  <2>2. QED
    BY <2>1, ShownType DEF PortalTypeOK, WaitingHasDraft, HasDraft
<1>9. ASSUME NEW c \in Calls, Holds(c), IsAgent(calls[c].turn),
             NEW run \in Views, HasDraft(run), runs' = [runs EXCEPT ![calls[c].turn] = run],
             Step(c, [calls[c] EXCEPT !.at = "graph"]),
             calls[c].action = "confirm" /\ run.at = "execute" => calls[c].expected = run.draft
      PROVE  CheckpointInv'
  <2>1. calls[c] \in CallRecords /\ run # NoRun
    BY MissingAssumption DEF PortalTypeOK
  <2> DEFINE call == [calls[c] EXCEPT !.at = "graph"]
  <2>2. /\ call \in CallRecords /\ call.at = "graph" /\ call.turn = calls[c].turn
        /\ call.action = calls[c].action /\ call.expected = calls[c].expected
    BY <2>1 DEF CallRecords
  <2> HIDE DEF call
  <2>3. Step(c, call)
    BY <1>9 DEF call
  <2>4. QED
    BY <1>9, <2>1, <2>2, <2>3, WorkKeepsCheckpoint
<1>10. ASSUME NEW c \in Calls, Send(c) PROVE CheckpointInv'
  <2>1. Holds(c) /\ NULL \in Drafts /\ calls[c].op = "send" /\ calls[c] \in CallRecords
    BY <1>10 DEF Send, StartRun, SendAnswered, SendFails, VisionEnds, Is, Holds, Drafts, PortalTypeOK
  <2>2. CASE StartRun(c)
    <3>1. Started \in Views /\ HasDraft(Started) /\ Started.at # "execute"
      BY DEF Started, RunView, Views, Places, RunStatuses, Drafts, HasDraft
    <3>2. QED
      BY <1>9, <2>1, <2>2, <3>1 DEF StartRun, Move
  <2>3. CASE SendAnswered(c)
    BY <1>7, <1>8, <2>1, <2>3 DEF SendAnswered, Is
  <2>4. CASE SendFails(c)
    BY <1>6, <2>1, <2>4 DEF SendFails
  <2>5. CASE VisionEnds(c)
    <3>1. calls[c].turn \in Turns /\ Exists(calls[c].turn) /\ ~IsAgent(calls[c].turn)
      BY <2>1, <2>5, TurnOfCall DEF VisionEnds, IsVision, IsAgent, IsIdle
    <3>2. PICK status \in {"COMPLETED", "FAILED"} : FinishTurn(c, Row(calls[c].turn, status, NULL))
      BY <2>5 DEF VisionEnds
    <3>3. QED
      BY <2>1, <2>5, <3>1, <3>2, RowType, FinishKeepsCheckpoint DEF VisionEnds, RunStatuses
  <2>6. QED
    BY <1>10, <2>2, <2>3, <2>4, <2>5 DEF Send
<1>11. ASSUME NEW c \in Calls, Act(c) PROVE CheckpointInv'
  <2> DEFINE q == calls[c].turn
  <2>1. Holds(c) /\ calls[c].op = "act" /\ IsAgent(q) /\ calls[c] \in CallRecords /\ q \in Turns
        /\ turns[q] \in Rows /\ Exists(q)
    <3>1. Holds(c) /\ calls[c].op = "act"
      BY <1>11 DEF Act, CheckAction, CheckActionFails, RunAction, RefreshAction, ShowReceipt,
                   ActAnswered, ReasonMeetsChangedOrder, ActFails, Is, Holds
    <3>2. QED
      BY <3>1, TurnOfCall DEF Holds, IsIdle
  <2>2. turns[q].draft \in Drafts /\ Carries(calls[c])
    BY <2>1 DEF Rows
  <2>3. CASE CheckAction(c)
    <3>1. CASE \E status \in ShownStatuses(runs[q]) : FinishWith(c, status)
      BY <1>7, <2>1, <2>3, <3>1 DEF CheckAction
    <3>2. CASE /\ ~(calls[c].action = "confirm" /\ runs[q].draft \notin {NULL, calls[c].expected})
               /\ Move(c, "checked")
      <4> DEFINE call == [calls[c] EXCEPT !.at = "checked"]
      <4>1. /\ call \in CallRecords /\ call.at = "checked" /\ call.turn = q /\ call.op = "act"
            /\ call.action = calls[c].action /\ call.expected = calls[c].expected
        BY <2>1 DEF CallRecords
      <4> HIDE DEF call
      <4>2. Step(c, call)
        BY <3>2 DEF Move, call
      <4>3. Carries(call)
        BY <2>1, <2>2, <2>3, <3>2, <4>1 DEF Carries, CheckAction, Is
      <4>4. QED
        BY <2>3, <4>1, <4>2, <4>3, StepKeepsCheckpoint DEF CheckAction
    <3>3. QED
      BY <2>3, <3>1, <3>2 DEF CheckAction
  <2>4. CASE CheckActionFails(c)
    BY <2>1, <2>2, <2>4, FinishKeepsCheckpoint DEF CheckActionFails, Is, Carries, Tells
  <2>5. CASE RunAction(c)
    <3>1. /\ runs[q] \in Views /\ runs[q] # NoRun /\ HasDraft(runs[q])
          /\ Step(c, [calls[c] EXCEPT !.at = "graph"])
      BY <1>8, <2>1, <2>5 DEF RunAction, Is, Move
    <3>2. calls[c].action = "confirm" => runs[q].draft \in {NULL, calls[c].expected}
      BY <2>2, <2>5 DEF Carries, RunAction, Is
    <3>3. ASSUME NEW run \in AnswerSteps(runs[q], calls[c].action), runs' = [runs EXCEPT ![q] = run]
          PROVE  CheckpointInv'
      <4>1. run \in Views /\ HasDraft(run) /\ (run.at = "execute" => run.draft = runs[q].draft)
        BY <3>1, <3>3, RunType, RunDrafts
      <4>2. calls[c].action = "confirm" /\ run.at = "execute" => calls[c].expected = run.draft
        BY <3>2, <4>1 DEF HasDraft
      <4>3. QED
        BY <1>9, <2>1, <3>1, <3>3, <4>1, <4>2
    <3>4. CASE UNCHANGED runs
      <4>1. runs' = [runs EXCEPT ![q] = runs[q]]
        BY <3>4 DEF PortalTypeOK
      <4>2. calls[c].action = "confirm" /\ runs[q].at = "execute" => calls[c].expected = runs[q].draft
        BY <3>1, <3>2 DEF HasDraft
      <4>3. QED
        BY <1>9, <2>1, <3>1, <4>1, <4>2
    <3>5. QED
      BY <2>5, <3>3, <3>4 DEF RunAction
  <2>6. CASE RefreshAction(c)
    <3>1. /\ runs[q] \in Views /\ HasDraft(runs[q]) /\ calls[c].action = "refresh"
          /\ Step(c, [calls[c] EXCEPT !.at = "graph"])
      BY <1>8, <2>1, <2>6 DEF RefreshAction, Is, Move
    <3>2. PICK run \in RefreshSteps(runs[q]) : runs' = [runs EXCEPT ![q] = run]
      BY <2>6 DEF RefreshAction
    <3>3. run \in Views /\ HasDraft(run) /\ run.at # "execute"
      BY <3>1, <3>2, RunType, RunDrafts
    <3>4. QED
      BY <1>9, <2>1, <3>1, <3>2, <3>3
  <2>7. CASE ShowReceipt(c)
    BY <1>7, <1>8, <2>1, <2>7 DEF ShowReceipt, Is
  <2>8. CASE ActAnswered(c)
    BY <1>5, <1>7, <1>8, <2>1, <2>8 DEF ActAnswered, Is
  <2>9. CASE ReasonMeetsChangedOrder(c)
    BY <1>5, <1>7, <1>8, <2>1, <2>9 DEF ReasonMeetsChangedOrder, Is
  <2>10. CASE ActFails(c)
    BY <1>6, <2>1, <2>2, <2>10 DEF ActFails
  <2>11. QED
    BY <1>11, <2>3, <2>4, <2>5, <2>6, <2>7, <2>8, <2>9, <2>10 DEF Act
<1>12. ASSUME NEW c \in Calls, Sync(c) PROVE CheckpointInv'
  <2> DEFINE q == calls[c].turn
  <2>1. calls[c].op = "sync" /\ calls[c] \in CallRecords /\ q \in Turns /\ Exists(q) /\ IsAgent(q)
        /\ UNCHANGED runs
    <3>1. calls[c].op = "sync" /\ UNCHANGED runs
      BY <1>12 DEF Sync, SyncReadTurn, SyncReadRun, SyncFindsNothing, SyncFindsRunning, SyncFinish, Is
    <3>2. QED
      BY <3>1, TurnOfCall DEF IsIdle
  <2>2. CASE Leave(c)
    BY <1>5, <2>1, <2>2
  <2>3. CASE Step(c, [calls[c] EXCEPT !.at = "read", !.fresh = TRUE])
    <3> DEFINE call == [calls[c] EXCEPT !.at = "read", !.fresh = TRUE]
    <3>1. call \in CallRecords /\ call.at = "read" /\ call.op = "sync"
      BY <2>1 DEF CallRecords
    <3>2. Carries(call)
      BY <3>1 DEF Carries
    <3>3. QED
      BY <2>1, <2>3, <3>1, <3>2, StepKeepsCheckpoint
  <2>4. CASE SyncReadRun(c)
    <3>1. PICK status \in ShownStatuses(runs[q]) :
            Step(c, [calls[c] EXCEPT !.at = "seen",
                                     !.seen = [status |-> status, draft |-> runs[q].draft]])
      BY <2>4 DEF SyncReadRun
    <3> DEFINE seen == [status |-> status, draft |-> runs[q].draft]
               call == [calls[c] EXCEPT !.at = "seen", !.seen = seen]
    <3>2. runs[q] \in Views /\ runs[q] # NoRun
      BY <2>1, <2>4 DEF SyncReadRun, PortalTypeOK
    <3>3. seen \in Readings /\ seen.status = status /\ seen.draft = runs[q].draft
      BY <3>2, ShownType DEF Readings, Views
    <3> HIDE DEF seen
    <3>4. /\ call \in CallRecords /\ call.op = "sync" /\ call.at = "seen" /\ call.turn = q
          /\ call.seen = seen
      BY <2>1, <3>3 DEF CallRecords
    <3>5. Step(c, call)
      BY <3>1 DEF seen
    <3> HIDE DEF call
    <3>6. Carries(call)
      BY <3>1, <3>2, <3>3, <3>4 DEF Carries
    <3>7. QED
      BY <2>1, <3>4, <3>5, <3>6, StepKeepsCheckpoint
  <2>5. CASE /\ Is(c, "sync", "seen") /\ calls[c].fresh /\ active = calls[c].active
             /\ FinishTurn(c, Row(q, calls[c].seen.status, calls[c].seen.draft))
    <3>1. calls[c].seen.status \in RunStatuses /\ calls[c].seen.draft \in Drafts
      BY <2>5 DEF Is, PortalTypeOK, WellFormed, Readings
    <3>2. /\ runs[q] # NoRun
          /\ calls[c].seen.status \in ShownStatuses(runs[q])
          /\ calls[c].seen.draft = runs[q].draft
      BY <2>1, <2>5, MissingAssumption DEF Is, Carries
    <3>3. QED
      BY <2>1, <2>5, <3>1, <3>2, RowType, FinishKeepsCheckpoint
  <2>6. QED
    BY <1>12, <2>2, <2>3, <2>4, <2>5
       DEF Sync, SyncReadTurn, SyncFindsNothing, SyncFindsRunning, SyncFinish
<1>13. ASSUME NEW c \in Calls, calls[c].at = "graph"
       PROVE  Holds(c) /\ IsAgent(calls[c].turn)
  BY <1>13 DEF PortalTypeOK, WellFormed, Holds, Idle, CallRecords, IsAgent, Exists
<1>14. ASSUME NEW c \in Calls, RunNode(c) PROVE CheckpointInv'
  <2> DEFINE q == calls[c].turn
  <2>1. Holds(c) /\ IsAgent(q) /\ runs[q] \in Views /\ HasDraft(runs[q])
    BY <1>8, <1>13, <1>14 DEF RunNode
  <2>2. PICK run \in NodeSteps(runs[q]) : runs' = [runs EXCEPT ![q] = run]
    BY <1>14 DEF RunNode
  <2>3. run \in Views /\ HasDraft(run) /\ run.at # "execute"
    BY <2>1, <2>2, RunType, RunDrafts
  <2>4. Step(c, [calls[c] EXCEPT !.at = "graph"])
    <3>1. calls[c] \in CallRecords /\ calls \in [Calls -> CallRecords]
      BY DEF PortalTypeOK
    <3>2. calls' = [calls EXCEPT ![c] = [calls[c] EXCEPT !.at = "graph"]]
      BY <1>14, <3>1 DEF RunNode, CallRecords
    <3>3. QED
      BY <1>14, <3>2 DEF RunNode, Step
  <2>5. QED
    BY <1>9, <2>1, <2>2, <2>3, <2>4
<1>15. ASSUME NEW c \in Calls, Die(c) PROVE CheckpointInv'
  <2> DEFINE q == calls[c].turn
  <2>1. CASE UNCHANGED runs
    BY <1>5, <1>15, <2>1 DEF Die
  <2>2. CASE calls[c].at = "graph" /\ \E run \in UndoSteps(runs[q]) : runs' = [runs EXCEPT ![q] = run]
    <3>1. Holds(c) /\ IsAgent(q) /\ runs[q] \in Views /\ HasDraft(runs[q])
      BY <1>8, <1>13, <2>2
    <3>2. PICK run \in UndoSteps(runs[q]) : runs' = [runs EXCEPT ![q] = run]
      BY <2>2
    <3>3. run \in Views \cup {NoRun} /\ (run # NoRun => HasDraft(run))
      BY <3>1, <3>2, RunType, RunDrafts
    <3>4. QED
      BY <1>15, <3>1, <3>2, <3>3, IdleType, WorkKeepsCheckpoint DEF Die, Leave
  <2>3. QED
    BY <1>15, <2>1, <2>2 DEF Die
<1>16. ASSUME NEW q \in Turns, RecoverInterruptedVision(q) PROVE CheckpointInv'
  <2>1. /\ turns' = [turns EXCEPT ![q].status = "FAILED", ![q].error = Interrupted]
        /\ active = q /\ active' = NULL /\ runs' = runs /\ calls' = calls
        /\ ~IsAgent(q) /\ turns[q] \in Rows
    BY <1>16 DEF RecoverInterruptedVision, IsVision, IsAgent, Exists, PortalTypeOK
  <2>2. ~IsAgent(q)' /\ \A p \in Turns \ {q} : turns'[p] = turns[p]
    <3>1. turns' = [turns EXCEPT ![q] = [turns[q] EXCEPT !.status = "FAILED", !.error = Interrupted]]
      BY <2>1 DEF PortalTypeOK
    <3>2. turns'[q] = [turns[q] EXCEPT !.status = "FAILED", !.error = Interrupted]
      BY <3>1 DEF PortalTypeOK
    <3>3. turns'[q].kind = turns[q].kind /\ turns[q] # NoTurn
      BY <2>1, <3>2, FailedRow, MissingAssumption
    <3>4. QED
      BY <2>1, <3>1, <3>3 DEF IsAgent, Exists, PortalTypeOK
  <2>3. WaitingHasDraft'
    BY <2>1 DEF WaitingHasDraft
  <2>4. HistoryTellsCheckpoint'
    BY <2>1, <2>2 DEF HistoryTellsCheckpoint, IsAgent, Exists
  <2>5. ASSUME NEW x \in Calls PROVE Carries(calls[x])'
    <3>1. Carries(calls[x])
      OBVIOUS
    <3>2. calls[x].op \in {"act", "sync"} => calls[x].turn \in Turns \ {q}
      BY <2>1, TurnOfCall DEF IsIdle
    <3>3. calls'[x] = calls[x] /\ runs' = runs
      BY <2>1
    <3>4. calls[x].op = "act" => (Tells(calls[x].turn) => Tells(calls[x].turn)')
      BY <2>2, <3>2, <3>3 DEF Tells
    <3>5. calls[x].op = "sync" => active # calls[x].turn
      BY <2>1, <3>2
    <3>6. QED
      BY <3>1, <3>3, <3>4, <3>5 DEF Carries
  <2>6. QED
    BY <2>3, <2>4, <2>5
<1>17. ASSUME NEW q \in Turns, Age(q) PROVE CheckpointInv'
  BY <1>17 DEF Age, WaitingHasDraft, HistoryTellsCheckpoint, Carries, Tells, IsAgent, Exists
<1>18. ASSUME NEW c \in Calls, Ask(c) PROVE CheckpointInv'
  <2>1. NULL \in Drafts /\ "confirm" \in Actions
    BY DEF Drafts, Actions
  <2>2. QED
    BY <1>2, <1>3, <1>4, <1>18, <2>1 DEF Ask
<1>19. QED
  BY <1>1, <1>10, <1>11, <1>12, <1>14, <1>15, <1>16, <1>17, <1>18 DEF Next

----------------------------------------------------------------------------
(* New work and verdicts.                                                  *)

\* Nothing is written over a verdict, and a result only becomes unknown for
\* the call that holds the turn.
LEMMA FinishKeepsWork ==
  ASSUME PortalTypeOK, ClaimsInv, WorkInv, NEW c \in Calls, ~IsIdle(c), NEW row \in Rows,
         row.error = turns[calls[c].turn].error, row.kind = turns[calls[c].turn].kind,
         Holds(c) \/ row.status # "RESULT_UNKNOWN",
         FinishTurn(c, row)
  PROVE  WorkInv' /\ \A q \in Turns : Verdict(q) => turns'[q] = turns[q]
<1> DEFINE q == calls[c].turn
<1>1. q \in Turns /\ Exists(q)
  BY TurnOfCall
<1>2. CASE Verdict(q)
  <2>1. turns' = turns /\ calls' = [calls EXCEPT ![c] = Idle]
    BY <1>2 DEF FinishTurn, Leave, Step
  <2>2. \A x \in Calls : calls'[x].op = "send" => calls'[x] = calls[x]
    BY <2>1 DEF Idle, PortalTypeOK
  <2>3. QED
    BY <2>1, <2>2 DEF WorkInv, VerdictIsFailure, UnknownBlocksNewWork, Verdict, IsVision, Exists
<1>3. CASE ~Verdict(q)
  <2>1. /\ turns' = [turns EXCEPT ![q] = row]
        /\ calls' = [x \in Calls |->
                       IF x = c THEN Idle
                       ELSE IF calls[x].op = "sync" /\ calls[x].turn = q
                            THEN [calls[x] EXCEPT !.fresh = FALSE]
                            ELSE calls[x]]
    BY <1>3 DEF FinishTurn, Written
  <2>2. turns'[q] = row /\ row # NoTurn /\ \A p \in Turns \ {q} : turns'[p] = turns[p]
    BY <1>1, <2>1, MissingAssumption DEF PortalTypeOK
  <2>3. ~(turns'[q].kind = "vision" /\ turns'[q].error = Interrupted)
    BY <1>1, <1>3, <2>2 DEF Verdict, IsVision
  <2>4. VerdictIsFailure'
    BY <2>2, <2>3 DEF WorkInv, VerdictIsFailure, Verdict, IsVision, Exists
  <2>5. UnknownBlocksNewWork'
    <3>1. SUFFICES ASSUME NEW x \in Calls, NEW p \in Turns, calls'[x].op = "send",
                          turns'[p] # NoTurn, turns'[p].status = "RESULT_UNKNOWN"
                   PROVE  Verdict(calls[x].turn)'
      BY DEF UnknownBlocksNewWork, Exists
    <3>2. x # c /\ calls'[x] = calls[x] /\ calls[x].op = "send" /\ calls[x].turn \in Turns
      <4>1. x # c /\ calls'[x] = calls[x]
        BY <2>1, <3>1 DEF Idle, PortalTypeOK, CallRecords
      <4>2. QED
        BY <3>1, <4>1, TurnOfCall DEF IsIdle
    <3>3. Verdict(calls[x].turn)
      <4>1. CASE p # q
        BY <2>2, <3>1, <3>2, <4>1 DEF WorkInv, UnknownBlocksNewWork, Exists
      <4>2. CASE p = q
        <5>1. Holds(c) /\ Holds(x)
          BY <2>2, <3>1, <3>2, <4>2 DEF Holds
        <5>2. QED
          BY <1>3, <3>2, <5>1 DEF ClaimsInv, NoParallelOperations
      <4>3. QED
        BY <4>1, <4>2
    <3>4. calls[x].turn # q
      BY <1>3, <3>3
    <3>5. QED
      BY <2>2, <3>2, <3>3, <3>4 DEF Verdict, IsVision, Exists
  <2>6. QED
    BY <1>3, <2>2, <2>4, <2>5 DEF WorkInv
<1>4. QED
  BY <1>2, <1>3

\* Steps that write no row and send nothing new.
LEMMA QuietKeepsWork ==
  ASSUME WorkInv, turns' = turns,
         \A x \in Calls : calls'[x].op = "send" => calls[x].op = "send" /\ calls'[x].turn = calls[x].turn
  PROVE  WorkInv' /\ \A q \in Turns : Verdict(q) => turns'[q] = turns[q]
BY DEF WorkInv, VerdictIsFailure, UnknownBlocksNewWork, Verdict, IsVision, Exists

LEMMA WorkStep ==
  ASSUME PortalTypeOK, ClaimsInv, WorkHasRun, WorkInv, [Next]_vars
  PROVE  WorkInv' /\ \A q \in Turns : Verdict(q) => turns'[q] = turns[q]
<1> DEFINE Goal == WorkInv' /\ \A q \in Turns : Verdict(q) => turns'[q] = turns[q]
<1>1. CASE UNCHANGED vars
  BY <1>1, QuietKeepsWork DEF vars
<1>2. ASSUME NEW c \in Calls, NEW call \in CallRecords, Step(c, call),
             call.op = "send" => calls[c].op = "send" /\ call.turn = calls[c].turn
      PROVE  Goal
  BY <1>2, QuietKeepsWork DEF Step, PortalTypeOK
<1>3. ASSUME NEW c \in Calls, Leave(c) PROVE Goal
  BY <1>2, <1>3, IdleType DEF Leave, Idle
<1>4. ASSUME NEW c \in Calls, Holds(c), NEW at \in {"checked", "graph"}, Move(c, at) PROVE Goal
  <2>1. /\ [calls[c] EXCEPT !.at = at] \in CallRecords
        /\ [calls[c] EXCEPT !.at = at].op = calls[c].op /\ [calls[c] EXCEPT !.at = at].turn = calls[c].turn
    BY <1>4 DEF PortalTypeOK, CallRecords
  <2>2. QED
    BY <1>2, <1>4, <2>1 DEF Move
<1>5. ASSUME NEW c \in Calls, Holds(c),
             NEW status \in RunStatuses \cup {"FAILED", "RESULT_UNKNOWN"}, NEW draft \in Drafts,
             FinishTurn(c, Row(calls[c].turn, status, draft))
      PROVE  Goal
  <2>1. calls[c].turn \in Turns /\ Exists(calls[c].turn) /\ ~IsIdle(c)
    BY <1>5, TurnOfCall DEF Holds, IsIdle
  <2>2. QED
    BY <1>5, <2>1, RowType, FinishKeepsWork
<1>6. ASSUME NEW c \in Calls, Holds(c), runs[calls[c].turn] # NoRun,
             NEW status \in ShownStatuses(runs[calls[c].turn]), FinishWith(c, status)
      PROVE  Goal
  <2>1. runs[calls[c].turn] \in Views
    BY <1>6, TurnOfCall DEF PortalTypeOK, Holds, IsIdle
  <2>2. status \in RunStatuses /\ runs[calls[c].turn].draft \in Drafts
    BY <2>1, ShownType DEF Views
  <2>3. QED
    BY <1>5, <1>6, <2>2 DEF FinishWith
<1>7. ASSUME NEW c \in Calls, Holds(c), calls[c].at \in {"checked", "graph"}
      PROVE  /\ runs[calls[c].turn] # NoRun
             /\ runs[calls[c].turn].status \in ShownStatuses(runs[calls[c].turn])
  BY <1>7, TurnOfCall, ShownType DEF WorkHasRun, PortalTypeOK, Holds, IsIdle
<1>8. ASSUME NEW c \in Calls, NEW q \in Turns, NEW kind \in KindsOf(q), ClaimTurn(c, q, kind)
      PROVE  Goal
  <2>1. \A p \in Turns : turns[p] # NoTurn => turns[p].status # "RESULT_UNKNOWN"
    BY <1>8 DEF ClaimTurn, Exists
  <2>2. \A p \in Turns \ {q} : turns'[p] = turns[p]
    BY <1>8 DEF ClaimTurn, PortalTypeOK
  <2>3. turns'[q].status = "RUNNING" /\ turns'[q].error = NULL /\ turns[q] = NoTurn
    BY <1>8 DEF ClaimTurn, Exists, PortalTypeOK
  <2>4. ~Verdict(q) /\ ~Verdict(q)'
    BY <2>3, MissingAssumption DEF Verdict, IsVision, Exists
  <2>5. UnknownBlocksNewWork'
    BY <2>1, <2>2, <2>3 DEF UnknownBlocksNewWork, Exists
  <2>6. QED
    BY <2>2, <2>4, <2>5 DEF WorkInv, VerdictIsFailure, Verdict, IsVision, Exists
<1>9. ASSUME NEW c \in Calls, NEW q \in Turns, NEW action \in Actions, NEW expected \in Drafts,
             ClaimAction(c, q, action, expected)
      PROVE  Goal
  <2>1. turns' = turns /\ Written(q, c, Acting(q, action, expected))
        /\ Acting(q, action, expected).op = "act"
    BY <1>9 DEF ClaimAction, Acting, Idle
  <2>2. \A x \in Calls : calls'[x].op = "send" => calls'[x] = calls[x]
    BY <2>1 DEF Written, PortalTypeOK, CallRecords
  <2>3. QED
    BY <2>1, <2>2, QuietKeepsWork
<1>10. ASSUME NEW c \in Calls, NEW q \in Turns, SyncAsk(c, q) PROVE Goal
  <2>1. Syncing(q) \in CallRecords /\ Syncing(q).op = "sync"
    BY DEF Syncing, Idle, CallRecords, Drafts, PortalTypeOK
  <2>2. QED
    BY <1>2, <1>10, <2>1 DEF SyncAsk
<1>11. ASSUME NEW c \in Calls, Ask(c) PROVE Goal
  <2>1. NULL \in Drafts /\ "confirm" \in Actions
    BY DEF Drafts, Actions
  <2>2. QED
    BY <1>8, <1>9, <1>10, <1>11, <2>1 DEF Ask
<1>12. ASSUME NEW c \in Calls, Send(c) PROVE Goal
  <2>1. Holds(c) /\ NULL \in Drafts
    BY <1>12 DEF Send, StartRun, SendAnswered, SendFails, VisionEnds, Is, Holds, Drafts
  <2>2. CASE StartRun(c)
    BY <1>4, <2>1, <2>2 DEF StartRun
  <2>3. CASE SendAnswered(c)
    BY <1>6, <1>7, <2>1, <2>3 DEF SendAnswered, Is
  <2>4. CASE SendFails(c)
    BY <1>5, <2>1, <2>4 DEF SendFails
  <2>5. CASE VisionEnds(c)
    BY <1>5, <2>1, <2>5 DEF VisionEnds, RunStatuses
  <2>6. QED
    BY <1>12, <2>2, <2>3, <2>4, <2>5 DEF Send
<1>13. ASSUME NEW c \in Calls, Act(c) PROVE Goal
  <2>1. Holds(c)
    BY <1>13 DEF Act, CheckAction, CheckActionFails, RunAction, RefreshAction, ShowReceipt,
                 ActAnswered, ReasonMeetsChangedOrder, ActFails, Is, Holds
  <2>2. turns[calls[c].turn] \in Rows /\ turns[calls[c].turn].draft \in Drafts /\ ~IsIdle(c)
    BY <2>1, TurnOfCall DEF Holds, IsIdle, Rows
  <2>3. CASE CheckAction(c)
    BY <1>4, <1>6, <2>1, <2>3 DEF CheckAction
  <2>4. CASE CheckActionFails(c)
    BY <2>1, <2>2, <2>4, FinishKeepsWork DEF CheckActionFails
  <2>5. CASE RunAction(c) \/ RefreshAction(c)
    BY <1>4, <2>1, <2>5 DEF RunAction, RefreshAction
  <2>6. CASE ShowReceipt(c)
    BY <1>6, <1>7, <2>1, <2>6 DEF ShowReceipt, Is
  <2>7. CASE ActAnswered(c)
    BY <1>3, <1>6, <1>7, <2>1, <2>7 DEF ActAnswered, Is
  <2>8. CASE ReasonMeetsChangedOrder(c)
    BY <1>3, <1>6, <1>7, <2>1, <2>8 DEF ReasonMeetsChangedOrder, Is
  <2>9. CASE ActFails(c)
    BY <1>5, <2>1, <2>2, <2>9 DEF ActFails
  <2>10. QED
    BY <1>13, <2>3, <2>4, <2>5, <2>6, <2>7, <2>8, <2>9 DEF Act
<1>14. ASSUME NEW c \in Calls, Sync(c) PROVE Goal
  <2>1. calls[c].op = "sync" /\ calls[c] \in CallRecords /\ ~IsIdle(c)
    BY <1>14 DEF Sync, SyncReadTurn, SyncReadRun, SyncFindsNothing, SyncFindsRunning, SyncFinish, Is,
                 IsIdle, PortalTypeOK
  <2>2. CASE Leave(c)
    BY <1>3, <2>2
  <2>3. CASE \E call : Step(c, call) /\ call.op = "sync"
    BY <2>3, QuietKeepsWork DEF Step, PortalTypeOK
  <2>4. CASE SyncReadTurn(c)
    <3> DEFINE call == [calls[c] EXCEPT !.at = "read", !.fresh = TRUE]
    <3>1. call.op = "sync"
      BY <2>1 DEF CallRecords
    <3>2. Leave(c) \/ Step(c, call)
      BY <2>4 DEF SyncReadTurn
    <3>3. QED
      BY <2>2, <2>3, <3>1, <3>2
  <2>5. CASE SyncReadRun(c)
    <3>1. PICK status \in ShownStatuses(runs[calls[c].turn]) :
            Step(c, [calls[c] EXCEPT !.at = "seen",
                       !.seen = [status |-> status, draft |-> runs[calls[c].turn].draft]])
      BY <2>5 DEF SyncReadRun
    <3> DEFINE call == [calls[c] EXCEPT !.at = "seen",
                          !.seen = [status |-> status, draft |-> runs[calls[c].turn].draft]]
    <3>2. call.op = "sync"
      BY <2>1 DEF CallRecords
    <3>3. QED
      BY <2>3, <3>1, <3>2
  <2>6. CASE SyncFinish(c)
    <3>1. calls[c].seen.status \in RunStatuses /\ calls[c].seen.draft \in Drafts
      BY <2>6 DEF SyncFinish, Is, PortalTypeOK, WellFormed, Readings
    <3>2. calls[c].turn \in Turns /\ Exists(calls[c].turn)
      BY <2>1, TurnOfCall
    <3>3. CASE FinishTurn(c, Row(calls[c].turn, calls[c].seen.status, calls[c].seen.draft))
      BY <2>1, <3>1, <3>2, <3>3, RowType, FinishKeepsWork DEF RunStatuses
    <3>4. QED
      BY <2>2, <2>6, <3>3 DEF SyncFinish
  <2>7. QED
    BY <1>14, <2>2, <2>4, <2>5, <2>6 DEF Sync, SyncFindsNothing, SyncFindsRunning
<1>15. ASSUME NEW c \in Calls, RunNode(c) PROVE Goal
  BY <1>15, QuietKeepsWork DEF RunNode
<1>16. ASSUME NEW c \in Calls, Die(c) PROVE Goal
  BY <1>3, <1>16 DEF Die
<1>17. ASSUME NEW q \in Turns, Age(q) PROVE Goal
  BY <1>17, QuietKeepsWork DEF Age
<1>18. ASSUME NEW q \in Turns, RecoverInterruptedVision(q) PROVE Goal
  <2>1. /\ turns' = [turns EXCEPT ![q].status = "FAILED", ![q].error = Interrupted]
        /\ calls' = calls /\ IsVision(q) /\ turns[q] \in Rows /\ turns[q].status = "RUNNING"
    BY <1>18 DEF RecoverInterruptedVision, IsVision, Exists, PortalTypeOK
  <2>2. turns'[q] = [turns[q] EXCEPT !.status = "FAILED", !.error = Interrupted]
        /\ \A p \in Turns \ {q} : turns'[p] = turns[p]
    BY <2>1 DEF PortalTypeOK
  <2>3. turns'[q].status = "FAILED" /\ turns'[q].error = Interrupted /\ turns'[q].kind = "vision"
        /\ turns'[q] # NoTurn
    <3>1. turns[q].kind = "vision" /\ turns'[q].kind = turns[q].kind
      BY <2>1, <2>2, FailedRow DEF IsVision
    <3>2. turns'[q].status = "FAILED" /\ turns'[q].error = Interrupted
      BY <2>1, <2>2, FailedRow
    <3>3. turns'[q] \in Rows
      BY <2>1, <2>2, FailedRow
    <3>4. QED
      BY <3>1, <3>2, <3>3, MissingAssumption
  <2>4. Verdict(q)' /\ ~Verdict(q)
    BY <2>1, <2>3 DEF Verdict, IsVision, Exists, WorkInv, VerdictIsFailure
  <2>5. VerdictIsFailure'
    BY <2>2, <2>3 DEF WorkInv, VerdictIsFailure, Verdict, IsVision, Exists
  <2>6. UnknownBlocksNewWork'
    <3>1. SUFFICES ASSUME NEW x \in Calls, NEW p \in Turns, calls[x].op = "send",
                          turns'[p] # NoTurn, turns'[p].status = "RESULT_UNKNOWN"
                   PROVE  Verdict(calls[x].turn)'
      BY <2>1 DEF UnknownBlocksNewWork, Exists
    <3>2. p # q
      BY <2>3, <3>1
    <3>3. Verdict(calls[x].turn) /\ calls[x].turn \in Turns
      BY <2>2, <3>1, <3>2, TurnOfCall DEF WorkInv, UnknownBlocksNewWork, Exists, IsIdle
    <3>4. QED
      BY <2>1, <2>2, <2>3, <3>3 DEF Verdict, IsVision, Exists
  <2>7. QED
    BY <2>2, <2>4, <2>5, <2>6 DEF WorkInv
<1>19. QED
  BY <1>1, <1>11, <1>12, <1>13, <1>14, <1>15, <1>16, <1>17, <1>18 DEF Next

----------------------------------------------------------------------------
(* The theorems.                                                           *)

\* The inductive invariant: what the rows, calls and runs may be, who holds
\* the claim, and what history and checkpoint say of each other.
PortalIInv == PortalTypeOK /\ ClaimsInv /\ CheckpointInv /\ WorkInv

\* It holds in every state of the portal, whatever calls overlap and
\* whichever processes die.
THEOREM PortalInvariant == Spec => []PortalIInv
<1>1. Init => PortalIInv
  <2>1. SUFFICES ASSUME Init PROVE PortalIInv
    OBVIOUS
  <2>2. /\ \A q \in Turns : turns[q] = NoTurn /\ runs[q] = NoRun /\ ~old[q]
        /\ active = NULL /\ \A c \in Calls : calls[c] = Idle
    BY <2>1 DEF Init
  <2>3. PortalTypeOK
    BY <2>1, <2>2, IdleType DEF Init, PortalTypeOK
  <2>4. ClaimsInv
    BY <2>2 DEF ClaimsInv, NoParallelOperations, OldIsUnheld, FreshBehindClaimIsOld, Holds, Idle
  <2>5. CheckpointInv
    BY <2>2 DEF CheckpointInv, WorkHasRun, WaitingHasDraft, CheckedIsExpected, ApprovedAsShown,
                ClaimedTells, SeenIsRun, HistoryTellsCheckpoint, Is, Idle, IsAgent, Exists
  <2>6. WorkInv
    BY <2>2 DEF WorkInv, VerdictIsFailure, UnknownBlocksNewWork, Verdict, IsVision, Exists
  <2>7. QED
    BY <2>3, <2>4, <2>5, <2>6 DEF PortalIInv
<1>2. PortalIInv /\ [Next]_vars => PortalIInv'
  <2>1. SUFFICES ASSUME PortalIInv, [Next]_vars PROVE PortalIInv'
    OBVIOUS
  <2>2. PortalTypeOK /\ ClaimsInv /\ CheckpointInv /\ WorkInv /\ WorkHasRun
    BY <2>1 DEF PortalIInv, CheckpointInv
  <2>3. PortalTypeOK' /\ ClaimsInv' /\ WorkInv'
    BY <2>1, <2>2, TypeStep, ClaimsStep, WorkStep
  <2>4. CheckpointInv'
    BY <2>1, <2>2, <2>3, CheckpointStep
  <2>5. QED
    BY <2>3, <2>4 DEF PortalIInv
<1>3. QED
  BY <1>1, <1>2, PTL DEF Spec

\* The conversation never works on two operations at a time.
THEOREM OneOperation == Spec => []NoParallelOperations
<1>1. PortalIInv => NoParallelOperations
  BY DEF PortalIInv, ClaimsInv
<1>2. QED
  BY <1>1, PortalInvariant, PTL

\* Rows and calls fit, and an unknown result blocks new work.
THEOREM RowsAndWork == Spec => []PortalInv
<1>1. PortalIInv => PortalInv
  BY DEF PortalIInv, PortalInv, CheckpointInv, WorkInv
<1>2. QED
  BY <1>1, PortalInvariant, PTL

\* An approval is never used for another draft than the one on the screen.
THEOREM ApprovalsHonest == Spec => []ApprovedAsShown
<1>1. PortalIInv => ApprovedAsShown
  BY DEF PortalIInv, CheckpointInv
<1>2. QED
  BY <1>1, PortalInvariant, PTL

\* History and checkpoint agree about every turn nobody works on.
THEOREM HistoryHonest == Spec => []HistoryTellsCheckpoint
<1>1. PortalIInv => HistoryTellsCheckpoint
  BY DEF PortalIInv, CheckpointInv
<1>2. QED
  BY <1>1, PortalInvariant, PTL

\* A vision task that was declared interrupted stays so.
THEOREM VerdictsStay == Spec => VerdictFinal
<1>1. PortalIInv /\ [Next]_vars => [\A q \in Turns : Verdict(q) => turns'[q] = turns[q]]_vars
  BY WorkStep DEF PortalIInv, CheckpointInv
<1>2. QED
  BY <1>1, PortalInvariant, PTL DEF Spec, VerdictFinal
=============================================================================
