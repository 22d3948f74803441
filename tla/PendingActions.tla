--------------------------- MODULE PendingActions ---------------------------
(***************************************************************************)
(* Priority changes that wait for a confirmation: RedisPendingActionStore  *)
(* and RedisAgentRunStore (redis_checkpoint_store.py), shared by all API   *)
(* processes.  An action is decided under a Redis lock of its own, a run   *)
(* under another one around it; the ticket is in PostgreSQL.  Locks have a *)
(* time to live (10 s, 30 s for a start) that nobody renews: Redis frees   *)
(* them whether or not the holder is done, and the holder goes on.         *)
(*                                                                         *)
(* Every operation is a series of calls to Redis and PostgreSQL, and the   *)
(* process may die between any two of them.  Only messages that ask for a  *)
(* priority change are modelled.                                           *)
(***************************************************************************)
EXTENDS Naturals

CONSTANTS
  Actions,       \* action ids
  Runs,          \* run ids
  Keys,          \* <<thread_id, idempotency_key>> pairs
  Calls,         \* API calls in flight
  NULL,
  NoRun,
  MayDie         \* whether processes die or lose Redis

ASSUME FaultsAssumption == MayDie \in BOOLEAN

MaxWrites == 2   \* bound: more writes are not counted

VARIABLES
  status,        \* the record of each action
  writes,        \* history: how often the ticket was written for it, up to MaxWrites
  runs,          \* the record of each run
  index,         \* idempotency key -> run
  locks,         \* who holds the lock of a key, run or action
  outlived,      \* history: whose lock expired while its holder was at work
  calls          \* how far each call is

vars == <<status, writes, runs, index, locks, outlived, calls>>

Lockable == Keys \cup Runs \cup Actions
RunRecords == [key : Keys, action : Actions,
               status : {"WAITING_CONFIRMATION", "COMPLETED", "CANCELLED"}]

Idle == [op |-> "none", at |-> "none", key |-> NULL, run |-> NULL, action |-> NULL]
Places == {"none", "key", "chat", "save", "run", "action", "write", "decide", "finish"}

CallRecords ==
  [op : {"none", "start", "confirm", "cancel"}, at : Places, key : Keys \cup {NULL},
   run : Runs \cup {NULL}, action : Actions \cup {NULL}]

\* What stands for something missing, or for a dead holder, is not a value.
ASSUME MissingAssumption ==
  /\ NULL \notin Keys \cup Runs \cup Actions \cup Calls \cup {"pending", "executed", "cancelled", "dead"}
  /\ NoRun \notin RunRecords /\ "dead" \notin Calls

IsAt(c, at) == calls[c].at = at
Goto(c, at) == calls' = [calls EXCEPT ![c].at = at]

Free(x) == locks[x] = NULL
Acquire(c, x) == locks' = [locks EXCEPT ![x] = c]

\* Leaving a with block gives the lock back, if it still is the caller's.
Released(c, xs) == [x \in Lockable |-> IF x \in xs /\ locks[x] = c THEN NULL ELSE locks[x]]

\* The call is answered, or raises, and leaves all its with blocks.
End(c) ==
  /\ calls' = [calls EXCEPT ![c] = Idle]
  /\ locks' = Released(c, Lockable)

\* BlockingTimeout: the lock is held by somebody else for too long.
GiveUp(c, x) ==
  /\ ~Free(x)
  /\ End(c)
  /\ UNCHANGED <<status, writes, runs, index, outlived>>

----------------------------------------------------------------------------
(* RedisAgentRunStore.start                                                *)

Start(c, k) ==
  /\ calls[c] = Idle
  /\ calls' = [calls EXCEPT ![c] = [Idle EXCEPT !.op = "start", !.at = "key", !.key = k]]
  /\ UNCHANGED <<status, writes, runs, index, locks, outlived>>

\* Seeded fault: the index is looked at without the lock.
LookUpUnlocked(c) ==
  /\ IsAt(c, "key")
  /\ IF index[calls[c].key] = NULL
     THEN /\ Goto(c, "chat")
          /\ UNCHANGED locks
     ELSE End(c)
  /\ UNCHANGED <<status, writes, runs, index, outlived>>

\* The lock and the index: a run that is there is returned, for the same
\* message; for another one the call is refused.
LookUp(c) ==
  /\ IsAt(c, "key")
  /\ LET k == calls[c].key
     IN  \/ GiveUp(c, k)
         \/ /\ Free(k)
            /\ IF index[k] = NULL
               THEN Acquire(c, k) /\ Goto(c, "chat")
               ELSE End(c)
            /\ UNCHANGED <<status, writes, runs, index, outlived>>

\* Seeded fault: a run waits although nothing was proposed.
ChatWithoutAction(c) ==
  /\ IsAt(c, "chat")
  /\ Goto(c, "save")
  /\ UNCHANGED <<status, writes, runs, index, locks, outlived>>

\* chat_runner calls request_priority_change, which stores a pending action
\* under a new id; or it raises.
Chat(c) ==
  /\ IsAt(c, "chat")
  /\ \/ \E a \in Actions :
          /\ status[a] = NULL
          /\ status' = [status EXCEPT ![a] = "pending"]
          /\ calls' = [calls EXCEPT ![c].at = "save", ![c].action = a]
          /\ UNCHANGED locks
     \/ /\ End(c)
        /\ UNCHANGED status
  /\ UNCHANGED <<writes, runs, index, outlived>>

\* One MULTI for the run and the index.
SaveStarted(c) ==
  /\ IsAt(c, "save")
  /\ \E r \in Runs :
       /\ runs[r] = NoRun
       /\ runs' = [runs EXCEPT ![r] = [key |-> calls[c].key, action |-> calls[c].action,
                                       status |-> "WAITING_CONFIRMATION"]]
       /\ index' = [index EXCEPT ![calls[c].key] = r]
  /\ End(c)
  /\ UNCHANGED <<status, writes, outlived>>

----------------------------------------------------------------------------
(* confirm and cancel, of a run or of an action itself.                    *)

DecideRun(c, op, r) ==
  /\ calls[c] = Idle
  /\ runs[r] # NoRun
  /\ calls' = [calls EXCEPT ![c] = [Idle EXCEPT !.op = op, !.at = "run", !.run = r]]
  /\ UNCHANGED <<status, writes, runs, index, locks, outlived>>

DecideAction(c, op, a) ==
  /\ calls[c] = Idle
  /\ status[a] # NULL
  /\ calls' = [calls EXCEPT ![c] = [Idle EXCEPT !.op = op, !.at = "action", !.action = a]]
  /\ UNCHANGED <<status, writes, runs, index, locks, outlived>>

\* The run is locked and read; one that is decided is returned or refused.
ReadRun(c) ==
  /\ IsAt(c, "run")
  /\ LET r == calls[c].run
     IN  \/ GiveUp(c, r)
         \/ /\ Free(r)
            /\ IF runs[r].status = "WAITING_CONFIRMATION"
               THEN /\ Acquire(c, r)
                    /\ calls' = [calls EXCEPT ![c].at = "action", ![c].action = runs[r].action]
               ELSE End(c)
            /\ UNCHANGED <<status, writes, runs, index, outlived>>

\* After the action the run is written, if the call is about one.  A lock
\* that is no longer the caller's raises when it is left.
LeaveAction(c) ==
  LET a == calls[c].action
  IN  IF locks[a] # c \/ calls[c].run = NULL
      THEN End(c)
      ELSE /\ locks' = Released(c, {a})
           /\ Goto(c, "finish")

\* Seeded fault: cancel does not ask whether the action was executed.
ReadActionNoConflict(c) ==
  /\ IsAt(c, "action")
  /\ LET a == calls[c].action
         op == calls[c].op
     IN  \/ GiveUp(c, a)
         \/ /\ Free(a)
            /\ IF op = "cancel"
               THEN Acquire(c, a) /\ Goto(c, "decide")
               ELSE IF status[a] = "pending" THEN Acquire(c, a) /\ Goto(c, "write")
                    ELSE End(c)
            /\ UNCHANGED <<status, writes, runs, index, outlived>>

\* Seeded fault: executed and cancelled are taken for the same answer.
ReadActionAnyEnd(c) ==
  /\ IsAt(c, "action")
  /\ LET a == calls[c].action
     IN  \/ GiveUp(c, a)
         \/ /\ Free(a)
            /\ IF status[a] = "pending"
               THEN Acquire(c, a) /\ Goto(c, IF calls[c].op = "confirm" THEN "write" ELSE "decide")
               ELSE IF calls[c].run = NULL THEN End(c)
                    ELSE Goto(c, "finish") /\ UNCHANGED locks
            /\ UNCHANGED <<status, writes, runs, index, outlived>>

\* The action is locked and read: what was decided the same way before is
\* answered as it is, what was decided the other way is refused.
ReadAction(c) ==
  /\ IsAt(c, "action")
  /\ LET a == calls[c].action
         op == calls[c].op
         same == status[a] = IF op = "confirm" THEN "executed" ELSE "cancelled"
     IN  \/ GiveUp(c, a)
         \/ /\ Free(a)
            /\ CASE status[a] = "pending" ->
                      /\ Acquire(c, a)
                      /\ Goto(c, IF op = "confirm" THEN "write" ELSE "decide")
                 [] same /\ calls[c].run # NULL -> Goto(c, "finish") /\ UNCHANGED locks
                 [] OTHER -> End(c)
            /\ UNCHANGED <<status, writes, runs, index, outlived>>

\* Seeded fault: executed is saved whether or not there is a ticket.
WriteTicketOrNot(c) ==
  /\ IsAt(c, "write")
  /\ \/ writes' = [writes EXCEPT ![calls[c].action] = IF @ < MaxWrites THEN @ + 1 ELSE @]
     \/ UNCHANGED writes
  /\ Goto(c, "decide")
  /\ UNCHANGED <<status, runs, index, locks, outlived>>

\* change_priority, a transaction of its own; the ticket may be gone.
WriteTicket(c) ==
  /\ IsAt(c, "write")
  /\ \/ /\ writes' = [writes EXCEPT ![calls[c].action] = IF @ < MaxWrites THEN @ + 1 ELSE @]
        /\ Goto(c, "decide")
        /\ UNCHANGED locks
     \/ /\ End(c)
        /\ UNCHANGED writes
  /\ UNCHANGED <<status, runs, index, outlived>>

\* _save of the action.
SaveAction(c) ==
  /\ IsAt(c, "decide")
  /\ status' = [status EXCEPT ![calls[c].action] =
                  IF calls[c].op = "confirm" THEN "executed" ELSE "cancelled"]
  /\ LeaveAction(c)
  /\ UNCHANGED <<writes, runs, index, outlived>>

\* _save of the run.
SaveRun(c) ==
  /\ IsAt(c, "finish")
  /\ runs' = [runs EXCEPT ![calls[c].run].status =
                IF calls[c].op = "confirm" THEN "COMPLETED" ELSE "CANCELLED"]
  /\ End(c)
  /\ UNCHANGED <<status, writes, index, outlived>>

----------------------------------------------------------------------------
\* The process dies, or Redis does not answer any more: the locks it holds
\* stay until they expire.
Die(c) ==
  /\ MayDie
  /\ calls[c] # Idle
  /\ calls' = [calls EXCEPT ![c] = Idle]
  /\ locks' = [x \in Lockable |-> IF locks[x] = c THEN "dead" ELSE locks[x]]
  /\ UNCHANGED <<status, writes, runs, index, outlived>>

\* The time to live is over, of a dead holder's lock or of one whose holder
\* is still at it: writing a ticket has no time limit of its own.
Expire(x) ==
  /\ ~Free(x)
  /\ locks' = [locks EXCEPT ![x] = NULL]
  /\ outlived' = outlived \cup {y \in {x} : locks[x] # "dead"}
  /\ UNCHANGED <<status, writes, runs, index, calls>>

Init ==
  /\ status = [a \in Actions |-> NULL]
  /\ writes = [a \in Actions |-> 0]
  /\ runs = [r \in Runs |-> NoRun]
  /\ index = [k \in Keys |-> NULL]
  /\ locks = [x \in Lockable |-> NULL]
  /\ outlived = {}
  /\ calls = [c \in Calls |-> Idle]

Ask(c) ==
  \/ \E k \in Keys : Start(c, k)
  \/ \E op \in {"confirm", "cancel"} :
       \/ \E r \in Runs : DecideRun(c, op, r)
       \/ \E a \in Actions : DecideAction(c, op, a)

Work(c) ==
  \/ LookUp(c) \/ Chat(c) \/ SaveStarted(c)
  \/ ReadRun(c) \/ ReadAction(c) \/ WriteTicket(c) \/ SaveAction(c) \/ SaveRun(c)

Next ==
  \/ \E c \in Calls : Ask(c) \/ Work(c) \/ Die(c)
  \/ \E x \in Lockable : Expire(x)

Spec == Init /\ [][Next]_vars

----------------------------------------------------------------------------
(* Correctness.                                                            *)

\* A call is where its operation takes it, about a run or an action that is
\* there, and a run's call about the run's action.
WellFormed(call, states, records) ==
  /\ call.at = "none" => call = Idle
  /\ call.at \in {"key", "chat", "save"} => call.op = "start" /\ call.key \in Keys
  /\ call.at = "save" => call.action \in Actions /\ states[call.action] # NULL
  /\ call.at \in {"run", "action", "write", "decide", "finish"}
       => call.op \in {"confirm", "cancel"} /\ (call.run # NULL => records[call.run] # NoRun)
  /\ call.at = "run" => call.run \in Runs
  /\ call.at \in {"action", "write", "decide", "finish"}
       => /\ call.action \in Actions /\ states[call.action] # NULL
          /\ call.run # NULL => records[call.run].action = call.action
  /\ call.at = "write" => call.op = "confirm"
  /\ call.at = "finish" => call.run \in Runs

\* The types of records, locks and calls.
ActionsTypeOK ==
  /\ status \in [Actions -> {NULL, "pending", "executed", "cancelled"}]
  /\ writes \in [Actions -> 0..MaxWrites]
  /\ runs \in [Runs -> RunRecords \cup {NoRun}]
  /\ index \in [Keys -> Runs \cup {NULL}]
  /\ locks \in [Lockable -> Calls \cup {NULL, "dead"}]
  /\ outlived \subseteq Lockable
  /\ calls \in [Calls -> CallRecords]
  /\ \A r \in Runs : runs[r] # NoRun => status[runs[r].action] # NULL
  /\ \A c \in Calls : WellFormed(calls[c], status, runs)

\* A run is only shown as completed or cancelled when its action is, also if
\* it was decided around the run, by two calls, or the process died between
\* the two records; unless a call outlived the lock of that action.
RunTellsAction ==
  \A r \in Runs :
    runs[r] # NoRun /\ runs[r].action \notin outlived
      => /\ runs[r].status = "COMPLETED" => status[runs[r].action] = "executed"
         /\ runs[r].status = "CANCELLED" => status[runs[r].action] = "cancelled"

\* What is called executed, as an action or as a run, was written, however
\* slow the calls are: confirm writes the ticket first.
ExecutedWasWritten ==
  /\ \A a \in Actions : status[a] = "executed" => writes[a] > 0
  /\ \A r \in Runs : runs[r] # NoRun /\ runs[r].status = "COMPLETED" => writes[runs[r].action] > 0

\* The invariant of the records: action, run and ticket tell the same.
ActionsInv == ActionsTypeOK /\ RunTellsAction /\ ExecutedWasWritten

\* Repeated and concurrent starts with one idempotency key make one run,
\* the one the index finds, unless a start outlived the lock of that key.
OneRunPerKey ==
  \A r \in Runs : runs[r] # NoRun /\ runs[r].key \notin outlived => index[runs[r].key] = r

\* Once decided an action stays so, and its ticket is not written for it
\* again: cancel and confirm share the lock so that two requests do not
\* change the record at the same time.  Only a call that outlives the lock of
\* an action can, and of no other action.
DecisionFinal ==
  [][\A a \in Actions \ outlived : status[a] \in {"executed", "cancelled"}
       => status'[a] = status[a] /\ writes'[a] = writes[a]]_vars

----------------------------------------------------------------------------
(* Why the invariants hold: with these the proofs go by induction.         *)

Ended(op) == IF op = "confirm" THEN "executed" ELSE "cancelled"

\* The ticket is written before the call goes on to save the action, and the
\* run.
SavesWhatItWrote ==
  \A c \in Calls :
    calls[c].at \in {"decide", "finish"} /\ calls[c].op = "confirm" => writes[calls[c].action] > 0

WrittenInv == ActionsTypeOK /\ ExecutedWasWritten /\ SavesWhatItWrote

\* Nobody but the holder of its lock decides an action, and it is still
\* pending then.
DecidesPending ==
  \A c \in Calls :
    calls[c].at \in {"write", "decide"} /\ calls[c].action \notin outlived
      => locks[calls[c].action] = c /\ status[calls[c].action] = "pending"

\* A call that is about to save its run has the action's decision.
FinishesDecided ==
  \A c \in Calls :
    calls[c].at = "finish" /\ calls[c].action \notin outlived
      => status[calls[c].action] = Ended(calls[c].op)

\* Nobody but the holder of its lock starts a run for a key, and there is
\* none yet.
StartsMissing ==
  \A c \in Calls :
    calls[c].at \in {"chat", "save"} /\ calls[c].key \notin outlived
      => locks[calls[c].key] = c /\ index[calls[c].key] = NULL

DecidedInv == DecidesPending /\ FinishesDecided /\ RunTellsAction
KeysInv == StartsMissing /\ OneRunPerKey

----------------------------------------------------------------------------
(* What the repository says and the code does not keep.                    *)

\* The answer of cancel: the operation was cancelled, the ticket was not
\* changed.
CancelledNotWritten == \A a \in Actions : status[a] = "cancelled" => writes[a] = 0
=============================================================================
