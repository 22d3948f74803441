--------------------------- MODULE Actions_proofs ----------------------------
(***************************************************************************)
(* Why action, run and ticket tell the same, and one key makes one run, for*)
(* any number of actions, runs and calls (PendingActions), and that the    *)
(* decisions in memory agree (PriorityChange), for any number of threads.  *)
(* Of Redis, what is called executed was written however slow the calls    *)
(* are, and the rest holds of every key and every action whose lock no     *)
(* call has outlived.                                                      *)
(***************************************************************************)
EXTENDS PendingActions, PriorityChange, TLAPS

----------------------------------------------------------------------------
(* Types.                                                                  *)

LEMMA IdleType ==
  /\ Idle \in CallRecords /\ Idle.at = "none" /\ Idle.op = "none"
  /\ \A states, records : WellFormed(Idle, states, records)
<1>1. Idle \in CallRecords /\ Idle.at = "none" /\ Idle.op = "none"
  BY DEF Idle, CallRecords, Places
<1>2. QED
  BY <1>1 DEF WellFormed

\* Going on at another place changes nothing else of a call.
LEMMA Placed ==
  ASSUME NEW call \in CallRecords, NEW at \in Places
  PROVE  LET there == [call EXCEPT !.at = at]
         IN  /\ there \in CallRecords /\ there.at = at /\ there.op = call.op
             /\ there.key = call.key /\ there.run = call.run /\ there.action = call.action
BY DEF CallRecords

LEMMA GotoIsPlaced ==
  ASSUME ActionsTypeOK, NEW c \in Calls, NEW at \in Places, Goto(c, at)
  PROVE  calls' = [calls EXCEPT ![c] = [calls[c] EXCEPT !.at = at]]
BY DEF Goto, ActionsTypeOK

\* Actions and runs that are there stay, and a run keeps its action.
Kept ==
  /\ \A a \in Actions : status[a] # NULL => status'[a] # NULL
  /\ \A r \in Runs : runs[r] # NoRun => runs'[r] # NoRun /\ runs'[r].action = runs[r].action

LEMMA KeptWellFormed ==
  ASSUME NEW call \in CallRecords, WellFormed(call, status, runs), Kept
  PROVE  WellFormed(call, status', runs')
BY DEF WellFormed, Kept, CallRecords

\* The shape of the steps: one call goes on, the records are kept, and the
\* locks are given to calls or taken back.
LEMMA CallKeepsType ==
  ASSUME ActionsTypeOK, Kept, NEW c \in Calls, NEW call \in CallRecords,
         WellFormed(call, status', runs'), calls' = [calls EXCEPT ![c] = call],
         status' \in [Actions -> {NULL, "pending", "executed", "cancelled"}],
         writes' \in [Actions -> 0..MaxWrites],
         runs' \in [Runs -> RunRecords \cup {NoRun}],
         \A r \in Runs : runs'[r] # NoRun => status'[runs'[r].action] # NULL,
         index' \in [Keys -> Runs \cup {NULL}],
         locks' \in [Lockable -> Calls \cup {NULL, "dead"}], UNCHANGED outlived
  PROVE  ActionsTypeOK'
<1>1. calls' \in [Calls -> CallRecords]
  BY DEF ActionsTypeOK
<1>2. ASSUME NEW x \in Calls PROVE WellFormed(calls'[x], status', runs')
  <2>1. CASE x = c
    BY <2>1 DEF ActionsTypeOK
  <2>2. CASE x # c
    <3>1. calls'[x] = calls[x] /\ calls[x] \in CallRecords /\ WellFormed(calls[x], status, runs)
      BY <2>2 DEF ActionsTypeOK
    <3>2. QED
      BY <3>1, KeptWellFormed
  <2>3. QED
    BY <2>1, <2>2
<1>3. QED
  BY <1>1, <1>2 DEF ActionsTypeOK

LEMMA ReleasedType ==
  ASSUME ActionsTypeOK, NEW c, NEW xs
  PROVE  Released(c, xs) \in [Lockable -> Calls \cup {NULL, "dead"}]
BY DEF Released, ActionsTypeOK

LEMMA AcquiredType ==
  ASSUME ActionsTypeOK, NEW c \in Calls, NEW x \in Lockable, Acquire(c, x)
  PROVE  locks' \in [Lockable -> Calls \cup {NULL, "dead"}]
BY DEF Acquire, ActionsTypeOK

\* The steps that leave the records alone.
LEMMA QuietKeepsType ==
  ASSUME ActionsTypeOK, NEW c \in Calls, NEW call \in CallRecords,
         WellFormed(call, status, runs), calls' = [calls EXCEPT ![c] = call],
         locks' \in [Lockable -> Calls \cup {NULL, "dead"}],
         UNCHANGED <<status, writes, runs, index, outlived>>
  PROVE  ActionsTypeOK'
<1>1. Kept
  BY DEF Kept
<1>2. QED
  BY <1>1, CallKeepsType DEF ActionsTypeOK

LEMMA EndKeepsType ==
  ASSUME ActionsTypeOK, NEW c \in Calls, End(c), UNCHANGED <<status, writes, runs, index, outlived>>
  PROVE  ActionsTypeOK'
BY IdleType, ReleasedType, QuietKeepsType DEF End

\* A call goes on with an action.
LEMMA CallNext ==
  \A call \in CallRecords, a \in Actions, at \in {"save", "action"} :
    LET next == [call EXCEPT !.at = at, !.action = a]
    IN  next \in CallRecords /\ next.at = at
BY DEF CallRecords, Places

\* A request only makes a call, which has locked nothing yet.
LEMMA AskedCall ==
  ASSUME NEW c \in Calls, Ask(c)
  PROVE  /\ \E call \in CallRecords :
              calls' = [calls EXCEPT ![c] = call] /\ call.at \in {"key", "run", "action"}
         /\ UNCHANGED <<status, writes, runs, index, locks, outlived>>
<1>1. ASSUME NEW k \in Keys
      PROVE  LET call == [Idle EXCEPT !.op = "start", !.at = "key", !.key = k]
             IN  call \in CallRecords /\ call.at = "key"
  BY DEF Idle, CallRecords, Places
<1>2. ASSUME NEW op \in {"confirm", "cancel"}, NEW r \in Runs
      PROVE  LET call == [Idle EXCEPT !.op = op, !.at = "run", !.run = r]
             IN  call \in CallRecords /\ call.at = "run"
  BY DEF Idle, CallRecords, Places
<1>3. ASSUME NEW op \in {"confirm", "cancel"}, NEW a \in Actions
      PROVE  LET call == [Idle EXCEPT !.op = op, !.at = "action", !.action = a]
             IN  call \in CallRecords /\ call.at = "action"
  BY DEF Idle, CallRecords, Places
<1>4. UNCHANGED <<status, writes, runs, index, locks, outlived>>
  BY DEF Ask, Start, DecideRun, DecideAction
<1>5. CASE \E k \in Keys : Start(c, k)
  BY <1>1, <1>4, <1>5 DEF Start
<1>6. CASE \E op \in {"confirm", "cancel"}, r \in Runs : DecideRun(c, op, r)
  <2>1. PICK op \in {"confirm", "cancel"}, r \in Runs : DecideRun(c, op, r)
    BY <1>6
  <2>2. calls' = [calls EXCEPT ![c] = [Idle EXCEPT !.op = op, !.at = "run", !.run = r]]
    BY <2>1 DEF DecideRun
  <2>3. QED
    BY <1>2, <1>4, <2>2
<1>7. CASE \E op \in {"confirm", "cancel"}, a \in Actions : DecideAction(c, op, a)
  <2>1. PICK op \in {"confirm", "cancel"}, a \in Actions : DecideAction(c, op, a)
    BY <1>7
  <2>2. calls' = [calls EXCEPT ![c] = [Idle EXCEPT !.op = op, !.at = "action", !.action = a]]
    BY <2>1 DEF DecideAction
  <2>3. QED
    BY <1>3, <1>4, <2>2
<1>8. QED
  BY <1>5, <1>6, <1>7 DEF Ask

LEMMA AskKeepsType ==
  ASSUME ActionsTypeOK, NEW c \in Calls, Ask(c)
  PROVE  ActionsTypeOK'
<1>1. ASSUME NEW k \in Keys, Start(c, k) PROVE ActionsTypeOK'
  <2> DEFINE call == [Idle EXCEPT !.op = "start", !.at = "key", !.key = k]
  <2>1. call \in CallRecords /\ WellFormed(call, status, runs)
    BY DEF Idle, CallRecords, Places, WellFormed
  <2>2. QED
    BY <1>1, <2>1, QuietKeepsType DEF Start, ActionsTypeOK
<1>2. ASSUME NEW op \in {"confirm", "cancel"}, NEW r \in Runs, DecideRun(c, op, r) PROVE ActionsTypeOK'
  <2> DEFINE call == [Idle EXCEPT !.op = op, !.at = "run", !.run = r]
  <2>1. call \in CallRecords /\ WellFormed(call, status, runs)
    BY <1>2 DEF DecideRun, Idle, CallRecords, Places, WellFormed
  <2>2. QED
    BY <1>2, <2>1, QuietKeepsType DEF DecideRun, ActionsTypeOK
<1>3. ASSUME NEW op \in {"confirm", "cancel"}, NEW a \in Actions, DecideAction(c, op, a)
      PROVE  ActionsTypeOK'
  <2> DEFINE call == [Idle EXCEPT !.op = op, !.at = "action", !.action = a]
  <2>1. call \in CallRecords /\ WellFormed(call, status, runs)
    BY <1>3 DEF DecideAction, Idle, CallRecords, Places, WellFormed
  <2>2. QED
    BY <1>3, <2>1, QuietKeepsType DEF DecideAction, ActionsTypeOK
<1>4. QED
  BY <1>1, <1>2, <1>3 DEF Ask

LEMMA StartKeepsType ==
  ASSUME ActionsTypeOK, NEW c \in Calls, LookUp(c) \/ Chat(c) \/ SaveStarted(c)
  PROVE  ActionsTypeOK'
<1>1. calls[c] \in CallRecords /\ WellFormed(calls[c], status, runs)
  BY DEF ActionsTypeOK
<1>2. CASE LookUp(c)
  <2> DEFINE k == calls[c].key
  <2>1. CASE End(c) /\ UNCHANGED <<status, writes, runs, index, outlived>>
    BY <2>1, EndKeepsType
  <2>2. CASE Acquire(c, k) /\ Goto(c, "chat") /\ UNCHANGED <<status, writes, runs, index, outlived>>
    <3> DEFINE call == [calls[c] EXCEPT !.at = "chat"]
    <3>1. k \in Keys /\ calls[c].op = "start"
      BY <1>1, <1>2 DEF LookUp, IsAt, WellFormed
    <3>2. call \in CallRecords /\ WellFormed(call, status, runs)
      BY <1>1, <3>1, Placed DEF WellFormed, Places
    <3>3. QED
      BY <2>2, <3>1, <3>2, GotoIsPlaced, AcquiredType, QuietKeepsType DEF Lockable, Places
  <2>3. QED
    BY <1>2, <2>1, <2>2 DEF LookUp, GiveUp
<1>3. CASE Chat(c)
  <2>1. CASE End(c) /\ UNCHANGED <<status, writes, runs, index, outlived>>
    BY <2>1, EndKeepsType
  <2>2. ASSUME NEW a \in Actions, status[a] = NULL, status' = [status EXCEPT ![a] = "pending"],
               calls' = [calls EXCEPT ![c].at = "save", ![c].action = a], UNCHANGED locks
        PROVE  ActionsTypeOK'
    <3> DEFINE call == [calls[c] EXCEPT !.at = "save", !.action = a]
    <3>1. /\ call \in CallRecords /\ call.at = "save" /\ call.action = a
          /\ call.op = calls[c].op /\ call.key = calls[c].key
      BY <1>1 DEF CallRecords, Places
    <3>2. calls' = [calls EXCEPT ![c] = call]
      BY <2>2 DEF ActionsTypeOK
    <3>3. status'[a] = "pending" /\ Kept /\ \A r \in Runs : runs'[r] # NoRun => status'[runs'[r].action] # NULL
      BY <1>3, <2>2, MissingAssumption DEF Chat, Kept, ActionsTypeOK, RunRecords
    <3>4. calls[c].op = "start" /\ calls[c].key \in Keys
      BY <1>1, <1>3 DEF Chat, IsAt, WellFormed
    <3>5. WellFormed(call, status', runs')
      BY <3>1, <3>3, <3>4, MissingAssumption DEF WellFormed
    <3>6. QED
      BY <1>3, <2>2, <3>1, <3>2, <3>3, <3>5, CallKeepsType DEF Chat, ActionsTypeOK
  <2>3. QED
    BY <1>3, <2>1, <2>2 DEF Chat
<1>4. CASE SaveStarted(c)
  <2>1. PICK r \in Runs :
          /\ runs[r] = NoRun
          /\ runs' = [runs EXCEPT ![r] = [key |-> calls[c].key, action |-> calls[c].action,
                                          status |-> "WAITING_CONFIRMATION"]]
          /\ index' = [index EXCEPT ![calls[c].key] = r]
    BY <1>4 DEF SaveStarted
  <2>2. calls[c].key \in Keys /\ calls[c].action \in Actions /\ status[calls[c].action] # NULL
    BY <1>1, <1>4 DEF SaveStarted, IsAt, WellFormed
  <2>3. [key |-> calls[c].key, action |-> calls[c].action, status |-> "WAITING_CONFIRMATION"] \in RunRecords
    BY <2>2 DEF RunRecords
  <2>4. /\ Kept /\ status' = status /\ runs' \in [Runs -> RunRecords \cup {NoRun}]
        /\ \A x \in Runs : runs'[x] # NoRun => status'[runs'[x].action] # NULL
    BY <1>4, <2>1, <2>2, <2>3 DEF SaveStarted, Kept, ActionsTypeOK
  <2>5. index' \in [Keys -> Runs \cup {NULL}]
    BY <2>1, <2>2 DEF ActionsTypeOK
  <2>6. QED
    BY <1>4, <2>4, <2>5, IdleType, ReleasedType, CallKeepsType DEF SaveStarted, End, ActionsTypeOK
<1>5. QED
  BY <1>2, <1>3, <1>4

LEMMA DecideKeepsType ==
  ASSUME ActionsTypeOK, NEW c \in Calls,
         ReadRun(c) \/ ReadAction(c) \/ WriteTicket(c) \/ SaveAction(c) \/ SaveRun(c)
  PROVE  ActionsTypeOK'
<1> DEFINE a == calls[c].action
<1>1. calls[c] \in CallRecords /\ WellFormed(calls[c], status, runs)
  BY DEF ActionsTypeOK
<1>2. ASSUME End(c), UNCHANGED <<status, writes, runs, index, outlived>> PROVE ActionsTypeOK'
  BY <1>2, EndKeepsType
<1>3. ASSUME calls[c].at \in {"action", "write", "decide"}, NEW at \in {"write", "decide", "finish"},
             at = "write" => calls[c].op = "confirm", at = "finish" => calls[c].run # NULL
      PROVE  /\ [calls[c] EXCEPT !.at = at] \in CallRecords
             /\ WellFormed([calls[c] EXCEPT !.at = at], status, runs)
  <2> DEFINE call == [calls[c] EXCEPT !.at = at]
  <2>1. /\ call \in CallRecords /\ call.at = at /\ call.op = calls[c].op
        /\ call.run = calls[c].run /\ call.action = calls[c].action
    <3>1. at \in Places
      BY DEF Places
    <3>2. QED
      BY <1>1, <3>1, Placed
  <2>2. WellFormed(call, status, runs)
    BY <1>1, <1>3, <2>1 DEF WellFormed, CallRecords
  <2>3. QED
    BY <2>1, <2>2
<1>4. CASE ReadRun(c)
  <2> DEFINE r == calls[c].run
  <2>1. r \in Runs /\ runs[r] # NoRun /\ calls[c].op \in {"confirm", "cancel"} /\ runs[r] \in RunRecords
    BY <1>1, <1>4, MissingAssumption DEF ReadRun, IsAt, WellFormed, ActionsTypeOK
  <2>2. CASE /\ Acquire(c, r)
             /\ calls' = [calls EXCEPT ![c].at = "action", ![c].action = runs[r].action]
             /\ UNCHANGED <<status, writes, runs, index, outlived>>
    <3> DEFINE call == [calls[c] EXCEPT !.at = "action", !.action = runs[r].action]
    <3>1. runs[r].action \in Actions /\ status[runs[r].action] # NULL
      BY <2>1 DEF RunRecords, ActionsTypeOK
    <3>2. /\ call \in CallRecords /\ call.at = "action" /\ call.action = runs[r].action
          /\ call.op = calls[c].op /\ call.run = r
      BY <1>1, <3>1 DEF CallRecords, Places
    <3>3. calls' = [calls EXCEPT ![c] = call]
      BY <2>2 DEF ActionsTypeOK
    <3>4. WellFormed(call, status, runs)
      BY <2>1, <3>1, <3>2 DEF WellFormed
    <3>5. QED
      BY <2>1, <2>2, <3>2, <3>3, <3>4, AcquiredType, QuietKeepsType DEF Lockable
  <2>3. QED
    BY <1>2, <1>4, <2>2 DEF ReadRun, GiveUp
<1>5. CASE ReadAction(c)
  <2>1. a \in Actions /\ calls[c].at = "action" /\ calls[c].op \in {"confirm", "cancel"}
    BY <1>1, <1>5 DEF ReadAction, IsAt, WellFormed
  <2>2. CASE /\ Acquire(c, a)
             /\ Goto(c, IF calls[c].op = "confirm" THEN "write" ELSE "decide")
             /\ UNCHANGED <<status, writes, runs, index, outlived>>
    BY <1>3, <2>1, <2>2, GotoIsPlaced, AcquiredType, QuietKeepsType DEF Lockable, Places
  <2>3. CASE calls[c].run # NULL /\ Goto(c, "finish") /\ UNCHANGED <<status, writes, runs, index, locks, outlived>>
    BY <1>3, <2>1, <2>3, GotoIsPlaced, QuietKeepsType DEF Places, ActionsTypeOK
  <2>4. QED
    BY <1>2, <1>5, <2>2, <2>3 DEF ReadAction, GiveUp
<1>6. CASE WriteTicket(c)
  <2>1. CASE /\ writes' = [writes EXCEPT ![a] = IF @ < MaxWrites THEN @ + 1 ELSE @]
             /\ Goto(c, "decide") /\ UNCHANGED <<status, runs, index, locks, outlived>>
    <3>1. a \in Actions /\ calls[c].at = "write"
      BY <1>1, <1>6 DEF WriteTicket, IsAt, WellFormed
    <3>2. writes' \in [Actions -> 0..MaxWrites]
      BY <2>1, <3>1 DEF ActionsTypeOK, MaxWrites
    <3>3. Kept
      BY <2>1 DEF Kept
    <3>4. QED
      BY <1>3, <2>1, <3>1, <3>2, <3>3, GotoIsPlaced, CallKeepsType DEF Places, ActionsTypeOK
  <2>2. QED
    BY <1>2, <1>6, <2>1 DEF WriteTicket
<1>7. CASE SaveAction(c)
  <2>1. a \in Actions /\ calls[c].at = "decide"
    BY <1>1, <1>7 DEF SaveAction, IsAt, WellFormed
  <2>2. /\ status' \in [Actions -> {NULL, "pending", "executed", "cancelled"}] /\ Kept
        /\ UNCHANGED <<runs, writes, index, outlived>>
        /\ \A r \in Runs : runs'[r] # NoRun => status'[runs'[r].action] # NULL
    BY <1>7, <2>1, MissingAssumption DEF SaveAction, Kept, ActionsTypeOK
  <2>3. CASE End(c)
    BY <2>2, <2>3, IdleType, ReleasedType, CallKeepsType DEF End, ActionsTypeOK
  <2>4. CASE calls[c].run # NULL /\ locks' = Released(c, {a}) /\ Goto(c, "finish")
    <3> DEFINE call == [calls[c] EXCEPT !.at = "finish"]
    <3>1. call \in CallRecords /\ WellFormed(call, status, runs)
      BY <1>3, <2>1, <2>4
    <3>2. WellFormed(call, status', runs')
      BY <2>2, <3>1, KeptWellFormed
    <3>3. QED
      BY <2>2, <2>4, <3>1, <3>2, GotoIsPlaced, ReleasedType, CallKeepsType DEF Places, ActionsTypeOK
  <2>5. QED
    BY <1>7, <2>3, <2>4 DEF SaveAction, LeaveAction
<1>8. CASE SaveRun(c)
  <2> DEFINE r == calls[c].run
             new == IF calls[c].op = "confirm" THEN "COMPLETED" ELSE "CANCELLED"
  <2>1. r \in Runs /\ runs[r] \in RunRecords
    BY <1>1, <1>8, MissingAssumption DEF SaveRun, IsAt, WellFormed, ActionsTypeOK
  <2>2. runs' = [runs EXCEPT ![r] = [runs[r] EXCEPT !.status = new]]
    BY <1>8 DEF SaveRun, ActionsTypeOK
  <2>3. [runs[r] EXCEPT !.status = new] \in RunRecords
        /\ [runs[r] EXCEPT !.status = new].action = runs[r].action
    BY <2>1 DEF RunRecords
  <2>4. /\ runs' \in [Runs -> RunRecords \cup {NoRun}] /\ Kept
        /\ \A x \in Runs : runs'[x] # NoRun => status'[runs'[x].action] # NULL
    BY <1>8, <2>1, <2>2, <2>3, MissingAssumption DEF SaveRun, Kept, ActionsTypeOK
  <2>5. QED
    BY <1>8, <2>4, IdleType, ReleasedType, CallKeepsType DEF SaveRun, End, ActionsTypeOK
<1>9. QED
  BY <1>4, <1>5, <1>6, <1>7, <1>8

LEMMA TypeStep ==
  ASSUME ActionsTypeOK, [Next]_vars
  PROVE  ActionsTypeOK'
<1>1. CASE UNCHANGED vars
  BY <1>1 DEF vars, ActionsTypeOK
<1>2. ASSUME NEW c \in Calls, Die(c) PROVE ActionsTypeOK'
  BY <1>2, IdleType, QuietKeepsType DEF Die, ActionsTypeOK
<1>3. ASSUME NEW x \in Lockable, Expire(x) PROVE ActionsTypeOK'
  BY <1>3 DEF Expire, ActionsTypeOK
<1>4. QED
  BY <1>1, <1>2, <1>3, AskKeepsType, StartKeepsType, DecideKeepsType DEF Next, Work

----------------------------------------------------------------------------
(* What is executed was written.                                           *)

\* Calls that only come to save what was written, and records that stay.
LEMMA QuietKeepsWritten ==
  ASSUME WrittenInv, NEW c \in Calls, NEW call \in CallRecords,
         calls' = [calls EXCEPT ![c] = call],
         call.at \in {"decide", "finish"} /\ call.op = "confirm" => writes[call.action] > 0,
         UNCHANGED <<status, writes, runs>>
  PROVE  ExecutedWasWritten' /\ SavesWhatItWrote'
<1>1. calls'[c] = call /\ \A x \in Calls \ {c} : calls'[x] = calls[x]
  BY DEF WrittenInv, ActionsTypeOK
<1>2. QED
  BY <1>1 DEF WrittenInv, ExecutedWasWritten, SavesWhatItWrote

LEMMA WrittenStep ==
  ASSUME WrittenInv, [Next]_vars
  PROVE  ExecutedWasWritten' /\ SavesWhatItWrote'
<1> DEFINE Goal == ExecutedWasWritten' /\ SavesWhatItWrote'
<1>1. CASE UNCHANGED vars
  BY <1>1 DEF vars, WrittenInv, ExecutedWasWritten, SavesWhatItWrote
<1>2. ActionsTypeOK
  BY DEF WrittenInv
<1>3. ASSUME NEW c \in Calls, End(c) \/ calls' = [calls EXCEPT ![c] = Idle],
             UNCHANGED <<status, writes, runs>>
      PROVE  Goal
  BY <1>3, IdleType, QuietKeepsWritten DEF End
<1>4. ASSUME NEW c \in Calls, NEW at \in Places, Goto(c, at),
             at \in {"decide", "finish"} /\ calls[c].op = "confirm" => writes[calls[c].action] > 0,
             UNCHANGED <<status, writes, runs>>
      PROVE  Goal
  <2>1. calls' = [calls EXCEPT ![c] = [calls[c] EXCEPT !.at = at]]
    BY <1>2, <1>4, GotoIsPlaced
  <2>2. calls[c] \in CallRecords
    BY <1>2 DEF ActionsTypeOK
  <2>3. QED
    BY <1>4, <2>1, <2>2, Placed, QuietKeepsWritten
<1>5. ASSUME NEW c \in Calls PROVE calls[c] \in CallRecords /\ WellFormed(calls[c], status, runs)
  BY <1>2 DEF ActionsTypeOK
<1>6. ASSUME NEW c \in Calls, Ask(c) PROVE Goal
  <2>1. PICK call \in CallRecords : calls' = [calls EXCEPT ![c] = call] /\ call.at \in {"key", "run", "action"}
    BY <1>6, AskedCall
  <2>2. UNCHANGED <<status, writes, runs>>
    BY <1>6, AskedCall
  <2>3. QED
    BY <2>1, <2>2, QuietKeepsWritten
<1>7. ASSUME NEW c \in Calls, LookUp(c) PROVE Goal
  BY <1>3, <1>4, <1>7 DEF LookUp, GiveUp, Places
<1>8. ASSUME NEW c \in Calls, Chat(c) PROVE Goal
  <2>1. CASE End(c) /\ UNCHANGED <<status, writes>>
    BY <1>3, <1>8, <2>1 DEF Chat
  <2>2. ASSUME NEW a \in Actions, status[a] = NULL, status' = [status EXCEPT ![a] = "pending"],
               calls' = [calls EXCEPT ![c].at = "save", ![c].action = a]
        PROVE  Goal
    <3>1. calls' = [calls EXCEPT ![c] = [calls[c] EXCEPT !.at = "save", !.action = a]]
      BY <1>2, <2>2 DEF ActionsTypeOK
    <3>2. calls'[c].at = "save" /\ \A x \in Calls \ {c} : calls'[x] = calls[x]
      BY <1>2, <1>5, <3>1 DEF ActionsTypeOK, CallRecords
    <3>3. /\ writes' = writes /\ runs' = runs
          /\ \A b \in Actions : status'[b] = "executed" => status[b] = "executed"
      BY <1>2, <1>8, <2>2 DEF Chat, ActionsTypeOK
    <3>4. QED
      BY <3>2, <3>3 DEF WrittenInv, ExecutedWasWritten, SavesWhatItWrote
  <2>3. QED
    BY <1>8, <2>1, <2>2 DEF Chat
<1>17. ASSUME NEW c \in Calls, calls' = [calls EXCEPT ![c] = Idle], UNCHANGED <<status, writes>>,
              NEW r \in Runs, NEW new \in RunRecords, runs' = [runs EXCEPT ![r] = new],
              new.status = "COMPLETED" => writes[new.action] > 0
       PROVE  Goal
  <2>1. calls'[c] = Idle /\ \A x \in Calls \ {c} : calls'[x] = calls[x]
    BY <1>2, <1>17 DEF ActionsTypeOK
  <2>2. SavesWhatItWrote'
    BY <1>17, <2>1, IdleType DEF WrittenInv, SavesWhatItWrote
  <2>3. runs'[r] = new /\ \A x \in Runs \ {r} : runs'[x] = runs[x]
    BY <1>2, <1>17 DEF ActionsTypeOK
  <2>4. ExecutedWasWritten'
    BY <1>17, <2>3 DEF WrittenInv, ExecutedWasWritten
  <2>5. QED
    BY <2>2, <2>4
<1>9. ASSUME NEW c \in Calls, SaveStarted(c) PROVE Goal
  <2> DEFINE new == [key |-> calls[c].key, action |-> calls[c].action, status |-> "WAITING_CONFIRMATION"]
  <2>1. PICK r \in Runs : runs' = [runs EXCEPT ![r] = new]
    BY <1>9 DEF SaveStarted
  <2>2. calls[c].key \in Keys /\ calls[c].action \in Actions
    BY <1>5, <1>9 DEF SaveStarted, IsAt, WellFormed
  <2>3. new \in RunRecords /\ new.status # "COMPLETED"
    BY <2>2 DEF RunRecords
  <2>4. calls' = [calls EXCEPT ![c] = Idle] /\ UNCHANGED <<status, writes>>
    BY <1>9 DEF SaveStarted, End
  <2>5. QED
    BY <1>17, <2>1, <2>3, <2>4
<1>18. ASSUME NEW c \in Calls, SaveRun(c) PROVE Goal
  <2> DEFINE r == calls[c].run
             new == [runs[r] EXCEPT !.status = IF calls[c].op = "confirm" THEN "COMPLETED" ELSE "CANCELLED"]
  <2>1. /\ r \in Runs /\ runs[r] \in RunRecords /\ runs[r].action = calls[c].action
        /\ calls[c].at = "finish"
    BY <1>2, <1>5, <1>18, MissingAssumption DEF SaveRun, IsAt, WellFormed, ActionsTypeOK
  <2>2. runs' = [runs EXCEPT ![r] = new]
    BY <1>2, <1>18 DEF SaveRun, ActionsTypeOK
  <2>3. /\ new \in RunRecords /\ new.action = calls[c].action
        /\ new.status = "COMPLETED" => calls[c].op = "confirm"
    BY <2>1 DEF RunRecords
  <2>4. new.status = "COMPLETED" => writes[new.action] > 0
    BY <2>1, <2>3 DEF WrittenInv, SavesWhatItWrote
  <2>5. calls' = [calls EXCEPT ![c] = Idle] /\ UNCHANGED <<status, writes>>
    BY <1>18 DEF SaveRun, End
  <2>6. QED
    BY <1>17, <2>1, <2>2, <2>3, <2>4, <2>5
<1>10. ASSUME NEW c \in Calls, ReadRun(c) PROVE Goal
  <2>1. CASE calls' = [calls EXCEPT ![c].at = "action", ![c].action = runs[calls[c].run].action]
    <3>1. calls' = [calls EXCEPT ![c] = [calls[c] EXCEPT !.at = "action", !.action = runs[calls[c].run].action]]
      BY <1>2, <2>1 DEF ActionsTypeOK
    <3>2. calls'[c].at = "action" /\ \A x \in Calls \ {c} : calls'[x] = calls[x]
      BY <1>2, <1>5, <3>1 DEF ActionsTypeOK, CallRecords
    <3>3. UNCHANGED <<status, writes, runs>>
      BY <1>10 DEF ReadRun, GiveUp
    <3>4. QED
      BY <3>2, <3>3 DEF WrittenInv, ExecutedWasWritten, SavesWhatItWrote
  <2>2. QED
    BY <1>3, <1>10, <2>1 DEF ReadRun, GiveUp
<1>11. ASSUME NEW c \in Calls, ReadAction(c) PROVE Goal
  <2>1. calls[c].op \in {"confirm", "cancel"}
    BY <1>5, <1>11 DEF ReadAction, IsAt, WellFormed
  <2>2. \/ End(c)
        \/ /\ Goto(c, "finish")
           /\ calls[c].op = "confirm" => status[calls[c].action] = "executed"
        \/ calls[c].op = "confirm" /\ Goto(c, "write")
        \/ calls[c].op = "cancel" /\ Goto(c, "decide")
    BY <1>11, <2>1 DEF ReadAction, GiveUp
  <2>3. UNCHANGED <<status, writes, runs>>
    BY <1>11 DEF ReadAction, GiveUp
  <2>5. calls[c].action \in Actions
    BY <1>5, <1>11 DEF ReadAction, IsAt, WellFormed
  <2>6. status[calls[c].action] = "executed" => writes[calls[c].action] > 0
    BY <2>5 DEF WrittenInv, ExecutedWasWritten
  <2>4. QED
    BY <1>3, <1>4, <2>2, <2>3, <2>6 DEF Places
<1>12. ASSUME NEW c \in Calls, WriteTicket(c) PROVE Goal
  <2> DEFINE a == calls[c].action
  <2>1. CASE writes' = [writes EXCEPT ![a] = IF @ < MaxWrites THEN @ + 1 ELSE @] /\ Goto(c, "decide")
    <3>1. a \in Actions
      BY <1>5, <1>12 DEF WriteTicket, IsAt, WellFormed
    <3>2. writes[a] \in 0..MaxWrites /\ writes'[a] = IF writes[a] < MaxWrites THEN writes[a] + 1 ELSE writes[a]
      BY <1>2, <2>1, <3>1 DEF ActionsTypeOK
    <3>3. writes'[a] > 0
      BY <3>2 DEF MaxWrites
    <3>4. \A b \in Actions : writes[b] > 0 => writes'[b] > 0
      BY <1>2, <2>1, <3>3 DEF ActionsTypeOK
    <3>5. calls' = [calls EXCEPT ![c] = [calls[c] EXCEPT !.at = "decide"]]
      BY <1>2, <2>1, GotoIsPlaced DEF Places
    <3>6. calls'[c].action = a /\ \A x \in Calls \ {c} : calls'[x] = calls[x]
      BY <1>2, <1>5, <3>5 DEF ActionsTypeOK, CallRecords
    <3>7. status' = status /\ runs' = runs
      BY <1>12 DEF WriteTicket
    <3>11. \A r \in Runs : runs[r] # NoRun => runs[r].action \in Actions
      BY <1>2 DEF ActionsTypeOK, RunRecords
    <3>8. ExecutedWasWritten'
      BY <3>4, <3>7, <3>11 DEF WrittenInv, ExecutedWasWritten
    <3>9. SavesWhatItWrote'
      <4>1. SUFFICES ASSUME NEW x \in Calls, calls'[x].at \in {"decide", "finish"},
                            calls'[x].op = "confirm"
                     PROVE  writes'[calls'[x].action] > 0
        BY DEF SavesWhatItWrote
      <4>2. x # c => calls[x].action \in Actions /\ writes[calls[x].action] > 0
        BY <1>5, <3>6, <4>1 DEF WrittenInv, SavesWhatItWrote, WellFormed
      <4>3. QED
        BY <3>3, <3>4, <3>6, <4>2
    <3>10. QED
      BY <3>8, <3>9
  <2>2. QED
    BY <1>3, <1>12, <2>1 DEF WriteTicket
<1>13. ASSUME NEW c \in Calls, SaveAction(c) PROVE Goal
  <2> DEFINE a == calls[c].action
  <2>1. a \in Actions /\ calls[c].at = "decide" /\ calls[c].op \in {"confirm", "cancel"}
    BY <1>5, <1>13 DEF SaveAction, IsAt, WellFormed
  <2>2. status' = [status EXCEPT ![a] = IF calls[c].op = "confirm" THEN "executed" ELSE "cancelled"]
        /\ writes' = writes /\ runs' = runs
    BY <1>13 DEF SaveAction
  <2>3. ExecutedWasWritten'
    BY <1>2, <2>1, <2>2 DEF WrittenInv, ExecutedWasWritten, SavesWhatItWrote, ActionsTypeOK
  <2>4. calls' = [calls EXCEPT ![c] = Idle] \/ calls' = [calls EXCEPT ![c] = [calls[c] EXCEPT !.at = "finish"]]
    BY <1>2, <1>13, GotoIsPlaced DEF SaveAction, LeaveAction, End, Places
  <2>5. /\ \/ calls'[c].at = "none"
           \/ calls'[c].op = calls[c].op /\ calls'[c].action = a
        /\ \A x \in Calls \ {c} : calls'[x] = calls[x]
    BY <1>2, <1>5, <2>4, IdleType DEF ActionsTypeOK, CallRecords
  <2>7. calls[c].op = "confirm" => writes[a] > 0
    BY <2>1 DEF WrittenInv, SavesWhatItWrote
  <2>6. QED
    BY <2>2, <2>3, <2>5, <2>7 DEF WrittenInv, SavesWhatItWrote
<1>14. ASSUME NEW c \in Calls, Die(c) PROVE Goal
  BY <1>3, <1>14 DEF Die
<1>15. ASSUME NEW x \in Lockable, Expire(x) PROVE Goal
  BY <1>15 DEF Expire, WrittenInv, ExecutedWasWritten, SavesWhatItWrote
<1>16. QED
  BY <1>1, <1>6, <1>7, <1>8, <1>9, <1>18, <1>10, <1>11, <1>12, <1>13, <1>14, <1>15 DEF Next, Work

----------------------------------------------------------------------------
(* Locks and decisions.                                                    *)

\* A lock is only given back by its holder, or runs out.
LEMMA LocksStay ==
  ASSUME ActionsTypeOK, NEW c \in Calls, NEW x \in Calls \ {c}, NEW y \in Lockable,
         locks[y] = x, Ask(c) \/ Work(c) \/ Die(c)
  PROVE  locks'[y] = x
<1>1. locks \in [Lockable -> Calls \cup {NULL, "dead"}] /\ x # NULL /\ x # "dead"
  BY MissingAssumption DEF ActionsTypeOK
<1>3. CASE Ask(c)
  BY <1>3, AskedCall
<1>4. CASE Die(c)
  BY <1>1, <1>4 DEF Die
<1>5. CASE Work(c)
  <2>1. \/ UNCHANGED locks
        \/ \E xs : locks' = Released(c, xs)
        \/ \E z : locks[z] = NULL /\ locks' = [locks EXCEPT ![z] = c]
    BY <1>5 DEF Work, LookUp, Chat, SaveStarted, ReadRun, ReadAction, WriteTicket, SaveAction, SaveRun,
                LeaveAction, GiveUp, End, Acquire, Free
  <2>2. QED
    BY <1>1, <2>1 DEF Released
<1>6. QED
  BY <1>3, <1>4, <1>5

\* Calls outlive no locks but those that run out.
LEMMA NobodyOutlives ==
  ASSUME NEW c \in Calls, Ask(c) \/ Work(c) \/ Die(c)
  PROVE  outlived' = outlived
<1>1. CASE Ask(c)
  BY <1>1, AskedCall
<1>2. CASE Die(c)
  BY <1>2 DEF Die
<1>3. CASE Work(c)
  BY <1>3 DEF Work, LookUp, Chat, SaveStarted, ReadRun, ReadAction, WriteTicket, SaveAction, SaveRun, GiveUp
<1>4. QED
  BY <1>1, <1>2, <1>3

\* A lock that runs out under its holder is outlived, the others stay.
LEMMA ExpireOutlives ==
  ASSUME ActionsTypeOK, NEW x \in Lockable, Expire(x)
  PROVE  /\ outlived \subseteq outlived'
         /\ \A c \in Calls, y \in Lockable : locks[y] = c => locks'[y] = c \/ y \in outlived'
<1>1. outlived \subseteq outlived'
  BY DEF Expire
<1>2. ASSUME NEW c \in Calls, NEW y \in Lockable, locks[y] = c PROVE locks'[y] = c \/ y \in outlived'
  <2>1. CASE y = x
    <3>1. locks[x] # "dead"
      BY <1>2, <2>1, MissingAssumption
    <3>2. QED
      BY <2>1, <3>1 DEF Expire
  <2>2. CASE y # x
    BY <1>2, <2>2 DEF Expire, ActionsTypeOK
  <2>3. QED
    BY <2>1, <2>2
<1>3. QED
  BY <1>1, <1>2

\* One call goes on; the others keep what they know of their actions, for
\* only the holder of its lock decides an action.
LEMMA CallKeepsDecided ==
  ASSUME ActionsTypeOK, DecidedInv, NEW c \in Calls, NEW call \in CallRecords,
         calls' = [calls EXCEPT ![c] = call], outlived' = outlived,
         \A x \in Calls \ {c}, y \in Lockable : locks[y] = x => locks'[y] = x,
         \A a \in Actions \ outlived :
           \/ status'[a] = status[a]
           \/ status[a] = NULL
           \/ status[a] = "pending" /\ locks[a] = c,
         call.at \in {"write", "decide"} /\ call.action \notin outlived
           => locks'[call.action] = c /\ status'[call.action] = "pending",
         call.at = "finish" /\ call.action \notin outlived => status'[call.action] = Ended(call.op)
  PROVE  /\ DecidesPending' /\ FinishesDecided'
         /\ runs' = runs => RunTellsAction'
<1>1. calls'[c] = call /\ \A x \in Calls \ {c} : calls'[x] = calls[x]
  BY DEF ActionsTypeOK
<1>2. \A x \in Calls : calls[x].at \in {"write", "decide", "finish"} => calls[x].action \in Actions
  BY DEF ActionsTypeOK, WellFormed
<1>3. \A a \in Actions \ outlived : status[a] \in {"executed", "cancelled"} => status'[a] = status[a]
  BY MissingAssumption DEF ActionsTypeOK
<1>4. ASSUME NEW x \in Calls \ {c}, calls[x].at \in {"write", "decide"}, calls[x].action \notin outlived
      PROVE  locks'[calls[x].action] = x /\ status'[calls[x].action] = "pending"
  BY <1>2, <1>4, MissingAssumption DEF DecidedInv, DecidesPending, Lockable
<1>5. DecidesPending'
  BY <1>1, <1>4 DEF DecidesPending
<1>6. FinishesDecided'
  BY <1>1, <1>2, <1>3 DEF DecidedInv, FinishesDecided, Ended
<1>7. ASSUME runs' = runs PROVE RunTellsAction'
  <2>1. \A r \in Runs : runs[r] # NoRun => runs[r].action \in Actions
    BY DEF ActionsTypeOK, RunRecords
  <2>2. QED
    BY <1>3, <1>7, <2>1 DEF DecidedInv, RunTellsAction
<1>8. QED
  BY <1>5, <1>6, <1>7

\* No step changes a decision, and the writing of a ticket is the holder's.
LEMMA DecidedStep ==
  ASSUME ActionsTypeOK, DecidedInv, [Next]_vars
  PROVE  /\ DecidedInv'
         /\ \A a \in Actions \ outlived : status[a] \in {"executed", "cancelled"}
              => status'[a] = status[a] /\ writes'[a] = writes[a]
<1> DEFINE Final == \A a \in Actions \ outlived : status[a] \in {"executed", "cancelled"}
                      => status'[a] = status[a] /\ writes'[a] = writes[a]
           Goal == DecidedInv' /\ Final
<1>1. CASE UNCHANGED vars
  BY <1>1 DEF vars, DecidedInv, DecidesPending, FinishesDecided, RunTellsAction
<1>2. ASSUME NEW c \in Calls, Ask(c) \/ Work(c) \/ Die(c), NEW call \in CallRecords,
             calls' = [calls EXCEPT ![c] = call], UNCHANGED <<status, writes, runs>>,
             call.at \in {"write", "decide"} /\ call.action \notin outlived
               => locks'[call.action] = c /\ status[call.action] = "pending",
             call.at = "finish" /\ call.action \notin outlived => status[call.action] = Ended(call.op)
      PROVE  Goal
  <2>1. /\ \A x \in Calls \ {c}, y \in Lockable : locks[y] = x => locks'[y] = x
        /\ outlived' = outlived
    BY <1>2, LocksStay, NobodyOutlives
  <2>2. QED
    BY <1>2, <2>1, CallKeepsDecided DEF DecidedInv
<1>3. ASSUME NEW c \in Calls, Work(c) \/ Die(c), calls' = [calls EXCEPT ![c] = Idle],
             UNCHANGED <<status, writes, runs>>
      PROVE  Goal
  BY <1>2, <1>3, IdleType
<1>4. ASSUME NEW c \in Calls PROVE calls[c] \in CallRecords /\ WellFormed(calls[c], status, runs)
  BY DEF ActionsTypeOK
<1>5. ASSUME NEW c \in Calls, NEW at \in Places, Work(c), Goto(c, at), UNCHANGED <<status, writes, runs>>,
             at \in {"write", "decide"} /\ calls[c].action \notin outlived
               => locks'[calls[c].action] = c /\ status[calls[c].action] = "pending",
             at = "finish" /\ calls[c].action \notin outlived
               => status[calls[c].action] = Ended(calls[c].op)
      PROVE  Goal
  <2> DEFINE call == [calls[c] EXCEPT !.at = at]
  <2>1. calls' = [calls EXCEPT ![c] = call]
    BY <1>5, GotoIsPlaced
  <2>2. call \in CallRecords /\ call.at = at /\ call.op = calls[c].op /\ call.action = calls[c].action
    BY <1>4, Placed
  <2>3. QED
    BY <1>2, <1>5, <2>1, <2>2
<1>6. ASSUME NEW c \in Calls, Ask(c) PROVE Goal
  <2>1. PICK call \in CallRecords : calls' = [calls EXCEPT ![c] = call] /\ call.at \in {"key", "run", "action"}
    BY <1>6, AskedCall
  <2>2. QED
    BY <1>2, <1>6, <2>1, AskedCall
<1>7. ASSUME NEW c \in Calls, LookUp(c) PROVE Goal
  BY <1>3, <1>5, <1>7 DEF LookUp, GiveUp, End, Places, Work
<1>8. ASSUME NEW c \in Calls, Chat(c) PROVE Goal
  <2>1. CASE End(c) /\ UNCHANGED status
    BY <1>3, <1>8, <2>1 DEF Chat, End, Work
  <2>2. ASSUME NEW a \in Actions, status[a] = NULL, status' = [status EXCEPT ![a] = "pending"],
               calls' = [calls EXCEPT ![c].at = "save", ![c].action = a]
        PROVE  Goal
    <3> DEFINE call == [calls[c] EXCEPT !.at = "save", !.action = a]
    <3>1. calls' = [calls EXCEPT ![c] = call] /\ call \in CallRecords /\ call.at = "save"
      <4>1. calls[c] \in CallRecords
        BY <1>4 DEF ActionsTypeOK
      <4>2. call \in CallRecords /\ call.at = "save"
        BY <4>1, CallNext
      <4>3. QED
        BY <2>2, <4>2
    <3>2. \A b \in Actions : status'[b] = status[b] \/ status[b] = NULL
      BY <2>2 DEF ActionsTypeOK
    <3>3. \A x \in Calls \ {c}, y \in Lockable : locks[y] = x => locks'[y] = x
      BY <1>8, LocksStay DEF Work
    <3>4. runs' = runs /\ writes' = writes /\ outlived' = outlived
      BY <1>8 DEF Chat
    <3>5. DecidedInv'
      BY <3>1, <3>2, <3>3, <3>4, CallKeepsDecided DEF DecidedInv
    <3>6. Final
      BY <3>2, <3>4, MissingAssumption
    <3>7. QED
      BY <3>5, <3>6
  <2>3. QED
    BY <1>8, <2>1, <2>2 DEF Chat
<1>9. ASSUME NEW c \in Calls, SaveStarted(c) PROVE Goal
  <2>1. PICK r \in Runs : runs' = [runs EXCEPT ![r] = [key |-> calls[c].key, action |-> calls[c].action,
                                                        status |-> "WAITING_CONFIRMATION"]]
    BY <1>9 DEF SaveStarted
  <2>2. calls' = [calls EXCEPT ![c] = Idle] /\ UNCHANGED <<status, writes, outlived>>
    BY <1>9 DEF SaveStarted, End
  <2>3. \A x \in Calls \ {c}, y \in Lockable : locks[y] = x => locks'[y] = x
    BY <1>9, LocksStay DEF Work
  <2>4. DecidesPending' /\ FinishesDecided'
    BY <2>2, <2>3, IdleType, CallKeepsDecided
  <2>5. RunTellsAction'
    BY <2>1, <2>2 DEF ActionsTypeOK, DecidedInv, RunTellsAction
  <2>6. QED
    BY <2>2, <2>4, <2>5 DEF DecidedInv
<1>10. ASSUME NEW c \in Calls, ReadRun(c) PROVE Goal
  <2>1. CASE calls' = [calls EXCEPT ![c].at = "action", ![c].action = runs[calls[c].run].action]
    <3> DEFINE call == [calls[c] EXCEPT !.at = "action", !.action = runs[calls[c].run].action]
    <3>1. calls[c].run \in Runs /\ runs[calls[c].run] \in RunRecords
      BY <1>4, <1>10, MissingAssumption DEF ReadRun, IsAt, WellFormed, ActionsTypeOK
    <3>2. call \in CallRecords /\ call.at = "action"
      <4>1. runs[calls[c].run].action \in Actions /\ calls[c] \in CallRecords
        BY <1>4, <3>1 DEF ActionsTypeOK, RunRecords
      <4>2. QED
        BY <4>1, CallNext
    <3>3. calls' = [calls EXCEPT ![c] = call]
      BY <2>1
    <3>4. QED
      BY <1>2, <1>10, <3>2, <3>3 DEF ReadRun, GiveUp, Work
  <2>2. QED
    BY <1>3, <1>10, <2>1 DEF ReadRun, GiveUp, End, Work
<1>11. ASSUME NEW c \in Calls, ReadAction(c) PROVE Goal
  <2> DEFINE a == calls[c].action
  <2>1. calls[c].op \in {"confirm", "cancel"} /\ a \in Actions
    BY <1>4, <1>11 DEF ReadAction, IsAt, WellFormed
  <2>2. UNCHANGED <<status, writes, runs>>
    BY <1>11 DEF ReadAction, GiveUp
  <2>3. \/ End(c)
        \/ Goto(c, "finish") /\ status[a] = Ended(calls[c].op)
        \/ /\ Acquire(c, a) /\ status[a] = "pending"
           /\ Goto(c, "write") \/ Goto(c, "decide")
    BY <1>11, <2>1 DEF ReadAction, GiveUp, Ended
  <2>4. Acquire(c, a) => locks'[a] = c
    BY <2>1 DEF Acquire, ActionsTypeOK, Lockable
  <2>5. QED
    BY <1>3, <1>5, <1>11, <2>2, <2>3, <2>4 DEF End, Places, Work
<1>12. ASSUME NEW c \in Calls, WriteTicket(c) PROVE Goal
  <2> DEFINE a == calls[c].action
  <2>1. CASE End(c) /\ UNCHANGED writes
    BY <1>3, <1>12, <2>1 DEF WriteTicket, End, Work
  <2>2. CASE writes' = [writes EXCEPT ![a] = IF @ < MaxWrites THEN @ + 1 ELSE @] /\ Goto(c, "decide")
             /\ UNCHANGED locks
    <3> DEFINE call == [calls[c] EXCEPT !.at = "decide"]
    <3>1. calls' = [calls EXCEPT ![c] = call] /\ call \in CallRecords /\ call.at = "decide" /\ call.action = a
      BY <1>4, <2>2, GotoIsPlaced, Placed DEF Places
    <3>2. a \in Actions /\ (a \notin outlived => locks[a] = c /\ status[a] = "pending")
      BY <1>4, <1>12 DEF WriteTicket, IsAt, WellFormed, DecidedInv, DecidesPending
    <3>3. UNCHANGED <<status, runs, outlived>>
      BY <1>12 DEF WriteTicket
    <3>4. DecidedInv'
      BY <2>2, <3>1, <3>2, <3>3, CallKeepsDecided DEF DecidedInv
    <3>5. Final
      BY <2>2, <3>2, <3>3 DEF ActionsTypeOK
    <3>6. QED
      BY <3>4, <3>5
  <2>3. QED
    BY <1>12, <2>1, <2>2 DEF WriteTicket
<1>13. ASSUME NEW c \in Calls, SaveAction(c) PROVE Goal
  <2> DEFINE a == calls[c].action
             finishing == [calls[c] EXCEPT !.at = "finish"]
  <2>1. /\ a \in Actions /\ calls[c].op \in {"confirm", "cancel"}
        /\ a \notin outlived => locks[a] = c /\ status[a] = "pending"
    BY <1>4, <1>13 DEF SaveAction, IsAt, WellFormed, DecidedInv, DecidesPending
  <2>2. status' = [status EXCEPT ![a] = Ended(calls[c].op)] /\ UNCHANGED <<writes, runs, outlived>>
    BY <1>13 DEF SaveAction, Ended
  <2>3. status'[a] = Ended(calls[c].op) /\ \A b \in Actions \ {a} : status'[b] = status[b]
    BY <2>1, <2>2 DEF ActionsTypeOK
  <2>4. \A x \in Calls \ {c}, y \in Lockable : locks[y] = x => locks'[y] = x
    BY <1>13, LocksStay DEF Work
  <2>5. calls' = [calls EXCEPT ![c] = Idle] \/ calls' = [calls EXCEPT ![c] = finishing]
    BY <1>13, GotoIsPlaced DEF SaveAction, LeaveAction, End, Places
  <2>6. /\ finishing \in CallRecords /\ finishing.at = "finish"
        /\ finishing.op = calls[c].op /\ finishing.action = a
    BY <1>4, Placed DEF Places
  <2>7. DecidedInv'
    <3>1. PICK call \in {Idle, finishing} : calls' = [calls EXCEPT ![c] = call]
      BY <2>5
    <3>2. /\ call \in CallRecords /\ call.at \notin {"write", "decide"}
          /\ call.at = "finish" => status'[call.action] = Ended(call.op)
      BY <2>3, <2>6, <3>1, IdleType
    <3>3. QED
      BY <2>1, <2>2, <2>3, <2>4, <3>1, <3>2, CallKeepsDecided DEF DecidedInv
  <2>8. Final
    BY <2>1, <2>2, <2>3
  <2>9. QED
    BY <2>7, <2>8
<1>14. ASSUME NEW c \in Calls, SaveRun(c) PROVE Goal
  <2> DEFINE r == calls[c].run
             new == IF calls[c].op = "confirm" THEN "COMPLETED" ELSE "CANCELLED"
  <2>1. /\ r \in Runs /\ runs[r] \in RunRecords /\ runs[r].action = calls[c].action
        /\ calls[c].action \notin outlived => status[calls[c].action] = Ended(calls[c].op)
    BY <1>4, <1>14, MissingAssumption
       DEF SaveRun, IsAt, WellFormed, ActionsTypeOK, DecidedInv, FinishesDecided
  <2>2. /\ runs' = [runs EXCEPT ![r] = [runs[r] EXCEPT !.status = new]]
        /\ UNCHANGED <<status, writes, outlived>>
    BY <1>14 DEF SaveRun, ActionsTypeOK
  <2>3. /\ runs'[r].action = runs[r].action /\ runs'[r].status = new
        /\ \A x \in Runs \ {r} : runs'[x] = runs[x]
    BY <2>1, <2>2 DEF ActionsTypeOK, RunRecords
  <2>4. RunTellsAction'
    <3>1. (new = "COMPLETED" => calls[c].op = "confirm") /\ (new = "CANCELLED" => calls[c].op # "confirm")
      OBVIOUS
    <3>2. QED
      BY <2>1, <2>2, <2>3, <3>1 DEF DecidedInv, RunTellsAction, Ended
  <2>5. \A x \in Calls \ {c}, y \in Lockable : locks[y] = x => locks'[y] = x
    BY <1>14, LocksStay DEF Work
  <2>6. DecidesPending' /\ FinishesDecided'
    BY <1>14, <2>2, <2>5, IdleType, CallKeepsDecided DEF SaveRun, End
  <2>7. QED
    BY <2>2, <2>4, <2>6 DEF DecidedInv
<1>15. ASSUME NEW c \in Calls, Die(c) PROVE Goal
  BY <1>3, <1>15 DEF Die
<1>16. ASSUME NEW x \in Lockable, Expire(x) PROVE Goal
  <2>1. /\ \A y \in Calls, z \in Lockable : locks[z] = y => locks'[z] = y \/ z \in outlived'
        /\ outlived \subseteq outlived'
    BY <1>16, ExpireOutlives
  <2>2. \A y \in Calls : calls[y].at \in {"write", "decide"} => calls[y].action \in Lockable
    BY DEF ActionsTypeOK, WellFormed, Lockable
  <2>3. QED
    BY <1>16, <2>1, <2>2 DEF Expire, DecidedInv, DecidesPending, FinishesDecided, RunTellsAction
<1>17. QED
  BY <1>1, <1>6, <1>7, <1>8, <1>9, <1>10, <1>11, <1>12, <1>13, <1>14, <1>15, <1>16 DEF Next, Work

----------------------------------------------------------------------------
(* One run for a key.                                                      *)

\* One call goes on and no run is made; the others keep the locks of the
\* keys they start a run for.
LEMMA CallKeepsKeys ==
  ASSUME ActionsTypeOK, KeysInv, NEW c \in Calls, Ask(c) \/ Work(c) \/ Die(c),
         NEW call \in CallRecords, calls' = [calls EXCEPT ![c] = call],
         UNCHANGED index, \A r \in Runs : runs'[r] # NoRun => runs[r] # NoRun /\ runs'[r].key = runs[r].key,
         call.at \in {"chat", "save"} /\ call.key \notin outlived
           => locks'[call.key] = c /\ index[call.key] = NULL
  PROVE  KeysInv'
<1>4. outlived' = outlived
  BY NobodyOutlives
<1>1. calls'[c] = call /\ \A x \in Calls \ {c} : calls'[x] = calls[x]
  BY DEF ActionsTypeOK
<1>2. ASSUME NEW x \in Calls \ {c}, calls[x].at \in {"chat", "save"}, calls[x].key \notin outlived
      PROVE  locks'[calls[x].key] = x
  <2>1. calls[x].key \in Lockable
    BY <1>2 DEF ActionsTypeOK, WellFormed, Lockable
  <2>2. QED
    BY <1>2, <2>1, LocksStay DEF KeysInv, StartsMissing
<1>3. QED
  BY <1>1, <1>2, <1>4 DEF KeysInv, StartsMissing, OneRunPerKey

LEMMA KeysStep ==
  ASSUME ActionsTypeOK, KeysInv, [Next]_vars
  PROVE  KeysInv'
<1>1. CASE UNCHANGED vars
  BY <1>1 DEF vars, KeysInv, StartsMissing, OneRunPerKey
<1>2. ASSUME NEW c \in Calls PROVE calls[c] \in CallRecords /\ WellFormed(calls[c], status, runs)
  BY DEF ActionsTypeOK
<1>3. ASSUME NEW c \in Calls, Work(c) \/ Die(c), calls' = [calls EXCEPT ![c] = Idle],
             UNCHANGED <<runs, index>>
      PROVE  KeysInv'
  BY <1>3, IdleType, CallKeepsKeys
<1>4. ASSUME NEW c \in Calls, NEW at \in Places \ {"save"}, Work(c), Goto(c, at), UNCHANGED <<runs, index>>,
             at = "chat" /\ calls[c].key \notin outlived
               => locks'[calls[c].key] = c /\ index[calls[c].key] = NULL
      PROVE  KeysInv'
  <2> DEFINE call == [calls[c] EXCEPT !.at = at]
  <2>1. calls' = [calls EXCEPT ![c] = call]
    BY <1>4, GotoIsPlaced
  <2>2. call \in CallRecords /\ call.at = at /\ call.key = calls[c].key
    BY <1>2, <1>4, Placed
  <2>3. QED
    BY <1>4, <2>1, <2>2, CallKeepsKeys
<1>5. ASSUME NEW c \in Calls, Ask(c) PROVE KeysInv'
  <2>1. PICK call \in CallRecords : calls' = [calls EXCEPT ![c] = call] /\ call.at \in {"key", "run", "action"}
    BY <1>5, AskedCall
  <2>2. QED
    BY <1>5, <2>1, AskedCall, CallKeepsKeys
<1>6. ASSUME NEW c \in Calls, LookUp(c) PROVE KeysInv'
  <2> DEFINE k == calls[c].key
  <2>1. k \in Keys
    BY <1>2, <1>6 DEF LookUp, IsAt, WellFormed
  <2>2. \/ End(c)
        \/ Acquire(c, k) /\ Goto(c, "chat") /\ index[k] = NULL
    BY <1>6 DEF LookUp, GiveUp
  <2>3. Acquire(c, k) => locks'[k] = c
    BY <2>1 DEF Acquire, ActionsTypeOK, Lockable
  <2>4. UNCHANGED <<runs, index>> /\ Work(c)
    BY <1>6 DEF LookUp, GiveUp, Work
  <2>5. QED
    BY <1>3, <1>4, <2>2, <2>3, <2>4 DEF End, Places
<1>7. ASSUME NEW c \in Calls, Chat(c) PROVE KeysInv'
  <2>1. UNCHANGED <<runs, index>> /\ Work(c)
    BY <1>7 DEF Chat, Work
  <2>2. CASE End(c)
    BY <1>3, <2>1, <2>2 DEF End
  <2>3. ASSUME NEW a \in Actions, calls' = [calls EXCEPT ![c].at = "save", ![c].action = a], UNCHANGED locks
        PROVE  KeysInv'
    <3> DEFINE call == [calls[c] EXCEPT !.at = "save", !.action = a]
    <3>1. calls' = [calls EXCEPT ![c] = call] /\ call \in CallRecords /\ call.key = calls[c].key
      BY <1>2, <2>3 DEF ActionsTypeOK, CallRecords, Places
    <3>2. calls[c].key \notin outlived => locks'[calls[c].key] = c /\ index[calls[c].key] = NULL
      BY <1>7, <2>3 DEF Chat, IsAt, KeysInv, StartsMissing
    <3>3. QED
      BY <2>1, <3>1, <3>2, CallKeepsKeys
  <2>4. QED
    BY <1>7, <2>2, <2>3 DEF Chat
<1>8. ASSUME NEW c \in Calls, SaveStarted(c) PROVE KeysInv'
  <2> DEFINE k == calls[c].key
  <2>1. k \in Keys /\ (k \notin outlived => locks[k] = c /\ index[k] = NULL)
    BY <1>2, <1>8 DEF SaveStarted, IsAt, WellFormed, KeysInv, StartsMissing
  <2>2. PICK r \in Runs :
          /\ runs[r] = NoRun
          /\ runs' = [runs EXCEPT ![r] = [key |-> k, action |-> calls[c].action,
                                          status |-> "WAITING_CONFIRMATION"]]
          /\ index' = [index EXCEPT ![k] = r]
    BY <1>8 DEF SaveStarted
  <2>3. calls' = [calls EXCEPT ![c] = Idle] /\ outlived' = outlived
    BY <1>8 DEF SaveStarted, End
  <2>4. OneRunPerKey'
    <3>1. k \notin outlived => \A x \in Runs : runs[x] # NoRun => runs[x].key # k
      BY <2>1, MissingAssumption DEF KeysInv, OneRunPerKey
    <3>2. \A x \in Runs : runs[x] # NoRun => runs[x].key \in Keys
      BY DEF ActionsTypeOK, RunRecords
    <3>3. /\ runs'[r].key = k /\ index'[k] = r
          /\ \A x \in Runs \ {r} : runs'[x] = runs[x]
          /\ \A i \in Keys \ {k} : index'[i] = index[i]
      BY <2>1, <2>2 DEF ActionsTypeOK
    <3>4. QED
      BY <2>3, <3>1, <3>2, <3>3 DEF KeysInv, OneRunPerKey
  <2>5. ASSUME NEW x \in Calls \ {c}, calls[x].at \in {"chat", "save"}, calls[x].key \notin outlived
        PROVE  locks'[calls[x].key] = x /\ index'[calls[x].key] = NULL
    <3>1. calls[x].key \in Keys /\ calls[x].key \in Lockable
      BY <1>2, <2>5 DEF WellFormed, Lockable
    <3>2. locks[calls[x].key] = x /\ index[calls[x].key] = NULL
      BY <2>5 DEF KeysInv, StartsMissing
    <3>3. locks'[calls[x].key] = x
      BY <1>8, <3>1, <3>2, LocksStay DEF Work
    <3>4. calls[x].key # k
      BY <2>1, <2>5, <3>2
    <3>5. QED
      BY <2>1, <2>2, <3>1, <3>2, <3>3, <3>4 DEF ActionsTypeOK
  <2>6. calls'[c].at = "none" /\ \A x \in Calls \ {c} : calls'[x] = calls[x]
    BY <2>3, IdleType DEF ActionsTypeOK
  <2>7. StartsMissing'
    BY <2>3, <2>5, <2>6 DEF StartsMissing
  <2>8. QED
    BY <2>4, <2>7 DEF KeysInv
<1>9. ASSUME NEW c \in Calls, ReadRun(c) PROVE KeysInv'
  <2>1. UNCHANGED <<runs, index>> /\ Work(c)
    BY <1>9 DEF ReadRun, GiveUp, Work
  <2>2. CASE calls' = [calls EXCEPT ![c].at = "action", ![c].action = runs[calls[c].run].action]
    <3> DEFINE call == [calls[c] EXCEPT !.at = "action", !.action = runs[calls[c].run].action]
    <3>1. calls[c].run \in Runs /\ runs[calls[c].run] \in RunRecords
      BY <1>2, <1>9, MissingAssumption DEF ReadRun, IsAt, WellFormed, ActionsTypeOK
    <3>2. call \in CallRecords /\ call.at = "action"
      <4>1. runs[calls[c].run].action \in Actions /\ calls[c] \in CallRecords
        BY <1>2, <3>1 DEF ActionsTypeOK, RunRecords
      <4>2. QED
        BY <4>1, CallNext
    <3>3. calls' = [calls EXCEPT ![c] = call]
      BY <2>2
    <3>4. QED
      BY <2>1, <3>2, <3>3, CallKeepsKeys
  <2>3. QED
    BY <1>3, <1>9, <2>1, <2>2 DEF ReadRun, GiveUp, End
<1>10. ASSUME NEW c \in Calls, ReadAction(c) \/ WriteTicket(c) \/ SaveAction(c) PROVE KeysInv'
  <2>1. UNCHANGED <<runs, index>> /\ Work(c)
    BY <1>10 DEF ReadAction, WriteTicket, SaveAction, GiveUp, Work
  <2>2. End(c) \/ Goto(c, "write") \/ Goto(c, "decide") \/ Goto(c, "finish")
    <3>1. CASE ReadAction(c)
      BY <1>2, <3>1 DEF ReadAction, GiveUp, IsAt, WellFormed
    <3>2. CASE WriteTicket(c) \/ SaveAction(c)
      BY <3>2 DEF WriteTicket, SaveAction, LeaveAction
    <3>3. QED
      BY <1>10, <3>1, <3>2
  <2>3. QED
    BY <1>3, <1>4, <2>1, <2>2 DEF End, Places
<1>11. ASSUME NEW c \in Calls, SaveRun(c) PROVE KeysInv'
  <2> DEFINE r == calls[c].run
             new == IF calls[c].op = "confirm" THEN "COMPLETED" ELSE "CANCELLED"
  <2>1. r \in Runs /\ runs[r] \in RunRecords
    BY <1>2, <1>11, MissingAssumption DEF SaveRun, IsAt, WellFormed, ActionsTypeOK
  <2>2. runs' = [runs EXCEPT ![r] = [runs[r] EXCEPT !.status = new]]
    BY <1>11 DEF SaveRun, ActionsTypeOK
  <2>3. \A x \in Runs : runs'[x] # NoRun => runs[x] # NoRun /\ runs'[x].key = runs[x].key
    BY <2>1, <2>2, MissingAssumption DEF ActionsTypeOK, RunRecords
  <2>4. QED
    BY <1>11, <2>3, IdleType, CallKeepsKeys DEF SaveRun, End, Work
<1>12. ASSUME NEW c \in Calls, Die(c) PROVE KeysInv'
  BY <1>3, <1>12 DEF Die
<1>13. ASSUME NEW x \in Lockable, Expire(x) PROVE KeysInv'
  <2>1. /\ \A y \in Calls, z \in Lockable : locks[z] = y => locks'[z] = y \/ z \in outlived'
        /\ outlived \subseteq outlived'
    BY <1>13, ExpireOutlives
  <2>2. \A y \in Calls : calls[y].at \in {"chat", "save"} => calls[y].key \in Lockable
    BY DEF ActionsTypeOK, WellFormed, Lockable
  <2>3. QED
    BY <1>13, <2>1, <2>2 DEF Expire, KeysInv, StartsMissing, OneRunPerKey
<1>14. QED
  BY <1>1, <1>5, <1>6, <1>7, <1>8, <1>9, <1>10, <1>11, <1>12, <1>13 DEF Next, Work

----------------------------------------------------------------------------
(* The theorems.                                                           *)

\* The initial state has no action, no run and no call.
LEMMA Initially == Init => WrittenInv /\ DecidedInv /\ KeysInv
<1>1. SUFFICES ASSUME Init PROVE WrittenInv /\ DecidedInv /\ KeysInv
  OBVIOUS
<1>2. /\ \A a \in Actions : status[a] = NULL
      /\ \A r \in Runs : runs[r] = NoRun
      /\ \A c \in Calls : calls[c] = Idle /\ calls[c].at = "none"
  BY <1>1, IdleType DEF Init
<1>3. ActionsTypeOK
  BY <1>1, <1>2, IdleType DEF Init, ActionsTypeOK, MaxWrites
<1>4. ExecutedWasWritten
  BY <1>2, MissingAssumption DEF ExecutedWasWritten
<1>5. QED
  BY <1>2, <1>3, <1>4 DEF WrittenInv, SavesWhatItWrote, DecidedInv, DecidesPending, FinishesDecided,
                          RunTellsAction, KeysInv, StartsMissing, OneRunPerKey

\* Records, runs and calls keep their types, and no action is called executed
\* and no run completed whose ticket was not written, whichever locks run out
\* under their holders.
THEOREM WrittenFirst == Spec => [](ActionsTypeOK /\ ExecutedWasWritten)
<1>1. Init => WrittenInv
  BY Initially
<1>2. WrittenInv /\ [Next]_vars => WrittenInv'
  BY TypeStep, WrittenStep DEF WrittenInv
<1>3. WrittenInv => ActionsTypeOK /\ ExecutedWasWritten
  BY DEF WrittenInv
<1>4. QED
  BY <1>1, <1>2, <1>3, PTL DEF Spec

\* The inductive invariant: of the actions and keys whose locks nobody
\* outlived, only the holder decides an action or starts a run for a key.
ActionsIInv == WrittenInv /\ DecidedInv /\ KeysInv

LEMMA ActionsStep ==
  ASSUME ActionsIInv, [Next]_vars
  PROVE  ActionsIInv'
BY TypeStep, WrittenStep, DecidedStep, KeysStep DEF ActionsIInv, WrittenInv

THEOREM ActionsInvariant == Spec => []ActionsIInv
<1>1. Init => ActionsIInv
  BY Initially DEF ActionsIInv
<1>2. ActionsIInv /\ [Next]_vars => ActionsIInv'
  BY ActionsStep
<1>3. QED
  BY <1>1, <1>2, PTL DEF Spec

\* Action, run and ticket tell the same, also if an action is decided around
\* its run, by two calls, or a process dies between the two records; of an
\* action whose lock a call outlived, that what is executed was written.
THEOREM RecordsAgree == Spec => []ActionsInv
<1>1. ActionsIInv => ActionsInv
  BY DEF ActionsIInv, ActionsInv, WrittenInv, DecidedInv
<1>2. QED
  BY <1>1, ActionsInvariant, PTL

\* Repeated and concurrent starts with one idempotency key make one run, if
\* none of them outlives the lock of the key.
THEOREM KeysIdentify == Spec => []OneRunPerKey
<1>1. ActionsIInv => OneRunPerKey
  BY DEF ActionsIInv, KeysInv
<1>2. QED
  BY <1>1, ActionsInvariant, PTL

\* A decided action stays as it is, and its ticket is not written again, if
\* no call outlived its lock.
THEOREM DecisionsStay == Spec => DecisionFinal
<1>1. ActionsIInv /\ [Next]_vars
        => [\A a \in Actions \ outlived : status[a] \in {"executed", "cancelled"}
              => status'[a] = status[a] /\ writes'[a] = writes[a]]_vars
  BY DecidedStep DEF ActionsIInv, WrittenInv
<1>2. QED
  BY <1>1, ActionsInvariant, PTL DEF Spec, DecisionFinal

----------------------------------------------------------------------------
(* What a step of one thread leaves to the others.                         *)

Stores == {"runs", "actions"}

\* How the locks are held by a thread that is as row says.
HoldsAs(t, row, held) ==
  /\ held["runs"] = t <=> \/ row.at \in {"chat", "save"}
                          \/ row.at \in {"decide", "change", "record"} /\ row.run # None
  /\ held["actions"] = t <=> row.at = "change"

OthersHold(t) == \A u \in Threads \ {t}, s \in Stores : lock'[s] = u <=> lock[s] = u

\* Decisions stay, a pending action is decided by whoever is inside, and a
\* run keeps its action.
StoresGrow(t) ==
  /\ \A a \in Proposals : proposal[a] \in {"executed", "cancelled"} => proposal'[a] = proposal[a]
  /\ \A a \in Proposals : proposal[a] = "pending" /\ lock["actions"] # t => proposal'[a] = "pending"
  /\ \A r \in MemoryRuns : run[r] # None => run'[r] # None /\ run'[r].action = run[r].action

Quiet == UNCHANGED <<proposal, changed, run, runOf, flow>>

LEMMA Held ==
  ASSUME ChangeInduction, NEW t \in Threads
  PROVE  /\ thread[t] \in ThreadRecords /\ WellFormedThread(thread[t])
         /\ KnownOf(thread[t], proposal, run) /\ HoldsAs(t, thread[t], lock)
BY DEF ChangeInduction, ChangeInv, ChangeTypeOK, HoldersInside, DeciderKnows, HoldsAs

LEMMA RestingKnows ==
  /\ Resting \in ThreadRecords /\ WellFormedThread(Resting)
  /\ Resting.at = "none" /\ Resting.op = "none" /\ Resting.run = None
BY DEF Resting, ThreadRecords, WellFormedThread

\* One thread moves on; the others know and hold what they did.
LEMMA ThreadMoves ==
  ASSUME ChangeInduction, NEW t \in Threads, NEW row \in ThreadRecords,
         thread' = [thread EXCEPT ![t] = row], WellFormedThread(row), KnownOf(row, proposal', run'),
         HoldsAs(t, row, lock'), OthersHold(t), StoresGrow(t)
  PROVE  /\ thread' \in [Threads -> ThreadRecords] /\ \A u \in Threads : WellFormedThread(thread'[u])
         /\ HoldersInside' /\ DeciderKnows'
<1>1. thread \in [Threads -> ThreadRecords]
  BY DEF ChangeInduction, ChangeInv, ChangeTypeOK
<1>2. /\ thread'[t] = row /\ \A u \in Threads \ {t} : thread'[u] = thread[u]
      /\ thread' \in [Threads -> ThreadRecords]
  BY <1>1
<1>3. \A u \in Threads : WellFormedThread(thread'[u])
  BY <1>2, Held
<1>4. ASSUME NEW u \in Threads
      PROVE  HoldsAs(u, thread'[u], lock')
  BY <1>2, Held DEF HoldsAs, OthersHold, Stores
<1>5. HoldersInside'
  BY <1>4 DEF HoldersInside, HoldsAs
<1>6. ASSUME NEW u \in Threads \ {t}
      PROVE  KnownOf(thread[u], proposal', run')
  <2>1. /\ thread[u] \in ThreadRecords /\ WellFormedThread(thread[u])
        /\ KnownOf(thread[u], proposal, run) /\ HoldsAs(u, thread[u], lock)
    BY Held
  <2>2. thread[u].at = "change" => lock["actions"] # t /\ thread[u].action \in Proposals
    BY <2>1 DEF HoldsAs, WellFormedThread
  <2>3. thread[u].at = "record" => thread[u].action \in Proposals
    BY <2>1 DEF WellFormedThread
  <2>4. thread[u].run # None => thread[u].run \in MemoryRuns
    BY <2>1 DEF ThreadRecords
  <2>5. thread[u].at = "change" => proposal'[thread[u].action] = "pending"
    BY <2>1, <2>2 DEF KnownOf, StoresGrow
  <2>6. thread[u].at = "record" => proposal'[thread[u].action] = proposal[thread[u].action]
    BY <2>1, <2>3 DEF KnownOf, StoresGrow
  <2>7. thread[u].run # None =>
          run'[thread[u].run] # None /\ run'[thread[u].run].action = run[thread[u].run].action
    BY <2>1, <2>4 DEF KnownOf, StoresGrow
  <2>8. QED
    BY <2>1, <2>5, <2>6, <2>7 DEF KnownOf
<1>7. DeciderKnows'
  BY <1>2, <1>6 DEF DeciderKnows
<1>8. QED
  BY <1>2, <1>3, <1>5, <1>7

\* A step that writes no store and no checkpoint.
LEMMA QuietStep ==
  ASSUME ChangeInduction, NEW t \in Threads, NEW row \in ThreadRecords, Quiet,
         thread' = [thread EXCEPT ![t] = row], WellFormedThread(row), KnownOf(row, proposal, run),
         lock' \in [Stores -> Threads \cup {None}], HoldsAs(t, row, lock'), OthersHold(t)
  PROVE  ChangeInduction'
<1>1. StoresGrow(t)
  BY DEF StoresGrow, Quiet
<1>2. KnownOf(row, proposal', run')
  BY DEF Quiet
<1>3. /\ thread' \in [Threads -> ThreadRecords] /\ \A u \in Threads : WellFormedThread(thread'[u])
      /\ HoldersInside' /\ DeciderKnows'
  BY <1>1, <1>2, ThreadMoves
<1>4. ChangeTypeOK'
  BY <1>3 DEF ChangeInduction, ChangeInv, ChangeTypeOK, Quiet, Stores
<1>5. ChangedAsDecided' /\ ShownAsDecided'
  BY DEF ChangeInduction, ChangeInv, ChangedAsDecided, ShownAsDecided, Quiet
<1>6. QED
  BY <1>3, <1>4, <1>5 DEF ChangeInduction, ChangeInv

----------------------------------------------------------------------------
(* The locks.                                                              *)

LEMMA LockKept ==
  ASSUME ChangeInduction, NEW t \in Threads, UNCHANGED lock
  PROVE  lock' \in [Stores -> Threads \cup {None}] /\ OthersHold(t)
BY DEF ChangeInduction, ChangeInv, ChangeTypeOK, OthersHold, Stores

LEMMA LockTaken ==
  ASSUME ChangeInduction, NEW t \in Threads, NEW s \in Stores, lock[s] = None, lock' = [lock EXCEPT ![s] = t]
  PROVE  /\ lock' \in [Stores -> Threads \cup {None}] /\ OthersHold(t)
         /\ lock'[s] = t /\ \A x \in Stores \ {s} : lock'[x] = lock[x]
BY NoneAssumption DEF ChangeInduction, ChangeInv, ChangeTypeOK, OthersHold, Stores

LEMMA LockLeft ==
  ASSUME ChangeInduction, NEW t \in Threads, NEW S, Leave(t, S)
  PROVE  /\ lock' \in [Stores -> Threads \cup {None}] /\ OthersHold(t)
         /\ \A s \in Stores : /\ s \in S => lock'[s] # t
                              /\ s \notin S => lock'[s] = lock[s]
BY NoneAssumption DEF ChangeInduction, ChangeInv, ChangeTypeOK, OthersHold, Leave, Stores

LEMMA Answered ==
  ASSUME ChangeInduction, NEW t \in Threads, Answer(t)
  PROVE  /\ thread' = [thread EXCEPT ![t] = Resting] /\ lock' \in [Stores -> Threads \cup {None}]
         /\ OthersHold(t) /\ HoldsAs(t, Resting, lock')
<1>1. thread' = [thread EXCEPT ![t] = Resting] /\ Leave(t, Stores)
  BY DEF Answer, Stores
<1>2. lock' \in [Stores -> Threads \cup {None}] /\ OthersHold(t) /\ \A s \in Stores : lock'[s] # t
  BY <1>1, LockLeft
<1>3. HoldsAs(t, Resting, lock')
  BY <1>2, RestingKnows DEF HoldsAs, Stores
<1>4. QED
  BY <1>1, <1>2, <1>3

LEMMA RestingKnown ==
  ASSUME NEW states, NEW rows
  PROVE  KnownOf(Resting, states, rows)
BY RestingKnows DEF KnownOf

LEMMA QuietAnswer ==
  ASSUME ChangeInduction, NEW t \in Threads, Answer(t), Quiet
  PROVE  ChangeInduction'
BY Answered, RestingKnows, RestingKnown, QuietStep

\* The row of a thread that takes a step.
LEMMA Stepped ==
  ASSUME ChangeInduction, NEW t \in Threads,
         NEW at \in {"none", "enter", "chat", "save", "decide", "change", "record",
                    "propose", "await", "approve"}
  PROVE  LET row == [thread[t] EXCEPT !.at = at]
         IN  /\ row \in ThreadRecords /\ row.at = at /\ row.op = thread[t].op /\ row.key = thread[t].key
             /\ row.run = thread[t].run /\ row.flow = thread[t].flow /\ row.action = thread[t].action
             /\ Step(t, at) => thread' = [thread EXCEPT ![t] = row]
<1>1. thread[t] \in ThreadRecords
  BY Held
<1>2. [thread[t] EXCEPT !.at = at] \in ThreadRecords
  BY <1>1 DEF ThreadRecords
<1>3. QED
  BY <1>1, <1>2 DEF ThreadRecords, Step

----------------------------------------------------------------------------
(* The run store.                                                          *)

LEMMA RequestStep ==
  ASSUME ChangeInduction, NEW t \in Threads, Request(t)
  PROVE  ChangeInduction'
<1>1. thread[t] = Resting /\ Quiet /\ lock' = lock
  BY DEF Request, Quiet
<1>2. /\ lock' \in [Stores -> Threads \cup {None}] /\ OthersHold(t)
  BY <1>1, LockKept
<1>3. HoldsAs(t, Resting, lock)
  BY <1>1, Held
<1>4. ASSUME NEW row \in ThreadRecords, thread' = [thread EXCEPT ![t] = row], row.at = "enter",
             WellFormedThread(row), row.run # None => run[row.run] # None
      PROVE  ChangeInduction'
  <2>1. HoldsAs(t, row, lock')
    BY <1>1, <1>3, <1>4, RestingKnows DEF HoldsAs
  <2>2. KnownOf(row, proposal, run)
    BY <1>4 DEF KnownOf
  <2>3. QED
    BY <1>1, <1>2, <1>4, <2>1, <2>2, QuietStep
<1>5. ASSUME NEW k \in MemoryKeys,
             thread' = [thread EXCEPT ![t] = [Resting EXCEPT !.op = "start", !.at = "enter", !.key = k]]
      PROVE  ChangeInduction'
  <2> DEFINE row == [Resting EXCEPT !.op = "start", !.at = "enter", !.key = k]
  <2>1. row \in ThreadRecords /\ row.at = "enter" /\ row.op = "start" /\ row.key = k /\ row.run = None
    BY DEF Resting, ThreadRecords
  <2>2. WellFormedThread(row)
    BY <2>1 DEF WellFormedThread
  <2>3. QED
    BY <1>4, <1>5, <2>1, <2>2
<1>6. ASSUME NEW r \in {x \in MemoryRuns : run[x] # None}, NEW op \in {"confirm", "cancel"},
             thread' = [thread EXCEPT ![t] = [Resting EXCEPT !.op = op, !.at = "enter", !.run = r]]
      PROVE  ChangeInduction'
  <2> DEFINE row == [Resting EXCEPT !.op = op, !.at = "enter", !.run = r]
  <2>1. row \in ThreadRecords /\ row.at = "enter" /\ row.op = op /\ row.run = r
    BY DEF Resting, ThreadRecords
  <2>2. WellFormedThread(row)
    BY <2>1 DEF WellFormedThread
  <2>3. QED
    BY <1>4, <1>6, <2>1, <2>2
<1>7. QED
  BY <1>5, <1>6 DEF Request

LEMMA EnterRunsStep ==
  ASSUME ChangeInduction, NEW t \in Threads, EnterRuns(t)
  PROVE  ChangeInduction'
<1>1. In(t, "enter") /\ lock["runs"] = None /\ Quiet
  BY DEF EnterRuns, Quiet
<1>2. /\ thread[t] \in ThreadRecords /\ WellFormedThread(thread[t])
      /\ KnownOf(thread[t], proposal, run) /\ HoldsAs(t, thread[t], lock)
  BY Held
<1>3. CASE Answer(t)
  BY <1>1, <1>3, QuietAnswer
<1>4. ASSUME NEW row \in ThreadRecords, thread' = [thread EXCEPT ![t] = row], WellFormedThread(row),
             KnownOf(row, proposal, run), lock' = [lock EXCEPT !["runs"] = t],
             \/ row.at = "chat"
             \/ row.at = "decide" /\ row.run # None
      PROVE  ChangeInduction'
  <2>1. /\ lock' \in [Stores -> Threads \cup {None}] /\ OthersHold(t)
        /\ lock'["runs"] = t /\ lock'["actions"] = lock["actions"]
    BY <1>1, <1>4, LockTaken DEF Stores
  <2>2. lock["actions"] # t
    BY <1>1, <1>2 DEF HoldsAs, In
  <2>3. HoldsAs(t, row, lock')
    BY <1>4, <2>1, <2>2 DEF HoldsAs
  <2>4. QED
    BY <1>1, <1>4, <2>1, <2>3, QuietStep
<1>5. CASE thread[t].op = "start" /\ Step(t, "chat") /\ lock' = [lock EXCEPT !["runs"] = t]
  <2> DEFINE row == [thread[t] EXCEPT !.at = "chat"]
  <2>1. /\ row \in ThreadRecords /\ row.at = "chat" /\ row.key = thread[t].key /\ row.run = thread[t].run
        /\ thread' = [thread EXCEPT ![t] = row]
    BY <1>5, Stepped
  <2>2. row.key \in MemoryKeys /\ row.run = None
    BY <1>1, <1>2, <1>5, <2>1 DEF In, WellFormedThread
  <2>3. WellFormedThread(row) /\ KnownOf(row, proposal, run)
    BY <2>1, <2>2 DEF WellFormedThread, KnownOf
  <2>4. QED
    BY <1>4, <1>5, <2>1, <2>3
<1>6. ASSUME thread[t].op # "start",
             LET r == run[thread[t].run]
             IN  /\ r.action # None
                 /\ thread' = [thread EXCEPT ![t].at = "decide", ![t].action = r.action]
                 /\ lock' = [lock EXCEPT !["runs"] = t]
      PROVE  ChangeInduction'
  <2> DEFINE r == run[thread[t].run]
             row == [thread[t] EXCEPT !.at = "decide", !.action = r.action]
  <2>1. thread[t].op \in {"confirm", "cancel"} /\ thread[t].run \in MemoryRuns
    BY <1>1, <1>2, <1>6 DEF In, WellFormedThread
  <2>2. thread[t].run # None /\ r # None
    BY <1>2, <2>1, NoneAssumption DEF KnownOf
  <2>3. run \in [MemoryRuns -> MemoryRunRecords \cup {None}]
    BY DEF ChangeInduction, ChangeInv, ChangeTypeOK
  <2>4. r \in MemoryRunRecords
    BY <2>1, <2>2, <2>3
  <2>5. r.action \in Proposals
    BY <1>6, <2>4 DEF MemoryRunRecords
  <2>6. row \in ThreadRecords
    BY <1>2, <2>5 DEF ThreadRecords
  <2>7. row.at = "decide" /\ row.action = r.action /\ row.run = thread[t].run /\ row.op = thread[t].op
    BY <1>2 DEF ThreadRecords
  <2>8. thread' = [thread EXCEPT ![t] = row]
    BY <1>2, <1>6 DEF ThreadRecords
  <2>9. WellFormedThread(row)
    BY <2>1, <2>2, <2>5, <2>7 DEF WellFormedThread
  <2>10. KnownOf(row, proposal, run)
    BY <2>2, <2>7 DEF KnownOf
  <2>11. QED
    BY <1>4, <1>6, <2>2, <2>6, <2>7, <2>8, <2>9, <2>10
<1>7. QED
  BY <1>3, <1>5, <1>6 DEF EnterRuns, KnownRun

\* A proposal is new: no decision and no pending action changes.
LEMMA ProposesStep ==
  ASSUME ChangeInduction, NEW a \in Proposals, Proposes(a), UNCHANGED <<changed, run, runOf, flow>>
  PROVE  /\ \A t \in Threads : StoresGrow(t)
         /\ proposal' \in [Proposals -> {"none", "pending", "executed", "cancelled"}]
         /\ ChangedAsDecided' /\ ShownAsDecided'
<1>1. /\ proposal \in [Proposals -> {"none", "pending", "executed", "cancelled"}]
      /\ proposal[a] = "none" /\ proposal' = [proposal EXCEPT ![a] = "pending"]
  BY DEF ChangeInduction, ChangeInv, ChangeTypeOK, Proposes
<1>2. /\ proposal'[a] = "pending" /\ \A b \in Proposals \ {a} : proposal'[b] = proposal[b]
      /\ proposal' \in [Proposals -> {"none", "pending", "executed", "cancelled"}]
  BY <1>1
<1>3. \A t \in Threads : StoresGrow(t)
  BY <1>1, <1>2 DEF StoresGrow
<1>4. ChangedAsDecided'
  BY <1>1, <1>2 DEF ChangeInduction, ChangeInv, ChangedAsDecided
<1>5. ShownAsDecided'
  <2>1. \A b : proposal[b] = "executed" => b # a
    BY <1>1
  <2>2. \A b : proposal[b] = "cancelled" => b # a
    BY <1>1
  <2>3. ShownAsDecided
    BY DEF ChangeInduction, ChangeInv
  <2>4. \A r \in MemoryRuns : run[r] # None /\ run[r].action # None => run[r].action \in Proposals
    BY DEF ChangeInduction, ChangeInv, ChangeTypeOK, MemoryRunRecords
  <2>5. \A f \in Flows : flow[f].status \in {"COMPLETED", "CANCELLED"} => flow[f].action \in Proposals
    BY DEF ChangeInduction, ChangeInv, ChangeTypeOK, NotStarted
  <2>6. QED
    BY <1>2, <2>1, <2>2, <2>3, <2>4, <2>5 DEF ShownAsDecided
<1>6. QED
  BY <1>2, <1>3, <1>4, <1>5

\* One more step that changes stores: the types, what the stores say
\* together, and what the threads know.
LEMMA StoreStep ==
  ASSUME ChangeInduction, NEW t \in Threads, NEW row \in ThreadRecords,
         thread' = [thread EXCEPT ![t] = row], WellFormedThread(row), KnownOf(row, proposal', run'),
         lock' \in [Stores -> Threads \cup {None}], HoldsAs(t, row, lock'), OthersHold(t), StoresGrow(t),
         proposal' \in [Proposals -> {"none", "pending", "executed", "cancelled"}],
         changed' \in [Proposals -> 0 .. 2],
         run' \in [MemoryRuns -> MemoryRunRecords \cup {None}],
         runOf' \in [MemoryKeys -> MemoryRuns \cup {None}],
         flow' \in [Flows -> FlowRecords],
         \A f \in Flows : flow'[f] = NotStarted \/ flow'[f].action \in Proposals,
         ChangedAsDecided', ShownAsDecided'
  PROVE  ChangeInduction'
<1>1. /\ thread' \in [Threads -> ThreadRecords] /\ \A u \in Threads : WellFormedThread(thread'[u])
      /\ HoldersInside' /\ DeciderKnows'
  BY ThreadMoves
<1>2. ChangeTypeOK'
  BY <1>1 DEF ChangeTypeOK, Stores, NotStarted
<1>3. QED
  BY <1>1, <1>2 DEF ChangeInduction, ChangeInv

LEMMA StoreTypes ==
  ASSUME ChangeInduction
  PROVE  /\ proposal \in [Proposals -> {"none", "pending", "executed", "cancelled"}]
         /\ changed \in [Proposals -> 0 .. 2]
         /\ run \in [MemoryRuns -> MemoryRunRecords \cup {None}]
         /\ runOf \in [MemoryKeys -> MemoryRuns \cup {None}]
         /\ flow \in [Flows -> FlowRecords]
         /\ \A f \in Flows : flow[f] = NotStarted \/ flow[f].action \in Proposals
         /\ ChangedAsDecided /\ ShownAsDecided
BY DEF ChangeInduction, ChangeInv, ChangeTypeOK

LEMMA RunChatStep ==
  ASSUME ChangeInduction, NEW t \in Threads, RunChat(t)
  PROVE  ChangeInduction'
<1>1. In(t, "chat") /\ UNCHANGED <<changed, run, runOf, flow>>
  BY DEF RunChat
<1>2. /\ thread[t] \in ThreadRecords /\ WellFormedThread(thread[t]) /\ HoldsAs(t, thread[t], lock)
  BY Held
<1>3. thread[t].key \in MemoryKeys /\ thread[t].run = None /\ lock["runs"] = t /\ lock["actions"] # t
  BY <1>1, <1>2 DEF In, WellFormedThread, HoldsAs
<1>4. CASE Answer(t) /\ UNCHANGED proposal
  BY <1>1, <1>4, QuietAnswer DEF Quiet
<1>5. ASSUME NEW row \in ThreadRecords, row.at = "save", row.key = thread[t].key, row.run = thread[t].run
      PROVE  /\ WellFormedThread(row) /\ HoldsAs(t, row, lock)
             /\ \A states, rows : KnownOf(row, states, rows)
  BY <1>3, <1>5 DEF WellFormedThread, HoldsAs, KnownOf
<1>6. CASE Step(t, "save") /\ UNCHANGED <<proposal, lock>>
  <2> DEFINE row == [thread[t] EXCEPT !.at = "save"]
  <2>1. /\ row \in ThreadRecords /\ row.at = "save" /\ row.key = thread[t].key /\ row.run = thread[t].run
        /\ thread' = [thread EXCEPT ![t] = row]
    BY <1>6, Stepped
  <2> HIDE DEF row
  <2>2. WellFormedThread(row) /\ HoldsAs(t, row, lock) /\ KnownOf(row, proposal, run)
    BY <1>5, <2>1
  <2>3. QED
    BY <1>1, <1>6, <2>1, <2>2, LockKept, QuietStep DEF Quiet
<1>7. ASSUME NEW a \in Proposals, Proposes(a), UNCHANGED lock,
             thread' = [thread EXCEPT ![t].at = "save", ![t].action = a]
      PROVE  ChangeInduction'
  <2> DEFINE row == [thread[t] EXCEPT !.at = "save", !.action = a]
  <2>1. row \in ThreadRecords
    BY <1>2 DEF ThreadRecords
  <2>2. row.at = "save" /\ row.key = thread[t].key /\ row.run = thread[t].run
    BY <1>2 DEF ThreadRecords
  <2>3. thread' = [thread EXCEPT ![t] = row]
    BY <1>2, <1>7 DEF ThreadRecords
  <2> HIDE DEF row
  <2>4. WellFormedThread(row) /\ HoldsAs(t, row, lock') /\ KnownOf(row, proposal', run')
    BY <1>5, <1>7, <2>1, <2>2
  <2>5. /\ StoresGrow(t) /\ ChangedAsDecided' /\ ShownAsDecided'
        /\ proposal' \in [Proposals -> {"none", "pending", "executed", "cancelled"}]
    BY <1>1, <1>7, ProposesStep
  <2>6. lock' \in [Stores -> Threads \cup {None}] /\ OthersHold(t)
    BY <1>7, LockKept
  <2>7. QED
    BY <1>1, <2>1, <2>3, <2>4, <2>5, <2>6, StoreTypes, StoreStep
<1>8. QED
  BY <1>4, <1>6, <1>7 DEF RunChat

LEMMA SaveNewRunStep ==
  ASSUME ChangeInduction, NEW t \in Threads, SaveNewRun(t)
  PROVE  ChangeInduction'
<1>1. In(t, "save") /\ Answer(t) /\ UNCHANGED <<proposal, changed, flow>>
  BY DEF SaveNewRun
<1>2. /\ thread[t] \in ThreadRecords /\ WellFormedThread(thread[t])
  BY Held
<1>3. CASE UNCHANGED <<run, runOf>>
  BY <1>1, <1>3, QuietAnswer DEF Quiet
<1>4. ASSUME NEW r \in MemoryRuns, run[r] = None,
             run' = [run EXCEPT ![r] = [action |-> thread[t].action,
               status |-> IF thread[t].action = None THEN "COMPLETED" ELSE "WAITING_CONFIRMATION"]],
             runOf' = [runOf EXCEPT ![thread[t].key] = r]
      PROVE  ChangeInduction'
  <2> DEFINE new == [action |-> thread[t].action,
                     status |-> IF thread[t].action = None THEN "COMPLETED" ELSE "WAITING_CONFIRMATION"]
  <2>1. new \in MemoryRunRecords
    BY <1>2 DEF ThreadRecords, MemoryRunRecords
  <2>2. new.action # None => new.status = "WAITING_CONFIRMATION"
    OBVIOUS
  <2> HIDE DEF new
  <2>3. /\ run'[r] = new /\ \A x \in MemoryRuns \ {r} : run'[x] = run[x]
        /\ run' \in [MemoryRuns -> MemoryRunRecords \cup {None}]
    BY <1>4, <2>1, StoreTypes DEF new
  <2>4. runOf' \in [MemoryKeys -> MemoryRuns \cup {None}]
    BY <1>4, StoreTypes
  <2>5. StoresGrow(t)
    BY <1>1, <1>4, <2>3 DEF StoresGrow
  <2>6. ChangedAsDecided'
    BY <1>1, StoreTypes DEF ChangedAsDecided
  <2>7. ShownAsDecided'
    BY <1>1, <2>2, <2>3, StoreTypes DEF ShownAsDecided
  <2>8. KnownOf(Resting, proposal', run')
    BY RestingKnown
  <2>9. /\ thread' = [thread EXCEPT ![t] = Resting] /\ lock' \in [Stores -> Threads \cup {None}]
        /\ OthersHold(t) /\ HoldsAs(t, Resting, lock')
    BY <1>1, Answered
  <2>10. QED
    BY <1>1, <2>3, <2>4, <2>5, <2>6, <2>7, <2>8, <2>9, RestingKnows, StoreTypes, StoreStep
<1>5. QED
  BY <1>3, <1>4 DEF SaveNewRun

----------------------------------------------------------------------------
(* The action store.                                                       *)

LEMMA EnterActionsStep ==
  ASSUME ChangeInduction, NEW t \in Threads, EnterActions(t)
  PROVE  ChangeInduction'
<1> DEFINE decided == IF thread[t].op = "confirm" THEN "executed" ELSE "cancelled"
           a == thread[t].action
<1>1. In(t, "decide") /\ lock["actions"] = None /\ Quiet
  BY DEF EnterActions, Quiet
<1>2. /\ thread[t] \in ThreadRecords /\ WellFormedThread(thread[t])
      /\ KnownOf(thread[t], proposal, run) /\ HoldsAs(t, thread[t], lock)
  BY Held
<1>3. /\ a \in Proposals /\ thread[t].op \in {"confirm", "cancel"}
      /\ thread[t].run # None \/ thread[t].flow # None
  BY <1>1, <1>2 DEF In, WellFormedThread
<1>4. CASE Answer(t)
  BY <1>1, <1>4, QuietAnswer
<1>5. CASE proposal[a] = "pending" /\ Step(t, "change") /\ lock' = [lock EXCEPT !["actions"] = t]
  <2> DEFINE row == [thread[t] EXCEPT !.at = "change"]
  <2>1. /\ row \in ThreadRecords /\ row.at = "change" /\ row.op = thread[t].op /\ row.run = thread[t].run
        /\ row.flow = thread[t].flow /\ row.action = a /\ thread' = [thread EXCEPT ![t] = row]
    BY <1>5, Stepped
  <2> HIDE DEF row
  <2>2. WellFormedThread(row)
    BY <1>3, <2>1 DEF WellFormedThread
  <2>3. KnownOf(row, proposal, run)
    BY <1>1, <1>2, <1>5, <2>1 DEF KnownOf, In
  <2>4. /\ lock' \in [Stores -> Threads \cup {None}] /\ OthersHold(t)
        /\ lock'["actions"] = t /\ lock'["runs"] = lock["runs"]
    BY <1>1, <1>5, LockTaken DEF Stores
  <2>5. HoldsAs(t, row, lock')
    BY <1>1, <1>2, <2>1, <2>4 DEF HoldsAs, In
  <2>6. QED
    BY <1>1, <2>1, <2>2, <2>3, <2>4, <2>5, QuietStep
<1>6. CASE proposal[a] = decided /\ Step(t, "record") /\ UNCHANGED lock
  <2> DEFINE row == [thread[t] EXCEPT !.at = "record"]
  <2>1. /\ row \in ThreadRecords /\ row.at = "record" /\ row.op = thread[t].op /\ row.run = thread[t].run
        /\ row.flow = thread[t].flow /\ row.action = a /\ thread' = [thread EXCEPT ![t] = row]
    BY <1>6, Stepped
  <2> HIDE DEF row
  <2>2. WellFormedThread(row)
    BY <1>3, <2>1 DEF WellFormedThread
  <2>3. KnownOf(row, proposal, run)
    BY <1>1, <1>2, <1>6, <2>1 DEF KnownOf, In
  <2>4. HoldsAs(t, row, lock')
    BY <1>1, <1>2, <1>6, <2>1 DEF HoldsAs, In
  <2>5. QED
    BY <1>1, <1>6, <2>1, <2>2, <2>3, <2>4, LockKept, QuietStep
<1>7. QED
  BY <1>4, <1>5, <1>6 DEF EnterActions

LEMMA ChangeStep ==
  ASSUME ChangeInduction, NEW t \in Threads, Change(t)
  PROVE  ChangeInduction'
<1> DEFINE a == thread[t].action
           decided == IF thread[t].op = "confirm" THEN "executed" ELSE "cancelled"
<1>1. In(t, "change") /\ UNCHANGED <<run, runOf, flow>>
  BY DEF Change
<1>2. /\ thread[t] \in ThreadRecords /\ WellFormedThread(thread[t])
      /\ KnownOf(thread[t], proposal, run) /\ HoldsAs(t, thread[t], lock)
  BY Held
<1>3. /\ a \in Proposals /\ thread[t].op \in {"confirm", "cancel"} /\ proposal[a] = "pending"
      /\ lock["actions"] = t
      /\ thread[t].run # None \/ thread[t].flow # None
  BY <1>1, <1>2 DEF In, WellFormedThread, KnownOf, HoldsAs
<1>4. CASE Answer(t) /\ UNCHANGED <<proposal, changed>>
  BY <1>1, <1>4, QuietAnswer DEF Quiet
<1>5. ASSUME proposal' = [proposal EXCEPT ![a] = decided],
             changed' = [changed EXCEPT ![a] = IF thread[t].op = "confirm" /\ @ < 2 THEN @ + 1 ELSE @],
             Step(t, "record"), Leave(t, {"actions"})
      PROVE  ChangeInduction'
  <2> DEFINE row == [thread[t] EXCEPT !.at = "record"]
  <2>1. /\ row \in ThreadRecords /\ row.at = "record" /\ row.op = thread[t].op /\ row.run = thread[t].run
        /\ row.flow = thread[t].flow /\ row.action = a /\ thread' = [thread EXCEPT ![t] = row]
    BY <1>5, Stepped
  <2> HIDE DEF row
  <2>2. /\ proposal'[a] = decided /\ \A b \in Proposals \ {a} : proposal'[b] = proposal[b]
        /\ proposal' \in [Proposals -> {"none", "pending", "executed", "cancelled"}]
    BY <1>3, <1>5, StoreTypes
  <2>3. changed[a] = 0
    BY <1>3, StoreTypes DEF ChangedAsDecided
  <2>4. /\ changed'[a] = IF thread[t].op = "confirm" THEN 1 ELSE 0
        /\ \A b \in Proposals \ {a} : changed'[b] = changed[b]
        /\ changed' \in [Proposals -> 0 .. 2]
    BY <1>3, <1>5, <2>3, StoreTypes
  <2>5. StoresGrow(t)
    BY <1>1, <1>3, <2>2 DEF StoresGrow
  <2>6. ChangedAsDecided'
    BY <1>3, <2>2, <2>4, StoreTypes DEF ChangedAsDecided
  <2>7. ShownAsDecided'
    BY <1>1, <1>3, <2>2, StoreTypes DEF ShownAsDecided, NotStarted, MemoryRunRecords
  <2>8. WellFormedThread(row)
    BY <1>3, <2>1 DEF WellFormedThread
  <2>9. KnownOf(row, proposal', run')
    BY <1>1, <1>2, <2>1, <2>2 DEF KnownOf, In
  <2>10. /\ lock' \in [Stores -> Threads \cup {None}] /\ OthersHold(t)
         /\ lock'["actions"] # t /\ lock'["runs"] = lock["runs"]
    BY <1>5, LockLeft DEF Stores
  <2>11. HoldsAs(t, row, lock')
    BY <1>1, <1>2, <2>1, <2>10 DEF HoldsAs, In
  <2>12. QED
    BY <1>1, <2>1, <2>2, <2>4, <2>5, <2>6, <2>7, <2>8, <2>9, <2>10, <2>11, StoreTypes, StoreStep
<1>6. QED
  BY <1>4, <1>5 DEF Change

LEMMA RecordStep ==
  ASSUME ChangeInduction, NEW t \in Threads, Record(t)
  PROVE  ChangeInduction'
<1> DEFINE ended == IF thread[t].op = "confirm" THEN "COMPLETED" ELSE "CANCELLED"
           a == thread[t].action
<1>1. In(t, "record") /\ Answer(t) /\ UNCHANGED <<proposal, changed, runOf>>
  BY DEF Record
<1>2. /\ thread[t] \in ThreadRecords /\ WellFormedThread(thread[t]) /\ KnownOf(thread[t], proposal, run)
  BY Held
<1>3. /\ a \in Proposals
      /\ ended = "COMPLETED" => proposal[a] = "executed"
      /\ ended = "CANCELLED" => proposal[a] = "cancelled"
  BY <1>1, <1>2 DEF In, WellFormedThread, KnownOf
<1>4. /\ thread' = [thread EXCEPT ![t] = Resting] /\ lock' \in [Stores -> Threads \cup {None}]
      /\ OthersHold(t) /\ HoldsAs(t, Resting, lock')
  BY <1>1, Answered
<1>5. ChangedAsDecided'
  BY <1>1, StoreTypes DEF ChangedAsDecided
<1>6. ASSUME thread[t].run # None, run' = [run EXCEPT ![thread[t].run].status = ended], UNCHANGED flow
      PROVE  ChangeInduction'
  <2> DEFINE r == thread[t].run
             new == [run[r] EXCEPT !.status = ended]
  <2>1. r \in MemoryRuns /\ run[r] # None /\ run[r].action = a
    BY <1>1, <1>2, <1>6 DEF ThreadRecords, KnownOf, In
  <2>2. run[r] \in MemoryRunRecords
    BY <2>1, StoreTypes
  <2>3. new \in MemoryRunRecords /\ new.action = a /\ new.status = ended
    BY <2>1, <2>2 DEF MemoryRunRecords
  <2>4. run' = [run EXCEPT ![r] = new]
    BY <1>6
  <2> HIDE DEF new
  <2>5. /\ run'[r] = new /\ \A x \in MemoryRuns \ {r} : run'[x] = run[x]
        /\ run' \in [MemoryRuns -> MemoryRunRecords \cup {None}]
    BY <2>1, <2>3, <2>4, StoreTypes
  <2>6. StoresGrow(t)
    BY <1>1, <2>1, <2>3, <2>5, NoneAssumption DEF StoresGrow
  <2>7. ShownAsDecided'
    <3>1. ASSUME NEW x \in MemoryRuns, run'[x] # None, run'[x].action # None
          PROVE  /\ run'[x].status = "COMPLETED" => proposal[run'[x].action] = "executed"
                 /\ run'[x].status = "CANCELLED" => proposal[run'[x].action] = "cancelled"
      <4>1. CASE x = r
        BY <1>3, <2>3, <2>5, <4>1
      <4>2. CASE x # r
        BY <2>5, <3>1, <4>2, StoreTypes DEF ShownAsDecided
      <4>3. QED
        BY <4>1, <4>2
    <3>2. \A f \in Flows : /\ flow[f].status = "COMPLETED" => proposal[flow[f].action] = "executed"
                           /\ flow[f].status = "CANCELLED" => proposal[flow[f].action] = "cancelled"
      BY StoreTypes DEF ShownAsDecided
    <3>3. QED
      BY <1>1, <1>6, <3>1, <3>2 DEF ShownAsDecided
  <2>8. QED
    BY <1>1, <1>4, <1>5, <1>6, <2>5, <2>6, <2>7, RestingKnows, RestingKnown, StoreTypes, StoreStep
<1>7. ASSUME thread[t].flow # None,
             flow' = [flow EXCEPT ![thread[t].flow] = [action |-> a, next |-> "end", status |-> ended]],
             UNCHANGED run
      PROVE  ChangeInduction'
  <2> DEFINE f == thread[t].flow
             new == [action |-> a, next |-> "end", status |-> ended]
  <2>1. f \in Flows
    BY <1>2, <1>7 DEF ThreadRecords
  <2>2. new \in FlowRecords /\ new.action = a /\ new.status = ended
    BY <1>3 DEF FlowRecords
  <2> HIDE DEF new
  <2>3. /\ flow'[f] = new /\ \A x \in Flows \ {f} : flow'[x] = flow[x]
        /\ flow' \in [Flows -> FlowRecords]
    BY <1>7, <2>1, <2>2, StoreTypes DEF new
  <2>4. \A x \in Flows : flow'[x] = NotStarted \/ flow'[x].action \in Proposals
    BY <1>3, <2>2, <2>3, StoreTypes
  <2>5. StoresGrow(t)
    BY <1>1, <1>7 DEF StoresGrow
  <2>6. ShownAsDecided'
    BY <1>1, <1>3, <1>7, <2>2, <2>3, StoreTypes DEF ShownAsDecided
  <2>7. QED
    BY <1>1, <1>4, <1>5, <1>7, <2>3, <2>4, <2>5, <2>6, RestingKnows, RestingKnown, StoreTypes, StoreStep
<1>8. QED
  BY <1>6, <1>7 DEF Record

----------------------------------------------------------------------------
(* The workflows.                                                          *)

\* A request that begins holds nothing.
LEMMA RestingHoldsNothing ==
  ASSUME ChangeInduction, NEW t \in Threads, thread[t] = Resting
  PROVE  lock["runs"] # t /\ lock["actions"] # t
BY Held, RestingKnows DEF HoldsAs

LEMMA StartFlowStep ==
  ASSUME ChangeInduction, NEW t \in Threads, StartFlow(t)
  PROVE  ChangeInduction'
<1>1. thread[t] = Resting /\ UNCHANGED <<proposal, changed, run, runOf, lock>>
  BY DEF StartFlow
<1>2. PICK f \in Flows :
        /\ flow' = [flow EXCEPT ![f].next = "start"]
        /\ thread' = [thread EXCEPT ![t] = [Resting EXCEPT !.op = "start", !.at = "propose", !.flow = f]]
  BY DEF StartFlow
<1> DEFINE row == [Resting EXCEPT !.op = "start", !.at = "propose", !.flow = f]
           new == [flow[f] EXCEPT !.next = "start"]
<1>3. row \in ThreadRecords /\ row.at = "propose" /\ row.flow = f /\ row.run = None
  BY DEF Resting, ThreadRecords
<1>4. thread' = [thread EXCEPT ![t] = row]
  BY <1>2
<1>5. new \in FlowRecords /\ new.action = flow[f].action /\ new.status = flow[f].status
  BY StoreTypes DEF FlowRecords
<1>6. flow[f] = NotStarted => new = NotStarted
  BY DEF NotStarted
<1>7. /\ flow'[f] = new /\ \A x \in Flows \ {f} : flow'[x] = flow[x]
      /\ flow' \in [Flows -> FlowRecords]
  <2>1. flow' = [flow EXCEPT ![f] = new]
    BY <1>2
  <2> HIDE DEF new
  <2>2. QED
    BY <1>5, <2>1, StoreTypes
<1> HIDE DEF row, new
<1>8. \A x \in Flows : flow'[x] = NotStarted \/ flow'[x].action \in Proposals
  BY <1>5, <1>6, <1>7, StoreTypes
<1>9. \A x \in Flows : flow'[x].action = flow[x].action /\ flow'[x].status = flow[x].status
  BY <1>5, <1>7
<1>10. StoresGrow(t) /\ ChangedAsDecided'
  BY <1>1, StoreTypes DEF StoresGrow, ChangedAsDecided
<1>11. ShownAsDecided'
  BY <1>1, <1>9, StoreTypes DEF ShownAsDecided
<1>12. WellFormedThread(row) /\ KnownOf(row, proposal', run')
  BY <1>3 DEF WellFormedThread, KnownOf
<1>13. HoldsAs(t, row, lock')
  BY <1>1, <1>3, RestingHoldsNothing DEF HoldsAs
<1>14. lock' \in [Stores -> Threads \cup {None}] /\ OthersHold(t)
  BY <1>1, LockKept
<1>15. QED
  BY <1>1, <1>3, <1>4, <1>7, <1>8, <1>10, <1>11, <1>12, <1>13, <1>14, StoreTypes, StoreStep

LEMMA ProposeFlowStep ==
  ASSUME ChangeInduction, NEW t \in Threads, ProposeFlow(t)
  PROVE  ChangeInduction'
<1>1. In(t, "propose") /\ UNCHANGED <<changed, run, runOf, flow>>
  BY DEF ProposeFlow
<1>2. /\ thread[t] \in ThreadRecords /\ WellFormedThread(thread[t]) /\ HoldsAs(t, thread[t], lock)
  BY Held
<1>3. thread[t].flow \in Flows /\ thread[t].run = None /\ lock["runs"] # t /\ lock["actions"] # t
  BY <1>1, <1>2 DEF In, WellFormedThread, HoldsAs
<1>4. CASE Answer(t) /\ UNCHANGED proposal
  BY <1>1, <1>4, QuietAnswer DEF Quiet
<1>5. ASSUME NEW a \in Proposals, Proposes(a), UNCHANGED lock,
             thread' = [thread EXCEPT ![t].at = "await", ![t].action = a]
      PROVE  ChangeInduction'
  <2> DEFINE row == [thread[t] EXCEPT !.at = "await", !.action = a]
  <2>1. /\ row \in ThreadRecords /\ row.at = "await" /\ row.flow = thread[t].flow
        /\ row.action = a /\ row.run = None
    BY <1>2, <1>3 DEF ThreadRecords
  <2>2. thread' = [thread EXCEPT ![t] = row]
    BY <1>2, <1>5 DEF ThreadRecords
  <2> HIDE DEF row
  <2>3. WellFormedThread(row) /\ KnownOf(row, proposal', run')
    BY <1>3, <2>1 DEF WellFormedThread, KnownOf
  <2>4. HoldsAs(t, row, lock')
    BY <1>3, <1>5, <2>1 DEF HoldsAs
  <2>5. /\ StoresGrow(t) /\ ChangedAsDecided' /\ ShownAsDecided'
        /\ proposal' \in [Proposals -> {"none", "pending", "executed", "cancelled"}]
    BY <1>1, <1>5, ProposesStep
  <2>6. lock' \in [Stores -> Threads \cup {None}] /\ OthersHold(t)
    BY <1>5, LockKept
  <2>7. QED
    BY <1>1, <2>1, <2>2, <2>3, <2>4, <2>5, <2>6, StoreTypes, StoreStep
<1>6. QED
  BY <1>4, <1>5 DEF ProposeFlow

\* A checkpoint of a workflow that was not decided yet.
LEMMA CheckpointStep ==
  ASSUME ChangeInduction, NEW t \in Threads, NEW f \in Flows, NEW new \in FlowRecords,
         flow' = [flow EXCEPT ![f] = new], new.action \in Proposals, new.status = "WAITING_CONFIRMATION",
         UNCHANGED <<proposal, changed, run, runOf>>,
         NEW row \in ThreadRecords, thread' = [thread EXCEPT ![t] = row],
         WellFormedThread(row), KnownOf(row, proposal, run),
         lock' \in [Stores -> Threads \cup {None}], HoldsAs(t, row, lock'), OthersHold(t)
  PROVE  ChangeInduction'
<1>1. /\ flow'[f] = new /\ \A x \in Flows \ {f} : flow'[x] = flow[x]
      /\ flow' \in [Flows -> FlowRecords]
  BY StoreTypes
<1>2. \A x \in Flows : flow'[x] = NotStarted \/ flow'[x].action \in Proposals
  BY <1>1, StoreTypes
<1>3. StoresGrow(t)
  BY DEF StoresGrow
<1>4. ChangedAsDecided'
  BY StoreTypes DEF ChangedAsDecided
<1>5. ShownAsDecided'
  BY <1>1, StoreTypes DEF ShownAsDecided
<1>6. QED
  BY <1>1, <1>2, <1>3, <1>4, <1>5, StoreTypes, StoreStep

LEMMA AwaitApprovalStep ==
  ASSUME ChangeInduction, NEW t \in Threads, AwaitApproval(t)
  PROVE  ChangeInduction'
<1> DEFINE new == [action |-> thread[t].action, next |-> "await_approval", status |-> "WAITING_CONFIRMATION"]
<1>1. /\ In(t, "await") /\ Answer(t) /\ flow' = [flow EXCEPT ![thread[t].flow] = new]
      /\ UNCHANGED <<proposal, changed, run, runOf>>
  BY DEF AwaitApproval
<1>2. thread[t].flow \in Flows /\ thread[t].action \in Proposals
  BY <1>1, Held DEF In, WellFormedThread
<1>3. new \in FlowRecords /\ new.action \in Proposals /\ new.status = "WAITING_CONFIRMATION"
  BY <1>2 DEF FlowRecords
<1> HIDE DEF new
<1>4. QED
  BY <1>1, <1>2, <1>3, Answered, RestingKnows, RestingKnown, CheckpointStep

LEMMA ResumeFlowStep ==
  ASSUME ChangeInduction, NEW t \in Threads, ResumeFlow(t)
  PROVE  ChangeInduction'
<1>1. thread[t] = Resting /\ Quiet /\ lock' = lock
  BY DEF ResumeFlow, Quiet
<1>2. PICK f \in Flows, op \in {"confirm", "cancel"} :
        thread' = [thread EXCEPT ![t] = [Resting EXCEPT !.op = op, !.at = "load", !.flow = f]]
  BY DEF ResumeFlow
<1> DEFINE row == [Resting EXCEPT !.op = op, !.at = "load", !.flow = f]
<1>3. row \in ThreadRecords /\ row.at = "load" /\ row.op = op /\ row.flow = f /\ row.run = None
  BY DEF Resting, ThreadRecords
<1>4. thread' = [thread EXCEPT ![t] = row]
  BY <1>2
<1> HIDE DEF row
<1>5. WellFormedThread(row) /\ KnownOf(row, proposal, run)
  BY <1>3 DEF WellFormedThread, KnownOf
<1>6. HoldsAs(t, row, lock')
  BY <1>1, <1>3, RestingHoldsNothing DEF HoldsAs
<1>7. QED
  BY <1>1, <1>3, <1>4, <1>5, <1>6, LockKept, QuietStep

LEMMA LoadFlowStep ==
  ASSUME ChangeInduction, NEW t \in Threads, LoadFlow(t)
  PROVE  ChangeInduction'
<1> DEFINE saved == flow[thread[t].flow]
<1>1. In(t, "load") /\ Quiet
  BY DEF LoadFlow, Quiet
<1>2. /\ thread[t] \in ThreadRecords /\ thread[t].flow \in Flows /\ thread[t].run = None
      /\ thread[t].op \in {"confirm", "cancel"} /\ lock["runs"] # t /\ lock["actions"] # t
  BY <1>1, Held DEF In, WellFormedThread, HoldsAs
<1>3. thread[t].flow # None
  BY <1>2, NoneAssumption
<1>4. saved.next # "start" => saved.action \in Proposals
  BY <1>2, StoreTypes DEF NotStarted
<1>5. ASSUME NEW row \in ThreadRecords, thread' = [thread EXCEPT ![t] = row], UNCHANGED lock,
             row.run = None, row.flow = thread[t].flow,
             \/ row.at = "propose"
             \/ row.at \in {"approve", "decide"} /\ row.op \in {"confirm", "cancel"} /\ row.action \in Proposals
      PROVE  ChangeInduction'
  <2>1. WellFormedThread(row) /\ KnownOf(row, proposal, run)
    BY <1>2, <1>3, <1>5 DEF WellFormedThread, KnownOf
  <2>2. HoldsAs(t, row, lock')
    BY <1>2, <1>5 DEF HoldsAs
  <2>3. QED
    BY <1>1, <1>5, <2>1, <2>2, LockKept, QuietStep
<1>6. CASE saved.next = "await_approval"
  <2> DEFINE row == [thread[t] EXCEPT !.at = "approve", !.action = saved.action]
  <2>1. thread' = [thread EXCEPT ![t].at = "approve", ![t].action = saved.action] /\ lock' = lock
    BY <1>6 DEF LoadFlow
  <2>2. /\ row \in ThreadRecords /\ row.at = "approve" /\ row.op = thread[t].op
        /\ row.action = saved.action /\ row.run = None /\ row.flow = thread[t].flow
    BY <1>2, <1>4, <1>6 DEF ThreadRecords
  <2>3. thread' = [thread EXCEPT ![t] = row]
    BY <1>2, <2>1 DEF ThreadRecords
  <2> HIDE DEF row
  <2>4. QED
    BY <1>2, <1>4, <1>5, <1>6, <2>1, <2>2, <2>3
<1>7. CASE saved.next \in {"confirm", "cancel"}
  <2> DEFINE row == [thread[t] EXCEPT !.at = "decide", !.op = saved.next, !.action = saved.action]
  <2>1. /\ thread' = [thread EXCEPT ![t].at = "decide", ![t].op = saved.next, ![t].action = saved.action]
        /\ lock' = lock
    BY <1>7 DEF LoadFlow
  <2>2. /\ row \in ThreadRecords /\ row.at = "decide" /\ row.op = saved.next
        /\ row.action = saved.action /\ row.run = None /\ row.flow = thread[t].flow
    BY <1>2, <1>4, <1>7 DEF ThreadRecords
  <2>3. thread' = [thread EXCEPT ![t] = row]
    BY <1>2, <2>1 DEF ThreadRecords
  <2> HIDE DEF row
  <2>4. QED
    BY <1>4, <1>5, <1>7, <2>1, <2>2, <2>3
<1>8. CASE saved.next = "start"
  <2> DEFINE row == [thread[t] EXCEPT !.at = "propose"]
  <2>1. Step(t, "propose") /\ lock' = lock
    BY <1>8 DEF LoadFlow
  <2>2. /\ row \in ThreadRecords /\ row.at = "propose" /\ row.run = None /\ row.flow = thread[t].flow
        /\ thread' = [thread EXCEPT ![t] = row]
    BY <1>2, <2>1, Stepped
  <2> HIDE DEF row
  <2>3. QED
    BY <1>5, <2>1, <2>2
<1>9. CASE saved.next = "end"
  <2>1. Answer(t)
    BY <1>9 DEF LoadFlow
  <2>2. QED
    BY <1>1, <2>1, QuietAnswer
<1>10. saved.next \in {"start", "await_approval", "confirm", "cancel", "end"}
  BY <1>2, StoreTypes DEF FlowRecords
<1>11. QED
  BY <1>6, <1>7, <1>8, <1>9, <1>10

LEMMA ApprovedStep ==
  ASSUME ChangeInduction, NEW t \in Threads, Approved(t)
  PROVE  ChangeInduction'
<1> DEFINE new == [action |-> thread[t].action, next |-> thread[t].op, status |-> "WAITING_CONFIRMATION"]
           row == [thread[t] EXCEPT !.at = "decide"]
<1>1. /\ In(t, "approve") /\ Step(t, "decide") /\ flow' = [flow EXCEPT ![thread[t].flow] = new]
      /\ UNCHANGED <<proposal, changed, run, runOf, lock>>
  BY DEF Approved
<1>2. /\ thread[t].flow \in Flows /\ thread[t].action \in Proposals /\ thread[t].run = None
      /\ thread[t].op \in {"confirm", "cancel"} /\ HoldsAs(t, thread[t], lock)
  BY <1>1, Held DEF In, WellFormedThread
<1>3. new \in FlowRecords /\ new.action \in Proposals /\ new.status = "WAITING_CONFIRMATION"
  BY <1>2 DEF FlowRecords
<1>4. /\ row \in ThreadRecords /\ row.at = "decide" /\ row.op = thread[t].op /\ row.run = None
      /\ row.flow = thread[t].flow /\ row.action = thread[t].action
      /\ thread' = [thread EXCEPT ![t] = row]
  BY <1>1, <1>2, Stepped
<1> HIDE DEF new, row
<1>5. WellFormedThread(row) /\ KnownOf(row, proposal, run)
  <2>1. row.flow # None
    BY <1>2, <1>4, NoneAssumption
  <2>2. QED
    BY <1>2, <1>4, <2>1 DEF WellFormedThread, KnownOf
<1>6. HoldsAs(t, row, lock')
  BY <1>1, <1>2, <1>4 DEF HoldsAs, In
<1>7. QED
  BY <1>1, <1>2, <1>3, <1>4, <1>5, <1>6, LockKept, CheckpointStep

----------------------------------------------------------------------------
(* The theorems.                                                           *)

LEMMA ChangeStart ==
  ASSUME ChangeInit
  PROVE  ChangeInduction
<1>1. /\ \A t \in Threads : thread[t] = Resting
      /\ \A r \in MemoryRuns : run[r] = None
      /\ \A f \in Flows : flow[f] = NotStarted
  BY DEF ChangeInit
<1>2. ChangeTypeOK
  <2>1. NotStarted \in FlowRecords
    BY DEF NotStarted, FlowRecords
  <2>2. QED
    BY <1>1, <2>1, RestingKnows DEF ChangeInit, ChangeTypeOK
<1>3. ChangedAsDecided
  BY DEF ChangeInit, ChangedAsDecided
<1>4. ShownAsDecided
  BY <1>1 DEF ShownAsDecided, NotStarted
<1>5. HoldersInside
  BY <1>1, RestingKnows, NoneAssumption DEF ChangeInit, HoldersInside
<1>6. DeciderKnows
  BY <1>1, RestingKnown DEF DeciderKnows
<1>7. QED
  BY <1>2, <1>3, <1>4, <1>5, <1>6 DEF ChangeInduction, ChangeInv

LEMMA ChangeNextStep ==
  ASSUME ChangeInduction, [ChangeNext]_changeVars
  PROVE  ChangeInduction'
<1>1. CASE UNCHANGED changeVars
  BY <1>1 DEF changeVars, ChangeInduction, ChangeInv, ChangeTypeOK, ChangedAsDecided, ShownAsDecided,
              HoldersInside, DeciderKnows
<1>2. ASSUME NEW t \in Threads, Serve(t)
      PROVE  ChangeInduction'
  BY <1>2, EnterRunsStep, RunChatStep, SaveNewRunStep, EnterActionsStep, ChangeStep, RecordStep,
     ProposeFlowStep, AwaitApprovalStep, LoadFlowStep, ApprovedStep DEF Serve
<1>3. QED
  BY <1>1, <1>2, RequestStep, StartFlowStep, ResumeFlowStep DEF ChangeNext

\* The inductive invariant: besides what the stores say together, what every
\* request that decides knows of its action while it is inside the action
\* store and after it left (PendingActionStore, AgentRunStore).
THEOREM ChangeInvariant == ChangeSpec => []ChangeInduction
<1>1. ChangeInit => ChangeInduction
  BY ChangeStart
<1>2. ChangeInduction /\ [ChangeNext]_changeVars => ChangeInduction'
  BY ChangeNextStep
<1>3. QED
  BY <1>1, <1>2, PTL DEF ChangeSpec

\* However many threads decide the same actions through runs and workflows, a
\* ticket is changed once and only for an executed action, runs and workflows
\* show only decisions that the action store knows, and the locks are held
\* exactly by the requests inside.
THEOREM MemoryAgrees == ChangeSpec => []ChangeInv
<1>1. ChangeInduction => ChangeInv
  BY DEF ChangeInduction
<1>2. QED
  BY <1>1, ChangeInvariant, PTL

\* What the next step of a request waits for is at most the lock of the store
\* it enters, and it has something to be recorded in.
CanGoOn(t) ==
  /\ thread[t].at # "none"
  /\ thread[t].at = "enter" => lock["runs"] = None
  /\ thread[t].at = "decide" => lock["actions"] = None
  /\ thread[t].at = "record" => thread[t].run # None \/ thread[t].flow # None

\* The two locks are never waited for in a circle: as long as a request is
\* being served, whoever holds the inner lock can go on, or else whoever holds
\* the outer one, or else all can (PendingActionStore inside AgentRunStore);
\* for any number of threads, runs and actions.
THEOREM LocksFormNoCircle ==
  ChangeSpec => []((\E t \in Threads : thread[t].at # "none") => \E t \in Threads : CanGoOn(t))
<1>1. ASSUME ChangeInduction, NEW t \in Threads, thread[t].at # "none"
      PROVE  \E u \in Threads : CanGoOn(u)
  <2>1. \A u \in Threads : thread[u].at = "record" => thread[u].run # None \/ thread[u].flow # None
    BY <1>1 DEF ChangeInduction, ChangeInv, ChangeTypeOK, WellFormedThread
  <2>2. lock["runs"] \in Threads \cup {None} /\ lock["actions"] \in Threads \cup {None}
    BY <1>1 DEF ChangeInduction, ChangeInv, ChangeTypeOK
  <2>3. HoldersInside
    BY <1>1 DEF ChangeInduction, ChangeInv
  <2>4. CASE lock["actions"] # None
    <3>1. PICK u \in Threads : lock["actions"] = u
      BY <2>2, <2>4
    <3>2. thread[u].at = "change"
      BY <2>3, <3>1 DEF HoldersInside
    <3>3. QED
      BY <3>2 DEF CanGoOn
  <2>5. CASE lock["actions"] = None /\ lock["runs"] # None
    <3>1. PICK u \in Threads : lock["runs"] = u
      BY <2>2, <2>5
    <3>2. thread[u].at \in {"chat", "save", "decide", "change", "record"}
      BY <2>3, <3>1 DEF HoldersInside
    <3>3. QED
      BY <2>1, <2>5, <3>2 DEF CanGoOn
  <2>6. CASE lock["actions"] = None /\ lock["runs"] = None
    BY <1>1, <2>1, <2>6 DEF CanGoOn
  <2>7. QED
    BY <2>4, <2>5, <2>6
<1>2. ChangeInduction => ((\E t \in Threads : thread[t].at # "none") => \E t \in Threads : CanGoOn(t))
  BY <1>1
<1>3. QED
  BY <1>2, ChangeInvariant, PTL
=============================================================================
