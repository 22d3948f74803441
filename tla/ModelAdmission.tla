--------------------------- MODULE ModelAdmission ---------------------------
(***************************************************************************)
(* One request to the model, from a worker of the deployment: the context  *)
(* is prepared, a place in the shared window of Redis is taken, the HTTP   *)
(* request is sent, and a transient failure is retried with everything of  *)
(* it again (retry_policy.py, preview_tool_call.py, ollama_gateway.py,     *)
(* model_rate_limit.py).  Workers share nothing but the counter.           *)
(***************************************************************************)
EXTENDS Naturals

CONSTANTS
  Workers,
  Limit,             \* MODEL_RATE_LIMIT_REQUESTS
  MaxAttempts        \* DEFAULT_MAX_ATTEMPTS

ASSUME AdmissionAssumption == Limit \in Nat \ {0} /\ MaxAttempts \in Nat \ {0}

VARIABLES
  config,     \* the provider, and whether the admission is off, on or broken
  counter,    \* the key in Redis: count, and whether it has an expiry
  worker,     \* where the worker's model turn is, and the index of its attempt
  telemetry,  \* ModelRequestTelemetry of the turn
  sent,       \* HTTP requests the turn has really sent
  admitted,   \* places the turn has been given
  granted     \* places given since the window opened

admissionVars == <<config, counter, worker, telemetry, sent, admitted, granted>>

Attempts == IF config.provider = "ollama" THEN 1 ELSE MaxAttempts

NoCounter == [count |-> 0, expires |-> FALSE]
NoTelemetry == [attempts |-> 0, retries |-> 0]
Over == {"idle", "answered", "failed"}

Goes(w, at) == worker' = [worker EXCEPT ![w].at = at]

\* Seeded fault: every attempt counts as a retry.
CountsRetries(w) ==
  telemetry' = [telemetry EXCEPT ![w] = [attempts |-> @.attempts + 1, retries |-> @.retries + 1]]

\* The finally clause of an attempt that was, or might have been, sent.
Counts(w) ==
  telemetry' = [telemetry EXCEPT ![w] =
    [attempts |-> @.attempts + 1, retries |-> @.retries + (IF worker[w].attempt > 0 THEN 1 ELSE 0)]]

BeginTurn(w) ==
  /\ worker[w].at \in Over
  /\ worker' = [worker EXCEPT ![w] = [at |-> "prepare", attempt |-> 0]]
  /\ telemetry' = [telemetry EXCEPT ![w] = NoTelemetry]
  /\ sent' = [sent EXCEPT ![w] = 0]
  /\ admitted' = [admitted EXCEPT ![w] = 0]
  /\ UNCHANGED <<config, counter, granted>>

\* prepare_context fits the window or refuses, which counts as no attempt.
Prepare(w) ==
  /\ worker[w].at = "prepare"
  /\ Goes(w, "acquire") \/ Goes(w, "failed")
  /\ UNCHANGED <<config, counter, telemetry, sent, admitted, granted>>

\* A message that has no form for the provider is an error like one of the
\* answer, and counts like one.
Unconvertible(w) ==
  /\ worker[w].at = "prepare"
  /\ Goes(w, "failed") /\ Counts(w)
  /\ UNCHANGED <<config, counter, sent, admitted, granted>>

\* Seeded fault: the count is compared after it was raised past the limit.
AdmitsOneMore == counter.count <= Limit

Admits == counter.count < Limit

\* Seeded fault: the expiry is a second call, by whoever opened the window.
CountedInTwoCalls ==
  \E second \in BOOLEAN :
    counter' = [count |-> counter.count + 1,
                expires |-> counter.expires \/ (counter.count = 0 /\ second)]

\* ACQUIRE_SCRIPT counts and gives the key its expiry in one step.
Counted == counter' = [count |-> counter.count + 1, expires |-> TRUE]

\* Admitted; admitted, but the answer does not arrive; refused; Redis is not
\* there.
Acquire(w) ==
  /\ worker[w].at = "acquire"
  /\ config.admission = "on"
  /\ \/ /\ Admits
        /\ Counted
        /\ granted' = granted + 1
        /\ admitted' = [admitted EXCEPT ![w] = @ + 1]
        /\ Goes(w, "send")
     \/ /\ Admits
        /\ Counted
        /\ Goes(w, "failed") /\ UNCHANGED <<granted, admitted>>
     \/ /\ ~Admits
        /\ counter' = [counter EXCEPT !.expires = TRUE]
        /\ Goes(w, "failed") /\ UNCHANGED <<granted, admitted>>
     \/ Goes(w, "failed") /\ UNCHANGED <<counter, granted, admitted>>
  /\ UNCHANGED <<config, telemetry, sent>>

\* Without a limit there is nothing to ask; a limit without Redis refuses.
NoAdmission(w) ==
  /\ worker[w].at = "acquire"
  /\ config.admission # "on"
  /\ Goes(w, IF config.admission = "off" THEN "send" ELSE "failed")
  /\ UNCHANGED <<config, counter, telemetry, sent, admitted, granted>>

\* Seeded fault: the next attempt sends with the place of the first.
NextAttemptSends(w) == worker' = [worker EXCEPT ![w] = [at |-> "send", attempt |-> @.attempt + 1]]

\* Every attempt prepares and is admitted on its own.
NextAttempt(w) == worker' = [worker EXCEPT ![w] = [at |-> "prepare", attempt |-> @.attempt + 1]]

\* What comes of a request: a message; an error of the status, the context or
\* the form of the answer; or one that may pass.
Outcomes == {"answered", "rejected", "transient"}

Send(w) ==
  /\ worker[w].at = "send"
  /\ sent' = [sent EXCEPT ![w] = @ + 1]
  /\ Counts(w)
  /\ \E outcome \in Outcomes :
       IF outcome = "answered" THEN Goes(w, "answered")
       ELSE IF outcome = "transient" /\ worker[w].attempt < Attempts - 1 THEN NextAttempt(w)
       ELSE Goes(w, "failed")
  /\ UNCHANGED <<config, counter, admitted, granted>>

\* The window ends.
WindowEnds ==
  /\ counter.expires
  /\ counter' = NoCounter
  /\ granted' = 0
  /\ UNCHANGED <<config, worker, telemetry, sent, admitted>>

\* The process of a worker dies and comes back.
WorkerDies(w) ==
  /\ worker[w].at \notin Over
  /\ Goes(w, "idle")
  /\ telemetry' = [telemetry EXCEPT ![w] = NoTelemetry]
  /\ sent' = [sent EXCEPT ![w] = 0]
  /\ admitted' = [admitted EXCEPT ![w] = 0]
  /\ UNCHANGED <<config, counter, granted>>

AdmissionInit ==
  /\ config \in [provider : {"zhipu", "ollama"}, admission : {"off", "on", "broken"}]
  /\ counter = NoCounter
  /\ worker = [w \in Workers |-> [at |-> "idle", attempt |-> 0]]
  /\ telemetry = [w \in Workers |-> NoTelemetry]
  /\ sent = [w \in Workers |-> 0]
  /\ admitted = [w \in Workers |-> 0]
  /\ granted = 0

AdmissionNext ==
  \/ \E w \in Workers :
       \/ BeginTurn(w) \/ Prepare(w) \/ Unconvertible(w) \/ Acquire(w)
       \/ NoAdmission(w) \/ Send(w) \/ WorkerDies(w)
  \/ WindowEnds

AdmissionSpec == AdmissionInit /\ [][AdmissionNext]_admissionVars

----------------------------------------------------------------------------
(* Correctness.                                                            *)

\* model_rate_limit.py, ACQUIRE_SCRIPT: all workers together are given at most
\* Limit places in a window, and a place whose answer was lost stays taken:
\* the counter never tells less than was given.
QuotaPerWindow == granted <= counter.count /\ counter.count <= Limit

\* A counter without an expiry would refuse every model request from then on.
\* No order of lost answers, crashes and ends of windows leaves one behind.
CounterExpires == counter.count > 0 => counter.expires

\* acquire_model_request: every HTTP attempt, a retry like the first, has
\* taken a place of its own.
EveryAttemptAdmitted ==
  \A w \in Workers : config.admission # "off" => sent[w] <= admitted[w]

\* request_message_with_retry: "every HTTP request that was sent must be
\* counted", a refused place must not; only an error before the request that
\* looks like one of it is counted in addition, and it ends the turn.
TelemetryTrue ==
  \A w \in Workers :
    /\ telemetry[w].attempts >= sent[w]
    /\ telemetry[w].attempts > sent[w] =>
         worker[w].at = "failed" /\ telemetry[w].attempts = sent[w] + 1
    /\ telemetry[w].retries = IF telemetry[w].attempts = 0 THEN 0 ELSE telemetry[w].attempts - 1
    /\ telemetry[w].attempts <= Attempts

\* The invariant of the admission: quota, counter and telemetry are right
\* whichever step of an attempt fails.
AdmissionInv ==
  /\ QuotaPerWindow
  /\ CounterExpires
  /\ EveryAttemptAdmitted
  /\ TelemetryTrue

----------------------------------------------------------------------------
(* Why: the inductive invariant behind the properties.                     *)

WorkerRecords == [at : Over \cup {"prepare", "acquire", "send"}, attempt : Nat]
TelemetryRecords == [attempts : Nat, retries : Nat]

AdmissionTypeOK ==
  /\ config \in [provider : {"zhipu", "ollama"}, admission : {"off", "on", "broken"}]
  /\ counter \in [count : Nat, expires : BOOLEAN]
  /\ worker \in [Workers -> WorkerRecords]
  /\ telemetry \in [Workers -> TelemetryRecords]
  /\ sent \in [Workers -> Nat] /\ admitted \in [Workers -> Nat]
  /\ granted \in Nat

\* How the numbers of a turn fit the place it has reached: inside it every
\* attempt so far was sent and counted, and the one that is sent next has a
\* place that no other has used.
TurnHolds(row, told, out, given) ==
  /\ config.admission # "off" => out <= given /\ (row.at = "send" => out < given)
  /\ row.at \notin Over =>
       told.attempts = row.attempt /\ out = row.attempt /\ row.attempt < Attempts
  /\ told.attempts >= out
  /\ told.attempts > out => row.at = "failed" /\ told.attempts = out + 1
  /\ told.retries = IF told.attempts = 0 THEN 0 ELSE told.attempts - 1
  /\ told.attempts <= Attempts

AdmissionInduction ==
  /\ AdmissionTypeOK /\ QuotaPerWindow /\ CounterExpires
  /\ \A w \in Workers : TurnHolds(worker[w], telemetry[w], sent[w], admitted[w])
=============================================================================
