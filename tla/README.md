# OpsPilot in TLA+

OpsPilot answers after-sales questions in a customer portal and lets a customer
apply for a return. Models talk; a business service decides. This directory
holds TLA+ models of the parts where something is decided, stored, retried or
confirmed, their model-checking configurations, and proofs that what is promised of
a return, of the conversations and the portal around it, of confirmed actions and
approved documents, and of what the assistant asks and answers, holds for any number of them.

1. [The system](#1-the-system)
2. [The modules](#2-the-modules)
3. [What each run shows](#3-what-each-run-shows)
4. [Bounds](#4-bounds)
5. [Fairness](#5-fairness)
6. [What is proved](#6-what-is-proved)
7. [What is only model-checked](#7-what-is-only-model-checked)
8. [Disagreements between the code and its documents](#8-disagreements-between-the-code-and-its-documents)
9. [What is not modelled](#9-what-is-not-modelled)
10. [Plan](#10-plan)

## 1. The system

```
 browser -- portal_api ---- portal_store ---------- PostgreSQL (turns, accounts)
              |   \-------- vision_service -------- vision model
              v
          agent_graph ----- model_runtime --------- chat model
              |   |  \----- checkpoints ----------- Redis
              |   \-------- knowledge base -------- PostgreSQL + pgvector
              v
      return_draft_client (HTTP, signed, 2 s)
              v
      business-service (Java, several instances) -- PostgreSQL (orders, drafts, applications)

 /agent-runs, /chat -- redis_checkpoint_store ----- Redis (actions, runs, locks)
                              \-- ticket_repository - PostgreSQL (tickets)
```

| component | state it keeps | operations that change it | what is hard about it | what makes it correct |
|---|---|---|---|---|
| return rules (`ReturnEligibilityService`, `ReturnReviewService`, the two Python clients) | none | – | nine categories, three-valued facts, two windows, a chain of early returns whose order matters | the documented decision table; unknown facts go to a person; clients accept what the service may answer |
| return drafts (`ReturnDraftService`, stores, controller) | `return_drafts` (one row per order), `return_applications` | start, submit a reason, confirm, cancel, refresh | retries of lost answers, two windows of one customer, the order or its policy corrected by the shop, the end of the hour | one application per order, for exactly the content shown, confirmed within its hour; a receipt is always the application there is |
| agent graph, return workflow (`agent_graph.py`) | a LangGraph checkpoint per `thread_id` | start, reason, resume with yes or no, refresh | the answer of the service may be lost, late or never read because the process died; several conversations share a draft | nothing is confirmed that the customer did not see; what a conversation was told stays true; a receipt can always be recovered |
| portal conversations (`portal_api.py`, `portal_store.py`) | `portal_turns`, `portal_conversations.active_turn_id` | send, act, sync, recovery of picture tasks | work is done between two transactions under a claim that a dead process leaves behind; late answers; two stores (history and checkpoint) | one operation at a time; the history says what the checkpoint says; a claim is given back; a verdict is final |
| pending actions (`redis_checkpoint_store.py`) | action and run records, idempotency index, locks with a time to live | start, confirm and cancel of a run or of an action | every operation is a series of calls to two stores; the process may die between any two | a decision is final; run and action agree; one run per idempotency key; "executed" was written |
| documents (`knowledge_base.py`, `pgvector_store.py`) | `document_review_queue`, `documents`, `knowledge_chunks`, receipts; or the same in memory | upload, approve pages | chunks are embedded between reading and the transaction; several reviewers; embedding may fail in the middle | search finds exactly what was approved; one way in per document; a document is searchable as a whole |
| ingestion (`document_ingestion.py`, `document_chunker.py`) | none | – | sizes, overlaps, headings and page ends meet | no text is lost between chunks, no chunk is under a heading that is not its own, doubtful pages go to a person |
| retrieval (`hybrid_search.py`, `pgvector_store.py`, rerankers) | none | – | two rankings, two implementations, ties and limits | only admissible chunks; the two stores agree; a score belongs to its text |
| evidence (`evidence_support.py`, `evidence_review.py`) | none | – | clauses without a subject, a model that may answer anything, one budget for retries and correction | no fact borrowed from another topic; nothing unreviewed is quoted |
| portal accounts (`portal_auth.py`, `portal_store.py`) | accounts, sessions, login attempts | login, logout, register, enable, disable, new password | a slow password check between two transactions; two administrators at once; a window of attempts that ends while one is counted | an administrator remains; a dead session stays dead; guesses are bounded |
| conversations and pictures (`portal_store.py`) | `portal_conversations`, `portal_images` | create, upload | quotas, and a reused row that changes while it is waited for | quotas hold; nothing that was used is handed out as new, but for a picture that races with it |
| tool loop (`agent_graph.py`, `agent_task_contract.py`) | messages and trace of a run | model call, tool call, approval of a change | a live model may reply anything; limits of steps and reminders meet | bounded requests; joint answers are about the order asked for; no own words over an empty search |
| model admission (`model_rate_limit.py`, `retry_policy.py`) | a counter per window in Redis | admit, send, retry | counter and expiry, lost answers that were counted, failures at three places | the quota holds; a counter always expires; telemetry is true |
| pending actions in memory, priority change graph | two dictionaries with a lock each, a checkpoint per thread | start, confirm, cancel; propose, answer | a lock inside another one; two answers to one workflow | the ticket is what the action says; nobody is stuck |
| conversation context (`conversation_context.py`, `model_context.py`) | none | – | one budget for three stages, and a window that tool results fill afterwards | the budget is kept, other orders stay out, the least important goes first |
| evaluation, vision service, static pages, wiring | none of their own | – | – | not modelled, see section 9 |

How they interact. The portal calls the agent graph in process and keeps only
what the graph returned; the graph calls the business service over HTTP, one
call per node, and Redis keeps its checkpoints; the business service is the
only place where an application can come to exist. The browser repeats
requests, opens several windows and keeps pages that are out of date.

The hazards worth a model are listed in `PROJECT.json` with the line where each
bites and the properties that would catch it.

## 2. The modules

```
 the return                          the portal            other actions and documents
 ReturnRules <- ReturnDraft <- AgentReturn   PortalTurn        PendingActions   DocumentReview
                 |   \            | RunsLive    | EXTENDS       PriorityChange   KnowledgeIngest
                 |    \           +--> AgentRun <+              ToolLoop         Chunker
      ReturnPromise  ReturnDraft_proofs      PortalAccounts    ModelAdmission   Retrieval -> Ordering
      ReturnTx (the store's statements)      PortalShelf       LegacyAgents     EvidenceGate
                                                               ContextBudget -> EvidenceReview
                                                                 -> Ordering
```

**ReturnRules** translates the pure rules. Days are integers, nullable Booleans
are `"yes"`, `"no"`, `"unknown"`, and the SHA-256 fingerprint of a policy is the
policy record itself: equal exactly when the facts are. `DraftClientAccepts` and
`ReviewClientAccepts` are the two validators of Java's answer that exist on the
Python side.

**ReturnDraft** is the service. `drafts`, `applications` are the tables;
`orders`, `policies` and `now` belong to the environment, because no code of the
repository changes an order that exists. Each public method is one action
(`Start`, `Submit`, `Confirm`, `Cancel`, `Refresh`), a refused call changes
nothing, and `StartOutcome` … `RefreshOutcome` name the refusal in the order of
the checks. The transactions are serial: the in-memory store is one monitor, and
for one order the row locks of the PostgreSQL store have the same effect; what is left at READ COMMITTED is ReturnTx. `offers` and
`receipts` are history variables: the snapshots draft ids stood for, and the
applications callers were given. The initial states include drafts from before
migration V4, which have no policy fingerprint. The code looks at the clock more than
once in a call. That matters in `Confirm`, which looks whether the hour is over, may then wait for
the row of the policy, and dates the application with a second look: its step may leave a
later time behind (`now' \in now..MaxNow`), so an application may be dated after the hour it was
confirmed in, by as long as it waited; the code has no bound for that. (That a call of another order, served meanwhile,
would see a time between the two is left out: no order's outcome depends on when another's call was served.) The other calls
do not wait between two looks, except `Submit`, whose second one (is there still a day on
which one could apply) decides nothing, because a window that expired is accepted.

**ReturnPromise** is the abstract specification of the same business: per order a
deal that is open, cancelled or applied. A deal may be replaced while open, is
settled once, and stays settled. `ReturnDraft` implements it (`KeepsPromise`), and so does ReturnTx
(`StoreKeepsPromise`).

**AgentReturn** extends ReturnDraft by the conversations. `runs[t]` is the
checkpoint of thread `t` (`next` is the node LangGraph continues at),
`calls[t]` what the API call that works on it is doing. A node is one action with
at most one call to the service in it; `TimeOut` ends a call with the request
lost or still on the `wire`, `LateArrival` serves it at any later time, and
`Crash` loses the last checkpoint as well, which LangGraph writes while the next
node already runs. `refresh_return_confirmation` is not a node but two
calls with a checkpoint after them (`RefreshEligibility`, `RefreshDraft`).
`approvals` is a history variable: the draft and content a customer said yes to.
At most one call works on a thread at a time, which is what the portal's claim is
for (`NoParallelOperations` below). Only messages that ask for a
return are modelled; the model's own choice of tools and the priority change
branch of the graph are in ToolLoop. `get_agent_graph_state` only reads: the overlay that
shows an expired draft is in `ShownStatuses` of AgentRun. The `/agent-graph`
debugging endpoints, which take no claim, are left out, and so is the expiry of
checkpoints in Redis.

**AgentRun** says what can be seen of a run from outside (place, status, draft,
receipt) and which steps it may take. AgentReturn is checked to keep to it
(`RunsLive`), and PortalTurn is built on it instead of on the whole agent, so the
two modules compose without their state spaces being multiplied.

**PortalTurn** is one conversation of the portal. `turns` and `active` are the
rows, `old` says which row was not written for 15 minutes, `runs` are the
checkpoints as AgentRun sees them, `calls` the browser calls, each split at its
transactions: claim, read the run, work, `finish_turn`. What a synchronising call
remembers from one transaction to the next (`active`, `seen`, and whether the
row was written since, `fresh`) is part of `calls`. A vision task has no run; its
late answer meets the verdict `VISION_INTERRUPTED`. `Age` assumes that a living
agent call ends within 15 minutes (about five model turns of at most three
45-second attempts, and service calls of 2 seconds); no such assumption is made of
a vision task.

**ReturnTx** is the same store by the statements in which its transactions meet others:
the lock of the order's row, which every call takes first and holds; the one or two
looks at the policy, which `FOR SHARE` locks only if it exists; the count of drafts and the
insert; and `confirm_draft` of `service_api.py`, which reads in one transaction and
confirms in another. `jobs[w]` is the transaction of a worker with what it has
read so far, `Granted` what its checks conclude from it. All five calls of the service are
there; their answers are reduced to granted or not, because ReturnDraft has them in full.

**PortalAccounts** has every transaction on accounts, sessions and attempts; a
login is several of them with the slow password check in between, an administrator is
authenticated in one and acts in another. The brake is one row for each name and one for the
address, and each row changes its window when somebody writes it: a counting transaction
(`Counting`, `AdmitLogin`) belongs to the window in which it began, which is compared with the row's
whenever it writes. **PortalShelf** is the creation of
conversations and the upload of pictures under their quotas, with the row that is reused when
an owner has too many: READ COMMITTED evaluates a condition again on a row it waited
for, but not the subqueries on other tables.

**ToolLoop** is the way of a run through `call_model`, `read_tool`, `propose_change`
and the approval. Every reply of a live model is possible; the offline model is the
function it is (`MockReply`). `asked` is the code's `model_requests`, which counts the reviews of
what a search found as well (`Review`). **LegacyAgents** are the loop and the round trip from before
the graph. **ModelAdmission** is one request to a model with its retries, and the
counter in Redis that all workers share.

**PendingActions** is `RedisPendingActionStore` and `RedisAgentRunStore`: every
operation a series of steps between which the process may die (`Die`), and
locks that Redis frees by itself (`Expire`), whether or not the holder is done: 10 seconds
(30 for a start) that nobody renews. `outlived` remembers the keys, runs and actions to which the latter
happened. Starts go through `run_mock_chat`. Actions are also decided directly, as the
cancel nodes of the agent graph and of the priority change graph do.

**PriorityChange** is the same without Redis: two stores in the memory of a process,
the lock of one taken inside the other, and the graph of propose, interrupt and
resume above them, with two threads that may answer the same workflow. A resume looks at the checkpoint
twice, once to see that the workflow waits (`ResumeFlow`) and once to go on from it (`LoadFlow`); a start writes
its input before the node proposes anything, so a node that raises leaves a workflow that begins again.

**DocumentReview** has both uploads and the approval of pages with the
PostgreSQL store: the advisory lock of an id, the row lock of the queue, and the
data read before the transaction. Transactions are READ COMMITTED and become
visible with their commit; search joins `documents`, so chunks without a
document are not found.

**KnowledgeIngest** is the store in memory, from what `ingest_pdf` concludes of the pages to
the approval of the last one. **Chunker** is `split_structured_text` line by line: of
a line only its length, its kind and its level matter, and a path of headings is the set of their
lines, which are in the order of the page. **Retrieval** is both
implementations of the search over the same matches. **EvidenceGate** is the assessment of a passage, of
which a clause is reduced to what the patterns of `evidence_support.py` find in it;
**EvidenceReview** is what becomes of the passages: sorted by rule, reviewed by a
model, corrected once, quoted. **ContextBudget** selects the history for a prompt and takes away
from it when the window is full, before the first request of a run and before every other. **Ordering** is
Python's `sorted` (an element follows those that are ahead of it) and `[:n]`. Reciprocal ranks are whole numbers
of a unit `1 / Common` that all of them are multiples of; what messages weigh is the number of their bytes. These
modules are functions of their input; each is a machine of two or three steps (choose the input,
compute), so that TLC enumerates the inputs and the properties are invariants.

The operators under a comment "Seeded fault" are plausible mistakes (a dropped
guard, a comparison turned around, a lost reset), each the counterpart of the
definition below it. No specification uses them. Each property has at least one that
violates it, listed in `PROJECT.json`, which shows that the property depends
on the code's behaviour.

A module states its invariants one by one, each under its own name and comment, and at the
end their conjunction (`RulesInv`, `AgentInv`, `PortalInv`, `ActionsInv`, `ChangeInv`, `AccountsInv`,
`ShelfInv`, `TxInv`, `LoopInv`, `AdmissionInv`, `LegacyInv`, `PagesInv`, `GateInv`, `CitedInv`,
`ContextInv`, `ChunkInv`, `IngestInv`, `FoundInv`), which the run checks. To see which
part a change of the code breaks, name the part in the configuration instead.

At the end of most modules, under "Why", is the inductive invariant (`Bookkeeping`,
`AgentInduction`, `TxInduction`, `LoopInduction` and so on) that the proofs in `*_proofs.tla` are about (those of the
evidence gate, the history and the search, `GateIInv`, `ContextIInv` and `RetrievalIInv`, are in the proofs);
section 6 says which of them proves what. The runs do not list it, because what it adds to the
properties is no promise to anybody; to look for a counterexample to it before a proof is tried, put its name
under INVARIANTS of the run that checks the module.

`MC*.tla` give the constants that are not plain sets, `MC*.cfg` the rest. MCAssistant,
MCPortalAccounts, MCPendingActions and MCReturnDraft put systems that share no state
side by side: `part` says of which one a behaviour is, the others keep their
initial state, so the states of a run are the sum of the parts' and not
their product, and every property is checked as if its part were alone.

## 3. What each run shows

Run one with `tlc -config <cfg> <module>`.

| run | configuration | question | answer |
|---|---|---|---|
| `review_contract` | MCReturnRulesContract.cfg | Does `return_draft_client.py` take every review? | no: finding 1 |
| `return_draft` | MCReturnDraft.cfg | All sequences of calls on one order with an inquisitive shop, clock and legacy draft: is there ever a second application, an application for something else than was offered or confirmed after the hour, a wrong receipt, an hour renewed for nothing, a review that is bypassed? Is `ReturnPromise` implemented? And the rules over every combination of recorded facts, on days 0..11: is a return without a reason allowed exactly by the documented table, do gaps go to a person, can age help or a longer promise hurt, does `return_review_client.py` take every review? | holds |
| `agent_return` | MCAgentReturn.cfg | Two conversations about one order with timeouts, late requests and crashes: is every application one the customer approved as shown, does every outcome told stay true, is the review the one of this conversation's reason, do runs live as AgentRun says? | holds |
| `agent_return_receipt` | MCAgentReturnLive.cfg | After a confirmation whose answer was lost, does a customer who tries again get the receipt whatever happened to order, policy and clock? | holds |
| `lost_cancel` | MCAgentReturnCancel.cfg | Can a run shown as waiting for the confirmation always be answered? | no: finding 2 |
| `portal_turn` | MCPortalTurn.cfg | A turn in words and two about pictures, two calls, dying processes: one operation at a time, no new work behind an unknown result, verdicts final? | holds |
| `portal_drafts` | MCPortalTurnLive.cfg | One turn, two drafts: an approval is only used for the draft it was given for, history and checkpoint agree, and claims are given back? | holds |
| `portal_not_executing` | MCPortalTurnRunning.cfg | Is "still executing" true when no process dies? | no: finding 3 |
| `pending_actions` | MCPendingActions.cfg | Two actions, two runs, two keys, three calls, dying processes, locks that run out under their holders: decisions final, run and action agree, one run per key, executed means written? In memory and through the graph: is the ticket what the action says, can threads block each other? | holds; of an action or a key whose own lock was outlived only that executed means written (section 8) |
| `cancelled_but_written` | MCPendingActionsCancel.cfg | Is a cancelled action's ticket always unchanged? | no: finding 4 |
| `portal_accounts` | MCPortalAccounts.cfg | Two administrators and a newcomer: does one administrator remain, do sessions end with their account? Three names and one address over two windows: are guesses bounded? Two owners: do the quotas hold, is only an untouched conversation handed out again? The return store by statements: is the limit of drafts passed by a few at most, is an order settled once, is an application what order, policy and page were, does a refresh bring news? | holds, but for two races (section 8): an attempt written after one of the next window gives one more turn, and a picture stored while a creation waits for its conversation is handed out with it |
| `assistant` | MCAssistant.cfg | Ten parts: tool loop, model admission, the older agents, document review in PostgreSQL, evidence gate, evidence review, history, chunks, the store in memory, search | holds |

Deadlock is checked except in the portal's runs, where a conversation may really
stop: a request id is used once, an unknown result that cannot be
synchronised refuses everything (finding 3), and accounts, conversation ids and draft ids run out. In
`assistant` the parts that are computations end; their last state repeats
itself there.

Reading the more important properties (most of them parts of the conjunctions above):

* `AuthorisedContent`, `ApplicationsApproved` and `ApprovedAsShown` are the same
  promise on three levels: the service applies only for the facts of the offer,
  the agent confirms only a draft its customer said yes to, and the portal passes
  a yes on only for the draft on the screen.
* `OutcomesHold` relates what a conversation was told to the tables for the rest
  of the behaviour, while other conversations and late requests go on.
* `NoFreeHour` compares successive offers of one order: refresh and start cannot
  be used to renew the hour of the same content.
* `HistoryTellsCheckpoint` relates the two stores the portal has; it is what
  the snapshot comparison in `finish_turn` is for.
* `SearchableIsApproved` and `StatusTellsPages` would fail without `FOR UPDATE`,
  because the approved pages are read long before the transaction.

* `DeadSessionsStayDead` is about a login whose password check lasts while its account is
  disabled and enabled again; `AuthorisedAtCommit` about a policy that is looked at, or found
  missing, before the commit: one that is there is locked, and a first one waits for the row of its order,
  which it references.
* `GuessesBounded` and `HandedOutUnused` say exactly how much a race may take from what the code intends:
  `late` counts the attempts that were written after one of a later window, and `slipped` are the
  conversations that got a picture while a creation waited for them. Where neither happened, the limit is the
  limit and what is handed out is untouched.
* `RunTellsAction`, `OneRunPerKey` and `DecisionFinal` make an exception for the action or the key whose
  own lock was outlived (`outlived`) and for no other; `ExecutedWasWritten` makes none.
* `ModelRequestsBounded` is about `model_requests`, to which every reviewed search adds one.
* `JointAnswerOfOneOrder` holds although a live model chooses every argument, because the
  contract compares the order it found, and the order that was decided, with the one in the question.
* `StoresAgree` is what lets the store in memory stand in for PostgreSQL in tests; it needs its
  condition on ties, where the two use different orders.
* `MoreTextNeverHurts` and `NoAnswerRejected` are the other side of `NothingBorrowed`: a gate that
  rejects everything would satisfy the latter.

## 4. Bounds

Every bound is a constant named in a guard.

* `MaxIds`, `MaxNow` (ReturnDraft): four ids allow a start, two refreshes and an
  application; four ticks with a draft of two cover an offer that ends, a new one
  made after it, and the turn of a day on which the no-reason window closes. One
  order is enough for the checks, because no transition reads another
  order's rows except through the capacity count and the id counter; the proofs
  are for any set of orders.
* `MaxWire = 1` (AgentReturn): one delayed request at a time, delayed
  arbitrarily; a second one is lost. With two conversations and three ids every
  pair of a late request and a different state of the conversation occurs.
  In this run the hour is one tick, so it ends within the run, and policies do not change;
  the liveness run has one conversation, a longer clock and an order
  that may be cancelled.
* PortalTurn: two turns and two calls are needed for every interaction of a claim
  (holder and intruder, old and new turn). `portal_turn` has one turn with a run, whose late
  synchronisation meets the next turns, and two of pictures, whose late answers do. Drafts
  matter only in their equality, so two of them appear in the run with one turn.
* `Followed`, `LastTick`, `MaxRows` (ReturnTx): one order changes and is more than started, the
  others only fill the limit of one draft; one tick ends the hour; two ids are a draft and
  its refresh. Two workers are two transactions at a time. `DraftLimit` is 10000 in the code.
* PortalAccounts: two administrators, one name that registers, two tokens and two
  requests at a time; limits of 2 and 3 attempts make both counters decide. MCPortalAccounts looks at it in two
  parts. In `accounts` the window stands still, every request is counted as it comes in and nobody is refused
  (`AdmittedAtOnce`), which bounds the logins of a name by 2. In `brake` there are two windows
  (`MaxWindow = 1`), which is what it takes for an attempt of one to be written after one of the
  next; whoever was let through is gone (`GoneAtOnce`), because nothing the brake does depends on what becomes
  of him, and registrations, which have a scope of their own, are left out. PortalShelf: a
  quota of two conversations with three ids, so that the third creation reuses one.
* ToolLoop has the code's `MAX_TOOL_STEPS = 3`; two orders are the one asked for and another.
  ModelAdmission has three attempts of two workers at a limit of three.
* EvidenceGate: up to three clauses in any division into sentences, of the kinds in `MCClauses`: each
  rule compares a clause with the question and with the clause before it. EvidenceReview: two
  passages, limits of one and two, the code's three requests.
* ContextBudget: up to five turns are the three recent ones and two before them; weights are
  units instead of bytes, with a budget (6000 bytes in the code) and a window (8192 tokens)
  that some histories just fill.
* Chunker: five lines of eight kinds and chunks of four characters with an overlap of one
  (500 and 100 in the code): lines that fit, that fill a chunk and that need several windows.
* KnowledgeIngest: PDFs of two pages of six kinds under two ids, one the beginning of the other.
* Retrieval: three chunks with every similarity around the threshold and every number of shared
  words; one result of `Wide` and `Deep` candidates makes both cuts happen.
* `MaxWrites = 2` (PendingActions): a second write is told from the first, a third
  is not counted. Three calls meet on a key, a run or an action. The run has two parts: in `in time` processes die and
  no lock is outlived; in `slow` nobody dies with a lock and the lock of one key, run or action is outlived
  (`MaxOutlived = 1`), so that everything else can be seen to stay. The proofs have neither bound.
* DocumentReview: two overlapping approvals plus an upload; three pages make "some,
  not all" differ from "this request's". One document has a page without text.
* `Promises` and `MaxDay` (MCReturnRules): no promise on record, none, shorter
  than, equal to and longer than the legal week, and days on both sides of each.

Symmetry is used for sets whose members are interchangeable, in runs whose
properties are invariants or action properties; the liveness runs use none.

## 5. Fairness

`AgentFairSpec`: weak fairness of `Approve(t)` – a customer who was told nothing
asks again – and strong fairness of `ExecuteReturn(t)` – of infinitely many
attempts not every one is lost, times out or ends in a crash. Nothing is assumed of the order, the shop
or the clock. The code never retries a confirmation by itself, so without the
customer nothing would hold.

`FairSpec` of PortalTurn: time passes (`Age`), recovery of old picture tasks runs
(it is part of reading a conversation), a call that was made goes on (it runs in a thread of a living
process; `Die` remains possible), and the page goes on synchronising a
turn that is not finished. The two strong conditions say that the page asks again whenever the
claim is old and that Redis and the service answer now and then (`SyncReadRun`).

The modules of this section's runs are the only ones with liveness: a login, a review or a search is
one request that the client repeats or not, and nothing in the code promises its end.

## 6. What is proved

Eight modules `*_proofs.tla` hold theorems for every value of the constants: any number of orders,
threads, turns, calls, workers, names, documents, passages, limits and bounds. They use the named
assumptions of the modules only, which TLC evaluates in each run:

* something missing is not a value (`SentinelAssumption`, `MissingAssumption`, `NullAssumption`,
  `NoneAssumption`, `NamesAssumption`, `ViewAssumption`, `NothingAssumption`, `RulesAssumption`);
* clocks, counters and limits are natural numbers, positive where the code's are
  (`ClockAssumption`, `CapacityAssumption`, `WireAssumption`, `LimitsAssumption`,
  `LimitAssumption`, `QuotaAssumption`, `AdmissionAssumption`, `RequestsAssumption`, `ReviewAssumption`,
  `PagesBound`), and recorded deliveries are not in the future (`FactsAssumption`);
* `Followed` is a set of orders (`FollowedAssumption`), the workers of the business service are finitely many
  (`WorkersAssumption`; they are a thread pool, and the limit is passed by fewer than they are), and an
  administrator exists at the beginning (`AdminsAssumption`; the script of deployment makes one);
* a run may take at least three steps (`StepsAssumption`; `MAX_TOOL_STEPS` is 3, and with less a joint
  question about order, eligibility and policy could not be answered), an id is a prefix of
  itself (`PrefixAssumption`), and a promise of the merchant is missing or within the CHECK of its
  column (`PromisesAssumption`);
* a line is not empty and a heading has a level of at least 1 (`LinesAssumption`; `_heading_level`),
  and windows overlap by less than their size (`ChunkAssumption`; `split_text` refuses anything else);
* the published chunks are finitely many and their ids differ (`ChunksAssumption`; `chunk_id` is the key of
  the table), similarities and scores are numbers (`ScoresAssumption`), and every `1 / (60 + rank)` is a multiple of
  the unit `1 / Common` (`CommonAssumption`; a common multiple of finitely many numbers exists);
* a message has a weight, of at least a byte (`TurnsAssumption`), a question is blank or not (`InquiriesAssumption`), and budgets
  are natural numbers (`BudgetsAssumption`); a question is searched for the grades of its own topics only
  (`StatementsAssumption`; `_qualifier_decision`).

Check a module with `tlapm <module>`, for instance `tlapm ReturnDraft_proofs.tla`.

### The return business (`ReturnDraft_proofs`)

| theorem | statement |
|---|---|
| `TypeCorrect` | `Spec => []TypeOK` |
| `BooksKept` | `Spec => []Bookkeeping` |
| `AtMostOneApplication` | `Spec => []OneApplicationPerOrder` |
| `ReceiptsHonest` | `Spec => []ReceiptsMatchOffers` |
| `ContentAuthorised` | `Spec => AuthorisedContent` |
| `ReviewBinds` | `Spec => AdverseReviewStands` |
| `HoursNotRenewed` | `Spec => []NoFreeHour` |
| `PromiseKept` | `Spec => KeepsPromise`, the refinement of `ReturnPromise` |

The argument. `OneApplicationPerOrder` is not inductive: nothing in it says that a
row with an application cannot be replaced by another row, and the table has a
unique key on the draft id only. The invariant that is inductive, together with
`TypeOK`, is `Bookkeeping`:

* `IdsIdentifyDrafts`: an id belongs to one order, so that the join of drafts and
  applications on `draft_id` finds only the order's own;
* `LatestOffer`: a row is the offer of its id, and no later id was given to the
  order, so that new ids are really new (`<= uuids`);
* `ApplicationsStay`: an application is attached to the row as it stands. `Refresh` would
  move it (ON UPDATE CASCADE), and `RefreshMovesNothing` shows that it
  never has one to move, because a draft with an application is refused;
* `ReceiptsStay`: receipts are applications of the id that was asked for;
* `OneApplicationPerOrder` itself.

`ContentAuthorised` follows step by step: the only step with a new application is a
first `Confirm` (`NewApplicationStep`), its guards compare the order and the
policy with the row and the clock with its end, `LatestOffer` makes the row an offer, and `FingerprintIsPolicy` turns the
equality of fingerprints into equality of policies. This is where a legacy
draft without a fingerprint must be refused. `ReviewBinds` has the same first step, and
`IdsIdentifyDrafts` says that the application of a row comes from that row's own
confirmation. `HoursNotRenewed` is inductive together with `Bookkeeping`: the lemma
`LaterOffer` shows that a new offer has to differ from the row only, because the row is the
latest offer, and a refresh is refused unless it does. `PromiseKept` maps every action to a step of the promise or
to a stutter; `DealOfDraft` … `SettlesDeal` compute the mapped state before and after.

### The conversations above it (`AgentReturn_proofs`)

| theorem | statement |
|---|---|
| `AgentInvariant` | `AgentSpec => []AgentInduction` |
| `ConversationsKept` | `AgentSpec => []AgentInv` |
| `NothingUnapproved` | `AgentSpec => []ApplicationsApproved` |
| `OutcomesStay` | `AgentSpec => []OutcomesHold` |
| `RunsLiveAsPromised` | `AgentSpec => RunsLive` |
| `ServiceUnderAgent` | `AgentSpec => Spec`: every theorem above holds under all conversations |

Three things have to be known at once, which is what `AgentInduction` says. A checkpoint tells the
truth about the service, in `Kept`: its draft is an offer for its order (`ShowsOffer`), its
receipt, cancellation or expiry is final (`EndHolds`), its review is that of its reason
(`ReviewHolds`), and a node that confirms was told to (`SaidYes`). The same is said of the
checkpoint on disk and of the one that a running node still has in memory, because a crash goes back from
one to the other (`Linked`). And a request on the wire outlives its caller: `WireHolds` keeps the customer's
yes with it, so that a confirmation served late is still an approved one. `OutcomesHold` alone is not inductive, because a
draft that expired could be applied for later; `Over` says that its row has ended or is another draft's by now, and
that a row which ended stays so until it is replaced under a new id. For every way the service can
move (`Start`, `Submit`, `Confirm`, `Cancel`, `Refresh`, the shop and the clock) one lemma shows
that what any checkpoint tells stays true, and only then comes the conversation
that asked. `RunsLiveAsPromised` is the interface to PortalTurn: what that module
assumes of a run is not assumed of the agent but proved of it.

### The portal (`PortalTurn_proofs`, `PortalStore_proofs`)

| theorem | statement |
|---|---|
| `PortalInvariant` | `Spec => [](PortalInv, ClaimsInv, WorkInv and CheckpointInv)` |
| `OneOperation` | `Spec => []NoParallelOperations` |
| `RowsAndWork` | `Spec => []PortalInv` |
| `ApprovalsHonest` | `Spec => []ApprovedAsShown` |
| `HistoryHonest` | `Spec => []HistoryTellsCheckpoint` |
| `VerdictsStay` | `Spec => VerdictFinal` |
| `ShelfInvariant`, `QuotasKept` | `ShelfSpec => []ShelfInduction`, `[]ShelfInv` |
| `AccountsInvariant`, `AccountsKept` | `AccountsSpec => []AccountsInduction`, `[]AccountsInv` |
| `SessionsStayDead` | `AccountsSpec => DeadSessionsStayDead` |

`NoParallelOperations` rests on the age of a row: a claim is only passed when its row was not written for 15
minutes, and by then nobody holds it (`OldIsUnheld`); a call that synchronises behind a claim
goes on only while that is so (`FreshBehindClaimIsOld`). Only with one operation at a time can history and
checkpoint be compared: `ClaimedTells` says that a call which did not touch the run yet may give its claim
back as it is, and `SeenIsRun` that what a synchronising call remembers is the run still,
unless the turn was claimed since; in that case `finish_turn` writes nothing. Without
`SeenIsRun` the comparison of rows in `finish_turn` looks superfluous.

`QuotaKept` of a person's pictures is a sum over conversations that the code computes in SQL. PortalShelf has it as the
cardinality of the set `Pictures(u)` of pairs, because a sum by a recursive operator is out
of the prover's reach and a set is not; TLC evaluates both alike. `AccountsInduction`
says of what was let through in each window how much of it the rows still know (`GuessesCounted`): of the row's own
window what it counts, of an earlier one a whole limit, of a later one nothing, and on top of it a limit for every attempt
that came late and set the row back to its own window. The proof shows
that `set_account_active` need not count the administrators: the actor was locked and found active in the
same transaction, and nobody may disable himself, so an active administrator remains whatever the
count says. Two administrators who disable each other are decided by the row locks and that second look.

### The store by statements (`ReturnTx_proofs`)

| theorem | statement |
|---|---|
| `TxInvariant` | `TxSpec => []TxInduction` |
| `StoreKept` | `TxSpec => []TxInv` |
| `CommitsAuthorised` | `TxSpec => AuthorisedAtCommit` |
| `RefreshesShowNews` | `TxSpec => RefreshBringsNews` |
| `StorePromiseKept` | `TxSpec => StoreKeepsPromise`, the refinement of `ReturnPromise` |
| `RulesKept` | `RulesSpec => []RulesInv` |

A transaction that holds the row of its order finds the draft as it left it (`OneAtATime`, `FoundStays`). The
policy is different: it is locked if it was there, and if it was not, a first one has to wait for the key of
its order, which the transaction holds; either way what was read is what it says until the end (`PolicyRead`).
`CountedInTime` is the limit of drafts without a lock: the drafts that exist and those that are counted and
not written yet are fewer than the limit and the workers together.

`StorePromiseKept` maps the tables to the deal of an order (`StandingDeal`). A committed draft is an `Offer`, because
its id is above all that the order was given (`ShownById`) and the transaction found neither an application nor a
cancellation (`FoundStays`); a first application or cancellation is a `Settle` of the draft the call was about; every
other statement is a stutter. So the calls of ReturnDraft, served one at a time, and these transactions, served beside
each other, keep one and the same promise. No run lists `StoreKeepsPromise`, which only takes long: as a PROPERTY of
MCPortalAccounts.cfg TLC finds it kept in about twice the time of the run.

`RulesKept` is about the rules those transactions ask, for any promise from 0 to 365 and any number of
days. Its core is `ByTable`, which turns the chain of early returns (`InWindow`) and the two windows
(`WindowOf`) into one sentence about the last day; that age never helps and a longer promise
never hurts are then comparisons of two such sentences.

### The assistant (`Assistant_proofs`)

| theorem | statement |
|---|---|
| `LoopInvariant`, `LoopKept` | `LoopSpec => []LoopInduction`, `[]LoopInv` |
| `AdmissionInvariant`, `QuotaKept` | `AdmissionSpec => []AdmissionInduction`, `[]AdmissionInv` |
| `LegacyKept` | `LegacySpec => []LegacyInv` |
| `CitedInvariant`, `CitedKept` | `ReviewSpec => []CitedInduction`, `[]CitedInv` |
| `EvidenceIsOfTheQuestion` | `GateSpec => []GateInv` |
| `HistoryIsToldWithinBudget` | `ContextSpec => []ContextInv` |

The replies of the models are arbitrary in the first four, so that these are properties of the code
around the model and not of the model. `LoopInv` alone is not inductive: it speaks of answers, and of a run
that goes on one has to know that it has none (`RunHolds`), that it asked for its steps,
reminders and searches only, and, of the offline model, where in the plan of a joint question it is (`OfflinePlan`).
`AdmissionInduction` says for every worker at which place of an attempt it is and how many places it was
given (`TurnHolds`); that an interrupted INCR and EXPIRE leaves no counter without an end is
`CounterExpires`, true because both are one script. `Spent` of a review relates what was sent to
what the budget knows; a request is only made while one is left, which is what makes "three
requests in all" true of a retry after a correction.

The rules for evidence are a loop over the clauses of a sentence, and what has to be known is what its units are after `m`
clauses (`UnitsUpTo`): every unit is of neighbouring clauses which name of each kind of subject what the
unit names or nothing (`Spans`); every clause is in a unit, with all it names; and a unit reports something
done only if a clause does. `UnitsGrow` is one round of the loop. `NothingBorrowed` follows from `Spans`, because the
clause a fact comes from lies in one unit with the clauses that name the subject of the question; `NoAnswerRejected`
from the other two; `MoreTextNeverHurts` from `AdmittedWhen`, where more sentences only add units. The state invariant
(`GateIInv`) is no more than the types, since a step computes nothing that is kept.

Of the history, `ContextIInv` says that it is the selection for the question that was asked, and that the prompt is what
`prepare_context` leaves of it beside the weight the run has added. The selection is three stages, and each is shown to
return references of its own turns that fit what is left of the budget (`FitRecentFits`, `RetrieveFits`,
`SummaryIs`); `SelectIs` adds them up. `FewestRemoved` takes the least number of removals that makes the request
fit: with the last of them undone it did not. Weights are numbers of bytes, so that sums of weights are cardinalities of
disjoint unions (`WeightUnion`), about which the theorems of the library speak.

### Other actions and documents

| module | theorem | statement |
|---|---|---|
| `Actions_proofs` | `WrittenFirst` | `Spec => [](ActionsTypeOK /\ ExecutedWasWritten)` |
| | `ActionsInvariant` | `Spec => [](WrittenInv /\ DecidedInv /\ KeysInv)` |
| | `RecordsAgree`, `KeysIdentify` | `Spec => []ActionsInv`, `Spec => []OneRunPerKey` |
| | `DecisionsStay` | `Spec => DecisionFinal` |
| | `ChangeInvariant`, `MemoryAgrees` | `ChangeSpec => []ChangeInduction`, `[]ChangeInv` |
| | `LocksFormNoCircle` | `ChangeSpec => []((\E t : thread[t].at # "none") => \E t : CanGoOn(t))` |
| `Knowledge_proofs` | `ReviewInvariant`, `SearchIsApproved` | `PagesSpec => []ReviewInduction`, `[]PagesInv` |
| | `IngestInvariant`, `IngestKept` | `IngestSpec => []IngestInduction`, `[]IngestInv` |
| | `ChunkInvariant`, `ChunksKept` | `ChunkSpec => []ChunkInduction`, `[]ChunkInv` |
| | `SearchFindsWhatItMay` | `RetrievalSpec => []FoundInv` |

The theorems of PendingActions have no hypothesis about time: any call may take longer than its lock lives,
any number of locks may be outlived, and any number of processes die. What cannot hold of the action or key
whose own lock was outlived (section 8) is not claimed of it, and is proved of all others;
`ExecutedWasWritten` is proved of all. `DecidesPending`, `FinishesDecided` and `StartsMissing` say what the
holder of a lock that was not outlived, and nobody else, knows; in PriorityChange the same is `DeciderKnows`,
for a lock inside another one, with `HoldersInside` saying that locks are held by requests that go on. In
DocumentReview it is `UploadFound` and `ReviewerFound`: pages that were read before the transaction are not
approved twice because the row is locked and looked at again. Of the store in memory, `IngestInduction` adds
that what was indexed without a review was ready as a whole (`Ready`) and that nothing is approved of an id
that is not under review; `Unknown` then makes every count begin at zero.

`ChunkInv` speaks of the chunks that are made; what makes it inductive is what is known of the one being made
(`DraftHolds`): it reaches to the end of what was read, begins behind every other chunk, and stands under
the headings that are open now, because a heading always closes it. `NothingLost` is `WholePageIndexed` with
that chunk included. `WindowsCover` is the arithmetic of a long line, for any size and overlap: the number of windows
is rounded so that the last one begins before the end of the line and reaches it. `AboveNext` shows that a stack of
headings, of which each new one takes away those of its level and below, is exactly the headings
above the line (`HeadingsAbove`), which is defined without a stack.

`CanGoOn` says what a request in PriorityChange waits for: the lock of the store it enters, if it enters one. With
`HoldersInside`, the thread inside the inner lock waits for nothing, and one inside the outer lock only for
the inner one.

A search is a chain of sorted lists. `OrderedIs` is what `sorted` returns when of any two different elements
one is ahead of the other and transitively so (`Sorts`): the element at place `n` is the one with `n - 1`
ahead, because these numbers are different and there are as many as places (`AheadCounted`). `SimilarAreFirst`
is the heart of `StoresAgree`: of a list by similarity the first `n` that pass the threshold are the first `n`
of those that pass, so that PostgreSQL may cut before it admits. `RerankedAre` is the order of the reranked
list, from `ScoresAreOwn`: whatever order the reply has, each candidate gets its own score. `RetrievalIInv`
keeps of a search that what was returned is the beginning of the fusion or a reranking of it
(`FromTheFusion`).

### Recursion and counting

The prover has no induction schema that can be instantiated. What recursive functions compute is proved here
from the least-number principle, which is a first-order statement: a set of numbers that is not empty has a
least member (`LeastNumber`, from the well-foundedness of `<` on Nat). Of the numbers of clauses for which a
claim fails, the least is not 0 and its predecessor is not among them. `ScopedIs` shows in this way also that
the recursive function exists, which the prover does not take for granted. `LeastNumber` and the lemmas on
sorting are in `Knowledge_proofs`, which `Assistant_proofs` extends.

## 7. What is only model-checked

* Liveness (`ReceiptRecovered`, `ClaimReleased`): out of the prover's reach, as is `ENABLED`.
* `NobodyStuck` of PriorityChange, because it is stated with `ENABLED`. `LocksFormNoCircle` proves the same with the guards written
  out (`CanGoOn`) for any number of threads; that a request with its guards satisfied has a step is left to TLC.

Every other invariant and action property of the passing runs is stated by a theorem.

## 8. Disagreements between the code and its documents

Four have a run that shows them, recorded as findings:

1. **A review with missing facts is taken for a broken service**
   (`review_contract`). For `POLICY_FACTS_REQUIRED`, `PRODUCT_CONDITION_UNKNOWN` and
   `EXCLUSION_CONFIRMATION_REQUIRED` Java answers `MANUAL_REVIEW`;
   `return_draft_client.py:104` expects `REJECTED` and raises, after the
   review was stored. `return_review_client.py` takes the same answers.
2. **A cancellation whose answer is lost cannot be repeated** (`lost_cancel`). The run stands before
   `cancel_return`, and `resume_agent_graph` has a way back to `execute_return`
   only; neither a yes nor a no is taken any more.
3. **"Still executing" is said of runs nobody executes** (`portal_not_executing`). After a node raised, the
   checkpoint stays `RUNNING`, the turn becomes `RESULT_UNKNOWN`, synchronising
   refuses because of the checkpoint, and new messages are refused because of the turn.
4. **A cancelled priority change may have been written**
   (`cancelled_but_written`). The ticket is committed before the action is saved; a
   process that dies in between leaves a pending action that can be cancelled.

Others were met while modelling and have no run of their own:

* `finish_reason_collection` catches only an expired draft. If the order changed
  before the reason was sent, the portal advises to synchronise and refresh, but
  `refresh_return_confirmation` takes only a `STALE_CONFIRMATION` run
  (`agent_graph.py:652`).
* The status a run waits with follows the eligibility read before the draft was
  found. If the draft is another conversation's, it may wait for a confirmation the service will
  refuse (`agent_graph.py:617`).
* `submit` does not look at the application: a reason can be reviewed after the return was applied
  for, and the agent's answer then says that no application was made yet
  (`ReturnDraftService.java:77`).
* The answer to the COMMIT of `finish_turn` may be lost. The handler then takes a finished turn for
  a failed one and calls `finish_turn` again, with `RESULT_UNKNOWN`; if the customer has meanwhile acted
  on the same turn, this gives up that action's claim (`portal_store.py:406` compares the turn's id
  only), a third request can act beside it, and a refresh in it can exchange the draft under an
  approval that was already checked. Adding that one step to PortalTurn makes `NoParallelOperations` and
  `ApprovedAsShown` fail; the module leaves it out.
* A document that needs no review can be uploaded twice into the store in memory and is then found
  twice, although the endpoint documents 409 for it (`main.py:286`): only the area under review
  and the PostgreSQL store look for the id.
* `prepare_context` takes messages away one by one, so a question may be left without its answer
  (`model_context.py:104`), which the selection before it avoids ("rather than presenting half of a claimed pair",
  `conversation_context.py:108`).
* A picture uploaded while a creation waits for the row of an unused conversation is handed out
  with it as new (`portal_store.py:179`).
* A ticket that takes longer to write than the 10 seconds of the lock lets another call decide the same
  action, and a start that takes longer than 30 seconds lets another one make a second run for its key
  (`redis_checkpoint_store.py:99`, `:174`): the ticket may be written twice, and an action be cancelled after it was
  executed. Without `\ outlived` in `DecisionFinal` TLC shows it. Such an action or key is exempt from
  `DecisionFinal`, `RunTellsAction` and `OneRunPerKey`.
* The limit of logins can be passed where a window of 15 minutes ends. An attempt that began before and is written after
  one of the next window sets the row back to its own window and to one, and the next attempt of the new window
  sets it to one again (`portal_store.py:121`). `GuessesBounded` bounds what is let through by the number of such
  attempts.

## 9. What is not modelled

* In PortalTurn: the loss of a database answer to a COMMIT (section 8).
* What a text says: which topics, facts and identifiers the patterns find, how similar two
  vectors are, what a PDF's pages contain. The modules take these as inputs.
* `conversation_memory.py` recalls earlier turns of the same conversation (`search_memory` is scoped to it) and only
  adds candidates to the history; its index is a search like Retrieval's.
* In PriorityChange a start reads the checkpoint and writes its input in one step.
* The sample chunks the store in memory begins with, and the expiry of checkpoints in Redis.
* Order lookup, signatures, authentication of services: stateless.
* Evaluation, reports, scripts, demos, front-end, HTTP wiring: outside the system's
  own state; what a browser may repeat is in PortalTurn.
* The vision service and the content of model requests: every outcome (answer, failure, lateness) is
  a choice where they are called.

`PROJECT.json` lists every component with its sources and status.

## 10. Plan

Written, in this order, the most important first: ReturnRules; ReturnDraft with
ReturnPromise; AgentReturn; AgentRun and PortalTurn; PendingActions;
DocumentReview; PortalAccounts and PortalShelf; ToolLoop, ModelAdmission and
LegacyAgents; PriorityChange; EvidenceGate and EvidenceReview; ContextBudget; Chunker,
KnowledgeIngest and Retrieval; ReturnTx; and the proofs of section 6.

What is left to prove, the most valuable first:

1. That ReturnTx implements more of ReturnDraft than their common `ReturnPromise`: reviews, expiry and the
   policies, with a commit as the call that ReturnDraft serves.
2. That PriorityChange and PendingActions promise the same of a decision, as an abstract
   specification of both.
