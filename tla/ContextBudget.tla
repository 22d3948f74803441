--------------------------- MODULE ContextBudget ---------------------------
(***************************************************************************)
(* What a model is told of the conversation before the question: the       *)
(* selection of build_conversation_history (conversation_context.py) under *)
(* a budget of bytes, and what prepare_context (model_context.py) takes    *)
(* away again when the tool results of a run fill the window.              *)
(*                                                                         *)
(* Of a turn matters which orders it mentions, and which of them in the    *)
(* customer's words, how well it matches the question otherwise, and the   *)
(* weight of each of its two messages; a message that is cut to whole      *)
(* sentences, and a line of the summary, weigh 1.                          *)
(***************************************************************************)
EXTENDS SequencesExt, Ordering

CONSTANTS
  Turns,         \* records orders, asked, relevance, weight, answered
  Inquiries,     \* records given (the question is not blank), orders
  HistoryBudget, \* max_history_bytes
  Window,        \* the context window less output and question
  ToolWeights,   \* what a round of the tool loop may add
  MaxTurns       \* bound: turns of the conversation

ASSUME TurnsAssumption == \A t \in Turns :
  /\ IsFiniteSet(t.asked) /\ t.relevance \in Nat /\ t.weight \in Nat \ {0} /\ t.answered \in BOOLEAN
ASSUME InquiriesAssumption == \A q \in Inquiries : q.given \in BOOLEAN
ASSUME BudgetsAssumption == HistoryBudget \in Nat /\ Window \in Nat /\ ToolWeights \subseteq Nat

VARIABLES
  dialog,        \* the turns before this one
  inquiry,       \* the question, or <<>> before it is asked
  history,       \* the references: turns, kind, weight
  protected,     \* weight of what may not be removed
  prompt         \* which references are sent, or that the request is refused

contextVars == <<dialog, inquiry, history, protected, prompt>>

\* What messages weigh: the number of their bytes.
Bytes(items, kept) == UNION {{i} \X (1 .. items[i].weight) : i \in kept}
WeightOf(items, kept) == Cardinality(Bytes(items, kept))
SumOf(items) == WeightOf(items, DOMAIN items)

\* visible[-3:] and the turns before them.
RecentTurns == {p \in DOMAIN dialog : p > Len(dialog) - 3}
OlderTurns == DOMAIN dialog \ RecentTurns

Item(turns, kind, weight) == [turns |-> turns, kind |-> kind, weight |-> weight]
Sent(kept) == [refused |-> FALSE, kept |-> kept]
Messages(p) == IF dialog[p].answered THEN 2 ELSE 1
Whole(p) == Messages(p) * dialog[p].weight

----------------------------------------------------------------------------
(* build_conversation_history                                              *)

RecentBudget(q) == IF q.given /\ Len(dialog) > 3 THEN (HistoryBudget * 3) \div 5 ELSE HistoryBudget

\* _fit_recent: both messages, both as excerpts, or neither.
FitRecent(recent, p, budget) ==
  LET left == budget - SumOf(recent)
      pair(weight) == [m \in 1 .. Messages(p) |-> Item({p}, "recent", weight)]
  IN  IF Whole(p) <= left THEN pair(dialog[p].weight) \o recent
      ELSE IF Messages(p) <= left THEN pair(1) \o recent
      ELSE recent

\* The newest first, before those that follow it.
Recent(q) ==
  LET with(recent, p) == IF p \in RecentTurns THEN FitRecent(recent, p, RecentBudget(q)) ELSE recent
      newest == Len(dialog)
  IN  with(with(with(<<>>, newest), newest - 1), newest - 2)

\* Seeded fault: a turn counts if it also mentions the order asked about.
AllowedIfMentioned(q) ==
  {p \in OlderTurns : q.orders = {} \/ dialog[p].orders = {} \/ dialog[p].orders \cap q.orders # {}}

\* A question about an order retrieves no turn that mentions another.
Allowed(q) == {p \in OlderTurns : q.orders = {} \/ dialog[p].orders \subseteq q.orders}

Score(q, p) == 20 * Cardinality(dialog[p].asked \cap q.orders) + dialog[p].relevance

Ranked(q) ==
  LET matching == {p \in Allowed(q) : Score(q, p) > 0}
  IN  Ordered([b \in matching |-> {a \in matching :
                 Score(q, a) > Score(q, b) \/ (Score(q, a) = Score(q, b) /\ a > b)}])

\* The three best, as they are or as excerpts, while they fit beside the
\* recent turns.
Retrieve(found, p, room) ==
  LET left == room - SumOf(found)
  IN  IF Whole(p) <= left THEN Append(found, Item({p}, "retrieved", Whole(p)))
      ELSE IF Messages(p) <= left THEN Append(found, Item({p}, "retrieved", Messages(p)))
      ELSE found

Retrieved(q, recent) ==
  LET best == Ranked(q)
      with(found, n) == IF n \in DOMAIN best THEN Retrieve(found, best[n], HistoryBudget - SumOf(recent)) ELSE found
  IN  with(with(with(<<>>, 1), 2), 3)

Rest(q, found) == Allowed(q) \ UNION {i.turns : i \in ToSet(found)}

Summary(q, found, left) ==
  LET rest == Rest(q, found)
      turns == {p \in rest : Cardinality({later \in rest : later > p}) < left}
  IN  IF turns = {} THEN <<>> ELSE <<Item(turns, "summary", Cardinality(turns))>>

\* Seeded fault: the summary has the room the recent turns leave.
SummarisedBeside(q, found, recent) == Summary(q, found, HistoryBudget - SumOf(recent))

\* A line for each other allowed turn, the newest that fit, as one reference.
Summarised(q, found, recent) == Summary(q, found, HistoryBudget - SumOf(recent) - SumOf(found))

Select(q) ==
  LET recent == Recent(q)
      found == Retrieved(q, recent)
  IN  IF q.given THEN Summarised(q, found, recent) \o found \o recent ELSE recent

----------------------------------------------------------------------------
(* prepare_context                                                         *)

Priority(item) == CASE item.kind = "summary" -> 0 [] item.kind = "recent" -> 1 [] item.kind = "retrieved" -> 2

\* Seeded fault: the oldest goes first, whatever it is.
RemovalByIndex(items) == Ordered([b \in DOMAIN items |-> {a \in DOMAIN items : a < b}])

\* The order in which references are given up.
Removal(items) ==
  Ordered([b \in DOMAIN items |-> {a \in DOMAIN items :
             \/ Priority(items[a]) < Priority(items[b])
             \/ Priority(items[a]) = Priority(items[b]) /\ a < b}])

\* What is left after the first k of them are removed.
Left(items, k) == DOMAIN items \ {Removal(items)[n] : n \in 1 .. k}

PrepareContext(items, weight) ==
  LET fitting == {k \in 0 .. Len(items) : WeightOf(items, Left(items, k)) + weight <= Window}
  IN  IF fitting = {} THEN [refused |-> TRUE, kept |-> {}]
      ELSE Sent(Left(items, CHOOSE k \in fitting : \A l \in fitting : k <= l))

----------------------------------------------------------------------------
Say ==
  /\ inquiry = <<>> /\ Len(dialog) < MaxTurns
  /\ \E t \in Turns : dialog' = Append(dialog, t)
  /\ UNCHANGED <<inquiry, history, protected, prompt>>

\* The question with its selection; the first request of the run.
Inquire ==
  /\ inquiry = <<>>
  /\ \E q \in Inquiries : inquiry' = <<q>> /\ history' = Select(q)
  /\ prompt' = PrepareContext(history', protected)
  /\ UNCHANGED <<dialog, protected>>

\* Each round of the loop prepares the whole envelope anew.
Round ==
  /\ inquiry # <<>> /\ ~prompt.refused
  /\ \E w \in ToolWeights : protected' = protected + w /\ prompt' = PrepareContext(history, protected + w)
  /\ UNCHANGED <<dialog, inquiry, history>>

ContextInit == dialog = <<>> /\ inquiry = <<>> /\ history = <<>> /\ protected = 0 /\ prompt = Sent({})
ContextNext == Say \/ Inquire \/ Round
ContextSpec == ContextInit /\ [][ContextNext]_contextVars

----------------------------------------------------------------------------
(* Correctness.                                                            *)

\* The three stages share one budget, and no turn is told twice: a turn that
\* was retrieved is not also summarised, a recent one neither.
HistoryWithinBudget ==
  /\ SumOf(history) <= HistoryBudget
  /\ \A i, j \in DOMAIN history :
       history[i].turns \cap history[j].turns # {} => history[i].kind = history[j].kind

\* A question about an order is told nothing of another order but what the
\* last three turns say ("an explicit current order must not retrieve
\* another order's earlier facts", conversation_context.py).
OtherOrdersKeptOut ==
  \A i \in DOMAIN history :
    history[i].kind # "recent" /\ inquiry[1].orders # {} =>
      \A p \in history[i].turns : dialog[p].orders \subseteq inquiry[1].orders

\* The window is kept with the fewest references removed, a summary before a
\* recent message, that before what was retrieved for the question; only
\* what may not be removed makes the request be refused.
PromptKeepsTheBest ==
  LET removed == DOMAIN history \ prompt.kept
      before(i, j) == \/ Priority(history[i]) < Priority(history[j])
                      \/ Priority(history[i]) = Priority(history[j]) /\ i <= j
  IN  IF prompt.refused THEN protected > Window
      ELSE /\ WeightOf(history, prompt.kept) + protected <= Window
           /\ \A i \in prompt.kept, j \in removed : Priority(history[i]) >= Priority(history[j])
           /\ \A j \in removed : (\A i \in removed : before(i, j)) =>
                WeightOf(history, prompt.kept \cup {j}) + protected > Window

\* The history is within its budgets, about the right order, and the most
\* important part of what there is.
ContextInv == HistoryWithinBudget /\ OtherOrdersKeptOut /\ PromptKeepsTheBest
=============================================================================
