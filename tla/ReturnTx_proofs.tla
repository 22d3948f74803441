-------------------------- MODULE ReturnTx_proofs ---------------------------
(***************************************************************************)
(* What the transactions of the return store keep although they read the   *)
(* policy twice, count without a lock and confirm what another transaction *)
(* read: for any orders, policies, contents, limit and number of workers.  *)
(* And the rules they ask (ReturnRules), for any facts on record.          *)
(***************************************************************************)
EXTENDS ReturnTx, MCReturnRules, FiniteSetTheorems, TLAPS

----------------------------------------------------------------------------
(* What a worker knows, of any job.                                        *)

InTx(j) == j.step \in {"open", "read", "decided"}
Alone(w, j) == InTx(j) => \A v \in Workers \ {w} : Running(v) => jobs[v].good # j.good

FoundJob(j) ==
  InTx(j) => /\ RowOf(j).id = j.id
             /\ j.call \in {"confirm", "refresh"} => ~RowOf(j).cancelled
             /\ j.call \in {"start", "confirm", "cancel", "refresh"} => MadeFor(j.good) = {}

PolicyJob(j) ==
  /\ j.step \in {"read", "decided"} => rule[j.good] = j.first
  /\ j.step = "decided" => j.second = j.first

PageJob(j) ==
  j.page # NoPage =>
    \E s \in shownRows :
      s.good = j.good /\ s.id = j.id /\ [content |-> s.content, expires |-> s.expires] = j.page

LEMMA JobsKnow ==
  ASSUME TxInduction, NEW w \in Workers
  PROVE  /\ jobs[w] \in JobRecords /\ WellFormedJob(jobs[w]) /\ Alone(w, jobs[w])
         /\ FoundJob(jobs[w]) /\ PolicyJob(jobs[w]) /\ PageJob(jobs[w])
<1>1. jobs[w] \in JobRecords /\ WellFormedJob(jobs[w])
  BY DEF TxInduction, TxTypeOK
<1>2. Alone(w, jobs[w])
  BY DEF TxInduction, OneAtATime, Alone, InTx, Running
<1>3. FoundJob(jobs[w]) /\ PolicyJob(jobs[w])
  BY DEF TxInduction, FoundStays, PolicyRead, FoundJob, PolicyJob, InTx, Running
<1>4. PageJob(jobs[w])
  BY DEF TxInduction, PageRead, PageJob
<1>5. QED
  BY <1>1, <1>2, <1>3, <1>4

LEMMA IdleKnows ==
  /\ IdleJob \in JobRecords /\ WellFormedJob(IdleJob)
  /\ IdleJob.step = "idle" /\ IdleJob.call = "none" /\ IdleJob.page = NoPage
  /\ IdleJob.id = 0 /\ IdleJob.first = NoRule /\ IdleJob.second = NoRule
BY DEF IdleJob, JobRecords, WellFormedJob, NoPage, Pages, CallNames

\* Of the workers that are not about to write a new draft, none counts.
LEMMA CountedFinite ==
  ASSUME NEW S \in SUBSET Workers
  PROVE  IsFiniteSet(S) /\ Cardinality(S) \in Nat /\ Cardinality(S) <= Cardinality(Workers)
         /\ Cardinality(Workers) \in Nat
BY WorkersAssumption, FS_Subset, FS_CardinalityType

\* The steps of one worker that write no table.
LEMMA JobStep ==
  ASSUME TxInduction, NEW w \in Workers, NEW job \in JobRecords, WellFormedJob(job),
         Continues(w, job), Stays,
         Alone(w, job), FoundJob(job), PolicyJob(job), PageJob(job),
         job.step = "decided" /\ job.call = "start"
           => \/ Room
              \/ jobs[w].step = "decided" /\ jobs[w].call = "start"
  PROVE  TxInduction'
<1>1. /\ TxTypeOK /\ OneAtATime /\ FoundStays /\ PolicyRead
      /\ ShownById /\ PageRead /\ OneApplication /\ ShownIsConfirmed /\ CountedInTime
  BY DEF TxInduction
<1>2. /\ jobs'[w] = job /\ \A v \in Workers \ {w} : jobs'[v] = jobs[v]
      /\ jobs' \in [Workers -> JobRecords]
  BY <1>1 DEF Continues, TxTypeOK
<1>3. TxTypeOK'
  BY <1>1, <1>2 DEF Stays, TxTypeOK
<1>4. OneAtATime'
  BY <1>1, <1>2 DEF OneAtATime, Alone, Running, InTx
<1>5. ASSUME NEW v \in Workers
      PROVE  FoundJob(jobs'[v]) /\ PolicyJob(jobs'[v]) /\ PageJob(jobs'[v])
  BY <1>2, JobsKnow
<1>6. FoundStays'
  BY <1>5 DEF FoundStays, FoundJob, Running, InTx, RowOf, MadeFor, Stays
<1>7. PolicyRead'
  BY <1>5 DEF PolicyRead, PolicyJob, Running, InTx, RowOf, Stays
<1>8. PageRead'
  BY <1>5 DEF PageRead, PageJob, Stays
<1>9. ShownById' /\ OneApplication' /\ ShownIsConfirmed'
  BY <1>1 DEF ShownById, OneApplication, ShownIsConfirmed, Stays
<1>10. CountedInTime'
  <2>1. Taken' = Taken /\ IsFiniteSet(Taken) /\ Cardinality(Taken) \in Nat
    BY <1>1, FS_CardinalityType DEF CountedInTime, Taken, Stays
  <2>2. Counted' \in SUBSET Workers /\ Counted \in SUBSET Workers
    BY DEF Counted
  <2>3. CASE Room
    <3>1. Cardinality(Taken) < DraftLimit
      BY <2>3 DEF Room, Taken
    <3>2. /\ Cardinality(Counted') <= Cardinality(Workers)
          /\ Cardinality(Counted') \in Nat /\ Cardinality(Workers) \in Nat
      BY <2>2, CountedFinite
    <3>3. Cardinality(Taken) + Cardinality(Counted') < DraftLimit + Cardinality(Workers)
      BY <2>1, <3>1, <3>2, LimitAssumption
    <3>4. QED
      BY <2>1, <3>3 DEF CountedInTime
  <2>4. CASE Counted' \subseteq Counted
    <3>1. Cardinality(Counted') <= Cardinality(Counted) /\ Cardinality(Counted') \in Nat
      BY <2>2, <2>4, CountedFinite, FS_Subset
    <3>2. QED
      BY <1>1, <2>1, <2>2, <3>1, CountedFinite, LimitAssumption DEF CountedInTime
  <2>5. QED
    BY <1>2, <2>3, <2>4 DEF Counted
<1>11. QED
  BY <1>3, <1>4, <1>6, <1>7, <1>8, <1>9, <1>10 DEF TxInduction

LEMMA IdleStep ==
  ASSUME TxInduction, NEW w \in Workers, Continues(w, IdleJob), Stays
  PROVE  TxInduction'
BY IdleKnows, JobStep DEF Alone, InTx, FoundJob, PolicyJob, PageJob

\* A call begins: its order is nobody else's, the draft is what the customer
\* means, and nothing was read yet.
LEMMA OpenStep ==
  ASSUME TxInduction, NEW w \in Workers, NEW job \in JobRecords, Continues(w, job), Stays,
         job.step = "open", job.call \in CallNames, job.good \in Goods, job.id = 0 <=> job.call = "start",
         job.first = NoRule, job.second = NoRule, PageJob(job),
         ~Busy(job.good), RowOf(job).id = job.id, Admissible(job)
  PROVE  TxInduction'
<1>1. WellFormedJob(job)
  BY DEF WellFormedJob
<1>2. Alone(w, job)
  BY DEF Alone, Busy
<1>3. FoundJob(job)
  <2>1. CASE job.call = "start"
    <3>1. MadeFor(job.good) = {}
      BY <2>1 DEF TxInduction, OneApplication, MadeFor, RowOf
    <3>2. QED
      BY <2>1, <3>1 DEF FoundJob
  <2>2. CASE job.call = "submit"
    BY <2>2 DEF FoundJob
  <2>3. CASE job.call \in {"confirm", "cancel", "refresh"}
    BY <2>3 DEF FoundJob, Admissible
  <2>4. QED
    BY <2>1, <2>2, <2>3 DEF CallNames
<1>4. PolicyJob(job)
  BY DEF PolicyJob
<1>5. QED
  BY <1>1, <1>2, <1>3, <1>4, JobStep

LEMMA OpenTransactionStep ==
  ASSUME TxInduction, NEW w \in Workers, OpenTransaction(w)
  PROVE  TxInduction'
<1>1. jobs \in [Workers -> JobRecords] /\ issuedIds \in [Goods -> Nat]
  BY DEF TxInduction, TxTypeOK
<1>2. ASSUME NEW job, Continues(w, job)
      PROVE  Stays /\ ~Busy(job.good) /\ RowOf(job).id = job.id /\ Admissible(job)
  <2>1. jobs'[w] = job
    BY <1>1, <1>2 DEF Continues
  <2>2. LET j == jobs'[w] IN ~Busy(j.good) /\ RowOf(j).id = j.id /\ Admissible(j)
    BY DEF OpenTransaction
  <2>3. QED
    BY <2>1, <2>2 DEF OpenTransaction
<1>3. ASSUME NEW g \in Goods, Continues(w, [IdleJob EXCEPT !.step = "open", !.call = "start", !.good = g])
      PROVE  TxInduction'
  <2> DEFINE job == [IdleJob EXCEPT !.step = "open", !.call = "start", !.good = g]
  <2>1. /\ job \in JobRecords /\ job.step = "open" /\ job.call = "start" /\ job.good = g /\ job.id = 0
        /\ job.first = NoRule /\ job.second = NoRule /\ job.page = NoPage
    BY DEF IdleJob, JobRecords, NoPage, Pages, CallNames
  <2>2. QED
    BY <1>2, <1>3, <2>1, OpenStep DEF CallNames, PageJob
<1>4. ASSUME NEW g \in Followed, NEW call \in {"submit", "confirm", "cancel", "refresh"},
             NEW id \in 1 .. issuedIds[g],
             Continues(w, [IdleJob EXCEPT !.step = "open", !.call = call, !.good = g, !.id = id])
      PROVE  TxInduction'
  <2> DEFINE job == [IdleJob EXCEPT !.step = "open", !.call = call, !.good = g, !.id = id]
  <2>1. g \in Goods /\ id \in Nat /\ id # 0
    BY <1>1, FollowedAssumption
  <2>2. /\ job \in JobRecords /\ job.step = "open" /\ job.call = call /\ job.good = g /\ job.id = id
        /\ job.first = NoRule /\ job.second = NoRule /\ job.page = NoPage
    BY <2>1 DEF IdleJob, JobRecords, NoPage, Pages, CallNames
  <2>3. QED
    BY <1>2, <1>4, <2>1, <2>2, OpenStep DEF CallNames, PageJob
<1>5. ASSUME jobs[w].step = "shown", Continues(w, [jobs[w] EXCEPT !.step = "open", !.call = "confirm"])
      PROVE  TxInduction'
  <2> DEFINE job == [jobs[w] EXCEPT !.step = "open", !.call = "confirm"]
  <2>1. jobs[w] \in JobRecords /\ WellFormedJob(jobs[w]) /\ PageJob(jobs[w])
    BY JobsKnow
  <2>2. /\ job \in JobRecords /\ job.step = "open" /\ job.call = "confirm" /\ job.good = jobs[w].good
        /\ job.id = jobs[w].id /\ job.page = jobs[w].page
        /\ job.first = jobs[w].first /\ job.second = jobs[w].second
    BY <2>1 DEF JobRecords, CallNames
  <2>3. job.good \in Goods /\ job.id # 0 /\ job.first = NoRule /\ job.second = NoRule /\ PageJob(job)
    <3>1. jobs[w].good \in Goods /\ jobs[w].first = NoRule /\ jobs[w].second = NoRule /\ jobs[w].id # 0
      BY <1>5, <2>1 DEF WellFormedJob
    <3>2. QED
      BY <2>1, <2>2, <3>1 DEF PageJob
  <2>4. QED
    BY <1>2, <1>5, <2>2, <2>3, OpenStep DEF CallNames
<1>6. QED
  BY <1>3, <1>4, <1>5 DEF OpenTransaction

LEMMA GetForServiceStep ==
  ASSUME TxInduction, NEW w \in Workers, GetForService(w)
  PROVE  TxInduction'
<1>1. TxTypeOK /\ ShownById
  BY DEF TxInduction
<1>2. PICK g \in Followed, s \in shownRows :
        /\ rows[g].id # 0 /\ rows[g].content = s.content /\ rows[g].expires = s.expires
        /\ Continues(w, [IdleJob EXCEPT !.step = "shown", !.good = g, !.id = rows[g].id,
                                        !.page = [content |-> s.content, expires |-> s.expires]])
  BY DEF GetForService
<1> DEFINE page == [content |-> s.content, expires |-> s.expires]
           job == [IdleJob EXCEPT !.step = "shown", !.good = g, !.id = rows[g].id, !.page = page]
<1>3. g \in Goods /\ rows[g].id \in Nat /\ s \in ShownRecords
  BY <1>1, FollowedAssumption DEF TxTypeOK, RowRecords
<1>4. page \in Pages
  BY <1>3 DEF Pages, ShownRecords
<1>5. /\ job \in JobRecords /\ job.step = "shown" /\ job.call = "none" /\ job.good = g
      /\ job.id = rows[g].id /\ job.first = NoRule /\ job.second = NoRule /\ job.page = page
  BY <1>3, <1>4 DEF IdleJob, JobRecords, CallNames
<1>6. WellFormedJob(job)
  BY <1>2, <1>3, <1>5 DEF WellFormedJob
<1>7. PageJob(job)
  <2> DEFINE t == [id |-> rows[g].id, good |-> g, content |-> rows[g].content, rule |-> rows[g].rule,
                   expires |-> rows[g].expires]
  <2>1. t \in shownRows
    BY <1>1, <1>2, <1>3 DEF ShownById
  <2>2. t.good = job.good /\ t.id = job.id /\ [content |-> t.content, expires |-> t.expires] = job.page
    BY <1>2, <1>5
  <2>3. QED
    BY <2>1, <2>2 DEF PageJob
<1>8. Alone(w, job) /\ FoundJob(job) /\ PolicyJob(job)
  BY <1>5 DEF Alone, FoundJob, PolicyJob, InTx
<1>9. Stays
  BY DEF GetForService
<1> HIDE DEF job
<1>10. Continues(w, job)
  BY <1>2 DEF job
<1>11. job.step # "decided"
  BY <1>5
<1>12. QED
  BY <1>5, <1>6, <1>7, <1>8, <1>9, <1>10, <1>11, JobStep

\* The looks at the policy.
LEMMA ReadStep ==
  ASSUME TxInduction, NEW w \in Workers, ReadPolicy(w) \/ CountDrafts(w) \/ ReadPolicyAgain(w)
  PROVE  TxInduction'
<1> DEFINE g == jobs[w].good
<1>1. /\ jobs[w] \in JobRecords /\ WellFormedJob(jobs[w]) /\ Alone(w, jobs[w])
      /\ FoundJob(jobs[w]) /\ PolicyJob(jobs[w]) /\ PageJob(jobs[w])
  BY JobsKnow
<1>2. InTx(jobs[w]) /\ jobs[w].call \in CallNames /\ g \in Goods /\ Stays
  BY <1>1 DEF ReadPolicy, CountDrafts, ReadPolicyAgain, InTx, WellFormedJob
<1>3. rule[g] \in Rules \cup {NoRule}
  BY <1>2 DEF TxInduction, TxTypeOK
<1>4. ASSUME NEW job \in JobRecords, job.good = g, job.id = jobs[w].id, job.call = jobs[w].call,
             job.page = jobs[w].page, job.step \in {"read", "decided"}
      PROVE  WellFormedJob(job) /\ Alone(w, job) /\ FoundJob(job) /\ PageJob(job)
  <2>1. WellFormedJob(job)
    BY <1>1, <1>2, <1>4 DEF WellFormedJob, InTx
  <2>2. Alone(w, job) /\ FoundJob(job) /\ PageJob(job)
    BY <1>1, <1>2, <1>4 DEF Alone, FoundJob, PageJob, RowOf, MadeFor
  <2>3. QED
    BY <2>1, <2>2
<1>5. CASE ReadPolicy(w)
  <2> DEFINE job == [jobs[w] EXCEPT !.first = rule[g], !.step = "read"]
  <2>1. /\ job \in JobRecords /\ job.step = "read" /\ job.good = g /\ job.id = jobs[w].id
        /\ job.call = jobs[w].call /\ job.page = jobs[w].page
        /\ job.first = rule[g]
    BY <1>1, <1>3 DEF JobRecords
  <2>2. PolicyJob(job)
    BY <2>1 DEF PolicyJob
  <2>3. Continues(w, job)
    BY <1>5 DEF ReadPolicy
  <2> HIDE DEF job
  <2>4. QED
    BY <1>2, <1>4, <2>1, <2>2, <2>3, JobStep
<1>6. CASE CountDrafts(w)
  <2> DEFINE job == [jobs[w] EXCEPT !.second = jobs[w].first, !.step = "decided"]
  <2>1. /\ job \in JobRecords /\ job.step = "decided" /\ job.good = g /\ job.id = jobs[w].id
        /\ job.call = jobs[w].call /\ job.page = jobs[w].page
        /\ job.first = jobs[w].first /\ job.second = jobs[w].first
    BY <1>1 DEF JobRecords
  <2>2. PolicyJob(job)
    <3>1. jobs[w].step = "read"
      BY <1>6 DEF CountDrafts
    <3>2. QED
      BY <1>1, <2>1, <3>1 DEF PolicyJob
  <2>3. Continues(w, job) /\ Room
    BY <1>6 DEF CountDrafts
  <2> HIDE DEF job
  <2>4. QED
    BY <1>2, <1>4, <2>1, <2>2, <2>3, JobStep
<1>7. CASE ReadPolicyAgain(w)
  <2> DEFINE job == [jobs[w] EXCEPT !.second = rule[g], !.step = "decided"]
  <2>1. /\ job \in JobRecords /\ job.step = "decided" /\ job.good = g /\ job.id = jobs[w].id
        /\ job.call = jobs[w].call /\ job.page = jobs[w].page
        /\ job.first = jobs[w].first /\ job.second = rule[g]
    BY <1>1, <1>3 DEF JobRecords
  <2>2. PolicyJob(job)
    <3>1. jobs[w].step = "read"
      BY <1>7 DEF ReadPolicyAgain
    <3>2. QED
      BY <1>1, <2>1, <3>1 DEF PolicyJob
  <2>3. Continues(w, job) /\ job.call # "start"
    BY <1>7, <2>1 DEF ReadPolicyAgain
  <2> HIDE DEF job
  <2>4. QED
    BY <1>2, <1>4, <2>1, <2>2, <2>3, JobStep
<1>8. QED
  BY <1>5, <1>6, <1>7

----------------------------------------------------------------------------
(* Commits.                                                                *)

\* A commit changes the draft and the applications of the worker's order,
\* which no other worker is about.
LEMMA OthersKnow ==
  ASSUME TxInduction, NEW w \in Workers, InTx(jobs[w]), Continues(w, IdleJob),
         content' = content, rule' = rule, shownRows \subseteq shownRows',
         \A h \in Goods \ {jobs[w].good} :
           rows'[h] = rows[h] /\ {a \in made' : a.good = h} = {a \in made : a.good = h}
  PROVE  /\ OneAtATime' /\ FoundStays' /\ PolicyRead' /\ PageRead'
         /\ jobs' \in [Workers -> JobRecords] /\ \A v \in Workers : WellFormedJob(jobs'[v])
<1>1. TxTypeOK /\ OneAtATime
  BY DEF TxInduction
<1>2. /\ jobs'[w] = IdleJob /\ \A v \in Workers \ {w} : jobs'[v] = jobs[v]
      /\ jobs' \in [Workers -> JobRecords]
  BY <1>1, IdleKnows DEF Continues, TxTypeOK
<1>3. \A v \in Workers : WellFormedJob(jobs'[v])
  BY <1>1, <1>2, IdleKnows DEF TxTypeOK
<1>4. OneAtATime'
  BY <1>1, <1>2, IdleKnows DEF OneAtATime, Running
<1>5. ASSUME NEW v \in Workers, Running(v)'
      PROVE  /\ v # w /\ jobs'[v] = jobs[v] /\ Running(v)
             /\ jobs[v].good \in Goods \ {jobs[w].good}
             /\ FoundJob(jobs[v]) /\ PolicyJob(jobs[v])
  <2>1. v # w
    BY <1>2, <1>5, IdleKnows DEF Running
  <2>2. jobs'[v] = jobs[v] /\ Running(v)
    BY <1>2, <1>5, <2>1 DEF Running
  <2>3. jobs[v].good \in Goods
    BY <1>1, <2>2 DEF TxTypeOK, WellFormedJob, Running
  <2>4. jobs[v].good # jobs[w].good
    BY <1>1, <2>1, <2>2 DEF OneAtATime, Running, InTx
  <2>5. QED
    BY <2>1, <2>2, <2>3, <2>4, JobsKnow
<1>6. FoundStays'
  <2>1. ASSUME NEW v \in Workers, Running(v)'
        PROVE  LET j == jobs'[v]
               IN  /\ rows'[j.good].id = j.id
                   /\ j.call \in {"confirm", "refresh"} => ~rows'[j.good].cancelled
                   /\ j.call \in {"start", "confirm", "cancel", "refresh"}
                        => {a \in made' : a.good = j.good} = {}
    BY <1>5, <2>1 DEF FoundJob, InTx, Running, RowOf, MadeFor
  <2>2. QED
    BY <2>1 DEF FoundStays, RowOf, MadeFor
<1>7. PolicyRead'
  <2>1. ASSUME NEW v \in Workers, ~Running(v)'
        PROVE  jobs'[v].step \notin {"open", "read", "decided"}
    BY <2>1 DEF Running
  <2>2. ASSUME NEW v \in Workers, Running(v)'
        PROVE  LET j == jobs'[v]
               IN  /\ j.step \in {"read", "decided"} => rule'[j.good] = j.first
                   /\ j.step = "decided" => j.second = j.first
    BY <1>5, <2>2 DEF PolicyJob
  <2>3. QED
    BY <2>1, <2>2 DEF PolicyRead
<1>8. PageRead'
  <2>1. ASSUME NEW v \in Workers, jobs'[v].page # NoPage
        PROVE  \E s \in shownRows' :
                 s.good = jobs'[v].good /\ s.id = jobs'[v].id
                 /\ [content |-> s.content, expires |-> s.expires] = jobs'[v].page
    <3>1. v # w
      BY <1>2, <2>1, IdleKnows
    <3>2. jobs'[v] = jobs[v] /\ PageJob(jobs[v])
      BY <1>2, <3>1, JobsKnow
    <3>3. QED
      BY <2>1, <3>2 DEF PageJob
  <2>2. QED
    BY <2>1 DEF PageRead
<1>9. QED
  BY <1>2, <1>3, <1>4, <1>6, <1>7, <1>8

\* Whoever writes a new draft was counted among the workers till then.
LEMMA CommitCounted ==
  ASSUME TxInduction, NEW w \in Workers, Continues(w, IdleJob), NEW g \in Goods,
         \/ Taken' = Taken
         \/ Taken' \subseteq Taken \cup {g} /\ w \in Counted
  PROVE  CountedInTime'
<1>1. TxTypeOK /\ IsFiniteSet(Taken) /\ Cardinality(Taken) \in Nat
      /\ Cardinality(Taken) + Cardinality(Counted) < DraftLimit + Cardinality(Workers)
  BY FS_CardinalityType DEF TxInduction, CountedInTime
<1>2. Counted \in SUBSET Workers /\ Counted' \in SUBSET Workers
  BY DEF Counted
<1>3. Counted' = Counted \ {w}
  BY <1>1, IdleKnows DEF Counted, Continues, TxTypeOK
<1>4. /\ IsFiniteSet(Counted) /\ Cardinality(Counted) \in Nat /\ Cardinality(Counted') \in Nat
      /\ Cardinality(Workers) \in Nat
      /\ Cardinality(Counted') = IF w \in Counted THEN Cardinality(Counted) - 1 ELSE Cardinality(Counted)
  BY <1>2, <1>3, CountedFinite, FS_RemoveElement
<1>5. CASE Taken' = Taken
  <2>1. Cardinality(Taken) + Cardinality(Counted') < DraftLimit + Cardinality(Workers)
    BY <1>1, <1>4, LimitAssumption
  <2>2. QED
    BY <1>1, <1>5, <2>1 DEF CountedInTime
<1>6. CASE Taken' \subseteq Taken \cup {g} /\ w \in Counted
  <2>1. IsFiniteSet(Taken \cup {g}) /\ Cardinality(Taken \cup {g}) <= Cardinality(Taken) + 1
        /\ Cardinality(Taken \cup {g}) \in Nat
    <3>1. /\ IsFiniteSet(Taken \cup {g})
          /\ Cardinality(Taken \cup {g}) = IF g \in Taken THEN Cardinality(Taken) ELSE Cardinality(Taken) + 1
      BY <1>1, FS_AddElement
    <3>2. QED
      BY <1>1, <3>1
  <2>2. IsFiniteSet(Taken') /\ Cardinality(Taken') <= Cardinality(Taken \cup {g}) /\ Cardinality(Taken') \in Nat
    BY <1>6, <2>1, FS_Subset, FS_CardinalityType
  <2>3. Cardinality(Taken') + Cardinality(Counted') < DraftLimit + Cardinality(Workers)
    BY <1>1, <1>4, <1>6, <2>1, <2>2, LimitAssumption
  <2>4. QED
    BY <2>2, <2>3 DEF CountedInTime
<1>7. QED
  BY <1>5, <1>6

\* What a commit finds: the worker is in its transaction, has the order to
\* itself, and the checks of its call were made.
LEMMA CommitFinds ==
  ASSUME TxInduction, NEW w \in Workers, Commit(w)
  PROVE  LET j == jobs[w] IN
         /\ j \in JobRecords /\ j.good \in Goods /\ InTx(j) /\ j.call \in CallNames
         /\ FoundJob(j) /\ PolicyJob(j) /\ PageJob(j)
         /\ j.call # "cancel" => j.step = "decided"
         /\ j.id = 0 <=> j.call = "start"
         /\ Granted(j) /\ Continues(w, IdleJob) /\ content' = content /\ rule' = rule /\ clock' = clock
<1> DEFINE j == jobs[w]
<1>1. j \in JobRecords /\ WellFormedJob(j) /\ FoundJob(j) /\ PolicyJob(j) /\ PageJob(j)
  BY JobsKnow
<1>2. /\ j.step = (IF j.call = "cancel" THEN "open" ELSE "decided")
      /\ Granted(j) /\ Continues(w, IdleJob) /\ content' = content /\ rule' = rule /\ clock' = clock
  BY DEF Commit
<1>3. InTx(j) /\ j.good \in Goods /\ j.call \in CallNames /\ (j.id = 0 <=> j.call = "start")
  BY <1>1, <1>2 DEF WellFormedJob, InTx
<1>4. QED
  BY <1>1, <1>2, <1>3

LEMMA DraftCommit ==
  ASSUME TxInduction, NEW w \in Workers, Commit(w), jobs[w].call \in {"start", "refresh"}, WriteDraft(jobs[w])
  PROVE  TxInduction'
<1> DEFINE j == jobs[w]
           g == jobs[w].good
           row == [NoRow EXCEPT !.id = NewId(j), !.content = content[g], !.rule = j.second,
                                !.expires = clock + Hour]
           shown == [id |-> row.id, good |-> g, content |-> row.content, rule |-> row.rule,
                     expires |-> row.expires]
<1>1. /\ TxTypeOK /\ ShownById /\ OneApplication /\ ShownIsConfirmed
  BY DEF TxInduction
<1>2. /\ j \in JobRecords /\ g \in Goods /\ InTx(j) /\ FoundJob(j) /\ PolicyJob(j) /\ j.step = "decided"
      /\ j.id = 0 <=> j.call = "start"
      /\ Continues(w, IdleJob) /\ content' = content /\ rule' = rule /\ clock' = clock
  BY CommitFinds
<1>3. /\ issuedIds' = [issuedIds EXCEPT ![g] = @ + 1] /\ rows' = [rows EXCEPT ![g] = row]
      /\ shownRows' = shownRows \cup {shown} /\ made' = made
  BY DEF WriteDraft
<1>4. content[g] \in Contents /\ j.second \in Rules \cup {NoRule} /\ clock + Hour \in Nat
      /\ issuedIds[g] \in Nat /\ NewId(j) = issuedIds[g] + 1
  BY <1>1, <1>2, LimitAssumption DEF TxTypeOK, JobRecords, NewId
<1>5. /\ row \in RowRecords /\ row.id = issuedIds[g] + 1 /\ row.id # 0
      /\ row.content = content[g] /\ row.rule = j.second /\ row.expires = clock + Hour
      /\ row.cancelled = FALSE
  <2>1. PICK id \in Nat, e \in Nat : id = NewId(j) /\ id # 0 /\ e = clock + Hour
    BY <1>4
  <2>2. row = [NoRow EXCEPT !.id = id, !.content = content[g], !.rule = j.second, !.expires = e]
    BY <2>1
  <2>3. row \in RowRecords
    BY <1>4, <2>2 DEF NoRow, RowRecords
  <2>4. /\ row.id = id /\ row.content = content[g] /\ row.rule = j.second /\ row.expires = e
        /\ row.cancelled = FALSE
    BY <2>2 DEF NoRow
  <2> HIDE DEF row
  <2>5. QED
    BY <1>4, <2>1, <2>3, <2>4
<1> HIDE DEF row
<1>6. shown \in ShownRecords /\ shown.id = issuedIds[g] + 1 /\ shown.good = g
  BY <1>2, <1>4, <1>5 DEF ShownRecords
<1>7. /\ rows'[g] = row /\ issuedIds'[g] = issuedIds[g] + 1
      /\ \A h \in Goods \ {g} : rows'[h] = rows[h] /\ issuedIds'[h] = issuedIds[h]
  BY <1>1, <1>2, <1>3 DEF TxTypeOK
<1>8. MadeFor(g) = {}
  BY <1>2 DEF FoundJob
<1>9. /\ OneAtATime' /\ FoundStays' /\ PolicyRead' /\ PageRead'
      /\ jobs' \in [Workers -> JobRecords] /\ \A v \in Workers : WellFormedJob(jobs'[v])
  BY <1>2, <1>3, <1>7, OthersKnow
<1>10. TxTypeOK'
  <2>1. rows' \in [Goods -> RowRecords]
    BY <1>1, <1>3, <1>5 DEF TxTypeOK
  <2>2. issuedIds' \in [Goods -> Nat]
    <3>1. issuedIds[g] + 1 \in Nat
      BY <1>4
    <3>2. QED
      BY <1>1, <1>3, <3>1 DEF TxTypeOK
  <2>3. shownRows' \subseteq ShownRecords
    BY <1>1, <1>3, <1>6 DEF TxTypeOK
  <2>4. QED
    BY <1>1, <1>2, <1>3, <1>9, <2>1, <2>2, <2>3 DEF TxTypeOK
<1>11. ShownById'
  <2>1. \A s \in shownRows : s.good \in Goods /\ s.id \in Nat /\ s.id <= issuedIds[s.good]
    BY <1>1 DEF TxTypeOK, ShownRecords, ShownById
  <2>2. \A s \in shownRows' : s.id <= issuedIds'[s.good]
    <3>1. \A s \in shownRows : s.id <= issuedIds'[s.good]
      BY <1>4, <1>7, <2>1
    <3>2. QED
      BY <1>3, <1>4, <1>6, <1>7, <3>1
  <2>3. \A s \in shownRows : ~(s.good = g /\ s.id = issuedIds[g] + 1)
    BY <1>4, <2>1
  <2>4. \A s, t \in shownRows' : s.good = t.good /\ s.id = t.id => s = t
    BY <1>1, <1>3, <1>6, <2>3 DEF ShownById
  <2>5. ASSUME NEW h \in Goods, rows'[h].id # 0
        PROVE  [id |-> rows'[h].id, good |-> h, content |-> rows'[h].content, rule |-> rows'[h].rule,
                expires |-> rows'[h].expires] \in shownRows'
    <3>1. CASE h = g
      BY <1>3, <1>7, <3>1
    <3>2. CASE h # g
      BY <1>1, <1>3, <1>7, <2>5, <3>2 DEF ShownById
    <3>3. QED
      BY <3>1, <3>2
  <2>6. QED
    BY <2>2, <2>4, <2>5 DEF ShownById
<1>12. OneApplication'
  <2>1. \A a \in made : a.good \in Goods \ {g}
    BY <1>1, <1>8 DEF TxTypeOK, MadeRecords, MadeFor
  <2>2. QED
    BY <1>1, <1>3, <1>7, <2>1 DEF OneApplication
<1>13. ShownIsConfirmed'
  BY <1>1, <1>3 DEF ShownIsConfirmed
<1>14. CountedInTime'
  <2>1. Taken' = Taken \cup {g}
    BY <1>2, <1>5, <1>7 DEF Taken
  <2>2. CASE j.call = "start"
    BY <1>2, <2>1, <2>2, CommitCounted DEF Counted
  <2>3. CASE j.call = "refresh"
    <3>1. g \in Taken
      BY <1>2, <2>3 DEF FoundJob, RowOf, Taken
    <3>2. QED
      BY <1>2, <2>1, <3>1, CommitCounted
  <2>4. QED
    BY <2>2, <2>3
<1>15. QED
  BY <1>9, <1>10, <1>11, <1>12, <1>13, <1>14 DEF TxInduction

\* The draft of the worker's order keeps what it says; its review or its end
\* may be written.
RowStep(g) ==
  /\ rows' \in [Goods -> RowRecords]
  /\ \A h \in Goods \ {g} : rows'[h] = rows[h]
  /\ \A h \in Goods : /\ rows'[h].id = rows[h].id /\ rows'[h].content = rows[h].content
                      /\ rows'[h].rule = rows[h].rule /\ rows'[h].expires = rows[h].expires

LEMMA RowCommit ==
  ASSUME TxInduction, NEW w \in Workers, InTx(jobs[w]), jobs[w].good \in Goods, Continues(w, IdleJob),
         content' = content, rule' = rule, clock' = clock, issuedIds' = issuedIds, shownRows' = shownRows,
         made' = made, RowStep(jobs[w].good), OneApplication'
  PROVE  TxInduction'
<1>1. TxTypeOK /\ ShownById /\ ShownIsConfirmed
  BY DEF TxInduction
<1>2. /\ OneAtATime' /\ FoundStays' /\ PolicyRead' /\ PageRead'
      /\ jobs' \in [Workers -> JobRecords] /\ \A v \in Workers : WellFormedJob(jobs'[v])
  BY OthersKnow DEF RowStep
<1>3. TxTypeOK'
  BY <1>1, <1>2 DEF TxTypeOK, RowStep
<1>4. ShownById' /\ ShownIsConfirmed'
  BY <1>1 DEF ShownById, ShownIsConfirmed, RowStep
<1>5. CountedInTime'
  <2>1. Taken' = Taken
    BY DEF Taken, RowStep
  <2>2. QED
    BY <2>1, CommitCounted
<1>6. QED
  BY <1>2, <1>3, <1>4, <1>5 DEF TxInduction

LEMMA ReviewCommit ==
  ASSUME TxInduction, NEW w \in Workers, Commit(w), jobs[w].call = "submit", WriteReview(jobs[w])
  PROVE  TxInduction'
<1> DEFINE g == jobs[w].good
<1>1. /\ g \in Goods /\ InTx(jobs[w]) /\ Continues(w, IdleJob)
      /\ content' = content /\ rule' = rule /\ clock' = clock
  BY CommitFinds
<1>2. /\ issuedIds' = issuedIds /\ shownRows' = shownRows /\ made' = made
  BY DEF WriteReview
<1>3. PICK review \in {"acceptable", "rejected"} : rows' = [rows EXCEPT ![g] = [rows[g] EXCEPT !.review = review]]
  <2>1. PICK review \in {"acceptable", "rejected"} : rows' = [rows EXCEPT ![g].review = review]
    BY DEF WriteReview
  <2>2. QED
    BY <2>1
<1>4. ASSUME NEW row \in RowRecords
      PROVE  LET new == [row EXCEPT !.review = review]
             IN  /\ new \in RowRecords /\ new.id = row.id /\ new.content = row.content
                 /\ new.rule = row.rule /\ new.expires = row.expires /\ new.cancelled = row.cancelled
  BY <1>3 DEF RowRecords
<1>5. RowStep(g)
  BY <1>1, <1>3, <1>4 DEF TxInduction, TxTypeOK, RowStep
<1>6. \A a \in made : a.good \in Goods /\ rows'[a.good].cancelled = rows[a.good].cancelled
  BY <1>1, <1>3, <1>4 DEF TxInduction, TxTypeOK, MadeRecords
<1>7. OneApplication'
  BY <1>2, <1>5, <1>6 DEF TxInduction, OneApplication, RowStep
<1>8. QED
  BY <1>1, <1>2, <1>5, <1>7, RowCommit

LEMMA CancelCommit ==
  ASSUME TxInduction, NEW w \in Workers, Commit(w), jobs[w].call = "cancel", WriteCancelled(jobs[w])
  PROVE  TxInduction'
<1> DEFINE g == jobs[w].good
<1>1. /\ g \in Goods /\ InTx(jobs[w]) /\ FoundJob(jobs[w]) /\ Continues(w, IdleJob)
      /\ content' = content /\ rule' = rule /\ clock' = clock
  BY CommitFinds
<1>2. /\ issuedIds' = issuedIds /\ shownRows' = shownRows /\ made' = made
  BY DEF WriteCancelled
<1>3. rows' = [rows EXCEPT ![g] = [rows[g] EXCEPT !.cancelled = TRUE]]
  BY DEF WriteCancelled
<1>4. ASSUME NEW row \in RowRecords
      PROVE  LET new == [row EXCEPT !.cancelled = TRUE]
             IN  /\ new \in RowRecords /\ new.id = row.id /\ new.content = row.content
                 /\ new.rule = row.rule /\ new.expires = row.expires
  BY DEF RowRecords
<1>5. RowStep(g)
  BY <1>1, <1>3, <1>4 DEF TxInduction, TxTypeOK, RowStep
<1>6. \A a \in made : a.good \in Goods \ {g}
  BY <1>1 DEF TxInduction, TxTypeOK, MadeRecords, FoundJob, MadeFor
<1>7. OneApplication'
  BY <1>2, <1>5, <1>6 DEF TxInduction, OneApplication, RowStep
<1>8. QED
  BY <1>1, <1>2, <1>5, <1>7, RowCommit

\* What a confirmation finds: the draft says what the order is, and the page,
\* where there is one, showed it.
LEMMA ConfirmFinds ==
  ASSUME TxInduction, NEW w \in Workers, Commit(w), jobs[w].call = "confirm"
  PROVE  LET j == jobs[w] IN
         \E s \in shownRows :
           /\ s.id = j.id /\ s.good = j.good /\ s.content = content[j.good] /\ s.rule = j.first
           /\ j.page # NoPage => [content |-> s.content, expires |-> s.expires] = j.page
<1> DEFINE j == jobs[w]
           row == rows[jobs[w].good]
           shown == [id |-> row.id, good |-> j.good, content |-> row.content, rule |-> row.rule,
                     expires |-> row.expires]
<1>1. /\ j.good \in Goods /\ FoundJob(j) /\ PageJob(j) /\ InTx(j) /\ j.id # 0 /\ Granted(j)
  BY CommitFinds
<1>2. row.id = j.id /\ row.content = content[j.good] /\ row.rule = j.first
  BY <1>1 DEF FoundJob, RowOf, Granted, Stale
<1>3. shown \in shownRows /\ \A s, t \in shownRows : s.good = t.good /\ s.id = t.id => s = t
  BY <1>1, <1>2 DEF TxInduction, ShownById
<1>4. j.page # NoPage => [content |-> shown.content, expires |-> shown.expires] = j.page
  <2>1. ASSUME j.page # NoPage
        PROVE  [content |-> shown.content, expires |-> shown.expires] = j.page
    <3>1. PICK s \in shownRows :
            s.good = j.good /\ s.id = j.id /\ [content |-> s.content, expires |-> s.expires] = j.page
      BY <1>1, <2>1 DEF PageJob
    <3>2. s = shown
      BY <1>2, <1>3, <3>1
    <3>3. QED
      BY <3>1, <3>2
  <2>2. QED
    BY <2>1
<1>5. QED
  BY <1>2, <1>3, <1>4

LEMMA ApplicationCommit ==
  ASSUME TxInduction, NEW w \in Workers, Commit(w), jobs[w].call = "confirm", WriteApplication(jobs[w])
  PROVE  TxInduction'
<1> DEFINE j == jobs[w]
           g == jobs[w].good
           new == [id |-> j.id, good |-> g, content |-> content[g], page |-> j.page]
<1>1. /\ TxTypeOK /\ ShownById /\ OneApplication /\ ShownIsConfirmed
  BY DEF TxInduction
<1>2. /\ j \in JobRecords /\ g \in Goods /\ InTx(j) /\ FoundJob(j) /\ Continues(w, IdleJob) /\ j.id # 0
      /\ content' = content /\ rule' = rule /\ clock' = clock
  BY CommitFinds
<1>3. rows' = rows /\ issuedIds' = issuedIds /\ shownRows' = shownRows
  BY DEF WriteApplication
<1>4. /\ \A a \in made : a.good # g
      /\ rows[g].id = j.id /\ ~rows[g].cancelled
  BY <1>2 DEF FoundJob, RowOf, MadeFor
<1>5. made' = made \cup {new}
  BY <1>4 DEF WriteApplication
<1>6. new \in MadeRecords
  BY <1>1, <1>2 DEF TxTypeOK, JobRecords, MadeRecords
<1>7. \A h \in Goods \ {g} : {a \in made' : a.good = h} = {a \in made : a.good = h}
  BY <1>5
<1>8. /\ OneAtATime' /\ FoundStays' /\ PolicyRead' /\ PageRead'
      /\ jobs' \in [Workers -> JobRecords] /\ \A v \in Workers : WellFormedJob(jobs'[v])
  BY <1>2, <1>3, <1>7, OthersKnow
<1>9. TxTypeOK'
  BY <1>1, <1>2, <1>3, <1>5, <1>6, <1>8 DEF TxTypeOK
<1>10. ShownById'
  BY <1>1, <1>2, <1>3 DEF ShownById
<1>11. OneApplication'
  BY <1>1, <1>2, <1>3, <1>4, <1>5 DEF OneApplication
<1>12. ShownIsConfirmed'
  <2>1. PICK s \in shownRows :
          /\ s.id = j.id /\ s.good = g /\ s.content = content[g]
          /\ j.page # NoPage => [content |-> s.content, expires |-> s.expires] = j.page
    BY ConfirmFinds
  <2>2. QED
    BY <1>1, <1>3, <1>5, <2>1 DEF ShownIsConfirmed
<1>13. CountedInTime'
  <2>1. Taken' = Taken
    BY <1>3 DEF Taken
  <2>2. QED
    BY <1>2, <2>1, CommitCounted
<1>14. QED
  BY <1>8, <1>9, <1>10, <1>11, <1>12, <1>13 DEF TxInduction

----------------------------------------------------------------------------
(* The other systems, and every step.                                      *)

LEMMA CorrectOrderStep ==
  ASSUME TxInduction, NEW g \in Followed, CorrectOrder(g)
  PROVE  TxInduction'
<1>1. content' \in [Goods -> Contents]
  BY DEF CorrectOrder, TxInduction, TxTypeOK
<1>2. TxTypeOK'
  BY <1>1 DEF CorrectOrder, TxInduction, TxTypeOK
<1>3. OneAtATime' /\ FoundStays' /\ PolicyRead' /\ PageRead'
  BY DEF CorrectOrder, TxInduction, OneAtATime, FoundStays, PolicyRead, PageRead, Running, RowOf, MadeFor
<1>4. ShownById' /\ OneApplication' /\ ShownIsConfirmed' /\ CountedInTime'
  BY DEF CorrectOrder, TxInduction, ShownById, OneApplication, ShownIsConfirmed,
         CountedInTime, Taken, Counted
<1>5. QED
  BY <1>2, <1>3, <1>4 DEF TxInduction

LEMMA HourPassesStep ==
  ASSUME TxInduction, HourPasses
  PROVE  TxInduction'
<1>1. TxTypeOK'
  BY DEF HourPasses, TxInduction, TxTypeOK
<1>2. OneAtATime' /\ FoundStays' /\ PolicyRead' /\ PageRead'
  BY DEF HourPasses, TxInduction, OneAtATime, FoundStays, PolicyRead, PageRead, Running, RowOf, MadeFor
<1>3. ShownById' /\ OneApplication' /\ ShownIsConfirmed' /\ CountedInTime'
  BY DEF HourPasses, TxInduction, ShownById, OneApplication, ShownIsConfirmed,
         CountedInTime, Taken, Counted
<1>4. QED
  BY <1>1, <1>2, <1>3 DEF TxInduction

\* A policy that somebody read is not replaced before the commit, and a first
\* one waits for whoever has the order.
LEMMA RecordPolicyStep ==
  ASSUME TxInduction, NEW g \in Followed, RecordPolicy(g)
  PROVE  TxInduction'
<1>1. g \in Goods /\ TxTypeOK /\ PolicyRead
  BY FollowedAssumption DEF TxInduction
<1>2. PICK r \in Rules : rule' = [rule EXCEPT ![g] = r]
  BY DEF RecordPolicy
<1>3. /\ rule'[g] = r /\ r # NoRule /\ \A h \in Goods \ {g} : rule'[h] = rule[h]
      /\ rule' \in [Goods -> Rules \cup {NoRule}]
  BY <1>1, <1>2, RulesAssumption DEF TxTypeOK
<1>4. TxTypeOK'
  BY <1>1, <1>3 DEF RecordPolicy, TxTypeOK
<1>5. OneAtATime' /\ FoundStays' /\ PageRead'
  BY DEF RecordPolicy, TxInduction, OneAtATime, FoundStays, PageRead, Running, RowOf, MadeFor
<1>6. PolicyRead'
  <2>1. ASSUME NEW v \in Workers, Running(v)
        PROVE  jobs[v].good \in Goods /\ (jobs[v].good = g => jobs[v].step = "open")
    <3>1. jobs[v].good \in Goods
      BY <1>1, <2>1 DEF TxTypeOK, WellFormedJob, Running
    <3>2. ASSUME jobs[v].good = g, jobs[v].step # "open" PROVE FALSE
      <4>1. {jobs[v].first, jobs[v].second} = {NoRule} /\ rule[g] # NoRule
        BY <2>1, <3>2 DEF RecordPolicy, Shared, Busy
      <4>2. rule[g] = jobs[v].first
        BY <1>1, <2>1, <3>2 DEF PolicyRead, Running
      <4>3. QED
        BY <4>1, <4>2
    <3>3. QED
      BY <3>1, <3>2
  <2>2. ASSUME NEW v \in Workers
        PROVE  LET j == jobs[v]
               IN  /\ j.step \in {"read", "decided"} => rule'[j.good] = j.first
                   /\ j.step = "decided" => j.second = j.first
    BY <1>1, <1>3, <2>1 DEF PolicyRead, Running
  <2>3. QED
    BY <2>2 DEF RecordPolicy, PolicyRead
<1>7. ShownById' /\ OneApplication' /\ ShownIsConfirmed' /\ CountedInTime'
  BY DEF RecordPolicy, TxInduction, ShownById, OneApplication, ShownIsConfirmed, CountedInTime, Taken, Counted
<1>8. QED
  BY <1>4, <1>5, <1>6, <1>7 DEF TxInduction

LEMMA TxStep ==
  ASSUME TxInduction, [TxNext]_txVars
  PROVE  TxInduction'
<1>1. ASSUME NEW w \in Workers, Commit(w)
      PROVE  TxInduction'
  <2>1. CASE jobs[w].call \in {"start", "refresh"} /\ WriteDraft(jobs[w])
    BY <1>1, <2>1, DraftCommit
  <2>2. CASE jobs[w].call = "submit" /\ WriteReview(jobs[w])
    BY <1>1, <2>2, ReviewCommit
  <2>3. CASE jobs[w].call = "confirm" /\ WriteApplication(jobs[w])
    BY <1>1, <2>3, ApplicationCommit
  <2>4. CASE jobs[w].call = "cancel" /\ WriteCancelled(jobs[w])
    BY <1>1, <2>4, CancelCommit
  <2>5. QED
    BY <1>1, <2>1, <2>2, <2>3, <2>4 DEF Commit
<1>2. ASSUME NEW w \in Workers, RollBack(w)
      PROVE  TxInduction'
  BY <1>2, IdleStep DEF RollBack
<1>3. CASE UNCHANGED txVars
  BY <1>3 DEF txVars, TxInduction, TxTypeOK, OneAtATime, FoundStays, PolicyRead, ShownById,
              PageRead, OneApplication, ShownIsConfirmed, CountedInTime, Taken, Counted, Running, RowOf, MadeFor
<1>4. QED
  BY <1>1, <1>2, <1>3, OpenTransactionStep, GetForServiceStep, ReadStep, CorrectOrderStep,
     RecordPolicyStep, HourPassesStep DEF TxNext

----------------------------------------------------------------------------
(* The theorems.                                                           *)

LEMMA TxStart ==
  ASSUME TxInit
  PROVE  TxInduction
<1>1. TxTypeOK
  <2>1. NoRow \in RowRecords
    BY DEF NoRow, RowRecords
  <2>2. QED
    BY <2>1, IdleKnows DEF TxInit, TxTypeOK
<1>2. \A w \in Workers : jobs[w] = IdleJob
  BY DEF TxInit
<1>3. OneAtATime /\ FoundStays /\ PolicyRead /\ PageRead
  BY <1>2, IdleKnows DEF OneAtATime, FoundStays, PolicyRead, PageRead, Running
<1>4. ShownById /\ OneApplication /\ ShownIsConfirmed
  BY DEF TxInit, ShownById, OneApplication, ShownIsConfirmed, NoRow
<1>5. CountedInTime
  <2>1. Taken = {} /\ Counted = {}
    BY <1>2, IdleKnows DEF Taken, Counted, TxInit, NoRow
  <2>2. IsFiniteSet(Taken) /\ Cardinality(Taken) = 0 /\ Cardinality(Counted) = 0
    BY <2>1, FS_EmptySet
  <2>3. Cardinality(Workers) \in Nat
    BY WorkersAssumption, FS_CardinalityType
  <2>4. QED
    BY <2>2, <2>3, LimitAssumption DEF CountedInTime
<1>6. QED
  BY <1>1, <1>3, <1>4, <1>5 DEF TxInduction

\* What every transaction knows while it holds the row of its order, and what
\* the tables say together, holds through every interleaving of statements:
\* the inductive invariant behind the theorems below (postgres_return_store,
\* withLockedOrder).
THEOREM TxInvariant == TxSpec => []TxInduction
<1>1. TxInit => TxInduction
  BY TxStart
<1>2. TxInduction /\ [TxNext]_txVars => TxInduction'
  BY TxStep
<1>3. QED
  BY <1>1, <1>2, PTL DEF TxSpec

\* Of the tables, for any number of requests at a time: an order that was
\* given back was given back once and not cancelled, what /service confirmed
\* is what its page showed, and the limit of drafts, counted without a lock,
\* is passed by fewer than the requests served together.
THEOREM StoreKept == TxSpec => []TxInv
<1>1. ASSUME TxInduction PROVE SettledOnce
  <2>1. ASSUME NEW g \in Goods PROVE Cardinality(MadeFor(g)) <= 1
    <3>1. CASE MadeFor(g) = {}
      BY <3>1, FS_EmptySet
    <3>2. CASE MadeFor(g) # {}
      <4>1. PICK a : a \in MadeFor(g)
        BY <3>2
      <4>2. MadeFor(g) = {a}
        BY <1>1, <4>1 DEF MadeFor, TxInduction, OneApplication
      <4>3. QED
        BY <4>2, FS_Singleton
    <3>3. QED
      BY <3>1, <3>2
  <2>2. ASSUME NEW g \in Goods, NEW a \in MadeFor(g)
        PROVE  ~rows[g].cancelled /\ rows[g].id = a.id
    BY <1>1, <2>2 DEF MadeFor, TxInduction, OneApplication
  <2>3. QED
    BY <2>1, <2>2 DEF SettledOnce
<1>2. ASSUME TxInduction PROVE LimitPassedByFew
  <2>1. /\ Cardinality(Taken) \in Nat
        /\ Cardinality(Taken) + Cardinality(Counted) < DraftLimit + Cardinality(Workers)
    BY <1>2, FS_CardinalityType DEF TxInduction, CountedInTime
  <2>2. Counted \in SUBSET Workers
    BY DEF Counted
  <2>3. Cardinality(Counted) \in Nat /\ Cardinality(Workers) \in Nat
    BY <2>2, CountedFinite
  <2>4. Cardinality(Taken) < DraftLimit + Cardinality(Workers)
    BY <2>1, <2>3, LimitAssumption
  <2>5. QED
    BY <2>4 DEF LimitPassedByFew, Taken
<1>3. TxInduction => TxInv
  BY <1>1, <1>2 DEF TxInduction, TxInv
<1>4. QED
  BY <1>3, TxInvariant, PTL

\* When an application is committed, its draft shows what the order still is
\* and the policy that still holds, or that there still is none
\* (orderSnapshotChanged, confirm).
THEOREM CommitsAuthorised == TxSpec => AuthorisedAtCommit
<1> DEFINE Authorised(a) ==
             \E s \in shownRows :
               /\ s.id = a.id /\ s.good = a.good
               /\ s.content = a.content /\ s.content = content[a.good]
               /\ s.rule = rule[a.good]
           Step == \A a \in made' \ made : Authorised(a)
<1>1. ASSUME TxInduction, NEW w \in Workers, Commit(w), jobs[w].call = "confirm", WriteApplication(jobs[w])
      PROVE  Step
  <2> DEFINE j == jobs[w]
             g == jobs[w].good
  <2>1. PICK s \in shownRows : s.id = j.id /\ s.good = g /\ s.content = content[g] /\ s.rule = j.first
    BY <1>1, ConfirmFinds
  <2>2. PolicyJob(j) /\ j.step = "decided"
    BY <1>1, CommitFinds
  <2>3. s.rule = rule[g]
    BY <2>1, <2>2 DEF PolicyJob
  <2>4. \A a \in made' \ made : a.id = j.id /\ a.good = g /\ a.content = content[g]
    BY <1>1 DEF WriteApplication
  <2>5. QED
    BY <2>1, <2>3, <2>4
<1>2. ASSUME TxInduction, [TxNext]_txVars PROVE Step
  <2>1. made' = made \/ \E w \in Workers : Commit(w) /\ jobs[w].call = "confirm" /\ WriteApplication(jobs[w])
    BY <1>2 DEF TxNext, txVars, OpenTransaction, GetForService, ReadPolicy, CountDrafts, ReadPolicyAgain,
                Commit, RollBack, Stays, WriteDraft, WriteReview, WriteCancelled, CorrectOrder, RecordPolicy,
                HourPasses
  <2>2. QED
    BY <1>1, <1>2, <2>1
<1>3. QED
  BY <1>2, TxInvariant, PTL DEF TxSpec, AuthorisedAtCommit

\* A refreshed draft says something new, although the policy that it takes is
\* read again after the old draft was found stale (refresh).
THEOREM RefreshesShowNews == TxSpec => RefreshBringsNews
<1> DEFINE Step == \A g \in Goods :
                     rows[g].id # 0 /\ rows'[g].expires # rows[g].expires =>
                       <<rows'[g].content, rows'[g].rule>> # <<rows[g].content, rows[g].rule>>
<1>1. ASSUME TxInduction, NEW w \in Workers, Commit(w)
      PROVE  Step
  <2> DEFINE j == jobs[w]
             g == jobs[w].good
  <2>1. /\ g \in Goods /\ FoundJob(j) /\ PolicyJob(j) /\ InTx(j) /\ Granted(j)
        /\ j.id = 0 <=> j.call = "start"
        /\ j.call # "cancel" => j.step = "decided"
    BY <1>1, CommitFinds
  <2>2. rows \in [Goods -> RowRecords]
    BY <1>1 DEF TxInduction, TxTypeOK
  <2>3. CASE WriteReview(j) \/ WriteCancelled(j) \/ WriteApplication(j)
    BY <2>1, <2>2, <2>3 DEF WriteReview, WriteCancelled, WriteApplication, RowRecords
  <2>4. CASE j.call = "start" /\ WriteDraft(j)
    <3>1. rows[g].id = 0
      BY <2>1, <2>4 DEF FoundJob, RowOf
    <3>2. \A h \in Goods \ {g} : rows'[h] = rows[h]
      BY <2>2, <2>4 DEF WriteDraft
    <3>3. QED
      BY <3>1, <3>2
  <2>5. CASE j.call = "refresh" /\ WriteDraft(j)
    <3>1. /\ rows'[g].content = content[g] /\ rows'[g].rule = j.second
          /\ \A h \in Goods \ {g} : rows'[h] = rows[h]
      <4> DEFINE row == [NoRow EXCEPT !.id = NewId(j), !.content = content[g], !.rule = j.second,
                                      !.expires = clock + Hour]
      <4>1. row.content = content[g] /\ row.rule = j.second
        BY DEF NoRow
      <4> HIDE DEF row
      <4>2. rows' = [rows EXCEPT ![g] = row]
        BY <2>5 DEF WriteDraft, row
      <4>3. QED
        BY <2>1, <2>2, <4>1, <4>2
    <3>2. content[g] # rows[g].content \/ j.first # rows[g].rule
      BY <2>1, <2>5 DEF Granted, Stale, RowOf
    <3>3. j.second = j.first
      BY <2>1, <2>5 DEF PolicyJob
    <3>4. <<rows'[g].content, rows'[g].rule>> # <<rows[g].content, rows[g].rule>>
      BY <3>1, <3>2, <3>3
    <3>5. QED
      BY <3>1, <3>4
  <2>6. QED
    BY <1>1, <2>3, <2>4, <2>5 DEF Commit
<1>2. ASSUME TxInduction, [TxNext]_txVars PROVE Step
  <2>1. rows' = rows \/ \E w \in Workers : Commit(w)
    BY <1>2 DEF TxNext, txVars, OpenTransaction, GetForService, ReadPolicy, CountDrafts, ReadPolicyAgain,
                RollBack, Stays, CorrectOrder, RecordPolicy, HourPasses
  <2>2. QED
    BY <1>1, <1>2, <2>1
<1>3. QED
  BY <1>2, TxInvariant, PTL DEF TxSpec, RefreshBringsNews

----------------------------------------------------------------------------
(* The transactions implement the promise.                                 *)

\* What is neither written nor applied for stands as it stood.
LEMMA StandsStill ==
  ASSUME NEW h \in Goods, rows'[h].id = rows[h].id, rows'[h].content = rows[h].content,
         rows'[h].cancelled = rows[h].cancelled, MadeFor(h)' = {} <=> MadeFor(h) = {}
  PROVE  StandingDeal(h)' = StandingDeal(h)
BY DEF StandingDeal

LEMMA PromiseStutters ==
  ASSUME \A h \in Goods : StandingDeal(h)' = StandingDeal(h), shownRows' = shownRows
  PROVE  UNCHANGED StorePromise!promiseVars
<1> DEFINE deal == [h \in Goods |-> StandingDeal(h)]
           issued == {<<s.good, s.id>> : s \in shownRows}
<1>1. deal' = deal
  OBVIOUS
<1>2. issued' = issued
  OBVIOUS
<1>3. QED
  BY <1>1, <1>2 DEF StorePromise!promiseVars

\* A draft that is written is an offer: its id was never an offer's before,
\* and the order was neither given back nor cancelled.
LEMMA DraftIsOffer ==
  ASSUME TxInduction, NEW w \in Workers, NEW g \in Goods, jobs[w].good = g, Commit(w),
         jobs[w].call \in {"start", "refresh"}, WriteDraft(jobs[w])
  PROVE  StorePromise!Offer(g)
<1> DEFINE j == jobs[w]
           row == [NoRow EXCEPT !.id = NewId(j), !.content = content[g], !.rule = j.second,
                                !.expires = clock + Hour]
           shown == [id |-> row.id, good |-> g, content |-> row.content, rule |-> row.rule,
                     expires |-> row.expires]
           deal == [h \in Goods |-> StandingDeal(h)]
           issued == {<<s.good, s.id>> : s \in shownRows}
<1>1. TxTypeOK /\ ShownById
  BY DEF TxInduction
<1>2. InTx(j) /\ FoundJob(j) /\ (j.id = 0 <=> j.call = "start")
  BY CommitFinds
<1>3. /\ rows' = [rows EXCEPT ![g] = row] /\ shownRows' = shownRows \cup {shown} /\ made' = made
      /\ issuedIds[g] < MaxRows
  BY DEF WriteDraft
<1>4. PICK id \in 1 .. MaxRows : id = NewId(j) /\ id = issuedIds[g] + 1 /\ id # 0
  BY <1>1, <1>2, <1>3, LimitAssumption DEF TxTypeOK, NewId
<1>5. row.id = id /\ row.content = content[g] /\ row.cancelled = FALSE
  BY <1>4 DEF NoRow
<1>6. content[g] \in Contents
  BY <1>1, <1>2 DEF TxTypeOK
<1>7. shown.good = g /\ shown.id = id
  BY <1>5
<1> HIDE DEF row, shown
<1>8. rows'[g] = row /\ \A h \in Goods \ {g} : rows'[h] = rows[h]
  BY <1>1, <1>2, <1>3 DEF TxTypeOK
<1>9. MadeFor(g) = {} /\ \A h \in Goods : MadeFor(h)' = MadeFor(h)
  BY <1>2, <1>3 DEF FoundJob, MadeFor
<1>10. StandingDeal(g) = NothingStands \/ StandingDeal(g).phase = "open"
  <2>1. CASE j.call = "start"
    BY <1>2, <2>1 DEF FoundJob, RowOf, StandingDeal
  <2>2. CASE j.call = "refresh"
    <3>1. rows[g].id # 0 /\ ~rows[g].cancelled
      BY <1>2, <2>2 DEF FoundJob, RowOf
    <3>2. QED
      BY <1>9, <3>1 DEF StandingDeal
  <2>3. QED
    BY <2>1, <2>2
<1>11. StandingDeal(g)' = [phase |-> "open", id |-> <<g, id>>, terms |-> content[g]]
  BY <1>2, <1>4, <1>5, <1>8, <1>9 DEF StandingDeal
<1>12. \A h \in Goods \ {g} : StandingDeal(h)' = StandingDeal(h)
  BY <1>8, <1>9, StandsStill
<1>13. deal' = [deal EXCEPT ![g] = [phase |-> "open", id |-> <<g, id>>, terms |-> content[g]]]
  BY <1>2, <1>11, <1>12
<1>14. <<g, id>> \in (Goods \X (1 .. MaxRows)) \ issued
  <2>1. \A s \in shownRows : s.good \in Goods /\ s.id \in Nat /\ s.id <= issuedIds[s.good]
    BY <1>1 DEF TxTypeOK, ShownRecords, ShownById
  <2>2. \A s \in shownRows : ~(s.good = g /\ s.id = id)
    BY <1>1, <1>2, <1>4, <2>1 DEF TxTypeOK
  <2>3. QED
    BY <1>2, <1>4, <2>2
<1>15. issued' = issued \cup {<<g, id>>}
  BY <1>3, <1>7
<1>16. deal[g] = NothingStands \/ deal[g].phase = "open"
  BY <1>2, <1>10
<1> HIDE DEF deal, issued
<1>17. QED
  BY <1>6, <1>13, <1>14, <1>15, <1>16 DEF StorePromise!Offer, deal, issued

\* The first application for an order, and its cancellation, settle the
\* offer that stands.
LEMMA SettlesStanding ==
  ASSUME NEW g \in Goods, rows[g].id # 0, ~rows[g].cancelled, MadeFor(g) = {},
         NEW phase \in {"applied", "cancelled"},
         StandingDeal(g)' = [phase |-> phase, id |-> <<g, rows[g].id>>, terms |-> rows[g].content],
         \A h \in Goods \ {g} : StandingDeal(h)' = StandingDeal(h), shownRows' = shownRows
  PROVE  StorePromise!Settle(g, phase)
<1> DEFINE deal == [h \in Goods |-> StandingDeal(h)]
           issued == {<<s.good, s.id>> : s \in shownRows}
<1>1. StandingDeal(g) = [phase |-> "open", id |-> <<g, rows[g].id>>, terms |-> rows[g].content]
  BY DEF StandingDeal
<1>2. /\ deal[g] # NothingStands /\ deal[g].phase = "open"
      /\ deal[g].id = <<g, rows[g].id>> /\ deal[g].terms = rows[g].content
  BY <1>1 DEF NothingStands
<1>3. deal' = [deal EXCEPT ![g] = [phase |-> phase, id |-> deal[g].id, terms |-> deal[g].terms]]
  BY <1>2
<1>4. issued' = issued
  OBVIOUS
<1> HIDE DEF deal, issued
<1>5. QED
  BY <1>2, <1>3, <1>4 DEF StorePromise!Settle, deal, issued

LEMMA ApplicationSettles ==
  ASSUME TxInduction, NEW w \in Workers, NEW g \in Goods, jobs[w].good = g, Commit(w),
         jobs[w].call = "confirm", WriteApplication(jobs[w])
  PROVE  StorePromise!Settle(g, "applied")
<1> DEFINE j == jobs[w]
           new == [id |-> j.id, good |-> g, content |-> content[g], page |-> j.page]
<1>1. /\ InTx(j) /\ FoundJob(j) /\ j.id # 0
  BY CommitFinds
<1>2. rows[g].id = j.id /\ ~rows[g].cancelled /\ MadeFor(g) = {}
  BY <1>1 DEF FoundJob, RowOf
<1>3. made' = made \cup {new} /\ rows' = rows /\ shownRows' = shownRows
  BY <1>2 DEF WriteApplication, MadeFor
<1>4. new.good = g
  OBVIOUS
<1> HIDE DEF new
<1>5. MadeFor(g)' # {} /\ \A h \in Goods \ {g} : MadeFor(h)' = MadeFor(h)
  BY <1>3, <1>4 DEF MadeFor
<1>6. StandingDeal(g)' = [phase |-> "applied", id |-> <<g, rows[g].id>>, terms |-> rows[g].content]
  BY <1>1, <1>2, <1>3, <1>5 DEF StandingDeal
<1>7. \A h \in Goods \ {g} : StandingDeal(h)' = StandingDeal(h)
  BY <1>3, <1>5, StandsStill
<1>8. QED
  BY <1>1, <1>2, <1>3, <1>6, <1>7, SettlesStanding

LEMMA CancellationSettles ==
  ASSUME TxInduction, NEW w \in Workers, NEW g \in Goods, jobs[w].good = g, Commit(w),
         jobs[w].call = "cancel", WriteCancelled(jobs[w])
  PROVE  \/ StorePromise!Settle(g, "cancelled")
         \/ UNCHANGED StorePromise!promiseVars
<1> DEFINE j == jobs[w]
<1>1. /\ InTx(j) /\ FoundJob(j) /\ j.id # 0
  BY CommitFinds
<1>2. rows[g].id = j.id /\ MadeFor(g) = {} /\ rows[g] \in RowRecords /\ rows \in [Goods -> RowRecords]
  BY <1>1 DEF FoundJob, RowOf, TxInduction, TxTypeOK
<1>3. rows' = [rows EXCEPT ![g].cancelled = TRUE] /\ made' = made /\ shownRows' = shownRows
  BY DEF WriteCancelled
<1>4. /\ rows'[g].id = rows[g].id /\ rows'[g].content = rows[g].content /\ rows'[g].cancelled = TRUE
      /\ \A h \in Goods \ {g} : rows'[h] = rows[h]
  BY <1>1, <1>2, <1>3 DEF RowRecords
<1>5. \A h \in Goods : MadeFor(h)' = MadeFor(h)
  BY <1>3 DEF MadeFor
<1>6. \A h \in Goods \ {g} : StandingDeal(h)' = StandingDeal(h)
  BY <1>4, <1>5, StandsStill
<1>7. CASE rows[g].cancelled
  <2>1. rows'[g].cancelled = rows[g].cancelled
    BY <1>2, <1>4, <1>7 DEF RowRecords
  <2>2. StandingDeal(g)' = StandingDeal(g)
    BY <1>1, <1>4, <1>5, <2>1, StandsStill
  <2>3. QED
    BY <1>3, <1>6, <2>2, PromiseStutters
<1>8. CASE ~rows[g].cancelled
  <2>1. StandingDeal(g)' = [phase |-> "cancelled", id |-> <<g, rows[g].id>>, terms |-> rows[g].content]
    BY <1>1, <1>2, <1>4 DEF StandingDeal
  <2>2. QED
    BY <1>1, <1>2, <1>3, <1>6, <1>8, <2>1, SettlesStanding
<1>9. QED
  BY <1>7, <1>8

\* A review, and every statement before a commit, leave the deal alone.
LEMMA ReviewStutters ==
  ASSUME TxInduction, NEW w \in Workers, Commit(w), WriteReview(jobs[w])
  PROVE  UNCHANGED StorePromise!promiseVars
<1> DEFINE g == jobs[w].good
<1>1. g \in Goods /\ rows \in [Goods -> RowRecords]
  BY CommitFinds DEF TxInduction, TxTypeOK
<1>2. PICK review \in {"acceptable", "rejected"} : rows' = [rows EXCEPT ![g].review = review]
  BY DEF WriteReview
<1>3. made' = made /\ shownRows' = shownRows
  BY DEF WriteReview
<1>4. \A h \in Goods : /\ rows'[h].id = rows[h].id /\ rows'[h].content = rows[h].content
                       /\ rows'[h].cancelled = rows[h].cancelled
  BY <1>1, <1>2 DEF RowRecords
<1>5. \A h \in Goods : StandingDeal(h)' = StandingDeal(h)
  BY <1>3, <1>4, StandsStill DEF MadeFor
<1>6. QED
  BY <1>3, <1>5, PromiseStutters

\* Two requests for one order, served at the same time in any order of their
\* statements, never settle it twice nor under an offer that was replaced
\* (withLockedOrder): the store implements the promise.
THEOREM StorePromiseKept == TxSpec => StoreKeepsPromise
<1>1. TxInit => StorePromise!PromiseInit
  <2>1. SUFFICES ASSUME TxInit PROVE StorePromise!PromiseInit
    OBVIOUS
  <2>2. {<<s.good, s.id>> : s \in shownRows} = {}
    BY <2>1 DEF TxInit
  <2>3. \A g \in Goods : rows[g].id = 0
    BY <2>1 DEF TxInit, NoRow
  <2>4. \A g \in Goods : StandingDeal(g) = NothingStands
    BY <2>3 DEF StandingDeal
  <2>5. QED
    BY <2>2, <2>4 DEF StorePromise!PromiseInit
<1>2. TxInduction /\ [TxNext]_txVars => [StorePromise!PromiseNext]_(StorePromise!promiseVars)
  <2>1. SUFFICES ASSUME TxInduction, [TxNext]_txVars
                 PROVE  [StorePromise!PromiseNext]_(StorePromise!promiseVars)
    OBVIOUS
  <2>2. CASE UNCHANGED <<rows, made, shownRows>>
    <3>1. \A g \in Goods : StandingDeal(g)' = StandingDeal(g)
      BY <2>2, StandsStill DEF MadeFor
    <3>2. QED
      BY <2>2, <3>1, PromiseStutters
  <2>3. ASSUME NEW w \in Workers, Commit(w)
        PROVE  \/ UNCHANGED StorePromise!promiseVars
               \/ \E o \in Goods : \/ StorePromise!Offer(o)
                                   \/ StorePromise!Settle(o, "applied")
                                   \/ StorePromise!Settle(o, "cancelled")
    <3>1. PICK g \in Goods : jobs[w].good = g
      BY <2>1, <2>3, CommitFinds
    <3>2. \/ jobs[w].call \in {"start", "refresh"} /\ WriteDraft(jobs[w])
          \/ WriteReview(jobs[w])
          \/ jobs[w].call = "confirm" /\ WriteApplication(jobs[w])
          \/ jobs[w].call = "cancel" /\ WriteCancelled(jobs[w])
      BY <2>3 DEF Commit
    <3>3. QED
      BY <2>1, <2>3, <3>1, <3>2, DraftIsOffer, ApplicationSettles, CancellationSettles, ReviewStutters
  <2>4. UNCHANGED <<rows, made, shownRows>> \/ \E w \in Workers : Commit(w)
    BY <2>1 DEF TxNext, txVars, OpenTransaction, GetForService, ReadPolicy, CountDrafts, ReadPolicyAgain,
                RollBack, Stays, CorrectOrder, RecordPolicy, HourPasses
  <2>5. QED
    BY <2>2, <2>3, <2>4 DEF StorePromise!PromiseNext
<1>3. QED
  BY <1>1, <1>2, TxInvariant, PTL DEF TxSpec, StoreKeepsPromise, StorePromise!PromiseSpec

----------------------------------------------------------------------------
(* MCReturnRules: the rules over all facts, on every day.                  *)

\* What is on record stays in its columns' domains.
LEMMA RulesTyped == RulesSpec => []RulesTypeOK
<1>1. RulesInit => RulesTypeOK
  BY PromisesAssumption DEF RulesInit, RulesTypeOK, Tri
<1>2. RulesTypeOK /\ NextDay => RulesTypeOK'
  BY PromisesAssumption DEF RulesTypeOK, NextDay
<1>3. RulesTypeOK /\ RecordFact => RulesTypeOK'
  BY DEF RulesTypeOK, RecordFact
<1>4. RulesTypeOK /\ UNCHANGED rulesVars => RulesTypeOK'
  BY DEF RulesTypeOK, rulesVars
<1>5. QED
  BY <1>1, <1>2, <1>3, <1>4, PTL DEF RulesSpec, RulesNext

\* Of a delivered order only the reason decides.
LEMMA Delivered ==
  ASSUME NEW bought, bought.status = "delivered", bought.delivered = 0, NEW facts, NEW day \in Nat
  PROVE  LET reason == WindowReason(facts, day)
         IN  Evaluate(bought, facts, day) =
               [decision |-> IF reason \in WindowReasons THEN "NO_REASON_ALLOWED" ELSE "REASON_REQUIRED",
                reason |-> reason, fingerprint |-> facts]
<1>1. day - 0 = day /\ bought.delivered # NULL
  BY PromisesAssumption
<1>2. QED
  BY <1>1 DEF Evaluate

\* The chain of early returns gives one of the two windows exactly when
\* everything is on record and a window is open.
LEMMA InWindow ==
  ASSUME NEW facts, NEW day \in Nat
  PROVE  WindowReason(facts, day) \in WindowReasons <=>
           /\ FactsRecorded(facts)
           /\ facts.condition # "UNKNOWN" /\ facts.condition # "NOT_INTACT"
           /\ UseRecorded(facts)
           /\ Excluded(facts) => facts.exclusionConfirmed = "yes" \/ WithinPromise(facts, day)
           /\ Window(facts) > 0 /\ day <= Window(facts)
BY DEF WindowReason, WindowReasons

LEMMA WindowOf ==
  ASSUME NEW facts, FactsRecorded(facts), NEW day \in Nat
  PROVE  /\ facts.merchantDays \in Nat
         /\ Excluded(facts) => Window(facts) = facts.merchantDays
         /\ ~Excluded(facts) => Window(facts) = IF facts.merchantDays > 7 THEN facts.merchantDays ELSE 7
         /\ WithinPromise(facts, day) <=> facts.merchantDays > 0 /\ day <= facts.merchantDays
BY DEF FactsRecorded, Window, WithinPromise, NoReasonWindow

\* The same as one sentence: the last day without a reason.
LEMMA ByTable ==
  ASSUME NEW facts, NEW day \in Nat
  PROVE  WindowReason(facts, day) \in WindowReasons <=>
           /\ FactsRecorded(facts)
           /\ facts.condition # "UNKNOWN" /\ facts.condition # "NOT_INTACT"
           /\ UseRecorded(facts)
           /\ IF Excluded(facts) THEN facts.merchantDays > 0 /\ day <= facts.merchantDays
              ELSE day <= facts.merchantDays \/ day <= 7
<1>1. CASE FactsRecorded(facts)
  <2>1. CASE Excluded(facts)
    BY <1>1, <2>1, InWindow, WindowOf
  <2>2. CASE ~Excluded(facts)
    <3>1. Window(facts) > 0 /\ (day <= Window(facts) <=> day <= facts.merchantDays \/ day <= 7)
      BY <1>1, <2>2, WindowOf
    <3>2. QED
      BY <1>1, <2>2, <3>1, InWindow
  <2>3. QED
    BY <2>1, <2>2
<1>2. CASE ~FactsRecorded(facts)
  BY <1>2, InWindow
<1>3. QED
  BY <1>1, <1>2

LEMMA TableKept ==
  ASSUME RulesTypeOK
  PROVE  NoReasonExactlyByTable
<1>1. CASE order.status = "delivered"
  <2>1. Verdict.decision = "NO_REASON_ALLOWED" <=> WindowReason(policy, today) \in WindowReasons
    BY <1>1, Delivered DEF Verdict, RulesTypeOK
  <2>2. policy.condition # "UNKNOWN" /\ policy.condition # "NOT_INTACT"
          <=> policy.condition \in {"INTACT", "REASONABLE_INSPECTION"}
    BY DEF RulesTypeOK, Conditions
  <2>3. FactsRecorded(policy) =>
          ((IF Excluded(policy) THEN policy.merchantDays > 0 /\ today <= policy.merchantDays
            ELSE today <= policy.merchantDays \/ today <= 7) <=> today <= LastNoReasonDay)
    BY WindowOf DEF RulesTypeOK, LastNoReasonDay
  <2>4. QED
    BY <1>1, <2>1, <2>2, <2>3, ByTable DEF RulesTypeOK, NoReasonExactlyByTable
<1>2. CASE order.status # "delivered"
  BY <1>2 DEF Verdict, Evaluate, NoReasonExactlyByTable
<1>3. QED
  BY <1>1, <1>2

LEMMA OpenFactsKept ==
  ASSUME RulesTypeOK
  PROVE  OpenFactsGoToAPerson
<1>1. SUFFICES ASSUME order.status = "delivered",
                      \/ ~FactsRecorded(policy)
                      \/ policy.condition = "UNKNOWN"
                      \/ /\ policy.condition # "NOT_INTACT"
                         /\ Excluded(policy)
                         /\ policy.exclusionConfirmed # "yes"
                         /\ today > LastNoReasonDay
               PROVE  PersonalReview.decision = "MANUAL_REVIEW"
  BY DEF OpenFactsGoToAPerson
<1>2. WindowReason(policy, today) \in OpenFacts
  <2>1. CASE ~FactsRecorded(policy) \/ policy.condition = "UNKNOWN" \/ ~UseRecorded(policy)
    BY <1>1, <2>1 DEF WindowReason, OpenFacts
  <2>2. CASE FactsRecorded(policy) /\ policy.condition # "UNKNOWN" /\ UseRecorded(policy)
    <3>1. /\ policy.condition # "NOT_INTACT" /\ Excluded(policy)
          /\ policy.exclusionConfirmed # "yes" /\ today > LastNoReasonDay
      BY <1>1, <2>2
    <3>2. ~WithinPromise(policy, today)
      BY <2>2, <3>1, WindowOf DEF RulesTypeOK, LastNoReasonDay
    <3>3. QED
      BY <2>2, <3>1, <3>2 DEF WindowReason, OpenFacts
  <2>3. QED
    BY <2>1, <2>2
<1>3. /\ Verdict.decision = "REASON_REQUIRED" /\ Verdict.reason = WindowReason(policy, today)
  BY <1>1, <1>2, Delivered DEF Verdict, RulesTypeOK, OpenFacts, WindowReasons
<1>4. QED
  BY <1>2, <1>3 DEF PersonalReview, Review

\* What an order is worth, by the window alone.
LEMMA RankByWindow ==
  ASSUME RulesTypeOK, NEW facts, NEW day \in Nat
  PROVE  Rank(Evaluate(order, facts, day).decision) =
           IF order.status # "delivered" THEN 0
           ELSE IF WindowReason(facts, day) \in WindowReasons THEN 2 ELSE 1
<1>1. CASE order.status = "delivered"
  BY <1>1, Delivered DEF RulesTypeOK, Rank
<1>2. CASE order.status # "delivered"
  BY <1>2 DEF Evaluate, Rank
<1>3. QED
  BY <1>1, <1>2

LEMMA PromiseNeverHurts ==
  ASSUME RulesTypeOK
  PROVE  LongerPromiseNeverHurts
<1>1. SUFFICES ASSUME NEW m \in Promises \ {NULL}, policy.merchantDays # NULL, m > policy.merchantDays
               PROVE  Rank(Evaluate(order, [policy EXCEPT !.merchantDays = m], today).decision)
                        >= Rank(Verdict.decision)
  BY DEF LongerPromiseNeverHurts
<1>2. PICK more : more = [policy EXCEPT !.merchantDays = m]
  OBVIOUS
<1>3. /\ more.merchantDays = m /\ more.category = policy.category /\ more.condition = policy.condition
      /\ more.exclusionConfirmed = policy.exclusionConfirmed
      /\ more.downloadedOrUnsealed = policy.downloadedOrUnsealed
      /\ more.activated = policy.activated /\ more.version = policy.version
  BY <1>2 DEF RulesTypeOK
<1>4. m \in 0 .. 365 /\ m # NULL /\ today \in Nat /\ policy.merchantDays \in Nat
  <2>1. policy.merchantDays \in Promises /\ today \in Nat
    BY DEF RulesTypeOK
  <2>2. \A p \in Promises : p # NULL => p \in 0 .. 365
    BY PromisesAssumption
  <2>3. \A p \in 0 .. 365 : p \in Nat
    OBVIOUS
  <2>4. QED
    BY <1>1, <2>1, <2>2, <2>3
<1>5. /\ FactsRecorded(policy) => FactsRecorded(more)
      /\ UseRecorded(more) <=> UseRecorded(policy)
      /\ Excluded(more) <=> Excluded(policy)
  BY <1>3, <1>4 DEF FactsRecorded, UseRecorded, Excluded
<1>6. WindowReason(policy, today) \in WindowReasons => WindowReason(more, today) \in WindowReasons
  BY <1>1, <1>3, <1>4, <1>5, ByTable
<1>7. QED
  BY <1>2, <1>4, <1>6, RankByWindow DEF Verdict

LEMMA AgeKept ==
  ASSUME RulesTypeOK
  PROVE  AgeNeverHelps
<1>1. SUFFICES ASSUME NEW later \in today .. MaxDay
               PROVE  Rank(Evaluate(order, policy, later).decision) <= Rank(Verdict.decision)
  BY DEF AgeNeverHelps
<1>2. today \in Nat /\ later \in Nat /\ today <= later
  BY DEF RulesTypeOK
<1>3. WindowReason(policy, later) \in WindowReasons => WindowReason(policy, today) \in WindowReasons
  <2>1. FactsRecorded(policy) => policy.merchantDays \in Nat
    BY DEF FactsRecorded
  <2>2. QED
    BY <1>2, <2>1, ByTable
<1>4. QED
  BY <1>2, <1>3, RankByWindow DEF Verdict

\* The reasons an eligibility can give.
LEMMA VerdictReasons ==
  ASSUME RulesTypeOK
  PROVE  \/ Verdict.decision = "NOT_ALLOWED" /\ Verdict.reason \in {"ORDER_CANCELLED", "ORDER_NOT_DELIVERED"}
         \/ Verdict.decision = "NO_REASON_ALLOWED"
         \/ /\ Verdict.decision = "REASON_REQUIRED"
            /\ Verdict.reason \in OpenFacts \cup
                 {"PRODUCT_NOT_INTACT", "NO_REASON_CATEGORY_EXCLUDED", "NO_REASON_WINDOW_EXPIRED"}
<1>1. CASE order.status = "delivered"
  <2>1. WindowReason(policy, today) \in WindowReasons \cup OpenFacts \cup
          {"PRODUCT_NOT_INTACT", "NO_REASON_CATEGORY_EXCLUDED", "NO_REASON_WINDOW_EXPIRED"}
    BY DEF WindowReason, WindowReasons, OpenFacts
  <2>2. QED
    BY <1>1, <2>1, Delivered DEF Verdict, RulesTypeOK
<1>2. CASE order.status # "delivered"
  BY <1>2 DEF Verdict, Evaluate
<1>3. QED
  BY <1>1, <1>2

LEMMA ReviewsTaken ==
  ASSUME RulesTypeOK
  PROVE  ReviewClientTakesEveryReview
<1>1. SUFFICES ASSUME NEW code \in ReasonCodes
               PROVE  ReviewClientAccepts(Review(Verdict, code))
  BY DEF ReviewClientTakesEveryReview
<1>2. CASE Verdict.decision = "NOT_ALLOWED"
  BY <1>2, VerdictReasons DEF Review, ReviewClientAccepts, ContractReasons, OpenFacts
<1>3. CASE Verdict.decision # "NOT_ALLOWED" /\ code \in {"QUALITY_ISSUE", "OTHER"}
  BY <1>3 DEF Review, ReviewClientAccepts, ContractReasons, OpenFacts
<1>4. CASE Verdict.decision = "NO_REASON_ALLOWED" /\ code \notin {"QUALITY_ISSUE", "OTHER"}
  BY <1>4 DEF Review, ReviewClientAccepts, ContractReasons, OpenFacts
<1>5. CASE Verdict.decision = "REASON_REQUIRED" /\ code \notin {"QUALITY_ISSUE", "OTHER"}
  BY <1>5, VerdictReasons DEF Review, ReviewClientAccepts, ContractReasons, OpenFacts
<1>6. QED
  BY <1>2, <1>3, <1>4, <1>5, VerdictReasons

\* Whatever is on record and however many days passed: a return without a
\* reason is allowed exactly by the documented table, gaps go to a person, a
\* longer promise never hurts and age never helps, and the review client takes
\* every answer (ReturnEligibilityService, ReturnReviewService).
THEOREM RulesKept == RulesSpec => []RulesInv
<1>1. RulesTypeOK => RulesInv
  BY TableKept, OpenFactsKept, PromiseNeverHurts, AgeKept, ReviewsTaken DEF RulesInv
<1>2. QED
  BY <1>1, RulesTyped, PTL
=============================================================================
