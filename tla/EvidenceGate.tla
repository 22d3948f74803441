---------------------------- MODULE EvidenceGate ----------------------------
(***************************************************************************)
(* evidence_support.py: may a passage of a document be used to answer a    *)
(* question?  A text is a sequence of sentences, a sentence a sequence of  *)
(* clauses; of a clause only matters what its patterns find: the business  *)
(* topics, the identifiers, the grades of a topic ("high" tickets,         *)
(* "emergency" refunds), the types of facts it states, and whether it      *)
(* reports something already done.                                         *)
(*                                                                         *)
(* A clause may leave its subject out and go on with the one before; a     *)
(* fact must not be borrowed from a clause about something else.           *)
(***************************************************************************)
EXTENDS Sequences, SequencesExt

CONSTANTS
  PolicyQuestions, \* records topics, ids, labels, types; labels are <<topic, grade>>
  Clauses,         \* records topics, ids, labels, types, done
  MaxClauses       \* bound: clauses of the text

VARIABLES
  sought,        \* the question
  text           \* the passage, a sequence of sentences

gateVars == <<sought, text>>

Subject == {"topics", "ids", "labels"}
Vocabulary(f) == UNION {c[f] : c \in PolicyQuestions \cup Clauses}

\* What the patterns find in a question, a clause, or a unit of clauses.
Statements ==
  [topics : SUBSET Vocabulary("topics"), ids : SUBSET Vocabulary("ids"),
   labels : SUBSET Vocabulary("labels"), types : SUBSET Vocabulary("types"), done : BOOLEAN]

\* A question is only searched for the grades of its own topics.
ASSUME StatementsAssumption ==
  /\ PolicyQuestions \cup Clauses \subseteq Statements
  /\ \A q \in PolicyQuestions : \A l \in q.labels : l[1] \in q.topics

Blank == [topics |-> {}, ids |-> {}, labels |-> {}, types |-> {}, done |-> FALSE]

\* Grades count only for topics of the question.
Relevant(q, clause) == [clause EXCEPT !.labels = {l \in @ : l[1] \in q.topics}]

----------------------------------------------------------------------------
(* _scoped_units                                                           *)

\* Seeded fault: only a new topic opens a new context.
ChangedTopic(unit, clause) ==
  unit.topics # {} /\ clause.topics # {} /\ unit.topics # clause.topics

\* A clause that names a subject other than the unit's opens a new unit.
Changed(unit, clause) ==
  \E f \in Subject : unit[f] # {} /\ clause[f] # {} /\ unit[f] # clause[f]

Merged(unit, clause) ==
  [topics |-> unit.topics \cup clause.topics, ids |-> unit.ids \cup clause.ids,
   labels |-> unit.labels \cup clause.labels, types |-> unit.types \cup clause.types,
   done |-> unit.done \/ clause.done]

Extended(units, clause) ==
  IF units = <<>> \/ Changed(Last(units), clause) THEN Append(units, clause)
  ELSE [units EXCEPT ![Len(units)] = Merged(@, clause)]

\* The clauses of a sentence from left to right.
Scoped(q, sentence) ==
  LET units[n \in 0 .. Len(sentence)] ==
        IF n = 0 THEN <<>> ELSE Extended(units[n - 1], Relevant(q, sentence[n]))
  IN  units[Len(sentence)]

Units(q, passage) == UNION {ToSet(Scoped(q, sentence)) : sentence \in ToSet(passage)}

----------------------------------------------------------------------------
(* assess_evidence_for_question                                            *)

\* A report of what was done tells nobody how to do it.
Provided(unit) == IF unit.done THEN unit.types \ {"procedure"} ELSE unit.types

Grades(labels, topic) == {l \in labels : l[1] = topic}

\* _qualifier_decision
Qualifier(q, unit) ==
  LET open == {t \in q.topics : ~ Grades(q.labels, t) \subseteq Grades(unit.labels, t)}
  IN  IF open = {} THEN "match"
      ELSE IF \A t \in open : Grades(unit.labels, t) = {} THEN "uncertain" ELSE "conflict"

\* What a unit is for the question: its own, unclear, or about something else.
Fit(q, unit) ==
  IF ~ q.topics \subseteq unit.topics
  THEN IF unit.topics = {} \/ q.topics \cap unit.topics # {} THEN "unclear" ELSE "other"
  ELSE IF ~ q.ids \subseteq unit.ids THEN "other"
  ELSE IF unit.topics # q.topics /\ q.topics # {} /\ q.ids = {} THEN "unclear"
  ELSE CASE Qualifier(q, unit) = "match" -> "own"
         [] Qualifier(q, unit) = "uncertain" -> "unclear"
         [] Qualifier(q, unit) = "conflict" -> "other"

Identifiers(passage) == UNION {c.ids : c \in UNION {ToSet(s) : s \in ToSet(passage)}}

\* Seeded fault: a unit about something else leaves the passage to the reviewer.
AssessStrictly(q, passage) ==
  IF \E u \in Units(q, passage) : Fit(q, u) = "other" THEN "uncertain"
  ELSE IF \E u \in Units(q, passage) : Fit(q, u) = "own" /\ q.types \subseteq Provided(u)
       THEN "admit" ELSE "uncertain"

\* Seeded fault: what a unit lacks is missing, unclear or not.
AssessHastily(q, passage) ==
  LET own == {u \in Units(q, passage) : Fit(q, u) = "own"}
  IN  IF own # {} /\ q.types \subseteq UNION {Provided(u) : u \in own} THEN "admit" ELSE "reject"

Assess(q, passage) ==
  LET units == Units(q, passage)
      own == {u \in units : Fit(q, u) = "own"}
      unclear == \E u \in units : Fit(q, u) = "unclear"
      provided == UNION {Provided(u) : u \in own}
  IN  IF q.topics = {} /\ q.ids = {} THEN "uncertain"
      ELSE IF ~ q.ids \subseteq Identifiers(passage) THEN "reject"
      ELSE IF q.types = {} THEN "uncertain"
      ELSE IF own # {} /\ (q.types \subseteq provided \/ (q.types = {"overview"} /\ provided # {}))
        THEN "admit"
      ELSE IF ~unclear /\ (own = {} \/ (provided # {} /\ q.types \cap provided = {})) THEN "reject"
      ELSE "uncertain"

----------------------------------------------------------------------------
(* The texts: a question is asked, then a passage grows clause by clause.  *)

Ask ==
  /\ sought = Blank
  /\ sought' \in PolicyQuestions
  /\ UNCHANGED text

Write ==
  /\ sought # Blank
  /\ FoldLeft(LAMBDA n, s : n + Len(s), 0, text) < MaxClauses
  /\ \E c \in Clauses :
       \/ text' = Append(text, <<c>>)
       \/ text # <<>> /\ text' = [text EXCEPT ![Len(text)] = Append(@, c)]
  /\ UNCHANGED sought

GateInit == sought = Blank /\ text = <<>>
GateNext == Ask \/ Write
GateSpec == GateInit /\ [][GateNext]_gateVars

----------------------------------------------------------------------------
(* Correctness.                                                            *)

Facts(q) == q.types \ {"overview"}

\* Clause k of sentence s is about what the question names: for each kind of
\* subject asked for, some clause of the sentence names it and none between
\* the two names another.
About(q, s, k) ==
  \A f \in Subject : q[f] # {} =>
    \E j \in DOMAIN s :
      LET named == Relevant(q, s[j])[f]
      IN  /\ q[f] \subseteq named
          /\ \A i \in DOMAIN s : i \in k .. j \cup j .. k => Relevant(q, s[i])[f] \in {{}, named}

\* A passage is only admitted for facts it states about the topic, the
\* identifier and the grade of the question, "so that no fact type is
\* borrowed across businesses" (assess_evidence_for_question), however the
\* subjects of a sentence change or are left out.
NothingBorrowed ==
  sought # Blank /\ Assess(sought, text) = "admit" =>
    \A fact \in Facts(sought) : \E n \in DOMAIN text : \E k \in DOMAIN text[n] :
      fact \in text[n][k].types /\ About(sought, text[n], k)

\* A passage with a clause that itself names all that is asked about and
\* states a fact asked for is left to the reviewer at least, unless its
\* sentence reports something done: rejected passages are shown to nobody.
NoAnswerRejected ==
  (sought # Blank /\ \E n \in DOMAIN text, k \in 1 .. MaxClauses :
     /\ k \in DOMAIN text[n]
     /\ \A f \in Subject : sought[f] \subseteq text[n][k][f]
     /\ sought.types \cap text[n][k].types # {}
     /\ \A i \in DOMAIN text[n] : ~text[n][i].done)
    => Assess(sought, text) # "reject"

\* Another sentence, whatever it is about, never takes back what the
\* sentences before it were admitted for.
MoreTextNeverHurts ==
  sought # Blank =>
    \A n \in DOMAIN text : Assess(sought, SubSeq(text, 1, n)) = "admit" => Assess(sought, text) = "admit"

\* The gate on both sides: it neither admits what is about something else
\* nor throws away what answers.
GateInv == NothingBorrowed /\ NoAnswerRejected /\ MoreTextNeverHurts
=============================================================================
