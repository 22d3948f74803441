----------------------------- MODULE Ordering -----------------------------
(***************************************************************************)
(* Python's sorted and [:n], for the modules that rank turns and chunks.   *)
(***************************************************************************)
EXTENDS Integers, FiniteSets, Sequences

\* A set as a sequence, each after those that are ahead of it.
Ordered(ahead) ==
  [n \in 1 .. Cardinality(DOMAIN ahead) |-> CHOOSE p \in DOMAIN ahead : Cardinality(ahead[p]) = n - 1]

Lower(a, b) == IF a < b THEN a ELSE b

FirstItems(items, n) == SubSeq(items, 1, Lower(Len(items), n))

\* Those of a sequence that are in a set, in their order.
KeptItems(items, set) ==
  LET places == {p \in DOMAIN items : items[p] \in set}
      order == Ordered([p \in places |-> {q \in places : q < p}])
  IN  [n \in DOMAIN order |-> items[order[n]]]
=============================================================================
