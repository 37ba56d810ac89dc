---------------------------------- MODULE Orders ----------------------------------
(***************************************************************************)
(* What sorted(), ORDER BY and list comprehensions do, without recursion:  *)
(* an element stands at the place that the number of those before it gives.*)
(***************************************************************************)
EXTENDS Integers, Sequences, FiniteSets

(* earlier: for every element of S those that come before it.              *)
RankedBy(S, earlier) ==
  [k \in 1..Cardinality(S) |-> CHOOSE x \in S : Cardinality(earlier[x]) = k - 1]

InOrder(S, before(_,_)) == RankedBy(S, [x \in S |-> {y \in S : before(y, x)}])

(* ORDER BY a column: rows with the same key come in any order.            *)
OrderedBy(S, key) ==
  CHOOSE rows \in [1..Cardinality(S) -> S] :
    \A i, j \in 1..Cardinality(S) :
      i < j => rows[i] # rows[j] /\ key[rows[i]] <= key[rows[j]]

SubSeqAt(seq, places) ==
  LET at == InOrder(places, LAMBDA i, j : i < j) IN [k \in DOMAIN at |-> seq[at[k]]]

Filter(seq, Test(_)) == SubSeqAt(seq, {i \in DOMAIN seq : Test(seq[i])})
=============================================================================
