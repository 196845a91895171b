------------------------------- MODULE Ordering -------------------------------
(* Lists made of the members of a finite set, in an order; and what is left   *)
(* of a list when some of its places are kept.                                *)
EXTENDS Naturals, FiniteSets

\* The members of P that come before n: R holds the pairs in order.
Below(P, R, n) == {m \in P : <<m, n>> \in R}

InOrder(P, R) ==
  [k \in 1 .. Cardinality(P) |-> CHOOSE n \in P : Cardinality(Below(P, R, n)) = k - 1]

Ascending(P) == {p \in P \X P : p[1] < p[2]}

\* The entries of list at the given places, in the order they have there.
At(list, places) ==
  LET order == InOrder(places, Ascending(places))
  IN  [k \in 1 .. Cardinality(places) |-> list[order[k]]]
=============================================================================
