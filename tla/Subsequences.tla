---------------------------- MODULE Subsequences ----------------------------
(* Sets in an order of one's own, and the elements of a sequence that are in *)
(* a set, written so that they can be reasoned about.                        *)
EXTENDS Naturals, Sequences, FiniteSets

Sorted(S, before(_, _)) ==
  [k \in 1..Cardinality(S) |-> CHOOSE i \in S : Cardinality({j \in S : before(j, i)}) = k - 1]
Ascending(S) == Sorted(S, LAMBDA i, j : i < j)

\* The elements of s that are in S, in their order.
Those(s, S) ==
  LET at == {k \in DOMAIN s : s[k] \in S}
  IN [k \in 1..Cardinality(at) |-> s[Ascending(at)[k]]]

\* The elements of s but x.
But(s, x) == Those(s, {s[k] : k \in DOMAIN s} \ {x})
=============================================================================
