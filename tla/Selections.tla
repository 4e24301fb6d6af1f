----------------------------- MODULE Selections -----------------------------
(***************************************************************************)
(* What a filter leaves of a list, as the code's filter(): the elements at *)
(* some of its places, in their order.  SelectSeq is recursive; this form  *)
(* can be reasoned about.                                                  *)
(***************************************************************************)
EXTENDS Integers, FiniteSets

\* The k-th of a set of places.
Nth(S, k) == CHOOSE i \in S : Cardinality({j \in S : j < i}) = k - 1

\* The elements of a sequence at some of its places.
Only(s, S) == [k \in 1..Cardinality(S) |-> s[Nth(S, k)]]
=============================================================================
