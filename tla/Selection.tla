------------------------------- MODULE Selection -------------------------------
(***************************************************************************)
(* The elements of a sequence at some of its places, in their order: what  *)
(* a loop that passes over some elements leaves.                           *)
(***************************************************************************)
EXTENDS Naturals, Sequences, FiniteSets

Upto(S, n) == {i \in S : i <= n}

(* The k-th of a finite set of numbers. *)
Nth(S, k) == CHOOSE n \in S : Cardinality(Upto(S, n)) = k

Selected(s, places) == [k \in 1..Cardinality(places) |-> s[Nth(places, k)]]
=============================================================================
