----------------------------- MODULE Subsequences -----------------------------
(* The elements of a sequence at some of its indexes, in their order: what    *)
(* Array.filter leaves of an array, and a Set of what it has.  They are       *)
(* counted out, not taken one by one, so that they can be reasoned about      *)
(* without recursion.                                                         *)
EXTENDS Naturals, Sequences, FiniteSets

(* The k-th of a set of indexes.                                              *)
Nth(I, k) == CHOOSE i \in I : Cardinality({j \in I : j <= i}) = k

Subsequence(s, I) == [k \in 1..Cardinality(I) |-> s[Nth(I, k)]]

(* Each element where it comes first.                                         *)
Distinct(s) == Subsequence(s, {i \in DOMAIN s : \A j \in 1..(i - 1) : s[j] # s[i]})
=============================================================================
