------------------------------ MODULE Sorting -------------------------------
(***************************************************************************)
(* What sorted() and a list comprehension with a condition make, stated by *)
(* their results, so that they can be reasoned about as well as evaluated. *)
(***************************************************************************)
EXTENDS Integers, Sequences, FiniteSets

\* the elements of S in an order; `before` holds the pairs of a strict total order
Sorted(S, before) ==
    [n \in 1..Cardinality(S) |->
        CHOOSE x \in S : Cardinality({y \in S : <<y, x>> \in before}) = n - 1]

Increasing(S) == Sorted(S, {pair \in S \X S : pair[1] < pair[2]})

\* [x for x in s if x in T]
Keep(s, T) ==
    LET at == Increasing({i \in DOMAIN s : s[i] \in T})
    IN  [k \in DOMAIN at |-> s[at[k]]]
=============================================================================
