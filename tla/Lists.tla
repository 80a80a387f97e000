-------------------------------- MODULE Lists --------------------------------
(***************************************************************************)
(* Parts of a list, by the indices they have in it: what selecting,        *)
(* sorting and halving come to, said without recursion.                    *)
(***************************************************************************)
EXTENDS Integers, Sequences, FiniteSets

\* The k-th of a set of indices, and what a list holds at them, in order.
Nth(I, k)    == CHOOSE i \in I : Cardinality({j \in I : j < i}) = k - 1
Picked(s, I) == [k \in 1 .. Cardinality(I) |-> s[Nth(I, k)]]

\* What a list has of a set, in order.
Where(s, S) == Picked(s, {i \in 1 .. Len(s) : s[i] \in S})

\* The lengths reached by halving n again and again: the least set with n and,
\* with every length, its half.
Halvings(n) ==
    {m \in 0 .. n : \A S \in SUBSET (0 .. n) :
                        n \in S /\ (\A i \in S : i \div 2 \in S) => m \in S}
=============================================================================
