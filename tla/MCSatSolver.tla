---------------------------- MODULE MCSatSolver ----------------------------
EXTENDS SatSolver

\* Literals 0 and 1 are variable 0 and its negation, 2 and 3 variable 1, ...
Bit(k, i) == (k \div 2 ^ i) % 2

\* Every clause of three variables: no assignment is left.
Refutable == [i \in 1 .. 8 |-> {Bit(i - 1, 0), 2 + Bit(i - 1, 1), 4 + Bit(i - 1, 2)}]

\* Units and implications: most of it is settled at level 0, late.
Chain4 == <<{1, 2}, {3, 4, 6}, {3, 4, 7}, {5, 6, 2}, {0}, {5, 7}, {0, 1}, {5, 5, 6}>>

\* A learnt clause of which two literals follow from a third; under the
\* assumptions 2 and 4 they do not, and reduceDB may later forget the clause.
Layers == <<{0, 2}, {0, 3, 4}, {0, 3, 5, 6, 8}, {0, 3, 5, 6, 9}>>

MCProblems == {Refutable, Chain4, Layers}
MCQuestions == {<<>>, <<1>>, <<2, 4>>}
MCBudgets == {1}
=============================================================================
