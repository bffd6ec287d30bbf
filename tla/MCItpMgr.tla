------------------------------ MODULE MCItpMgr ------------------------------
EXTENDS ItpMgr

\* The onset says that 1 or 2 holds, by way of 0; the offset, by way of 3,
\* that neither does.  Clauses that are dropped and units come in between.
MCOn == {{0, 2, 4}, {1, 2, 4}, {0, 1, 2}}
Both == <<{0, 2, 4}, {0, 1, 2}, {3, 6}, {1, 2, 4}, {3, 7}, {5, 6}, {5, 7}>>

\* A unit of the onset satisfies a clause of the offset before it is added.
UnitOn == {{0}, {1, 2}}
Early == <<{0}, {0, 6}, {1, 2}, {3, 4, 6}, {3, 5, 6}, {3, 7}>>

MCProblems == {Both, Early}
MCOnSets == {MCOn, UnitOn}
MCQuestions == {<<>>}
=============================================================================
