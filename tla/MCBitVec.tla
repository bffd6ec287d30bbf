------------------------------ MODULE MCBitVec ------------------------------
EXTENDS BitVec

\* Two words, and a bit beyond the size at three bits; the amounts are shorter
\* than the vector where a longer one would shift by more than its size.
MCShiftSizes == <<{1}, {1, 2}, {1, 2}>>
=============================================================================
