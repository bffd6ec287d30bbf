---------------------------- MODULE MCProofFile ----------------------------
EXTENDS ProofFile

\* Literals about which the length of a number changes: 2 * 63 and 2 * 64,
\* 2 * 4095 and 2 * 4096, 2 * 2^20, and 2 * 2^28; 0, and a distance of 1.
MCClauses == {<<0, 1, 64>>, <<63, 8254>>, <<4095>>, <<4096, 1052672>>, <<1048576>>, <<268435456>>}

\* Variables are logged one up: 128 is the first of two bytes.
MCVars == {0, 127}
=============================================================================
