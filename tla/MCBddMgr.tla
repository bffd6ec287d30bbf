------------------------------ MODULE MCBddMgr ------------------------------
(***************************************************************************)
(* BddMgr with small numbers of supports, names and slots.                 *)
(***************************************************************************)
EXTENDS BddMgr

CONSTANTS nameA, nameB

(* The commands treat all names alike.                                      *)
NameSymmetry == Permutations(Names)

=============================================================================
