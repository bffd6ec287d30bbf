----------------------------- MODULE Induction -----------------------------
(***************************************************************************)
(* Induction over the naturals, stated of a set instead of a predicate so  *)
(* that the provers can instantiate it.  It rests on the well-foundedness  *)
(* of strict inclusion between finite sets: of the numbers not in the set  *)
(* take the one whose initial segment is least.                            *)
(***************************************************************************)
EXTENDS Integers, FiniteSets, WellFoundedInduction, FiniteSetTheorems, TLAPS

(* A set that holds 0, and with a number below m the next one, holds every  *)
(* number up to m.                                                          *)
LEMMA UpTo ==
  ASSUME NEW S, NEW m \in Nat, 0 \in S,
         \A n \in Nat : n \in S /\ n < m => n + 1 \in S
  PROVE  \A n \in 0 .. m : n \in S
<1> DEFINE R == StrictSubsetOrdering(Nat)
           T == {n \in 0 .. m : n \notin S}
           U == {0 .. n : n \in T}
<1>1. IsWellFoundedOn(R, FiniteSubsetsOf(Nat))
  BY FS_StrictSubsetOrderingWellFounded
<1>2. SUFFICES ASSUME T # {} PROVE FALSE
  OBVIOUS
<1>3. U \subseteq FiniteSubsetsOf(Nat)
  <2>1. ASSUME NEW n \in T PROVE 0 .. n \in FiniteSubsetsOf(Nat)
    <3>1. 0 \in Int /\ n \in Int
      OBVIOUS
    <3>2. IsFiniteSet(0 .. n)
      BY <3>1, FS_Interval
    <3>3. 0 .. n \in SUBSET Nat
      OBVIOUS
    <3>4. QED
      BY <3>2, <3>3 DEF FiniteSubsetsOf
  <2>2. QED
    BY <2>1
<1>4. U # {}
  BY <1>2
<1>5. PICK u \in U : \A y \in U : ~(<<y, u>> \in R)
  <2> HIDE DEF R, U
  <2>1. QED
    BY <1>1, <1>3, <1>4, WFMin
<1>6. PICK x \in T : u = 0 .. x
  OBVIOUS
<1>7. x - 1 \in 0 .. m /\ x - 1 < m /\ x - 1 \notin S
  <2>1. x # 0
    OBVIOUS
  <2>2. x - 1 \in 0 .. m /\ x - 1 < m /\ (x - 1) + 1 = x
    BY <2>1
  <2>3. QED
    BY <2>2
<1>8. <<0 .. x - 1, u>> \in R
  BY <1>6, <1>7 DEF StrictSubsetOrdering
<1>9. QED
  BY <1>5, <1>7, <1>8

(* A set that holds 0 and with every number the next one holds them all.    *)
LEMMA AllNumbers ==
  ASSUME NEW S, 0 \in S, \A n \in Nat : n \in S => n + 1 \in S
  PROVE  \A n \in Nat : n \in S
<1>1. ASSUME NEW n \in Nat PROVE n \in S
  <2>1. \A k \in 0 .. n : k \in S
    BY UpTo
  <2>2. QED
    BY <2>1
<1>2. QED
  BY <1>1
=============================================================================
