----------------------------- MODULE MCBddProve -----------------------------
(***************************************************************************)
(* BddProve checked on families of small circuits, against breadth-first   *)
(* search stated without BDDs (module Reachability).                       *)
(***************************************************************************)
EXTENDS BddProve, FiniteSets, TLC

CONSTANTS
  PiCount, LatchCount,  \* the size of the circuits of this run
  Family,               \* "all" circuits of that size or the "named" ones
  MonitorStates         \* bound: monitors raised in that many of the states

(* Monitors that hold in a given number of states, the all-ones one among   *)
(* them, under every input or only when all inputs are one.                 *)
AllOnes == [j \in 1 .. PiCount |-> TRUE]
MCState == [1 .. LatchCount -> BOOLEAN]
MCInput == [1 .. PiCount -> BOOLEAN]

Monitors ==
  UNION {{S \X MCInput, S \X {AllOnes}} :
            S \in {T \in SUBSET MCState :
                     /\ Cardinality(T) \in MonitorStates
                     /\ [i \in 1 .. LatchCount |-> TRUE] \in T}}

(* Circuits with an input and two latches, by name: a counter with enable,  *)
(* a shift register, a lock that opens on 1-0, a frozen one, a saturating   *)
(* counter and a latch pair that every input can set at will.               *)
Bit(b) == IF b THEN 1 ELSE 0
Num(s) == Bit(s[1]) + 2 * Bit(s[2])
Vec(n) == <<n % 2 = 1, (n \div 2) % 2 = 1>>
NamedDeltas ==
  {[p \in MCState \X MCInput |-> Vec((Num(p[1]) + Bit(p[2][1])) % 4)],
   [p \in MCState \X MCInput |-> <<p[2][1], p[1][1]>>],
   [p \in MCState \X MCInput |->
      IF Num(p[1]) = 2 THEN Vec(2)
      ELSE IF p[2][1] THEN Vec(1) ELSE IF Num(p[1]) = 1 THEN Vec(2) ELSE Vec(0)],
   [p \in MCState \X MCInput |-> p[1]],
   [p \in MCState \X MCInput |->
      IF Num(p[1]) = 2 THEN Vec(2) ELSE Vec(Num(p[1]) + Bit(p[2][1]))],
   [p \in MCState \X MCInput |-> <<p[2][1], ~p[2][1]>>]}
(* Every circuit with one latch that matters, the other one staying zero.   *)
OneLatchDeltas ==
  {[p \in MCState \X MCInput |-> <<<<p[1][1], p[2][1]>> \in on, FALSE>>] :
     on \in SUBSET (BOOLEAN \X BOOLEAN)}
Deltas == IF Family = "all" THEN [MCState \X MCInput -> MCState] ELSE NamedDeltas \union OneLatchDeltas

MCCircuits == {[delta |-> d, mon |-> <<m>>] : d \in Deltas, m \in Monitors}

=============================================================================
