------------------------------ MODULE MCCirNet ------------------------------
(***************************************************************************)
(* CirNet with a handful of small files.                                   *)
(***************************************************************************)
EXTENDS CirNet

P(v) == Lit(v, FALSE)
N(v) == Lit(v, TRUE)

(* A shift register with an enable from a Verilog design: an AND shared by  *)
(* an output and a latch, a latch fed by the other, an output that is a     *)
(* complemented latch.  Inputs 1, latches 2 and 3.                          *)
Shifter == [fmt |-> "verilog", pis |-> 1,
            and |-> <<<<P(1), N(3)>>, <<N(4), P(2)>>>>,
            ri |-> <<P(4), P(2)>>, po |-> <<N(5), N(3)>>]

(* A latch that holds, and an input no output needs; the second output is   *)
(* the constant 1.  Inputs 1 to 3, latch 4.                                 *)
Holder == [fmt |-> "aiger", pis |-> 3,
           and |-> <<<<P(3), P(1)>>, <<N(5), N(4)>>>>,
           ri |-> <<N(6)>>, po |-> <<P(6), N(0)>>]

(* The exclusive or of two inputs, from a Verilog design.                   *)
Parity == [fmt |-> "verilog", pis |-> 2,
           and |-> <<<<P(1), P(2)>>, <<N(1), N(2)>>, <<N(3), N(4)>>>>,
           ri |-> <<>>, po |-> <<P(5)>>]

(* Two latches that swap, read from an AIGER file.                          *)
Swapper == [fmt |-> "aiger", pis |-> 1,
            and |-> <<<<P(2), P(1)>>>>,
            ri |-> <<N(3), P(4)>>, po |-> <<P(4)>>]

MCFiles == {Shifter, Holder, Parity, Swapper}

=============================================================================
