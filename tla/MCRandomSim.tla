---------------------------- MODULE MCRandomSim ----------------------------
(***************************************************************************)
(* RandomSim on three small designs: a counter with an active high reset   *)
(* under its default name, one with the same registers, of which one is    *)
(* wider, and a reset of another name, and a toggle with an active low     *)
(* reset.  A wide register is 1 or not like any other.                     *)
(***************************************************************************)
EXTENDS RandomSim

Counted(s) ==
    IF "en" \notin s THEN s \ {"en"}
    ELSE IF "lo" \notin s THEN (s \ {"en"}) \cup {"lo"}
    ELSE IF "hi" \notin s THEN {"hi"} ELSE {}

Counter ==
    [inputs |-> {"en"}, regs |-> {"lo", "hi"}, reset |-> "reset", high |-> TRUE,
     power |-> {}, resetTo |-> {"lo"},
     next |-> [s \in SUBSET {"en", "lo", "hi"} |-> Counted(s)],
     outs |-> <<[s \in SUBSET {"en", "lo", "hi"} |-> s = {"en", "lo", "hi"}],
                [s \in SUBSET {"en", "lo", "hi"} |-> "hi" \in s]>>,
     width |-> [w \in {"en", "lo", "hi", "reset", Clk} |-> 1]]

\* Never leaves lo without hi: (lo, hi) go 00, 11, 01 and back.
Ring(s) ==
    IF {"lo", "hi"} \cap s = {} THEN {"lo", "hi"} ELSE IF "lo" \in s THEN {"hi"} ELSE {}
Paired ==
    [inputs |-> {"en"}, regs |-> {"lo", "hi"}, reset |-> "rst", high |-> TRUE,
     power |-> {}, resetTo |-> {"lo", "hi"},
     next |-> [s \in SUBSET {"en", "lo", "hi"} |-> IF "en" \in s THEN Ring(s) ELSE s \ {"en"}],
     outs |-> <<[s \in SUBSET {"en", "lo", "hi"} |-> "lo" \in s /\ "hi" \notin s]>>,
     width |-> [w \in {"en", "lo", "hi", "rst", Clk} |-> IF w = "hi" THEN 2 ELSE 1]]

Toggle ==
    [inputs |-> {}, regs |-> {"lo"}, reset |-> "reset_n", high |-> FALSE,
     power |-> {"lo"}, resetTo |-> {},
     next |-> [s \in SUBSET {"lo"} |-> {"lo"} \ s],
     outs |-> <<[s \in SUBSET {"lo"} |-> "lo" \in s]>>,
     width |-> [w \in {"lo", "reset_n", Clk} |-> 1]]

MCDesign == [counter |-> Counter, paired |-> Paired, toggle |-> Toggle]
=============================================================================
