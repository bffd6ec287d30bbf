----------------------------- MODULE RandomSim -----------------------------
(***************************************************************************)
(* RAndom Sim and SEt SAfe (src/src/sim/gvSimCmd.cpp), the Yosys pass      *)
(* random_sim (src/src/ext/sim.cc) and the program that pass writes,       *)
(* compiles and runs: a loop that clocks a CXXRTL model of the design,     *)
(* prints its outputs, stops when the output named by SEt SAfe is 1 and,   *)
(* for -Continue, reads its wires from .sim_state.txt and writes them back.*)
(*                                                                         *)
(* The file outlives the program and gv.  A killed simulator ends gv, as   *)
(* the pass calls log_error; the next session may load another design.     *)
(***************************************************************************)
EXTENDS Naturals, Sequences, SequencesExt

CONSTANTS
    Design,      \* bound: the designs, a function on their names; see Wires
    MaxCycles,   \* bound: -SIM_cycle
    MaxTotal,    \* bound: the cycles counted in the state file
    SafeIndices  \* bound: arguments of SEt SAfe

ASSUME RandomSimAssumption == MaxCycles \in Nat /\ MaxTotal \in Nat /\ SafeIndices \subseteq Nat

None == 1000000  \* _property of a new YosysMgr, -1 as an unsigned number

VARIABLES
    design,      \* the design in Yosys
    safe,        \* _property of the YosysMgr
    file,        \* .sim_state.txt: [state, cycle, on, width, by]
    run          \* the simulator: [pc, opt, top, cycle, base, printed, unsafe, by]

\* `by' is not in the code: the designs whose runs led to the state, in order.
vars == <<design, safe, file, run>>

D == Design[design]

-----------------------------------------------------------------------------
(***************************************************************************)
(* CXXRTL.  top = [on, prev]: the wires that are 1, and the clock at the   *)
(* last step.  A design is [inputs, regs, reset, high, power, resetTo,     *)
(* next, outs, width]; reset is a wire, active high or low.                *)
(***************************************************************************)
Clk == "clk"
Wires(d) == d.inputs \cup d.regs \cup {d.reset, Clk}

\* A synchronous design: a wire has one part in it, its registers start and
\* are reset to values of theirs, and what they and the outputs become is a
\* function of the registers and inputs.
Synchronous(d) ==
    /\ Clk \notin d.inputs \cup d.regs \cup {d.reset}
    /\ d.regs \cap (d.inputs \cup {d.reset}) = {}
    /\ d.reset \notin d.inputs
    /\ d.high \in BOOLEAN
    /\ d.power \in SUBSET d.regs /\ d.resetTo \in SUBSET d.regs
    /\ d.next \in [SUBSET (d.regs \cup d.inputs) -> SUBSET d.regs]
    /\ d.outs \in Seq([SUBSET (d.regs \cup d.inputs) -> BOOLEAN])
    /\ DOMAIN d.width = Wires(d)

ASSUME DesignAssumption ==
    /\ "others" \notin DOMAIN Design
    /\ \A n \in DOMAIN Design : Synchronous(Design[n])

PowerUp(d) == [on |-> d.power, prev |-> FALSE]

SetWire(t, w, b) == [t EXCEPT !.on = IF b THEN @ \cup {w} ELSE @ \ {w}]
SetInputs(t, wires, on) == [t EXCEPT !.on = (@ \ wires) \cup on]

InReset(d, t) == d.reset \in t.on <=> d.high
Clocked(d, t) ==
    IF InReset(d, t) THEN d.resetTo ELSE d.next[t.on \cap (d.regs \cup d.inputs)]
Step(d, t) ==
    [on |-> IF Clk \in t.on /\ ~t.prev THEN (t.on \ d.regs) \cup Clocked(d, t) ELSE t.on,
     prev |-> Clk \in t.on]
OutputsOf(d, on) == [i \in DOMAIN d.outs |-> d.outs[i][on]]
Outputs(d, t) == OutputsOf(d, t.on \cap (d.regs \cup d.inputs))

-----------------------------------------------------------------------------
(***************************************************************************)
(* The commands.                                                           *)
(***************************************************************************)
NoOptions == [reset |-> FALSE, continue |-> FALSE, cycles |-> 0]
Options == [reset : BOOLEAN, continue : BOOLEAN, cycles : 0 .. MaxCycles]

\* -RST or -RST_N name the reset wire, as its polarity asks for; neither can
\* be given together with -Continue.
Refused(o) == o.reset /\ o.continue

\* The wires the loop drives: without -RST or -RST_N a wire is taken for a
\* reset by its name alone, and is an input otherwise.
ResetNames(d, o) == {"reset", "reset_n"} \cup (IF o.reset THEN {d.reset} ELSE {})
Driven(d, o) == (d.inputs \cup {d.reset}) \ ResetNames(d, o)

NoFile == [state |-> "absent", cycle |-> 0, on |-> {}, width |-> <<>>, by |-> <<>>]
EmptyFile == [NoFile EXCEPT !.state = "empty"]
NoRun == [pc |-> "idle", opt |-> NoOptions, top |-> [on |-> {}, prev |-> FALSE],
          cycle |-> 0, base |-> 0, printed |-> <<>>, unsafe |-> FALSE, by |-> <<>>]

Init ==
    /\ design \in DOMAIN Design /\ safe = None
    /\ file = NoFile /\ run = NoRun

\* gv ends, and is started with some design.
NewSession ==
    /\ run.pc = "idle"
    /\ design' \in DOMAIN Design /\ safe' = None
    /\ run' = NoRun
    /\ UNCHANGED file

SetSafe ==
    /\ run.pc = "idle"
    /\ safe' \in SafeIndices
    /\ run' = NoRun
    /\ UNCHANGED <<design, file>>

-----------------------------------------------------------------------------
(***************************************************************************)
(* The simulator.                                                          *)
(***************************************************************************)
\* The wires of the file that the design has, in the same width.
Found(d, f) == {w \in Wires(d) \cap DOMAIN f.width : f.width[w] = d.width[w]}

(* Slip: only the first bit of a wire is read back.                         *)
LoadedNarrow(d, f) ==
    LET found == {w \in Found(d, f) : d.width[w] = 1}
    IN  [PowerUp(d) EXCEPT !.on = (@ \ found) \cup (f.on \cap found)]

Loaded(d, f) == [PowerUp(d) EXCEPT !.on = (@ \ Found(d, f)) \cup (f.on \cap Found(d, f))]

(* Slip: every run begins with a step, with the clock as it was read.       *)
StartingStepped(d, o, f) == Step(d, IF o.continue THEN Loaded(d, f) ELSE PowerUp(d))

Starting(d, o, f) == IF o.continue THEN Loaded(d, f) ELSE Step(d, PowerUp(d))

RandomSim ==
    /\ run.pc = "idle"
    /\ \E o \in Options :
        /\ ~Refused(o)
        /\ o.continue => file.cycle + o.cycles <= MaxTotal
        /\ run' = [NoRun EXCEPT !.pc = "loop", !.opt = o, !.top = Starting(D, o, file),
                                !.base = IF o.continue THEN file.cycle ELSE 0,
                                !.by = Append(IF o.continue THEN file.by ELSE <<>>, design)]
    /\ UNCHANGED <<design, safe, file>>

(* Slip: reset is asserted in every cycle but the first.                    *)
DriveResetLate(t, d, o, cycle) == IF o.reset THEN SetWire(t, d.reset, cycle # 0 <=> d.high) ELSE t

DriveReset(t, d, o, cycle) == IF o.reset THEN SetWire(t, d.reset, cycle = 0 <=> d.high) ELSE t

\* The inputs are set in each cycle but the first, which is for the reset; in
\* a continued run in the first as well.
Drives(d, o, cycle) == IF cycle > 0 \/ o.continue THEN Driven(d, o) ELSE {}

Low(t, d) == Step(d, SetWire(t, Clk, FALSE))
High(t, d) == Step(d, SetWire(t, Clk, TRUE))
CycleOf(t, in) ==
    High(SetInputs(DriveReset(Low(t, D), D, run.opt, run.cycle),
                   Drives(D, run.opt, run.cycle), in), D)

IsUnsafe(outs) == safe + 1 \in DOMAIN outs /\ outs[safe + 1]

(* Slip: after an unsafe cycle the run begins anew instead of ending.       *)
AfterCycleAgain(t, outs) ==
    IF IsUnsafe(outs) THEN [run EXCEPT !.top = t, !.unsafe = TRUE, !.cycle = 0, !.printed = <<>>]
    ELSE [run EXCEPT !.top = t, !.cycle = @ + 1,
                     !.printed = Append(@, [at |-> run.base + run.cycle + 1, regs |-> t.on \cap D.regs, outs |-> outs])]

AfterCycle(t, outs) ==
    [run EXCEPT !.top = t, !.unsafe = IsUnsafe(outs), !.cycle = @ + 1,
                !.pc = IF IsUnsafe(outs) THEN "save" ELSE "loop",
                !.printed = Append(@, [at |-> run.base + run.cycle + 1,
                                       regs |-> t.on \cap D.regs, outs |-> outs])]

Cycle ==
    /\ run.pc = "loop" /\ run.cycle < run.opt.cycles
    /\ \E in \in SUBSET Drives(D, run.opt, run.cycle) :
        LET t == CycleOf(run.top, in) IN run' = AfterCycle(t, Outputs(D, t))
    /\ UNCHANGED <<design, safe, file>>

LoopEnds ==
    /\ run.pc = "loop" /\ run.cycle = run.opt.cycles
    /\ run' = [run EXCEPT !.pc = "save"]
    /\ UNCHANGED <<design, safe, file>>

\* Only a continued run saves; opening the file empties it.
OpenState ==
    /\ run.pc = "save" /\ run.opt.continue
    /\ file' = EmptyFile
    /\ run' = [run EXCEPT !.pc = "write"]
    /\ UNCHANGED <<design, safe>>

\* The last of the designs, and whether there was another.
Only(by) == IF Range(by) = {Last(by)} THEN <<Last(by)>> ELSE <<"others", Last(by)>>

\* The cycles asked for are counted, whether or not the loop was left early.
WriteState ==
    /\ run.pc = "write"
    /\ file' = [state |-> "saved", cycle |-> run.base + run.opt.cycles, on |-> run.top.on,
                width |-> D.width, by |-> Only(run.by)]
    /\ run' = [run EXCEPT !.pc = "idle"]
    /\ UNCHANGED <<design, safe>>

Finish ==
    /\ run.pc = "save" /\ ~run.opt.continue
    /\ run' = [run EXCEPT !.pc = "idle"]
    /\ UNCHANGED <<design, safe, file>>

\* The simulator is killed, or fails: log_error ends gv.
Killed ==
    /\ run.pc # "idle"
    /\ run' = NoRun
    /\ design' \in DOMAIN Design /\ safe' = None
    /\ UNCHANGED file

Simulate == Cycle \/ LoopEnds \/ OpenState \/ WriteState \/ Finish
Next == NewSession \/ SetSafe \/ RandomSim \/ Simulate \/ Killed

Spec == Init /\ [][Next]_vars
\* The simulator is a process of its own that waits for nobody.
FairSpec == Spec /\ WF_vars(Simulate)

-----------------------------------------------------------------------------
(***************************************************************************)
(* What is true of the runs.                                               *)
(***************************************************************************)
(* Every cycle printed is one edge of the clock, numbered on from the one  *)
(* before, and a continued run goes on in the registers the last one of    *)
(* the design was left in, also in another session of gv.                  *)
Promised == INSTANCE ClockedRuns WITH
    running <- run.pc # "idle",
    regs <- IF run.pc = "idle" THEN {} ELSE run.top.on \cap D.regs,
    count <- IF run.pc = "idle" THEN 0 ELSE run.base + Len(run.printed),
    kept <- IF file.state # "saved" THEN {}
            ELSE {[design |-> Last(file.by), count |-> file.cycle,
                   regs |-> file.on \cap Design[Last(file.by)].regs]}
ContinuesWhereItStopped == Promised!RunsSpec

\* The registers of a design can become r: every set that holds those of
\* power-up and of reset and is closed under clocks holds r.
ClosedUnderClocks(d, S) ==
    /\ d.power \in S /\ d.resetTo \in S
    /\ \A r \in S, in \in SUBSET d.inputs : d.next[r \cup in] \in S
Reachable(d) ==
    {r \in SUBSET d.regs : \A S \in SUBSET SUBSET d.regs : ClosedUnderClocks(d, S) => r \in S}

(* "property unsafe!!!" is printed at the first cycle of the run in which  *)
(* the output chosen by SEt SAfe is 1, and the design can get there, as    *)
(* long as no other design has had its part in the state file.             *)
ShownAt(d, rows, index) == {k \in DOMAIN rows : index + 1 \in DOMAIN d.outs /\ rows[k].outs[index + 1]}
RowIsReal(d, row) ==
    /\ row.regs \in Reachable(d)
    /\ \E in \in SUBSET d.inputs : row.outs = OutputsOf(d, row.regs \cup in)
RowsAreReal(d, rows) == \A k \in DOMAIN rows : RowIsReal(d, rows[k])
Pure == Range(run.by) = {design}
UnsafeIsReal ==
    /\ ShownAt(D, run.printed, safe) = IF run.unsafe THEN {Len(run.printed)} ELSE {}
    /\ Pure => RowsAreReal(D, run.printed)

(* A run with -RST or -RST_N is out of reset in every cycle but the first, *)
(* whose registers are those of the reset, and goes on from there.         *)
RowsFromReset(d, rows) ==
    \A k \in DOMAIN rows :
        IF k = 1 THEN rows[k].regs = d.resetTo
        ELSE \E in \in SUBSET d.inputs : rows[k].regs = d.next[rows[k - 1].regs \cup in]
ResetComesFirst == run.opt.reset => RowsFromReset(D, run.printed)

(* A simulation that is begun comes to an end.                             *)
SimEnds == run.pc # "idle" ~> run.pc = "idle"
=============================================================================
